-------------------------- MODULE InsightsRequests --------------------------
(***************************************************************************)
(* GET /insights, /insights/details, /stats and /points/tracked_months     *)
(* over a table that keeps the promise of PointTable: the handlers         *)
(* (internal/httpapi/insights.go) with the queries they run                *)
(* (internal/store/points.go), one statement at a time, none of them in a  *)
(* transaction, while uploads commit in between and time goes on.          *)
(*                                                                         *)
(* Readers change nothing, so one handler stands for all.  The web         *)
(* settings are read for the unit when the URL has none; WebSettings shows *)
(* that there is a usable one, and a failure leaves it empty.              *)
(***************************************************************************)
EXTENDS PointTable, Insights

CONSTANTS
  Ts, Place,   \* the timestamp and the place of each key
  Epoch,       \* time.Now when clock is 0
  Locations,   \* the time zones, one of which is configured
  Queries,     \* the URLs asked for
  Nothing      \* no answer

Query == [kind : {"overview", "details", "stats", "tracked"},
          year : Int,   \* 0: none, or not a number
          unit : {"none", "km", "mi", "other"}]

(* A zone: offsets are less than a day, and the clocks are not changed on  *)
(* the 31 December or 1 January of UTC.                                    *)
QuietNewYears(zone) ==
  /\ zone # <<>>
  /\ \A i \in DOMAIN zone :
       /\ zone[i].offset \in (-DaySecs + 1)..(DaySecs - 1)
       /\ i > 1 => LET day == zone[i].from \div DaySecs IN
                   zone[i].from \in Int /\ Year(day - 1) = Year(day + 1)

Coord(k) == [ts |-> Ts[k], place |-> Place[k]]

(* A key is a timestamp and a place.                                       *)
ASSUME RequestsAssumption ==
  /\ IsFiniteSet(Keys)
  /\ \A j, k \in Keys : j # k => Coord(j) # Coord(k)
  /\ \A j, k \in Keys : Distance[<<Place[j], Place[k]>>] \in Nat
  /\ Ts \in [Keys -> Int]
  /\ Queries \subseteq Query
  /\ Epoch \in Int
  /\ \A zone \in Locations : zone \in Seq([from : Int, offset : Int]) /\ QuietNewYears(zone)

VARIABLES
  loc,     \* TIME_ZONE
  url,     \* the request
  pc,      \* where its handler is
  before,  \* history: the keys stored when the request came
  years,   \* YearsWithPoints as read
  unit,    \* the unit of the answer
  year,    \* its year
  coords,  \* year -> the coordinates read for it
  answer   \* the body of the answer with 200

readVars == <<loc, url, pc, before, years, unit, year, coords, answer>>
allVars == <<rows, clock, loc, url, pc, before, years, unit, year, coords, answer>>

Stored == {k \in Keys : rows[k] # NoRow}

-----------------------------------------------------------------------------
(* The queries.                                                            *)
TrackedMonths ==
  LET day(k) == Day(Ts[k], loc) IN
  [y \in {Year(day(k)) : k \in Stored} |-> {Month(day(k)) : k \in {j \in Stored : Year(day(j)) = y}}]

(* The one sequence of them, latest first, as the set of it.               *)
YearsWithPoints ==
  {s \in SetToSeqs(DOMAIN TrackedMonths) : \A i, j \in DOMAIN s : i < j => s[i] > s[j]}

(* ORDER BY timestamp ASC, in any order where timestamps are equal.        *)
CoordsBetween(bounds) ==
  LET found == {Coord(k) : k \in {j \in Stored : bounds.start <= Ts[j] /\ Ts[j] <= bounds.end}} IN
  {s \in SetToSeqs(found) : \A i, j \in DOMAIN s : i < j => s[i].ts <= s[j].ts}

WithCoords(y, s) == [x \in DOMAIN coords \cup {y} |-> IF x = y THEN s ELSE coords[x]]

PointCount == Cardinality(Stored)

Now == Epoch + clock

-----------------------------------------------------------------------------
Init ==
  /\ TableInit
  /\ loc \in Locations
  /\ url \in Queries
  /\ pc = "idle"
  /\ before = {}
  /\ years = <<>>
  /\ unit = "none" /\ year = 0
  /\ coords = <<>>
  /\ answer = Nothing

Receive ==
  /\ pc = "idle"
  /\ before' = Stored
  /\ pc' = "years"
  /\ UNCHANGED <<rows, clock, loc, url, years, unit, year, coords, answer>>

ReadYears ==
  /\ pc = "years" /\ url.kind # "tracked"
  /\ years' \in YearsWithPoints
  /\ pc' = IF url.kind = "stats" THEN "coords" ELSE "scope"
  /\ UNCHANGED <<rows, clock, loc, url, before, unit, year, coords, answer>>

(* The rest of insightsScope: the unit from the URL or the settings, the   *)
(* year from the URL, the latest with points, or the current one.          *)
PickScope ==
  /\ pc = "scope"
  /\ unit' \in IF url.unit = "none" THEN {"none", "km", "mi"} ELSE {url.unit}
  /\ year' = IF url.year # 0 THEN url.year
             ELSE IF years # <<>> THEN Head(years)
             ELSE Year(Day(Now, loc))
  /\ pc' = "year"
  /\ UNCHANGED <<rows, clock, loc, url, before, years, coords, answer>>

ReadYear ==
  /\ pc = "year"
  /\ \E s \in CoordsBetween(YearBounds(year, loc)) : coords' = WithCoords(year, s)
  /\ pc' = IF url.kind = "details" THEN "previous" ELSE "answer"
  /\ UNCHANGED <<rows, clock, loc, url, before, years, unit, year, answer>>

ReadPreviousYear ==
  /\ pc = "previous"
  /\ \E s \in CoordsBetween(YearBounds(year - 1, loc)) : coords' = WithCoords(year - 1, s)
  /\ pc' = "answer"
  /\ UNCHANGED <<rows, clock, loc, url, before, years, unit, year, answer>>

(* One turn of the loop of stats.                                          *)
ReadCoords ==
  /\ pc = "coords" /\ Cardinality(DOMAIN coords) < Len(years)
  /\ LET y == years[Cardinality(DOMAIN coords) + 1] IN
     \E s \in CoordsBetween(YearBounds(y, loc)) : coords' = WithCoords(y, s)
  /\ UNCHANGED <<rows, clock, loc, url, pc, before, years, unit, year, answer>>

AnswerTracked ==
  /\ pc = "years" /\ url.kind = "tracked"
  /\ answer' = TrackedMonths
  /\ pc' = "done"
  /\ UNCHANGED <<rows, clock, loc, url, before, years, unit, year, coords>>

AnswerStats ==
  /\ pc = "coords" /\ Cardinality(DOMAIN coords) = Len(years)
  /\ answer' = ComputeStats(coords, PointCount, loc)
  /\ pc' = "done"
  /\ UNCHANGED <<rows, clock, loc, url, before, years, unit, year, coords>>

AnswerInsights ==
  /\ pc = "answer"
  /\ \/ /\ url.kind = "overview"
        /\ answer' \in ComputeOverview(coords[year], years, year, Now, loc, unit)
     \/ /\ url.kind = "details"
        /\ answer' = ComputeDetails(coords[year], coords[year - 1], year, loc, unit)
  /\ pc' = "done"
  /\ UNCHANGED <<rows, clock, loc, url, before, years, unit, year, coords>>

(* A statement fails: 500.                                                 *)
Fail ==
  /\ pc \in {"years", "year", "previous", "coords"}
  /\ pc' = "failed"
  /\ UNCHANGED <<rows, clock, loc, url, before, years, unit, year, coords, answer>>

Read == \/ Receive \/ ReadYears \/ PickScope \/ ReadYear \/ ReadPreviousYear \/ ReadCoords
        \/ AnswerTracked \/ AnswerStats \/ AnswerInsights \/ Fail

Next == Read \/ (TableNext /\ UNCHANGED readVars)

Spec == Init /\ [][Next]_allVars

-----------------------------------------------------------------------------
(* The points of a local calendar year.                                    *)
OfYear(S, y) == {k \in S : Year(Day(Ts[k], loc)) = y}

Coords(S) == {Coord(k) : k \in S}

(* What is read for a year are points of that year of local time, and all  *)
(* that were stored when the request came: the bounds from one conversion  *)
(* of local time fit the years from the other one, in any zone whose       *)
(* clocks rest at New Year.                                                *)
ReadsWholeYears ==
  \A y \in DOMAIN coords :
    /\ Coords(OfYear(before, y)) \subseteq ToSet(coords[y])
    /\ ToSet(coords[y]) \subseteq Coords(OfYear(Stored, y))

(* The points /stats counts are no fewer than those of the years it lists, *)
(* exactly as many when nothing arrives, and no year listed is empty.      *)
StatsAddUp ==
  pc = "done" /\ url.kind = "stats" =>
    LET listed == SumOver([y \in DOMAIN coords |-> Len(coords[y])], DOMAIN coords) IN
    /\ listed <= answer.points
    /\ Stored = before => listed = answer.points
    /\ \A y \in DOMAIN coords : coords[y] # <<>>

(* Every counted distance of the year's points is in the totals and on the *)
(* heat map: the filter by year, which parses dates as UTC, loses none.    *)
TotalsCountAll ==
  pc = "done" /\ url.kind = "overview" =>
    LET s == coords[year]
        all == SumOver(Meters(s), Counted(s))
    IN  /\ answer.totals.distance = Convert(all, answer.totals.unit)
        /\ SumOver(answer.heatmap.data, DOMAIN answer.heatmap.data) = all
        /\ answer.totals.days = answer.heatmap.active

(* The comparison has the sign of the difference of what /insights says of *)
(* the two years, and is there exactly if the year before has points.      *)
ComparisonTruthful ==
  pc = "done" /\ url.kind = "details" =>
    LET Km(y) == Convert(SumOver(Meters(coords[y]), Counted(coords[y])), KnownUnit(unit))
        change == answer.comparison[1].percent
    IN  /\ answer.comparison # <<>> <=> coords[year - 1] # <<>>
        /\ answer.comparison # <<>> =>
             /\ change > 0 => Km(year) > Km(year - 1)
             /\ change < 0 => Km(year) < Km(year - 1)
             /\ change = 0 => 200 * (IF Km(year) > Km(year - 1)
                                     THEN Km(year) - Km(year - 1)
                                     ELSE Km(year - 1) - Km(year)) <= Km(year - 1)
=============================================================================
