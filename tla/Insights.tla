------------------------------ MODULE Insights ------------------------------
(***************************************************************************)
(* The computations behind GET /insights, /insights/details and /stats     *)
(* (internal/insights/insights.go), as operators.  A coordinate is a time  *)
(* and a place; Distance stands for the haversine formula.  Where the code *)
(* ranges over a map and the order shows, the operator is the set of all   *)
(* outcomes.                                                               *)
(***************************************************************************)
EXTENDS Calendar, SequencesExt

CONSTANTS
  Distance,   \* of two places, in fractions of a meter
  PerMeter,   \* fractions in a meter
  MaxGap,     \* 6 hours in the code
  MaxSpeed,   \* 300 m/s in the code
  PerUnit,    \* meters in a "km" and in a "mi"
  NoMonth     \* biggestMonth: null

ASSUME InsightsAssumption ==
  /\ PerMeter \in Nat \ {0} /\ MaxGap \in Nat /\ MaxSpeed \in Nat
  /\ PerUnit \in [{"km", "mi"} -> Nat \ {0}]

-----------------------------------------------------------------------------
(* int(math.Round(a / b)) for a >= 0, and for any a.                       *)
RoundDiv(a, b) == (2 * a + b) \div (2 * b)

RoundAway(a, b) == IF a < 0 THEN -RoundDiv(-a, b) ELSE RoundDiv(a, b)

SumOver(f, S) == MapThenSumSet(LAMBDA x : f[x], S)

(* sort.Ints, sort.Slice, sort.Sort: a set of numbers in ascending order.  *)
Ascending(S) ==
  [i \in 1..Cardinality(S) |-> CHOOSE x \in S : Cardinality({y \in S : y < x}) = i - 1]

(* int(math.Round(geo.ConvertDistance(meters, unit)))                      *)
Convert(meters, unit) == RoundDiv(meters, PerUnit[unit])

KnownUnit(unit) == IF unit = "mi" THEN "mi" ELSE "km"

(* YearBounds                                                              *)
YearBoundsUTC(year, loc) ==  \* mutant: time.UTC for loc
  [start |-> FirstDay(year) * DaySecs, end |-> FirstDay(year + 1) * DaySecs - 1]

YearBoundsShared(year, loc) ==  \* mutant: without Add(-time.Second)
  [start |-> Midnight(FirstDay(year), loc), end |-> Midnight(FirstDay(year + 1), loc)]

YearBounds(year, loc) ==
  [start |-> Midnight(FirstDay(year), loc), end |-> Midnight(FirstDay(year + 1), loc) - 1]

-----------------------------------------------------------------------------
(* The coordinates whose distance from the one before counts.              *)
Counted(coords) ==
  {i \in 2..Len(coords) :
     LET dt == coords[i].ts - coords[i - 1].ts
         d == Distance[<<coords[i - 1].place, coords[i].place>>]
     IN  dt > 0 /\ dt <= MaxGap /\ d > 0 /\ d <= MaxSpeed * dt * PerMeter}

Meters(coords) ==
  [i \in Counted(coords) |-> RoundDiv(Distance[<<coords[i - 1].place, coords[i].place>>], PerMeter)]

DistancesByUTCDay(coords, loc) ==  \* mutant: without In(loc)
  [day \in {coords[i].ts \div DaySecs : i \in Counted(coords)} |->
     SumOver(Meters(coords), {i \in Counted(coords) : coords[i].ts \div DaySecs = day})]

DistancesByDay(coords, loc) ==
  [day \in {Day(coords[i].ts, loc) : i \in Counted(coords)} |->
     SumOver(Meters(coords), {i \in Counted(coords) : Day(coords[i].ts, loc) = day})]

ActiveDays(daily, year) == {day \in DOMAIN daily : daily[day] > 0 /\ Year(day) = year}

MonthMeters(daily, days) ==
  [m \in {Month(day) : day \in days} |-> SumOver(daily, {day \in days : Month(day) = m})]

(* The month of most meters, any of them if there are several.             *)
BiggestMonths(byMonth) ==
  {m \in DOMAIN byMonth : \A n \in DOMAIN byMonth : byMonth[n] <= byMonth[m]}

TotalsFromDaily(daily, year, unit) ==
  LET days == {day \in DOMAIN daily : daily[day] > 0 /\ Year(day) = year}
      byMonth == MonthMeters(daily, days)
      Totals(biggest) == [distance |-> Convert(SumOver(daily, days), unit), unit |-> unit,
                          days |-> Cardinality(days), biggest |-> biggest]
  IN  IF days = {} THEN {Totals(NoMonth)}
      ELSE {Totals([month |-> m, distance |-> Convert(byMonth[m], unit)]) :
              m \in BiggestMonths(byMonth)}

-----------------------------------------------------------------------------
(* streaks: the dates are local midnights, which AddDate steps through.    *)
Dates(days, loc) == Ascending({Midnight(day, loc) : day \in days})

FollowsIn24Hours(t, u, loc) == u = t + DaySecs  \* mutant: Add(24 * time.Hour)

Follows(t, u, loc) == u = AddDate(t, 1, loc)

(* The first index of the run that ends at i, as cur and runStart keep it. *)
RunStart(dates, loc) ==
  LET start[i \in DOMAIN dates] ==
        IF i > 1 /\ Follows(dates[i - 1], dates[i], loc) THEN start[i - 1] ELSE i
  IN  start

(* The longest run, the first one if there are several.                    *)
LongestRun(days, loc) ==
  LET dates == Dates(days, loc)
      start == RunStart(dates, loc)
      Length(i) == i - start[i] + 1
      end == CHOOSE i \in DOMAIN dates :
               /\ \A j \in DOMAIN dates : Length(j) <= Length(i)
               /\ \A j \in 1..(i - 1) : Length(j) < Length(i)
  IN  [length |-> Length(end), start |-> Day(dates[start[end]], loc), end |-> Day(dates[end], loc)]

(* Days found in set, stepping back from t until one is missing.           *)
RunBack(set, t, loc) ==
  LET at[n \in 0..Cardinality(set)] == IF n = 0 THEN t ELSE AddDate(at[n - 1], -1, loc)
  IN  Min({n \in 0..Cardinality(set) : Day(at[n], loc) \notin set} \cup {Cardinality(set)})

CurrentRunOfToday(days, year, now, loc) ==  \* mutant: ref is never the year's end
  LET set == {Day(Midnight(day, loc), loc) : day \in days}
      check == Midnight(Day(now, loc), loc)
      run == RunBack(set, check, loc)
  IN  IF run > 0 THEN run ELSE RunBack(set, AddDate(check, -1, loc), loc)

CurrentRun(days, year, now, loc) ==
  LET set == {Day(Midnight(day, loc), loc) : day \in days}
      yearEnd == Midnight(FirstDay(year + 1) - 1, loc)
      ref == Min({now, yearEnd})
      check == Midnight(Day(ref, loc), loc)
      run == RunBack(set, check, loc)
  IN  IF run > 0 THEN run ELSE RunBack(set, AddDate(check, -1, loc), loc)

-----------------------------------------------------------------------------
(* percentile: the rank is rounded, never out of bounds.                   *)
Percentile(sorted, pct) ==
  sorted[Min({RoundDiv(pct * (Len(sorted) - 1), 100) + 1, Len(sorted)})]

SortedMetersNot(daily, days) ==  \* mutant: without sort.Ints
  LET order == Ascending(days) IN [i \in DOMAIN order |-> daily[order[i]]]

SortedMeters(daily, days) ==
  [i \in 1..Cardinality(days) |->
     CHOOSE v \in {daily[day] : day \in days} :
       /\ Cardinality({day \in days : daily[day] < v}) < i
       /\ i <= Cardinality({day \in days : daily[day] <= v})]

NoHeatmap ==
  [data |-> <<>>, p25 |-> 1000, p50 |-> 5000, p75 |-> 10000, p90 |-> 20000,
   max |-> 0, active |-> 0, current |-> 0, longest |-> 0, start |-> "", end |-> ""]

HeatmapFromDaily(daily, year, now, loc) ==
  LET days == ActiveDays(daily, year)
      sorted == SortedMeters(daily, days)
      longest == LongestRun(days, loc)
  IN  IF days = {} THEN NoHeatmap
      ELSE [data |-> [day \in days |-> daily[day]],
            p25 |-> Percentile(sorted, 25), p50 |-> Percentile(sorted, 50),
            p75 |-> Percentile(sorted, 75), p90 |-> Percentile(sorted, 90),
            max |-> Last(sorted), active |-> Len(sorted),
            current |-> CurrentRun(days, year, now, loc),
            longest |-> longest.length, start |-> longest.start, end |-> longest.end]

-----------------------------------------------------------------------------
Season(m) ==
  CASE m \in {12, 1, 2} -> "winter"
    [] m \in 3..5 -> "spring"
    [] m \in 6..8 -> "summer"
    [] OTHER -> "autumn"

(* How often each value occurs.                                            *)
CountBy(values) ==
  [v \in ToSet(values) |-> Cardinality({i \in DOMAIN values : values[i] = v})]

PatternsFromCoords(coords, loc) ==
  LET day == [i \in DOMAIN coords |-> Day(coords[i].ts, loc)] IN
  [timeOfDay |-> CountBy([i \in DOMAIN coords |-> Hour(coords[i].ts, loc)]),
   dayOfWeek |-> CountBy([i \in DOMAIN coords |-> Weekday(day[i])]),
   seasonality |-> CountBy([i \in DOMAIN coords |-> Season(Month(day[i]))])]

PercentChange(now, prev) ==
  IF prev = 0 THEN (IF now = 0 THEN 0 ELSE 100) ELSE RoundAway((now - prev) * 100, prev)

ComputeOverview(coords, years, year, now, loc, unit) ==
  LET daily == DistancesByDay(coords, loc) IN
  {[year |-> year, years |-> years, totals |-> totals,
    heatmap |-> HeatmapFromDaily(daily, year, now, loc)] :
     totals \in TotalsFromDaily(daily, year, KnownUnit(unit))}

ComparisonOfYear(thisYear, prevYear, year, loc, unit) ==  \* mutant: year for year - 1
  LET this == CHOOSE t \in TotalsFromDaily(DistancesByDay(thisYear, loc), year, unit) : TRUE
      prev == CHOOSE t \in TotalsFromDaily(DistancesByDay(prevYear, loc), year, unit) : TRUE
  IN  [percent |-> PercentChange(this.distance, prev.distance), days |-> this.days - prev.days]

Comparison(thisYear, prevYear, year, loc, unit) ==
  LET this == CHOOSE t \in TotalsFromDaily(DistancesByDay(thisYear, loc), year, unit) : TRUE
      prev == CHOOSE t \in TotalsFromDaily(DistancesByDay(prevYear, loc), year - 1, unit) : TRUE
  IN  [percent |-> PercentChange(this.distance, prev.distance), days |-> this.days - prev.days]

ComputeDetails(thisYear, prevYear, year, loc, unit) ==
  [year |-> year,
   comparison |-> IF prevYear = <<>> THEN <<>>
                  ELSE <<Comparison(thisYear, prevYear, year, loc, KnownUnit(unit))>>,
   patterns |-> PatternsFromCoords(thisYear, loc)]

BookedMonthShifted(day, loc) ==  \* mutant: the date is parsed in UTC, then shown in loc
  Month(Day(day * DaySecs, loc))

(* The month a date is counted for: of the midnight ParseInLocation makes, *)
(* which is on the day before where that midnight is skipped.              *)
BookedMonth(day, loc) == Month(Day(Midnight(day, loc), loc))

(* The year is rounded once, the months day by day.                        *)
YearStats(daily, loc) ==
  [km |-> Convert(SumOver(daily, DOMAIN daily), "km"),
   monthly |-> LET km == [day \in DOMAIN daily |-> Convert(daily[day], "km")]
               IN  [m \in 1..12 |-> SumOver(km, {day \in DOMAIN daily : BookedMonth(day, loc) = m})]]

ComputeStats(byYear, points, loc) ==
  LET yearly == [y \in DOMAIN byYear |-> YearStats(DistancesByDay(byYear[y], loc), loc)] IN
  [km |-> MapThenSumSet(LAMBDA y : yearly[y].km, DOMAIN yearly),
   points |-> points,
   years |-> Reverse(Ascending(DOMAIN yearly)),
   yearly |-> yearly]
=============================================================================
