------------------------------- MODULE Streaks -------------------------------
(***************************************************************************)
(* What the overview and the statistics say of one year while points of    *)
(* any of its days arrive and time goes on: streaks, percentiles, months.  *)
(* The state is the meters per day that distancesByDay gives for the year, *)
(* zero for a day of points that hardly moved.                             *)
(***************************************************************************)
EXTENDS Insights

CONSTANTS
  Zones,      \* the time zones, one of which is configured
  Years,      \* the years asked for
  Days,       \* the days of the year on which points arrive, from 0
  Walks,      \* the meters of one upload
  MaxMeters,  \* bound on the meters of a day
  Times       \* the times at which somebody asks, in order

ASSUME StreaksAssumption ==
  /\ \A zone \in Zones : zone \in Seq([from : Int, offset : Int]) /\ zone # <<>>
  /\ Years \subseteq Int
  /\ Days \subseteq 0..(YearDays - 1)
  /\ Walks \subseteq Nat /\ MaxMeters \in Nat
  /\ Times \in Seq(Int) /\ Times # <<>>
  /\ \A i, j \in DOMAIN Times : i < j => Times[i] < Times[j]

VARIABLES
  tz,     \* TIME_ZONE
  shown,  \* the year asked for
  asked,  \* the index of now in Times
  daily   \* meters per day

streakVars == <<tz, shown, asked, daily>>

now == Times[asked]

StreaksInit ==
  /\ tz \in Zones
  /\ shown \in Years
  /\ asked = 1
  /\ daily = <<>>

(* Points arrive for a day, today's or an earlier one's.                   *)
Walk ==
  /\ \E d \in Days, meters \in Walks :
       LET day == FirstDay(shown) + d
           before == IF day \in DOMAIN daily THEN daily[day] ELSE 0
       IN  /\ before + meters <= MaxMeters
           /\ daily' = [x \in DOMAIN daily \cup {day} |->
                        IF x = day THEN before + meters ELSE daily[x]]
  /\ UNCHANGED <<tz, shown, asked>>

TimePasses ==
  /\ asked < Len(Times)
  /\ asked' = asked + 1
  /\ UNCHANGED <<tz, shown, daily>>

StreaksNext == Walk \/ TimePasses

StreaksSpec == StreaksInit /\ [][StreaksNext]_streakVars

-----------------------------------------------------------------------------
(* A zone that neither skips nor repeats a midnight: changes are days      *)
(* apart, and up to each of them it is the same day by either offset.      *)
QuietMidnights(zone) ==
  /\ \A i \in DOMAIN zone : zone[i].offset \in (-DaySecs + 1)..(DaySecs - 1)
  /\ \A i, j \in DOMAIN zone : 1 < i /\ i < j => zone[j].from - zone[i].from >= 2 * DaySecs
  /\ \A i \in DOMAIN zone : i > 1 =>
       (zone[i].from - 1 + zone[i - 1].offset) \div DaySecs
         = (zone[i].from - 1 + zone[i].offset) \div DaySecs

Active == {day \in DOMAIN daily : daily[day] > 0}

Heatmap == HeatmapFromDaily(daily, shown, now, tz)

(* longestStreak is the length of the longest row of consecutive calendar  *)
(* days with movement, and its start and end are the first such row, also  *)
(* across days of 23 or 25 hours and across months.                        *)
LongestIsLongest ==
  Active # {} =>
    LET Row(first, last) == first <= last /\ first..last \subseteq Active
        h == Heatmap
    IN  /\ Row(h.start, h.end) /\ h.longest = h.end - h.start + 1
        /\ \A first, last \in Active : Row(first, last) =>
             \/ last - first + 1 < h.longest
             \/ last - first + 1 = h.longest /\ h.start <= first

(* currentStreak counts the days with movement back from today, or from    *)
(* yesterday while today has none yet; for a year that is over, from its   *)
(* last day; for one that has not begun, none.                             *)
CurrentIsCurrent ==
  LET last == Min({Day(now, tz), FirstDay(shown + 1) - 1})
      end == IF last \in Active THEN last ELSE last - 1
  IN  /\ end \notin Active => Heatmap.current = 0
      /\ end \in Active => /\ (end - Heatmap.current + 1)..end \subseteq Active
                           /\ end - Heatmap.current \notin Active

(* The levels that colour the map are ordered, with the greatest day as    *)
(* the maximum, for any number of days.                                    *)
LevelsOrdered ==
  LET h == Heatmap IN
  /\ h.p25 <= h.p50 /\ h.p50 <= h.p75 /\ h.p75 <= h.p90 /\ h.p90 <= h.max
  /\ \A day \in Active : daily[day] <= h.max

(* The biggest month is not exceeded by any other, after rounding too, and *)
(* never says more than the year's total.                                  *)
BiggestDominates ==
  \A unit \in {"km", "mi"} : \A totals \in TotalsFromDaily(daily, shown, unit) :
    /\ totals.biggest.distance <= totals.distance
    /\ \A m \in 1..12 :
         RoundDiv(SumOver(daily, {day \in Active : Month(day) = m}), PerUnit[unit])
           <= totals.biggest.distance

(* The months of /stats are sums of rounded days, the year is rounded as a *)
(* whole: they differ by no more than half a kilometer per day and year.   *)
MonthsNearYear ==
  LET stats == YearStats(daily, tz)
      difference == SumOver(stats.monthly, 1..12) - stats.km
  IN  2 * Max({difference, -difference}) <= Cardinality(DOMAIN daily) + 1

(* A month of /stats is the distance of the days that the calendar and the *)
(* totals count for it, half a kilometer per day off at most.              *)
MonthsOfCalendar ==
  \A m \in 1..12 :
    LET days == {day \in DOMAIN daily : Month(day) = m}
        difference == YearStats(daily, tz).monthly[m] * PerUnit["km"] - SumOver(daily, days)
    IN  2 * Max({difference, -difference}) <= Cardinality(days) * PerUnit["km"]

(* The figures that different loops make of the same days agree: levels,   *)
(* maximum, months, totals and the yearly statistics, after every rounding *)
(* and for every order in which a map is ranged over.  Where a midnight is *)
(* skipped /stats may count a day for the month before, the totals do not; *)
(* there only the sum of the months is held to the year.                   *)
FiguresAgree ==
  /\ Active # {} => LevelsOrdered /\ BiggestDominates
  /\ MonthsNearYear
  /\ QuietMidnights(tz) => MonthsOfCalendar
=============================================================================
