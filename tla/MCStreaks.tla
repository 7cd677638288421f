------------------------------ MODULE MCStreaks ------------------------------
(* Small instance of Streaks: days of four hours, a year of 14 days; zones *)
(* east and west of UTC, without and with a change of time on the third    *)
(* day, after midnight or (MCMidnightZones) at midnight.                   *)
EXTENDS Streaks

MCMonthDays == [m \in 1..12 |-> IF m \in {1, 12} THEN 2 ELSE 1]

MCPerUnit == [km |-> 10, mi |-> 16]

MCDistance == [p, q \in {} |-> 0]

UTC == << [from |-> 0, offset |-> 0] >>
East == << [from |-> 0, offset |-> 2] >>
(* On day 2 at one the clock is set to two, on day 12 at two back to one.  *)
WestSummer == << [from |-> 0, offset |-> -2], [from |-> 11, offset |-> -1],
                 [from |-> 51, offset |-> -2] >>
EastSummer == << [from |-> 0, offset |-> 1], [from |-> 8, offset |-> 2],
                 [from |-> 48, offset |-> 1] >>

MCZones == {UTC, East, WestSummer, EastSummer}

(* On day 2 at midnight the clock is set to one.                           *)
EastMidnight == << [from |-> 0, offset |-> 1], [from |-> 7, offset |-> 2] >>
WestMidnight == << [from |-> 0, offset |-> -2], [from |-> 10, offset |-> -1] >>

MCMidnightZones == {EastMidnight, WestMidnight}

ASSUME QuietAssumption ==
  /\ \A zone \in MCZones : QuietMidnights(zone)
  /\ \A zone \in MCMidnightZones : ~QuietMidnights(zone)

(* In the year before, on the first days, on the last day and just after   *)
(* the year, and two days later.                                           *)
MCTimes == <<-3, 5, 9, 13, 55, 58, 65>>
=============================================================================
