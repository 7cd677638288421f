------------------------------ MODULE Calendar ------------------------------
(***************************************************************************)
(* Local time as the program gets it from Go's time package.  A location   *)
(* is a sequence of periods, each with its offset from UTC, the first of   *)
(* which has no beginning.  Days are numbered; a date is a day number, and *)
(* Format("2006-01-02") is injective on them, so a formatted date is its   *)
(* number.  Years have no leap days and as many seconds as TLC can bear.   *)
(***************************************************************************)
EXTENDS Integers, Sequences, FiniteSetsExt

CONSTANTS
  DaySecs,    \* seconds in a day
  MonthDays   \* the length of each of the twelve months

ASSUME CalendarAssumption ==
  /\ DaySecs \in Nat \ {0}
  /\ MonthDays \in [1..12 -> Nat \ {0}]

-----------------------------------------------------------------------------
(* Location.lookup                                                         *)
Period(t, loc) == Max({1} \cup {i \in DOMAIN loc : i > 1 /\ loc[i].from <= t})

OffsetAt(t, loc) == loc[Period(t, loc)].offset

(* Time.In                                                                 *)
Local(t, loc) == t + OffsetAt(t, loc)

Day(t, loc) == Local(t, loc) \div DaySecs

Hour(t, loc) == Local(t, loc) % DaySecs

(* time.Date, from the local time in seconds.  It looks the offset up as   *)
(* if local time were UTC and corrects it once; of a local time that is    *)
(* skipped it makes one that is not, before or after the gap.              *)
Date(local, loc) ==
  LET guess == OffsetAt(local, loc)
      utc == local - guess
  IN  IF guess = 0 \/ Period(utc, loc) = Period(local, loc)
      THEN utc
      ELSE local - OffsetAt(utc, loc)

(* time.Date(y, m, d, 0, 0, 0, 0, loc), and ParseInLocation                *)
Midnight(day, loc) == Date(day * DaySecs, loc)

(* Time.AddDate(0, 0, n)                                                   *)
AddDate(t, n, loc) == Date(Local(t, loc) + n * DaySecs, loc)

(* Days before month m.                                                    *)
DaysBefore(m) == MapThenSumSet(LAMBDA i : MonthDays[i], 1..(m - 1))

YearDays == DaysBefore(13)

Year(day) == day \div YearDays

Month(day) == CHOOSE m \in 1..12 :
  day % YearDays \in DaysBefore(m)..(DaysBefore(m) + MonthDays[m] - 1)

(* 1 January.                                                              *)
FirstDay(year) == year * YearDays

Weekday(day) == (day + 4) % 7
=============================================================================
