------------------------------ MODULE Calendar -------------------------------
(***************************************************************************)
(* Calendar windows: parsePeriod of internal/cli, the month and budget      *)
(* bounds, and the billing anchors of internal/pricing.  All clocks of the  *)
(* program run in UTC, so a day is a fixed number of instants.              *)
(*                                                                          *)
(* Time is a count of instants; an instant stands for the nanosecond of the *)
(* store's inclusive bounds.  The lengths of months, weeks, quarters and    *)
(* years are constants, for a calendar small enough to enumerate.           *)
(***************************************************************************)
EXTENDS Integers, Sequences, FiniteSets, FiniteSetsExt

CONSTANTS Day,               \* instants in a day
          MonthLen,          \* days in each month, from the first modelled
          MonthsPerQuarter,
          MonthsPerYear,     \* a multiple of MonthsPerQuarter
          DaysPerWeek

ASSUME CalendarAssumption ==
    /\ Day \in Nat \ {0} /\ DaysPerWeek \in Nat \ {0}
    /\ MonthsPerQuarter \in Nat \ {0} /\ MonthsPerYear \in Nat \ {0}
    /\ MonthsPerYear % MonthsPerQuarter = 0
    /\ MonthLen \in Seq(Nat \ {0})

ZeroTime == -1               \* time.Time{}: no bound, no start known

Month == 1 .. Len(MonthLen)

MonthStart == [m \in 1 .. Len(MonthLen) + 1 |->
                  Day * MapThenSumSet(LAMBDA i : MonthLen[i], 1 .. m - 1)]

EndOfTime == MonthStart[Len(MonthLen) + 1]

MonthIndex == [t \in 0 .. EndOfTime - 1 |->
                  CHOOSE m \in Month : MonthStart[m] <= t /\ t < MonthStart[m + 1]]

MonthOf(t) == MonthIndex[t]

StartOfDay(t)     == t - (t % Day)
StartOfWeek(t)    == LET d == t \div Day IN Day * (d - (d % DaysPerWeek))
StartOfMonth(t)   == MonthStart[MonthOf(t)]
StartOfQuarter(t) == LET m == MonthOf(t) IN MonthStart[m - ((m - 1) % MonthsPerQuarter)]
StartOfYear(t)    == LET m == MonthOf(t) IN MonthStart[m - ((m - 1) % MonthsPerYear)]

\* AddDate on the first of a month.
MonthsBefore(t, n) == MonthStart[MonthOf(t) - n]

\* Mutant: a finished unit ends on the boundary itself.
BoundaryInclusive(boundary) == boundary

LastInstantBefore(boundary) == boundary - 1

\* Whole days between two instants in order.
DayCount(a, b) == (b - a) \div Day

MonthBounds(now) == [start |-> StartOfMonth(now), end |-> MonthStart[MonthOf(now) + 1]]

\* The n-th billing anchor of a start date: its day of the month, or the
\* month's last day when the month is shorter.
AddMonthsClamped(t, n) ==
    LET m   == MonthOf(t) + n
        day == DayCount(StartOfMonth(t), t)
    IN MonthStart[m] + Day * Min({day, MonthLen[m] - 1})

\* How many cycles after t the calendar still holds.
CyclesAfter(t) == Len(MonthLen) - MonthOf(t) - 1

----------------------------------------------------------------------------
(* A window is inclusive at both ends, as the store's filter is.            *)

Window(since, until) == [since |-> since, until |-> until]
NoWindow == Window(ZeroTime, ZeroTime)

Unit == {"day", "week", "month", "quarter", "year"}

StartOf(unit, t) == CASE unit = "day"     -> StartOfDay(t)
                      [] unit = "week"    -> StartOfWeek(t)
                      [] unit = "month"   -> StartOfMonth(t)
                      [] unit = "quarter" -> StartOfQuarter(t)
                      [] unit = "year"    -> StartOfYear(t)

\* today, week, month, quarter, year: from the edge until now.
This(unit, now) == Window(StartOf(unit, now), now)

\* The start of the unit before the one that starts at s.
StartOfLast(unit, s) ==
    CASE unit = "day"     -> s - Day
      [] unit = "week"    -> s - DaysPerWeek * Day
      [] unit = "month"   -> MonthsBefore(s, 1)
      [] unit = "quarter" -> MonthsBefore(s, MonthsPerQuarter)
      [] unit = "year"    -> MonthsBefore(s, MonthsPerYear)

\* yesterday, last week, ...: whole units that are over.
Last(unit, now) ==
    Window(StartOfLast(unit, StartOf(unit, now)), LastInstantBefore(StartOf(unit, now)))

\* "N days", today included; a count below one is refused.
LastDays(n, now) == IF n < 1 THEN NoWindow ELSE Window(StartOfDay(now) - (n - 1) * Day, now)

\* "since D" and "D..E" on days, by their first instants.
SinceDay(d, now) == Window(d, now)
Between(d, e) == IF e < d THEN NoWindow ELSE Window(d, LastInstantBefore(e + Day))

AllTime(now) == Window(ZeroTime, now)

InWindow(t, win) == (win.since = ZeroTime \/ win.since <= t) /\ t <= win.until

==============================================================================
