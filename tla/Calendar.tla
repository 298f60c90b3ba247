------------------------------ MODULE Calendar ------------------------------
(***************************************************************************)
(* The time windows of the rules: when internal/engine considers a window  *)
(* over (IsWindowExpired), and which calendar window an instant really     *)
(* lies in (WindowOf).  The first is the code; the second is the reference *)
(* the engine is judged against.                                           *)
(*                                                                         *)
(* An instant is a number of hours: nothing in the engine tells apart two  *)
(* instants of one hour except the session TTL, which is counted in hours  *)
(* here too.  A day has HoursPerDay hours and a year DaysPerYear days, so  *)
(* that a small instance still crosses the end of a day and of a year.     *)
(***************************************************************************)
EXTENDS Integers

CONSTANTS HoursPerDay,   \* 24
          DaysPerYear,   \* 365
          ZoneOffset     \* the time zones known to the host: name -> hours east of UTC

ASSUME CalendarAssumption ==
  /\ HoursPerDay \in Nat \ {0}
  /\ DaysPerYear \in Nat \ {0}
  /\ \A zone \in DOMAIN ZoneOffset : ZoneOffset[zone] \in Int

Hour(t) == t % HoursPerDay
Day(t) == t \div HoursPerDay
YearDay(t) == Day(t) % DaysPerYear
Year(t) == Day(t) \div DaysPerYear

\* now.In(loc): a name time.LoadLocation does not know, and "", mean UTC.
In(tw, t) ==
  IF tw.timezone \in DOMAIN ZoneOffset THEN t + ZoneOffset[tw.timezone] ELSE t

\* isWindowExpired.  A rule without a time_window has tw.enabled = FALSE.
IsWindowExpired(tw, windowStart, now) ==
  LET n == In(tw, now)
      s == In(tw, windowStart)
  IN  /\ tw.enabled
      /\ \/ /\ tw.resetSchedule = "hourly"
            /\ Hour(n) # Hour(s) \/ YearDay(n) # YearDay(s)
         \/ /\ tw.resetSchedule = "daily"
            /\ YearDay(n) # YearDay(s) \/ Year(n) # Year(s)

-----------------------------------------------------------------------------
(***************************************************************************)
(* The calendar windows a schedule divides time into, counted from zero.   *)
(* The names with an @ are those of the command line's help text, of the   *)
(* discovery defaults and of the policies the repository ships; a rule     *)
(* with no enabled window has a single one, without end.                   *)
(***************************************************************************)
Period(schedule) ==
  CASE schedule \in {"hourly", "@hourly"} -> 1
    [] schedule \in {"daily", "@daily"}   -> HoursPerDay
    [] schedule \in {"weekly", "@weekly"} -> 7 * HoursPerDay

Schedules == {"hourly", "@hourly", "daily", "@daily", "weekly", "@weekly"}

WindowOf(tw, t) ==
  IF tw.enabled /\ tw.resetSchedule \in Schedules
    THEN In(tw, t) \div Period(tw.resetSchedule)
    ELSE 0

TimeWindows == [enabled : BOOLEAN, resetSchedule : STRING, timezone : STRING]
=============================================================================
