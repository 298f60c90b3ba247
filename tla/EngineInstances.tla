--------------------------- MODULE EngineInstances ---------------------------
(***************************************************************************)
(* The rules and results from which the cfg files build instances of the   *)
(* engine for TLC.  A day has two hours in these instances.                *)
(***************************************************************************)
EXTENDS EngineProperties

CONSTANTS t1, a, b, nothing   \* a trajectory, set members, the value of a nil

Zones == [Tokyo |-> 1]

Always == [enabled |-> FALSE, resetSchedule |-> "", timezone |-> ""]
Window(schedule, zone) == [enabled |-> TRUE, resetSchedule |-> schedule, timezone |-> zone]
Daily == Window("daily", "")
Hourly == Window("hourly", "")

Rule(id, accumulator, cap, tw) ==
  [ruleID |-> id, accumulator |-> accumulator, maxCumulative |-> cap, timeWindow |-> tw]

Number(n) == [type |-> "number", value |-> n]
String(s) == [type |-> "string", value |-> s]
Nil == [type |-> "nil", value |-> nothing]

\* A budget whose cap a policy update or a directive changes or leaves out, by the
\* calendar of another time zone.
BudgetRules ==
  {Rule("budget", "sum", cap, Window("daily", "Tokyo")) : cap \in {1, 2, NoLimit}}
BudgetResults == {Number(2), Number(1), Number(-1), String(a), Nil}

\* Two rules of one session, with windows of their own.
TwoRules == { Rule("calls", "count", 1, Daily), Rule("targets", "unique_set", 1, Hourly) }
TwoResults == {Number(2), String(a), String(b)}

\* One spending cap: for good, or by the day in the spelling of the
\* command line's help text.
LifetimeRules == {Rule("budget", "sum", 2, Always)}
AtDailyRules == {Rule("budget", "sum", 2, Window("@daily", ""))}
SpendTwo == {Number(2)}
=============================================================================
