------------------------------ MODULE MCProxy ------------------------------
(***************************************************************************)
(* Two requests of one trajectory under two rules, one that sums amounts   *)
(* and one that counts calls, which the admin API changes while they run.  *)
(***************************************************************************)
EXTENDS ProxyProperties, TLC

CONSTANTS q1, q2, t1, nothing, inEuros   \* inEuros: a condition on the currency

NoZones == [zone \in {} |-> 0]
Always == [enabled |-> FALSE, resetSchedule |-> "", timezone |-> ""]

Spend(perCall, cap) ==
  [ruleID |-> "spend", tools |-> {"pay"}, valuePath |-> "amount",
   maxPerCall |-> perCall, maxCumulative |-> cap, accumulator |-> "sum",
   condition |-> NoCondition, timeWindow |-> Always]
Calls(cap, condition) ==
  [ruleID |-> "calls", tools |-> {"pay", "look"}, valuePath |-> "note",
   maxPerCall |-> NoLimit, maxCumulative |-> cap, accumulator |-> "count",
   condition |-> condition, timeWindow |-> Always]

TwoRules == <<Spend(2, 2), Calls(2, NoCondition)>>
Updates == {Spend(1, 3), Calls(1, inEuros)}
Opened == {Spend(NoLimit, 3)}

EitherFirst == Permutations({q1, q2})

Directive(perCall, cap, condition) ==
  [maxPerCall |-> perCall, maxCumulative |-> cap, condition |-> condition]

Number(n) == [type |-> "number", value |-> n]
Nil == [type |-> "nil", value |-> nothing]

Pay(amount, directive) ==
  [authentic |-> TRUE, traj |-> t1, claim |-> "pay", mcp |-> NotMCP,
   values |-> [amount |-> Number(amount), note |-> Number(0)],
   outcome |-> [condition \in {inEuros} |-> "true"], directive |-> directive]

\* A payment; one whose directive would relax the limits; one whose directive
\* tightens them and asks for euros, which the body leaves open; calls of another
\* tool through a claim for every tool, without an amount; and unreadable ones.
SomePayloads ==
  { Pay(2, NoDirective),
    Pay(2, Directive(3, 4, NoCondition)),
    [Pay(1, Directive(1, 1, inEuros)) EXCEPT !.outcome[inEuros] = "error"],
    [Pay(0, NoDirective) EXCEPT !.claim = "*", !.mcp = "look", !.outcome[inEuros] = "false"],
    [Pay(0, NoDirective) EXCEPT !.values.amount = Nil],
    [Pay(0, NoDirective) EXCEPT !.mcp = MalformedMCP],
    [Pay(0, NoDirective) EXCEPT !.authentic = FALSE] }

ASSUME MCHypotheses == Hypotheses
=============================================================================
