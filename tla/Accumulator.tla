---------------------------- MODULE Accumulator ----------------------------
(***************************************************************************)
(* What a rule accumulates and when a call exceeds it: the switch on       *)
(* rule.Accumulator.Type in internal/engine, without the state it updates. *)
(*                                                                         *)
(* A rule is the effective rule the proxy hands to the engine: the fields  *)
(* the engine reads are its id, its accumulator, its max_cumulative        *)
(* (NoLimit when absent) and its time window.  A result is what            *)
(* evaluator.ExtractValue found: a number, a string, an array, or nil (in  *)
(* dry-run mode the proxy goes on after a failed extraction).              *)
(*                                                                         *)
(* Amounts are integers: rounding of float64 is not modelled.              *)
(*                                                                         *)
(* The last part is the reference: what a trajectory has really been       *)
(* granted under a rule, by calendar window.                               *)
(***************************************************************************)
EXTENDS Calendar, FiniteSets

CONSTANTS NoLimit,   \* a nil *float64
          Targets    \* the strings a unique_set rule may see

Unused == [sum |-> 0, count |-> 0, uniqueSet |-> {}]

Usage == [sum : Int, count : Nat, uniqueSet : SUBSET Targets]

ResultTypes == {"number", "string", "array", "nil"}

\* A plausible slip of Unreadable: unique_set takes any value.
UnreadableSumsOnly(rule, res) == rule.accumulator = "sum" /\ res.type # "number"

\* The accumulator needs a value of a type the extraction did not give: the
\* engine lets the call pass without counting it.
Unreadable(rule, res) ==
  \/ rule.accumulator = "sum" /\ res.type # "number"
  \/ rule.accumulator = "unique_set" /\ res.type # "string"

\* evalRes is nil and the accumulator reads it: a nil pointer dereference.
Dereferences(rule, res) ==
  res.type = "nil" /\ rule.accumulator \in {"sum", "unique_set"}

\* A plausible slip of Exceeds: the amount of the call itself is left out.
ExceedsWithoutRequest(used, rule, res) ==
  CASE rule.accumulator = "sum" -> used.sum > rule.maxCumulative
    [] rule.accumulator = "count" -> used.count > rule.maxCumulative
    [] rule.accumulator = "unique_set" ->
         Cardinality(used.uniqueSet) > rule.maxCumulative
    [] OTHER -> FALSE

Exceeds(used, rule, res) ==
  \/ /\ rule.accumulator = "sum"
     /\ used.sum + res.value > rule.maxCumulative
  \/ /\ rule.accumulator = "count"
     /\ used.count + 1 > rule.maxCumulative
  \/ /\ rule.accumulator = "unique_set"
     /\ res.value \notin used.uniqueSet
     /\ Cardinality(used.uniqueSet) + 1 > rule.maxCumulative

\* An accumulator type outside the three falls through the switch: the call is
\* granted and nothing is counted.
Charged(used, rule, res) ==
  CASE rule.accumulator = "sum" -> [used EXCEPT !.sum = @ + res.value]
    [] rule.accumulator = "count" -> [used EXCEPT !.count = @ + 1]
    [] rule.accumulator = "unique_set" ->
         [used EXCEPT !.uniqueSet = @ \cup {res.value}]
    [] OTHER -> used
-----------------------------------------------------------------------------
LedgerEntries == [window : Int, used : Usage]

\* What entry says was granted in the window of rule that t lies in.
Spent(entry, rule, t) ==
  IF entry.window = WindowOf(rule.timeWindow, t) THEN entry.used ELSE Unused

\* The entry once res is granted at t.
Entered(entry, rule, res, t) ==
  [window |-> WindowOf(rule.timeWindow, t),
   used |-> Charged(Spent(entry, rule, t), rule, res)]
=============================================================================
