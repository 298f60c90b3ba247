------------------------------ MODULE RuleList ------------------------------
(***************************************************************************)
(* A policy's rules: the slice that internal/config's Store keeps, loads   *)
(* from the policy file, and hands out to the proxy.                       *)
(***************************************************************************)
EXTENDS Naturals, Sequences

CONSTANT Missing   \* no rule of that id

IdsUnique(rules) ==
  \A i, j \in 1 .. Len(rules) : rules[i].ruleID = rules[j].ruleID => i = j

Holds(rules, id) == \E i \in 1 .. Len(rules) : rules[i].ruleID = id

\* The first rule of that id: the loops that look for it stop there.
Position(rules, id) ==
  CHOOSE i \in 1 .. Len(rules) :
    rules[i].ruleID = id /\ \A j \in 1 .. i - 1 : rules[j].ruleID # id

Lookup(rules, id) ==
  IF Holds(rules, id) THEN rules[Position(rules, id)] ELSE Missing

\* A plausible slip of Upsert: the rule it should replace is not looked for.
AlwaysAppend(rules, rule) == Append(rules, rule)

\* AddOrUpdateRule, in RAM.
Upsert(rules, rule) ==
  IF Holds(rules, rule.ruleID)
    THEN [rules EXCEPT ![Position(rules, rule.ruleID)] = rule]
    ELSE Append(rules, rule)

\* DeleteRule, in RAM, of an id the list holds: ids are unique (LiveIdsUnique), so
\* that one rule is left out.
Without(rules, id) ==
  [i \in 1 .. Len(rules) - 1 |-> rules[IF i < Position(rules, id) THEN i ELSE i + 1]]
=============================================================================
