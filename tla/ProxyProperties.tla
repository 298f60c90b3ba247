-------------------------- MODULE ProxyProperties --------------------------
(***************************************************************************)
(* What the proxy should guarantee of the calls that reach the target.     *)
(***************************************************************************)
EXTENDS Proxy, FiniteSetsExt

(***************************************************************************)
(* The hypotheses under which the amounts are accounted for.  They speak   *)
(* of the rules and the payloads only; MCProxy evaluates them on its       *)
(* instances.                                                              *)
(***************************************************************************)
\* The versions of a rule id agree on what they accumulate, and by which window.
StableRules ==
  \A rule, other \in AllRules :
    rule.ruleID = other.ruleID =>
      rule.accumulator = other.accumulator /\ rule.timeWindow = other.timeWindow

\* Validate's switch: a rule that has a cap accumulates in one of three ways.
KnownAccumulators ==
  \A rule \in AllRules :
    rule.maxCumulative # NoLimit => rule.accumulator \in {"sum", "count", "unique_set"}

\* A refund would make room for the next call.
AmountsNonNegative == \A res \in EngineResults : res.type = "number" => res.value >= 0

\* A directive may cap a version that has no cap of its own: the values it let in
\* are no longer new to a version that has one.
SetsStayCapped ==
  \A rule, other \in AllRules :
    rule.ruleID = other.ruleID /\ rule.accumulator = "unique_set" =>
      (rule.maxCumulative = NoLimit <=> other.maxCumulative = NoLimit)

Hypotheses == StableRules /\ KnownAccumulators /\ AmountsNonNegative /\ SetsStayCapped

-----------------------------------------------------------------------------
Stages == {"reading", "judging", "calling", "locked", "rejected", "panicked", "forwarded",
           "unreachable"}

Handlers == [at : Stages, payload : Payloads, snapshot : Seq(AllRules), next : Nat \ {0},
             rule : Rules \cup {Missing}, flagged : BOOLEAN]

\* The types of the state, and e.mu: it is held by the request inside the engine.
TypeOK ==
  /\ policy \in Seq(AllRules)
  /\ changes \in 0 .. MaxChanges
  /\ requests \in [Requests -> {Waiting} \cup Handlers]
  /\ mu \in Requests \cup {Nobody}
  /\ \A q \in Requests : Is(q, "locked") <=> mu = q
  /\ ledger \in [Trajectories -> [RuleIDs -> LedgerEntries]]
  /\ trail \in [Requests -> Seq(Events)]
  /\ log \in [Requests -> Seq(Lines)]
  /\ charged \in [Requests -> SUBSET [ruleID : RuleIDs, result : EngineResults]]

(***************************************************************************)
(* store.go "Deep copy rules to prevent race conditions during iteration": *)
(* a request is judged by the matching rules, in order, of one policy that *)
(* was live while it ran, never by a mixture of two; one that passed by    *)
(* all of them, another by the first of them.                              *)
(***************************************************************************)
Matching(rules, p) == {i \in 1 .. Len(rules) : Matches(rules[i], p)}

\* seq is the rules that match p among those up to the position last, in their order.
Judges(seq, rules, p, last) ==
  \E pos \in [1 .. Len(seq) -> Matching(rules, p)] :
    /\ \A i, j \in 1 .. Len(seq) : i < j => pos[i] < pos[j]
    /\ \A i \in 1 .. Len(seq) : seq[i] = rules[pos[i]]
    /\ \A m \in Matching(rules, p) : m <= last <=> \E i \in 1 .. Len(seq) : pos[i] = m

Passed == {q \in Requests : Is(q, "forwarded") \/ Is(q, "unreachable")}

JudgedByOnePolicy ==
  \A q \in Requests : judged[q] # <<>> \/ q \in Passed =>
    \E rules \in lived[q] : \E last \in 0 .. Len(rules) :
      /\ Judges(judged[q], rules, Payload(q), last)
      /\ q \in Passed => last = Len(rules)

(***************************************************************************)
(* A request is approved when it is forwarded with nothing to object to it *)
(* (a dry run forwards the others too).                                    *)
(***************************************************************************)
Approved == {q \in Requests : Is(q, "forwarded") /\ ~requests[q].flagged}

RulesOf(q) == {judged[q][i] : i \in 1 .. Len(judged[q])}

(***************************************************************************)
(* README.md "Monotonic Restriction Principle (ephemeral directives can    *)
(* only tighten, never relax, global policy ceilings)": an approved call   *)
(* meets the policy's own conditions and limits per call, and the          *)
(* directive's as well.                                                    *)
(***************************************************************************)
WithinCall(limit, res) == limit = NoLimit \/ res.type # "number" \/ res.value <= limit

Meets(rule, p) ==
  LET res == Extracted(rule, p)
  IN  /\ Holding(rule.condition, p)
      /\ WithinCall(rule.maxPerCall, res)
      /\ p.directive # NoDirective =>
           Holding(p.directive.condition, p) /\ WithinCall(p.directive.maxPerCall, res)

CeilingsHold == \A q \in Approved : \A rule \in RulesOf(q) : Meets(rule, Payload(q))

(***************************************************************************)
(* README.md "cumulative consumption caps across multiple calls": what the *)
(* approved calls of a trajectory consume under a rule stays within the    *)
(* cap the policy sets, however requests, directives and changes of the    *)
(* policy interleave.  (Under the greatest cap, when the policy changed it *)
(* on the way.)                                                            *)
(***************************************************************************)
Capped(id) == {rule \in AllRules : rule.ruleID = id /\ rule.maxCumulative # NoLimit}

\* The approved calls of t that a capped version of the rule governs.
Consuming(t, id) ==
  {q \in Approved : Payload(q).traj = t /\ RulesOf(q) \cap Capped(id) # {}}

\* What q consumes under the rule: the value that its capped version extracts.
Consumed(q, id) ==
  Extracted(CHOOSE rule \in RulesOf(q) \cap Capped(id) : TRUE, Payload(q))

Consumption(t, id) ==
  LET kinds == {rule.accumulator : rule \in Capped(id)}
  IN  IF kinds = {"sum"}
        THEN SumFunctionOnSet(
               [q \in Consuming(t, id) |->
                  IF Consumed(q, id).type = "number" THEN Consumed(q, id).value ELSE 0],
               Consuming(t, id))
      ELSE IF kinds = {"count"} THEN Cardinality(Consuming(t, id))
      ELSE Cardinality({Consumed(q, id).value :
                          q \in {c \in Consuming(t, id) : Consumed(c, id).type = "string"}})

ConsumptionWithinCap ==
  \A t \in Trajectories, id \in RuleIDs :
    \/ Consumption(t, id) = 0
    \/ \E rule \in Capped(id) : Consumption(t, id) <= rule.maxCumulative

(***************************************************************************)
(* Every unit on a trajectory's ledger is explained by one request that    *)
(* was judged by its rule, and is there once: charges are neither lost nor *)
(* doubled when a later rule rejects the request, another request runs in  *)
(* between or the target cannot be reached.  The rule that rejects charges *)
(* nothing, and a request that passed was charged by every rule it could   *)
(* be charged by.                                                          *)
(***************************************************************************)
Chargeable(q) ==
  {rule \in {Tighten(r, Payload(q).directive) : r \in RulesOf(q)} :
     rule.maxCumulative # NoLimit /\ ~Unreadable(rule, Extracted(rule, Payload(q)))}

Charges(t, id) ==
  {c \in {<<q, charge>> : q \in Requests, charge \in UNION {charged[r] : r \in Requests}} :
     /\ c[2] \in charged[c[1]] /\ c[2].ruleID = id
     /\ ~Is(c[1], "waiting") /\ Payload(c[1]).traj = t}

Total(id, charges) ==
  LET kinds == {rule.accumulator : rule \in {r \in AllRules : r.ruleID = id}}
  IN  [sum |-> IF kinds = {"sum"}
                 THEN SumFunctionOnSet([c \in charges |-> c[2].result.value], charges) ELSE 0,
       count |-> IF kinds = {"count"} THEN Cardinality(charges) ELSE 0,
       uniqueSet |-> IF kinds = {"unique_set"} THEN {c[2].result.value : c \in charges} ELSE {}]

Explains(t, id) == Total(id, Charges(t, id))

ChargesAccounted ==
  /\ \A t \in Trajectories, id \in RuleIDs : ledger[t][id].used = Explains(t, id)
  /\ \A q \in Requests :
       LET ids == {charge.ruleID : charge \in charged[q]}
       IN  /\ ids \subseteq {rule.ruleID : rule \in RulesOf(q)}
           /\ Is(q, "rejected") /\ judged[q] # <<>> => judged[q][Len(judged[q])].ruleID \notin ids
           /\ q \in Passed /\ ~requests[q].flagged => ids = {rule.ruleID : rule \in Chargeable(q)}

(***************************************************************************)
(* What the audit log and the counters tell of a request.  A rejected one  *)
(* has one line "blocked", its last, by the rule that was judging it, and  *)
(* no other request has any.  Without a dry run the line "approved" is as  *)
(* good: one for a request that passed, none for the others.  In a dry run *)
(* it is not: each flag is written as approved too, without its rule, so   *)
(* only the counters tell one that passed, approved once, from one that    *)
(* was flagged, by rules that judged it, and never counted as approved.    *)
(***************************************************************************)
With(q, status) == {i \in 1 .. Len(trail[q]) : trail[q][i].status = status}
Written(q, line) == {i \in 1 .. Len(log[q]) : log[q][i].line = line}

TrailTells ==
  \A q \in Requests :
    LET last == log[q][Len(log[q])]
    IN  /\ Is(q, "rejected") =>
             /\ Cardinality(Written(q, "blocked")) = 1 /\ last.line = "blocked"
             /\ last.by = IF judged[q] = <<>> THEN Missing ELSE judged[q][Len(judged[q])].ruleID
        /\ ~Is(q, "rejected") => Written(q, "blocked") = {}
        /\ Written(q, "approved") = With(q, "approved") \cup With(q, "dry_run_flagged")
        /\ Cardinality(With(q, "approved")) =
             IF q \in Passed /\ ~requests[q].flagged THEN 1 ELSE 0
        /\ With(q, "dry_run_flagged") # {} => DryRun
        /\ ~Is(q, "waiting") /\ requests[q].flagged => With(q, "dry_run_flagged") # {}
        /\ \A i \in With(q, "dry_run_flagged") :
             \E rule \in RulesOf(q) : trail[q][i].by = rule.ruleID

(***************************************************************************)
(* proxy.go "request permitted" on every objection of a dry run: it blocks *)
(* nobody it has authenticated and whose body it could read.               *)
(***************************************************************************)
DryRunNeverBlocks ==
  DryRun =>
    \A q \in Requests : Is(q, "panicked") \/ Is(q, "rejected") =>
      ~Payload(q).authentic \/ Payload(q).mcp = MalformedMCP

(***************************************************************************)
(* Every request that has been read is decided: forwarded, rejected or     *)
(* lost to a panic, whatever the other requests do with the engine.        *)
(***************************************************************************)
Decided(q) == requests[q].at \in {"forwarded", "unreachable", "rejected", "panicked"}

EveryRequestDecided == \A q \in Requests : Is(q, "judging") ~> Decided(q)
=============================================================================
