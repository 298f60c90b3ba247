------------------------------- MODULE Proxy -------------------------------
(***************************************************************************)
(* internal/proxy's ServeHTTP, run by many requests at once, while the     *)
(* admin API changes the policy.  A request takes a snapshot of the rules, *)
(* and for each rule that matches its tool makes the stateless checks and  *)
(* calls the engine, which charges it; it is forwarded to the target when  *)
(* no rule objects.  In dry-run mode objections are only recorded.  Each   *)
(* outcome is an event: the request metrics count it, and internal/        *)
(* plugin's Manager hands it to the audit logger, which writes a line.     *)
(*                                                                         *)
(* Between two steps of a request here lies a read or a write of state     *)
(* that requests share: the policy, or the engine behind its mutex e.mu.   *)
(* The engine is the ledger it implements (TrajectoryLedger), at one       *)
(* instant and with saves that succeed: its clock, disk and restarts are   *)
(* the subject of the module Engine.                                       *)
(***************************************************************************)
EXTENDS RuleList, Accumulator

CONSTANTS Requests,      \* the requests of a run, each made once
          Conditions,    \* the CEL conditions of rules and directives
          Payloads,      \* what a request may carry
          FirstPolicy,   \* the rules at start
          PostedRules,   \* the rules the admin API may post
          DryRun,        \* --dry-run
          MaxChanges,    \* bound on the changes of the policy
          NoDirective,   \* no readable X-Gatra-Directive header
          NoCondition,   \* a condition ""
          NotMCP,        \* a body that is not a tools/call
          MalformedMCP,  \* a body cut short, or a tools/call that UnpackMCP refuses
          Nobody         \* e.mu is free

Ceilings == Int \cup {NoLimit}
Rules == [ruleID : STRING, tools : SUBSET STRING, valuePath : STRING,
          maxPerCall : Ceilings, maxCumulative : Ceilings, accumulator : STRING,
          condition : Conditions \cup {NoCondition}, timeWindow : TimeWindows]
Directives == [maxPerCall : Ceilings, maxCumulative : Ceilings,
               condition : Conditions \cup {NoCondition}]

\* plugin.Event; by: the rule it names, or Missing for an answer before any rule.
Events == [status : {"approved", "rejected", "dry_run_flagged"},
           by : STRING \cup {Missing}, code : {200, 400, 401, 403}]

\* What the audit logger writes; by: the rule the line names, or Missing.
Lines == [line : {"blocked", "approved"}, by : STRING \cup {Missing}, code : {200, 400, 401, 403}]

AllRules == {FirstPolicy[i] : i \in 1 .. Len(FirstPolicy)} \cup PostedRules

ASSUME ProxyAssumption ==
  /\ DryRun \in BOOLEAN
  /\ MaxChanges \in Nat
  /\ Nobody \notin Requests
  /\ NoLimit \notin Int
  /\ FirstPolicy \in Seq(Rules)
  /\ PostedRules \subseteq Rules
  /\ IdsUnique(FirstPolicy)
  /\ \A p \in Payloads :
       /\ p.directive \in Directives \cup {NoDirective}
       /\ p.outcome \in [Conditions -> {"true", "false", "error"}]
       /\ \A rule \in AllRules :
            LET res == p.values[rule.valuePath]
            IN  /\ res.type \in ResultTypes
                /\ res.type = "number" => res.value \in Int
                /\ res.type = "string" => res.value \in Targets

VARIABLES
  policy,     \* Store.policy.Rules
  changes,    \* bound: how often the policy was changed
  requests,   \* the local state of each ServeHTTP
  mu,         \* who holds the engine's mutex
  ledger,     \* the engine's state
  reply,      \* the engine's last answer
  trail,      \* the events of each request, in order, as the metrics count them
  log,        \* the lines of the audit logger about each request, in order
  judged,     \* history: the rules each request was judged by
  charged,    \* history: the charges of each request, [ruleID, result]
  lived       \* history: the policies live since each request arrived

vars == <<policy, changes, requests, mu, ledger, reply, trail, log, judged, charged, lived>>

-----------------------------------------------------------------------------
\* MCP auto-detection: a claim for every tool takes its tool from the call.
Tool(p) == IF p.mcp # NotMCP /\ p.claim \in {"", "*"} THEN p.mcp ELSE p.claim

Matches(rule, p) == Tool(p) = "" \/ Tool(p) \in rule.tools

\* A plausible slip of Lower: a directive's limit replaces the rule's.
Override(own, limit) == IF own # NoLimit THEN own ELSE limit

\* Monotonic restriction: the directive's own limit counts only where it is lower.
Lower(own, limit) ==
  IF own # NoLimit /\ (limit = NoLimit \/ own < limit) THEN own ELSE limit

\* applyEphemeralLimits.
Tighten(rule, directive) ==
  IF directive = NoDirective THEN rule
  ELSE [rule EXCEPT !.maxPerCall = Lower(directive.maxPerCall, @),
                    !.maxCumulative = Lower(directive.maxCumulative, @)]

\* EvaluateCondition: a condition is true, false or in error for a body.
Holding(condition, p) == condition = NoCondition \/ p.outcome[condition] = "true"

\* ExtractValue; a result of type "nil" when it fails.
Extracted(rule, p) == p.values[rule.valuePath]

\* EvaluateRule, on a result that is not nil.
PerCallExceeded(rule, res) ==
  /\ rule.maxPerCall # NoLimit
  /\ res.type = "number"
  /\ res.value > rule.maxPerCall

\* The codes of the stateless objections to a call, in their order; rule is tightened
\* by the directive.
ConditionCodes(condition, p) ==
  IF Holding(condition, p) THEN <<>>
  ELSE IF p.outcome[condition] = "error" THEN <<400>> ELSE <<403>>

Objections(rule, p) ==
  ConditionCodes(rule.condition, p)
  \o (IF p.directive = NoDirective THEN <<>> ELSE ConditionCodes(p.directive.condition, p))
  \o (IF Extracted(rule, p).type = "nil" THEN <<400>> ELSE <<>>)
  \o (IF PerCallExceeded(rule, Extracted(rule, p)) THEN <<403>> ELSE <<>>)

Objected(rule, p) == Objections(rule, p) # <<>>

-----------------------------------------------------------------------------
(***************************************************************************)
(* The engine.  What it reads of a rule; its answer to a call.             *)
(***************************************************************************)
EngineRule(rule) ==
  [ruleID |-> rule.ruleID, accumulator |-> rule.accumulator,
   maxCumulative |-> rule.maxCumulative, timeWindow |-> rule.timeWindow]

EngineRules == {EngineRule(Tighten(rule, p.directive)) : rule \in AllRules, p \in Payloads}
EngineResults == {Extracted(rule, p) : rule \in AllRules, p \in Payloads}
Trajectories == {p.traj : p \in Payloads}
RuleIDs == {rule.ruleID : rule \in AllRules}

Engine == INSTANCE TrajectoryLedger WITH
            Rules <- EngineRules, Results <- EngineResults,
            now <- 0, atRisk <- {}, lost <- {}

\* A plausible slip of EngineCall: the call is charged before the cap is tested.
ChargedFirst(t, rule, res) ==
  \/ Engine!PassUncounted(t, rule, res)
  \/ Engine!Grant(t, rule, res)
  \/ /\ ~Unreadable(rule, res)
     /\ Exceeds(Spent(ledger[t][rule.ruleID], rule, 0), rule, res)
     /\ Engine!Answered("denied", t, rule, res)
     /\ ledger' = [ledger EXCEPT ![t][rule.ruleID] = Entered(@, rule, res, 0)]

EngineCall(t, rule, res) ==
  \/ Engine!PassUncounted(t, rule, res)
  \/ Engine!Deny(t, rule, res)
  \/ Engine!Grant(t, rule, res)

-----------------------------------------------------------------------------
Waiting == [at |-> "waiting"]

Init ==
  /\ policy = FirstPolicy
  /\ changes = 0
  /\ requests = [q \in Requests |-> Waiting]
  /\ mu = Nobody
  /\ ledger = [t \in Trajectories |-> [id \in RuleIDs |-> [window |-> 0, used |-> Unused]]]
  /\ reply = [verdict |-> "idle"]
  /\ trail = [q \in Requests |-> <<>>]
  /\ log = [q \in Requests |-> <<>>]
  /\ judged = [q \in Requests |-> <<>>]
  /\ charged = [q \in Requests |-> {}]
  /\ lived = [q \in Requests |-> {}]

Payload(q) == requests[q].payload
Is(q, at) == requests[q].at = at
Becomes(q, at) == requests' = [requests EXCEPT ![q].at = at]

\* A plausible slip of Rejection: what is refused before any rule leaves no event.
RejectionByRule(by, code) ==
  IF by = Missing THEN <<>> ELSE <<[status |-> "rejected", by |-> by, code |-> code]>>

\* writeErrorResponse, recordDryRunViolation: the events that a rule, or Missing, adds.
Rejection(by, code) == <<[status |-> "rejected", by |-> by, code |-> code]>>
Flags(by, objections) ==
  [i \in 1 .. Len(objections) |-> [status |-> "dry_run_flagged", by |-> by, code |-> 200]]

\* OnPostExecute: only a rejection is written as blocked, and with its rule; all else
\* is called approved, what a dry run flags included.
LineOf(event) ==
  IF event.status = "rejected"
    THEN [line |-> "blocked", by |-> event.by, code |-> event.code]
    ELSE [line |-> "approved", by |-> Missing, code |-> event.code]

\* The counters, then ExecutePost, synchronous, with the audit logger as its only hook.
Audit(q, events) ==
  /\ trail' = [trail EXCEPT ![q] = @ \o events]
  /\ log' = [log EXCEPT ![q] = @ \o [i \in 1 .. Len(events) |-> LineOf(events[i])]]

\* The token is verified before anything else; the body is read after it.
Arrive(q, p) ==
  /\ Is(q, "waiting")
  /\ requests' = [requests EXCEPT
       ![q] = [at |-> IF p.authentic THEN "reading" ELSE "rejected", payload |-> p,
               snapshot |-> <<>>, next |-> 1, rule |-> Missing, flagged |-> FALSE]]
  /\ Audit(q, IF p.authentic THEN <<>> ELSE Rejection(Missing, 401))
  /\ lived' = [lived EXCEPT ![q] = {policy}]
  /\ UNCHANGED <<policy, changes, mu, ledger, reply, judged, charged>>

\* The body is read and unpacked; ExecutePre has no hook to run; store.GetPolicy copies
\* the rules.
Snapshot(q) ==
  /\ Is(q, "reading")
  /\ requests' = [requests EXCEPT
       ![q].at = IF Payload(q).mcp = MalformedMCP THEN "rejected" ELSE "judging",
       ![q].snapshot = policy]
  /\ Audit(q, IF Payload(q).mcp = MalformedMCP THEN Rejection(Missing, 400) ELSE <<>>)
  /\ UNCHANGED <<policy, changes, mu, ledger, reply, judged, charged, lived>>

\* A plausible slip of RuleAt: GetPolicy shares the rules with the store, which
\* replaces them in place.
SharedRuleAt(q, i) ==
  LET rule == requests[q].snapshot[i]
  IN  IF Holds(policy, rule.ruleID) THEN Lookup(policy, rule.ruleID) ELSE rule

RuleAt(q, i) == requests[q].snapshot[i]

Remaining(q) == requests[q].next <= Len(requests[q].snapshot)

Skip(q) ==
  /\ Is(q, "judging")
  /\ Remaining(q)
  /\ ~Matches(RuleAt(q, requests[q].next), Payload(q))
  /\ requests' = [requests EXCEPT ![q].next = @ + 1]
  /\ UNCHANGED <<policy, changes, mu, ledger, reply, trail, log, judged, charged, lived>>

\* A plausible slip of Flagged: hasViolation is set from the present rule alone.
FlaggedByLast(q, objection) == objection

\* hasViolation, set by any rule and never cleared.
Flagged(q, objection) == requests[q].flagged \/ objection

\* The stateless checks of the next rule.  A dry run goes on after a failed
\* extraction, with a nil result that a limit per call then dereferences.  A rule
\* without cumulative limit is not the engine's: EvaluateAndIncrement returns before
\* it takes e.mu.
Check(q) ==
  LET p == Payload(q)
      global == RuleAt(q, requests[q].next)
      rule == Tighten(global, p.directive)
  IN  /\ Is(q, "judging")
      /\ Remaining(q)
      /\ Matches(global, p)
      /\ judged' = [judged EXCEPT ![q] = Append(@, global)]
      /\ \/ /\ Objected(rule, p) /\ ~DryRun
            /\ Becomes(q, "rejected")
            /\ Audit(q, Rejection(rule.ruleID, Objections(rule, p)[1]))
         \/ /\ Objected(rule, p) => DryRun
            /\ Audit(q, Flags(rule.ruleID, Objections(rule, p)))
            /\ IF Extracted(rule, p).type = "nil" /\ rule.maxPerCall # NoLimit
                 THEN Becomes(q, "panicked")
                 ELSE requests' = [requests EXCEPT
                        ![q].rule = rule,
                        ![q].flagged = Flagged(q, Objected(rule, p)),
                        ![q].at = IF rule.maxCumulative = NoLimit THEN "judging" ELSE "calling",
                        ![q].next = IF rule.maxCumulative = NoLimit THEN @ + 1 ELSE @]
      /\ UNCHANGED <<policy, changes, mu, ledger, reply, charged, lived>>

Lock(q) ==
  /\ Is(q, "calling")
  /\ mu = Nobody
  /\ mu' = q
  /\ Becomes(q, "locked")
  /\ UNCHANGED <<policy, changes, ledger, reply, trail, log, judged, charged, lived>>

\* A plausible slip of Released: the mutex is unlocked where the state is saved, and
\* not on the other ways out of the call.
ReleasedOnSave(q) == IF reply'.verdict = "granted" THEN Nobody ELSE q

\* defer e.mu.Unlock().
Released(q) == Nobody

\* The engine judges the call, and ServeHTTP its answer.
Call(q) ==
  LET p == Payload(q)
      rule == requests[q].rule
  IN  /\ Is(q, "locked")
      /\ EngineCall(p.traj, EngineRule(rule), Extracted(rule, p))
      /\ requests' = [requests EXCEPT
           ![q].at = CASE reply'.verdict = "panic" -> "panicked"
                       [] reply'.verdict = "denied" /\ ~DryRun -> "rejected"
                       [] OTHER -> "judging",
           ![q].flagged = Flagged(q, DryRun /\ reply'.verdict = "denied"),
           ![q].next = @ + 1]
      /\ Audit(q, IF reply'.verdict # "denied" THEN <<>>
                  ELSE IF DryRun THEN Flags(rule.ruleID, <<403>>) ELSE Rejection(rule.ruleID, 403))
      /\ charged' = IF reply'.verdict = "granted"
                      THEN [charged EXCEPT ![q] = @ \cup {[ruleID |-> rule.ruleID,
                                                         result |-> Extracted(rule, p)]}]
                      ELSE charged
      /\ mu' = Released(q)
      /\ UNCHANGED <<policy, changes, judged, lived>>

\* A plausible slip of Outcome: what a dry run lets pass is an approval too.
OutcomeAlways(q) == <<[status |-> "approved", by |-> Missing, code |-> 200]>>

\* A request to which a rule objected has its events already.
Outcome(q) ==
  IF requests[q].flagged THEN <<>>
  ELSE <<[status |-> "approved", by |-> Missing, code |-> 200]>>

\* The outcome is recorded, then reverseProxy.ServeHTTP passes the call on: the target
\* gets it and answers whatever it likes, or cannot be reached, which is a 502.
Forward(q) ==
  /\ Is(q, "judging")
  /\ ~Remaining(q)
  /\ Audit(q, Outcome(q))
  /\ \E at \in {"forwarded", "unreachable"} : Becomes(q, at)
  /\ UNCHANGED <<policy, changes, mu, ledger, reply, judged, charged, lived>>

\* The handler of a request that has been read goes on: it waits for nobody but e.mu.
Proceed(q) == Skip(q) \/ Check(q) \/ Lock(q) \/ Call(q) \/ Forward(q)

\* The admin API posts or deletes a rule.
ChangePolicy ==
  /\ changes < MaxChanges
  /\ changes' = changes + 1
  /\ \/ \E rule \in PostedRules : policy' = Upsert(policy, rule)
     \/ \E id \in RuleIDs : Holds(policy, id) /\ policy' = Without(policy, id)
  /\ lived' = [q \in Requests |-> IF Is(q, "waiting") THEN {} ELSE lived[q] \cup {policy'}]
  /\ UNCHANGED <<requests, mu, ledger, reply, trail, log, judged, charged>>

Next ==
  \/ \E q \in Requests, p \in Payloads : Arrive(q, p)
  \/ \E q \in Requests : Snapshot(q)
  \/ \E q \in Requests : Proceed(q)
  \/ ChangePolicy

Spec == Init /\ [][Next]_vars

\* The Go scheduler runs every handler, and sync.RWMutex starves nobody.
FairSpec == Spec /\ \A q \in Requests : WF_vars(Proceed(q))
=============================================================================
