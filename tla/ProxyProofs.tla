----------------------------- MODULE ProxyProofs -----------------------------
(***************************************************************************)
(* The ceilings of one call hold for every approved request, whatever the  *)
(* policy, the payloads, the number of requests and the engine's answers;  *)
(* and a request is judged by one policy that was live while it ran.       *)
(***************************************************************************)
EXTENDS ProxyProperties, CollectionProofs, TLAPS

-----------------------------------------------------------------------------
(***************************************************************************)
(* Lemmas about the operators.                                             *)
(***************************************************************************)
LEMMA RulesTyped == AllRules \subseteq Rules /\ FirstPolicy \in Seq(AllRules)
  <1>1. FirstPolicy \in [1 .. Len(FirstPolicy) -> Rules] /\ Len(FirstPolicy) \in Nat
    BY ProxyAssumption
  <1>2. FirstPolicy \in [1 .. Len(FirstPolicy) -> AllRules]
    BY <1>1 DEF AllRules
  <1> QED
    BY <1>1, <1>2, ProxyAssumption DEF AllRules

\* The lower of two limits is below both.
LEMMA LowerLowers ==
  ASSUME NEW own \in Ceilings, NEW limit \in Ceilings, NEW n \in Int,
         Lower(own, limit) = NoLimit \/ n <= Lower(own, limit)
  PROVE  /\ limit = NoLimit \/ n <= limit
         /\ own = NoLimit \/ n <= own
  BY ProxyAssumption DEF Lower, Ceilings

LEMMA LowerTyped ==
  ASSUME NEW own \in Ceilings, NEW limit \in Ceilings
  PROVE  Lower(own, limit) \in Ceilings
  BY DEF Lower

LEMMA TightenTyped ==
  ASSUME NEW rule \in Rules, NEW directive \in Directives \cup {NoDirective}
  PROVE  Tighten(rule, directive) \in Rules
  <1>1. CASE directive = NoDirective
    BY <1>1 DEF Tighten
  <1>2. CASE directive # NoDirective
    <2>1. /\ directive.maxPerCall \in Ceilings /\ directive.maxCumulative \in Ceilings
          /\ rule.maxPerCall \in Ceilings /\ rule.maxCumulative \in Ceilings
      BY <1>2 DEF Directives, Rules
    <2>2. /\ Lower(directive.maxPerCall, rule.maxPerCall) \in Ceilings
          /\ Lower(directive.maxCumulative, rule.maxCumulative) \in Ceilings
      BY <2>1, LowerTyped
    <2> QED
      BY <1>2, <2>2 DEF Tighten, Rules
  <1> QED
    BY <1>1, <1>2

\* A directive changes nothing of a rule but its two limits.
LEMMA TightenKeeps ==
  ASSUME NEW rule \in Rules, NEW directive \in Directives \cup {NoDirective}
  PROVE  /\ Tighten(rule, directive).valuePath = rule.valuePath
         /\ Tighten(rule, directive).condition = rule.condition
         /\ Tighten(rule, directive).maxPerCall =
              IF directive = NoDirective THEN rule.maxPerCall
              ELSE Lower(directive.maxPerCall, rule.maxPerCall)
  BY DEF Tighten, Rules

LEMMA EmptyParts ==
  ASSUME NEW a \in Seq(Int), NEW b \in Seq(Int), a \o b = <<>>
  PROVE  a = <<>> /\ b = <<>>
  <1>1. Len(a) + Len(b) = 0 /\ Len(a) \in Nat /\ Len(b) \in Nat
    <2>1. Len(a \o b) = Len(a) + Len(b)
      OBVIOUS
    <2> QED
      BY <2>1
  <1> QED
    BY <1>1

\* What it means that nothing is objected.
LEMMA Unobjected ==
  ASSUME NEW rule, NEW p, ~Objected(rule, p)
  PROVE  /\ Holding(rule.condition, p)
         /\ p.directive # NoDirective => Holding(p.directive.condition, p)
         /\ ~PerCallExceeded(rule, Extracted(rule, p))
  <1> DEFINE own == ConditionCodes(rule.condition, p)
             more == IF p.directive = NoDirective THEN <<>>
                     ELSE ConditionCodes(p.directive.condition, p)
             nil == IF Extracted(rule, p).type = "nil" THEN <<400>> ELSE <<>>
             limit == IF PerCallExceeded(rule, Extracted(rule, p)) THEN <<403>> ELSE <<>>
  <1>1. own \in Seq(Int) /\ more \in Seq(Int) /\ nil \in Seq(Int) /\ limit \in Seq(Int)
    <2>1. <<>> \in Seq(Int) /\ <<400>> \in Seq(Int) /\ <<403>> \in Seq(Int)
      OBVIOUS
    <2> QED
      BY <2>1 DEF ConditionCodes
  <1>2. ((own \o more) \o nil) \o limit = <<>>
    BY DEF Objected, Objections
  <1>3. \A c : ConditionCodes(c, p) = <<>> => Holding(c, p)
    <2>1. <<400>> # <<>> /\ <<403>> # <<>>
      OBVIOUS
    <2> QED
      BY <2>1 DEF ConditionCodes
  <1>4. limit = <<>> => ~PerCallExceeded(rule, Extracted(rule, p))
    OBVIOUS
  <1>5. own = <<>> => Holding(rule.condition, p)
    BY <1>3
  <1>6. more = <<>> /\ p.directive # NoDirective => Holding(p.directive.condition, p)
    BY <1>3
  <1> HIDE DEF own, more, nil, limit
  <1>7. (own \o more) \in Seq(Int) /\ (own \o more) \o nil \in Seq(Int)
    BY <1>1
  <1>8. limit = <<>> /\ (own \o more) \o nil = <<>>
    BY <1>1, <1>2, <1>7, EmptyParts
  <1>9. own = <<>> /\ more = <<>>
    BY <1>1, <1>7, <1>8, EmptyParts
  <1> QED
    BY <1>4, <1>5, <1>6, <1>8, <1>9

\* A call to which nothing is objected under the tightened rule meets the policy's
\* rule and the directive.
LEMMA UnobjectedMeets ==
  ASSUME NEW rule \in AllRules, NEW p \in Payloads,
         ~Objected(Tighten(rule, p.directive), p)
  PROVE  Meets(rule, p)
  <1> DEFINE res == Extracted(rule, p)
             tight == Tighten(rule, p.directive)
  <1>1. rule \in Rules /\ p.directive \in Directives \cup {NoDirective}
    BY RulesTyped, ProxyAssumption
  <1>2. /\ tight.condition = rule.condition
        /\ Extracted(tight, p) = res
        /\ tight.maxPerCall = IF p.directive = NoDirective THEN rule.maxPerCall
                              ELSE Lower(p.directive.maxPerCall, rule.maxPerCall)
    BY <1>1, TightenKeeps DEF Extracted
  <1>3. res.type = "number" => res.value \in Int
    BY ProxyAssumption DEF Extracted
  <1>4. /\ Holding(rule.condition, p)
        /\ p.directive # NoDirective => Holding(p.directive.condition, p)
    BY <1>2, Unobjected
  <1>5. tight.maxPerCall \in Ceilings
    BY <1>1, TightenTyped DEF Rules
  <1>6. res.type = "number" => tight.maxPerCall = NoLimit \/ res.value <= tight.maxPerCall
    <2>1. ~PerCallExceeded(tight, res)
      BY <1>2, Unobjected
    <2> QED
      BY <2>1, <1>3, <1>5, ProxyAssumption DEF PerCallExceeded, Ceilings
  <1>7. CASE p.directive = NoDirective
    BY <1>2, <1>4, <1>6, <1>7 DEF Meets, WithinCall
  <1>8. CASE p.directive # NoDirective
    <2>1. rule.maxPerCall \in Ceilings /\ p.directive.maxPerCall \in Ceilings
      BY <1>1, <1>8 DEF Rules, Directives
    <2>2. res.type = "number" =>
            /\ rule.maxPerCall = NoLimit \/ res.value <= rule.maxPerCall
            /\ p.directive.maxPerCall = NoLimit \/ res.value <= p.directive.maxPerCall
      BY <2>1, <1>2, <1>3, <1>6, <1>8, LowerLowers
    <2> QED
      BY <1>4, <2>2 DEF Meets, WithinCall
  <1> QED
    BY <1>7, <1>8

\* The admin API keeps the policy a list of known rules.
LEMMA UpsertTyped ==
  ASSUME NEW rules \in Seq(AllRules), NEW rule \in AllRules
  PROVE  Upsert(rules, rule) \in Seq(AllRules)
  <1>1. CASE Holds(rules, rule.ruleID)
    <2>1. rules \in [1 .. Len(rules) -> AllRules] /\ Len(rules) \in Nat
      OBVIOUS
    <2>2. Upsert(rules, rule) \in [1 .. Len(rules) -> AllRules]
      BY <1>1, <2>1 DEF Upsert
    <2> QED
      BY <2>1, <2>2
  <1>2. CASE ~Holds(rules, rule.ruleID)
    BY <1>2 DEF Upsert
  <1> QED
    BY <1>1, <1>2

LEMMA WithoutTyped ==
  ASSUME NEW rules \in Seq(AllRules), NEW id, Holds(rules, id)
  PROVE  Without(rules, id) \in Seq(AllRules)
  <1>1. rules \in [1 .. Len(rules) -> AllRules] /\ Len(rules) \in Nat
    OBVIOUS
  <1>2. Len(rules) - 1 \in Nat
    BY <1>1 DEF Holds
  <1>3. \A i \in 1 .. Len(rules) - 1 :
          rules[IF i < Position(rules, id) THEN i ELSE i + 1] \in AllRules
    BY <1>1
  <1>4. Without(rules, id) \in [1 .. Len(rules) - 1 -> AllRules]
    BY <1>3 DEF Without
  <1> QED
    BY <1>2, <1>4

-----------------------------------------------------------------------------
(***************************************************************************)
(* The invariant: a request that has not ended badly and is not flagged    *)
(* meets every rule it has been judged by so far.                          *)
(***************************************************************************)
Typed ==
  /\ policy \in Seq(AllRules)
  /\ requests \in [Requests -> {Waiting} \cup Handlers]
  /\ judged \in [Requests -> Seq(AllRules)]

Clean(q) == requests[q].at \notin {"waiting", "rejected", "panicked"} /\ ~requests[q].flagged

CleanMeets ==
  \A q \in Requests :
    /\ Is(q, "waiting") => judged[q] = <<>>
    /\ Clean(q) => \A rule \in RulesOf(q) : Meets(rule, Payload(q))

CeilingInv == Typed /\ CleanMeets

LEMMA InitCeiling == Init => CeilingInv
  <1> SUFFICES ASSUME Init PROVE CeilingInv
    OBVIOUS
  <1>1. Typed
    BY RulesTyped DEF Init, Typed
  <1>2. CleanMeets
    BY DEF Init, CleanMeets, Clean, Is, Waiting
  <1> QED
    BY <1>1, <1>2 DEF CeilingInv

\* The state of a request that has arrived.
LEMMA Arrived ==
  ASSUME Typed, NEW q \in Requests, requests[q].at \in Stages
  PROVE  requests[q] \in Handlers
  BY DEF Typed, Waiting, Stages

\* A step of q alone that judges by no further rule, and neither clears its flag nor
\* changes what it carries, keeps the invariant.
LEMMA QuietStep ==
  ASSUME CeilingInv, NEW q \in Requests, NEW handler \in Handlers,
         requests[q] \in Handlers,
         requests[q].at \notin {"rejected", "panicked"},
         handler.payload = requests[q].payload,
         requests[q].flagged => handler.flagged,
         requests' = [requests EXCEPT ![q] = handler],
         UNCHANGED <<policy, judged>>
  PROVE  CeilingInv'
  <1>1. requests[q].at # "waiting" /\ handler.at # "waiting"
    BY DEF Handlers, Stages
  <1>2. /\ requests'[q] = handler
        /\ \A other \in Requests \ {q} : requests'[other] = requests[other]
    BY DEF CeilingInv, Typed
  <1>3. Typed'
    BY DEF CeilingInv, Typed
  <1>4. ASSUME NEW other \in Requests
        PROVE  /\ Is(other, "waiting")' => judged'[other] = <<>>
               /\ Clean(other)' =>
                    \A rule \in RulesOf(other)' : Meets(rule, Payload(other)')
    <2>1. CASE other = q
      <3>1. ~Is(other, "waiting")'
        BY <1>1, <1>2, <2>1 DEF Is
      <3>2. Clean(other)' => Clean(other)
        BY <1>1, <1>2, <2>1 DEF Clean, Handlers
      <3>3. Payload(other)' = Payload(other) /\ RulesOf(other)' = RulesOf(other)
        BY <1>2, <2>1 DEF Payload, RulesOf
      <3> QED
        BY <3>1, <3>2, <3>3 DEF CeilingInv, CleanMeets
    <2>2. CASE other # q
      BY <1>2, <2>2 DEF CeilingInv, CleanMeets, Clean, Is, Payload, RulesOf
    <2> QED
      BY <2>1, <2>2
  <1> QED
    BY <1>3, <1>4 DEF CeilingInv, CleanMeets

LEMMA ArriveStep ==
  ASSUME CeilingInv, NEW q \in Requests, NEW p \in Payloads, Arrive(q, p)
  PROVE  CeilingInv'
  <1> DEFINE handler ==
        [at |-> IF p.authentic THEN "reading" ELSE "rejected", payload |-> p,
         snapshot |-> <<>>, next |-> 1, rule |-> Missing, flagged |-> FALSE]
  <1>1. handler \in Handlers
    BY DEF Handlers, Stages
  <1>2. /\ requests' = [requests EXCEPT ![q] = handler]
        /\ policy' = policy /\ judged' = judged /\ Is(q, "waiting")
    BY DEF Arrive
  <1> HIDE DEF handler
  <1>3. Typed'
    BY <1>1, <1>2 DEF CeilingInv, Typed
  <1>4. /\ requests'[q] = handler
        /\ \A other \in Requests \ {q} : requests'[other] = requests[other]
    BY <1>2 DEF CeilingInv, Typed
  <1>5. judged[q] = <<>>
    BY <1>2 DEF CeilingInv, CleanMeets
  <1>6. handler.at # "waiting"
    BY <1>1 DEF Handlers, Stages
  <1>7. ASSUME NEW other \in Requests
        PROVE  /\ Is(other, "waiting")' => judged'[other] = <<>>
               /\ Clean(other)' =>
                    \A rule \in RulesOf(other)' : Meets(rule, Payload(other)')
    <2>1. CASE other = q
      <3>1. RulesOf(other)' = {}
        BY <1>2, <1>5, <2>1 DEF RulesOf
      <3> QED
        BY <3>1, <1>4, <1>6, <2>1 DEF Is
    <2>2. CASE other # q
      BY <1>2, <1>4, <2>2 DEF CeilingInv, CleanMeets, Clean, Is, Payload, RulesOf
    <2> QED
      BY <2>1, <2>2
  <1> QED
    BY <1>3, <1>7 DEF CeilingInv, CleanMeets
\* A step of q alone that judges by one more rule keeps the invariant if the request
\* ends badly, is flagged, or meets the rule.
LEMMA JudgingStep ==
  ASSUME CeilingInv, NEW q \in Requests, NEW handler \in Handlers, NEW rule \in AllRules,
         requests[q] \in Handlers,
         requests[q].at \notin {"rejected", "panicked"},
         handler.payload = requests[q].payload,
         requests[q].flagged => handler.flagged,
         \/ handler.at \in {"rejected", "panicked"}
         \/ handler.flagged
         \/ Meets(rule, handler.payload),
         requests' = [requests EXCEPT ![q] = handler],
         judged' = [judged EXCEPT ![q] = Append(@, rule)],
         UNCHANGED policy
  PROVE  CeilingInv'
  <1>1. requests[q].at # "waiting" /\ handler.at # "waiting"
    BY DEF Handlers, Stages
  <1>2. /\ requests'[q] = handler
        /\ judged'[q] = Append(judged[q], rule)
        /\ \A other \in Requests \ {q} :
             requests'[other] = requests[other] /\ judged'[other] = judged[other]
    BY DEF CeilingInv, Typed
  <1>3. Typed'
    BY DEF CeilingInv, Typed
  <1>4. RulesOf(q)' \subseteq RulesOf(q) \cup {rule}
    <2>1. judged[q] \in Seq(AllRules)
      BY DEF CeilingInv, Typed
    <2> QED
      BY <2>1, <1>2 DEF RulesOf
  <1>5. ASSUME NEW other \in Requests
        PROVE  /\ Is(other, "waiting")' => judged'[other] = <<>>
               /\ Clean(other)' =>
                    \A r \in RulesOf(other)' : Meets(r, Payload(other)')
    <2>1. CASE other = q
      <3>1. ~Is(other, "waiting")'
        BY <1>1, <1>2, <2>1 DEF Is
      <3>2. Clean(other)' => Clean(other) /\ Meets(rule, handler.payload)
        BY <1>1, <1>2, <2>1 DEF Clean, Handlers
      <3>3. Payload(other)' = Payload(other) /\ Payload(other) = handler.payload
        BY <1>2, <2>1 DEF Payload
      <3> QED
        BY <3>1, <3>2, <3>3, <1>4, <2>1 DEF CeilingInv, CleanMeets
    <2>2. CASE other # q
      BY <1>2, <2>2 DEF CeilingInv, CleanMeets, Clean, Is, Payload, RulesOf
    <2> QED
      BY <2>1, <2>2
  <1> QED
    BY <1>3, <1>5 DEF CeilingInv, CleanMeets

LEMMA CheckStep ==
  ASSUME CeilingInv, NEW q \in Requests, Check(q)
  PROVE  CeilingInv'
  <1> DEFINE p == Payload(q)
             global == RuleAt(q, requests[q].next)
             rule == Tighten(global, p.directive)
             bad(at) == [requests[q] EXCEPT !.at = at]
             good == [requests[q] EXCEPT
                        !.rule = rule,
                        !.flagged = Flagged(q, Objected(rule, p)),
                        !.at = IF rule.maxCumulative = NoLimit THEN "judging" ELSE "calling",
                        !.next = IF rule.maxCumulative = NoLimit THEN @ + 1 ELSE @]
  <1>1. requests[q] \in Handlers /\ requests[q].at = "judging"
    BY Arrived DEF CeilingInv, Check, Is, Stages
  <1>2. p \in Payloads /\ p = requests[q].payload
    BY <1>1 DEF Handlers, Payload
  <1>3. global \in AllRules
    <2>1. requests[q].snapshot \in Seq(AllRules) /\ requests[q].next \in Nat \ {0}
      BY <1>1 DEF Handlers
    <2>2. requests[q].next <= Len(requests[q].snapshot)
      BY DEF Check, Remaining
    <2> QED
      BY <2>1, <2>2 DEF RuleAt
  <1>4. rule \in Rules
    BY <1>2, <1>3, RulesTyped, TightenTyped, ProxyAssumption
  <1>5. judged' = [judged EXCEPT ![q] = Append(@, global)] /\ policy' = policy
    BY DEF Check
  <1>6. \A at \in {"rejected", "panicked"} :
          bad(at) \in Handlers /\ bad(at).at = at /\ bad(at).payload = p
            /\ bad(at).flagged = requests[q].flagged
    BY <1>1, <1>2 DEF Handlers, Stages
  <1>7. /\ good \in Handlers /\ good.payload = p
        /\ good.flagged = Flagged(q, Objected(rule, p))
    <2> DEFINE at == IF rule.maxCumulative = NoLimit THEN "judging" ELSE "calling"
               next == IF rule.maxCumulative = NoLimit THEN requests[q].next + 1
                       ELSE requests[q].next
    <2>1. Flagged(q, Objected(rule, p)) \in BOOLEAN
      BY <1>1 DEF Flagged, Objected, Handlers
    <2>2. at \in Stages /\ next \in Nat \ {0}
      BY <1>1 DEF Handlers, Stages
    <2> HIDE DEF at, next, rule, p
    <2>3. LET g == [requests[q] EXCEPT !.rule = rule, !.flagged = Flagged(q, Objected(rule, p)),
                                       !.at = at, !.next = next]
          IN  /\ g \in Handlers /\ g.payload = requests[q].payload
              /\ g.flagged = Flagged(q, Objected(rule, p))
      BY <1>1, <1>4, <2>1, <2>2 DEF Handlers
    <2> QED
      BY <2>3, <1>2 DEF at, next
  <1>8. \/ \E at \in {"rejected", "panicked"} : requests' = [requests EXCEPT ![q] = bad(at)]
        \/ requests' = [requests EXCEPT ![q] = good]
    BY DEF Check, Becomes
  <1>9. ~Objected(rule, p) => Meets(global, p)
    BY <1>2, <1>3, UnobjectedMeets
  <1> HIDE DEF p, global, rule, bad, good
  <1>10. ASSUME NEW at \in {"rejected", "panicked"}, requests' = [requests EXCEPT ![q] = bad(at)]
         PROVE  CeilingInv'
    BY <1>1, <1>2, <1>3, <1>5, <1>6, <1>10, JudgingStep
  <1>11. CASE requests' = [requests EXCEPT ![q] = good]
    BY <1>1, <1>2, <1>3, <1>5, <1>7, <1>9, <1>11, JudgingStep DEF Flagged
  <1> QED
    BY <1>8, <1>10, <1>11

LEMMA CallStep ==
  ASSUME CeilingInv, NEW q \in Requests, Call(q)
  PROVE  CeilingInv'
  <1> DEFINE handler ==
        [requests[q] EXCEPT
           !.at = CASE reply'.verdict = "panic" -> "panicked"
                    [] reply'.verdict = "denied" /\ ~DryRun -> "rejected"
                    [] OTHER -> "judging",
           !.flagged = Flagged(q, DryRun /\ reply'.verdict = "denied"),
           !.next = @ + 1]
  <1>1. requests[q] \in Handlers /\ requests[q].at = "locked"
    BY Arrived DEF CeilingInv, Call, Is, Stages
  <1>2. requests' = [requests EXCEPT ![q] = handler] /\ policy' = policy /\ judged' = judged
    BY DEF Call
  <1>3. /\ handler \in Handlers /\ handler.payload = requests[q].payload
        /\ requests[q].flagged => handler.flagged
    <2> DEFINE at == CASE reply'.verdict = "panic" -> "panicked"
                       [] reply'.verdict = "denied" /\ ~DryRun -> "rejected"
                       [] OTHER -> "judging"
               next == requests[q].next + 1
               flag == Flagged(q, DryRun /\ reply'.verdict = "denied")
    <2>1. at \in Stages /\ next \in Nat \ {0}
      BY <1>1, ProxyAssumption DEF Stages, Handlers
    <2>2. flag \in BOOLEAN /\ (requests[q].flagged => flag)
      BY <1>1 DEF Flagged, Handlers
    <2>3. handler = [requests[q] EXCEPT !.at = at, !.flagged = flag, !.next = next]
      OBVIOUS
    <2> HIDE DEF at, next, flag, handler
    <2> QED
      BY <1>1, <2>1, <2>2, <2>3 DEF Handlers
  <1> HIDE DEF handler
  <1> QED
    BY <1>1, <1>2, <1>3, QuietStep

\* The steps that change only where a request stands.
LEMMA LocalStep ==
  ASSUME CeilingInv, NEW q \in Requests,
         Snapshot(q) \/ Skip(q) \/ Lock(q) \/ Forward(q)
  PROVE  CeilingInv'
  <1>1. requests[q] \in Handlers /\ requests[q].at \notin {"rejected", "panicked"}
    BY Arrived DEF CeilingInv, Snapshot, Skip, Lock, Forward, Is, Stages
  <1>2. UNCHANGED <<judged, policy>>
    BY DEF Snapshot, Skip, Lock, Forward
  <1>3. ASSUME NEW handler \in Handlers,
               handler.payload = requests[q].payload, handler.flagged = requests[q].flagged,
               requests' = [requests EXCEPT ![q] = handler]
        PROVE  CeilingInv'
    BY <1>1, <1>2, <1>3, QuietStep
  <1>4. CASE Snapshot(q)
    <2> DEFINE handler ==
          [requests[q] EXCEPT
             !.at = IF Payload(q).mcp = MalformedMCP THEN "rejected" ELSE "judging",
             !.snapshot = policy]
    <2>1. /\ handler \in Handlers
          /\ handler.payload = requests[q].payload /\ handler.flagged = requests[q].flagged
      BY <1>1 DEF Handlers, Stages, CeilingInv, Typed
    <2>2. requests' = [requests EXCEPT ![q] = handler]
      BY <1>4 DEF Snapshot
    <2> QED
      BY <1>3, <2>1, <2>2
  <1>5. CASE Skip(q)
    <2> DEFINE handler == [requests[q] EXCEPT !.next = @ + 1]
    <2>1. /\ handler \in Handlers
          /\ handler.payload = requests[q].payload /\ handler.flagged = requests[q].flagged
      BY <1>1 DEF Handlers
    <2>2. requests' = [requests EXCEPT ![q] = handler]
      BY <1>5 DEF Skip
    <2> QED
      BY <1>3, <2>1, <2>2
  <1>6. ASSUME NEW at \in {"locked", "forwarded", "unreachable"}, Becomes(q, at)
        PROVE  CeilingInv'
    <2> DEFINE handler == [requests[q] EXCEPT !.at = at]
    <2>1. /\ handler \in Handlers
          /\ handler.payload = requests[q].payload /\ handler.flagged = requests[q].flagged
      BY <1>1 DEF Handlers, Stages
    <2>2. requests' = [requests EXCEPT ![q] = handler]
      BY <1>6 DEF Becomes
    <2> QED
      BY <1>3, <2>1, <2>2
  <1> QED
    BY <1>4, <1>5, <1>6 DEF Lock, Forward

LEMMA ChangeStep ==
  ASSUME CeilingInv, ChangePolicy
  PROVE  CeilingInv'
  <1>1. requests' = requests /\ judged' = judged
    BY DEF ChangePolicy
  <1>2. policy' \in Seq(AllRules)
    <2>1. policy \in Seq(AllRules) /\ PostedRules \subseteq AllRules
      BY DEF CeilingInv, Typed, AllRules
    <2> QED
      BY <2>1, UpsertTyped, WithoutTyped DEF ChangePolicy
  <1> QED
    BY <1>1, <1>2 DEF CeilingInv, Typed, CleanMeets, Clean, Is, Payload, RulesOf

LEMMA NextCeiling == CeilingInv /\ [Next]_vars => CeilingInv'
  <1> SUFFICES ASSUME CeilingInv, [Next]_vars PROVE CeilingInv'
    OBVIOUS
  <1>1. ASSUME NEW q \in Requests, NEW p \in Payloads, Arrive(q, p) PROVE CeilingInv'
    BY <1>1, ArriveStep
  <1>2. ASSUME NEW q \in Requests, Snapshot(q) PROVE CeilingInv'
    BY <1>2, LocalStep
  <1>3. ASSUME NEW q \in Requests, Proceed(q) PROVE CeilingInv'
    BY <1>3, LocalStep, CheckStep, CallStep DEF Proceed
  <1>4. CASE ChangePolicy
    BY <1>4, ChangeStep
  <1>5. CASE UNCHANGED vars
    BY <1>5 DEF vars, CeilingInv, Typed, CleanMeets, Clean, Is, Payload, RulesOf
  <1> QED
    BY <1>1, <1>2, <1>3, <1>4, <1>5 DEF Next

(***************************************************************************)
(* Whatever the directive says, an approved call meets the policy's own    *)
(* conditions and limits per call, and the directive's.                    *)
(***************************************************************************)
THEOREM DirectivesOnlyTighten == Spec => []CeilingsHold
  <1>1. CeilingInv => CeilingsHold
    BY DEF CeilingInv, CleanMeets, Clean, CeilingsHold, Approved, Is
  <1> QED
    BY <1>1, InitCeiling, NextCeiling, PTL DEF Spec

-----------------------------------------------------------------------------
(***************************************************************************)
(* How the rules that judged a request grow, position by position.         *)
(***************************************************************************)
LEMMA JudgesNone ==
  ASSUME NEW rules, NEW p
  PROVE  Judges(<<>>, rules, p, 0)
  <1> DEFINE none == <<>>
             pos == [i \in 1 .. Len(none) |-> i]
  <1>1. Len(none) = 0
    OBVIOUS
  <1> HIDE DEF none
  <1>2. pos \in [1 .. Len(none) -> Matching(rules, p)] /\ \A i \in 1 .. Len(none) : FALSE
    BY <1>1
  <1>3. \A m \in Matching(rules, p) : ~(m <= 0)
    BY DEF Matching
  <1> HIDE DEF pos
  <1>4. Judges(none, rules, p, 0)
    BY <1>2, <1>3 DEF Judges
  <1> QED
    BY <1>4 DEF none

LEMMA JudgesSkip ==
  ASSUME NEW seq, NEW rules, NEW p, NEW last \in Nat, Judges(seq, rules, p, last),
         ~Matches(rules[last + 1], p)
  PROVE  Judges(seq, rules, p, last + 1)
  <1>1. \A m \in Matching(rules, p) : m <= last <=> m <= last + 1
    BY DEF Matching
  <1> QED
    BY <1>1 DEF Judges

LEMMA JudgesMore ==
  ASSUME NEW seq \in Seq(AllRules), NEW rules \in Seq(AllRules), NEW p,
         NEW last \in Nat, last + 1 <= Len(rules),
         Judges(seq, rules, p, last), Matches(rules[last + 1], p)
  PROVE  Judges(Append(seq, rules[last + 1]), rules, p, last + 1)
  <1> DEFINE rule == rules[last + 1]
             n == Len(seq)
             more == Append(seq, rule)
  <1>1. PICK pos \in [1 .. n -> Matching(rules, p)] :
          /\ \A i, j \in 1 .. n : i < j => pos[i] < pos[j]
          /\ \A i \in 1 .. n : seq[i] = rules[pos[i]]
          /\ \A m \in Matching(rules, p) : m <= last <=> \E i \in 1 .. n : pos[i] = m
    BY DEF Judges
  <1>2. last + 1 \in Matching(rules, p) /\ rule \in AllRules
    BY DEF Matching
  <1>3. /\ n \in Nat /\ Len(more) = n + 1 /\ more[n + 1] = rule
        /\ \A i \in 1 .. n : more[i] = seq[i]
    BY <1>2
  <1> DEFINE longer == [i \in 1 .. n + 1 |-> IF i = n + 1 THEN last + 1 ELSE pos[i]]
  <1> HIDE DEF rule, n, more
  <1>4. \A i \in 1 .. n : pos[i] \in Matching(rules, p) /\ pos[i] <= last /\ pos[i] \in Nat
    <2>1. \A i \in 1 .. n : pos[i] \in Matching(rules, p)
      BY <1>1
    <2>2. \A m \in Matching(rules, p) : m \in Nat
      BY DEF Matching
    <2> QED
      BY <1>1, <2>1, <2>2
  <1>5. /\ longer \in [1 .. Len(more) -> Matching(rules, p)]
        /\ longer[n + 1] = last + 1
        /\ \A i \in 1 .. n : longer[i] = pos[i]
        /\ \A i \in 1 .. Len(more) : i = n + 1 \/ i \in 1 .. n
    BY <1>2, <1>3, <1>4
  <1> HIDE DEF longer
  <1>6. ASSUME NEW i \in 1 .. Len(more), NEW j \in 1 .. Len(more), i < j
        PROVE  longer[i] < longer[j]
    <2>1. i \in 1 .. n
      BY <1>3, <1>6
    <2>2. CASE j = n + 1
      BY <2>1, <2>2, <1>4, <1>5
    <2>3. CASE j \in 1 .. n
      BY <2>1, <2>3, <1>1, <1>5, <1>6
    <2> QED
      BY <2>2, <2>3, <1>5
  <1>7. ASSUME NEW i \in 1 .. Len(more) PROVE more[i] = rules[longer[i]]
    <2>1. CASE i = n + 1
      BY <2>1, <1>3, <1>5 DEF rule
    <2>2. CASE i \in 1 .. n
      BY <2>2, <1>1, <1>3, <1>5
    <2> QED
      BY <2>1, <2>2, <1>5
  <1>8. ASSUME NEW m \in Matching(rules, p)
        PROVE  m <= last + 1 <=> \E i \in 1 .. Len(more) : longer[i] = m
    <2>1. m \in Nat
      BY DEF Matching
    <2>2. CASE m <= last
      <3>1. PICK i \in 1 .. n : pos[i] = m
        BY <2>2, <1>1
      <3>2. i \in 1 .. Len(more) /\ longer[i] = m
        BY <3>1, <1>3, <1>5
      <3> QED
        BY <2>1, <2>2, <3>2
    <2>3. CASE m = last + 1
      <3>1. n + 1 \in 1 .. Len(more) /\ longer[n + 1] = m
        BY <2>3, <1>3, <1>5
      <3> QED
        BY <2>1, <2>3, <3>1
    <2>4. CASE m > last + 1
      <3>1. \A i \in 1 .. Len(more) : longer[i] <= last + 1 /\ longer[i] \in Nat
        BY <1>4, <1>5
      <3> QED
        BY <2>1, <2>4, <3>1
    <2> QED
      BY <2>1, <2>2, <2>3, <2>4
  <1>9. Judges(more, rules, p, last + 1)
    BY <1>5, <1>6, <1>7, <1>8 DEF Judges
  <1> QED
    BY <1>9 DEF more, rule

LEMMA JudgesWhole ==
  ASSUME NEW seq, NEW rules \in Seq(AllRules), NEW p, NEW last \in Nat,
         last >= Len(rules), Judges(seq, rules, p, last)
  PROVE  Judges(seq, rules, p, Len(rules))
  <1>1. \A m \in Matching(rules, p) : m <= last <=> m <= Len(rules)
    BY DEF Matching
  <1> QED
    BY <1>1 DEF Judges

-----------------------------------------------------------------------------
(***************************************************************************)
(* The invariant: the policy is among those a request has lived under, its *)
(* snapshot stays one of them, and what it was judged by so far is what    *)
(* matches it up to its position in the snapshot.                          *)
(***************************************************************************)
Judging == {"judging", "calling", "locked", "forwarded", "unreachable", "panicked"}

Reached(handler, last) ==
  /\ handler.at \in {"judging", "forwarded", "unreachable"} => last = handler.next - 1
  /\ handler.at \in {"calling", "locked"} => last = handler.next
  /\ handler.at \in {"forwarded", "unreachable"} => last >= Len(handler.snapshot)

Ordered(handler, rules, lives) ==
  /\ handler.at \in {"waiting", "reading"} => rules = <<>>
  /\ handler.at = "reading" => handler.next = 1
  /\ handler.at \in Judging \/ (handler.at = "rejected" /\ rules # <<>>) =>
       /\ handler.snapshot \in lives
       /\ \E last \in Nat :
            Reached(handler, last) /\ Judges(rules, handler.snapshot, handler.payload, last)

OrderInv ==
  /\ lived \in [Requests -> SUBSET Seq(AllRules)]
  /\ \A q \in Requests : ~Is(q, "waiting") => policy \in lived[q]
  /\ \A q \in Requests : Ordered(requests[q], judged[q], lived[q])

\* One request that has arrived moves.
LEMMA OneJudged ==
  ASSUME CeilingInv, OrderInv, NEW q \in Requests, NEW handler, NEW rules,
         requests[q].at # "waiting",
         requests' = [requests EXCEPT ![q] = handler],
         judged' = [judged EXCEPT ![q] = rules],
         UNCHANGED <<policy, lived>>,
         Ordered(handler, rules, lived[q])
  PROVE  OrderInv'
  <1>1. /\ requests'[q] = handler /\ judged'[q] = rules
        /\ \A other \in Requests \ {q} :
             requests'[other] = requests[other] /\ judged'[other] = judged[other]
    BY DEF CeilingInv, Typed
  <1>2. ASSUME NEW other \in Requests
        PROVE  /\ ~Is(other, "waiting")' => policy' \in lived'[other]
               /\ Ordered(requests'[other], judged'[other], lived'[other])
    <2>1. CASE other = q
      BY <1>1, <2>1 DEF OrderInv, Is
    <2>2. CASE other # q
      BY <1>1, <2>2 DEF OrderInv, Is
    <2> QED
      BY <2>1, <2>2
  <1> QED
    BY <1>2 DEF OrderInv

LEMMA JudgedKnown ==
  ASSUME CeilingInv, OrderInv, NEW q \in Requests, requests[q].at \in Stages
  PROVE  /\ Ordered(requests[q], judged[q], lived[q])
         /\ judged = [judged EXCEPT ![q] = judged[q]] /\ judged[q] \in Seq(AllRules)
         /\ requests[q] \in Handlers
         /\ requests[q].snapshot \in Seq(AllRules) /\ requests[q].next \in Nat \ {0}
         /\ requests[q].at # "waiting" /\ policy \in lived[q]
  <1>1. requests[q] \in Handlers
    BY Arrived DEF CeilingInv
  <1>2. judged \in [Requests -> Seq(AllRules)]
    BY DEF CeilingInv, Typed
  <1> QED
    BY <1>1, <1>2 DEF OrderInv, Handlers, Stages, Is

LEMMA ArriveOrder ==
  ASSUME CeilingInv, OrderInv, NEW q \in Requests, NEW p \in Payloads, Arrive(q, p)
  PROVE  OrderInv'
  <1> DEFINE handler ==
        [at |-> IF p.authentic THEN "reading" ELSE "rejected", payload |-> p,
         snapshot |-> <<>>, next |-> 1, rule |-> Missing, flagged |-> FALSE]
  <1>1. /\ requests' = [requests EXCEPT ![q] = handler] /\ judged' = judged /\ policy' = policy
        /\ lived' = [lived EXCEPT ![q] = {policy}] /\ requests[q].at = "waiting"
    BY DEF Arrive, Is
  <1>2. judged[q] = <<>>
    BY <1>1 DEF OrderInv, Ordered
  <1>3. Ordered(handler, judged[q], {policy})
    <2>1. handler.at \in {"reading", "rejected"} /\ handler.next = 1
      OBVIOUS
    <2> QED
      BY <2>1, <1>2 DEF Ordered, Judging
  <1> HIDE DEF handler
  <1>4. /\ requests'[q] = handler /\ lived'[q] = {policy}
        /\ \A other \in Requests \ {q} :
             requests'[other] = requests[other] /\ lived'[other] = lived[other]
    BY <1>1 DEF CeilingInv, Typed, OrderInv
  <1>5. lived' \in [Requests -> SUBSET Seq(AllRules)]
    BY <1>1 DEF CeilingInv, Typed, OrderInv
  <1>6. ASSUME NEW other \in Requests
        PROVE  /\ ~Is(other, "waiting")' => policy' \in lived'[other]
               /\ Ordered(requests'[other], judged'[other], lived'[other])
    <2>1. CASE other = q
      BY <1>1, <1>3, <1>4, <2>1
    <2>2. CASE other # q
      BY <1>1, <1>4, <2>2 DEF OrderInv, Is
    <2> QED
      BY <2>1, <2>2
  <1> QED
    BY <1>5, <1>6 DEF OrderInv

LEMMA SnapshotOrder ==
  ASSUME CeilingInv, OrderInv, NEW q \in Requests, Snapshot(q)
  PROVE  OrderInv'
  <1> DEFINE at == IF Payload(q).mcp = MalformedMCP THEN "rejected" ELSE "judging"
             handler == [requests[q] EXCEPT !.at = at, !.snapshot = policy]
  <1>1. /\ requests' = [requests EXCEPT ![q] = handler] /\ requests[q].at = "reading"
        /\ judged' = judged /\ UNCHANGED <<policy, lived>>
    BY DEF Snapshot, Is
  <1>2. requests[q].at \in Stages
    BY <1>1 DEF Stages
  <1>3. judged[q] = <<>> /\ requests[q].next = 1
    BY <1>1, <1>2, JudgedKnown DEF Ordered
  <1>4. at \in {"rejected", "judging"}
    OBVIOUS
  <1> HIDE DEF at
  <1>5. /\ handler.at = at /\ handler.snapshot = policy /\ handler.next = 1
        /\ handler.payload = requests[q].payload
    BY <1>2, <1>3, JudgedKnown DEF Handlers
  <1> HIDE DEF handler
  <1>6. Reached(handler, 0)
    BY <1>4, <1>5 DEF Reached
  <1>7. Judges(judged[q], handler.snapshot, handler.payload, 0)
    BY <1>3, JudgesNone
  <1>8. Ordered(handler, judged[q], lived[q])
    BY <1>2, <1>3, <1>4, <1>5, <1>6, <1>7, JudgedKnown DEF Ordered, Judging
  <1> QED
    BY <1>1, <1>2, <1>8, JudgedKnown, OneJudged

LEMMA SkipOrder ==
  ASSUME CeilingInv, OrderInv, NEW q \in Requests, Skip(q)
  PROVE  OrderInv'
  <1> DEFINE handler == [requests[q] EXCEPT !.next = @ + 1]
             next == requests[q].next
  <1>1. /\ requests' = [requests EXCEPT ![q] = handler] /\ requests[q].at = "judging"
        /\ judged' = judged /\ UNCHANGED <<policy, lived>>
        /\ ~Matches(requests[q].snapshot[next], requests[q].payload)
    BY DEF Skip, Is, RuleAt, Payload
  <1>2. requests[q].at \in Stages
    BY <1>1 DEF Stages
  <1>3. /\ handler.at = "judging" /\ handler.snapshot = requests[q].snapshot
        /\ handler.next = next + 1 /\ handler.payload = requests[q].payload
        /\ next \in Nat \ {0}
    BY <1>1, <1>2, JudgedKnown DEF Handlers
  <1> HIDE DEF handler
  <1>4. /\ requests[q].snapshot \in lived[q] /\ next - 1 \in Nat
        /\ Judges(judged[q], requests[q].snapshot, requests[q].payload, next - 1)
    BY <1>1, <1>2, <1>3, JudgedKnown DEF Ordered, Reached, Judging
  <1>5. Judges(judged[q], handler.snapshot, handler.payload, next)
    <2>1. (next - 1) + 1 = next
      BY <1>3
    <2> QED
      BY <2>1, <1>1, <1>3, <1>4, JudgesSkip
  <1>6. Reached(handler, next) /\ next \in Nat
    BY <1>3 DEF Reached
  <1>7. Ordered(handler, judged[q], lived[q])
    BY <1>3, <1>4, <1>5, <1>6 DEF Ordered, Judging
  <1> QED
    BY <1>1, <1>2, <1>7, JudgedKnown, OneJudged

LEMMA CheckOrder ==
  ASSUME CeilingInv, OrderInv, NEW q \in Requests, Check(q)
  PROVE  OrderInv'
  <1> DEFINE p == Payload(q)
             next == requests[q].next
             global == RuleAt(q, next)
             rule == Tighten(global, p.directive)
             at == IF rule.maxCumulative = NoLimit THEN "judging" ELSE "calling"
             after == IF rule.maxCumulative = NoLimit THEN next + 1 ELSE next
             flag == Flagged(q, Objected(rule, p))
             bad(a) == [requests[q] EXCEPT !.at = a]
             good == [requests[q] EXCEPT !.rule = rule, !.flagged = flag, !.at = at, !.next = after]
             more == Append(judged[q], global)
  <1>1. /\ requests[q].at = "judging" /\ next <= Len(requests[q].snapshot)
        /\ Matches(global, p) /\ judged' = [judged EXCEPT ![q] = more]
        /\ UNCHANGED <<policy, lived>>
        /\ \/ \E a \in {"rejected", "panicked"} : requests' = [requests EXCEPT ![q] = bad(a)]
           \/ requests' = [requests EXCEPT ![q] = good]
    BY DEF Check, Is, Remaining, Becomes
  <1>2. requests[q].at \in Stages
    BY <1>1 DEF Stages
  <1>3. /\ requests[q] \in Handlers /\ p = requests[q].payload
        /\ requests[q].snapshot \in Seq(AllRules) /\ next \in Nat \ {0}
        /\ judged[q] \in Seq(AllRules) /\ global = requests[q].snapshot[next]
    BY <1>2, JudgedKnown DEF Payload, RuleAt
  <1>4. /\ requests[q].snapshot \in lived[q] /\ next - 1 \in Nat /\ (next - 1) + 1 = next
        /\ Judges(judged[q], requests[q].snapshot, p, next - 1)
    BY <1>1, <1>2, <1>3, JudgedKnown DEF Ordered, Reached, Judging
  <1>5. Judges(more, requests[q].snapshot, p, next)
    BY <1>1, <1>3, <1>4, JudgesMore
  <1>6. \A a \in {"rejected", "panicked"} :
          /\ bad(a).at = a /\ bad(a).snapshot = requests[q].snapshot /\ bad(a).payload = p
    BY <1>3 DEF Handlers
  <1>7. \/ at = "judging" /\ after = next + 1
        \/ at = "calling" /\ after = next
    OBVIOUS
  <1>8. /\ good.at = at /\ good.snapshot = requests[q].snapshot /\ good.payload = p
        /\ good.next = after
    <2> HIDE DEF at, after, flag, rule, p
    <2> QED
      BY <1>3 DEF Handlers
  <1> HIDE DEF p, next, global, rule, at, after, flag, bad, good, more
  <1>9. \A a \in {"rejected", "panicked"} : Ordered(bad(a), more, lived[q])
    <2>1. \A a \in {"rejected", "panicked"} : Reached(bad(a), next)
      BY <1>6 DEF Reached
    <2> QED
      BY <2>1, <1>3, <1>4, <1>5, <1>6 DEF Ordered, Judging
  <1>10. Ordered(good, more, lived[q])
    <2>1. Reached(good, next)
      BY <1>3, <1>7, <1>8 DEF Reached
    <2> QED
      BY <2>1, <1>3, <1>4, <1>5, <1>7, <1>8 DEF Ordered, Judging
  <1> QED
    BY <1>1, <1>2, <1>9, <1>10, JudgedKnown, OneJudged

LEMMA LockOrder ==
  ASSUME CeilingInv, OrderInv, NEW q \in Requests, Lock(q)
  PROVE  OrderInv'
  <1> DEFINE handler == [requests[q] EXCEPT !.at = "locked"]
  <1>1. /\ requests' = [requests EXCEPT ![q] = handler] /\ requests[q].at = "calling"
        /\ judged' = judged /\ UNCHANGED <<policy, lived>>
    BY DEF Lock, Is, Becomes
  <1>2. requests[q].at \in Stages
    BY <1>1 DEF Stages
  <1>3. /\ handler.at = "locked" /\ handler.snapshot = requests[q].snapshot
        /\ handler.next = requests[q].next /\ handler.payload = requests[q].payload
    BY <1>2, JudgedKnown DEF Handlers
  <1> HIDE DEF handler
  <1>4. Ordered(handler, judged[q], lived[q])
    BY <1>1, <1>2, <1>3, JudgedKnown DEF Ordered, Reached, Judging
  <1> QED
    BY <1>1, <1>2, <1>4, JudgedKnown, OneJudged

LEMMA CallOrder ==
  ASSUME CeilingInv, OrderInv, NEW q \in Requests, Call(q)
  PROVE  OrderInv'
  <1> DEFINE at == CASE reply'.verdict = "panic" -> "panicked"
                     [] reply'.verdict = "denied" /\ ~DryRun -> "rejected"
                     [] OTHER -> "judging"
             flag == Flagged(q, DryRun /\ reply'.verdict = "denied")
             next == requests[q].next
             after == next + 1
             handler == [requests[q] EXCEPT !.at = at, !.flagged = flag, !.next = after]
  <1>1. /\ requests' = [requests EXCEPT ![q] = handler] /\ requests[q].at = "locked"
        /\ judged' = judged /\ UNCHANGED <<policy, lived>>
    BY DEF Call, Is
  <1>2. requests[q].at \in Stages
    BY <1>1 DEF Stages
  <1>3. at \in {"panicked", "rejected", "judging"}
    OBVIOUS
  <1>4. next \in Nat \ {0} /\ after = next + 1
    BY <1>2, JudgedKnown
  <1> HIDE DEF at, flag, next, after
  <1>5. /\ handler.at = at /\ handler.snapshot = requests[q].snapshot
        /\ handler.next = after /\ handler.payload = requests[q].payload
    BY <1>2, JudgedKnown DEF Handlers
  <1> HIDE DEF handler
  <1>6. /\ requests[q].snapshot \in lived[q]
        /\ Judges(judged[q], requests[q].snapshot, requests[q].payload, next)
    BY <1>1, <1>2, <1>4, JudgedKnown DEF Ordered, Reached, Judging, next
  <1>7. Reached(handler, next)
    BY <1>3, <1>4, <1>5 DEF Reached
  <1>8. Ordered(handler, judged[q], lived[q])
    BY <1>3, <1>4, <1>5, <1>6, <1>7 DEF Ordered, Judging
  <1> QED
    BY <1>1, <1>2, <1>8, JudgedKnown, OneJudged

LEMMA ForwardOrder ==
  ASSUME CeilingInv, OrderInv, NEW q \in Requests, Forward(q)
  PROVE  OrderInv'
  <1>1. PICK at \in {"forwarded", "unreachable"} : Becomes(q, at)
    BY DEF Forward
  <1> DEFINE handler == [requests[q] EXCEPT !.at = at]
             next == requests[q].next
  <1>2. /\ requests' = [requests EXCEPT ![q] = handler] /\ requests[q].at = "judging"
        /\ judged' = judged /\ UNCHANGED <<policy, lived>>
        /\ ~(next <= Len(requests[q].snapshot))
    BY <1>1 DEF Forward, Is, Becomes, Remaining
  <1>3. requests[q].at \in Stages
    BY <1>2 DEF Stages
  <1>4. /\ handler.at = at /\ handler.snapshot = requests[q].snapshot
        /\ handler.next = next /\ handler.payload = requests[q].payload
        /\ next \in Nat \ {0} /\ Len(requests[q].snapshot) \in Nat
    BY <1>3, JudgedKnown DEF Handlers
  <1> HIDE DEF handler
  <1>5. /\ requests[q].snapshot \in lived[q] /\ next - 1 \in Nat
        /\ Judges(judged[q], requests[q].snapshot, requests[q].payload, next - 1)
    BY <1>2, <1>3, <1>4, JudgedKnown DEF Ordered, Reached, Judging
  <1>6. Reached(handler, next - 1)
    BY <1>1, <1>2, <1>4 DEF Reached
  <1>7. Ordered(handler, judged[q], lived[q])
    BY <1>1, <1>4, <1>5, <1>6 DEF Ordered, Judging
  <1> QED
    BY <1>2, <1>3, <1>7, JudgedKnown, OneJudged

LEMMA ChangeOrder ==
  ASSUME CeilingInv, CeilingInv', OrderInv, ChangePolicy
  PROVE  OrderInv'
  <1>1. /\ requests' = requests /\ judged' = judged
        /\ lived' = [q \in Requests |-> IF Is(q, "waiting") THEN {} ELSE lived[q] \cup {policy'}]
    BY DEF ChangePolicy
  <1>2. policy' \in Seq(AllRules)
    BY DEF CeilingInv, Typed
  <1>3. lived' \in [Requests -> SUBSET Seq(AllRules)]
    BY <1>1, <1>2 DEF OrderInv
  <1>4. ASSUME NEW q \in Requests
        PROVE  /\ ~Is(q, "waiting")' => policy' \in lived'[q]
               /\ Ordered(requests'[q], judged'[q], lived'[q])
    <2>1. CASE Is(q, "waiting")
      <3>1. judged[q] = <<>> /\ requests[q].at = "waiting"
        BY <2>1 DEF OrderInv, Ordered, Is
      <3> QED
        BY <3>1, <1>1 DEF Ordered, Judging, Is
    <2>2. CASE ~Is(q, "waiting")
      <3>1. lived[q] \subseteq lived'[q] /\ policy' \in lived'[q]
        BY <2>2, <1>1
      <3>2. Ordered(requests[q], judged[q], lived[q])
        BY DEF OrderInv
      <3> QED
        BY <3>1, <3>2, <1>1 DEF Ordered
    <2> QED
      BY <2>1, <2>2
  <1> QED
    BY <1>3, <1>4 DEF OrderInv

LEMMA InitOrder == Init => OrderInv
  <1> SUFFICES ASSUME Init PROVE OrderInv
    OBVIOUS
  <1>1. lived \in [Requests -> SUBSET Seq(AllRules)]
    BY DEF Init
  <1>2. \A q \in Requests : requests[q].at = "waiting" /\ judged[q] = <<>>
    BY DEF Init, Waiting
  <1> QED
    BY <1>1, <1>2 DEF OrderInv, Ordered, Judging, Is

LEMMA NextOrder == CeilingInv /\ OrderInv /\ [Next]_vars => OrderInv'
  <1> SUFFICES ASSUME CeilingInv, OrderInv, [Next]_vars PROVE OrderInv'
    OBVIOUS
  <1>1. ASSUME NEW q \in Requests, NEW p \in Payloads, Arrive(q, p) PROVE OrderInv'
    BY <1>1, ArriveOrder
  <1>2. ASSUME NEW q \in Requests, Snapshot(q) PROVE OrderInv'
    BY <1>2, SnapshotOrder
  <1>3. ASSUME NEW q \in Requests, Proceed(q) PROVE OrderInv'
    BY <1>3, SkipOrder, CheckOrder, LockOrder, CallOrder, ForwardOrder DEF Proceed
  <1>4. CASE ChangePolicy
    BY <1>4, NextCeiling, ChangeOrder
  <1>5. CASE UNCHANGED vars
    BY <1>5 DEF vars, OrderInv, Is
  <1> QED
    BY <1>1, <1>2, <1>3, <1>4, <1>5 DEF Next

(***************************************************************************)
(* However requests and changes of the policy interleave, each request is  *)
(* judged by the rules that match it in one policy that was live while it  *)
(* ran, in their order, and one that passed by all of them.                *)
(***************************************************************************)
THEOREM OnePolicyJudges == Spec => []JudgedByOnePolicy
  <1>1. CeilingInv /\ OrderInv => JudgedByOnePolicy
    <2> SUFFICES ASSUME CeilingInv, OrderInv, NEW q \in Requests, judged[q] # <<>> \/ q \in Passed
                 PROVE  \E rules \in lived[q] : \E last \in 0 .. Len(rules) :
                          /\ Judges(judged[q], rules, Payload(q), last)
                          /\ q \in Passed => last = Len(rules)
      BY DEF JudgedByOnePolicy
    <2>1. Ordered(requests[q], judged[q], lived[q])
      BY DEF OrderInv
    <2>2. requests[q].at \notin {"waiting", "reading"}
      BY <2>1 DEF Ordered, Passed, Is
    <2>3. requests[q].at \in Stages
      BY <2>2 DEF CeilingInv, Typed, Waiting, Handlers
    <2> DEFINE rules == requests[q].snapshot
    <2>4. rules \in lived[q] /\ rules \in Seq(AllRules) /\ Len(rules) \in Nat
      BY <2>1, <2>2, <2>3, JudgedKnown DEF Ordered, Judging, Stages, Passed, Is
    <2>5. PICK last \in Nat : /\ Reached(requests[q], last)
                              /\ Judges(judged[q], rules, requests[q].payload, last)
      BY <2>1, <2>2, <2>3 DEF Ordered, Judging, Stages, Passed, Is
    <2>6. q \in Passed => last >= Len(rules)
      BY <2>5 DEF Reached, Passed, Is
    <2>7. CASE last >= Len(rules)
      <3>1. Judges(judged[q], rules, requests[q].payload, Len(rules))
        BY <2>4, <2>5, <2>7, JudgesWhole
      <3> HIDE DEF rules
      <3> QED
        BY <3>1, <2>4 DEF Payload
    <2>8. CASE last < Len(rules)
      <3>1. q \notin Passed /\ last \in 0 .. Len(rules)
        BY <2>4, <2>6, <2>8
      <3> HIDE DEF rules
      <3> QED
        BY <3>1, <2>4, <2>5 DEF Payload
    <2> QED
      BY <2>4, <2>7, <2>8
  <1>2. Init => CeilingInv /\ OrderInv
    BY InitCeiling, InitOrder
  <1>3. CeilingInv /\ OrderInv /\ [Next]_vars => (CeilingInv /\ OrderInv)'
    BY NextCeiling, NextOrder
  <1> QED
    BY <1>1, <1>2, <1>3, PTL DEF Spec
=============================================================================
