-------------------------- MODULE ProxyLedgerProofs --------------------------
(***************************************************************************)
(* The ledger is the sum of what the requests were charged, and what the   *)
(* approved calls consume stays within the policy's cap: for any number of *)
(* requests, any payloads, directives and changes of the policy that meet  *)
(* the hypotheses of ProxyProperties.                                      *)
(***************************************************************************)
EXTENDS ProxyTrailProofs

-----------------------------------------------------------------------------
(***************************************************************************)
(* Ids.  Every policy a request lives under has unique ids, so a request   *)
(* is judged, and charged, by at most one rule of an id.                   *)
(***************************************************************************)
UniqueInv ==
  /\ IdsUnique(policy)
  /\ \A q \in Requests : \A rules \in lived[q] : IdsUnique(rules)

LEMMA JudgesUnique ==
  ASSUME NEW seq, Len(seq) \in Nat, NEW rules, NEW p, NEW last,
         IdsUnique(rules), Judges(seq, rules, p, last)
  PROVE  IdsUnique(seq)
  <1>1. PICK pos \in [1 .. Len(seq) -> Matching(rules, p)] :
          /\ \A i, j \in 1 .. Len(seq) : i < j => pos[i] < pos[j]
          /\ \A i \in 1 .. Len(seq) : seq[i] = rules[pos[i]]
    BY DEF Judges
  <1>2. ASSUME NEW i \in 1 .. Len(seq), NEW j \in 1 .. Len(seq),
               seq[i].ruleID = seq[j].ruleID
        PROVE  i = j
    <2>1. pos[i] \in 1 .. Len(rules) /\ pos[j] \in 1 .. Len(rules)
      BY <1>1 DEF Matching
    <2>2. pos[i] = pos[j]
      BY <1>1, <1>2, <2>1 DEF IdsUnique
    <2>3. ~(pos[i] < pos[j]) /\ ~(pos[j] < pos[i])
      BY <2>1, <2>2
    <2> QED
      BY <1>1, <2>3
  <1> QED
    BY <1>2 DEF IdsUnique

LEMMA NoneUnique == IdsUnique(<<>>)
  BY DEF IdsUnique

\* A request is judged by one rule of an id at most.
LEMMA JudgedUnique ==
  ASSUME CeilingInv, OrderInv, UniqueInv, NEW q \in Requests
  PROVE  IdsUnique(judged[q])
  <1>1. judged[q] \in Seq(AllRules) /\ requests[q].at \in Stages \cup {"waiting"}
    BY DEF CeilingInv, Typed, Handlers, Waiting
  <1>2. CASE judged[q] = <<>>
    BY <1>2, NoneUnique
  <1>3. CASE judged[q] # <<>>
    <2>1. Ordered(requests[q], judged[q], lived[q])
      BY DEF OrderInv
    <2>2. /\ requests[q].snapshot \in lived[q]
          /\ \E last \in Nat :
               Judges(judged[q], requests[q].snapshot, requests[q].payload, last)
      BY <1>1, <1>3, <2>1 DEF Ordered, Judging, Stages
    <2>3. IdsUnique(requests[q].snapshot)
      BY <2>2 DEF UniqueInv
    <2> QED
      BY <1>1, <2>2, <2>3, JudgesUnique
  <1> QED
    BY <1>2, <1>3

LEMMA InitUnique == Init => UniqueInv
  BY ProxyAssumption DEF Init, UniqueInv

LEMMA NextUnique == CeilingInv /\ OrderInv /\ UniqueInv /\ [Next]_vars => UniqueInv'
  <1> SUFFICES ASSUME CeilingInv, OrderInv, UniqueInv, [Next]_vars PROVE UniqueInv'
    OBVIOUS
  <1>1. CASE UNCHANGED <<policy, lived>>
    BY <1>1 DEF UniqueInv
  <1>2. ASSUME NEW q \in Requests, NEW p \in Payloads, Arrive(q, p)
        PROVE  UniqueInv'
    <2>1. policy' = policy /\ lived' = [lived EXCEPT ![q] = {policy}]
      BY <1>2 DEF Arrive
    <2> QED
      BY <2>1 DEF UniqueInv, OrderInv
  <1>3. CASE ChangePolicy
    <2>1. policy \in Seq(AllRules) /\ PostedRules \subseteq AllRules /\ IdsUnique(policy)
      BY DEF CeilingInv, Typed, AllRules, UniqueInv
    <2>2. IdsUnique(policy')
      BY <1>3, <2>1, UpsertKeeps, WithoutKeeps DEF ChangePolicy
    <2>3. \A q \in Requests : lived'[q] \subseteq lived[q] \cup {policy'}
      BY <1>3 DEF ChangePolicy
    <2> QED
      BY <2>2, <2>3 DEF UniqueInv
  <1>4. ASSUME NEW q \in Requests, Snapshot(q) \/ Proceed(q)
        PROVE  UNCHANGED <<policy, lived>>
    BY <1>4 DEF Snapshot, Proceed, Skip, Check, Lock, Call, Forward
  <1> QED
    BY <1>1, <1>2, <1>3, <1>4 DEF Next, vars

-----------------------------------------------------------------------------
(***************************************************************************)
(* The charges of a request: each belongs to a rule that has judged it and *)
(* is done with it; and while nothing objects, every such rule that could  *)
(* charge has.                                                             *)
(***************************************************************************)
ChargeOf(rule, p) == [ruleID |-> rule.ruleID, result |-> Extracted(rule, p)]

MayCharge(rule, p) ==
  LET tight == Tighten(rule, p.directive)
  IN  tight.maxCumulative # NoLimit /\ ~Unreadable(tight, Extracted(tight, p))

\* The positions of the rules that are done with the request.
Done(handler, rules) ==
  {i \in 1 .. Len(rules) : handler.at \in {"calling", "locked", "rejected"} => i < Len(rules)}

AccountedAs(handler, rules, charges) ==
  /\ handler.at \in {"waiting", "reading"} => charges = {}
  /\ handler.at \in {"calling", "locked"} =>
       /\ rules # <<>>
       /\ handler.rule = Tighten(rules[Len(rules)], handler.payload.directive)
       /\ handler.rule.maxCumulative # NoLimit
  /\ \A charge \in charges : \E i \in Done(handler, rules) :
       MayCharge(rules[i], handler.payload) /\ charge = ChargeOf(rules[i], handler.payload)
  /\ handler.at \in {"judging", "calling", "locked", "forwarded", "unreachable"}
       /\ ~handler.flagged =>
       \A i \in Done(handler, rules) :
         MayCharge(rules[i], handler.payload) => ChargeOf(rules[i], handler.payload) \in charges

AccountInv == \A q \in Requests : AccountedAs(requests[q], judged[q], charged[q])

LEMMA DoneOf ==
  ASSUME NEW handler, NEW rules \in Seq(AllRules)
  PROVE  /\ handler.at \in {"calling", "locked", "rejected"} =>
              \A i : i \in Done(handler, rules) <=> i \in 1 .. Len(rules) /\ i < Len(rules)
         /\ handler.at \notin {"calling", "locked", "rejected"} =>
              \A i : i \in Done(handler, rules) <=> i \in 1 .. Len(rules)
  BY DEF Done

\* A directive leaves the id, the accumulator and the window of a rule as they are, and
\* a cap of its own is below the rule's.
LEMMA TightenAccount ==
  ASSUME NEW rule \in Rules, NEW directive \in Directives \cup {NoDirective}
  PROVE  /\ Tighten(rule, directive).ruleID = rule.ruleID
         /\ Tighten(rule, directive).accumulator = rule.accumulator
         /\ Tighten(rule, directive).timeWindow = rule.timeWindow
         /\ Tighten(rule, directive).valuePath = rule.valuePath
         /\ Tighten(rule, directive).maxCumulative \in Ceilings
         /\ rule.maxCumulative # NoLimit =>
              /\ Tighten(rule, directive).maxCumulative # NoLimit
              /\ Tighten(rule, directive).maxCumulative <= rule.maxCumulative
  <1>1. CASE directive = NoDirective
    <2>1. rule.maxCumulative \in Ceilings /\ Tighten(rule, directive) = rule
      BY <1>1 DEF Tighten, Rules
    <2> QED
      BY <2>1 DEF Ceilings
  <1>2. CASE directive # NoDirective
    <2> DEFINE cap == Lower(directive.maxCumulative, rule.maxCumulative)
    <2>1. directive.maxCumulative \in Ceilings /\ rule.maxCumulative \in Ceilings
      BY <1>2 DEF Directives, Rules
    <2>2. cap \in Ceilings
      BY <2>1, LowerTyped
    <2>3. rule.maxCumulative # NoLimit => cap # NoLimit /\ cap <= rule.maxCumulative
      BY <2>1, ProxyAssumption DEF Lower, Ceilings
    <2> HIDE DEF cap
    <2>4. LET tight == Tighten(rule, directive)
          IN  /\ tight.ruleID = rule.ruleID /\ tight.accumulator = rule.accumulator
              /\ tight.timeWindow = rule.timeWindow /\ tight.valuePath = rule.valuePath
              /\ tight.maxCumulative = cap
      BY <1>2 DEF Tighten, Rules, cap
    <2> QED
      BY <2>2, <2>3, <2>4
  <1> QED
    BY <1>1, <1>2

\* One request moves, with its rules and its charges.
LEMMA OneAccounted ==
  ASSUME CeilingInv, Books, AccountInv, NEW q \in Requests,
         NEW handler, NEW rules, NEW charges,
         requests' = [requests EXCEPT ![q] = handler],
         judged' = [judged EXCEPT ![q] = rules],
         charged' = [charged EXCEPT ![q] = charges],
         AccountedAs(handler, rules, charges)
  PROVE  AccountInv'
  <1>1. /\ requests'[q] = handler /\ judged'[q] = rules /\ charged'[q] = charges
        /\ \A other \in Requests \ {q} :
             /\ requests'[other] = requests[other] /\ judged'[other] = judged[other]
             /\ charged'[other] = charged[other]
    BY DEF CeilingInv, Typed, Books
  <1>2. ASSUME NEW other \in Requests
        PROVE  AccountedAs(requests'[other], judged'[other], charged'[other])
    <2>1. CASE other = q
      BY <1>1, <2>1
    <2>2. CASE other # q
      BY <1>1, <2>2 DEF AccountInv
    <2> QED
      BY <2>1, <2>2
  <1> QED
    BY <1>2 DEF AccountInv

LEMMA AccountKnown ==
  ASSUME CeilingInv, Books, AccountInv, NEW q \in Requests
  PROVE  /\ AccountedAs(requests[q], judged[q], charged[q])
         /\ judged[q] \in Seq(AllRules)
         /\ judged = [judged EXCEPT ![q] = judged[q]]
         /\ charged = [charged EXCEPT ![q] = charged[q]]
  <1>1. /\ judged \in [Requests -> Seq(AllRules)]
        /\ charged \in [Requests -> SUBSET [ruleID : RuleIDs, result : EngineResults]]
    BY DEF CeilingInv, Typed, Books
  <1> QED
    BY <1>1 DEF AccountInv

\* A step from one stage to another that neither judges nor charges.
LEMMA QuietAccount ==
  ASSUME NEW handler, NEW next, NEW rules \in Seq(AllRules), NEW charges,
         AccountedAs(handler, rules, charges),
         next.payload = handler.payload,
         ~next.flagged => ~handler.flagged,
         \/ handler.at \in {"judging"} /\ next.at \in {"judging", "forwarded", "unreachable"}
         \/ handler.at = "calling" /\ next.at = "locked" /\ next.rule = handler.rule
  PROVE  AccountedAs(next, rules, charges)
  <1>1. \A i : i \in Done(next, rules) <=> i \in Done(handler, rules)
    BY DoneOf
  <1> QED
    BY <1>1 DEF AccountedAs

LEMMA ArriveAccount ==
  ASSUME CeilingInv, Books, AccountInv, NEW q \in Requests, NEW p \in Payloads, Arrive(q, p)
  PROVE  AccountInv'
  <1> DEFINE handler ==
        [at |-> IF p.authentic THEN "reading" ELSE "rejected", payload |-> p,
         snapshot |-> <<>>, next |-> 1, rule |-> Missing, flagged |-> FALSE]
  <1>1. /\ requests' = [requests EXCEPT ![q] = handler] /\ requests[q].at = "waiting"
        /\ UNCHANGED <<judged, charged>>
    BY DEF Arrive, Is
  <1>2. charged[q] = {}
    BY <1>1, AccountKnown DEF AccountedAs
  <1>3. handler.at \in {"reading", "rejected"}
    OBVIOUS
  <1> HIDE DEF handler
  <1>4. AccountedAs(handler, judged[q], charged[q])
    BY <1>2, <1>3 DEF AccountedAs
  <1> QED
    BY <1>1, <1>4, AccountKnown, OneAccounted

LEMMA SnapshotAccount ==
  ASSUME CeilingInv, OrderInv, Books, AccountInv, NEW q \in Requests, Snapshot(q)
  PROVE  AccountInv'
  <1> DEFINE at == IF Payload(q).mcp = MalformedMCP THEN "rejected" ELSE "judging"
             handler == [requests[q] EXCEPT !.at = at, !.snapshot = policy]
  <1>1. /\ requests' = [requests EXCEPT ![q] = handler] /\ requests[q].at = "reading"
        /\ UNCHANGED <<judged, charged>>
    BY DEF Snapshot, Is
  <1>2. requests[q] \in Handlers
    BY <1>1, Arrived DEF CeilingInv, Stages
  <1>3. judged[q] = <<>> /\ charged[q] = {}
    BY <1>1, AccountKnown DEF AccountedAs, OrderInv, Ordered
  <1>4. at \in {"rejected", "judging"}
    OBVIOUS
  <1> HIDE DEF at
  <1>5. handler.at = at
    BY <1>2 DEF Handlers
  <1> HIDE DEF handler
  <1>6. Done(handler, judged[q]) = {}
    BY <1>3 DEF Done
  <1>7. AccountedAs(handler, judged[q], charged[q])
    BY <1>3, <1>4, <1>5, <1>6 DEF AccountedAs
  <1> QED
    BY <1>1, <1>7, AccountKnown, OneAccounted

LEMMA LocalAccount ==
  ASSUME CeilingInv, Books, AccountInv, NEW q \in Requests, Skip(q) \/ Lock(q) \/ Forward(q)
  PROVE  AccountInv'
  <1>1. requests[q].at \in {"judging", "calling"} /\ UNCHANGED <<judged, charged>>
    BY DEF Skip, Lock, Forward, Is
  <1>2. requests[q] \in Handlers
    BY <1>1, Arrived DEF CeilingInv, Stages
  <1>3. ASSUME NEW handler, requests' = [requests EXCEPT ![q] = handler],
               handler.payload = requests[q].payload, handler.flagged = requests[q].flagged,
               handler.rule = requests[q].rule,
               \/ requests[q].at = "judging"
                    /\ handler.at \in {"judging", "forwarded", "unreachable"}
               \/ requests[q].at = "calling" /\ handler.at = "locked"
        PROVE  AccountInv'
    <2>1. AccountedAs(handler, judged[q], charged[q])
      BY <1>3, AccountKnown, QuietAccount
    <2> QED
      BY <1>1, <1>3, <2>1, AccountKnown, OneAccounted
  <1>4. CASE Skip(q)
    <2> DEFINE handler == [requests[q] EXCEPT !.next = @ + 1]
    <2>1. requests' = [requests EXCEPT ![q] = handler] /\ requests[q].at = "judging"
      BY <1>4 DEF Skip, Is
    <2>2. /\ handler.at = "judging" /\ handler.payload = requests[q].payload
          /\ handler.flagged = requests[q].flagged /\ handler.rule = requests[q].rule
      BY <1>2, <2>1 DEF Handlers
    <2> HIDE DEF handler
    <2> QED
      BY <1>3, <2>1, <2>2
  <1>5. ASSUME NEW at \in {"locked", "forwarded", "unreachable"}, Becomes(q, at),
               IF at = "locked" THEN requests[q].at = "calling" ELSE requests[q].at = "judging"
        PROVE  AccountInv'
    <2> DEFINE handler == [requests[q] EXCEPT !.at = at]
    <2>1. requests' = [requests EXCEPT ![q] = handler]
      BY <1>5 DEF Becomes
    <2>2. /\ handler.at = at /\ handler.payload = requests[q].payload
          /\ handler.flagged = requests[q].flagged /\ handler.rule = requests[q].rule
      BY <1>2 DEF Handlers
    <2> HIDE DEF handler
    <2> QED
      BY <1>3, <1>5, <2>1, <2>2
  <1>6. CASE Lock(q)
    BY <1>5, <1>6 DEF Lock, Is
  <1>7. CASE Forward(q)
    BY <1>5, <1>7 DEF Forward, Is
  <1> QED
    BY <1>4, <1>6, <1>7

\* A rule more judges the request, and is not done with it if it objects or goes on to
\* the engine.
LEMMA CheckAccount ==
  ASSUME CeilingInv, Books, AccountInv, NEW q \in Requests, Check(q)
  PROVE  AccountInv'
  <1> DEFINE p == Payload(q)
             global == RuleAt(q, requests[q].next)
             rule == Tighten(global, p.directive)
             at == IF rule.maxCumulative = NoLimit THEN "judging" ELSE "calling"
             after == IF rule.maxCumulative = NoLimit THEN requests[q].next + 1
                      ELSE requests[q].next
             flag == Flagged(q, Objected(rule, p))
             bad(a) == [requests[q] EXCEPT !.at = a]
             good == [requests[q] EXCEPT !.rule = rule, !.flagged = flag, !.at = at, !.next = after]
             more == Append(judged[q], global)
  <1>1. /\ requests[q].at = "judging" /\ charged' = charged
        /\ requests[q].next <= Len(requests[q].snapshot)
        /\ judged' = [judged EXCEPT ![q] = more]
        /\ \/ \E a \in {"rejected", "panicked"} : requests' = [requests EXCEPT ![q] = bad(a)]
           \/ requests' = [requests EXCEPT ![q] = good]
    BY DEF Check, Is, Becomes, Remaining
  <1>2. requests[q] \in Handlers
    BY <1>1, Arrived DEF CeilingInv, Stages
  <1>3. global \in AllRules
    <2>1. requests[q].snapshot \in Seq(AllRules) /\ requests[q].next \in Nat \ {0}
      BY <1>2 DEF Handlers
    <2> QED
      BY <1>1, <2>1 DEF RuleAt
  <1>4. \A a \in {"rejected", "panicked"} : bad(a).at = a /\ bad(a).payload = p
    BY <1>2 DEF Handlers, Payload
  <1>5. \/ at = "judging" /\ rule.maxCumulative = NoLimit
        \/ at = "calling" /\ rule.maxCumulative # NoLimit
    OBVIOUS
  <1>6. ~flag => ~requests[q].flagged
    BY DEF Flagged
  <1>7. good.at = at /\ good.rule = rule /\ good.payload = p /\ good.flagged = flag
    <2> HIDE DEF at, after, flag, rule, p
    <2> QED
      BY <1>2 DEF Handlers, Payload, p
  <1>8. judged[q] \in Seq(AllRules) /\ AccountedAs(requests[q], judged[q], charged[q])
    BY AccountKnown
  <1> DEFINE n == Len(judged[q])
  <1>9. /\ more \in Seq(AllRules) /\ n \in Nat /\ Len(more) = n + 1 /\ more[Len(more)] = global
        /\ more # <<>> /\ \A i \in 1 .. n : i \in 1 .. Len(more) /\ more[i] = judged[q][i]
    BY <1>3, <1>8
  <1>10. p = requests[q].payload
    BY DEF Payload
  <1>11. MayCharge(global, p) => rule.maxCumulative # NoLimit
    BY DEF MayCharge
  <1> HIDE DEF p, global, rule, at, after, flag, bad, good, more, n
  <1>12. \A i : i \in Done(requests[q], judged[q]) <=> i \in 1 .. n
    BY <1>1, <1>8, DoneOf DEF n
  <1>13. ASSUME NEW a \in {"rejected", "panicked"}
         PROVE  AccountedAs(bad(a), more, charged[q])
    <2>1. \A i \in 1 .. n : i \in Done(bad(a), more)
      BY <1>4, <1>9, DoneOf
    <2> QED
      BY <2>1, <1>1, <1>4, <1>8, <1>9, <1>10, <1>12 DEF AccountedAs
  <1>14. AccountedAs(good, more, charged[q])
    <2>1. good.at = "calling" => good.rule = Tighten(global, p.directive)
      BY <1>7 DEF rule
    <2>2. \A i \in 1 .. n : i \in Done(good, more)
      BY <1>5, <1>7, <1>9, DoneOf
    <2>3. \A i \in Done(good, more) : MayCharge(more[i], p) => i \in 1 .. n
      <3>1. CASE at = "calling"
        BY <3>1, <1>7, <1>9, DoneOf
      <3>2. CASE at = "judging"
        <4>1. ~MayCharge(global, p)
          BY <3>2, <1>5, <1>11
        <4> QED
          BY <3>2, <4>1, <1>7, <1>9, DoneOf
      <3> QED
        BY <3>1, <3>2, <1>5
    <2>4. \A charge \in charged[q] : \E i \in Done(good, more) :
            MayCharge(more[i], p) /\ charge = ChargeOf(more[i], p)
      BY <2>2, <1>8, <1>9, <1>10, <1>12 DEF AccountedAs
    <2>5. ~good.flagged => \A i \in Done(good, more) :
            MayCharge(more[i], p) => ChargeOf(more[i], p) \in charged[q]
      BY <2>3, <1>1, <1>6, <1>7, <1>8, <1>9, <1>10, <1>12 DEF AccountedAs
    <2> QED
      BY <2>1, <2>4, <2>5, <1>5, <1>7, <1>9 DEF AccountedAs
  <1> QED
    BY <1>1, <1>8, <1>13, <1>14, AccountKnown, OneAccounted

(***************************************************************************)
(* What a call of the engine does to the books, in terms of the rule that  *)
(* is judging the request.                                                 *)
(***************************************************************************)
LastRule(q) == judged[q][Len(judged[q])]
LastTight(q) == Tighten(LastRule(q), requests[q].payload.directive)
LastResult(q) == Extracted(LastRule(q), requests[q].payload)

NotCounted(q, handler) ==
  /\ UNCHANGED <<ledger, charged>>
  /\ \/ Unreadable(LastTight(q), LastResult(q)) /\ handler.at \in {"judging", "panicked"}
     \/ handler.at = "rejected"
     \/ handler.at = "judging" /\ handler.flagged

Counted(q, handler) ==
  LET t == requests[q].payload.traj
      entry == ledger[t][LastRule(q).ruleID]
  IN  /\ handler.at = "judging"
      /\ ~Unreadable(LastTight(q), LastResult(q))
      /\ ~Exceeds(Spent(entry, LastTight(q), 0), LastTight(q), LastResult(q))
      /\ ledger' = [ledger EXCEPT ![t][LastRule(q).ruleID] =
                      Entered(entry, LastTight(q), LastResult(q), 0)]
      /\ charged' = [charged EXCEPT ![q] = @ \cup {ChargeOf(LastRule(q), requests[q].payload)}]

CallsAs(q, handler) ==
  /\ requests' = [requests EXCEPT ![q] = handler]
  /\ handler.payload = requests[q].payload
  /\ ~handler.flagged => ~requests[q].flagged
  /\ NotCounted(q, handler) \/ Counted(q, handler)

\* The engine reads of a rule the fields that EngineRule copies.
LEMMA EngineReads ==
  ASSUME NEW rule, NEW res, NEW entry
  PROVE  /\ Engine!Unreadable(EngineRule(rule), res) <=> Unreadable(rule, res)
         /\ Engine!Exceeds(Engine!Spent(entry, EngineRule(rule), 0), EngineRule(rule), res) <=>
              Exceeds(Spent(entry, rule, 0), rule, res)
         /\ Engine!Entered(entry, EngineRule(rule), res, 0) = Entered(entry, rule, res, 0)
  <1> DEFINE own == EngineRule(rule)
  <1>1. /\ own.ruleID = rule.ruleID /\ own.accumulator = rule.accumulator
        /\ own.maxCumulative = rule.maxCumulative /\ own.timeWindow = rule.timeWindow
    BY DEF EngineRule
  <1> HIDE DEF own
  <1>2. Engine!Unreadable(own, res) <=> Unreadable(rule, res)
    BY <1>1 DEF Engine!Unreadable, Unreadable
  <1>3. WindowOf(own.timeWindow, 0) = WindowOf(rule.timeWindow, 0)
    BY <1>1
  <1>4. Spent(entry, own, 0) = Spent(entry, rule, 0)
    BY <1>1 DEF Spent
  <1>5. Engine!Spent(entry, own, 0) = Spent(entry, own, 0)
    <2>1. Engine!WindowOf(own.timeWindow, 0) = WindowOf(own.timeWindow, 0)
      BY DEF Engine!WindowOf, WindowOf, Engine!In, In, Engine!Period, Period,
             Engine!Schedules, Schedules
    <2> QED
      BY <2>1 DEF Engine!Spent, Spent, Engine!Unused, Unused
  <1>6. \A used : Engine!Exceeds(used, own, res) <=> Exceeds(used, rule, res)
    <2>1. \A S : Engine!Cardinality(S) = Cardinality(S)
      BY DEF Engine!Cardinality, Cardinality
    <2> QED
      BY <1>1, <2>1 DEF Engine!Exceeds, Exceeds
  <1>7. \A used : Charged(used, own, res) = Charged(used, rule, res)
    BY <1>1 DEF Charged
  <1>8. Entered(entry, own, res, 0) = Entered(entry, rule, res, 0)
    BY <1>3, <1>4, <1>7 DEF Entered
  <1>9. Engine!Entered(entry, own, res, 0) = Entered(entry, own, res, 0)
    BY EngineOperators
  <1> QED
    BY <1>2, <1>4, <1>5, <1>6, <1>8, <1>9 DEF own

LEMMA CallFacts ==
  ASSUME CeilingInv, Books, AccountInv, NEW q \in Requests, Call(q)
  PROVE  /\ requests[q] \in Handlers /\ requests[q].at = "locked"
         /\ requests[q].payload \in Payloads
         /\ judged[q] # <<>> /\ LastRule(q) \in AllRules
         /\ LastTight(q).maxCumulative # NoLimit
         /\ judged' = judged
         /\ \E handler : CallsAs(q, handler)
  <1> DEFINE p == requests[q].payload
             rule == requests[q].rule
             own == EngineRule(rule)
             res == Extracted(rule, p)
             charge == [ruleID |-> rule.ruleID, result |-> res]
             at == CASE reply'.verdict = "panic" -> "panicked"
                     [] reply'.verdict = "denied" /\ ~DryRun -> "rejected"
                     [] OTHER -> "judging"
             flag == Flagged(q, DryRun /\ reply'.verdict = "denied")
             next == requests[q].next + 1
             handler == [requests[q] EXCEPT !.at = at, !.flagged = flag, !.next = next]
  <1>1. requests[q] \in Handlers /\ requests[q].at = "locked"
    BY Arrived DEF CeilingInv, Call, Is, Stages
  <1>2. p \in Payloads
    BY <1>1 DEF Handlers
  <1>3. /\ judged[q] # <<>> /\ rule = LastTight(q) /\ rule.maxCumulative # NoLimit
        /\ judged[q] \in Seq(AllRules)
    BY <1>1, AccountKnown DEF AccountedAs, LastTight, LastRule
  <1>4. LastRule(q) \in AllRules
    BY <1>3 DEF LastRule
  <1>5. rule.ruleID = LastRule(q).ruleID /\ rule.valuePath = LastRule(q).valuePath
    <2>1. LastRule(q) \in Rules /\ p.directive \in Directives \cup {NoDirective}
      BY <1>2, <1>4, RulesTyped, ProxyAssumption
    <2> QED
      BY <1>3, <2>1, TightenAccount DEF LastTight
  <1>6. res = LastResult(q) /\ charge = ChargeOf(LastRule(q), p)
    BY <1>5 DEF Extracted, LastResult, ChargeOf
  <1>7. own.ruleID = rule.ruleID /\ own.maxCumulative = rule.maxCumulative
    BY DEF EngineRule
  <1>8. /\ EngineCall(p.traj, own, res) /\ judged' = judged
        /\ requests' = [requests EXCEPT ![q] = handler]
        /\ charged' = IF reply'.verdict = "granted"
                        THEN [charged EXCEPT ![q] = @ \cup {charge}] ELSE charged
    BY DEF Call, Payload
  <1>9. at \in Stages
    BY DEF Stages
  <1>10. /\ reply'.verdict = "uncounted" => at = "judging"
         /\ reply'.verdict = "panic" => at = "panicked"
         /\ reply'.verdict = "denied" => at = "rejected" \/ (at = "judging" /\ flag)
         /\ reply'.verdict = "granted" => at = "judging"
    BY DEF Flagged
  <1>11. ~flag => ~requests[q].flagged
    BY DEF Flagged
  <1> HIDE DEF at, flag, next, p
  <1>12. handler.at = at /\ handler.flagged = flag /\ handler.payload = p
    BY <1>1 DEF Handlers, p
  <1> HIDE DEF handler, rule, own, res, charge
  <1>13. CASE Engine!PassUncounted(p.traj, own, res)
    <2>1. reply'.verdict \in {"uncounted", "panic"} /\ ledger' = ledger
      BY <1>13 DEF Engine!PassUncounted, Engine!Answered
    <2>2. Unreadable(rule, res)
      BY <1>13, <1>3, <1>7, EngineReads DEF Engine!PassUncounted, own
    <2>3. NotCounted(q, handler)
      BY <1>3, <1>6, <1>8, <1>10, <1>12, <2>1, <2>2 DEF NotCounted
    <2> QED
      BY <1>1, <1>2, <1>3, <1>4, <1>8, <1>11, <1>12, <2>3 DEF CallsAs, p
  <1>14. CASE Engine!Deny(p.traj, own, res)
    <2>1. reply'.verdict = "denied" /\ ledger' = ledger
      BY <1>14 DEF Engine!Deny, Engine!Answered
    <2>2. NotCounted(q, handler)
      BY <1>8, <1>10, <1>12, <2>1 DEF NotCounted
    <2> QED
      BY <1>1, <1>2, <1>3, <1>4, <1>8, <1>11, <1>12, <2>2 DEF CallsAs, p
  <1>15. CASE Engine!Grant(p.traj, own, res)
    <2> DEFINE entry == ledger[p.traj][rule.ruleID]
    <2>1. /\ reply'.verdict = "granted" /\ ~Engine!Unreadable(own, res)
          /\ ~Engine!Exceeds(Engine!Spent(entry, own, 0), own, res)
      BY <1>15, <1>7 DEF Engine!Grant, Engine!Answered
    <2>2. ledger' = [ledger EXCEPT ![p.traj][rule.ruleID] = Engine!Entered(entry, own, res, 0)]
      BY <1>15, <1>7 DEF Engine!Grant
    <2> HIDE DEF entry
    <2>3. /\ ~Unreadable(rule, res) /\ ~Exceeds(Spent(entry, rule, 0), rule, res)
          /\ Engine!Entered(entry, own, res, 0) = Entered(entry, rule, res, 0)
      BY <2>1, EngineReads DEF own
    <2>4. entry = ledger[p.traj][LastRule(q).ruleID]
      BY <1>5 DEF entry
    <2>5. Counted(q, handler)
      BY <1>3, <1>5, <1>6, <1>8, <1>10, <1>12, <2>1, <2>2, <2>3, <2>4 DEF Counted, p
    <2> QED
      BY <1>1, <1>2, <1>3, <1>4, <1>8, <1>11, <1>12, <2>5 DEF CallsAs, p
  <1> QED
    BY <1>8, <1>13, <1>14, <1>15 DEF EngineCall

LEMMA CallAccount ==
  ASSUME CeilingInv, Books, AccountInv, NEW q \in Requests, Call(q)
  PROVE  AccountInv'
  <1> DEFINE p == requests[q].payload
             n == Len(judged[q])
  <1>1. /\ requests[q] \in Handlers /\ requests[q].at = "locked" /\ p \in Payloads
        /\ judged[q] # <<>> /\ LastRule(q) \in AllRules
        /\ LastTight(q).maxCumulative # NoLimit /\ judged' = judged
    BY CallFacts
  <1>2. PICK handler : CallsAs(q, handler)
    BY CallFacts
  <1>3. judged[q] \in Seq(AllRules) /\ AccountedAs(requests[q], judged[q], charged[q])
    BY AccountKnown
  <1>4. n \in Nat \ {0} /\ judged[q][n] = LastRule(q)
    BY <1>1, <1>3 DEF LastRule
  <1>5. Extracted(LastTight(q), p) = LastResult(q)
    <2>1. LastRule(q) \in Rules /\ p.directive \in Directives \cup {NoDirective}
      BY <1>1, RulesTyped, ProxyAssumption
    <2>2. LastTight(q).valuePath = LastRule(q).valuePath
      BY <2>1, TightenAccount DEF LastTight
    <2> QED
      BY <2>2 DEF Extracted, LastResult
  <1>6. MayCharge(LastRule(q), p) <=> ~Unreadable(LastTight(q), LastResult(q))
    BY <1>1, <1>5 DEF MayCharge, LastTight
  <1>7. \A i : i \in Done(requests[q], judged[q]) <=> i \in 1 .. n /\ i # n
    <2>1. \A i : i \in Done(requests[q], judged[q]) <=> i \in 1 .. n /\ i < n
      BY <1>1, <1>3, DoneOf
    <2> QED
      BY <1>4, <2>1
  <1>8. /\ requests' = [requests EXCEPT ![q] = handler] /\ handler.payload = p
        /\ ~handler.flagged => ~requests[q].flagged
    BY <1>2 DEF CallsAs
  <1> HIDE DEF p, n
  <1>9. CASE NotCounted(q, handler)
    <2>1. /\ charged' = charged
          /\ handler.at \in {"judging", "panicked", "rejected"}
          /\ handler.at = "judging" /\ ~handler.flagged => ~MayCharge(LastRule(q), p)
      BY <1>6, <1>9 DEF NotCounted
    <2>2. \A i \in 1 .. n : i # n => i \in Done(handler, judged[q])
      <3>1. \A i \in 1 .. n : i # n => i < n
        BY <1>4
      <3> QED
        BY <1>3, <2>1, <3>1, DoneOf DEF n
    <2>3. AccountedAs(handler, judged[q], charged[q])
      <3>1. \A charge \in charged[q] : \E i \in Done(handler, judged[q]) :
              MayCharge(judged[q][i], p) /\ charge = ChargeOf(judged[q][i], p)
        BY <1>3, <1>7, <2>2 DEF AccountedAs, p
      <3>2. handler.at = "judging" /\ ~handler.flagged =>
              \A i \in Done(handler, judged[q]) :
                MayCharge(judged[q][i], p) => ChargeOf(judged[q][i], p) \in charged[q]
        <4>1. \A i \in Done(handler, judged[q]) : i \in 1 .. n
          BY DEF Done, n
        <4> QED
          BY <1>1, <1>3, <1>4, <1>7, <1>8, <2>1, <4>1 DEF AccountedAs, p
      <3> QED
        BY <1>8, <2>1, <3>1, <3>2 DEF AccountedAs
    <2> QED
      BY <1>1, <1>8, <2>1, <2>3, AccountKnown, OneAccounted
  <1>10. CASE Counted(q, handler)
    <2> DEFINE charge == ChargeOf(LastRule(q), p)
               charges == charged[q] \cup {charge}
    <2>1. /\ charged' = [charged EXCEPT ![q] = charges] /\ handler.at = "judging"
          /\ MayCharge(LastRule(q), p)
      BY <1>6, <1>10 DEF Counted, p
    <2>2. \A i : i \in Done(handler, judged[q]) <=> i \in 1 .. n
      BY <1>3, <2>1, DoneOf DEF n
    <2>3. AccountedAs(handler, judged[q], charges)
      <3>1. \A c \in charged[q] : \E i \in Done(handler, judged[q]) :
              MayCharge(judged[q][i], p) /\ c = ChargeOf(judged[q][i], p)
        BY <1>3, <1>7, <2>2 DEF AccountedAs, p
      <3>2. n \in Done(handler, judged[q]) /\ MayCharge(judged[q][n], p)
              /\ charge = ChargeOf(judged[q][n], p)
        BY <1>4, <2>1, <2>2
      <3>3. ~handler.flagged =>
              \A i \in Done(handler, judged[q]) :
                MayCharge(judged[q][i], p) => ChargeOf(judged[q][i], p) \in charges
        BY <1>1, <1>3, <1>4, <1>7, <1>8, <2>2 DEF AccountedAs, p
      <3> HIDE DEF charge
      <3> QED
        BY <1>8, <2>1, <3>1, <3>2, <3>3 DEF AccountedAs
    <2> HIDE DEF charges
    <2> QED
      BY <1>1, <1>8, <2>1, <2>3, AccountKnown, OneAccounted
  <1> QED
    BY <1>2, <1>9, <1>10 DEF CallsAs

LEMMA InitAccount == Init => AccountInv
  BY DEF Init, AccountInv, AccountedAs, Waiting

LEMMA NextAccount ==
  CeilingInv /\ OrderInv /\ Books /\ AccountInv /\ [Next]_vars => AccountInv'
  <1> SUFFICES ASSUME CeilingInv, OrderInv, Books, AccountInv, [Next]_vars PROVE AccountInv'
    OBVIOUS
  <1>1. CASE UNCHANGED <<requests, judged, charged>>
    BY <1>1 DEF AccountInv
  <1>2. ASSUME NEW q \in Requests, NEW p \in Payloads, Arrive(q, p)
        PROVE  AccountInv'
    BY <1>2, ArriveAccount
  <1>3. ASSUME NEW q \in Requests, Snapshot(q) \/ Proceed(q)
        PROVE  AccountInv'
    BY <1>3, SnapshotAccount, LocalAccount, CheckAccount, CallAccount DEF Proceed
  <1>4. CASE ChangePolicy
    BY <1>1, <1>4 DEF ChangePolicy
  <1> QED
    BY <1>1, <1>2, <1>3, <1>4 DEF Next, vars

-----------------------------------------------------------------------------
(***************************************************************************)
(* The ledger of an id is the total of its charges, in its one window; the *)
(* charges by capped versions of a rule fit under the cap of one of them.  *)
(***************************************************************************)
InWindow(id, entry) ==
  \/ entry.used = Unused
  \/ \A rule \in AllRules : rule.ruleID = id => entry.window = WindowOf(rule.timeWindow, 0)

LedgerInv ==
  \A t \in Trajectories, id \in RuleIDs :
    /\ IsFiniteSet(Charges(t, id))
    /\ ledger[t][id].used = Explains(t, id)
    /\ InWindow(id, ledger[t][id])

\* The charges by capped versions of the rule.
CappedCharges(t, id) == {c \in Charges(t, id) : RulesOf(c[1]) \cap Capped(id) # {}}

Fits(used, cap) == used.sum <= cap /\ used.count <= cap /\ Cardinality(used.uniqueSet) <= cap

CapInv ==
  \A t \in Trajectories, id \in RuleIDs :
    CappedCharges(t, id) # {} =>
      \E rule \in Capped(id) : Fits(Total(id, CappedCharges(t, id)), rule.maxCumulative)

ArrivedFinite == IsFiniteSet({q \in Requests : ~Is(q, "waiting")})

\* A request that has arrived keeps its payload.
LEMMA Moves ==
  ASSUME CeilingInv, NEW q \in Requests, Snapshot(q) \/ Proceed(q)
  PROVE  /\ requests[q] \in Handlers
         /\ \E handler : /\ requests' = [requests EXCEPT ![q] = handler]
                         /\ handler.at # "waiting" /\ handler.payload = requests[q].payload
  <1>1. requests[q].at \in {"reading", "judging", "calling", "locked"}
    BY DEF Proceed, Snapshot, Skip, Check, Lock, Call, Forward, Is
  <1>2. requests[q] \in Handlers
    BY <1>1, Arrived DEF CeilingInv, Stages
  <1>3. ASSUME NEW at \in Stages, Becomes(q, at)
        PROVE  \E handler : /\ requests' = [requests EXCEPT ![q] = handler]
                            /\ handler.at # "waiting" /\ handler.payload = requests[q].payload
    <2> DEFINE handler == [requests[q] EXCEPT !.at = at]
    <2>1. requests' = [requests EXCEPT ![q] = handler]
      BY <1>3 DEF Becomes
    <2>2. handler.at # "waiting" /\ handler.payload = requests[q].payload
      BY <1>2, <1>3 DEF Handlers, Stages
    <2> HIDE DEF handler
    <2> QED
      BY <2>1, <2>2
  <1>4. CASE Snapshot(q)
    <2> DEFINE at == IF Payload(q).mcp = MalformedMCP THEN "rejected" ELSE "judging"
               handler == [requests[q] EXCEPT !.at = at, !.snapshot = policy]
    <2>1. requests' = [requests EXCEPT ![q] = handler] /\ at # "waiting"
      BY <1>4 DEF Snapshot
    <2> HIDE DEF at
    <2>2. handler.at = at /\ handler.payload = requests[q].payload
      BY <1>2 DEF Handlers
    <2> HIDE DEF handler
    <2> QED
      BY <1>2, <2>1, <2>2
  <1>5. CASE Skip(q)
    <2> DEFINE handler == [requests[q] EXCEPT !.next = @ + 1]
    <2>1. requests' = [requests EXCEPT ![q] = handler]
      BY <1>5 DEF Skip
    <2>2. handler.at # "waiting" /\ handler.payload = requests[q].payload
      BY <1>2 DEF Handlers, Stages
    <2> HIDE DEF handler
    <2> QED
      BY <1>2, <2>1, <2>2
  <1>6. CASE Check(q)
    <2> DEFINE p == Payload(q)
               rule == Tighten(RuleAt(q, requests[q].next), p.directive)
               at == IF rule.maxCumulative = NoLimit THEN "judging" ELSE "calling"
               next == IF rule.maxCumulative = NoLimit THEN requests[q].next + 1
                       ELSE requests[q].next
               flag == Flagged(q, Objected(rule, p))
               good == [requests[q] EXCEPT !.rule = rule, !.flagged = flag, !.at = at,
                                           !.next = next]
    <2>1. \/ \E a \in {"rejected", "panicked"} : Becomes(q, a)
          \/ requests' = [requests EXCEPT ![q] = good]
      BY <1>6 DEF Check
    <2>2. at # "waiting" /\ "rejected" \in Stages /\ "panicked" \in Stages
      BY DEF Stages
    <2> HIDE DEF p, rule, at, next, flag
    <2>3. good.at = at /\ good.payload = requests[q].payload
      BY <1>2 DEF Handlers
    <2> HIDE DEF good
    <2> QED
      BY <1>2, <1>3, <2>1, <2>2, <2>3
  <1>7. CASE Lock(q) \/ Forward(q)
    <2>1. \E at \in {"locked", "forwarded", "unreachable"} : Becomes(q, at)
      BY <1>7 DEF Lock, Forward
    <2> QED
      BY <1>2, <1>3, <2>1 DEF Stages
  <1>8. CASE Call(q)
    <2> DEFINE at == CASE reply'.verdict = "panic" -> "panicked"
                       [] reply'.verdict = "denied" /\ ~DryRun -> "rejected"
                       [] OTHER -> "judging"
               flag == Flagged(q, DryRun /\ reply'.verdict = "denied")
               next == requests[q].next + 1
               handler == [requests[q] EXCEPT !.at = at, !.flagged = flag, !.next = next]
    <2>1. requests' = [requests EXCEPT ![q] = handler] /\ at # "waiting"
      BY <1>8 DEF Call
    <2> HIDE DEF at, flag, next
    <2>2. handler.at = at /\ handler.payload = requests[q].payload
      BY <1>2 DEF Handlers
    <2> HIDE DEF handler
    <2> QED
      BY <1>2, <2>1, <2>2
  <1> QED
    BY <1>4, <1>5, <1>6, <1>7, <1>8 DEF Proceed

LEMMA Onward ==
  ASSUME CeilingInv, [Next]_vars, NEW q \in Requests
  PROVE  /\ requests[q].at # "waiting" =>
              requests'[q].at # "waiting" /\ requests'[q].payload = requests[q].payload
         /\ \/ judged'[q] = judged[q]
            \/ \E rule \in AllRules : judged'[q] = Append(judged[q], rule)
  <1>1. CASE UNCHANGED <<requests, judged>>
    BY <1>1
  <1>2. ASSUME NEW other \in Requests, NEW p \in Payloads, Arrive(other, p)
        PROVE  /\ requests[q].at # "waiting" => requests'[q] = requests[q]
               /\ judged' = judged
    BY <1>2 DEF Arrive, Is, CeilingInv, Typed
  <1>3. ASSUME NEW other \in Requests, Snapshot(other) \/ Proceed(other)
        PROVE  /\ requests[q].at # "waiting" =>
                    requests'[q].at # "waiting" /\ requests'[q].payload = requests[q].payload
               /\ \/ judged'[q] = judged[q]
                  \/ \E rule \in AllRules : judged'[q] = Append(judged[q], rule)
    <2>1. requests[other] \in Handlers
      BY <1>3, Moves
    <2>2. PICK handler :
            /\ requests' = [requests EXCEPT ![other] = handler]
            /\ handler.at # "waiting" /\ handler.payload = requests[other].payload
      BY <1>3, Moves
    <2>3. requests[q].at # "waiting" =>
            requests'[q].at # "waiting" /\ requests'[q].payload = requests[q].payload
      BY <2>2 DEF CeilingInv, Typed
    <2>4. CASE ~Check(other)
      BY <1>3, <2>3, <2>4 DEF Proceed, Snapshot, Skip, Lock, Call, Forward
    <2>5. CASE Check(other)
      <3> DEFINE global == RuleAt(other, requests[other].next)
      <3>1. /\ judged' = [judged EXCEPT ![other] = Append(judged[other], global)]
            /\ requests[other].next <= Len(requests[other].snapshot)
        BY <2>5 DEF Check, Remaining
      <3>2. global \in AllRules
        <4>1. requests[other].snapshot \in Seq(AllRules) /\ requests[other].next \in Nat \ {0}
          BY <2>1 DEF Handlers
        <4> QED
          BY <3>1, <4>1 DEF RuleAt
      <3> HIDE DEF global
      <3> QED
        BY <2>3, <3>1, <3>2 DEF CeilingInv, Typed
    <2> QED
      BY <2>4, <2>5
  <1> QED
    BY <1>1, <1>2, <1>3 DEF Next, ChangePolicy, vars

\* The charges under an id of the requests of a trajectory that have arrived.
LEMMA InCharges ==
  ASSUME NEW t, NEW id, NEW c
  PROVE  c \in Charges(t, id) <=>
           \E q \in Requests : \E charge \in charged[q] :
             /\ c = <<q, charge>> /\ charge.ruleID = id
             /\ requests[q].at # "waiting" /\ requests[q].payload.traj = t
  BY DEF Charges, Is, Payload

LEMMA InChargesNext ==
  ASSUME NEW t, NEW id, NEW c
  PROVE  c \in Charges(t, id)' <=>
           \E q \in Requests : \E charge \in charged'[q] :
             /\ c = <<q, charge>> /\ charge.ruleID = id
             /\ requests'[q].at # "waiting" /\ requests'[q].payload.traj = t
  BY DEF Charges, Is, Payload

LEMMA ChargesKept ==
  ASSUME CeilingInv, AccountInv, [Next]_vars, charged' = charged, NEW t, NEW id
  PROVE  Charges(t, id)' = Charges(t, id)
  <1>1. ASSUME NEW q \in Requests, charged[q] # {}
        PROVE  /\ requests[q].at # "waiting" /\ requests'[q].at # "waiting"
               /\ requests'[q].payload = requests[q].payload
    BY <1>1, Onward DEF AccountInv, AccountedAs
  <1>2. \A c : c \in Charges(t, id)' <=> c \in Charges(t, id)
    BY <1>1, InCharges, InChargesNext
  <1> QED
    BY <1>2

\* A charge belongs to a rule of its id that has judged its request.
LEMMA ChargeJudged ==
  ASSUME CeilingInv, AccountInv, NEW t, NEW id, NEW c \in Charges(t, id)
  PROVE  /\ c[1] \in Requests /\ c[2] \in charged[c[1]] /\ c = <<c[1], c[2]>>
         /\ requests[c[1]] \in Handlers /\ requests[c[1]].payload \in Payloads
         /\ judged[c[1]] \in Seq(AllRules)
         /\ \E i \in Done(requests[c[1]], judged[c[1]]) :
              /\ i \in 1 .. Len(judged[c[1]])
              /\ judged[c[1]][i] \in RulesOf(c[1]) \cap AllRules
              /\ judged[c[1]][i].ruleID = id
              /\ MayCharge(judged[c[1]][i], requests[c[1]].payload)
              /\ c[2] = ChargeOf(judged[c[1]][i], requests[c[1]].payload)
  <1>0. PICK q \in Requests : \E charge \in charged[q] :
          /\ c = <<q, charge>> /\ charge.ruleID = id /\ requests[q].at # "waiting"
    BY InCharges
  <1>1. PICK charge \in charged[q] :
          /\ c = <<q, charge>> /\ charge.ruleID = id /\ requests[q].at # "waiting"
    BY <1>0
  <1>2. c[1] = q /\ c[2] = charge
    BY <1>1
  <1>3. requests[q] \in Handlers /\ judged[q] \in Seq(AllRules)
    BY <1>1 DEF CeilingInv, Typed, Waiting
  <1>4. PICK i \in Done(requests[q], judged[q]) :
          /\ MayCharge(judged[q][i], requests[q].payload)
          /\ charge = ChargeOf(judged[q][i], requests[q].payload)
    BY DEF AccountInv, AccountedAs
  <1>5. /\ i \in 1 .. Len(judged[q]) /\ judged[q][i] \in RulesOf(q) \cap AllRules
        /\ judged[q][i].ruleID = id
    BY <1>1, <1>3, <1>4 DEF Done, RulesOf, ChargeOf
  <1>6. requests[q].payload \in Payloads
    BY <1>3 DEF Handlers
  <1> QED
    BY <1>1, <1>2, <1>3, <1>4, <1>5, <1>6

\* What a charge adds has the type that the accumulator of its rule reads.
LEMMA ChargeReadable ==
  ASSUME CeilingInv, AccountInv, StableRules, NEW t, NEW id, NEW c \in Charges(t, id),
         NEW rule \in AllRules, rule.ruleID = id
  PROVE  /\ c[2].result \in EngineResults
         /\ rule.accumulator = "sum" => c[2].result.type = "number" /\ c[2].result.value \in Int
  <1> DEFINE q == c[1]
             p == requests[q].payload
  <1>1. PICK i \in Done(requests[q], judged[q]) :
          /\ judged[q][i] \in AllRules /\ judged[q][i].ruleID = id
          /\ MayCharge(judged[q][i], p) /\ c[2] = ChargeOf(judged[q][i], p)
    BY ChargeJudged
  <1>2. p \in Payloads
    BY ChargeJudged
  <1> DEFINE own == judged[q][i]
             tight == Tighten(own, p.directive)
  <1> HIDE DEF p, q, own
  <1>3. own \in AllRules /\ own.ruleID = id /\ MayCharge(own, p) /\ c[2] = ChargeOf(own, p)
    BY <1>1 DEF own
  <1>4. c[2].result = Extracted(own, p)
    BY <1>3 DEF ChargeOf
  <1>5. own \in Rules /\ p.directive \in Directives \cup {NoDirective}
    BY <1>2, <1>3, RulesTyped, ProxyAssumption
  <1>6. tight.accumulator = own.accumulator /\ tight.valuePath = own.valuePath
    BY <1>5, TightenAccount
  <1>7. Extracted(tight, p) = Extracted(own, p) /\ ~Unreadable(tight, Extracted(tight, p))
    BY <1>3, <1>6 DEF MayCharge, Extracted
  <1>8. own.accumulator = rule.accumulator
    BY <1>3 DEF StableRules
  <1>9. /\ Extracted(own, p).type = "number" => Extracted(own, p).value \in Int
        /\ Extracted(own, p) \in EngineResults
    BY <1>2, <1>3, ProxyAssumption DEF Extracted, EngineResults
  <1> QED
    BY <1>4, <1>6, <1>7, <1>8, <1>9 DEF Unreadable

-----------------------------------------------------------------------------
(***************************************************************************)
(* Totals.                                                                 *)
(***************************************************************************)
Amounts(charges) == [c \in charges |-> c[2].result.value]

LEMMA TotalOf ==
  ASSUME StableRules, NEW rule \in AllRules, NEW charges
  PROVE  Total(rule.ruleID, charges) =
           [sum |-> IF rule.accumulator = "sum"
                      THEN SumFunctionOnSet(Amounts(charges), charges) ELSE 0,
            count |-> IF rule.accumulator = "count" THEN Cardinality(charges) ELSE 0,
            uniqueSet |-> IF rule.accumulator = "unique_set"
                            THEN {c[2].result.value : c \in charges} ELSE {}]
  <1> DEFINE kinds == {r.accumulator : r \in {s \in AllRules : s.ruleID = rule.ruleID}}
  <1>1. kinds = {rule.accumulator}
    BY DEF StableRules
  <1> HIDE DEF kinds
  <1>2. \A a : kinds = {a} <=> rule.accumulator = a
    BY <1>1
  <1> QED
    BY <1>2 DEF Total, Amounts, kinds

\* The same, field by field.
LEMMA TotalFields ==
  ASSUME StableRules, NEW rule \in AllRules, NEW charges
  PROVE  LET total == Total(rule.ruleID, charges)
         IN  /\ total = [sum |-> total.sum, count |-> total.count, uniqueSet |-> total.uniqueSet]
             /\ rule.accumulator = "sum" => total.sum = SumFunctionOnSet(Amounts(charges), charges)
             /\ rule.accumulator # "sum" => total.sum = 0
             /\ rule.accumulator = "count" => total.count = Cardinality(charges)
             /\ rule.accumulator # "count" => total.count = 0
             /\ rule.accumulator = "unique_set" =>
                  total.uniqueSet = {c[2].result.value : c \in charges}
             /\ rule.accumulator # "unique_set" => total.uniqueSet = {}
  <1> DEFINE total == Total(rule.ruleID, charges)
             a == IF rule.accumulator = "sum"
                    THEN SumFunctionOnSet(Amounts(charges), charges) ELSE 0
             b == IF rule.accumulator = "count" THEN Cardinality(charges) ELSE 0
             v == IF rule.accumulator = "unique_set"
                    THEN {c[2].result.value : c \in charges} ELSE {}
  <1>1. total = [sum |-> a, count |-> b, uniqueSet |-> v]
    BY TotalOf
  <1> HIDE DEF total, a, b, v
  <1>2. total.sum = a /\ total.count = b /\ total.uniqueSet = v
    BY <1>1
  <1> QED
    BY <1>1, <1>2 DEF total, a, b, v

LEMMA TotalNone ==
  ASSUME NEW id
  PROVE  Total(id, {}) = Unused
  <1>1. SumFunctionOnSet(Amounts({}), {}) = 0 /\ Cardinality({}) = 0
    BY FS_EmptySet, SumStep
  <1>2. Amounts({}) = [c \in {} |-> c[2].result.value]
    BY DEF Amounts
  <1> QED
    BY <1>1, <1>2 DEF Total, Unused

\* One charge more adds what the engine adds.
LEMMA TotalCharged ==
  ASSUME StableRules, NEW rule \in AllRules,
         NEW charges, IsFiniteSet(charges), NEW c, c \notin charges,
         rule.accumulator = "sum" => \A d \in charges \cup {c} : d[2].result.value \in Int
  PROVE  Total(rule.ruleID, charges \cup {c}) =
           Charged(Total(rule.ruleID, charges), rule, c[2].result)
  <1> DEFINE more == charges \cup {c}
             sum(s) == SumFunctionOnSet(Amounts(s), s)
             values(s) == {d[2].result.value : d \in s}
  <1>1. Cardinality(more) = Cardinality(charges) + 1 /\ Cardinality(charges) \in Nat
    BY FS_AddElement, FS_CardinalityType
  <1>2. values(more) = values(charges) \cup {c[2].result.value}
    OBVIOUS
  <1>3. rule.accumulator = "sum" =>
          /\ sum(more) = sum(charges) + c[2].result.value
          /\ sum(charges) \in Int /\ c[2].result.value \in Int
    <2> SUFFICES ASSUME rule.accumulator = "sum"
                 PROVE  /\ sum(more) = sum(charges) + c[2].result.value
                        /\ sum(charges) \in Int /\ c[2].result.value \in Int
      OBVIOUS
    <2> DEFINE f == Amounts(more)
               g == Amounts(charges)
    <2>1. /\ \A d \in more : f[d] \in Int
          /\ \A d \in charges : f[d] = g[d] /\ g[d] \in Int
          /\ f[c] = c[2].result.value
      BY DEF Amounts
    <2> HIDE DEF f, g
    <2>2. SumFunctionOnSet(f, more) = f[c] + SumFunctionOnSet(f, charges)
      BY <2>1, SumAdds
    <2>3. SumFunctionOnSet(f, charges) = SumFunctionOnSet(g, charges)
      BY <2>1, SumAgrees
    <2>4. SumFunctionOnSet(g, charges) \in Int
      BY <2>1, SumTyped
    <2>5. f[c] \in Int
      BY <2>1
    <2>6. SumFunctionOnSet(f, more) = SumFunctionOnSet(g, charges) + c[2].result.value
      BY <2>1, <2>2, <2>3, <2>4, <2>5
    <2> QED
      BY <2>1, <2>4, <2>5, <2>6 DEF f, g
  <1> HIDE DEF more, sum, values
  <1>4. \A s : Total(rule.ruleID, s) =
          [sum |-> IF rule.accumulator = "sum" THEN sum(s) ELSE 0,
           count |-> IF rule.accumulator = "count" THEN Cardinality(s) ELSE 0,
           uniqueSet |-> IF rule.accumulator = "unique_set" THEN values(s) ELSE {}]
    BY TotalOf DEF sum, values
  <1> DEFINE old == Total(rule.ruleID, charges)
             new == Total(rule.ruleID, more)
             v == c[2].result.value
             after == Charged(old, rule, c[2].result)
  <1>5. CASE rule.accumulator = "sum"
    <2>1. /\ old = [sum |-> sum(charges), count |-> 0, uniqueSet |-> {}]
          /\ sum(charges) \in Int /\ v \in Int
      BY <1>3, <1>4, <1>5
    <2>2. new = [sum |-> sum(charges) + v, count |-> 0, uniqueSet |-> {}]
      BY <1>3, <1>4, <1>5
    <2> DEFINE w == sum(charges) + v
    <2>3. after = [old EXCEPT !.sum = @ + v]
      BY <1>5 DEF Charged
    <2> HIDE DEF old, new, after, v
    <2>4. after = [old EXCEPT !.sum = w]
      BY <2>1, <2>3
    <2>5. new = [sum |-> w, count |-> 0, uniqueSet |-> {}]
      BY <2>2
    <2> HIDE DEF w
    <2>6. after = new
      BY <2>1, <2>4, <2>5
    <2> QED
      BY <2>6 DEF old, new, after, more
  <1>6. CASE rule.accumulator = "count"
    <2>1. /\ old = [sum |-> 0, count |-> Cardinality(charges), uniqueSet |-> {}]
          /\ Cardinality(charges) \in Nat
      BY <1>1, <1>4, <1>6
    <2>2. new = [sum |-> 0, count |-> Cardinality(charges) + 1, uniqueSet |-> {}]
      BY <1>1, <1>4, <1>6
    <2> DEFINE w == Cardinality(charges) + 1
    <2>3. after = [old EXCEPT !.count = @ + 1]
      BY <1>6 DEF Charged
    <2> HIDE DEF old, new, after, v
    <2>4. after = [old EXCEPT !.count = w]
      BY <2>1, <2>3
    <2>5. new = [sum |-> 0, count |-> w, uniqueSet |-> {}]
      BY <2>2
    <2> HIDE DEF w
    <2>6. after = new
      BY <2>1, <2>4, <2>5
    <2> QED
      BY <2>6 DEF old, new, after, more
  <1>7. CASE rule.accumulator = "unique_set"
    <2>1. old = [sum |-> 0, count |-> 0, uniqueSet |-> values(charges)]
      BY <1>4, <1>7
    <2>2. new = [sum |-> 0, count |-> 0, uniqueSet |-> values(charges) \cup {v}]
      BY <1>2, <1>4, <1>7
    <2>3. after = [old EXCEPT !.uniqueSet = @ \cup {v}]
      BY <1>7 DEF Charged
    <2> HIDE DEF old, new, after, v
    <2>4. after = new
      BY <2>1, <2>2, <2>3
    <2> QED
      BY <2>4 DEF old, new, after, more
  <1>8. CASE rule.accumulator \notin {"sum", "count", "unique_set"}
    <2>1. old = [sum |-> 0, count |-> 0, uniqueSet |-> {}] /\ new = old
      BY <1>4, <1>8
    <2>2. after = old
      BY <1>8 DEF Charged
    <2> HIDE DEF old, new, after
    <2>3. after = new
      BY <2>1, <2>2
    <2> QED
      BY <2>3 DEF old, new, after, more
  <1> QED
    BY <1>5, <1>6, <1>7, <1>8

-----------------------------------------------------------------------------
(***************************************************************************)
(* The ledger through the steps.                                           *)
(***************************************************************************)
IdsInv == \A q \in Requests : IdsUnique(judged[q])

LEMMA IdsNow == CeilingInv /\ OrderInv /\ UniqueInv => IdsInv
  BY JudgedUnique DEF IdsInv

LEMMA IdsNext == (CeilingInv /\ OrderInv /\ UniqueInv)' => IdsInv'
  BY IdsNow, PTL

\* The rule of an id that judged a request stays the only one.
LEMMA CappedKept ==
  ASSUME CeilingInv, AccountInv, IdsInv', [Next]_vars, NEW t, NEW id, NEW c \in Charges(t, id)
  PROVE  RulesOf(c[1])' \cap Capped(id) = RulesOf(c[1]) \cap Capped(id)
  <1> DEFINE q == c[1]
             old == judged[q]
             new == judged'[q]
  <1>1. q \in Requests /\ old \in Seq(AllRules)
    BY ChargeJudged
  <1>2. PICK i \in Done(requests[q], old) : i \in 1 .. Len(old) /\ old[i].ruleID = id
    BY ChargeJudged
  <1>3. new = old \/ \E rule \in AllRules : new = Append(old, rule)
    BY <1>1, Onward
  <1>4. /\ RulesOf(q) = {old[j] : j \in 1 .. Len(old)}
        /\ RulesOf(q)' = {new[j] : j \in 1 .. Len(new)}
    BY DEF RulesOf
  <1>5. IdsUnique(new)
    BY <1>1 DEF IdsInv
  <1> HIDE DEF q, old, new
  <1>6. ASSUME NEW rule \in AllRules, new = Append(old, rule)
        PROVE  RulesOf(q)' \cap Capped(id) = RulesOf(q) \cap Capped(id)
    <2>1. /\ Len(old) \in Nat /\ Len(new) = Len(old) + 1 /\ new[Len(old) + 1] = rule
          /\ \A j \in 1 .. Len(old) : new[j] = old[j]
      BY <1>1, <1>6
    <2>2. rule.ruleID # id
      <3>1. i \in 1 .. Len(new) /\ Len(old) + 1 \in 1 .. Len(new) /\ i # Len(old) + 1
        BY <1>2, <2>1
      <3>2. new[i].ruleID = id
        BY <1>2, <2>1
      <3> QED
        BY <1>5, <2>1, <3>1, <3>2 DEF IdsUnique
    <2>3. rule \notin Capped(id)
      BY <2>2 DEF Capped
    <2>4. RulesOf(q)' = RulesOf(q) \cup {rule}
      BY <1>4, <2>1
    <2> QED
      BY <2>3, <2>4
  <1>7. RulesOf(q)' \cap Capped(id) = RulesOf(q) \cap Capped(id)
    BY <1>3, <1>4, <1>6
  <1> QED
    BY <1>7 DEF q

LEMMA QuietLedger ==
  ASSUME CeilingInv, AccountInv, IdsInv', [Next]_vars, UNCHANGED <<ledger, charged>>
  PROVE  (LedgerInv => LedgerInv') /\ (CapInv => CapInv')
  <1>1. \A t, id : Charges(t, id)' = Charges(t, id)
    BY ChargesKept
  <1>2. \A t, id : CappedCharges(t, id)' = CappedCharges(t, id)
    BY <1>1, CappedKept DEF CappedCharges
  <1>3. \A t, id : Explains(t, id)' = Explains(t, id)
    BY <1>1 DEF Explains
  <1>4. LedgerInv => LedgerInv'
    BY <1>1, <1>3 DEF LedgerInv
  <1>5. CapInv => CapInv'
    BY <1>2 DEF CapInv
  <1> QED
    BY <1>4, <1>5

\* A call that is charged adds one charge, under one id, of one trajectory.
LEMMA ChargesGrow ==
  ASSUME CeilingInv, Books, AccountInv, IdsInv, NEW q \in Requests, Call(q),
         NEW handler, CallsAs(q, handler), Counted(q, handler), NEW t, NEW id
  PROVE  LET c == <<q, ChargeOf(LastRule(q), requests[q].payload)>>
         IN  IF t = requests[q].payload.traj /\ id = LastRule(q).ruleID
               THEN c \notin Charges(t, id) /\ Charges(t, id)' = Charges(t, id) \cup {c}
               ELSE Charges(t, id)' = Charges(t, id)
  <1> DEFINE p == requests[q].payload
             charge == ChargeOf(LastRule(q), p)
             c == <<q, charge>>
             here == t = p.traj /\ id = LastRule(q).ruleID
  <1>1. /\ requests[q].at = "locked" /\ judged[q] # <<>> /\ judged[q] \in Seq(AllRules)
        /\ AccountedAs(requests[q], judged[q], charged[q])
    BY CallFacts, AccountKnown
  <1>2. charge \notin charged[q]
    <2> SUFFICES ASSUME charge \in charged[q] PROVE FALSE
      OBVIOUS
    <2>1. PICK i \in Done(requests[q], judged[q]) : charge = ChargeOf(judged[q][i], p)
      BY <1>1 DEF AccountedAs
    <2>2. i \in 1 .. Len(judged[q]) /\ i < Len(judged[q])
      BY <1>1, DoneOf
    <2>3. judged[q][i].ruleID = judged[q][Len(judged[q])].ruleID
      BY <2>1 DEF ChargeOf, LastRule
    <2>4. Len(judged[q]) \in 1 .. Len(judged[q])
      BY <1>1, <2>2
    <2> QED
      BY <2>2, <2>3, <2>4 DEF IdsInv, IdsUnique
  <1>3. /\ requests' = [requests EXCEPT ![q] = handler] /\ handler.payload = p
        /\ handler.at = "judging" /\ charged' = [charged EXCEPT ![q] = @ \cup {charge}]
    BY DEF CallsAs, Counted
  <1>4. charge.ruleID = LastRule(q).ruleID
    BY DEF ChargeOf
  <1> HIDE DEF p, charge
  <1>5. /\ requests'[q] = handler /\ charged'[q] = charged[q] \cup {charge}
        /\ \A other \in Requests \ {q} :
             requests'[other] = requests[other] /\ charged'[other] = charged[other]
    BY <1>3 DEF CeilingInv, Typed, Books
  <1>6. c \notin Charges(t, id)
    BY <1>2, InCharges
  <1>7. \A d : d \in Charges(t, id)' <=> d \in Charges(t, id) \/ (here /\ d = c)
    <2> SUFFICES ASSUME NEW d
                 PROVE  d \in Charges(t, id)' <=> d \in Charges(t, id) \/ (here /\ d = c)
      OBVIOUS
    <2>1. ASSUME NEW r \in Requests, NEW x
          PROVE  /\ requests[r].at # "waiting" /\ requests[r].payload.traj = t
                      /\ x \in charged[r] =>
                        requests'[r].at # "waiting" /\ requests'[r].payload.traj = t
                          /\ x \in charged'[r]
                 /\ requests'[r].at # "waiting" /\ requests'[r].payload.traj = t
                      /\ x \in charged'[r] =>
                        \/ requests[r].at # "waiting" /\ requests[r].payload.traj = t
                             /\ x \in charged[r]
                        \/ r = q /\ x = charge /\ t = p.traj
      <3>1. CASE r = q
        BY <1>1, <1>3, <1>5, <3>1 DEF p
      <3>2. CASE r # q
        BY <1>5, <3>2
      <3> QED
        BY <3>1, <3>2
    <2>2. d \in Charges(t, id) => d \in Charges(t, id)'
      BY <2>1, InCharges, InChargesNext
    <2>3. d \in Charges(t, id)' => d \in Charges(t, id) \/ (here /\ d = c)
      BY <2>1, <1>4, InCharges, InChargesNext
    <2>4. here => c \in Charges(t, id)'
      BY <1>3, <1>4, <1>5, InChargesNext
    <2> QED
      BY <2>2, <2>3, <2>4
  <1> HIDE DEF c
  <1>8. IF here THEN c \notin Charges(t, id) /\ Charges(t, id)' = Charges(t, id) \cup {c}
        ELSE Charges(t, id)' = Charges(t, id)
    BY <1>6, <1>7
  <1> QED
    BY <1>8 DEF c, charge, p

\* The charge that a counted call adds is one its rule can read.
LEMMA CountedReadable ==
  ASSUME CeilingInv, Books, AccountInv, NEW q \in Requests, Call(q),
         NEW handler, Counted(q, handler)
  PROVE  /\ LastResult(q) \in EngineResults
         /\ LastRule(q).accumulator = "sum" =>
              LastResult(q).type = "number" /\ LastResult(q).value \in Int
         /\ LastTight(q).accumulator = LastRule(q).accumulator
         /\ LastTight(q).timeWindow = LastRule(q).timeWindow
         /\ LastTight(q).maxCumulative \in Int
         /\ LastRule(q).maxCumulative # NoLimit =>
              /\ LastRule(q).maxCumulative \in Int
              /\ LastTight(q).maxCumulative <= LastRule(q).maxCumulative
  <1>1. /\ requests[q].payload \in Payloads /\ LastRule(q) \in AllRules
        /\ LastTight(q).maxCumulative # NoLimit
    BY CallFacts
  <1>2. /\ LastRule(q) \in Rules
        /\ requests[q].payload.directive \in Directives \cup {NoDirective}
    BY <1>1, RulesTyped, ProxyAssumption
  <1>3. /\ LastTight(q).accumulator = LastRule(q).accumulator
        /\ LastTight(q).timeWindow = LastRule(q).timeWindow
        /\ LastTight(q).maxCumulative \in Int
        /\ LastRule(q).maxCumulative # NoLimit =>
             LastTight(q).maxCumulative <= LastRule(q).maxCumulative
    BY <1>1, <1>2, TightenAccount DEF LastTight, Ceilings
  <1>4. LastRule(q).maxCumulative # NoLimit => LastRule(q).maxCumulative \in Int
    BY <1>2 DEF Rules, Ceilings
  <1>5. /\ LastResult(q) \in EngineResults
        /\ LastResult(q).type = "number" => LastResult(q).value \in Int
    BY <1>1, ProxyAssumption DEF LastResult, Extracted, EngineResults
  <1>6. ~Unreadable(LastTight(q), LastResult(q))
    BY DEF Counted
  <1>7. LastRule(q).accumulator = "sum" => LastResult(q).type = "number"
    BY <1>3, <1>6 DEF Unreadable
  <1> QED
    BY <1>3, <1>4, <1>5, <1>7

\* Before the call, the balance that the engine reads is the total of the charges; after
\* it, the balance is the total with the new charge.
LEMMA CountedBalance ==
  ASSUME StableRules, CeilingInv, Books, AccountInv, IdsInv, LedgerInv,
         NEW q \in Requests, Call(q), NEW handler, CallsAs(q, handler), Counted(q, handler),
         NEW t, t = requests[q].payload.traj, NEW id, id = LastRule(q).ruleID
  PROVE  LET used == Total(id, Charges(t, id))
         IN  /\ t \in Trajectories /\ id \in RuleIDs
             /\ ~Exceeds(used, LastTight(q), LastResult(q))
             /\ ledger' = [ledger EXCEPT ![t][id] =
                  [window |-> WindowOf(LastRule(q).timeWindow, 0),
                   used |-> Charged(used, LastRule(q), LastResult(q))]]
             /\ Total(id, Charges(t, id)') = Charged(used, LastRule(q), LastResult(q))
             /\ IsFiniteSet(Charges(t, id)')
  <1> DEFINE last == LastRule(q)
             charges == Charges(t, id)
             used == Total(id, charges)
             entry == ledger[t][id]
             tight == LastTight(q)
             res == LastResult(q)
             c == <<q, ChargeOf(last, requests[q].payload)>>
  <1>0. id = last.ruleID
    OBVIOUS
  <1>1. last \in AllRules /\ requests[q].payload \in Payloads
    BY CallFacts
  <1>2. t \in Trajectories /\ id \in RuleIDs
    BY <1>1 DEF Trajectories, RuleIDs
  <1>3. IsFiniteSet(charges) /\ entry.used = used /\ InWindow(id, entry)
    BY <1>2 DEF LedgerInv, Explains
  <1>4. /\ last.accumulator = "sum" => res.value \in Int
        /\ tight.accumulator = last.accumulator /\ tight.timeWindow = last.timeWindow
    BY CountedReadable
  <1>5. Spent(entry, tight, 0) = used
    <2>1. entry.used = Unused \/ entry.window = WindowOf(tight.timeWindow, 0)
      BY <1>1, <1>3, <1>4 DEF InWindow
    <2> QED
      BY <1>3, <2>1 DEF Spent
  <1>6. c \notin charges /\ Charges(t, id)' = charges \cup {c} /\ c[2].result = res
    BY ChargesGrow DEF ChargeOf, LastResult
  <1>7. /\ ~Exceeds(Spent(entry, tight, 0), tight, res)
        /\ ledger' = [ledger EXCEPT ![t][id] = Entered(entry, tight, res, 0)]
    BY DEF Counted
  <1>8. last.accumulator = "sum" => \A d \in charges \cup {c} : d[2].result.value \in Int
    BY <1>1, <1>4, <1>6, ChargeReadable
  <1> HIDE DEF last, charges, used, entry, tight, res, c
  <1>9. Total(id, charges \cup {c}) = Charged(used, last, res)
    <2>1. Total(last.ruleID, charges \cup {c}) =
            Charged(Total(last.ruleID, charges), last, c[2].result)
      BY <1>1, <1>3, <1>6, <1>8, TotalCharged
    <2> QED
      BY <1>0, <1>6, <2>1 DEF used
  <1>10. Charged(used, tight, res) = Charged(used, last, res)
    BY <1>4 DEF Charged
  <1>11. Entered(entry, tight, res, 0) =
           [window |-> WindowOf(last.timeWindow, 0), used |-> Charged(used, last, res)]
    BY <1>4, <1>5, <1>10 DEF Entered
  <1>12. IsFiniteSet(charges \cup {c})
    BY <1>3, FS_AddElement
  <1>13. /\ t \in Trajectories /\ id \in RuleIDs
         /\ ~Exceeds(used, tight, res)
         /\ ledger' = [ledger EXCEPT ![t][id] =
              [window |-> WindowOf(last.timeWindow, 0), used |-> Charged(used, last, res)]]
         /\ Total(id, Charges(t, id)') = Charged(used, last, res)
         /\ IsFiniteSet(Charges(t, id)')
    BY <1>2, <1>5, <1>6, <1>7, <1>9, <1>11, <1>12
  <1> QED
    BY <1>13 DEF last, used, charges, tight, res

LEMMA CountedLedger ==
  ASSUME StableRules, CeilingInv, Books, AccountInv, IdsInv, LedgerInv,
         NEW q \in Requests, Call(q), NEW handler, CallsAs(q, handler), Counted(q, handler)
  PROVE  LedgerInv'
  <1>0. PICK t, id : t = requests[q].payload.traj /\ id = LastRule(q).ruleID
    OBVIOUS
  <1> DEFINE after == Charged(Total(id, Charges(t, id)), LastRule(q), LastResult(q))
             entry == [window |-> WindowOf(LastRule(q).timeWindow, 0), used |-> after]
  <1>1. /\ t \in Trajectories /\ id \in RuleIDs
        /\ ledger' = [ledger EXCEPT ![t][id] = entry]
        /\ Total(id, Charges(t, id)') = after
        /\ IsFiniteSet(Charges(t, id)')
    BY <1>0, CountedBalance
  <1>2. LastRule(q) \in AllRules
    BY CallFacts
  <1>3. entry.used = after /\ InWindow(id, entry)
    BY <1>0, <1>2 DEF InWindow, StableRules
  <1>4. \A s \in Trajectories, i \in RuleIDs :
          ~(s = t /\ i = id) => Charges(s, i)' = Charges(s, i)
    BY <1>0, ChargesGrow
  <1> HIDE DEF after, entry
  <1>5. ledger \in [Trajectories -> [RuleIDs -> LedgerEntries]]
    BY DEF Books
  <1>6. ASSUME NEW s \in Trajectories, NEW i \in RuleIDs
        PROVE  /\ IsFiniteSet(Charges(s, i)')
               /\ ledger'[s][i].used = Total(i, Charges(s, i)')
               /\ InWindow(i, ledger'[s][i])
    <2>1. CASE s = t /\ i = id
      <3>1. ledger'[s][i] = entry
        BY <1>1, <1>5, <2>1
      <3> QED
        BY <1>1, <1>3, <2>1, <3>1
    <2>2. CASE ~(s = t /\ i = id)
      <3>1. ledger'[s][i] = ledger[s][i] /\ Charges(s, i)' = Charges(s, i)
        BY <1>1, <1>4, <1>5, <2>2
      <3> QED
        BY <3>1 DEF LedgerInv, Explains
    <2> QED
      BY <2>1, <2>2
  <1> QED
    BY <1>6 DEF LedgerInv, Explains

-----------------------------------------------------------------------------
(***************************************************************************)
(* The cap through the steps.                                              *)
(***************************************************************************)
LEMMA ValuesFinite ==
  ASSUME NEW charges, IsFiniteSet(charges)
  PROVE  IsFiniteSet({c[2].result.value : c \in charges})
  <1> DEFINE values == {c[2].result.value : c \in charges}
             f == [c \in charges |-> c[2].result.value]
  <1>1. f \in Surjection(charges, values)
    BY DEF Surjection
  <1> QED
    BY <1>1, FS_Surjection

LEMMA TotalTyped ==
  ASSUME StableRules, NEW rule \in AllRules, NEW charges, IsFiniteSet(charges),
         rule.accumulator = "sum" => \A c \in charges : c[2].result.value \in Nat
  PROVE  /\ Total(rule.ruleID, charges).sum \in Nat
         /\ Total(rule.ruleID, charges).count \in Nat
         /\ IsFiniteSet(Total(rule.ruleID, charges).uniqueSet)
         /\ Cardinality(Total(rule.ruleID, charges).uniqueSet) \in Nat
  <1>1. rule.accumulator = "sum" => SumFunctionOnSet(Amounts(charges), charges) \in Nat
    <2> SUFFICES ASSUME rule.accumulator = "sum"
                 PROVE  SumFunctionOnSet(Amounts(charges), charges) \in Nat
      OBVIOUS
    <2> DEFINE f == Amounts(charges)
    <2>1. \A c \in charges : f[c] \in Nat
      BY DEF Amounts
    <2> HIDE DEF f
    <2>2. SumFunctionOnSet(f, charges) \in Int
      BY <2>1, SumTyped
    <2>3. SumFunctionOnSet(f, {}) <= SumFunctionOnSet(f, charges)
      BY <2>1, SumGrows
    <2>4. SumFunctionOnSet(f, {}) = 0
      BY FS_EmptySet, SumStep
    <2>5. SumFunctionOnSet(f, charges) \in Nat
      BY <2>2, <2>3, <2>4
    <2> QED
      BY <2>5 DEF f
  <1>2. Cardinality(charges) \in Nat
    BY FS_CardinalityType
  <1>3. IsFiniteSet(Total(rule.ruleID, charges).uniqueSet)
    <2>1. IsFiniteSet({c[2].result.value : c \in charges}) /\ IsFiniteSet({})
      BY ValuesFinite, FS_EmptySet
    <2> QED
      BY <2>1, TotalFields
  <1>4. Cardinality(Total(rule.ruleID, charges).uniqueSet) \in Nat
    BY <1>3, FS_CardinalityType
  <1>5. /\ rule.accumulator = "sum" => Total(rule.ruleID, charges).sum \in Nat
        /\ rule.accumulator # "sum" => Total(rule.ruleID, charges).sum = 0
    BY <1>1, TotalFields
  <1>6. /\ rule.accumulator = "count" => Total(rule.ruleID, charges).count \in Nat
        /\ rule.accumulator # "count" => Total(rule.ruleID, charges).count = 0
    BY <1>2, TotalFields
  <1>7. Total(rule.ruleID, charges).sum \in Nat /\ Total(rule.ruleID, charges).count \in Nat
    <2>1. 0 \in Nat
      OBVIOUS
    <2> QED
      BY <1>5, <1>6, <2>1
  <1> QED
    BY <1>3, <1>4, <1>7

\* Fewer charges fit where more do.
LEMMA PartFits ==
  ASSUME StableRules, NEW rule \in AllRules, NEW charges, IsFiniteSet(charges),
         rule.accumulator = "sum" => \A c \in charges : c[2].result.value \in Nat,
         NEW part \in SUBSET charges, NEW cap \in Int, Fits(Total(rule.ruleID, charges), cap)
  PROVE  Fits(Total(rule.ruleID, part), cap)
  <1> DEFINE whole == Total(rule.ruleID, charges)
             some == Total(rule.ruleID, part)
  <1>1. IsFiniteSet(part) /\ Cardinality(part) <= Cardinality(charges)
    BY FS_Subset
  <1>2. /\ whole.sum \in Nat /\ whole.count \in Nat /\ IsFiniteSet(whole.uniqueSet)
        /\ Cardinality(whole.uniqueSet) \in Nat
    BY TotalTyped
  <1>3. /\ some.sum \in Nat /\ some.count \in Nat
        /\ Cardinality(some.uniqueSet) \in Nat
    BY <1>1, TotalTyped
  <1>4. some.sum <= whole.sum
    <2>1. CASE rule.accumulator = "sum"
      <3> DEFINE f == Amounts(charges)
                 g == Amounts(part)
      <3>1. /\ \A c \in charges : f[c] \in Nat
            /\ \A c \in part : g[c] = f[c]
        BY <2>1 DEF Amounts
      <3> HIDE DEF f, g
      <3>2. SumFunctionOnSet(f, part) <= SumFunctionOnSet(f, charges)
        BY <3>1, SumGrows
      <3>3. SumFunctionOnSet(g, part) = SumFunctionOnSet(f, part)
        BY <1>1, <3>1, SumAgrees
      <3>4. whole.sum = SumFunctionOnSet(f, charges) /\ some.sum = SumFunctionOnSet(g, part)
        BY <2>1, TotalFields DEF f, g
      <3> QED
        BY <3>2, <3>3, <3>4
    <2>2. CASE rule.accumulator # "sum"
      <3>1. whole.sum = 0 /\ some.sum = 0
        BY <2>2, TotalFields
      <3> QED
        BY <3>1
    <2> QED
      BY <2>1, <2>2
  <1>5. some.count <= whole.count
    <2>1. CASE rule.accumulator = "count"
      <3>1. whole.count = Cardinality(charges) /\ some.count = Cardinality(part)
        BY <2>1, TotalFields
      <3> QED
        BY <1>1, <3>1
    <2>2. CASE rule.accumulator # "count"
      <3>1. whole.count = 0 /\ some.count = 0
        BY <2>2, TotalFields
      <3> QED
        BY <3>1
    <2> QED
      BY <2>1, <2>2
  <1>6. some.uniqueSet \subseteq whole.uniqueSet
    <2>1. CASE rule.accumulator = "unique_set"
      <3>1. /\ whole.uniqueSet = {c[2].result.value : c \in charges}
            /\ some.uniqueSet = {c[2].result.value : c \in part}
        BY <2>1, TotalFields
      <3> QED
        BY <3>1
    <2>2. CASE rule.accumulator # "unique_set"
      <3>1. some.uniqueSet = {}
        BY <2>2, TotalFields
      <3> QED
        BY <3>1
    <2> QED
      BY <2>1, <2>2
  <1>7. Cardinality(some.uniqueSet) <= Cardinality(whole.uniqueSet)
    BY <1>2, <1>6, FS_Subset
  <1> HIDE DEF whole, some
  <1>8. Fits(some, cap)
    BY <1>2, <1>3, <1>4, <1>5, <1>7 DEF Fits, whole
  <1> QED
    BY <1>8 DEF some

\* A grant under a cap leaves a balance that fits it, unless its value is not new.
LEMMA GrantFits ==
  ASSUME NEW rule, NEW tight, NEW res, NEW used, NEW cap \in Int,
         rule.accumulator \in {"sum", "count", "unique_set"},
         tight.accumulator = rule.accumulator,
         tight.maxCumulative \in Int, tight.maxCumulative <= cap,
         rule.accumulator = "sum" => res.value \in Nat,
         used.sum \in Nat, used.count \in Nat, IsFiniteSet(used.uniqueSet),
         rule.accumulator # "sum" => used.sum = 0,
         rule.accumulator # "count" => used.count = 0,
         rule.accumulator # "unique_set" => used.uniqueSet = {},
         used = [sum |-> used.sum, count |-> used.count, uniqueSet |-> used.uniqueSet],
         ~Exceeds(used, tight, res),
         rule.accumulator = "unique_set" => res.value \notin used.uniqueSet
  PROVE  Fits(Charged(used, rule, res), cap)
  <1> DEFINE after == Charged(used, rule, res)
  <1>1. Cardinality({}) = 0 /\ Cardinality(used.uniqueSet) \in Nat
    BY FS_EmptySet, FS_CardinalityType
  <1>2. CASE rule.accumulator = "sum"
    <2>1. after = [used EXCEPT !.sum = @ + res.value]
      BY <1>2 DEF Charged
    <2> HIDE DEF after
    <2>2. after.sum = used.sum + res.value /\ after.count = 0 /\ after.uniqueSet = {}
      BY <1>2, <2>1
    <2>3. used.sum + res.value <= tight.maxCumulative
      BY <1>2 DEF Exceeds
    <2> QED
      BY <1>1, <1>2, <2>2, <2>3 DEF Fits, after
  <1>3. CASE rule.accumulator = "count"
    <2>1. after = [used EXCEPT !.count = @ + 1]
      BY <1>3 DEF Charged
    <2> HIDE DEF after
    <2>2. after.sum = 0 /\ after.count = used.count + 1 /\ after.uniqueSet = {}
      BY <1>3, <2>1
    <2>3. used.count + 1 <= tight.maxCumulative
      BY <1>3 DEF Exceeds
    <2> QED
      BY <1>1, <1>3, <2>2, <2>3 DEF Fits, after
  <1>4. CASE rule.accumulator = "unique_set"
    <2>1. after = [used EXCEPT !.uniqueSet = @ \cup {res.value}]
      BY <1>4 DEF Charged
    <2> HIDE DEF after
    <2>2. after.sum = 0 /\ after.count = 0 /\ after.uniqueSet = used.uniqueSet \cup {res.value}
      BY <1>4, <2>1
    <2> DEFINE v == res.value
               old == used.uniqueSet
               n == Cardinality(old)
    <2>3. n + 1 <= tight.maxCumulative
      <3>1. n \in Nat /\ v \notin old
        BY <1>1, <1>4
      <3>2. ~(n + 1 > tight.maxCumulative)
        BY <1>4 DEF Exceeds
      <3> HIDE DEF n
      <3> QED
        BY <3>1, <3>2
    <2>4. Cardinality(after.uniqueSet) = n + 1
      <3>1. IsFiniteSet(old) /\ v \notin old
        BY <1>4
      <3> HIDE DEF v, old
      <3>2. Cardinality(old \cup {v}) = Cardinality(old) + 1
        BY <3>1, FS_AddElement
      <3> QED
        BY <2>2, <3>2 DEF v, old
    <2> QED
      BY <1>1, <2>2, <2>3, <2>4 DEF Fits, after
  <1> QED
    BY <1>2, <1>3, <1>4

\* What a sum adds up is never negative.
LEMMA ChargeNatural ==
  ASSUME StableRules, AmountsNonNegative, CeilingInv, AccountInv, NEW t, NEW id,
         NEW rule \in AllRules, rule.ruleID = id, rule.accumulator = "sum"
  PROVE  \A c \in Charges(t, id) : c[2].result.value \in Nat
  <1> SUFFICES ASSUME NEW c \in Charges(t, id) PROVE c[2].result.value \in Nat
    OBVIOUS
  <1>1. /\ c[2].result \in EngineResults /\ c[2].result.type = "number"
        /\ c[2].result.value \in Int
    BY ChargeReadable
  <1> QED
    BY <1>1 DEF AmountsNonNegative

LEMMA LastOnly ==
  ASSUME CeilingInv, Books, AccountInv, IdsInv, NEW q \in Requests, Call(q)
  PROVE  /\ LastRule(q) \in RulesOf(q)
         /\ \A rule \in RulesOf(q) : rule.ruleID = LastRule(q).ruleID => rule = LastRule(q)
  <1>1. judged[q] # <<>> /\ judged[q] \in Seq(AllRules)
    BY CallFacts, AccountKnown
  <1>2. Len(judged[q]) \in 1 .. Len(judged[q])
    BY <1>1
  <1> QED
    BY <1>2 DEF RulesOf, LastRule, IdsInv, IdsUnique

\* Every charge of a set is by a version that has a cap, if one is.
LEMMA SetCapped ==
  ASSUME SetsStayCapped, CeilingInv, AccountInv, NEW t, NEW rule \in AllRules,
         rule.accumulator = "unique_set", rule.maxCumulative # NoLimit
  PROVE  CappedCharges(t, rule.ruleID) = Charges(t, rule.ruleID)
  <1>1. ASSUME NEW c \in Charges(t, rule.ruleID)
        PROVE  RulesOf(c[1]) \cap Capped(rule.ruleID) # {}
    <2>1. PICK i \in Done(requests[c[1]], judged[c[1]]) :
            /\ judged[c[1]][i] \in RulesOf(c[1]) \cap AllRules
            /\ judged[c[1]][i].ruleID = rule.ruleID
      BY ChargeJudged
    <2>2. judged[c[1]][i] \in Capped(rule.ruleID)
      BY <2>1 DEF SetsStayCapped, Capped
    <2> QED
      BY <2>1, <2>2
  <1> QED
    BY <1>1 DEF CappedCharges

\* The charges of a trajectory under an id, once a call by a capped version is charged.
LEMMA GrownFits ==
  ASSUME Hypotheses, CeilingInv, Books, AccountInv, IdsInv, LedgerInv, CapInv,
         NEW q \in Requests, Call(q), NEW handler, CallsAs(q, handler), Counted(q, handler),
         LastRule(q).maxCumulative # NoLimit,
         NEW t, t = requests[q].payload.traj, NEW id, id = LastRule(q).ruleID,
         NEW part, part \subseteq Charges(t, id)'
  PROVE  \E rule \in Capped(id) : Fits(Total(id, part), rule.maxCumulative)
  <1> DEFINE last == LastRule(q)
             tight == LastTight(q)
             res == LastResult(q)
             charges == Charges(t, id)
             used == Total(id, charges)
             c == <<q, ChargeOf(last, requests[q].payload)>>
             more == charges \cup {c}
  <1>1. StableRules /\ KnownAccumulators /\ AmountsNonNegative /\ SetsStayCapped
    BY DEF Hypotheses
  <1>2. last \in AllRules /\ id = last.ruleID
    BY CallFacts
  <1>3. /\ res \in EngineResults
        /\ last.accumulator = "sum" => res.type = "number" /\ res.value \in Int
        /\ tight.accumulator = last.accumulator
        /\ tight.maxCumulative \in Int /\ last.maxCumulative \in Int
        /\ tight.maxCumulative <= last.maxCumulative
    BY CountedReadable
  <1>4. /\ t \in Trajectories /\ id \in RuleIDs
        /\ ~Exceeds(used, tight, res)
        /\ Total(id, Charges(t, id)') = Charged(used, last, res)
        /\ IsFiniteSet(Charges(t, id)')
    BY <1>1, CountedBalance
  <1>5. Charges(t, id)' = more /\ c[2].result = res
    BY ChargesGrow DEF ChargeOf, LastResult
  <1>6. last.accumulator \in {"sum", "count", "unique_set"}
    BY <1>1, <1>2 DEF KnownAccumulators
  <1>7. last.accumulator = "sum" => res.value \in Nat
    BY <1>1, <1>3 DEF AmountsNonNegative
  <1>8. last.accumulator = "sum" => \A d \in charges : d[2].result.value \in Nat
    BY <1>1, <1>2, ChargeNatural
  <1>9. IsFiniteSet(charges)
    BY <1>4 DEF LedgerInv
  <1>10. last \in Capped(id)
    BY <1>2 DEF Capped
  <1>11. last.accumulator = "unique_set" => CappedCharges(t, id) = charges
    BY <1>1, <1>2, SetCapped
  <1>12. CappedCharges(t, id) # {} =>
           \E rule \in Capped(id) : Fits(Total(id, CappedCharges(t, id)), rule.maxCumulative)
    BY <1>4 DEF CapInv
  <1>13. \A rule \in Capped(id) : rule.maxCumulative \in Int
    BY RulesTyped DEF Capped, Rules, Ceilings
  <1> HIDE DEF last, tight, res, charges, c
  <1>14. last.accumulator = "sum" => \A d \in more : d[2].result.value \in Nat
    BY <1>5, <1>7, <1>8
  <1> HIDE DEF more
  <1>15. /\ IsFiniteSet(more) /\ part \subseteq more
         /\ Total(last.ruleID, more) = Charged(used, last, res)
    BY <1>2, <1>4, <1>5
  <1>16. ASSUME NEW cap \in Int, Fits(Charged(used, last, res), cap)
         PROVE  Fits(Total(id, part), cap)
    BY <1>1, <1>2, <1>14, <1>15, <1>16, PartFits
  <1>17. /\ used.sum \in Nat /\ used.count \in Nat /\ IsFiniteSet(used.uniqueSet)
    BY <1>1, <1>2, <1>8, <1>9, TotalTyped
  <1>18. /\ used = [sum |-> used.sum, count |-> used.count, uniqueSet |-> used.uniqueSet]
         /\ last.accumulator # "sum" => used.sum = 0
         /\ last.accumulator # "count" => used.count = 0
         /\ last.accumulator # "unique_set" => used.uniqueSet = {}
         /\ last.accumulator = "unique_set" =>
              used.uniqueSet = {d[2].result.value : d \in charges}
    BY <1>1, <1>2, TotalFields
  <1>19. CASE last.accumulator = "unique_set" /\ res.value \in used.uniqueSet
    <2>1. charges # {}
      BY <1>18, <1>19
    <2>2. PICK rule \in Capped(id) : Fits(used, rule.maxCumulative)
      BY <1>11, <1>12, <1>19, <2>1
    <2>3. Charged(used, last, res) = used
      <3> HIDE DEF used
      <3>1. Charged(used, last, res) = [used EXCEPT !.uniqueSet = @ \cup {res.value}]
        BY <1>19 DEF Charged
      <3>2. used.uniqueSet \cup {res.value} = used.uniqueSet
        BY <1>19
      <3>3. [used EXCEPT !.uniqueSet = used.uniqueSet] = used
        BY <1>18
      <3> QED
        BY <3>1, <3>2, <3>3
    <2> QED
      BY <1>13, <1>16, <2>2, <2>3
  <1>20. CASE ~(last.accumulator = "unique_set" /\ res.value \in used.uniqueSet)
    <2> HIDE DEF used
    <2>1. Fits(Charged(used, last, res), last.maxCumulative)
      BY <1>3, <1>4, <1>6, <1>7, <1>17, <1>18, <1>20, GrantFits DEF last, tight, res, used
    <2> QED
      BY <1>3, <1>10, <1>16, <2>1
  <1> QED
    BY <1>19, <1>20

LEMMA CountedCap ==
  ASSUME Hypotheses, CeilingInv, Books, AccountInv, IdsInv, LedgerInv, CapInv,
         NEW q \in Requests, Call(q), NEW handler, CallsAs(q, handler), Counted(q, handler)
  PROVE  CapInv'
  <1>1. \A r : RulesOf(r)' = RulesOf(r)
    BY CallFacts DEF RulesOf
  <1>2. \A s, i : CappedCharges(s, i)' = {d \in Charges(s, i)' : RulesOf(d[1]) \cap Capped(i) # {}}
    BY <1>1 DEF CappedCharges
  <1>3. ASSUME NEW s \in Trajectories, NEW i \in RuleIDs, CappedCharges(s, i)' # {}
        PROVE  \E rule \in Capped(i) : Fits(Total(i, CappedCharges(s, i)'), rule.maxCumulative)
    <2> DEFINE c == <<q, ChargeOf(LastRule(q), requests[q].payload)>>
    <2>1. ASSUME CappedCharges(s, i)' = CappedCharges(s, i)
          PROVE  \E rule \in Capped(i) : Fits(Total(i, CappedCharges(s, i)'), rule.maxCumulative)
      BY <1>3, <2>1 DEF CapInv
    <2>2. CASE s = requests[q].payload.traj /\ i = LastRule(q).ruleID
      <3>1. CASE LastRule(q).maxCumulative = NoLimit
        <4>1. RulesOf(q) \cap Capped(i) = {}
          BY <2>2, <3>1, LastOnly DEF Capped
        <4>2. Charges(s, i)' = Charges(s, i) \cup {c} /\ c[1] = q
          BY <2>2, ChargesGrow
        <4> HIDE DEF c
        <4>3. CappedCharges(s, i)' = CappedCharges(s, i)
          BY <1>2, <4>1, <4>2 DEF CappedCharges
        <4> QED
          BY <2>1, <4>3
      <3>2. CASE LastRule(q).maxCumulative # NoLimit
        <4>1. PICK part : part = CappedCharges(s, i)'
          OBVIOUS
        <4>2. part \subseteq Charges(s, i)'
          BY <1>2, <4>1
        <4>3. \E rule \in Capped(i) : Fits(Total(i, part), rule.maxCumulative)
          BY <2>2, <3>2, <4>2, GrownFits
        <4> QED
          BY <4>1, <4>3
      <3> QED
        BY <3>1, <3>2
    <2>3. CASE ~(s = requests[q].payload.traj /\ i = LastRule(q).ruleID)
      <3>1. Charges(s, i)' = Charges(s, i)
        BY <2>3, ChargesGrow
      <3>2. CappedCharges(s, i)' = CappedCharges(s, i)
        BY <1>2, <3>1 DEF CappedCharges
      <3> QED
        BY <2>1, <3>2
    <2> QED
      BY <2>2, <2>3
  <1> QED
    BY <1>3 DEF CapInv

-----------------------------------------------------------------------------
(***************************************************************************)
(* Every step.                                                             *)
(***************************************************************************)
\* The books change in a call that is charged, and in no other step.
LEMMA BooksChange ==
  ASSUME CeilingInv, Books, AccountInv, [Next]_vars
  PROVE  \/ UNCHANGED <<ledger, charged>>
         \/ \E q \in Requests : Call(q) /\ \E handler : CallsAs(q, handler) /\ Counted(q, handler)
  <1>1. ASSUME NEW q \in Requests, Call(q)
        PROVE  \/ UNCHANGED <<ledger, charged>>
               \/ \E handler : CallsAs(q, handler) /\ Counted(q, handler)
    <2>1. PICK handler : CallsAs(q, handler)
      BY <1>1, CallFacts
    <2> QED
      BY <2>1 DEF CallsAs, NotCounted
  <1>2. ASSUME NEW q \in Requests, Snapshot(q) \/ Skip(q) \/ Check(q) \/ Lock(q) \/ Forward(q)
        PROVE  UNCHANGED <<ledger, charged>>
    BY <1>2 DEF Snapshot, Skip, Check, Lock, Forward
  <1>3. ASSUME NEW q \in Requests, NEW p \in Payloads, Arrive(q, p)
        PROVE  UNCHANGED <<ledger, charged>>
    BY <1>3 DEF Arrive
  <1>4. CASE ChangePolicy
    BY <1>4 DEF ChangePolicy
  <1>5. CASE UNCHANGED vars
    BY <1>5 DEF vars
  <1> QED
    BY <1>1, <1>2, <1>3, <1>4, <1>5 DEF Next, Proceed

LEMMA NextLedger ==
  ASSUME StableRules, CeilingInv, Books, AccountInv, IdsInv, LedgerInv, IdsInv', [Next]_vars
  PROVE  LedgerInv'
  <1>1. CASE UNCHANGED <<ledger, charged>>
    BY <1>1, QuietLedger
  <1>2. ASSUME NEW q \in Requests, Call(q), NEW handler, CallsAs(q, handler), Counted(q, handler)
        PROVE  LedgerInv'
    BY <1>2, CountedLedger
  <1> QED
    BY <1>1, <1>2, BooksChange

LEMMA NextCap ==
  ASSUME Hypotheses, CeilingInv, Books, AccountInv, IdsInv, LedgerInv, CapInv, IdsInv',
         [Next]_vars
  PROVE  CapInv'
  <1>1. CASE UNCHANGED <<ledger, charged>>
    BY <1>1, QuietLedger
  <1>2. ASSUME NEW q \in Requests, Call(q), NEW handler, CallsAs(q, handler), Counted(q, handler)
        PROVE  CapInv'
    BY <1>2, CountedCap
  <1> QED
    BY <1>1, <1>2, BooksChange

LEMMA InitLedger == Init => LedgerInv /\ CapInv /\ ArrivedFinite
  <1> SUFFICES ASSUME Init PROVE LedgerInv /\ CapInv /\ ArrivedFinite
    OBVIOUS
  <1>1. \A t, id : Charges(t, id) = {}
    BY DEF Init, Charges
  <1>2. \A t \in Trajectories, id \in RuleIDs : ledger[t][id].used = Unused
    BY DEF Init
  <1>3. LedgerInv
    BY <1>1, <1>2, TotalNone, FS_EmptySet DEF LedgerInv, Explains, InWindow
  <1>4. CapInv
    BY <1>1 DEF CapInv, CappedCharges
  <1>5. {q \in Requests : ~Is(q, "waiting")} = {}
    BY DEF Init, Is, Waiting
  <1>6. ArrivedFinite
    BY <1>5, FS_EmptySet DEF ArrivedFinite
  <1> QED
    BY <1>3, <1>4, <1>6

\* At most one request arrives in a step.
LEMMA NextArrived ==
  ASSUME CeilingInv, ArrivedFinite, [Next]_vars
  PROVE  ArrivedFinite'
  <1> DEFINE old == {q \in Requests : requests[q].at # "waiting"}
             new == {q \in Requests : requests'[q].at # "waiting"}
  <1>1. IsFiniteSet(old)
    BY DEF ArrivedFinite, Is
  <1>2. ASSUME NEW q \in Requests, new \subseteq old \cup {q}
        PROVE  IsFiniteSet(new)
    <2> HIDE DEF old, new
    <2>1. IsFiniteSet(old \cup {q})
      BY <1>1, FS_AddElement
    <2> QED
      BY <1>2, <2>1, FS_Subset
  <1>3. ASSUME NEW q \in Requests, \E handler : requests' = [requests EXCEPT ![q] = handler]
        PROVE  IsFiniteSet(new)
    <2>1. new \subseteq old \cup {q}
      BY <1>3 DEF CeilingInv, Typed
    <2> QED
      BY <1>2, <2>1
  <1>4. ASSUME NEW q \in Requests, Snapshot(q) \/ Proceed(q)
        PROVE  IsFiniteSet(new)
    BY <1>3, <1>4, Moves
  <1>5. ASSUME NEW q \in Requests, NEW p \in Payloads, Arrive(q, p)
        PROVE  IsFiniteSet(new)
    BY <1>3, <1>5 DEF Arrive
  <1>6. ASSUME requests' = requests
        PROVE  IsFiniteSet(new)
    BY <1>1, <1>6
  <1>7. {q \in Requests : ~Is(q, "waiting")}' = new
    BY DEF Is
  <1> HIDE DEF new
  <1>8. IsFiniteSet(new)
    BY <1>4, <1>5, <1>6 DEF Next, ChangePolicy, vars
  <1> QED
    BY <1>7, <1>8 DEF ArrivedFinite

\* What AccountInv says of the rules that charged a request.
LEMMA RulesAccount ==
  ASSUME CeilingInv, AccountInv, IdsInv, NEW q \in Requests
  PROVE  LET ids == {charge.ruleID : charge \in charged[q]}
         IN  /\ ids \subseteq {rule.ruleID : rule \in RulesOf(q)}
             /\ Is(q, "rejected") /\ judged[q] # <<>> => judged[q][Len(judged[q])].ruleID \notin ids
             /\ q \in Passed /\ ~requests[q].flagged =>
                  ids = {rule.ruleID : rule \in Chargeable(q)}
  <1> DEFINE ids == {charge.ruleID : charge \in charged[q]}
             p == requests[q].payload
  <1>1. AccountedAs(requests[q], judged[q], charged[q]) /\ judged[q] \in Seq(AllRules)
    BY DEF AccountInv, CeilingInv, Typed
  <1>2. \A charge \in charged[q] : \E i \in Done(requests[q], judged[q]) :
          /\ i \in 1 .. Len(judged[q]) /\ MayCharge(judged[q][i], p)
          /\ charge = ChargeOf(judged[q][i], p) /\ charge.ruleID = judged[q][i].ruleID
    BY <1>1 DEF AccountedAs, Done, ChargeOf
  <1>3. ids \subseteq {rule.ruleID : rule \in RulesOf(q)}
    BY <1>2 DEF RulesOf
  <1>4. ASSUME Is(q, "rejected"), judged[q] # <<>>
        PROVE  judged[q][Len(judged[q])].ruleID \notin ids
    <2>1. \A i : i \in Done(requests[q], judged[q]) <=>
                   i \in 1 .. Len(judged[q]) /\ i < Len(judged[q])
      BY <1>1, <1>4, DoneOf DEF Is
    <2>2. Len(judged[q]) \in 1 .. Len(judged[q])
      BY <1>1, <1>4
    <2>3. \A i \in Done(requests[q], judged[q]) :
            judged[q][i].ruleID # judged[q][Len(judged[q])].ruleID
      BY <2>1, <2>2 DEF IdsInv, IdsUnique
    <2> QED
      BY <1>2, <2>3
  <1>5. ASSUME q \in Passed, ~requests[q].flagged
        PROVE  ids = {rule.ruleID : rule \in Chargeable(q)}
    <2>1. requests[q].at \in {"forwarded", "unreachable"}
      BY <1>5 DEF Passed, Is
    <2>2. /\ \A i : i \in Done(requests[q], judged[q]) <=> i \in 1 .. Len(judged[q])
          /\ \A i \in Done(requests[q], judged[q]) :
               MayCharge(judged[q][i], p) => ChargeOf(judged[q][i], p) \in charged[q]
      BY <1>1, <1>5, <2>1, DoneOf DEF AccountedAs
    <2>3. requests[q] \in Handlers
      BY <2>1, Arrived DEF CeilingInv, Stages
    <2>4. p.directive \in Directives \cup {NoDirective}
      BY <2>3, ProxyAssumption DEF Handlers
    <2>5. \A i \in 1 .. Len(judged[q]) :
            LET tight == Tighten(judged[q][i], p.directive)
            IN  /\ tight.ruleID = judged[q][i].ruleID
                /\ tight \in Chargeable(q) <=> MayCharge(judged[q][i], p)
      <3> SUFFICES ASSUME NEW i \in 1 .. Len(judged[q])
                   PROVE  LET tight == Tighten(judged[q][i], p.directive)
                          IN  /\ tight.ruleID = judged[q][i].ruleID
                              /\ tight \in Chargeable(q) <=> MayCharge(judged[q][i], p)
        OBVIOUS
      <3>1. judged[q][i] \in Rules /\ judged[q][i] \in RulesOf(q)
        BY <1>1, RulesTyped DEF RulesOf
      <3> QED
        BY <2>4, <3>1, TightenAccount DEF Chargeable, MayCharge, Payload
    <2>6. \A rule \in Chargeable(q) : \E i \in 1 .. Len(judged[q]) :
            rule = Tighten(judged[q][i], p.directive)
      BY DEF Chargeable, RulesOf, Payload
    <2>7. \A i \in 1 .. Len(judged[q]) :
            ChargeOf(judged[q][i], p) \in charged[q] => judged[q][i].ruleID \in ids
      BY DEF ChargeOf
    <2>8. \A id \in ids : \E i \in 1 .. Len(judged[q]) :
            MayCharge(judged[q][i], p) /\ id = judged[q][i].ruleID
      BY <1>2
    <2> HIDE DEF ids, p
    <2>9. ids \subseteq {rule.ruleID : rule \in Chargeable(q)}
      BY <2>5, <2>8
    <2>10. {rule.ruleID : rule \in Chargeable(q)} \subseteq ids
      BY <2>2, <2>5, <2>6, <2>7
    <2> QED
      BY <2>9, <2>10
  <1> QED
    BY <1>3, <1>4, <1>5

(***************************************************************************)
(* Charges are neither lost nor doubled: the ledger of a trajectory under  *)
(* an id is the total of what its requests were charged there, and each    *)
(* request was charged by the rules that are done with it.                 *)
(***************************************************************************)
THEOREM LedgerIsExplained ==
  ASSUME StableRules
  PROVE  Spec => []ChargesAccounted
  <1> DEFINE IInv == CeilingInv /\ OrderInv /\ MutexInv /\ Books /\ UniqueInv /\ AccountInv
                       /\ LedgerInv
  <1>1. Init => IInv
    BY InitCeiling, InitOrder, InitMutex, InitBooks, InitUnique, InitAccount, InitLedger
  <1>2. IInv /\ [Next]_vars => IInv'
    <2>1. IInv /\ [Next]_vars => (CeilingInv /\ OrderInv /\ MutexInv /\ Books /\ UniqueInv
                                    /\ AccountInv)'
      BY NextCeiling, NextOrder, NextMutex, NextBooks, NextUnique, NextAccount
    <2>2. IInv /\ [Next]_vars => IdsInv /\ IdsInv'
      BY <2>1, IdsNow, IdsNext
    <2>3. IInv /\ [Next]_vars => LedgerInv'
      BY <2>2, NextLedger
    <2> QED
      BY <2>1, <2>3
  <1>3. IInv => ChargesAccounted
    BY IdsNow, RulesAccount DEF LedgerInv, ChargesAccounted
  <1> QED
    BY <1>1, <1>2, <1>3, PTL DEF Spec

-----------------------------------------------------------------------------
(***************************************************************************)
(* What an approved call consumes is one of the charges of its trajectory. *)
(***************************************************************************)
Governing(q, id) == CHOOSE rule \in RulesOf(q) \cap Capped(id) : TRUE

ConsumedAs(q, id) == <<q, ChargeOf(Governing(q, id), requests[q].payload)>>

LEMMA ConsumedCharge ==
  ASSUME CeilingInv, AccountInv, NEW t, NEW id, NEW q \in Consuming(t, id)
  PROVE  /\ q \in Requests /\ ~Is(q, "waiting")
         /\ Governing(q, id) \in Capped(id)
         /\ Consumed(q, id) \in EngineResults
         /\ Consumed(q, id).type = "number" => Consumed(q, id).value \in Int
         /\ ConsumedAs(q, id)[1] = q
         /\ ConsumedAs(q, id)[2].result = Consumed(q, id)
         /\ ~Unreadable(Governing(q, id), Consumed(q, id)) =>
              ConsumedAs(q, id) \in CappedCharges(t, id)
  <1> DEFINE p == requests[q].payload
             rule == Governing(q, id)
             tight == Tighten(rule, p.directive)
             charge == ChargeOf(rule, p)
  <1>1. /\ q \in Requests /\ requests[q].at = "forwarded" /\ ~requests[q].flagged
        /\ p.traj = t /\ RulesOf(q) \cap Capped(id) # {}
    BY DEF Consuming, Approved, Is, Payload
  <1>2. rule \in RulesOf(q) \cap Capped(id)
    BY <1>1 DEF Governing
  <1>3. requests[q] \in Handlers
    BY <1>1, Arrived DEF CeilingInv, Stages
  <1>4. p \in Payloads /\ p.directive \in Directives \cup {NoDirective}
    BY <1>3, ProxyAssumption DEF Handlers
  <1>5. rule \in AllRules /\ rule \in Rules /\ rule.ruleID = id /\ rule.maxCumulative # NoLimit
    BY <1>2, RulesTyped DEF Capped
  <1>6. Consumed(q, id) = Extracted(rule, p)
    BY DEF Consumed, Governing, Payload
  <1>7. /\ Extracted(rule, p) \in EngineResults
        /\ Extracted(rule, p).type = "number" => Extracted(rule, p).value \in Int
    BY <1>4, <1>5, ProxyAssumption DEF Extracted, EngineResults
  <1>8. /\ tight.accumulator = rule.accumulator /\ tight.valuePath = rule.valuePath
        /\ tight.maxCumulative # NoLimit
    BY <1>4, <1>5, TightenAccount
  <1>9. ~Unreadable(rule, Extracted(rule, p)) => MayCharge(rule, p)
    BY <1>8 DEF MayCharge, Unreadable, Extracted
  <1>10. AccountedAs(requests[q], judged[q], charged[q]) /\ judged[q] \in Seq(AllRules)
    BY <1>1 DEF AccountInv, CeilingInv, Typed
  <1>11. PICK i \in 1 .. Len(judged[q]) : rule = judged[q][i]
    BY <1>2 DEF RulesOf
  <1>12. i \in Done(requests[q], judged[q])
    BY <1>1, <1>10, DoneOf
  <1>13. MayCharge(rule, p) => charge \in charged[q]
    BY <1>1, <1>10, <1>11, <1>12 DEF AccountedAs
  <1>14. charge.ruleID = id /\ charge.result = Extracted(rule, p)
    BY <1>5 DEF ChargeOf
  <1> HIDE DEF rule, tight, charge, p
  <1>15. charge \in charged[q] => <<q, charge>> \in Charges(t, id)
    BY <1>1, <1>14, InCharges DEF p
  <1>16. charge \in charged[q] => <<q, charge>> \in CappedCharges(t, id)
    BY <1>1, <1>15 DEF CappedCharges
  <1>17. ConsumedAs(q, id) = <<q, charge>>
    BY DEF ConsumedAs, charge, rule, p
  <1> QED
    BY <1>1, <1>2, <1>6, <1>7, <1>9, <1>13, <1>14, <1>16, <1>17 DEF rule, Is

\* What the approved calls of a trajectory add up to, by the one accumulator of the id.
LEMMA ConsumptionOf ==
  ASSUME StableRules, NEW t, NEW id, NEW rule \in Capped(id)
  PROVE  /\ rule.accumulator = "sum" =>
              Consumption(t, id) = SumFunctionOnSet(
                [q \in Consuming(t, id) |->
                   IF Consumed(q, id).type = "number" THEN Consumed(q, id).value ELSE 0],
                Consuming(t, id))
         /\ rule.accumulator = "count" => Consumption(t, id) = Cardinality(Consuming(t, id))
         /\ rule.accumulator = "unique_set" =>
              Consumption(t, id) = Cardinality(
                {Consumed(q, id).value :
                   q \in {c \in Consuming(t, id) : Consumed(c, id).type = "string"}})
  <1> DEFINE kinds == {r.accumulator : r \in Capped(id)}
  <1>1. kinds = {rule.accumulator}
    BY DEF StableRules, Capped
  <1> HIDE DEF kinds
  <1>2. \A a : kinds = {a} <=> rule.accumulator = a
    BY <1>1
  <1> QED
    BY <1>2 DEF Consumption, kinds

LEMMA ConsumptionNone ==
  ASSUME NEW t, NEW id, Capped(id) = {}
  PROVE  Consumption(t, id) = 0
  <1>1. Consuming(t, id) = {}
    BY DEF Consuming
  <1>2. {r.accumulator : r \in Capped(id)} = {}
    OBVIOUS
  <1>3. {Consumed(q, id).value :
           q \in {c \in Consuming(t, id) : Consumed(c, id).type = "string"}} = {}
    BY <1>1
  <1>4. Consumption(t, id) = Cardinality({})
    BY <1>2, <1>3 DEF Consumption
  <1> QED
    BY <1>4, FS_EmptySet

\* What is consumed is no more than what was charged.
LEMMA ConsumedWithinCharged ==
  ASSUME Hypotheses, CeilingInv, AccountInv, LedgerInv, ArrivedFinite,
         NEW t \in Trajectories, NEW id \in RuleIDs, NEW rule \in Capped(id)
  PROVE  LET total == Total(id, CappedCharges(t, id))
         IN  /\ Consumption(t, id) \in Nat
             /\ \/ Consumption(t, id) <= total.sum
                \/ Consumption(t, id) <= total.count
                \/ Consumption(t, id) <= Cardinality(total.uniqueSet)
             /\ CappedCharges(t, id) = {} => Consumption(t, id) = 0
  <1> DEFINE S == Consuming(t, id)
             T == CappedCharges(t, id)
             total == Total(id, T)
             value(q) == Consumed(q, id)
             charge(q) == ConsumedAs(q, id)
  <1>1. StableRules /\ KnownAccumulators /\ AmountsNonNegative
    BY DEF Hypotheses
  <1>2. rule \in AllRules /\ rule.ruleID = id /\ rule.maxCumulative # NoLimit
    BY DEF Capped
  <1>3. rule.accumulator \in {"sum", "count", "unique_set"}
    BY <1>1, <1>2 DEF KnownAccumulators
  <1>4. IsFiniteSet(S)
    <2>1. S \subseteq {q \in Requests : ~Is(q, "waiting")}
      BY DEF Consuming, Approved, Is
    <2> QED
      BY <2>1, FS_Subset DEF ArrivedFinite
  <1>5. T \subseteq Charges(t, id) /\ IsFiniteSet(T)
    <2>1. T \subseteq Charges(t, id) /\ IsFiniteSet(Charges(t, id))
      BY DEF CappedCharges, LedgerInv
    <2> QED
      BY <2>1, FS_Subset
  <1>6. \A q \in S :
          /\ Governing(q, id).accumulator = rule.accumulator
          /\ value(q) \in EngineResults
          /\ value(q).type = "number" => value(q).value \in Nat
          /\ charge(q)[1] = q /\ charge(q)[2].result = value(q)
          /\ ~Unreadable(Governing(q, id), value(q)) => charge(q) \in T
    <2> SUFFICES ASSUME NEW q \in S
                 PROVE  /\ Governing(q, id).accumulator = rule.accumulator
                        /\ value(q) \in EngineResults
                        /\ value(q).type = "number" => value(q).value \in Nat
                        /\ charge(q)[1] = q /\ charge(q)[2].result = value(q)
                        /\ ~Unreadable(Governing(q, id), value(q)) => charge(q) \in T
      OBVIOUS
    <2>1. Governing(q, id).accumulator = rule.accumulator
      BY <1>1, <1>2, ConsumedCharge DEF StableRules, Capped
    <2>2. value(q).type = "number" => value(q).value \in Nat
      BY <1>1, ConsumedCharge DEF AmountsNonNegative
    <2> QED
      BY <2>1, <2>2, ConsumedCharge
  <1>7. rule.accumulator = "sum" => \A c \in T : c[2].result.value \in Nat
    BY <1>1, <1>2, <1>5, ChargeNatural
  <1>8. CASE rule.accumulator = "sum"
    <2> DEFINE f == [q \in S |-> IF value(q).type = "number" THEN value(q).value ELSE 0]
               g == Amounts(T)
               h == [q \in S |-> charge(q)]
    <2>1. Consumption(t, id) = SumFunctionOnSet(f, S)
      BY <1>1, <1>8, ConsumptionOf
    <2>2. \A q \in S : value(q).type = "number" => charge(q) \in T
      BY <1>6, <1>8 DEF Unreadable
    <2>3. total.sum = SumFunctionOnSet(g, T)
      BY <1>1, <1>2, <1>8, TotalFields
    <2> HIDE DEF S, T, total, value, charge
    <2>4. \A q \in S : f[q] \in Nat /\ f[q] \in Int
      BY <1>6
    <2>5. \A c \in T : g[c] \in Nat
      BY <1>7, <1>8 DEF Amounts
    <2>6. \A q \in S : f[q] = 0 \/ (h[q] \in T /\ g[h[q]] = f[q])
      BY <1>6, <2>2 DEF Amounts
    <2>7. \A q, r \in S : h[q] = h[r] => q = r
      <3>1. \A q \in S : h[q][1] = q
        BY <1>6
      <3> QED
        BY <3>1
    <2> HIDE DEF f, g, h
    <2>8. SumFunctionOnSet(f, S) <= SumFunctionOnSet(g, T)
      BY <1>4, <1>5, <2>4, <2>5, <2>6, <2>7, SumEmbeds
    <2>9. SumFunctionOnSet(f, S) \in Nat
      <3>1. SumFunctionOnSet(f, {}) <= SumFunctionOnSet(f, S)
        BY <1>4, <2>4, SumGrows
      <3>2. SumFunctionOnSet(f, {}) = 0 /\ SumFunctionOnSet(f, S) \in Int
        BY <1>4, <2>4, FS_EmptySet, SumStep, SumTyped
      <3> QED
        BY <3>1, <3>2
    <2>10. T = {} => SumFunctionOnSet(g, T) = 0
      BY FS_EmptySet, SumStep
    <2>11. T = {} => SumFunctionOnSet(f, S) = 0
      BY <2>8, <2>9, <2>10
    <2> QED
      BY <2>1, <2>3, <2>8, <2>9, <2>11 DEF T, total
  <1>9. CASE rule.accumulator = "count"
    <2> DEFINE h == [q \in S |-> charge(q)]
    <2>1. Consumption(t, id) = Cardinality(S)
      BY <1>1, <1>9, ConsumptionOf
    <2>2. total.count = Cardinality(T)
      BY <1>1, <1>2, <1>9, TotalFields
    <2>3. \A q \in S : charge(q) \in T /\ charge(q)[1] = q
      BY <1>6, <1>9 DEF Unreadable
    <2> HIDE DEF S, T, total, charge
    <2>4. h \in Injection(S, T)
      <3>1. \A q \in S : h[q] \in T /\ h[q][1] = q
        BY <2>3
      <3> QED
        BY <3>1 DEF Injection, IsInjective
    <2> HIDE DEF h
    <2>5. Cardinality(S) <= Cardinality(T) /\ Cardinality(S) \in Nat
      BY <1>4, <1>5, <2>4, FS_Injection, FS_CardinalityType
    <2>6. T = {} => S = {}
      BY <2>3
    <2>7. Cardinality({}) = 0
      BY FS_EmptySet
    <2> QED
      BY <2>1, <2>2, <2>5, <2>6, <2>7 DEF T, total
  <1>10. CASE rule.accumulator = "unique_set"
    <2> DEFINE U == {value(q).value : q \in {c \in S : value(c).type = "string"}}
               V == {c[2].result.value : c \in T}
    <2>1. Consumption(t, id) = Cardinality(U)
      BY <1>1, <1>10, ConsumptionOf
    <2>2. total.uniqueSet = V
      BY <1>1, <1>2, <1>10, TotalFields
    <2>3. \A q \in S : value(q).type = "string" => charge(q) \in T
      BY <1>6, <1>10 DEF Unreadable
    <2>4. U \subseteq V
      BY <1>6, <2>3
    <2>5. IsFiniteSet(V)
      BY <1>5, ValuesFinite
    <2>6. T = {} => V = {}
      OBVIOUS
    <2> HIDE DEF U, V
    <2>7. IsFiniteSet(U) /\ Cardinality(U) <= Cardinality(V)
      BY <2>4, <2>5, FS_Subset
    <2>8. Cardinality(U) \in Nat
      BY <2>7, FS_CardinalityType
    <2>9. T = {} => Cardinality(U) = 0
      <3>1. T = {} => U = {}
        BY <2>4, <2>6
      <3> QED
        BY <3>1, FS_EmptySet
    <2> QED
      BY <2>1, <2>2, <2>7, <2>8, <2>9
  <1> QED
    BY <1>3, <1>8, <1>9, <1>10

\* CapInv bounds what was charged, so what is consumed.
LEMMA ConsumptionCapped ==
  ASSUME Hypotheses, CeilingInv, AccountInv, LedgerInv, CapInv, ArrivedFinite
  PROVE  ConsumptionWithinCap
  <1> SUFFICES ASSUME NEW t \in Trajectories, NEW id \in RuleIDs, Consumption(t, id) # 0
               PROVE  \E rule \in Capped(id) : Consumption(t, id) <= rule.maxCumulative
    BY DEF ConsumptionWithinCap
  <1>1. PICK some \in Capped(id) : TRUE
    BY ConsumptionNone
  <1> DEFINE T == CappedCharges(t, id)
             total == Total(id, T)
             uses == Consumption(t, id)
  <1>2. /\ uses \in Nat /\ T # {}
        /\ uses <= total.sum \/ uses <= total.count \/ uses <= Cardinality(total.uniqueSet)
    BY <1>1, ConsumedWithinCharged
  <1>3. PICK rule \in Capped(id) : Fits(total, rule.maxCumulative)
    BY <1>2 DEF CapInv
  <1>4. some \in AllRules /\ some.ruleID = id /\ StableRules /\ AmountsNonNegative
    BY <1>1 DEF Capped, Hypotheses
  <1>5. IsFiniteSet(T)
    <2>1. T \subseteq Charges(t, id) /\ IsFiniteSet(Charges(t, id))
      BY DEF CappedCharges, LedgerInv
    <2> QED
      BY <2>1, FS_Subset
  <1>6. some.accumulator = "sum" => \A c \in T : c[2].result.value \in Nat
    BY <1>4, ChargeNatural DEF CappedCharges
  <1>7. rule.maxCumulative \in Int
    BY RulesTyped DEF Capped, Rules, Ceilings
  <1> HIDE DEF T, uses
  <1>8. total.sum \in Nat /\ total.count \in Nat /\ Cardinality(total.uniqueSet) \in Nat
    BY <1>4, <1>5, <1>6, TotalTyped
  <1> HIDE DEF total
  <1>9. uses <= rule.maxCumulative
    BY <1>2, <1>3, <1>7, <1>8 DEF Fits
  <1> QED
    BY <1>9 DEF uses

(***************************************************************************)
(* What the approved calls of a trajectory consume under a rule stays      *)
(* within a cap that the policy sets, whatever the requests, their         *)
(* directives and the changes of the policy do.                            *)
(***************************************************************************)
THEOREM ApprovalsStayWithinCap ==
  ASSUME Hypotheses
  PROVE  Spec => []ConsumptionWithinCap
  <1> DEFINE IInv == CeilingInv /\ OrderInv /\ MutexInv /\ Books /\ UniqueInv /\ AccountInv
                       /\ LedgerInv /\ CapInv /\ ArrivedFinite
  <1>1. Init => IInv
    BY InitCeiling, InitOrder, InitMutex, InitBooks, InitUnique, InitAccount, InitLedger
  <1>2. IInv /\ [Next]_vars => IInv'
    <2>1. IInv /\ [Next]_vars => (CeilingInv /\ OrderInv /\ MutexInv /\ Books /\ UniqueInv
                                    /\ AccountInv)'
      BY NextCeiling, NextOrder, NextMutex, NextBooks, NextUnique, NextAccount
    <2>2. IInv /\ [Next]_vars => IdsInv /\ IdsInv'
      BY <2>1, IdsNow, IdsNext
    <2>3. StableRules
      BY DEF Hypotheses
    <2>4. IInv /\ [Next]_vars => (LedgerInv /\ CapInv /\ ArrivedFinite)'
      BY <2>2, <2>3, NextLedger, NextCap, NextArrived
    <2> QED
      BY <2>1, <2>4
  <1>3. IInv => ConsumptionWithinCap
    BY ConsumptionCapped
  <1> QED
    BY <1>1, <1>2, <1>3, PTL DEF Spec
=============================================================================
