-------------------------- MODULE ProxyTrailProofs --------------------------
(***************************************************************************)
(* What the audit log and the counters tell of every request, for any      *)
(* number of requests, any policy, any payloads and whatever the engine    *)
(* answers; and the proxy's state keeps its types, the mutex included.     *)
(***************************************************************************)
EXTENDS ProxyProofs

-----------------------------------------------------------------------------
(***************************************************************************)
(* A request, the rules it was judged by and its events belong together.   *)
(***************************************************************************)
Ids(rules) == {rules[i].ruleID : i \in 1 .. Len(rules)}

LastId(rules) == IF rules = <<>> THEN Missing ELSE rules[Len(rules)].ruleID

\* Nothing but flags of a dry run, by rules that judged the request.
OnlyFlags(events, rules) ==
  /\ events \in Seq(Events)
  /\ events # <<>> => DryRun
  /\ \A i \in 1 .. Len(events) :
       events[i].status = "dry_run_flagged" /\ events[i].by \in Ids(rules)

\* Flags, and an outcome.
Closed(events, rules, status, flagged) ==
  \E flags \in Seq(Events), last \in Events :
    /\ events = Append(flags, last)
    /\ OnlyFlags(flags, rules)
    /\ flagged => flags # <<>>
    /\ last.status = status
    /\ status = "rejected" => last.by = LastId(rules)

Running == {"judging", "calling", "locked", "panicked"}

RecordedAs(handler, rules, events) ==
  /\ handler.at \in {"waiting", "reading"} => events = <<>> /\ rules = <<>>
  /\ handler.at = "reading" => ~handler.flagged
  /\ handler.at \in Running =>
       OnlyFlags(events, rules) /\ (handler.flagged => events # <<>>)
  /\ handler.at \in {"calling", "locked"} =>
       rules # <<>> /\ handler.rule \in Rules /\ handler.rule.ruleID = LastId(rules)
  /\ handler.at = "rejected" => Closed(events, rules, "rejected", handler.flagged)
  /\ handler.at \in {"forwarded", "unreachable"} =>
       IF handler.flagged THEN OnlyFlags(events, rules) /\ events # <<>>
       ELSE Closed(events, rules, "approved", FALSE)

\* The lines are those of the events, one for one.
Logged(lines, events) ==
  /\ Len(lines) = Len(events)
  /\ \A i \in 1 .. Len(events) : lines[i] = LineOf(events[i])

TrailInv ==
  /\ trail \in [Requests -> Seq(Events)]
  /\ log \in [Requests -> Seq(Lines)]
  /\ \A q \in Requests : RecordedAs(requests[q], judged[q], trail[q])
  /\ \A q \in Requests : Logged(log[q], trail[q])

-----------------------------------------------------------------------------
(***************************************************************************)
(* Lemmas about trails.                                                    *)
(***************************************************************************)
LEMMA Extended ==
  ASSUME NEW events \in Seq(Events), NEW event \in Events
  PROVE  /\ events \o <<event>> = Append(events, event)
         /\ Append(events, event) \in Seq(Events)
         /\ events \o <<>> = events
  OBVIOUS

LEMMA Concatenated ==
  ASSUME NEW a \in Seq(Events), NEW b \in Seq(Events)
  PROVE  /\ a \o b \in Seq(Events) /\ Len(a \o b) = Len(a) + Len(b)
         /\ Len(a) \in Nat /\ Len(b) \in Nat
         /\ \A i \in 1 .. Len(a) : (a \o b)[i] = a[i]
         /\ \A i \in 1 .. Len(a \o b) :
              i \in 1 .. Len(a) \/ (i - Len(a) \in 1 .. Len(b) /\ (a \o b)[i] = b[i - Len(a)])
  <1>1. a \o b \in Seq(Events) /\ Len(a \o b) = Len(a) + Len(b)
    OBVIOUS
  <1>2. \A i \in 1 .. Len(a) : (a \o b)[i] = a[i]
    BY <1>1
  <1>3. \A i \in 1 .. Len(a \o b) :
          i \in 1 .. Len(a) \/ (i - Len(a) \in 1 .. Len(b) /\ (a \o b)[i] = b[i - Len(a)])
    BY <1>1
  <1> QED
    BY <1>1, <1>2, <1>3

\* More events, and their lines.
LEMMA MoreLogged ==
  ASSUME NEW lines \in Seq(Lines), NEW events \in Seq(Events), NEW more,
         events \o more \in Seq(Events), Len(more) \in Nat,
         more \in Seq(Events), Logged(lines, events)
  PROVE  LET after == lines \o [i \in 1 .. Len(more) |-> LineOf(more[i])]
         IN  after \in Seq(Lines) /\ Logged(after, events \o more)
  <1> DEFINE new == [i \in 1 .. Len(more) |-> LineOf(more[i])]
             after == lines \o new
             all == events \o more
  <1>1. \A event \in Events : LineOf(event) \in Lines
    BY DEF Events, LineOf, Lines
  <1>2. new \in Seq(Lines) /\ Len(new) = Len(more)
        /\ \A i \in 1 .. Len(more) : new[i] = LineOf(more[i])
    <2>1. \A i \in 1 .. Len(more) : more[i] \in Events
      OBVIOUS
    <2>2. \A i \in 1 .. Len(more) : LineOf(more[i]) \in Lines
      BY <2>1, <1>1
    <2>3. new \in [1 .. Len(more) -> Lines]
      BY <2>2
    <2> QED
      BY <2>3
  <1> HIDE DEF new
  <1>3. /\ after \in Seq(Lines) /\ Len(after) = Len(lines) + Len(more)
        /\ \A i \in 1 .. Len(lines) : after[i] = lines[i]
        /\ \A i \in 1 .. Len(more) : after[Len(lines) + i] = new[i]
    <2>1. after \in Seq(Lines) /\ Len(after) = Len(lines) + Len(new) /\ Len(lines) \in Nat
      <3>1. new \in Seq(Lines)
        BY <1>2
      <3> QED
        BY <3>1
    <2>2. ASSUME NEW i \in 1 .. Len(lines) PROVE after[i] = lines[i]
      BY <1>2, <2>1
    <2>3. ASSUME NEW i \in 1 .. Len(more) PROVE after[Len(lines) + i] = new[i]
      <3>1. PICK k : k = Len(lines) + i
        OBVIOUS
      <3>2. k \in 1 .. Len(after) /\ k > Len(lines) /\ k - Len(lines) = i
        BY <1>2, <2>1, <3>1
      <3>3. after[k] = new[k - Len(lines)]
        BY <1>2, <2>1, <3>2
      <3> QED
        BY <3>1, <3>2, <3>3
    <2> QED
      BY <1>2, <2>1, <2>2, <2>3
  <1>4. /\ Len(all) = Len(events) + Len(more) /\ Len(events) \in Nat
        /\ \A i \in 1 .. Len(events) : all[i] = events[i]
        /\ \A i \in 1 .. Len(all) :
             i \in 1 .. Len(events) \/ (i - Len(events) \in 1 .. Len(more)
                                       /\ all[i] = more[i - Len(events)])
    BY Concatenated
  <1>5. /\ Len(lines) = Len(events)
        /\ \A i \in 1 .. Len(events) : lines[i] = LineOf(events[i])
    BY DEF Logged
  <1> HIDE DEF after, all
  <1>6. ASSUME NEW i \in 1 .. Len(all) PROVE after[i] = LineOf(all[i])
    <2>1. CASE i \in 1 .. Len(events)
      BY <2>1, <1>3, <1>4, <1>5
    <2>2. CASE i \notin 1 .. Len(events)
      <3>1. PICK j \in 1 .. Len(more) : i = Len(lines) + j /\ all[i] = more[j]
        BY <2>2, <1>4, <1>5
      <3>2. after[i] = new[j]
        BY <3>1, <1>3
      <3> QED
        BY <3>1, <3>2, <1>2
    <2> QED
      BY <2>1, <2>2
  <1>7. Logged(after, all)
    BY <1>3, <1>4, <1>5, <1>6 DEF Logged
  <1> QED
    BY <1>3, <1>7 DEF new, after, all

\* Flags of one more rule.
LEMMA FlagsOnly ==
  ASSUME NEW rules, NEW more, NEW events, OnlyFlags(events, rules),
         Ids(rules) \subseteq Ids(more),
         NEW by \in Ids(more) \cap STRING, NEW codes \in Seq(Int), codes # <<>> => DryRun
  PROVE  /\ OnlyFlags(events \o Flags(by, codes), more)
         /\ events # <<>> \/ codes # <<>> => events \o Flags(by, codes) # <<>>
  <1> DEFINE flags == Flags(by, codes)
  <1>1. /\ flags \in Seq(Events) /\ Len(flags) = Len(codes)
        /\ \A i \in 1 .. Len(flags) : flags[i].status = "dry_run_flagged" /\ flags[i].by = by
    BY DEF Flags, Events
  <1>2. events \in Seq(Events)
    BY DEF OnlyFlags
  <1> HIDE DEF flags
  <1>3. /\ events \o flags \in Seq(Events) /\ Len(events \o flags) = Len(events) + Len(flags)
        /\ Len(events) \in Nat /\ Len(flags) \in Nat
        /\ \A i \in 1 .. Len(events) : (events \o flags)[i] = events[i]
        /\ \A i \in 1 .. Len(events \o flags) :
             i \in 1 .. Len(events)
             \/ (i - Len(events) \in 1 .. Len(flags)
                 /\ (events \o flags)[i] = flags[i - Len(events)])
    BY <1>1, <1>2, Concatenated
  <1>4. OnlyFlags(events \o flags, more)
    <2>1. ASSUME NEW i \in 1 .. Len(events \o flags)
          PROVE  /\ (events \o flags)[i].status = "dry_run_flagged"
                 /\ (events \o flags)[i].by \in Ids(more)
      <3>1. CASE i \in 1 .. Len(events)
        BY <3>1, <1>3 DEF OnlyFlags
      <3>2. CASE i \notin 1 .. Len(events)
        BY <3>2, <1>1, <1>3
      <3> QED
        BY <3>1, <3>2
    <2>2. events \o flags # <<>> => DryRun
      <3>1. events = <<>> /\ codes = <<>> => Len(events \o flags) = 0
        BY <1>1, <1>3
      <3> QED
        BY <3>1, <1>3 DEF OnlyFlags
    <2> QED
      BY <2>1, <2>2, <1>3 DEF OnlyFlags
  <1>5. events # <<>> \/ codes # <<>> => Len(events \o flags) # 0
    BY <1>1, <1>2, <1>3
  <1> QED
    BY <1>4, <1>5 DEF flags

LEMMA MoreRules ==
  ASSUME NEW rules \in Seq(AllRules), NEW rule \in AllRules
  PROVE  /\ Append(rules, rule) \in Seq(AllRules) /\ Append(rules, rule) # <<>>
         /\ Ids(rules) \subseteq Ids(Append(rules, rule))
         /\ LastId(Append(rules, rule)) = rule.ruleID
         /\ rule.ruleID \in Ids(Append(rules, rule)) \cap STRING
  <1>1. rule \in Rules
    BY RulesTyped
  <1>2. rule.ruleID \in STRING
    BY <1>1 DEF Rules
  <1> DEFINE more == Append(rules, rule)
  <1>3. /\ more \in Seq(AllRules) /\ Len(more) = Len(rules) + 1 /\ Len(rules) \in Nat
        /\ more[Len(more)] = rule
        /\ \A i \in 1 .. Len(rules) : i \in 1 .. Len(more) /\ more[i] = rules[i]
    OBVIOUS
  <1>4. more # <<>>
    BY <1>3
  <1> HIDE DEF more
  <1>5. Ids(rules) \subseteq Ids(more)
    BY <1>3 DEF Ids
  <1>6. LastId(more) = rule.ruleID /\ rule.ruleID \in Ids(more)
    BY <1>3, <1>4 DEF LastId, Ids
  <1> QED
    BY <1>2, <1>3, <1>4, <1>5, <1>6 DEF more

\* The rules that judged a request have ids.
LEMMA LastTyped ==
  ASSUME NEW rules \in Seq(AllRules)
  PROVE  /\ LastId(rules) \in STRING \cup {Missing}
         /\ rules # <<>> => LastId(rules) \in Ids(rules) \cap STRING
  <1>1. CASE rules = <<>>
    BY <1>1 DEF LastId
  <1>2. CASE rules # <<>>
    <2>1. Len(rules) \in 1 .. Len(rules)
      BY <1>2
    <2>2. rules[Len(rules)] \in Rules
      BY <2>1, RulesTyped
    <2> QED
      BY <1>2, <2>1, <2>2 DEF LastId, Ids, Rules
  <1> QED
    BY <1>1, <1>2

LEMMA ObjectionsTyped ==
  ASSUME NEW rule, NEW p
  PROVE  /\ Objections(rule, p) \in Seq({400, 403})
         /\ Objected(rule, p) => Objections(rule, p)[1] \in {400, 403}
  <1> DEFINE C == {400, 403}
             own == ConditionCodes(rule.condition, p)
             more == IF p.directive = NoDirective THEN <<>>
                     ELSE ConditionCodes(p.directive.condition, p)
             nil == IF Extracted(rule, p).type = "nil" THEN <<400>> ELSE <<>>
             limit == IF PerCallExceeded(rule, Extracted(rule, p)) THEN <<403>> ELSE <<>>
  <1>1. own \in Seq(C) /\ more \in Seq(C) /\ nil \in Seq(C) /\ limit \in Seq(C)
    <2>1. <<>> \in Seq(C) /\ <<400>> \in Seq(C) /\ <<403>> \in Seq(C)
      OBVIOUS
    <2> QED
      BY <2>1 DEF ConditionCodes
  <1>2. Objections(rule, p) = ((own \o more) \o nil) \o limit
    BY DEF Objections
  <1> HIDE DEF C, own, more, nil, limit
  <1>3. Objections(rule, p) \in Seq(C)
    BY <1>1, <1>2
  <1>4. Objected(rule, p) => Objections(rule, p)[1] \in C
    <2> SUFFICES ASSUME Objected(rule, p) PROVE Objections(rule, p)[1] \in C
      OBVIOUS
    <2>1. 1 \in 1 .. Len(Objections(rule, p))
      BY <1>3 DEF Objected
    <2> QED
      BY <1>3, <2>1
  <1> QED
    BY <1>3, <1>4 DEF C

\* A rejection closes a trail.
LEMMA RejectionCloses ==
  ASSUME NEW rules, NEW events, OnlyFlags(events, rules),
         NEW flagged \in BOOLEAN, flagged => events # <<>>,
         NEW code \in {400, 401, 403},
         LastId(rules) \in STRING \cup {Missing}
  PROVE  /\ Closed(events \o Rejection(LastId(rules), code), rules, "rejected", flagged)
         /\ events \o Rejection(LastId(rules), code) \in Seq(Events)
  <1> DEFINE event == [status |-> "rejected", by |-> LastId(rules), code |-> code]
  <1>1. event \in Events /\ event.status = "rejected" /\ event.by = LastId(rules)
    BY DEF Events
  <1>2. events \in Seq(Events)
    BY DEF OnlyFlags
  <1>3. events \o Rejection(LastId(rules), code) = events \o <<event>>
    BY DEF Rejection
  <1> HIDE DEF event
  <1>4. events \o <<event>> = Append(events, event) /\ Append(events, event) \in Seq(Events)
    BY <1>1, <1>2, Extended
  <1> QED
    BY <1>1, <1>2, <1>3, <1>4 DEF Closed

-----------------------------------------------------------------------------
(***************************************************************************)
(* The steps.  One request moves at a time, and takes its trail with it.   *)
(***************************************************************************)
LEMMA OneMoves ==
  ASSUME CeilingInv, TrailInv, NEW q \in Requests, NEW handler, NEW rules, NEW events,
         requests' = [requests EXCEPT ![q] = handler],
         judged' = [judged EXCEPT ![q] = rules],
         Audit(q, events), events \in Seq(Events),
         trail[q] \o events \in Seq(Events),
         RecordedAs(handler, rules, trail[q] \o events)
  PROVE  TrailInv'
  <1> DEFINE lines == log[q] \o [i \in 1 .. Len(events) |-> LineOf(events[i])]
  <1>1. /\ trail' = [trail EXCEPT ![q] = trail[q] \o events]
        /\ trail \in [Requests -> Seq(Events)]
        /\ log' = [log EXCEPT ![q] = lines]
        /\ log \in [Requests -> Seq(Lines)] /\ Logged(log[q], trail[q])
    BY DEF Audit, TrailInv
  <1>2. lines \in Seq(Lines) /\ Logged(lines, trail[q] \o events)
    <2>1. log[q] \in Seq(Lines) /\ trail[q] \in Seq(Events) /\ Len(events) \in Nat
      BY <1>1
    <2> QED
      BY <1>1, <2>1, MoreLogged
  <1> HIDE DEF lines
  <1>3. trail' \in [Requests -> Seq(Events)] /\ log' \in [Requests -> Seq(Lines)]
    BY <1>1, <1>2
  <1>4. /\ requests'[q] = handler /\ judged'[q] = rules /\ trail'[q] = trail[q] \o events
        /\ log'[q] = lines
        /\ \A other \in Requests \ {q} :
             /\ requests'[other] = requests[other] /\ judged'[other] = judged[other]
             /\ trail'[other] = trail[other] /\ log'[other] = log[other]
    BY <1>1 DEF CeilingInv, Typed
  <1>5. ASSUME NEW other \in Requests
        PROVE  /\ RecordedAs(requests'[other], judged'[other], trail'[other])
               /\ Logged(log'[other], trail'[other])
    <2>1. CASE other = q
      BY <1>2, <1>4, <2>1
    <2>2. CASE other # q
      BY <1>4, <2>2 DEF TrailInv
    <2> QED
      BY <2>1, <2>2
  <1> QED
    BY <1>3, <1>5 DEF TrailInv

\* What is known of one request.
LEMMA Known ==
  ASSUME CeilingInv, TrailInv, NEW q \in Requests
  PROVE  /\ RecordedAs(requests[q], judged[q], trail[q])
         /\ trail[q] \in Seq(Events) /\ judged[q] \in Seq(AllRules)
         /\ judged = [judged EXCEPT ![q] = judged[q]]
         /\ trail[q] \o <<>> = trail[q]
  <1>1. /\ trail[q] \in Seq(Events)
        /\ judged \in [Requests -> Seq(AllRules)]
    BY DEF CeilingInv, Typed, TrailInv
  <1>2. trail[q] \o <<>> = trail[q]
    BY <1>1
  <1> QED
    BY <1>1, <1>2 DEF TrailInv

LEMMA RejectionTyped ==
  ASSUME NEW by, NEW code, by \in STRING \/ by = Missing, code \in {400, 401, 403}
  PROVE  Rejection(by, code) \in Seq(Events)
  BY DEF Rejection, Events

LEMMA FlagsTyped ==
  ASSUME NEW by \in STRING, NEW codes \in Seq(Int)
  PROVE  Flags(by, codes) \in Seq(Events)
  BY DEF Flags, Events

LEMMA NothingYet ==
  /\ <<>> \in Seq(Events) /\ OnlyFlags(<<>>, <<>>)
  /\ LastId(<<>>) = Missing /\ <<>> \in Seq(AllRules)
  <1>1. <<>> \in Seq(Events) /\ <<>> \in Seq(AllRules) /\ Len(<<>>) = 0
    OBVIOUS
  <1> QED
    BY <1>1 DEF OnlyFlags, LastId

\* A request refused before any rule.
LEMMA RefusalCloses ==
  ASSUME NEW code \in {400, 401, 403}, NEW flagged \in BOOLEAN, ~flagged
  PROVE  /\ Closed(<<>> \o Rejection(Missing, code), <<>>, "rejected", flagged)
         /\ <<>> \o Rejection(Missing, code) \in Seq(Events)
  <1> DEFINE none == <<>>
  <1>1. OnlyFlags(none, none) /\ LastId(none) \in STRING \cup {Missing}
    BY NothingYet
  <1> HIDE DEF none
  <1>2. /\ Closed(none \o Rejection(LastId(none), code), none, "rejected", flagged)
        /\ none \o Rejection(LastId(none), code) \in Seq(Events)
    BY <1>1, RejectionCloses
  <1> QED
    BY <1>2, NothingYet DEF none

LEMMA ArriveTrail ==
  ASSUME CeilingInv, TrailInv, NEW q \in Requests, NEW p \in Payloads, Arrive(q, p)
  PROVE  TrailInv'
  <1> DEFINE handler ==
        [at |-> IF p.authentic THEN "reading" ELSE "rejected", payload |-> p,
         snapshot |-> <<>>, next |-> 1, rule |-> Missing, flagged |-> FALSE]
             events == IF p.authentic THEN <<>> ELSE Rejection(Missing, 401)
  <1>1. /\ requests' = [requests EXCEPT ![q] = handler] /\ judged' = judged
        /\ Audit(q, events) /\ requests[q].at = "waiting"
    BY DEF Arrive, Is
  <1>2. judged[q] = <<>> /\ trail[q] = <<>>
    BY <1>1, Known DEF RecordedAs
  <1>3. events \in Seq(Events)
    <2>1. Rejection(Missing, 401) \in Seq(Events)
      BY RejectionTyped
    <2> QED
      BY <2>1, NothingYet, Zenon
  <1>4. trail[q] \o events \in Seq(Events) /\ RecordedAs(handler, judged[q], trail[q] \o events)
    <2>1. CASE p.authentic
      <3>1. events = <<>> /\ handler.at = "reading" /\ ~handler.flagged
        BY <2>1
      <3>2. trail[q] \o events = <<>>
        BY <3>1, <1>2
      <3> QED
        BY <3>1, <3>2, <1>2, NothingYet DEF RecordedAs, Running
    <2>2. CASE ~p.authentic
      <3>1. events = Rejection(Missing, 401) /\ handler.at = "rejected"
            /\ handler.flagged \in BOOLEAN /\ ~handler.flagged
        BY <2>2
      <3> HIDE DEF events, handler
      <3>2. /\ Closed(<<>> \o events, <<>>, "rejected", handler.flagged)
            /\ <<>> \o events \in Seq(Events)
        BY <3>1, RefusalCloses
      <3> QED
        BY <3>1, <3>2, <1>2 DEF RecordedAs, Running
    <2> QED
      BY <2>1, <2>2
  <1> HIDE DEF events, handler
  <1> QED
    BY <1>1, <1>3, <1>4, Known, OneMoves

LEMMA SnapshotTrail ==
  ASSUME CeilingInv, TrailInv, NEW q \in Requests, Snapshot(q)
  PROVE  TrailInv'
  <1> DEFINE refused == Payload(q).mcp = MalformedMCP
             handler == [requests[q] EXCEPT !.at = IF refused THEN "rejected" ELSE "judging",
                                            !.snapshot = policy]
             events == IF refused THEN Rejection(Missing, 400) ELSE <<>>
  <1>1. /\ requests' = [requests EXCEPT ![q] = handler] /\ judged' = judged
        /\ Audit(q, events) /\ requests[q].at = "reading"
    BY DEF Snapshot, Is
  <1>2. judged[q] = <<>> /\ trail[q] = <<>> /\ ~requests[q].flagged
    BY <1>1, Known DEF RecordedAs
  <1>3. requests[q] \in Handlers
    BY <1>1, Arrived DEF CeilingInv, Stages
  <1>4. /\ handler.at = IF refused THEN "rejected" ELSE "judging"
        /\ handler.flagged = requests[q].flagged /\ handler.flagged \in BOOLEAN
    BY <1>3 DEF Handlers
  <1> HIDE DEF handler
  <1>5. events \in Seq(Events)
    <2>1. Rejection(Missing, 400) \in Seq(Events)
      BY RejectionTyped
    <2> QED
      BY <2>1, NothingYet, Zenon
  <1>6. trail[q] \o events \in Seq(Events) /\ RecordedAs(handler, judged[q], trail[q] \o events)
    <2>1. CASE ~refused
      <3>1. events = <<>> /\ handler.at = "judging"
        BY <2>1, <1>4
      <3>2. trail[q] \o events = <<>>
        BY <3>1, <1>2
      <3> QED
        BY <3>1, <3>2, <1>2, <1>4, NothingYet DEF RecordedAs, Running
    <2>2. CASE refused
      <3>1. events = Rejection(Missing, 400) /\ handler.at = "rejected"
            /\ handler.flagged \in BOOLEAN /\ ~handler.flagged
        BY <2>2, <1>2, <1>4
      <3> HIDE DEF events
      <3>2. /\ Closed(<<>> \o events, <<>>, "rejected", handler.flagged)
            /\ <<>> \o events \in Seq(Events)
        BY <3>1, RefusalCloses
      <3> QED
        BY <3>1, <3>2, <1>2 DEF RecordedAs, Running
    <2> QED
      BY <2>1, <2>2
  <1> HIDE DEF events
  <1> QED
    BY <1>1, <1>5, <1>6, Known, OneMoves

\* One request moves, and says nothing.
LEMMA OneMovesSilently ==
  ASSUME CeilingInv, TrailInv, NEW q \in Requests, NEW handler,
         requests' = [requests EXCEPT ![q] = handler],
         judged' = judged, trail' = trail, log' = log,
         RecordedAs(handler, judged[q], trail[q])
  PROVE  TrailInv'
  <1>1. trail[q] \o <<>> = trail[q] /\ trail[q] \in Seq(Events)
    BY Known
  <1>2. trail' = [trail EXCEPT ![q] = trail[q] \o <<>>]
    BY <1>1 DEF TrailInv
  <1>3. judged' = [judged EXCEPT ![q] = judged[q]]
    BY Known
  <1> DEFINE none == <<>>
             lines == [i \in 1 .. Len(none) |-> LineOf(none[i])]
  <1>4. log' = [log EXCEPT ![q] = log[q] \o lines]
    <2>1. lines = <<>> /\ log[q] \in Seq(Lines)
      BY DEF TrailInv
    <2>2. log[q] \o lines = log[q]
      BY <2>1
    <2> QED
      BY <2>2 DEF TrailInv
  <1>5. /\ Audit(q, none) /\ none \in Seq(Events) /\ trail[q] \o none \in Seq(Events)
        /\ RecordedAs(handler, judged[q], trail[q] \o none)
    BY <1>1, <1>2, <1>4, NothingYet DEF Audit
  <1> HIDE DEF none
  <1> QED
    BY <1>3, <1>5, OneMoves

LEMMA SkipTrail ==
  ASSUME CeilingInv, TrailInv, NEW q \in Requests, Skip(q)
  PROVE  TrailInv'
  <1> DEFINE handler == [requests[q] EXCEPT !.next = @ + 1]
  <1>1. requests' = [requests EXCEPT ![q] = handler] /\ judged' = judged
        /\ trail' = trail /\ log' = log
    BY DEF Skip
  <1>2. requests[q] \in Handlers /\ requests[q].at = "judging"
    BY Arrived DEF CeilingInv, Skip, Is, Stages
  <1>3. handler.at = "judging" /\ handler.flagged = requests[q].flagged
    BY <1>2 DEF Handlers
  <1> HIDE DEF handler
  <1>4. RecordedAs(handler, judged[q], trail[q])
    BY <1>2, <1>3, Known DEF RecordedAs, Running
  <1> QED
    BY <1>1, <1>4, OneMovesSilently

LEMMA LockTrail ==
  ASSUME CeilingInv, TrailInv, NEW q \in Requests, Lock(q)
  PROVE  TrailInv'
  <1> DEFINE handler == [requests[q] EXCEPT !.at = "locked"]
  <1>1. requests' = [requests EXCEPT ![q] = handler] /\ judged' = judged
        /\ trail' = trail /\ log' = log
    BY DEF Lock, Becomes
  <1>2. requests[q] \in Handlers /\ requests[q].at = "calling"
    BY Arrived DEF CeilingInv, Lock, Is, Stages
  <1>3. /\ handler.at = "locked" /\ handler.flagged = requests[q].flagged
        /\ handler.rule = requests[q].rule
    BY <1>2 DEF Handlers
  <1> HIDE DEF handler
  <1>4. RecordedAs(handler, judged[q], trail[q])
    BY <1>2, <1>3, Known DEF RecordedAs, Running
  <1> QED
    BY <1>1, <1>4, OneMovesSilently

LEMMA ForwardTrail ==
  ASSUME CeilingInv, TrailInv, NEW q \in Requests, Forward(q)
  PROVE  TrailInv'
  <1>1. PICK at \in {"forwarded", "unreachable"} : Becomes(q, at)
    BY DEF Forward
  <1> DEFINE handler == [requests[q] EXCEPT !.at = at]
  <1>2. requests' = [requests EXCEPT ![q] = handler] /\ judged' = judged /\ Audit(q, Outcome(q))
    BY <1>1 DEF Forward, Becomes
  <1>3. requests[q] \in Handlers /\ requests[q].at = "judging"
    BY Arrived DEF CeilingInv, Forward, Is, Stages
  <1>4. handler.at = at /\ handler.flagged = requests[q].flagged
    BY <1>3 DEF Handlers
  <1> HIDE DEF handler
  <1>5. OnlyFlags(trail[q], judged[q]) /\ (requests[q].flagged => trail[q] # <<>>)
    BY <1>3, Known DEF RecordedAs, Running
  <1>6. Outcome(q) \in Seq(Events)
    <2> DEFINE event == [status |-> "approved", by |-> Missing, code |-> 200]
    <2>1. event \in Events
      BY DEF Events
    <2> HIDE DEF event
    <2>2. <<event>> \in Seq(Events)
      BY <2>1
    <2> QED
      BY <2>2, NothingYet, Zenon DEF Outcome, event
  <1>7. /\ trail[q] \o Outcome(q) \in Seq(Events)
        /\ RecordedAs(handler, judged[q], trail[q] \o Outcome(q))
    <2>1. CASE requests[q].flagged
      <3>1. trail[q] \o Outcome(q) = trail[q]
        BY <2>1, Known DEF Outcome
      <3> QED
        BY <3>1, <2>1, <1>1, <1>4, <1>5, Known DEF RecordedAs, Running
    <2>2. CASE ~requests[q].flagged
      <3> DEFINE event == [status |-> "approved", by |-> Missing, code |-> 200]
      <3>1. event \in Events /\ event.status = "approved"
        BY DEF Events
      <3>2. Outcome(q) = <<event>>
        BY <2>2 DEF Outcome
      <3> HIDE DEF event
      <3>3. /\ trail[q] \o Outcome(q) = Append(trail[q], event)
            /\ Append(trail[q], event) \in Seq(Events)
        BY <3>1, <3>2, Known, Extended
      <3>4. Closed(trail[q] \o Outcome(q), judged[q], "approved", FALSE)
        BY <3>1, <3>3, <1>5, Known DEF Closed
      <3> QED
        BY <3>3, <3>4, <2>2, <1>1, <1>4 DEF RecordedAs, Running
    <2> QED
      BY <2>1, <2>2
  <1> QED
    BY <1>2, <1>6, <1>7, Known, OneMoves

LEMMA ChangeTrail ==
  ASSUME TrailInv, ChangePolicy
  PROVE  TrailInv'
  BY DEF ChangePolicy, TrailInv

LEMMA CheckTrail ==
  ASSUME CeilingInv, TrailInv, NEW q \in Requests, Check(q)
  PROVE  TrailInv'
  <1> DEFINE p == Payload(q)
             global == RuleAt(q, requests[q].next)
             rule == Tighten(global, p.directive)
             more == Append(judged[q], global)
             by == rule.ruleID
             objections == Objections(rule, p)
             at == IF rule.maxCumulative = NoLimit THEN "judging" ELSE "calling"
             next == IF rule.maxCumulative = NoLimit THEN requests[q].next + 1
                     ELSE requests[q].next
             bad(a) == [requests[q] EXCEPT !.at = a]
             good == [requests[q] EXCEPT !.rule = rule,
                        !.flagged = Flagged(q, Objected(rule, p)), !.at = at, !.next = next]
  <1>1. requests[q] \in Handlers /\ requests[q].at = "judging"
    BY Arrived DEF CeilingInv, Check, Is, Stages
  <1>2. p \in Payloads /\ p.directive \in Directives \cup {NoDirective}
    BY <1>1, ProxyAssumption DEF Handlers, Payload
  <1>3. global \in AllRules
    <2>1. requests[q].snapshot \in Seq(AllRules) /\ requests[q].next \in Nat \ {0}
      BY <1>1 DEF Handlers
    <2>2. requests[q].next <= Len(requests[q].snapshot)
      BY DEF Check, Remaining
    <2> QED
      BY <2>1, <2>2 DEF RuleAt
  <1>4. rule \in Rules /\ by = global.ruleID
    <2>1. global \in Rules
      BY <1>3, RulesTyped
    <2> QED
      BY <2>1, <1>2, TightenTyped DEF Tighten, Rules
  <1>5. /\ more \in Seq(AllRules) /\ more # <<>> /\ Ids(judged[q]) \subseteq Ids(more)
        /\ LastId(more) = by /\ by \in Ids(more) \cap STRING
    BY <1>3, <1>4, Known, MoreRules
  <1>6. /\ OnlyFlags(trail[q], judged[q]) /\ (requests[q].flagged => trail[q] # <<>>)
        /\ requests[q].flagged \in BOOLEAN
    BY <1>1, Known DEF RecordedAs, Running, Handlers
  <1>7. /\ judged' = [judged EXCEPT ![q] = more]
        /\ \/ /\ Objected(rule, p)
              /\ requests' = [requests EXCEPT ![q] = bad("rejected")]
              /\ Audit(q, Rejection(by, objections[1]))
           \/ /\ Objected(rule, p) => DryRun
              /\ Audit(q, Flags(by, objections))
              /\ \/ requests' = [requests EXCEPT ![q] = bad("panicked")]
                 \/ requests' = [requests EXCEPT ![q] = good]
    BY DEF Check, Becomes
  <1>8. /\ objections \in Seq(Int) /\ Objected(rule, p) \in BOOLEAN
        /\ Objected(rule, p) <=> objections # <<>>
        /\ Objected(rule, p) => objections[1] \in {400, 401, 403}
    <2>1. /\ objections \in Seq({400, 403})
          /\ Objected(rule, p) => objections[1] \in {400, 403}
      BY ObjectionsTyped
    <2>2. objections \in Seq(Int)
      BY <2>1
    <2>3. Objected(rule, p) <=> objections # <<>>
      BY DEF Objected
    <2> QED
      BY <2>1, <2>2, <2>3 DEF Objected
  <1>9. \A a \in {"rejected", "panicked"} :
          bad(a).at = a /\ bad(a).flagged = requests[q].flagged
    BY <1>1 DEF Handlers
  <1>10. /\ good.at = at /\ good.rule = rule
         /\ good.flagged => requests[q].flagged \/ Objected(rule, p)
    <2>1. good.at = at /\ good.rule = rule /\ good.flagged = Flagged(q, Objected(rule, p))
      <3> DEFINE flag == Flagged(q, Objected(rule, p))
      <3> HIDE DEF rule, at, next, flag
      <3>1. LET g == [requests[q] EXCEPT !.rule = rule, !.flagged = flag, !.at = at, !.next = next]
            IN  g.at = at /\ g.rule = rule /\ g.flagged = flag
        BY <1>1 DEF Handlers
      <3> QED
        BY <3>1 DEF flag
    <2> QED
      BY <2>1 DEF Flagged
  <1>11. at = "judging" \/ at = "calling"
    OBVIOUS
  <1>12. ASSUME Objected(rule, p) => DryRun
         PROVE  /\ OnlyFlags(trail[q] \o Flags(by, objections), more)
                /\ requests[q].flagged \/ Objected(rule, p) =>
                     trail[q] \o Flags(by, objections) # <<>>
    BY <1>5, <1>6, <1>8, <1>12, FlagsOnly
  <1> HIDE DEF p, global, rule, more, by, objections, at, next, bad, good
  <1>13. CASE /\ Objected(rule, p)
              /\ requests' = [requests EXCEPT ![q] = bad("rejected")]
              /\ Audit(q, Rejection(by, objections[1]))
    <2>1. /\ Closed(trail[q] \o Rejection(by, objections[1]), more, "rejected", requests[q].flagged)
          /\ trail[q] \o Rejection(by, objections[1]) \in Seq(Events)
      <3> DEFINE code == objections[1]
                 flag == requests[q].flagged
      <3>1. LastId(more) \in STRING \cup {Missing} /\ judged[q] \in Seq(AllRules)
        BY <1>5, Known
      <3>2. code \in {400, 401, 403}
        BY <1>8, <1>13
      <3>3. flag \in BOOLEAN /\ (flag => trail[q] # <<>>) /\ OnlyFlags(trail[q], more)
        BY <1>5, <1>6 DEF OnlyFlags
      <3>4. by = LastId(more)
        BY <1>5
      <3> HIDE DEF code, flag
      <3>5. /\ Closed(trail[q] \o Rejection(LastId(more), code), more, "rejected", flag)
            /\ trail[q] \o Rejection(LastId(more), code) \in Seq(Events)
        BY <3>1, <3>2, <3>3, <3>4, RejectionCloses
      <3> QED
        BY <3>4, <3>5 DEF code, flag
    <2>2. RecordedAs(bad("rejected"), more, trail[q] \o Rejection(by, objections[1]))
      BY <2>1, <1>9 DEF RecordedAs, Running
    <2>3. Rejection(by, objections[1]) \in Seq(Events)
        <3> DEFINE code == objections[1]
      <3>1. code \in {400, 401, 403} /\ by \in STRING
        BY <1>5, <1>8, <1>13
      <3> HIDE DEF code
      <3>2. Rejection(by, code) \in Seq(Events)
        BY <3>1, RejectionTyped
      <3> QED
        BY <3>2 DEF code
    <2> QED
      BY <2>1, <2>2, <2>3, <1>7, <1>13, OneMoves
  <1>14. ASSUME Objected(rule, p) => DryRun,
                NEW handler, requests' = [requests EXCEPT ![q] = handler],
                Audit(q, Flags(by, objections)),
                RecordedAs(handler, more, trail[q] \o Flags(by, objections))
         PROVE  TrailInv'
    <2>1. /\ trail[q] \o Flags(by, objections) \in Seq(Events)
          /\ Flags(by, objections) \in Seq(Events)
      BY <1>5, <1>8, <1>12, <1>14, FlagsTyped DEF OnlyFlags
    <2> QED
      BY <2>1, <1>7, <1>14, OneMoves
  <1>15. ASSUME Objected(rule, p) => DryRun
         PROVE  RecordedAs(bad("panicked"), more, trail[q] \o Flags(by, objections))
    BY <1>9, <1>12, <1>15 DEF RecordedAs, Running
  <1>16. ASSUME Objected(rule, p) => DryRun
         PROVE  RecordedAs(good, more, trail[q] \o Flags(by, objections))
    BY <1>4, <1>5, <1>10, <1>11, <1>12, <1>16 DEF RecordedAs, Running, by
  <1> QED
    BY <1>7, <1>13, <1>14, <1>15, <1>16

LEMMA CallTrail ==
  ASSUME CeilingInv, TrailInv, NEW q \in Requests, Call(q)
  PROVE  TrailInv'
  <1> DEFINE rule == requests[q].rule
             by == rule.ruleID
             denied == reply'.verdict = "denied"
             at == CASE reply'.verdict = "panic" -> "panicked"
                     [] denied /\ ~DryRun -> "rejected"
                     [] OTHER -> "judging"
             flag == Flagged(q, DryRun /\ denied)
             next == requests[q].next + 1
             handler == [requests[q] EXCEPT !.at = at, !.flagged = flag, !.next = next]
             events == IF ~denied THEN <<>>
                       ELSE IF DryRun THEN Flags(by, <<403>>) ELSE Rejection(by, 403)
  <1>1. requests[q] \in Handlers /\ requests[q].at = "locked"
    BY Arrived DEF CeilingInv, Call, Is, Stages
  <1>2. /\ requests' = [requests EXCEPT ![q] = handler] /\ judged' = judged
        /\ Audit(q, events)
    BY DEF Call
  <1>3. handler.at = at /\ handler.flagged = flag
    <2> HIDE DEF at, flag, next
    <2> QED
      BY <1>1 DEF Handlers
  <1>4. /\ OnlyFlags(trail[q], judged[q]) /\ (requests[q].flagged => trail[q] # <<>>)
        /\ judged[q] # <<>> /\ by = LastId(judged[q])
        /\ judged[q] \in Seq(AllRules) /\ trail[q] \in Seq(Events)
        /\ requests[q].flagged \in BOOLEAN
    BY <1>1, Known DEF RecordedAs, Running, Handlers
  <1>5. by \in Ids(judged[q]) \cap STRING
    BY <1>4, LastTyped
  <1>6. flag => requests[q].flagged \/ (DryRun /\ denied)
    BY DEF Flagged
  <1>7. flag \in BOOLEAN
    BY <1>4, ProxyAssumption DEF Flagged
  <1> HIDE DEF handler, flag, by, rule
  <1>8. trail[q] \o events \in Seq(Events) /\ RecordedAs(handler, judged[q], trail[q] \o events)
    <2>1. CASE ~denied
      <3>1. events = <<>> /\ at \in {"panicked", "judging"}
        BY <2>1
      <3>2. trail[q] \o events = trail[q]
        BY <3>1, Known
      <3>3. flag => requests[q].flagged
        BY <2>1, <1>6
      <3> QED
        BY <3>1, <3>2, <3>3, <1>3, <1>4 DEF RecordedAs, Running
    <2>2. CASE denied /\ DryRun
      <3> DEFINE codes == <<403>>
      <3>1. events = Flags(by, codes) /\ at = "judging"
        BY <2>2
      <3>2. codes \in Seq(Int) /\ codes # <<>> /\ DryRun /\ Ids(judged[q]) \subseteq Ids(judged[q])
        BY <2>2
      <3> HIDE DEF events, at, codes
      <3>3. /\ OnlyFlags(trail[q] \o Flags(by, codes), judged[q])
            /\ trail[q] \o Flags(by, codes) # <<>>
        BY <3>2, <1>4, <1>5, FlagsOnly
      <3>4. OnlyFlags(trail[q] \o events, judged[q]) /\ trail[q] \o events # <<>>
        BY <3>1, <3>3
      <3> QED
        BY <3>1, <3>4, <1>3 DEF RecordedAs, Running, OnlyFlags
    <2>3. CASE denied /\ ~DryRun
      <3>1. events = Rejection(LastId(judged[q]), 403) /\ at = "rejected"
        BY <2>3, <1>4
      <3>2. flag => trail[q] # <<>>
        BY <2>3, <1>4, <1>6
      <3>3. LastId(judged[q]) \in STRING \cup {Missing}
        BY <1>4, LastTyped
      <3> HIDE DEF events, at, denied
      <3>4. /\ Closed(trail[q] \o events, judged[q], "rejected", flag)
            /\ trail[q] \o events \in Seq(Events)
        BY <3>1, <3>2, <3>3, <1>4, <1>7, RejectionCloses
      <3> QED
        BY <3>1, <3>4, <1>3 DEF RecordedAs, Running
    <2> QED
      BY <2>1, <2>2, <2>3
  <1>9. events \in Seq(Events)
    <2>1. by \in STRING
      BY <1>5
    <2>2. Flags(by, <<403>>) \in Seq(Events)
      <3> DEFINE codes == <<403>>
      <3>1. codes \in Seq(Int)
        OBVIOUS
      <3> HIDE DEF codes
      <3>2. Flags(by, codes) \in Seq(Events)
        BY <2>1, <3>1, FlagsTyped
      <3> QED
        BY <3>2 DEF codes
    <2>3. Rejection(by, 403) \in Seq(Events)
      BY <2>1, RejectionTyped
    <2> QED
      BY <2>2, <2>3, NothingYet, Zenon
  <1> HIDE DEF events
  <1> QED
    BY <1>2, <1>8, <1>9, Known, OneMoves

-----------------------------------------------------------------------------
LEMMA InitTrail == Init => TrailInv
  <1> SUFFICES ASSUME Init PROVE TrailInv
    OBVIOUS
  <1>1. trail \in [Requests -> Seq(Events)] /\ log \in [Requests -> Seq(Lines)]
    BY NothingYet DEF Init
  <1>2. ASSUME NEW q \in Requests
        PROVE  RecordedAs(requests[q], judged[q], trail[q]) /\ Logged(log[q], trail[q])
    <2>1. requests[q].at = "waiting" /\ judged[q] = <<>> /\ trail[q] = <<>> /\ log[q] = <<>>
      BY DEF Init, Waiting
    <2> QED
      BY <2>1 DEF RecordedAs, Running, Logged
  <1> QED
    BY <1>1, <1>2 DEF TrailInv

LEMMA NextTrail == CeilingInv /\ TrailInv /\ [Next]_vars => TrailInv'
  <1> SUFFICES ASSUME CeilingInv, TrailInv, [Next]_vars PROVE TrailInv'
    OBVIOUS
  <1>1. ASSUME NEW q \in Requests, NEW p \in Payloads, Arrive(q, p) PROVE TrailInv'
    BY <1>1, ArriveTrail
  <1>2. ASSUME NEW q \in Requests, Snapshot(q) PROVE TrailInv'
    BY <1>2, SnapshotTrail
  <1>3. ASSUME NEW q \in Requests, Proceed(q) PROVE TrailInv'
    BY <1>3, SkipTrail, CheckTrail, LockTrail, CallTrail, ForwardTrail DEF Proceed
  <1>4. CASE ChangePolicy
    BY <1>4, ChangeTrail
  <1>5. CASE UNCHANGED vars
    BY <1>5 DEF vars, TrailInv
  <1> QED
    BY <1>1, <1>2, <1>3, <1>4, <1>5 DEF Next

\* What a closed trail holds.
LEMMA ClosedTrail ==
  ASSUME NEW q \in Requests, NEW rules, NEW status \in {"rejected", "approved"}, NEW flagged,
         Closed(trail[q], rules, status, flagged)
  PROVE  /\ With(q, status) = {Len(trail[q])}
         /\ trail[q][Len(trail[q])].status = status
         /\ status = "rejected" => trail[q][Len(trail[q])].by = LastId(rules)
         /\ status = "rejected" => With(q, "approved") = {}
         /\ status = "approved" => With(q, "rejected") = {}
         /\ flagged => With(q, "dry_run_flagged") # {}
         /\ With(q, "dry_run_flagged") # {} => DryRun
         /\ \A i \in With(q, "dry_run_flagged") : trail[q][i].by \in Ids(rules)
         /\ trail[q] # <<>>
  <1> DEFINE events == trail[q]
  <1>1. PICK flags \in Seq(Events), last \in Events :
          /\ events = Append(flags, last)
          /\ OnlyFlags(flags, rules)
          /\ flagged => flags # <<>>
          /\ last.status = status
          /\ status = "rejected" => last.by = LastId(rules)
    BY DEF Closed
  <1> HIDE DEF events
  <1>2. /\ Len(events) = Len(flags) + 1 /\ Len(flags) \in Nat
        /\ events[Len(events)] = last
        /\ \A i \in 1 .. Len(flags) : events[i] = flags[i]
    BY <1>1
  <1>3. \A i \in 1 .. Len(events) : i = Len(events) \/ i \in 1 .. Len(flags)
    BY <1>2
  <1>4. \A i \in 1 .. Len(flags) :
          /\ i \in 1 .. Len(events) /\ i # Len(events)
          /\ events[i].status = "dry_run_flagged" /\ events[i].by \in Ids(rules)
    BY <1>1, <1>2 DEF OnlyFlags
  <1>5. events[Len(events)].status = status /\ Len(events) \in 1 .. Len(events)
    BY <1>1, <1>2
  <1>6. {i \in 1 .. Len(events) : events[i].status = status} = {Len(events)}
    BY <1>3, <1>4, <1>5
  <1>7. \A other : other \notin {status, "dry_run_flagged"} =>
          {i \in 1 .. Len(events) : events[i].status = other} = {}
    BY <1>3, <1>4, <1>5
  <1>8. flagged => {i \in 1 .. Len(events) : events[i].status = "dry_run_flagged"} # {}
    <2>1. flagged => 1 \in 1 .. Len(flags)
      BY <1>1
    <2> QED
      BY <2>1, <1>4
  <1>9. \A i \in 1 .. Len(events) :
          events[i].status = "dry_run_flagged" => events[i].by \in Ids(rules)
    BY <1>3, <1>4, <1>5
  <1>10. {i \in 1 .. Len(events) : events[i].status = "dry_run_flagged"} # {} => DryRun
    <2>1. flags = <<>> => Len(flags) = 0
      OBVIOUS
    <2>2. ASSUME flags = <<>>
          PROVE  {i \in 1 .. Len(events) : events[i].status = "dry_run_flagged"} = {}
      BY <2>1, <2>2, <1>3, <1>5
    <2> QED
      BY <2>2, <1>1 DEF OnlyFlags
  <1>11. events # <<>>
    BY <1>5
  <1> QED
    BY <1>1, <1>2, <1>5, <1>6, <1>7, <1>8, <1>9, <1>10, <1>11 DEF With, events

\* What a trail of flags holds.
LEMMA FlagsTrail ==
  ASSUME NEW events, NEW rules, OnlyFlags(events, rules)
  PROVE  /\ {i \in 1 .. Len(events) : events[i].status = "rejected"} = {}
         /\ {i \in 1 .. Len(events) : events[i].status = "approved"} = {}
         /\ events # <<>> =>
              {i \in 1 .. Len(events) : events[i].status = "dry_run_flagged"} # {}
         /\ \A i \in 1 .. Len(events) : events[i].by \in Ids(rules)
         /\ {i \in 1 .. Len(events) : events[i].status = "dry_run_flagged"} # {} => DryRun
  <1>1. \A i \in 1 .. Len(events) :
          events[i].status = "dry_run_flagged" /\ events[i].by \in Ids(rules)
    BY DEF OnlyFlags
  <1>2. events # <<>> => 1 \in 1 .. Len(events)
    BY DEF OnlyFlags
  <1>3. events = <<>> => 1 .. Len(events) = {}
    OBVIOUS
  <1> QED
    BY <1>1, <1>2, <1>3 DEF OnlyFlags

\* The lines tell of the events what LineOf keeps.
LEMMA LinesTell ==
  ASSUME CeilingInv, TrailInv, NEW q \in Requests
  PROVE  /\ Written(q, "blocked") = With(q, "rejected")
         /\ Written(q, "approved") = With(q, "approved") \cup With(q, "dry_run_flagged")
         /\ trail[q] # <<>> /\ trail[q][Len(trail[q])].status = "rejected" =>
              /\ log[q][Len(log[q])].line = "blocked"
              /\ log[q][Len(log[q])].by = trail[q][Len(trail[q])].by
  <1>1. /\ trail[q] \in Seq(Events) /\ log[q] \in Seq(Lines)
        /\ Len(log[q]) = Len(trail[q])
        /\ \A i \in 1 .. Len(trail[q]) : log[q][i] = LineOf(trail[q][i])
    BY DEF TrailInv, Logged
  <1>2. ASSUME NEW i \in 1 .. Len(trail[q])
        PROVE  /\ trail[q][i].status \in {"approved", "rejected", "dry_run_flagged"}
               /\ log[q][i].line = "blocked" <=> trail[q][i].status = "rejected"
               /\ log[q][i].line = "approved" <=> trail[q][i].status # "rejected"
               /\ trail[q][i].status = "rejected" => log[q][i].by = trail[q][i].by
    <2>1. trail[q][i] \in Events /\ log[q][i] = LineOf(trail[q][i])
      BY <1>1
    <2> QED
      BY <2>1 DEF LineOf, Events
  <1>3. trail[q] # <<>> => Len(trail[q]) \in 1 .. Len(trail[q])
    BY <1>1
  <1>4. /\ Written(q, "blocked") = With(q, "rejected")
        /\ Written(q, "approved") = With(q, "approved") \cup With(q, "dry_run_flagged")
    BY <1>1, <1>2 DEF Written, With
  <1> QED
    BY <1>1, <1>2, <1>3, <1>4

(***************************************************************************)
(* However requests and changes of the policy interleave, and whatever the *)
(* engine answers, the audit log blocks a request once, by the rule that   *)
(* decided it, exactly when it was rejected; what it calls approved was    *)
(* approved or, in a dry run only, flagged, which the counters tell apart. *)
(***************************************************************************)
THEOREM TrailIsTrue == Spec => []TrailTells
  <1>1. CeilingInv /\ TrailInv => TrailTells
    <2> SUFFICES ASSUME CeilingInv, TrailInv, NEW q \in Requests
                 PROVE  LET last == log[q][Len(log[q])]
                        IN  /\ Is(q, "rejected") =>
                                 /\ Cardinality(Written(q, "blocked")) = 1 /\ last.line = "blocked"
                                 /\ last.by = IF judged[q] = <<>> THEN Missing
                                              ELSE judged[q][Len(judged[q])].ruleID
                            /\ ~Is(q, "rejected") => Written(q, "blocked") = {}
                            /\ Written(q, "approved") =
                                 With(q, "approved") \cup With(q, "dry_run_flagged")
                            /\ Cardinality(With(q, "approved")) =
                                 IF q \in Passed /\ ~requests[q].flagged THEN 1 ELSE 0
                            /\ With(q, "dry_run_flagged") # {} => DryRun
                            /\ ~Is(q, "waiting") /\ requests[q].flagged =>
                                 With(q, "dry_run_flagged") # {}
                            /\ \A i \in With(q, "dry_run_flagged") :
                                 \E rule \in RulesOf(q) : trail[q][i].by = rule.ruleID
      BY Zenon DEF TrailTells
    <2> DEFINE last == log[q][Len(log[q])]
    <2>12. /\ Written(q, "blocked") = With(q, "rejected")
           /\ Written(q, "approved") = With(q, "approved") \cup With(q, "dry_run_flagged")
           /\ trail[q] # <<>> /\ trail[q][Len(trail[q])].status = "rejected" =>
                last.line = "blocked" /\ last.by = trail[q][Len(trail[q])].by
      BY LinesTell
    <2> HIDE DEF last
    <2>1. RecordedAs(requests[q], judged[q], trail[q])
      BY Known
    <2>2. \A x : Cardinality({x}) = 1
      BY FS_Singleton
    <2>3. Cardinality({}) = 0
      BY FS_EmptySet
    <2>4. \A id \in Ids(judged[q]) : \E rule \in RulesOf(q) : id = rule.ruleID
      BY DEF Ids, RulesOf
    <2>5. q \in Passed <=> requests[q].at \in {"forwarded", "unreachable"}
      BY DEF Passed, Is
    <2>6. requests[q].at \in Stages \cup {"waiting"}
      BY DEF CeilingInv, Typed, Waiting, Handlers
    <2>7. CASE requests[q].at \in {"waiting", "reading"}
      <3>1. trail[q] = <<>> /\ (requests[q].at = "reading" => ~requests[q].flagged)
        BY <2>1, <2>7 DEF RecordedAs
      <3>2. \A status : With(q, status) = {}
        BY <3>1 DEF With
      <3> QED
        BY <3>1, <3>2, <2>3, <2>5, <2>7, <2>12 DEF Is, last
    <2>8. CASE OnlyFlags(trail[q], judged[q]) /\ (requests[q].flagged => trail[q] # <<>>)
               /\ requests[q].at \in Running
      <3>1. /\ With(q, "rejected") = {} /\ With(q, "approved") = {}
            /\ requests[q].flagged => With(q, "dry_run_flagged") # {}
            /\ With(q, "dry_run_flagged") # {} => DryRun
            /\ \A i \in With(q, "dry_run_flagged") : trail[q][i].by \in Ids(judged[q])
        BY <2>8, FlagsTrail DEF With
      <3> QED
        BY <3>1, <2>3, <2>4, <2>5, <2>8, <2>12 DEF Is, Running, last
    <2>9. CASE requests[q].at = "rejected"
      <3>1. Closed(trail[q], judged[q], "rejected", requests[q].flagged)
        BY <2>1, <2>9 DEF RecordedAs
      <3>2. /\ With(q, "rejected") = {Len(trail[q])} /\ With(q, "approved") = {}
            /\ trail[q][Len(trail[q])].status = "rejected" /\ trail[q] # <<>>
            /\ trail[q][Len(trail[q])].by = LastId(judged[q])
            /\ requests[q].flagged => With(q, "dry_run_flagged") # {}
            /\ With(q, "dry_run_flagged") # {} => DryRun
            /\ \A i \in With(q, "dry_run_flagged") : trail[q][i].by \in Ids(judged[q])
        BY <3>1, ClosedTrail
      <3> QED
        BY <3>2, <2>2, <2>3, <2>4, <2>5, <2>9, <2>12 DEF Is, LastId, last
    <2>10. CASE requests[q].at \in {"forwarded", "unreachable"}
      <3>1. CASE requests[q].flagged
        <4>1. OnlyFlags(trail[q], judged[q]) /\ trail[q] # <<>>
          BY <2>1, <2>10, <3>1 DEF RecordedAs
        <4>2. /\ With(q, "rejected") = {} /\ With(q, "approved") = {}
              /\ With(q, "dry_run_flagged") # {}
              /\ With(q, "dry_run_flagged") # {} => DryRun
            /\ \A i \in With(q, "dry_run_flagged") : trail[q][i].by \in Ids(judged[q])
          BY <4>1, FlagsTrail DEF With
        <4> QED
          BY <4>2, <2>3, <2>4, <2>5, <2>10, <3>1, <2>12 DEF Is, last
      <3>2. CASE ~requests[q].flagged
        <4>1. Closed(trail[q], judged[q], "approved", FALSE)
          BY <2>1, <2>10, <3>2 DEF RecordedAs
        <4>2. /\ With(q, "approved") = {Len(trail[q])} /\ With(q, "rejected") = {}
              /\ With(q, "dry_run_flagged") # {} => DryRun
            /\ \A i \in With(q, "dry_run_flagged") : trail[q][i].by \in Ids(judged[q])
          BY <4>1, ClosedTrail
        <4> QED
          BY <4>2, <2>2, <2>4, <2>5, <2>10, <3>2, <2>12 DEF Is, last
      <3> QED
        BY <3>1, <3>2
    <2>11. requests[q].at \in Running =>
             OnlyFlags(trail[q], judged[q]) /\ (requests[q].flagged => trail[q] # <<>>)
      BY <2>1 DEF RecordedAs
    <2> QED
      BY <2>6, <2>7, <2>8, <2>9, <2>10, <2>11 DEF Stages, Running
  <1>2. Init => CeilingInv /\ TrailInv
    BY InitCeiling, InitTrail
  <1>3. CeilingInv /\ TrailInv /\ [Next]_vars => (CeilingInv /\ TrailInv)'
    BY NextCeiling, NextTrail
  <1> QED
    BY <1>1, <1>2, <1>3, PTL DEF Spec

-----------------------------------------------------------------------------
(***************************************************************************)
(* Types, and the mutex.  The rule a request brings to the engine is one   *)
(* of the policy's, tightened by its directive.                            *)
(***************************************************************************)
Tight(handler) == \E r \in AllRules : handler.rule = Tighten(r, handler.payload.directive)

MutexInv ==
  /\ mu \in Requests \cup {Nobody}
  /\ \A q \in Requests :
       /\ Is(q, "locked") <=> mu = q
       /\ requests[q].at \in {"calling", "locked"} => Tight(requests[q])

\* One request moves; it may take the mutex when that is free, and give back its own.
LEMMA OneLocks ==
  ASSUME CeilingInv, MutexInv, NEW q \in Requests, NEW handler,
         requests' = [requests EXCEPT ![q] = handler],
         \/ mu' = mu /\ requests[q].at # "locked" /\ handler.at # "locked"
         \/ mu = Nobody /\ mu' = q /\ handler.at = "locked"
         \/ mu = q /\ mu' = Nobody /\ handler.at # "locked",
         handler.at \in {"calling", "locked"} => Tight(handler)
  PROVE  MutexInv'
  <1>1. /\ requests'[q] = handler
        /\ \A other \in Requests \ {q} : requests'[other] = requests[other]
    BY DEF CeilingInv, Typed
  <1>2. mu' \in Requests \cup {Nobody} /\ Nobody \notin Requests
    BY ProxyAssumption DEF MutexInv
  <1>3. ASSUME NEW other \in Requests
        PROVE  /\ Is(other, "locked")' <=> mu' = other
               /\ requests'[other].at \in {"calling", "locked"} => Tight(requests'[other])
    <2>1. CASE other = q
      BY <1>1, <1>2, <2>1 DEF MutexInv, Is
    <2>2. CASE other # q
      <3>1. mu' = other <=> mu = other
        BY <1>2, <2>2
      <3> QED
        BY <1>1, <2>2, <3>1 DEF MutexInv, Is
    <2> QED
      BY <2>1, <2>2
  <1> QED
    BY <1>2, <1>3 DEF MutexInv, Tight

LEMMA ArriveMutex ==
  ASSUME CeilingInv, MutexInv, NEW q \in Requests, NEW p \in Payloads, Arrive(q, p)
  PROVE  MutexInv'
  <1> DEFINE handler ==
        [at |-> IF p.authentic THEN "reading" ELSE "rejected", payload |-> p,
         snapshot |-> <<>>, next |-> 1, rule |-> Missing, flagged |-> FALSE]
  <1>1. /\ requests' = [requests EXCEPT ![q] = handler] /\ requests[q].at = "waiting" /\ mu' = mu
    BY DEF Arrive, Is
  <1>2. handler.at \in {"reading", "rejected"}
    OBVIOUS
  <1> HIDE DEF handler
  <1> QED
    BY <1>1, <1>2, OneLocks

LEMMA LocalMutex ==
  ASSUME CeilingInv, MutexInv, NEW q \in Requests, Snapshot(q) \/ Skip(q) \/ Forward(q)
  PROVE  MutexInv'
  <1>1. requests[q].at \in {"reading", "judging"} /\ mu' = mu
    BY DEF Snapshot, Skip, Forward, Is
  <1>2. requests[q] \in Handlers
    BY <1>1, Arrived DEF CeilingInv, Stages
  <1>3. ASSUME NEW handler, requests' = [requests EXCEPT ![q] = handler],
               handler.at \notin {"calling", "locked"}
        PROVE  MutexInv'
    BY <1>1, <1>3, OneLocks
  <1>4. CASE Snapshot(q)
    <2> DEFINE handler ==
          [requests[q] EXCEPT
             !.at = IF Payload(q).mcp = MalformedMCP THEN "rejected" ELSE "judging",
             !.snapshot = policy]
    <2>1. requests' = [requests EXCEPT ![q] = handler]
      BY <1>4 DEF Snapshot
    <2>2. handler.at \in {"rejected", "judging"}
      BY <1>2 DEF Handlers
    <2> HIDE DEF handler
    <2> QED
      BY <1>3, <2>1, <2>2
  <1>5. CASE Skip(q)
    <2> DEFINE handler == [requests[q] EXCEPT !.next = @ + 1]
    <2>1. requests' = [requests EXCEPT ![q] = handler] /\ requests[q].at = "judging"
      BY <1>5 DEF Skip, Is
    <2>2. handler.at = requests[q].at
      BY <1>2 DEF Handlers
    <2> HIDE DEF handler
    <2> QED
      BY <1>3, <2>1, <2>2
  <1>6. CASE Forward(q)
    <2>1. PICK at \in {"forwarded", "unreachable"} : Becomes(q, at)
      BY <1>6 DEF Forward
    <2> DEFINE handler == [requests[q] EXCEPT !.at = at]
    <2>2. requests' = [requests EXCEPT ![q] = handler]
      BY <2>1 DEF Becomes
    <2>3. handler.at = at
      BY <1>2 DEF Handlers
    <2> HIDE DEF handler
    <2> QED
      BY <1>3, <2>1, <2>2, <2>3
  <1> QED
    BY <1>4, <1>5, <1>6

LEMMA LockMutex ==
  ASSUME CeilingInv, MutexInv, NEW q \in Requests, Lock(q)
  PROVE  MutexInv'
  <1> DEFINE handler == [requests[q] EXCEPT !.at = "locked"]
  <1>1. /\ requests' = [requests EXCEPT ![q] = handler] /\ requests[q].at = "calling"
        /\ mu = Nobody /\ mu' = q
    BY DEF Lock, Becomes, Is
  <1>2. requests[q] \in Handlers
    BY <1>1, Arrived DEF CeilingInv, Stages
  <1>3. /\ handler.at = "locked" /\ handler.rule = requests[q].rule
        /\ handler.payload = requests[q].payload
    BY <1>2 DEF Handlers
  <1> HIDE DEF handler
  <1>4. Tight(handler)
    BY <1>1, <1>3 DEF MutexInv, Tight
  <1> QED
    BY <1>1, <1>3, <1>4, OneLocks

LEMMA CallMutex ==
  ASSUME CeilingInv, MutexInv, NEW q \in Requests, Call(q)
  PROVE  MutexInv'
  <1> DEFINE at == CASE reply'.verdict = "panic" -> "panicked"
                     [] reply'.verdict = "denied" /\ ~DryRun -> "rejected"
                     [] OTHER -> "judging"
             flag == Flagged(q, DryRun /\ reply'.verdict = "denied")
             next == requests[q].next + 1
             handler == [requests[q] EXCEPT !.at = at, !.flagged = flag, !.next = next]
  <1>1. /\ requests' = [requests EXCEPT ![q] = handler] /\ requests[q].at = "locked"
        /\ mu' = Nobody
    BY DEF Call, Is, Released
  <1>2. requests[q] \in Handlers
    BY <1>1, Arrived DEF CeilingInv, Stages
  <1>3. at \in {"panicked", "rejected", "judging"}
    OBVIOUS
  <1> HIDE DEF at, flag, next
  <1>4. handler.at = at
    BY <1>2 DEF Handlers
  <1> HIDE DEF handler
  <1>5. mu = q
    BY <1>1 DEF MutexInv, Is
  <1> QED
    BY <1>1, <1>3, <1>4, <1>5, OneLocks

LEMMA CheckMutex ==
  ASSUME CeilingInv, MutexInv, NEW q \in Requests, Check(q)
  PROVE  MutexInv'
  <1> DEFINE p == Payload(q)
             global == RuleAt(q, requests[q].next)
             rule == Tighten(global, p.directive)
             at == IF rule.maxCumulative = NoLimit THEN "judging" ELSE "calling"
             after == IF rule.maxCumulative = NoLimit THEN requests[q].next + 1
                      ELSE requests[q].next
             flag == Flagged(q, Objected(rule, p))
             bad(a) == [requests[q] EXCEPT !.at = a]
             good == [requests[q] EXCEPT !.rule = rule, !.flagged = flag, !.at = at, !.next = after]
  <1>1. /\ requests[q].at = "judging" /\ mu' = mu
        /\ requests[q].next <= Len(requests[q].snapshot)
        /\ \/ \E a \in {"rejected", "panicked"} : requests' = [requests EXCEPT ![q] = bad(a)]
           \/ requests' = [requests EXCEPT ![q] = good]
    BY DEF Check, Is, Becomes, Remaining
  <1>2. requests[q] \in Handlers
    BY <1>1, Arrived DEF CeilingInv, Stages
  <1>3. global \in AllRules
    <2>1. requests[q].snapshot \in Seq(AllRules) /\ requests[q].next \in Nat \ {0}
      BY <1>2 DEF Handlers
    <2> QED
      BY <1>1, <2>1 DEF RuleAt
  <1>4. \A a \in {"rejected", "panicked"} : bad(a).at = a
    BY <1>2 DEF Handlers
  <1>5. at \in {"judging", "calling"} /\ p = requests[q].payload
    BY DEF Payload
  <1>6. good.at = at /\ good.rule = rule /\ good.payload = p
    <2> HIDE DEF at, after, flag, rule, p
    <2> QED
      BY <1>2, <1>5 DEF Handlers
  <1>7. Tight(good)
    <2> HIDE DEF good, at, after, flag, p, global
    <2> QED
      BY <1>3, <1>6 DEF Tight
  <1> HIDE DEF p, global, rule, at, after, flag, bad, good
  <1> QED
    BY <1>1, <1>4, <1>5, <1>6, <1>7, OneLocks

LEMMA InitMutex == Init => MutexInv
  BY ProxyAssumption DEF Init, MutexInv, Is, Waiting

LEMMA NextMutex == CeilingInv /\ MutexInv /\ [Next]_vars => MutexInv'
  <1> SUFFICES ASSUME CeilingInv, MutexInv, [Next]_vars PROVE MutexInv'
    OBVIOUS
  <1>1. CASE UNCHANGED vars
    BY <1>1 DEF MutexInv, Is, Tight, vars
  <1>2. CASE ChangePolicy
    BY <1>2 DEF MutexInv, Is, Tight, ChangePolicy
  <1>3. ASSUME NEW q \in Requests, NEW p \in Payloads, Arrive(q, p)
        PROVE  MutexInv'
    BY <1>3, ArriveMutex
  <1>4. ASSUME NEW q \in Requests, Snapshot(q) \/ Proceed(q)
        PROVE  MutexInv'
    BY <1>4, LocalMutex, CheckMutex, LockMutex, CallMutex DEF Proceed
  <1> QED
    BY <1>1, <1>2, <1>3, <1>4 DEF Next

-----------------------------------------------------------------------------
(***************************************************************************)
(* Types: the ledger and the charges, which only Call writes.              *)
(***************************************************************************)
Books ==
  /\ changes \in 0 .. MaxChanges
  /\ ledger \in [Trajectories -> [RuleIDs -> LedgerEntries]]
  /\ charged \in [Requests -> SUBSET [ruleID : RuleIDs, result : EngineResults]]

LEMMA EngineOperators ==
  ASSUME NEW rule, NEW res, NEW entry
  PROVE  /\ Engine!Unreadable(rule, res) <=> Unreadable(rule, res)
         /\ Engine!Entered(entry, rule, res, 0) = Entered(entry, rule, res, 0)
  <1>1. Engine!WindowOf(rule.timeWindow, 0) = WindowOf(rule.timeWindow, 0)
    BY DEF Engine!WindowOf, WindowOf, Engine!In, In, Engine!Period, Period,
           Engine!Schedules, Schedules
  <1>2. \A used : Engine!Charged(used, rule, res) = Charged(used, rule, res)
    BY DEF Engine!Charged, Charged
  <1>3. Engine!Spent(entry, rule, 0) = Spent(entry, rule, 0)
    BY <1>1 DEF Engine!Spent, Spent, Engine!Unused, Unused
  <1>4. Engine!Entered(entry, rule, res, 0) = Entered(entry, rule, res, 0)
    BY <1>1, <1>2, <1>3 DEF Engine!Entered, Entered
  <1>5. Engine!Unreadable(rule, res) <=> Unreadable(rule, res)
    BY DEF Engine!Unreadable, Unreadable
  <1> QED
    BY <1>4, <1>5

LEMMA EntryTyped ==
  ASSUME NEW entry \in LedgerEntries, NEW rule, rule.timeWindow \in TimeWindows, NEW res,
         rule.accumulator = "sum" => res.value \in Int,
         rule.accumulator = "unique_set" => res.value \in Targets
  PROVE  Entered(entry, rule, res, 0) \in LedgerEntries
  <1>1. WindowOf(rule.timeWindow, 0) \in Int
    <2> DEFINE tw == rule.timeWindow
    <2>1. In(tw, 0) \in Int
      BY CalendarAssumption DEF In
    <2>2. ASSUME tw.resetSchedule \in Schedules
          PROVE  Period(tw.resetSchedule) \in Nat \ {0}
      BY <2>2, CalendarAssumption DEF Schedules, Period
    <2> HIDE DEF tw
    <2>3. WindowOf(tw, 0) \in Int
      BY <2>1, <2>2 DEF WindowOf
    <2> QED
      BY <2>3 DEF tw
  <1>2. Spent(entry, rule, 0) \in Usage
    BY DEF Spent, LedgerEntries, Unused, Usage
  <1>3. Charged(Spent(entry, rule, 0), rule, res) \in Usage
    <2> DEFINE used == Spent(entry, rule, 0)
    <2> HIDE DEF used
    <2>1. used \in Usage
      BY <1>2 DEF used
    <2>2. Charged(used, rule, res) \in Usage
      BY <2>1 DEF Charged, Usage
    <2> QED
      BY <2>2 DEF used
  <1> QED
    BY <1>1, <1>3 DEF Entered, LedgerEntries

LEMMA CallBooks ==
  ASSUME CeilingInv, MutexInv, Books, NEW q \in Requests, Call(q)
  PROVE  Books'
  <1> DEFINE p == requests[q].payload
             rule == requests[q].rule
             own == EngineRule(rule)
             res == Extracted(rule, p)
             charge == [ruleID |-> rule.ruleID, result |-> res]
  <1>1. requests[q] \in Handlers /\ requests[q].at = "locked"
    BY Arrived DEF CeilingInv, Call, Is, Stages
  <1>2. p \in Payloads /\ p.traj \in Trajectories
    BY <1>1 DEF Handlers, Trajectories
  <1>3. PICK r \in AllRules : rule = Tighten(r, p.directive)
    BY <1>1 DEF MutexInv, Tight
  <1>4. r \in Rules /\ p.directive \in Directives \cup {NoDirective}
    BY <1>2, RulesTyped, ProxyAssumption
  <1>5. rule.valuePath = r.valuePath /\ rule.ruleID = r.ruleID /\ rule \in Rules
    <2> HIDE DEF p, rule
    <2>1. rule.ruleID = r.ruleID
      BY <1>3, <1>4 DEF Tighten, Rules
    <2> QED
      BY <1>3, <1>4, <2>1, TightenKeeps, TightenTyped
  <1>6. rule.ruleID \in RuleIDs /\ res \in EngineResults
    BY <1>2, <1>5 DEF RuleIDs, EngineResults, Extracted
  <1>7. /\ res.type \in ResultTypes
        /\ res.type = "number" => res.value \in Int
        /\ res.type = "string" => res.value \in Targets
    BY <1>2, <1>5, ProxyAssumption DEF Extracted
  <1>8. /\ own.ruleID = rule.ruleID /\ own.timeWindow \in TimeWindows
        /\ own.accumulator = rule.accumulator
    BY <1>5 DEF EngineRule, Rules
  <1>9. /\ EngineCall(p.traj, own, res) /\ changes' = changes
        /\ charged' = IF reply'.verdict = "granted"
                        THEN [charged EXCEPT ![q] = @ \cup {charge}] ELSE charged
    BY DEF Call, Payload
  <1> HIDE DEF p, rule, own, res
  <1>10. charge \in [ruleID : RuleIDs, result : EngineResults]
    BY <1>6
  <1> HIDE DEF charge
  <1>11. charged' \in [Requests -> SUBSET [ruleID : RuleIDs, result : EngineResults]]
    BY <1>9, <1>10 DEF Books
  <1>12. ledger' \in [Trajectories -> [RuleIDs -> LedgerEntries]]
    <2>1. CASE Engine!PassUncounted(p.traj, own, res) \/ Engine!Deny(p.traj, own, res)
      BY <2>1 DEF Engine!PassUncounted, Engine!Deny, Books
    <2>2. CASE Engine!Grant(p.traj, own, res)
      <3> DEFINE entry == ledger[p.traj][rule.ruleID]
                 after == Entered(entry, own, res, 0)
      <3>1. entry \in LedgerEntries
        BY <1>2, <1>6 DEF Books
      <3>2. ~Unreadable(own, res)
        BY <2>2, EngineOperators DEF Engine!Grant
      <3>3. after \in LedgerEntries
        BY <3>1, <3>2, <1>7, <1>8, EntryTyped DEF Unreadable
      <3>4. ledger' = [ledger EXCEPT ![p.traj][rule.ruleID] = after]
        <4>1. ledger' = [ledger EXCEPT ![p.traj][own.ruleID] =
                           Engine!Entered(ledger[p.traj][own.ruleID], own, res, 0)]
          BY <2>2 DEF Engine!Grant
        <4>2. Engine!Entered(ledger[p.traj][own.ruleID], own, res, 0) = after
          BY <1>8, EngineOperators
        <4> HIDE DEF after
        <4> QED
          BY <4>1, <4>2, <1>8
      <3> HIDE DEF after
      <3> QED
        BY <3>3, <3>4, <1>2, <1>6 DEF Books
    <2> QED
      BY <1>9, <2>1, <2>2 DEF EngineCall
  <1> QED
    BY <1>9, <1>11, <1>12 DEF Books

LEMMA InitBooks == Init => Books
  BY ProxyAssumption DEF Init, Books, LedgerEntries, Unused, Usage

LEMMA NextBooks == CeilingInv /\ MutexInv /\ Books /\ [Next]_vars => Books'
  <1> SUFFICES ASSUME CeilingInv, MutexInv, Books, [Next]_vars PROVE Books'
    OBVIOUS
  <1>1. CASE UNCHANGED <<changes, ledger, charged>>
    BY <1>1 DEF Books
  <1>2. CASE ChangePolicy
    <2>1. /\ changes < MaxChanges /\ changes' = changes + 1
          /\ UNCHANGED <<ledger, charged>>
      BY <1>2 DEF ChangePolicy
    <2> QED
      BY <2>1, ProxyAssumption DEF Books
  <1>3. ASSUME NEW q \in Requests, NEW p \in Payloads, Arrive(q, p)
        PROVE  UNCHANGED <<changes, ledger, charged>>
    BY <1>3 DEF Arrive
  <1>4. ASSUME NEW q \in Requests, Snapshot(q) \/ Skip(q) \/ Check(q) \/ Lock(q) \/ Forward(q)
        PROVE  UNCHANGED <<changes, ledger, charged>>
    BY <1>4 DEF Snapshot, Skip, Check, Lock, Forward
  <1>5. ASSUME NEW q \in Requests, Call(q) PROVE Books'
    BY <1>5, CallBooks
  <1> QED
    BY <1>1, <1>2, <1>3, <1>4, <1>5 DEF Next, Proceed, vars

(***************************************************************************)
(* The state keeps its types and a request is inside the engine exactly    *)
(* when it holds e.mu, whatever the policy, the payloads and the engine's  *)
(* answers.                                                                *)
(***************************************************************************)
THEOREM ProxyTyped == Spec => []TypeOK
  <1> DEFINE IInv == CeilingInv /\ TrailInv /\ MutexInv /\ Books
  <1>1. Init => IInv
    BY InitCeiling, InitTrail, InitMutex, InitBooks
  <1>2. IInv /\ [Next]_vars => IInv'
    BY NextCeiling, NextTrail, NextMutex, NextBooks
  <1>3. IInv => TypeOK
    BY DEF CeilingInv, Typed, TrailInv, MutexInv, Books, TypeOK
  <1> QED
    BY <1>1, <1>2, <1>3, PTL DEF Spec
=============================================================================
