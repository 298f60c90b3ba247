------------------------------- MODULE Engine -------------------------------
(***************************************************************************)
(* internal/engine over internal/storage: the cumulative usage of every    *)
(* rule by every trajectory, kept in RAM, saved to a bbolt file after each *)
(* granted call, reloaded at start, and purged by a janitor when a session *)
(* has been idle for longer than its TTL.                                  *)
(*                                                                         *)
(* EvaluateAndIncrement and one round of the janitor run under e.mu, so    *)
(* each is one action, the save or the deletions at its end included.      *)
(* Every bbolt operation is one transaction: a process that dies in the    *)
(* middle of a call dies before or after the call; one that dies in the    *)
(* middle of a janitor round has deleted some of the stale records.        *)
(*                                                                         *)
(* The process is "up", then "closed" (the storage is closed, handlers     *)
(* that outlived the ten seconds of server.Shutdown still run), then       *)
(* "down"; it may also go "down" at any moment.                            *)
(***************************************************************************)
EXTENDS Accumulator

CONSTANTS Trajectories,
          Rules,        \* the effective rules calls may carry; a policy update or
                        \* a directive gives an id several versions
          Results,      \* what value extraction may give
          Ttl,          \* session TTL in hours, 0 when it is disabled
          DiskFaults,   \* whether a bbolt write may fail while the storage is open
          MaxTime,      \* bound on the clock
          Overdraft,    \* bound on how far below zero negative amounts bring a sum
          Absent        \* a key a map does not have

RuleIDs == {rule.ruleID : rule \in Rules}
Time == 0 .. MaxTime
RuleStates == [used : Usage, windowStart : Time]
Sessions == [lastAccess : Time, rules : [RuleIDs -> RuleStates \cup {Absent}]]
Maps == [Trajectories -> Sessions \cup {Absent}]

ASSUME EngineAssumption ==
  /\ IsFiniteSet(Targets)
  /\ Rules \subseteq [ruleID : STRING, accumulator : STRING,
                      maxCumulative : Int \cup {NoLimit}, timeWindow : TimeWindows]
  /\ NoLimit \notin Int
  /\ \A res \in Results :
       /\ res.type \in ResultTypes
       /\ res.type = "number" => res.value \in Int
       /\ res.type = "string" => res.value \in Targets
  /\ Ttl \in Nat
  /\ MaxTime \in Nat
  /\ DiskFaults \in BOOLEAN
  /\ Overdraft \in Nat
  /\ Absent \notin Sessions
  /\ Absent \notin RuleStates

VARIABLES
  now,            \* the wall clock
  phase,          \* of the process: "up", "closed" or "down"
  trajectories,   \* Engine.trajectories
  disk,           \* the bbolt bucket "trajectories"
  reply,          \* what the last call answered
  ledger,         \* history: what calls were granted, per calendar window
  unsaved,        \* history: trajectories with a granted call no save has recorded
  forgotten       \* history: trajectories that were unsaved when the process died

vars == <<now, phase, trajectories, disk, reply, ledger, unsaved, forgotten>>
history == <<ledger, unsaved, forgotten>>

Idle == [verdict |-> "idle"]
Answer(verdict, t, rule, res) ==
  [verdict |-> verdict, traj |-> t, rule |-> rule, result |-> res]

-----------------------------------------------------------------------------
(***************************************************************************)
(* What a call at instant t finds for its rule in a session, which may be  *)
(* Absent.                                                                 *)
(***************************************************************************)
RulesOf(session) ==
  IF session = Absent THEN [id \in RuleIDs |-> Absent] ELSE session.rules

Fresh(t) == [used |-> Unused, windowStart |-> t]

\* A plausible slip of StateOf: a new window starts with the usage of the old one.
StateCarriedOver(session, rule, t) ==
  LET state == RulesOf(session)[rule.ruleID]
  IN  IF state = Absent THEN Fresh(t)
      ELSE IF IsWindowExpired(rule.timeWindow, state.windowStart, t)
        THEN [state EXCEPT !.windowStart = t]
        ELSE state

\* The state the call works with: created, or reset, when it must be.
StateOf(session, rule, t) ==
  LET state == RulesOf(session)[rule.ruleID]
  IN  IF state = Absent \/ IsWindowExpired(rule.timeWindow, state.windowStart, t)
        THEN Fresh(t)
        ELSE state

Balance(session, rule, t) == StateOf(session, rule, t).used

\* The session once the call has stored state as the state of its rule.
Touched(session, rule, state, t) ==
  [lastAccess |-> t, rules |-> [RulesOf(session) EXCEPT ![rule.ruleID] = state]]

ChargedState(session, rule, res, t) ==
  [StateOf(session, rule, t) EXCEPT !.used = Charged(@, rule, res)]

-----------------------------------------------------------------------------
\* The ledger starts in the window of instant zero.  Versions of a rule id are
\* meant to share their schedule (StableSchedules), so any version will do.
WindowAtStart(id) ==
  WindowOf((CHOOSE rule \in Rules : rule.ruleID = id).timeWindow, 0)

Init ==
  /\ now = 0
  /\ phase = "up"
  /\ trajectories = [t \in Trajectories |-> Absent]
  /\ disk = [t \in Trajectories |-> Absent]
  /\ reply = Idle
  /\ ledger = [t \in Trajectories |->
                 [id \in RuleIDs |-> [window |-> WindowAtStart(id), used |-> Unused]]]
  /\ unsaved = {}
  /\ forgotten = {}

Limited(rule) == rule.maxCumulative # NoLimit

\* EvaluateAndIncrement, no max_cumulative: nothing is read or written.
CallUnlimited(t, rule, res) ==
  /\ phase # "down"
  /\ ~Limited(rule)
  /\ reply' = Answer("uncounted", t, rule, res)
  /\ UNCHANGED <<now, phase, trajectories, disk, history>>

\* The calls that leave before the save have touched the session in RAM.
TouchOnly(t, rule) ==
  /\ phase # "down"
  /\ Limited(rule)
  /\ trajectories' =
       [trajectories EXCEPT ![t] = Touched(@, rule, StateOf(@, rule, now), now)]
  /\ UNCHANGED <<now, phase, disk, history>>

\* A value of the wrong type is not counted, and no error is returned.
CallUnreadable(t, rule, res) ==
  /\ TouchOnly(t, rule)
  /\ Unreadable(rule, res)
  /\ ~Dereferences(rule, res)
  /\ reply' = Answer("uncounted", t, rule, res)

\* evalRes is nil: the handler panics, the deferred Unlock runs.
CallPanics(t, rule, res) ==
  /\ TouchOnly(t, rule)
  /\ Dereferences(rule, res)
  /\ reply' = Answer("panic", t, rule, res)

CallDenied(t, rule, res) ==
  /\ TouchOnly(t, rule)
  /\ ~Unreadable(rule, res)
  /\ Exceeds(Balance(trajectories[t], rule, now), rule, res)
  /\ reply' = Answer("denied", t, rule, res)

\* SaveTrajectory and DeleteTrajectory as the engine sees them; it ignores their
\* errors.  bbolt refuses every transaction once it is closed.
WriteMayFail == DiskFaults \/ phase = "closed"
WriteMaySucceed == phase = "up"

\* Plausible slips of SaveSession: only the rule that was charged is saved, the
\* session's other rules being lost; the map saved was built before the charge.
SaveOneRule(t, rule, session) ==
  [disk EXCEPT ![t] = Touched(Absent, rule, session.rules[rule.ruleID], now)]
SaveBeforeCharge(t, rule, session) ==
  [disk EXCEPT ![t] =
     Touched(trajectories[t], rule, StateOf(trajectories[t], rule, now), now)]

SaveSession(t, rule, session) == [disk EXCEPT ![t] = session]

CallGranted(t, rule, res) ==
  LET state == ChargedState(trajectories[t], rule, res, now)
      session == Touched(trajectories[t], rule, state, now)
  IN  /\ phase # "down"
      /\ Limited(rule)
      /\ ~Unreadable(rule, res)
      /\ ~Exceeds(Balance(trajectories[t], rule, now), rule, res)
      /\ state.used.sum >= -Overdraft
      /\ trajectories' = [trajectories EXCEPT ![t] = session]
      /\ \/ /\ WriteMaySucceed
            /\ disk' = SaveSession(t, rule, session)
            /\ unsaved' = unsaved \ {t}
         \/ /\ WriteMayFail
            /\ disk' = disk
            /\ unsaved' = unsaved \cup {t}
      \* nothing is recorded of a forgotten trajectory any more
      /\ ledger' = IF t \in forgotten THEN ledger
                   ELSE [ledger EXCEPT ![t][rule.ruleID] = Entered(@, rule, res, now)]
      /\ reply' = Answer("granted", t, rule, res)
      /\ UNCHANGED <<now, phase, forgotten>>

Call(t, rule, res) ==
  \/ CallUnlimited(t, rule, res)
  \/ CallUnreadable(t, rule, res)
  \/ CallPanics(t, rule, res)
  \/ CallDenied(t, rule, res)
  \/ CallGranted(t, rule, res)

-----------------------------------------------------------------------------
Purge(m, gone) == [t \in Trajectories |-> IF t \in gone THEN Absent ELSE m[t]]

\* Plausible slips of Stale: a session that was never saved is overlooked; the
\* access just made was not noted, as if LastAccess were left at zero.
StaleOnDisk == {t \in Trajectories :
                  /\ Ttl > 0
                  /\ disk[t] # Absent
                  /\ now - disk[t].lastAccess > Ttl}
StaleSinceZero == {t \in Trajectories : Ttl > 0 /\ trajectories[t] # Absent /\ now > Ttl}

Stale == {t \in Trajectories :
            /\ Ttl > 0
            /\ trajectories[t] # Absent
            /\ now - trajectories[t].lastAccess > Ttl}

\* A plausible slip of Janitor: the record on disk is never deleted.
JanitorKeepsDisk ==
  /\ phase # "down"
  /\ Stale # {}
  /\ trajectories' = Purge(trajectories, Stale)
  /\ reply' = Idle
  /\ UNCHANGED <<now, phase, disk, history>>

\* One round of startJanitor; the sessions of kept stay on disk because their
\* DeleteTrajectory failed.
Janitor ==
  /\ phase # "down"
  /\ Stale # {}
  /\ \E kept \in SUBSET Stale :
       /\ kept # {} => WriteMayFail
       /\ kept # Stale => WriteMaySucceed
       /\ disk' = Purge(disk, Stale \ kept)
  /\ trajectories' = Purge(trajectories, Stale)
  /\ reply' = Idle
  /\ UNCHANGED <<now, phase, history>>

\* server.Shutdown gave up on handlers still running; store.Close.
CloseStorage ==
  /\ phase = "up"
  /\ phase' = "closed"
  /\ reply' = Idle
  /\ UNCHANGED <<now, trajectories, disk, history>>

\* The process ends, at the end of runStart or by a crash, possibly in the middle
\* of a janitor round that has deleted the sessions of gone.
Stop ==
  /\ phase # "down"
  /\ \E gone \in SUBSET Stale :
       /\ gone # {} => WriteMaySucceed
       /\ disk' = Purge(disk, gone)
  /\ phase' = "down"
  /\ trajectories' = [t \in Trajectories |-> Absent]
  /\ reply' = Idle
  /\ forgotten' = forgotten \cup unsaved
  /\ unsaved' = {}
  /\ UNCHANGED <<now, ledger>>

\* A plausible slip of Start: the records on disk are not loaded.
StartEmpty ==
  /\ phase = "down"
  /\ phase' = "up"
  /\ reply' = Idle
  /\ UNCHANGED <<now, trajectories, disk, history>>

\* LoadAllTrajectories: every record decodes to what was saved.
LoadAll == disk

\* NewEngine.
Start ==
  /\ phase = "down"
  /\ phase' = "up"
  /\ trajectories' = LoadAll
  /\ reply' = Idle
  /\ UNCHANGED <<now, disk, history>>

Tick ==
  /\ now < MaxTime
  /\ now' = now + 1
  /\ reply' = Idle
  /\ UNCHANGED <<phase, trajectories, disk, history>>

Next ==
  \/ \E t \in Trajectories, rule \in Rules, res \in Results : Call(t, rule, res)
  \/ Janitor
  \/ CloseStorage
  \/ Stop
  \/ Start
  \/ Tick

Spec == Init /\ [][Next]_vars

\* The janitor is a goroutine with a ticker of its own: it runs again as long as
\* the process does.  Nothing else is promised to happen.
FairSpec == Spec /\ WF_vars(Janitor)
=============================================================================
