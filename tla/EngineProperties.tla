-------------------------- MODULE EngineProperties --------------------------
(***************************************************************************)
(* What the engine should guarantee, and the hypotheses on rules and TTL   *)
(* under which it does.                                                    *)
(***************************************************************************)
EXTENDS Engine

(***************************************************************************)
(* The hypotheses.  They speak of the configuration only; MCEngine         *)
(* evaluates them on its instances, and the runs of MCEngine that break    *)
(* one show what is lost with it.                                          *)
(***************************************************************************)
\* The versions of a rule id agree on their time window.
StableSchedules ==
  \A rule, other \in Rules :
    rule.ruleID = other.ruleID => rule.timeWindow = other.timeWindow

\* The engine's test for the end of a window agrees with the calendar.
SoundWindows ==
  \A rule \in Rules, a, b \in Time :
    a <= b =>
      /\ WindowOf(rule.timeWindow, a) <= WindowOf(rule.timeWindow, b)
      /\ IsWindowExpired(rule.timeWindow, a, b) <=>
           WindowOf(rule.timeWindow, a) # WindowOf(rule.timeWindow, b)

\* No session can go stale inside a window in which it has been used.
TtlCoversWindows ==
  \A rule \in Rules, a, b \in Time :
    (Ttl > 0 /\ b - a > Ttl) =>
      WindowOf(rule.timeWindow, a) # WindowOf(rule.timeWindow, b)

Hypotheses == StableSchedules /\ SoundWindows /\ TtlCoversWindows

\* Configurations that meet the last two: sessions that never expire when a rule
\* has no window, a TTL of a day or more when a rule is daily, and hourly rules as
\* long as no state is a year old.
CoveredByTtl(tw) ==
  \/ ~tw.enabled /\ Ttl = 0
  \/ tw.enabled /\ tw.resetSchedule = "daily" /\ (Ttl = 0 \/ Ttl >= HoursPerDay)
  \/ tw.enabled /\ tw.resetSchedule = "hourly" /\ MaxTime < HoursPerDay * DaysPerYear

-----------------------------------------------------------------------------
Verdicts == {"uncounted", "panic", "denied", "granted"}

\* The types of the state.
TypeOK ==
  /\ now \in Time
  /\ phase \in {"up", "closed", "down"}
  /\ trajectories \in Maps
  /\ disk \in Maps
  /\ reply \in {Idle} \cup [verdict : Verdicts, traj : Trajectories,
                            rule : Rules, result : Results]
  /\ ledger \in [Trajectories -> [RuleIDs -> LedgerEntries]]
  /\ unsaved \in SUBSET Trajectories
  /\ forgotten \in SUBSET Trajectories

(***************************************************************************)
(* README.md "enforces cumulative consumption caps across multiple calls": *)
(* what a trajectory was granted in one calendar window always respects    *)
(* the cap of some version of the rule, through restarts, purges and failed   *)
(* saves, unless the process died before a save recorded its last grant.   *)
(***************************************************************************)
Allows(rule, accumulator, id) ==
  rule.ruleID = id /\ rule.accumulator = accumulator /\ Limited(rule)

WithinCap(id, used) ==
  /\ used.sum = 0 \/ \E rule \in Rules :
       Allows(rule, "sum", id) /\ used.sum <= rule.maxCumulative
  /\ used.count = 0 \/ \E rule \in Rules :
       Allows(rule, "count", id) /\ used.count <= rule.maxCumulative
  /\ used.uniqueSet = {} \/ \E rule \in Rules :
       Allows(rule, "unique_set", id) /\ Cardinality(used.uniqueSet) <= rule.maxCumulative

SpendWithinCap ==
  \A t \in Trajectories \ forgotten, id \in RuleIDs : WithinCap(id, ledger[t][id].used)

(***************************************************************************)
(* A call is denied only when the grants of the present window leave no    *)
(* room for it: not for usage of a past window, of another rule or of      *)
(* another trajectory, nor for a charge made twice by a reload.            *)
(***************************************************************************)
DenialJustified ==
  (reply.verdict = "denied" /\ reply.traj \notin forgotten) =>
    Exceeds(Spent(ledger[reply.traj][reply.rule.ruleID], reply.rule, now),
            reply.rule, reply.result)

(***************************************************************************)
(* Once the last grant of a trajectory is saved, the disk would give every *)
(* rule the balance it has in RAM: a restart here changes no verdict, even *)
(* though denied calls and window resets are never saved and the janitor's *)
(* deletions may fail.                                                     *)
(***************************************************************************)
ChargesDurable ==
  phase # "down" =>
    \A t \in Trajectories \ unsaved, rule \in Rules :
      Balance(disk[t], rule, now) = Balance(trajectories[t], rule, now)

(***************************************************************************)
(* The invariant behind the three above: while the process runs, RAM gives *)
(* each rule the balance the ledger dictates; while it is down, the disk   *)
(* does.  It needs the dates: nothing in a session is later than its last  *)
(* access (or a purge could take usage of the present window with it), and *)
(* the ledger is never ahead of the clock.                                 *)
(***************************************************************************)
InPast(session, t) ==
  session # Absent =>
    /\ session.lastAccess <= t
    /\ \A id \in RuleIDs :
         session.rules[id] # Absent => session.rules[id].windowStart <= session.lastAccess

RecordsInPast ==
  \A t \in Trajectories : InPast(trajectories[t], now) /\ InPast(disk[t], now)

LedgerNotAhead ==
  \A t \in Trajectories, rule \in Rules :
    ledger[t][rule.ruleID].window <= WindowOf(rule.timeWindow, now)

FollowsLedger(m) ==
  \A t \in Trajectories \ forgotten, rule \in Rules :
    Balance(m[t], rule, now) = Spent(ledger[t][rule.ruleID], rule, now)

LedgerFollowed ==
  /\ TypeOK
  /\ RecordsInPast
  /\ LedgerNotAhead
  /\ ChargesDurable
  /\ phase # "down" => FollowsLedger(trajectories)
  /\ phase = "down" => FollowsLedger(disk) /\ unsaved = {}

(***************************************************************************)
(* At an instant, only a granted call changes a balance, and only that of  *)
(* its own trajectory and rule: not a purge, a denied call or a panic.     *)
(***************************************************************************)
OnlyGrantsSpend ==
  [][\A t \in Trajectories, rule \in Rules :
       (phase # "down" /\ phase' # "down" /\ now' = now
          /\ Balance(trajectories'[t], rule, now') # Balance(trajectories[t], rule, now)) =>
         /\ reply'.verdict = "granted"
         /\ reply'.traj = t
         /\ reply'.rule.ruleID = rule.ruleID]_vars

(***************************************************************************)
(* engine.go "purged stale sessions from RAM and disk": while writes do    *)
(* not fail and the storage is open, the disk holds no session RAM has     *)
(* dropped, so that the file does not outgrow the live sessions.           *)
(***************************************************************************)
NoOrphans ==
  (phase = "up" /\ ~DiskFaults) =>
    \A t \in Trajectories : disk[t] # Absent => trajectories[t] # Absent

(***************************************************************************)
(* A session idle for longer than the TTL is purged, used again, or the    *)
(* process ends.                                                           *)
(***************************************************************************)
Overdue(t) ==
  /\ phase # "down"
  /\ Ttl > 0
  /\ trajectories[t] # Absent
  /\ now - trajectories[t].lastAccess > Ttl

IdleSessionsReclaimed == \A t \in Trajectories : Overdue(t) ~> ~Overdue(t)

(***************************************************************************)
(* The engine implements the ledger: with RAM, disk, janitor and restarts  *)
(* hidden, every verdict is the one the full history of grants dictates.   *)
(***************************************************************************)
Promise == INSTANCE TrajectoryLedger WITH atRisk <- unsaved, lost <- forgotten

ImplementsLedger == Promise!Spec
=============================================================================
