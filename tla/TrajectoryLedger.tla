-------------------------- MODULE TrajectoryLedger --------------------------
(***************************************************************************)
(* What the engine promises: one ledger, never forgotten, of what each     *)
(* trajectory has been granted in each calendar window; a call is granted  *)
(* exactly when the ledger leaves room for it.  There is no RAM, no disk,  *)
(* no janitor and no session.                                              *)
(*                                                                         *)
(* The one way out of the promise is explicit: a trajectory whose last     *)
(* grant could not be saved is at risk, and is lost if the process stops   *)
(* before a later grant is saved.  Nothing is promised of a lost one.      *)
(***************************************************************************)
EXTENDS Accumulator

CONSTANTS Trajectories, Rules, Results

VARIABLES now, reply, ledger, atRisk, lost

ledgerVars == <<now, reply, ledger, atRisk, lost>>

Init ==
  /\ now = 0
  /\ reply = [verdict |-> "idle"]
  /\ \A t \in Trajectories, rule \in Rules : ledger[t][rule.ruleID].used = Unused
  /\ atRisk = {}
  /\ lost = {}

Answered(verdict, t, rule, res) ==
  reply' = [verdict |-> verdict, traj |-> t, rule |-> rule, result |-> res]

\* The call is not subject to a cumulative limit, or its value cannot be counted.
PassUncounted(t, rule, res) ==
  /\ rule.maxCumulative = NoLimit \/ Unreadable(rule, res)
  /\ \/ Answered("uncounted", t, rule, res)
     \/ Dereferences(rule, res) /\ Answered("panic", t, rule, res)
  /\ UNCHANGED <<now, ledger, atRisk, lost>>

Deny(t, rule, res) ==
  /\ rule.maxCumulative # NoLimit /\ ~Unreadable(rule, res)
  /\ t \in lost \/ Exceeds(Spent(ledger[t][rule.ruleID], rule, now), rule, res)
  /\ Answered("denied", t, rule, res)
  /\ UNCHANGED <<now, ledger, atRisk, lost>>

Grant(t, rule, res) ==
  /\ rule.maxCumulative # NoLimit /\ ~Unreadable(rule, res)
  /\ t \in lost \/ ~Exceeds(Spent(ledger[t][rule.ruleID], rule, now), rule, res)
  /\ Answered("granted", t, rule, res)
  /\ ledger' = IF t \in lost THEN ledger
               ELSE [ledger EXCEPT ![t][rule.ruleID] = Entered(@, rule, res, now)]
  /\ atRisk' \in {atRisk \cup {t}, atRisk \ {t}}
  /\ UNCHANGED <<now, lost>>

\* Time passes, or the engine does something no call can tell.
Pass ==
  /\ reply' = [verdict |-> "idle"]
  /\ now' \in {now, now + 1}
  /\ UNCHANGED <<ledger, atRisk, lost>>

Restart ==
  /\ reply' = [verdict |-> "idle"]
  /\ lost' = lost \cup atRisk
  /\ atRisk' = {}
  /\ UNCHANGED <<now, ledger>>

Next ==
  \/ \E t \in Trajectories, rule \in Rules, res \in Results :
       PassUncounted(t, rule, res) \/ Deny(t, rule, res) \/ Grant(t, rule, res)
  \/ Pass
  \/ Restart

Spec == Init /\ [][Next]_ledgerVars
=============================================================================
