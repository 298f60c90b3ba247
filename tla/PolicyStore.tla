---------------------------- MODULE PolicyStore ----------------------------
(***************************************************************************)
(* internal/config's Store behind internal/admin: the policy in RAM, which *)
(* the proxy evaluates calls against, and the policy file it was loaded    *)
(* from.  The admin API posts and deletes rules; each request holds s.mu   *)
(* from the first change in RAM to the end of the write, and is one action *)
(* here.  UpdatePolicy has no caller and is left out.                      *)
(*                                                                         *)
(* os.WriteFile truncates the file and then writes it.  It may fail before *)
(* (the file is as it was), in between (the file is torn: a prefix of a    *)
(* JSON object never parses) or after it wrote everything ("late").  A     *)
(* process that dies in it leaves one of the same files behind.            *)
(***************************************************************************)
EXTENDS RuleList

CONSTANTS IDs,            \* rule ids
          Bodies,         \* what else a rule holds
          SoundBodies,    \* those that Validate accepts: a known accumulator type,
                          \* max_per_call <= max_cumulative
          FirstPolicy,    \* the file the operator wrote
          WriteOutcomes,  \* of os.WriteFile: "written", "failed", "torn", "late"
          Torn,           \* the content of a torn file
          Unknown         \* whether a change took effect

Rules == [ruleID : IDs, body : Bodies]

VARIABLES policy,    \* Store.policy.Rules; empty while the process is down
          file,      \* the rules in the policy file, or Torn
          up,        \* whether the process runs
          status,    \* of the last admin response; 0 when something else came after
          promised   \* history: per id, what the last response about it promised

vars == <<policy, file, up, status, promised>>

-----------------------------------------------------------------------------
\* Policy.Validate.  The version is never changed, and the admin API refuses empty
\* ids, patterns and paths.
Valid(rules) ==
  /\ rules # <<>>
  /\ IdsUnique(rules)
  /\ \A i \in 1 .. Len(rules) : rules[i].body \in SoundBodies

ASSUME PolicyAssumption ==
  /\ SoundBodies \subseteq Bodies
  /\ FirstPolicy \in Seq(Rules)
  /\ Valid(FirstPolicy)
  /\ WriteOutcomes \subseteq {"written", "failed", "torn", "late"}
  /\ Torn \notin Seq(Rules)

-----------------------------------------------------------------------------
Init ==
  /\ policy = FirstPolicy
  /\ file = FirstPolicy
  /\ up = TRUE
  /\ status = 0
  /\ promised = [id \in IDs |-> Lookup(FirstPolicy, id)]

\* os.WriteFile of rules: the file it leaves behind.
Written(outcome, rules) ==
  CASE outcome \in {"written", "late"} -> rules
    [] outcome = "failed" -> file
    [] outcome = "torn" -> Torn

\* Plausible slips of SaveLocked: the rules are not validated again; the error of a
\* write is dropped, as the engine drops that of SaveTrajectory.
SaveUnchecked(rules, id, failure) ==
  \E outcome \in WriteOutcomes :
    /\ file' = Written(outcome, rules)
    /\ status' = IF outcome = "written" THEN 200 ELSE failure
    /\ promised' = [promised EXCEPT
         ![id] = IF outcome = "written" THEN Lookup(rules, id) ELSE Unknown]
SaveIgnoringErrors(rules, id, failure) ==
  /\ Valid(rules)
  /\ \E outcome \in WriteOutcomes : file' = Written(outcome, rules)
  /\ status' = 200
  /\ promised' = [promised EXCEPT ![id] = Lookup(rules, id)]

\* saveLocked of the rules now in RAM, and what the handler then answers about id.
SaveLocked(rules, id, failure) ==
  \/ /\ Valid(rules)
     /\ \E outcome \in WriteOutcomes :
          /\ file' = Written(outcome, rules)
          /\ status' = IF outcome = "written" THEN 200 ELSE failure
          /\ promised' = [promised EXCEPT
               ![id] = IF outcome = "written" THEN Lookup(rules, id) ELSE Unknown]
  \/ /\ ~Valid(rules)
     /\ status' = failure
     /\ promised' = [promised EXCEPT ![id] = Unknown]
     /\ UNCHANGED file

\* POST of a rule, and AddOrUpdateRule.
Post(rule) ==
  /\ up
  /\ policy' = Upsert(policy, rule)
  /\ SaveLocked(policy', rule.ruleID, 500)
  /\ UNCHANGED up

\* A POST without id, pattern or path, a DELETE without id, a body that is not JSON.
BadRequest ==
  /\ up
  /\ status' = 400
  /\ UNCHANGED <<policy, file, up, promised>>

\* DELETE of a rule, and DeleteRule; every failure of it is answered with a 404.
Delete(id) ==
  /\ up
  /\ IF Holds(policy, id)
       THEN /\ policy' = Without(policy, id)
            /\ SaveLocked(policy', id, 404)
       ELSE /\ status' = 404
            /\ UNCHANGED <<policy, file, promised>>
  /\ UNCHANGED up

Crash ==
  /\ up
  /\ up' = FALSE
  /\ policy' = <<>>
  /\ status' = 0
  /\ UNCHANGED <<file, promised>>

\* A plausible slip of Restart: a file that does not parse is taken for a policy.
RestartUnparsed ==
  /\ ~up
  /\ file = Torn \/ Valid(file)
  /\ up' = TRUE
  /\ policy' = file
  /\ status' = 0
  /\ UNCHANGED <<file, promised>>

\* LoadPolicy at start; with a file it refuses the process exits at once.
Restart ==
  /\ ~up
  /\ file # Torn
  /\ Valid(file)
  /\ up' = TRUE
  /\ policy' = file
  /\ status' = 0
  /\ UNCHANGED <<file, promised>>

Next ==
  \/ \E rule \in Rules : Post(rule)
  \/ BadRequest
  \/ \E id \in IDs : Delete(id)
  \/ Crash
  \/ Restart

Spec == Init /\ [][Next]_vars

-----------------------------------------------------------------------------
\* The types of the state.
TypeOK ==
  /\ policy \in Seq(Rules)
  /\ file \in Seq(Rules) \cup {Torn}
  /\ up \in BOOLEAN
  /\ status \in {0, 200, 400, 404, 500}
  /\ promised \in [IDs -> Rules \cup {Missing, Unknown}]

(***************************************************************************)
(* A change answered with 200 is in the file until the next change of the  *)
(* same rule: requests about other rules, failed writes and restarts do    *)
(* not undo it.  (A torn write loses the file as a whole.)                 *)
(***************************************************************************)
AcknowledgedSticks ==
  file # Torn =>
    \A id \in IDs : promised[id] # Unknown => Lookup(file, id) = promised[id]

(***************************************************************************)
(* Unless a write was torn, the process finds a policy it accepts when it  *)
(* starts: no request, however wrong, makes the file invalid.              *)
(***************************************************************************)
FileBoots == file # Torn => Valid(file)

(***************************************************************************)
(* A success means RAM and file agree, though earlier changes failed to be *)
(* written, and that the rules are valid.                                  *)
(***************************************************************************)
SuccessIsWhole == status = 200 => file = policy /\ Valid(policy)

(***************************************************************************)
(* Two rules in RAM never share an id, not even in a policy that Validate  *)
(* refuses: the engine keeps one state per id.                             *)
(***************************************************************************)
LiveIdsUnique == IdsUnique(policy)

(***************************************************************************)
(* config.go "Validate asserts the structural and logical invariants of    *)
(* loaded rules": calls are only evaluated against rules it has accepted.  *)
(***************************************************************************)
LiveRulesValid == up => Valid(policy)
=============================================================================
