----------------------------- MODULE TokenCheck -----------------------------
(***************************************************************************)
(* What the keyring promises of a capability token: it is judged at one    *)
(* instant, against the keys as a set.  There is no order of the keys, no  *)
(* loop over them, and one reading of the clock.                           *)
(***************************************************************************)
EXTENDS Integers

CONSTANTS Pairs,    \* the key pairs; a pair stands for its public and private key
          Tokens,   \* [pair, expires, form]; expires = 0: never
          NoToken,  \* a check that has not been asked
          Checks    \* the verifications of a run, each made once

VARIABLES now, keys, verdicts

checkVars == <<now, keys, verdicts>>

Expired(token, time) == token.expires > 0 /\ time > token.expires

Judgement(token, registered, time) ==
  CASE token.form = "illegible" -> "illegible"
    [] token.form # "illegible" /\ Expired(token, time) -> "expired"
    [] token.form = "unsigned" /\ ~Expired(token, time) -> "unsigned"
    [] token.form = "sound" /\ ~Expired(token, time) /\ token.pair \in registered -> "accepted"
    [] OTHER -> "mismatch"

Unasked == [token |-> NoToken, verdict |-> "none"]

Init ==
  /\ now = 1
  /\ keys = {}
  /\ verdicts = [c \in Checks |-> Unasked]

Ask(c, token) ==
  /\ verdicts[c] = Unasked
  /\ verdicts' = [verdicts EXCEPT ![c] = [token |-> token, verdict |-> "pending"]]
  /\ UNCHANGED <<now, keys>>

Decide(c) ==
  /\ verdicts[c].verdict = "pending"
  /\ verdicts' = [verdicts EXCEPT ![c].verdict = Judgement(verdicts[c].token, keys, now)]
  /\ UNCHANGED <<now, keys>>

\* The process starts with other keys; one that stops drops what it was asked.
Configure ==
  /\ keys' \in SUBSET Pairs
  /\ verdicts' = [c \in Checks |->
       IF verdicts[c].verdict = "pending"
         THEN [token |-> verdicts[c].token, verdict |-> "dropped"] ELSE verdicts[c]]
  /\ UNCHANGED now

Pass ==
  /\ now' = now + 1
  /\ UNCHANGED <<keys, verdicts>>

Next ==
  \/ \E c \in Checks : Decide(c) \/ \E token \in Tokens : Ask(c, token)
  \/ Configure
  \/ Pass

Spec == Init /\ [][Next]_checkVars
=============================================================================
