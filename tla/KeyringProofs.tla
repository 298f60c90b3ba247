--------------------------- MODULE KeyringProofs ---------------------------
(***************************************************************************)
(* The verification of tokens, for any keys, tokens and number of checks:  *)
(* a token has one verdict, an expiry is final, and gen-keys leaves        *)
(* matching files.                                                         *)
(***************************************************************************)
EXTENDS Keyring, TLAPS

Stages == {"waiting", "trying", "accepted", "rejected", "dropped"}
Reasons == Forms \cup {"none", "accepted", "expired", "mismatch"}
CheckStates == [at : Stages, token : Tokens \cup {NoToken}, next : Nat \ {0}, reason : Reasons]

LEMMA TokensTyped ==
  ASSUME NEW token \in Tokens
  PROVE  token.pair \in Pairs /\ token.form \in Forms /\ token.expires \in Nat
  BY KeyringAssumption DEF Tokens, MintToken

LEMMA CirculatingTyped ==
  ASSUME TypeOK
  PROVE  Circulating \subseteq Tokens
  <1>1. held \subseteq Pairs /\ 1 .. now \subseteq 1 .. MaxTime /\ Arriving \subseteq Forms
    BY KeyringAssumption DEF TypeOK
  <1> QED
    BY <1>1 DEF Circulating, Tokens

LEMMA VerifyTyped ==
  ASSUME NEW token \in Tokens, NEW key, NEW time
  PROVE  VerifyToken(key, token, time) \in Reasons
  BY TokensTyped DEF VerifyToken, Reasons, Forms

\* An expired token stays expired.
LEMMA ExpiryStays ==
  ASSUME NEW token \in Tokens, NEW time \in Nat, Expired(token, time)
  PROVE  Expired(token, time + 1)
  BY TokensTyped DEF Expired

-----------------------------------------------------------------------------
(***************************************************************************)
(* Type correctness.                                                       *)
(***************************************************************************)
LEMMA InitTyped == Init => TypeOK
  BY KeyringAssumption DEF Init, TypeOK, Waiting

\* What a try does to its check, and that it changes nothing else.
LEMMA Tried ==
  ASSUME TypeOK, NEW c \in Checks, TryKey(c)
  PROVE  LET result == VerifyToken(ring[checks[c].next], checks[c].token, now)
         IN  /\ checks[c] \in CheckStates /\ checks[c].at = "trying"
             /\ checks[c].token \in Tokens /\ checks[c].next \in 1 .. Len(ring)
             /\ checks' = [checks EXCEPT ![c] = checks'[c]]
             /\ checks'[c] \in CheckStates
             /\ checks'[c].at = IF result = "accepted" THEN "accepted"
                               ELSE IF checks[c].next = Len(ring) THEN "rejected" ELSE "trying"
             /\ checks'[c].token = checks[c].token
             /\ checks'[c].next = checks[c].next + 1
             /\ checks'[c].reason = result
             /\ UNCHANGED <<now, files, genkeys, made, held, ring>>
  <1> DEFINE check == checks[c]
             result == VerifyToken(ring[check.next], check.token, now)
             at == IF result = "accepted" THEN "accepted"
                   ELSE IF check.next = Len(ring) THEN "rejected" ELSE "trying"
             next == check.next + 1
             after == [check EXCEPT !.at = at, !.next = next, !.reason = result]
  <1>1. /\ check \in CheckStates /\ check.at = "trying"
        /\ check.token \in Tokens /\ check.next <= Len(ring) /\ ring \in Seq(Pairs)
    BY DEF TypeOK, TryKey, CheckStates, Stages, Reasons
  <1>2. check.next \in Nat \ {0}
    BY <1>1 DEF CheckStates
  <1>3. next \in Nat \ {0} /\ check.next \in 1 .. Len(ring)
    BY <1>1, <1>2
  <1>4. result \in Reasons
    BY <1>1, VerifyTyped
  <1>5. at \in Stages
    BY DEF Stages
  <1>6. checks' = [checks EXCEPT ![c] = after]
    BY DEF TryKey, TimeOf
  <1>7. checks \in [Checks -> CheckStates]
    BY DEF TypeOK, CheckStates, Stages, Reasons
  <1> HIDE DEF check, result, at, next
  <1>8. /\ after \in CheckStates /\ after.at = at /\ after.token = check.token
        /\ after.next = next /\ after.reason = result
    BY <1>1, <1>3, <1>4, <1>5 DEF CheckStates
  <1> HIDE DEF after
  <1>9. checks'[c] = after /\ checks' = [checks EXCEPT ![c] = checks'[c]]
    BY <1>6, <1>7
  <1>10. UNCHANGED <<now, files, genkeys, made, held, ring>>
    BY DEF TryKey
  <1>11. checks'[c].at = at /\ checks'[c].reason = result
           /\ checks'[c].token = check.token /\ checks'[c].next = next
           /\ checks'[c] \in CheckStates
    BY <1>8, <1>9
  <1> QED
    BY <1>1, <1>3, <1>9, <1>10, <1>11 DEF check, result, at, next

LEMMA TryTyped ==
  ASSUME TypeOK, NEW c \in Checks, TryKey(c)
  PROVE  TypeOK'
  <1>1. /\ checks \in [Checks -> CheckStates]
        /\ ring \in Seq(Pairs)
        /\ \A d \in Checks :
             /\ checks[d].at = "waiting" => checks[d] = Waiting
             /\ checks[d].at = "trying" =>
                  checks[d].token \in Tokens /\ checks[d].next <= Len(ring)
    BY DEF TypeOK, CheckStates, Stages, Reasons
  <1>2. checks'[c].at # "waiting"
    BY Tried
  <1>3. checks'[c].at = "trying" =>
          checks'[c].token \in Tokens /\ checks'[c].next <= Len(ring)
    BY <1>1, Tried
  <1>4. checks'[c] \in CheckStates /\ checks' = [checks EXCEPT ![c] = checks'[c]]
    BY Tried
  <1>5. /\ checks' \in [Checks -> CheckStates]
        /\ \A d \in Checks :
             /\ checks'[d].at = "waiting" => checks'[d] = Waiting
             /\ checks'[d].at = "trying" =>
                  checks'[d].token \in Tokens /\ checks'[d].next <= Len(ring)
    BY <1>1, <1>2, <1>3, <1>4
  <1>6. UNCHANGED <<now, files, genkeys, made, held, ring>>
    BY Tried
  <1> QED
    BY <1>5, <1>6 DEF TypeOK, CheckStates, Stages, Reasons

LEMMA NextTyped == TypeOK /\ [Next]_vars => TypeOK'
  <1> SUFFICES ASSUME TypeOK, [Next]_vars PROVE TypeOK'
    OBVIOUS
  <1> USE DEF TypeOK
  <1>1. ASSUME NEW pair \in Pairs, GenerateKeyPair(pair) PROVE TypeOK'
    BY <1>1 DEF GenerateKeyPair
  <1>2. ASSUME NEW outcome \in WriteOutcomes, SaveFile(outcome) PROVE TypeOK'
    <2>1. /\ genkeys.step \in {"public", "private", "token"}
          /\ genkeys.pair \in Pairs /\ genkeys.pair \in made
      BY <1>2 DEF SaveFile
    <2>2. files' \in [{"public", "private", "token"} -> Pairs \cup {Missing, Torn}]
      <3>1. outcome \in {"written", "failed", "torn"}
        BY <1>2, KeyringAssumption
      <3> QED
        BY <1>2, <2>1, <3>1 DEF SaveFile
    <2>3. /\ genkeys' \in [step : {"idle", "public", "private", "token"},
                           pair : Pairs \cup {Missing}]
          /\ genkeys'.step # "idle" => genkeys'.pair \in made
      BY <1>2, <2>1 DEF SaveFile, Saved, Following
    <2> QED
      BY <1>2, <2>1, <2>2, <2>3 DEF SaveFile
  <1>3. ASSUME NEW parts \in Configurations, Start(parts) PROVE TypeOK'
    <2>1. parts \in Seq(Pairs \cup {KeyFile}) /\ ring = <<>>
      BY <1>3, KeyringAssumption DEF Start
    <2>2. ring' \in Seq(Pairs)
      BY <1>3, <2>1 DEF Start, NewKeyring
    <2>3. \A c \in Checks : checks[c].at # "trying"
      BY <2>1
    <2> QED
      BY <1>3, <2>2, <2>3 DEF Start
  <1>4. CASE Stop
    <2>1. \A c \in Checks :
            /\ checks[c].at # "trying" => checks'[c] = checks[c]
            /\ checks[c].at = "trying" => checks'[c] = [checks[c] EXCEPT !.at = "dropped"]
      BY <1>4 DEF Stop
    <2>2. \A c \in Checks : checks[c] \in CheckStates
      BY DEF CheckStates, Stages, Reasons
    <2>3. ASSUME NEW c \in Checks, checks[c].at = "trying"
          PROVE  checks'[c] \in CheckStates /\ checks'[c].at = "dropped"
      <3> DEFINE check == checks[c]
      <3>1. check \in CheckStates /\ checks'[c] = [check EXCEPT !.at = "dropped"]
        BY <2>1, <2>2, <2>3
      <3> HIDE DEF check
      <3> QED
        BY <3>1 DEF CheckStates, Stages
    <2>4. checks' \in [Checks -> CheckStates]
      <3>1. \A c \in Checks : checks'[c] \in CheckStates
        BY <2>1, <2>2, <2>3
      <3>2. checks' = [c \in Checks |-> checks'[c]]
        BY <1>4 DEF Stop
      <3> QED
        BY <3>1, <3>2
    <2>5. \A c \in Checks :
            /\ checks'[c].at = "waiting" => checks'[c] = Waiting
            /\ checks'[c].at # "trying"
      BY <2>1, <2>3
    <2>6. ring' \in Seq(Pairs) /\ UNCHANGED <<now, files, genkeys, made, held>>
      BY <1>4 DEF Stop
    <2> QED
      BY <2>4, <2>5, <2>6 DEF CheckStates, Stages, Reasons
  <1>5. ASSUME NEW c \in Checks, TryKey(c) PROVE TypeOK'
    BY <1>5, TryTyped
  <1>6. ASSUME NEW c \in Checks, NEW token \in Circulating, Arrive(c, token) PROVE TypeOK'
    <2>1. token \in Tokens
      BY CirculatingTyped
    <2>2. checks[c].next <= Len(ring) /\ checks[c].at = "waiting"
      BY <1>6 DEF Arrive, Waiting
    <2> DEFINE after == [checks[c] EXCEPT !.at = "trying", !.token = token]
    <2>3. checks[c] \in CheckStates
      BY DEF CheckStates, Stages, Reasons
    <2>4. after \in CheckStates /\ after.at = "trying" /\ after.token = token
            /\ after.next = checks[c].next
      BY <2>1, <2>3 DEF CheckStates, Stages
    <2>5. checks' = [checks EXCEPT ![c] = after]
      BY <1>6 DEF Arrive
    <2> HIDE DEF after
    <2>6. /\ checks' \in [Checks -> CheckStates]
          /\ \A d \in Checks :
               /\ checks'[d].at = "waiting" => checks'[d] = Waiting
               /\ checks'[d].at = "trying" =>
                    checks'[d].token \in Tokens /\ checks'[d].next <= Len(ring)
      BY <2>1, <2>2, <2>4, <2>5 DEF CheckStates, Stages, Reasons
    <2>7. UNCHANGED <<now, files, genkeys, made, held, ring>>
      BY <1>6 DEF Arrive
    <2> QED
      BY <2>6, <2>7 DEF CheckStates, Stages, Reasons
  <1>7. CASE Tick
    BY <1>7, KeyringAssumption DEF Tick
  <1>8. CASE UNCHANGED vars
    BY <1>8 DEF vars
  <1> QED
    BY <1>1, <1>2, <1>3, <1>4, <1>5, <1>6, <1>7, <1>8 DEF Next

\* The keyring's state keeps its types, and a check under way has a key left to try.
THEOREM KeyringTyped == Spec => []TypeOK
  BY InitTyped, NextTyped, PTL DEF Spec

-----------------------------------------------------------------------------
(***************************************************************************)
(* gen-keys.  The invariant says of each step of a run which files hold    *)
(* its pair already.                                                       *)
(***************************************************************************)
FilesInv ==
  /\ genkeys.step = "private" => files.public = genkeys.pair
  /\ genkeys.step = "token" =>
       files.public = genkeys.pair /\ files.private = genkeys.pair
  /\ FilesMatch

LEMMA InitFiles == Init => FilesInv
  BY DEF Init, FilesInv, FilesMatch, Succeeded

LEMMA NextFiles == TypeOK /\ FilesInv /\ [Next]_vars => FilesInv'
  <1> SUFFICES ASSUME TypeOK, FilesInv, [Next]_vars PROVE FilesInv'
    OBVIOUS
  <1> USE DEF FilesInv, FilesMatch, Succeeded
  <1>1. ASSUME NEW pair \in Pairs, GenerateKeyPair(pair) PROVE FilesInv'
    BY <1>1 DEF GenerateKeyPair
  <1>2. ASSUME NEW outcome \in WriteOutcomes, SaveFile(outcome) PROVE FilesInv'
    <2>1. outcome \in {"written", "failed", "torn"}
      BY KeyringAssumption
    <2>2. /\ genkeys.step \in {"public", "private", "token"}
          /\ files \in [{"public", "private", "token"} -> Pairs \cup {Missing, Torn}]
      BY <1>2 DEF SaveFile, TypeOK
    <2>3. CASE outcome = "written"
      BY <1>2, <2>2, <2>3 DEF SaveFile, Saved, Following
    <2>4. CASE outcome # "written"
      <3>1. genkeys' = [step |-> "idle", pair |-> Missing]
        BY <1>2, <2>4 DEF SaveFile, Saved
      <3> QED
        BY <3>1
    <2> QED
      BY <2>3, <2>4
  <1>3. CASE UNCHANGED <<files, genkeys>>
    BY <1>3
  <1> QED
    BY <1>1, <1>2, <1>3 DEF Next, vars, Start, Stop, TryKey, Arrive, Tick

(***************************************************************************)
(* Whatever writes failed before, a gen-keys that succeeds leaves a public *)
(* key, a private key and a token of the same pair.                        *)
(***************************************************************************)
THEOREM SuccessLeavesMatchingFiles == Spec => []FilesMatch
  <1>1. FilesInv => FilesMatch
    BY DEF FilesInv
  <1> QED
    BY <1>1, InitTyped, NextTyped, InitFiles, NextFiles, PTL DEF Spec

-----------------------------------------------------------------------------
(***************************************************************************)
(* The verification.  The invariant: none of the keys tried so far would   *)
(* accept the token now, and a token refused as expired is expired.        *)
(***************************************************************************)
Acceptable(token, time) == token.form = "sound" /\ ~Expired(token, time)

TriedInVain ==
  \A c \in Checks : checks[c].at = "trying" /\ Acceptable(checks[c].token, now) =>
    \A i \in 1 .. checks[c].next - 1 : ring[i] # checks[c].token.pair

ExpiredByNow ==
  \A c \in Checks :
    RefusedAsExpired(c) => checks[c].token \in Tokens /\ Expired(checks[c].token, now)

VerifyInv == TypeOK /\ TriedInVain /\ ExpiredByNow

LEMMA InitVerify == Init => VerifyInv
  <1> SUFFICES ASSUME Init PROVE VerifyInv
    OBVIOUS
  <1>1. TypeOK
    BY InitTyped
  <1>2. \A c \in Checks : checks[c].at = "waiting"
    BY DEF Init, Waiting
  <1> QED
    BY <1>1, <1>2 DEF VerifyInv, TriedInVain, ExpiredByNow, RefusedAsExpired

\* What the answers of one key mean.
LEMMA Answers ==
  ASSUME NEW key, NEW token \in Tokens, NEW time
  PROVE  /\ VerifyToken(key, token, time) = "accepted" <=>
              Acceptable(token, time) /\ token.pair = key
         /\ VerifyToken(key, token, time) = "expired" => Expired(token, time)
  BY TokensTyped DEF VerifyToken, Acceptable, Forms

LEMMA TickVerify ==
  ASSUME VerifyInv, Tick
  PROVE  VerifyInv'
  <1>1. TypeOK' /\ now \in Nat /\ now' = now + 1 /\ checks' = checks /\ ring' = ring
    BY NextTyped DEF VerifyInv, Tick, TypeOK, Next
  <1>2. ASSUME NEW token \in Tokens, Expired(token, now) PROVE Expired(token, now')
    BY <1>1, <1>2, ExpiryStays
  <1>3. ExpiredByNow'
    BY <1>1, <1>2 DEF VerifyInv, ExpiredByNow, RefusedAsExpired
  <1>4. \A c \in Checks : checks[c].at = "trying" => checks[c].token \in Tokens
    BY DEF VerifyInv, TypeOK
  <1>5. TriedInVain'
    BY <1>1, <1>2, <1>4 DEF VerifyInv, TriedInVain, Acceptable
  <1> QED
    BY <1>1, <1>3, <1>5 DEF VerifyInv

LEMMA TryVerify ==
  ASSUME VerifyInv, NEW c \in Checks, TryKey(c)
  PROVE  VerifyInv'
  <1> DEFINE token == checks[c].token
             next == checks[c].next
             result == VerifyToken(ring[next], token, now)
  <1>1. TypeOK /\ TypeOK'
    BY TryTyped DEF VerifyInv
  <1>2. /\ token \in Tokens /\ next \in 1 .. Len(ring) /\ checks[c].at = "trying"
        /\ checks'[c].token = token /\ checks'[c].next = next + 1
        /\ checks'[c].reason = result
        /\ checks'[c].at \in {"trying", "rejected"} => result # "accepted"
        /\ now' = now /\ ring' = ring
    BY <1>1, Tried
  <1>3. \A d \in Checks \ {c} : checks'[d] = checks[d]
    BY <1>1, Tried DEF TypeOK
  <1> HIDE DEF token, next, result
  <1>4. ASSUME checks'[c].at = "trying", Acceptable(token, now)
        PROVE  \A i \in 1 .. checks'[c].next - 1 : ring[i] # token.pair
    <2>1. ring[next] # token.pair
      BY <1>2, <1>4, Answers DEF result
    <2>2. \A i \in 1 .. next - 1 : ring[i] # token.pair
      BY <1>2, <1>4 DEF VerifyInv, TriedInVain, token, next
    <2> QED
      BY <1>2, <2>1, <2>2
  <1>5. TriedInVain'
    BY <1>2, <1>3, <1>4 DEF VerifyInv, TriedInVain, token, next
  <1>6. checks'[c].reason = "expired" => Expired(token, now)
    <2>1. result = "expired" => Expired(token, now)
      BY <1>2, Answers DEF result
    <2> QED
      BY <2>1, <1>2
  <1>7. ExpiredByNow'
    BY <1>2, <1>3, <1>6 DEF VerifyInv, ExpiredByNow, RefusedAsExpired
  <1> QED
    BY <1>1, <1>5, <1>7 DEF VerifyInv

LEMMA NextVerify == VerifyInv /\ [Next]_vars => VerifyInv'
  <1> SUFFICES ASSUME VerifyInv, [Next]_vars PROVE VerifyInv'
    OBVIOUS
  <1>1. TypeOK /\ TypeOK'
    BY NextTyped DEF VerifyInv
  <1>2. CASE UNCHANGED <<now, ring, checks>>
    BY <1>1, <1>2 DEF VerifyInv, TriedInVain, ExpiredByNow, RefusedAsExpired
  <1>3. ASSUME NEW parts \in Configurations, Start(parts) PROVE VerifyInv'
    <2>1. \A c \in Checks : checks[c].at # "trying"
      BY <1>1, <1>3 DEF Start, TypeOK
    <2> QED
      BY <1>1, <1>3, <2>1 DEF Start, VerifyInv, TriedInVain, ExpiredByNow, RefusedAsExpired
  <1>4. CASE Stop
    <2>1. \A c \in Checks : checks'[c].at # "trying"
      <3> SUFFICES ASSUME NEW c \in Checks PROVE checks'[c].at # "trying"
        OBVIOUS
      <3> DEFINE check == checks[c]
      <3>1. checks'[c] = IF check.at = "trying" THEN [check EXCEPT !.at = "dropped"] ELSE check
        BY <1>4 DEF Stop
      <3>2. check \in CheckStates
        BY <1>1 DEF TypeOK, CheckStates, Stages, Reasons
      <3> HIDE DEF check
      <3> QED
        BY <3>1, <3>2 DEF CheckStates
    <2>2. ASSUME NEW c \in Checks, RefusedAsExpired(c)' PROVE RefusedAsExpired(c) /\ checks'[c] = checks[c]
      <3> DEFINE check == checks[c]
      <3>1. checks'[c] = IF check.at = "trying" THEN [check EXCEPT !.at = "dropped"] ELSE check
        BY <1>4 DEF Stop
      <3>2. check \in CheckStates
        BY <1>1 DEF TypeOK, CheckStates, Stages, Reasons
      <3>3. checks'[c].at = "rejected" /\ checks'[c].reason = "expired"
        BY <2>2 DEF RefusedAsExpired
      <3> HIDE DEF check
      <3>4. checks'[c] = check
        BY <3>1, <3>2, <3>3 DEF CheckStates
      <3> QED
        BY <3>3, <3>4 DEF check, RefusedAsExpired
    <2>3. now' = now
      BY <1>4 DEF Stop
    <2>4. ExpiredByNow'
      BY <2>2, <2>3 DEF VerifyInv, ExpiredByNow
    <2> QED
      BY <1>1, <2>1, <2>4 DEF VerifyInv, TriedInVain
  <1>5. ASSUME NEW c \in Checks, TryKey(c) PROVE VerifyInv'
    BY <1>5, TryVerify
  <1>6. ASSUME NEW c \in Checks, NEW token \in Circulating, Arrive(c, token) PROVE VerifyInv'
    <2> DEFINE after == [checks[c] EXCEPT !.at = "trying", !.token = token]
    <2>1. checks[c] = Waiting /\ checks' = [checks EXCEPT ![c] = after]
            /\ now' = now /\ ring' = ring
      BY <1>6 DEF Arrive
    <2>2. after.at = "trying" /\ after.next = 1
      BY <2>1 DEF Waiting
    <2> HIDE DEF after
    <2>3. checks'[c] = after /\ \A d \in Checks \ {c} : checks'[d] = checks[d]
      BY <1>1, <2>1 DEF TypeOK
    <2>4. TriedInVain'
      BY <2>1, <2>2, <2>3 DEF VerifyInv, TriedInVain
    <2>5. ExpiredByNow'
      BY <2>1, <2>2, <2>3 DEF VerifyInv, ExpiredByNow, RefusedAsExpired
    <2> QED
      BY <1>1, <2>4, <2>5 DEF VerifyInv
  <1>7. CASE Tick
    BY <1>7, TickVerify
  <1> QED
    BY <1>2, <1>3, <1>4, <1>5, <1>6, <1>7 DEF Next, vars, GenerateKeyPair, SaveFile

(***************************************************************************)
(* A token refused as expired is never accepted later, whichever request   *)
(* carries it and whichever keys the process then has.                     *)
(***************************************************************************)
THEOREM RefusalIsFinal == Spec => ExpiryIsFinal
  <1> DEFINE Step == \A c, d \in Checks :
               RefusedAsExpired(c) /\ checks[d].at = "trying" /\ checks'[d].at = "accepted" =>
                 checks[c].token # checks[d].token
  <1>1. ASSUME VerifyInv, [Next]_vars PROVE [Step]_vars
    <2> SUFFICES ASSUME NEW c \in Checks, NEW d \in Checks, RefusedAsExpired(c),
                        checks[d].at = "trying", checks'[d].at = "accepted"
                 PROVE  checks[c].token # checks[d].token
      OBVIOUS
    <2>1. TypeOK
      BY <1>1 DEF VerifyInv
    <2>2. CASE TryKey(d)
      <3>1. checks[d].token \in Tokens
             /\ VerifyToken(ring[checks[d].next], checks[d].token, now) = "accepted"
        BY <2>1, <2>2, Tried
      <3>2. ~Expired(checks[d].token, now)
        BY <3>1, Answers DEF Acceptable
      <3> QED
        BY <1>1, <3>2 DEF VerifyInv, ExpiredByNow
    <2>3. CASE checks'[d] = checks[d]
      BY <2>3
    <2>4. CASE Stop
      <3> DEFINE check == checks[d]
      <3>1. checks'[d] = [check EXCEPT !.at = "dropped"]
        BY <2>4 DEF Stop
      <3>2. check \in CheckStates
        BY <2>1 DEF TypeOK, CheckStates, Stages, Reasons
      <3> HIDE DEF check
      <3>3. checks'[d].at = "dropped"
        BY <3>1, <3>2 DEF CheckStates
      <3> QED
        BY <3>3
    <2>5. ASSUME NEW e \in Checks \ {d}, TryKey(e) PROVE checks'[d] = checks[d]
      BY <2>1, <2>5, Tried DEF TypeOK
    <2>6. ASSUME NEW e \in Checks, NEW token \in Circulating, Arrive(e, token)
          PROVE  checks'[d] = checks[d]
      <3>1. e # d
        BY <2>6 DEF Arrive, Waiting
      <3> QED
        BY <2>1, <2>6, <3>1 DEF Arrive, TypeOK
    <2>7. CASE UNCHANGED checks
      BY <2>7
    <2> QED
      BY <1>1, <2>2, <2>3, <2>4, <2>5, <2>6, <2>7
      DEF Next, vars, GenerateKeyPair, SaveFile, Start, Tick
  <1> QED
    BY <1>1, InitVerify, NextVerify, PTL DEF Spec, ExpiryIsFinal

-----------------------------------------------------------------------------
(***************************************************************************)
(* The refinement.                                                         *)
(***************************************************************************)
Verdicts == [c \in Checks |-> [token |-> checks[c].token, verdict |-> VerdictOf(checks[c])]]

\* The last key's answer is the judgement of all keys at that instant.
LEMMA LastAnswer ==
  ASSUME VerifyInv, NEW c \in Checks, TryKey(c), checks'[c].at \in {"accepted", "rejected"}
  PROVE  VerdictOf(checks'[c]) = OneVerdict!Judgement(checks[c].token, Registered, now)
  <1> DEFINE token == checks[c].token
             next == checks[c].next
             result == VerifyToken(ring[next], token, now)
  <1>1. TypeOK
    BY DEF VerifyInv
  <1>2. /\ token \in Tokens /\ next \in 1 .. Len(ring) /\ checks[c].at = "trying"
        /\ checks'[c].at = IF result = "accepted" THEN "accepted"
                          ELSE IF next = Len(ring) THEN "rejected" ELSE "trying"
        /\ checks'[c].reason = result
    BY <1>1, Tried
  <1>3. Len(ring) \in Nat /\ token.form \in Forms
    BY <1>1, <1>2, TokensTyped DEF TypeOK
  <1> HIDE DEF token, next, result
  <1>4. VerdictOf(checks'[c]) = result
    BY <1>2 DEF VerdictOf
  <1>5. OneVerdict!Expired(token, now) <=> Expired(token, now)
    BY DEF OneVerdict!Expired, Expired
  <1>6. CASE result = "accepted"
    <2>1. Acceptable(token, now) /\ token.pair = ring[next]
      BY <1>2, <1>6, Answers DEF result
    <2>2. token.pair \in Registered
      BY <1>2, <2>1 DEF Registered
    <2>3. token.form = "sound" /\ ~Expired(token, now)
      BY <2>1 DEF Acceptable
    <2>4. OneVerdict!Judgement(token, Registered, now) = "accepted"
      BY <2>2, <2>3, <1>5 DEF OneVerdict!Judgement
    <2> QED
      BY <1>4, <1>6, <2>4 DEF token
  <1>7. CASE result # "accepted"
    <2>1. next = Len(ring)
      BY <1>2, <1>7
    <2>2. Acceptable(token, now) => token.pair \notin Registered
      <3> SUFFICES ASSUME Acceptable(token, now), NEW i \in 1 .. Len(ring)
                   PROVE  ring[i] # token.pair
        BY DEF Registered
      <3>1. CASE i = next
        BY <1>2, <1>7, <3>1, Answers DEF result
      <3>2. CASE i # next
        <4>1. i \in 1 .. next - 1
          BY <1>3, <2>1, <3>2
        <4> QED
          BY <1>2, <4>1 DEF VerifyInv, TriedInVain, token, next
      <3> QED
        BY <3>1, <3>2
    <2>3. CASE token.form = "illegible"
      BY <2>3, <1>4, <1>5 DEF OneVerdict!Judgement, VerifyToken, result, token
    <2>4. CASE token.form # "illegible" /\ Expired(token, now)
      BY <2>4, <1>4, <1>5 DEF OneVerdict!Judgement, VerifyToken, result, token
    <2>5. CASE token.form = "unsigned" /\ ~Expired(token, now)
      BY <2>5, <1>4, <1>5 DEF OneVerdict!Judgement, VerifyToken, result, token
    <2>6. CASE token.form = "reencoded" /\ ~Expired(token, now)
      BY <2>6, <1>4, <1>5 DEF OneVerdict!Judgement, VerifyToken, result, token
    <2>7. CASE token.form = "sound" /\ ~Expired(token, now)
      <3>1. token.pair \notin Registered
        BY <2>2, <2>7 DEF Acceptable
      <3>2. OneVerdict!Judgement(token, Registered, now) = "mismatch"
        BY <2>7, <3>1, <1>5 DEF OneVerdict!Judgement
      <3>3. result = "mismatch"
        BY <2>7, <1>7 DEF VerifyToken, result
      <3> QED
        BY <1>4, <3>2, <3>3 DEF token
    <2> QED
      BY <1>3, <2>3, <2>4, <2>5, <2>6, <2>7 DEF Forms
  <1> QED
    BY <1>6, <1>7

\* The verdict of each check, taken apart.
LEMMA VerdictsAre ==
  /\ \A c \in Checks : Verdicts[c] = [token |-> checks[c].token, verdict |-> VerdictOf(checks[c])]
  /\ Verdicts = [c \in Checks |-> Verdicts[c]]
  /\ \A c \in Checks :
       Verdicts'[c] = [token |-> checks'[c].token, verdict |-> VerdictOf(checks'[c])]
  /\ Verdicts' = [c \in Checks |-> Verdicts'[c]]
  BY DEF Verdicts, VerdictOf

\* When one check moves, one verdict may.
LEMMA OneMoves ==
  ASSUME NEW c \in Checks, \A d \in Checks \ {c} : checks'[d] = checks[d]
  PROVE  Verdicts' = [Verdicts EXCEPT ![c] =
           [token |-> checks'[c].token, verdict |-> VerdictOf(checks'[c])]]
  <1>1. \A d \in Checks \ {c} : Verdicts'[d] = Verdicts[d]
    <2> SUFFICES ASSUME NEW d \in Checks \ {c} PROVE Verdicts'[d] = Verdicts[d]
      OBVIOUS
    <2>1. checks'[d] = checks[d]
      OBVIOUS
    <2>2. VerdictOf(checks'[d]) = VerdictOf(checks[d])
      BY <2>1
    <2> QED
      BY <2>1, <2>2, VerdictsAre
  <1> DEFINE moved == [token |-> checks'[c].token, verdict |-> VerdictOf(checks'[c])]
  <1>2. Verdicts'[c] = moved
    BY VerdictsAre
  <1> HIDE DEF moved
  <1> QED
    BY <1>1, <1>2, VerdictsAre

\* The verdicts of the checks that are under way are the pending ones.
LEMMA Pending ==
  ASSUME TypeOK, NEW c \in Checks
  PROVE  /\ VerdictOf(checks[c]) = "pending" <=> checks[c].at = "trying"
         /\ checks[c].at = "trying" => Verdicts[c].verdict = "pending"
         /\ Verdicts[c].token = checks[c].token
  <1>1. checks[c] \in CheckStates
    BY DEF TypeOK, CheckStates, Stages, Reasons
  <1>2. checks[c].at \in Stages /\ checks[c].reason \in Reasons
    BY <1>1 DEF CheckStates
  <1>3. VerdictOf(checks[c]) = "pending" <=> checks[c].at = "trying"
    BY <1>2 DEF VerdictOf, Stages, Reasons, Forms
  <1> QED
    BY <1>3, VerdictsAre

LEMMA TryDecides ==
  ASSUME VerifyInv, NEW c \in Checks, TryKey(c)
  PROVE  [OneVerdict!Next]_(OneVerdict!checkVars)
  <1>1. TypeOK /\ TypeOK'
    BY TryTyped DEF VerifyInv
  <1>2. /\ \A d \in Checks \ {c} : checks'[d] = checks[d]
        /\ checks'[c].token = checks[c].token /\ checks[c].at = "trying"
        /\ checks'[c].at \in {"accepted", "rejected", "trying"}
        /\ now' = now /\ ring' = ring
    BY <1>1, Tried DEF TypeOK
  <1>3. Registered' = Registered
    BY <1>2 DEF Registered
  <1>4. Verdicts' = [Verdicts EXCEPT ![c] =
          [token |-> checks[c].token, verdict |-> VerdictOf(checks'[c])]]
    BY <1>2, OneMoves
  <1>5. Verdicts[c] = [token |-> checks[c].token, verdict |-> "pending"]
    BY <1>1, <1>2, Pending, VerdictsAre
  <1>6. CASE checks'[c].at = "trying"
    <2>1. VerdictOf(checks'[c]) = "pending"
      BY <1>6 DEF VerdictOf
    <2>2. Verdicts' = Verdicts
      BY <1>4, <1>5, <2>1, VerdictsAre
    <2> QED
      BY <1>2, <1>3, <2>2 DEF OneVerdict!checkVars, Verdicts
  <1>7. CASE checks'[c].at \in {"accepted", "rejected"}
    <2> DEFINE judgement == OneVerdict!Judgement(checks[c].token, Registered, now)
    <2>1. VerdictOf(checks'[c]) = judgement
      BY <1>7, LastAnswer
    <2> HIDE DEF judgement
    <2>2. Verdicts' = [Verdicts EXCEPT ![c].verdict = judgement]
      BY <1>4, <1>5, <2>1, VerdictsAre
    <2>3. OneVerdict!Judgement(Verdicts[c].token, Registered, now) = judgement
      BY <1>5 DEF judgement
    <2>4. OneVerdict!Decide(c)
      BY <1>2, <1>3, <1>5, <2>2, <2>3 DEF OneVerdict!Decide, Verdicts
    <2> QED
      BY <2>4 DEF OneVerdict!Next
  <1> QED
    BY <1>2, <1>6, <1>7

LEMMA ArriveAsks ==
  ASSUME VerifyInv, NEW c \in Checks, NEW token \in Circulating, Arrive(c, token)
  PROVE  OneVerdict!Next
  <1>1. TypeOK /\ token \in Tokens
    BY CirculatingTyped DEF VerifyInv
  <1> DEFINE after == [checks[c] EXCEPT !.at = "trying", !.token = token]
  <1>2. checks[c] = Waiting /\ checks' = [checks EXCEPT ![c] = after]
          /\ now' = now /\ ring' = ring
    BY DEF Arrive
  <1>3. after.at = "trying" /\ after.token = token
    BY <1>2 DEF Waiting
  <1> HIDE DEF after
  <1>4. checks'[c] = after /\ \A d \in Checks \ {c} : checks'[d] = checks[d]
    BY <1>1, <1>2 DEF TypeOK
  <1>5. VerdictOf(checks'[c]) = "pending"
    BY <1>3, <1>4 DEF VerdictOf
  <1>6. Verdicts' = [Verdicts EXCEPT ![c] = [token |-> token, verdict |-> "pending"]]
    BY <1>3, <1>4, <1>5, OneMoves
  <1>7. Verdicts[c] = OneVerdict!Unasked
    BY <1>2, VerdictsAre DEF Waiting, VerdictOf, OneVerdict!Unasked
  <1>8. Registered' = Registered
    BY <1>2 DEF Registered
  <1>9. OneVerdict!Ask(c, token)
    BY <1>2, <1>6, <1>7, <1>8 DEF OneVerdict!Ask, Verdicts
  <1> QED
    BY <1>1, <1>9 DEF OneVerdict!Next

\* A step that sets the keys and drops the checks under way.
LEMMA Configures ==
  ASSUME TypeOK, ring' \in Seq(Pairs), now' = now,
         \A c \in Checks :
           /\ checks[c].at = "trying" =>
                checks'[c].token = checks[c].token /\ checks'[c].at = "dropped"
           /\ checks[c].at # "trying" => checks'[c] = checks[c]
  PROVE  OneVerdict!Next
  <1>1. Registered' \in SUBSET Pairs
    BY DEF Registered
  <1>2. ASSUME NEW c \in Checks
        PROVE  Verdicts'[c] = IF Verdicts[c].verdict = "pending"
                                THEN [token |-> Verdicts[c].token, verdict |-> "dropped"]
                                ELSE Verdicts[c]
    <2>1. CASE checks[c].at = "trying"
      <3>1. VerdictOf(checks'[c]) = "dropped"
        BY <2>1 DEF VerdictOf
      <3> QED
        BY <2>1, <3>1, Pending, VerdictsAre
    <2>2. CASE checks[c].at # "trying"
      <3>1. VerdictOf(checks[c]) # "pending" /\ checks'[c] = checks[c]
        BY <2>2, Pending
      <3>2. VerdictOf(checks'[c]) = VerdictOf(checks[c])
        BY <3>1
      <3> QED
        BY <3>1, <3>2, VerdictsAre
    <2> QED
      BY <2>1, <2>2
  <1>3. Verdicts' = [c \in Checks |->
          IF Verdicts[c].verdict = "pending"
            THEN [token |-> Verdicts[c].token, verdict |-> "dropped"] ELSE Verdicts[c]]
    BY <1>2, VerdictsAre
  <1>4. OneVerdict!Configure
    BY <1>1, <1>3 DEF OneVerdict!Configure, Verdicts
  <1> QED
    BY <1>4 DEF OneVerdict!Next

LEMMA NextImplements ==
  VerifyInv /\ [Next]_vars => [OneVerdict!Next]_(OneVerdict!checkVars)
  <1> SUFFICES ASSUME VerifyInv, [Next]_vars
               PROVE  [OneVerdict!Next]_(OneVerdict!checkVars)
    OBVIOUS
  <1>1. TypeOK /\ TypeOK'
    BY NextTyped DEF VerifyInv
  <1>2. CASE UNCHANGED <<now, ring, checks>>
    <2>1. Registered' = Registered /\ Verdicts' = Verdicts
      BY <1>2 DEF Registered, Verdicts, VerdictOf
    <2> QED
      BY <1>2, <2>1 DEF OneVerdict!checkVars, Verdicts
  <1>3. ASSUME NEW parts \in Configurations, Start(parts) PROVE OneVerdict!Next
    <2>1. \A c \in Checks : checks[c].at # "trying"
      BY <1>1, <1>3 DEF Start, TypeOK
    <2> QED
      BY <1>1, <1>3, <2>1, Configures DEF Start, TypeOK
  <1>4. CASE Stop
    <2>1. ASSUME NEW c \in Checks
          PROVE  /\ checks[c].at = "trying" =>
                      checks'[c].token = checks[c].token /\ checks'[c].at = "dropped"
                 /\ checks[c].at # "trying" => checks'[c] = checks[c]
      <3> DEFINE check == checks[c]
      <3>1. checks'[c] = IF check.at = "trying" THEN [check EXCEPT !.at = "dropped"] ELSE check
        BY <1>4 DEF Stop
      <3>2. check \in CheckStates
        BY <1>1 DEF TypeOK, CheckStates, Stages, Reasons
      <3> HIDE DEF check
      <3>3. check.at = "trying" => checks'[c].token = check.token /\ checks'[c].at = "dropped"
        BY <3>1, <3>2 DEF CheckStates
      <3>4. check.at # "trying" => checks'[c] = check
        BY <3>1
      <3> QED
        BY <3>3, <3>4 DEF check
    <2>2. ring' \in Seq(Pairs) /\ now' = now
      BY <1>1, <1>4 DEF Stop, TypeOK
    <2> QED
      BY <1>1, <2>1, <2>2, Configures
  <1>5. CASE Tick
    <2>1. Registered' = Registered /\ Verdicts' = Verdicts /\ now' = now + 1
      BY <1>5 DEF Tick, Registered, Verdicts, VerdictOf
    <2>2. OneVerdict!Pass
      BY <2>1 DEF OneVerdict!Pass, Verdicts
    <2> QED
      BY <2>2 DEF OneVerdict!Next
  <1>6. ASSUME NEW c \in Checks, NEW token \in Circulating, Arrive(c, token)
        PROVE  OneVerdict!Next
    BY <1>6, ArriveAsks
  <1>7. ASSUME NEW c \in Checks, TryKey(c)
        PROVE  [OneVerdict!Next]_(OneVerdict!checkVars)
    BY <1>7, TryDecides
  <1> QED
    BY <1>2, <1>3, <1>4, <1>5, <1>6, <1>7 DEF Next, vars, GenerateKeyPair, SaveFile

LEMMA InitImplements == Init => OneVerdict!Init
  <1> SUFFICES ASSUME Init PROVE OneVerdict!Init
    OBVIOUS
  <1>1. \A c \in Checks : checks[c] = Waiting
    BY DEF Init
  <1>2. Verdicts = [c \in Checks |-> OneVerdict!Unasked]
    BY <1>1, VerdictsAre DEF Waiting, VerdictOf, OneVerdict!Unasked
  <1>3. Registered = {}
    BY DEF Init, Registered
  <1> QED
    BY <1>2, <1>3 DEF OneVerdict!Init, Verdicts, Init

(***************************************************************************)
(* The keyring, which reads the clock once per key and reports the last    *)
(* key's reason, implements a judgement at one instant against all keys.   *)
(***************************************************************************)
THEOREM KeyringImplementsTokenCheck == Spec => ImplementsTokenCheck
  BY InitVerify, NextVerify, InitImplements, NextImplements, PTL
  DEF Spec, ImplementsTokenCheck, OneVerdict!Spec
=============================================================================
