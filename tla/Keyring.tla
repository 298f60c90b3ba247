------------------------------ MODULE Keyring ------------------------------
(***************************************************************************)
(* internal/token's Keyring, and where its keys and tokens come from.      *)
(* "gatra gen-keys" generates a key pair and writes its public key, its    *)
(* private key and a token, one file after the other; issuers who hold a   *)
(* private key mint more; "gatra start" loads the keys it is configured    *)
(* with, some from files; each request's token is then tried with one key  *)
(* after the other, and every try reads the clock.                         *)
(*                                                                         *)
(* Ed25519 is ideal: a signature verifies with one public key only, over   *)
(* the very bytes that were signed.  The clock does not step back.         *)
(***************************************************************************)
EXTENDS Integers, Sequences

CONSTANTS Pairs,           \* key pairs, each generated at most once
          Checks,          \* the verifications of a run
          Lifetimes,       \* --ttl and its likes, in seconds
          Forever,         \* the lifetime of a token without "exp"
          Arriving,        \* the forms in which tokens arrive
          KeyFile,         \* a --public-key part that names the public key file
          Configurations,  \* the lists of parts the operator may start with
          WriteOutcomes,   \* of os.WriteFile: "written", "failed", "torn"
          NoToken,         \* a check that has not been asked
          Missing,         \* the content of no file
          Torn,            \* the content of a torn file
          MaxTime          \* bound on the clock

\* MintToken at some instant: the claims' expiry and the signature's key; form is what
\* is left of it when it arrives.
MintToken(pair, time, lifetime, form) ==
  [pair |-> pair, form |-> form,
   expires |-> IF lifetime = Forever THEN 0 ELSE time + lifetime]

\* "sound": everything decodes, and the signed bytes are Go's encoding of the claims.
\* "illegible": no base64, or no JSON in it.  "unsigned": a signature that is no base64.
\* "reencoded": signed over other bytes than Go's encoding of the claims.
Forms == {"sound", "illegible", "unsigned", "reencoded"}

Tokens == {MintToken(pair, t, lifetime, form) :
             pair \in Pairs, t \in 1 .. MaxTime, lifetime \in Lifetimes, form \in Forms}

ASSUME KeyringAssumption ==
  /\ MaxTime \in Nat \ {0}
  /\ Lifetimes \subseteq Nat \cup {Forever}
  /\ Forever \notin Nat
  /\ Arriving \subseteq Forms
  /\ Configurations \subseteq Seq(Pairs \cup {KeyFile})
  /\ WriteOutcomes \subseteq {"written", "failed", "torn"}
  /\ {KeyFile, Missing, Torn} \cap Pairs = {}

VARIABLES
  now,       \* time.Now().Unix()
  files,     \* the three files gen-keys writes; a token by the pair that signed it
  genkeys,   \* the running gen-keys: the file it writes next, and its pair
  made,      \* the pairs generated so far
  held,      \* the pairs whose private key somebody has
  ring,      \* Keyring.keys; empty while the process is down
  checks     \* the local state of each Keyring.VerifyToken

vars == <<now, files, genkeys, made, held, ring, checks>>

Waiting == [at |-> "waiting", token |-> NoToken, next |-> 1, reason |-> "none"]

Init ==
  /\ now = 1
  /\ files = [file \in {"public", "private", "token"} |-> Missing]
  /\ genkeys = [step |-> "idle", pair |-> Missing]
  /\ made = {}
  /\ held = {}
  /\ ring = <<>>
  /\ checks = [c \in Checks |-> Waiting]

-----------------------------------------------------------------------------
(***************************************************************************)
(* gatra gen-keys, with all of its three --...-out flags.                  *)
(***************************************************************************)
GenerateKeyPair(pair) ==
  /\ genkeys.step = "idle"
  /\ pair \notin made
  /\ made' = made \cup {pair}
  /\ genkeys' = [step |-> "public", pair |-> pair]
  /\ UNCHANGED <<now, files, held, ring, checks>>

Following(step) ==
  CASE step = "public" -> "private"
    [] step = "private" -> "token"
    [] step = "token" -> "idle"

\* A plausible slip of Saved: the error of a write is dropped, as the engine drops that
\* of SaveTrajectory.
SavedIgnoringErrors(outcome, pair) == [step |-> Following(genkeys.step), pair |-> pair]

\* Where gen-keys stands after a write: it exits with status 1 at the first that fails.
Saved(outcome, pair) ==
  IF outcome = "written" THEN [step |-> Following(genkeys.step), pair |-> pair]
  ELSE [step |-> "idle", pair |-> Missing]

\* The next file is written: a key, or a token minted with the new private key.
SaveFile(outcome) ==
  /\ genkeys.step # "idle"
  /\ files' = [files EXCEPT ![genkeys.step] = CASE outcome = "written" -> genkeys.pair
                                               [] outcome = "torn" -> Torn
                                               [] outcome = "failed" -> @]
  /\ genkeys' = Saved(outcome, genkeys.pair)
  /\ held' = IF genkeys.step = "private" /\ outcome = "written"
               THEN held \cup {genkeys.pair} ELSE held
  /\ UNCHANGED <<now, made, ring, checks>>

-----------------------------------------------------------------------------
(***************************************************************************)
(* gatra start, and its end.                                               *)
(***************************************************************************)
\* LoadPublicKey: the content of the key file, or the key itself.
LoadPublicKey(part) == IF part = KeyFile THEN files.public ELSE part

\* A plausible slip of NewKeyring: what is decoded from a file is not checked for its size.
NewKeyringUnsized(parts) ==
  /\ parts # <<>>
  /\ \A i \in 1 .. Len(parts) : LoadPublicKey(parts[i]) # Missing
  /\ ring' = [i \in 1 .. Len(parts) |-> LoadPublicKey(parts[i])]

\* NewKeyring: any part that is no key, or none at all, and the process exits.
NewKeyring(parts) ==
  /\ parts # <<>>
  /\ \A i \in 1 .. Len(parts) : LoadPublicKey(parts[i]) \in Pairs
  /\ ring' = [i \in 1 .. Len(parts) |-> LoadPublicKey(parts[i])]

Start(parts) ==
  /\ ring = <<>>
  /\ NewKeyring(parts)
  /\ UNCHANGED <<now, files, genkeys, made, held, checks>>

\* The process ends; the checks under way get no answer.
Stop ==
  /\ ring # <<>>
  /\ ring' = <<>>
  /\ checks' = [c \in Checks |->
       IF checks[c].at = "trying" THEN [checks[c] EXCEPT !.at = "dropped"] ELSE checks[c]]
  /\ UNCHANGED <<now, files, genkeys, made, held>>

-----------------------------------------------------------------------------
(***************************************************************************)
(* Keyring.VerifyToken.                                                    *)
(***************************************************************************)
\* The tokens minted by now with a key somebody holds, whole or damaged on the way; an
\* issuer's clock may be behind.
Circulating ==
  {MintToken(pair, t, lifetime, form) :
     pair \in held, t \in 1 .. now, lifetime \in Lifetimes, form \in Arriving}

Expired(token, time) == token.expires > 0 /\ time > token.expires

\* A plausible slip of VerifyToken: the signature is verified before the expiry.
VerifySignatureFirst(key, token, time) ==
  CASE token.form \in {"illegible", "unsigned"} -> token.form
    [] token.form = "reencoded" \/ (token.form = "sound" /\ token.pair # key) -> "mismatch"
    [] OTHER -> IF Expired(token, time) THEN "expired" ELSE "accepted"

\* VerifyToken with one key: the steps in their order, and the first that fails.
VerifyToken(key, token, time) ==
  IF token.form = "illegible" THEN "illegible"
  ELSE IF Expired(token, time) THEN "expired"
  ELSE IF token.form = "unsigned" THEN "unsigned"
  ELSE IF token.form = "sound" /\ token.pair = key THEN "accepted"
  ELSE "mismatch"

Arrive(c, token) ==
  /\ ring # <<>>
  /\ checks[c] = Waiting
  /\ checks' = [checks EXCEPT ![c].at = "trying", ![c].token = token]
  /\ UNCHANGED <<now, files, genkeys, made, held, ring>>

\* A plausible slip of TimeOf: the clock is read for the first key only, and the later
\* keys are not asked about the expiry.
TimeOfFirstTry(c) == IF checks[c].next = 1 THEN now ELSE 0

\* The instant at which a try reads the clock.
TimeOf(c) == now

\* One turn of the loop.  lastErr is the reason of the last key.
TryKey(c) ==
  LET check == checks[c]
      result == VerifyToken(ring[check.next], check.token, TimeOf(c))
  IN  /\ check.at = "trying"
      /\ checks' = [checks EXCEPT
           ![c].at = IF result = "accepted" THEN "accepted"
                     ELSE IF check.next = Len(ring) THEN "rejected" ELSE "trying",
           ![c].next = check.next + 1,
           ![c].reason = result]
      /\ UNCHANGED <<now, files, genkeys, made, held, ring>>

Tick ==
  /\ now < MaxTime
  /\ now' = now + 1
  /\ UNCHANGED <<files, genkeys, made, held, ring, checks>>

Next ==
  \/ \E pair \in Pairs : GenerateKeyPair(pair)
  \/ \E outcome \in WriteOutcomes : SaveFile(outcome)
  \/ \E parts \in Configurations : Start(parts)
  \/ Stop
  \/ \E c \in Checks : TryKey(c) \/ \E token \in Circulating : Arrive(c, token)
  \/ Tick

Spec == Init /\ [][Next]_vars

-----------------------------------------------------------------------------
(***************************************************************************)
(* A token has one verdict, as if it were judged at one instant against    *)
(* all keys at once: although every key reads the clock again and the      *)
(* error is the last key's, a valid token is never refused, and the reason *)
(* of a refusal is the token's own, not the order of the keys'.            *)
(***************************************************************************)
Registered == {ring[i] : i \in 1 .. Len(ring)}

VerdictOf(check) ==
  CASE check.at = "waiting" -> "none"
    [] check.at = "trying" -> "pending"
    [] check.at = "rejected" -> check.reason
    [] check.at \in {"accepted", "dropped"} -> check.at

OneVerdict == INSTANCE TokenCheck WITH
  keys <- Registered,
  verdicts <- [c \in Checks |-> [token |-> checks[c].token, verdict |-> VerdictOf(checks[c])]]

ImplementsTokenCheck == OneVerdict!Spec

(***************************************************************************)
(* A token that was refused as expired is never accepted after that, not   *)
(* by a request that arrived before, nor by a process with other keys.     *)
(***************************************************************************)
RefusedAsExpired(c) == checks[c].at = "rejected" /\ checks[c].reason = "expired"

ExpiryIsFinal ==
  [][\A c, d \in Checks :
       RefusedAsExpired(c) /\ checks[d].at = "trying" /\ checks'[d].at = "accepted" =>
         checks[c].token # checks[d].token]_vars

(***************************************************************************)
(* After a gen-keys that succeeded, and whatever runs failed before it,    *)
(* the three files belong together: a process that loads the public key    *)
(* file verifies the token in its file, and what the private key signs.    *)
(***************************************************************************)
Succeeded == genkeys.step = "idle" /\ genkeys.pair # Missing

FilesMatch ==
  Succeeded =>
    files.public = genkeys.pair /\ files.private = genkeys.pair /\ files.token = genkeys.pair

(***************************************************************************)
(* The types of the state; a check under way has a key left to try, and a  *)
(* process to try it.                                                      *)
(***************************************************************************)
TypeOK ==
  /\ now \in 1 .. MaxTime
  /\ files \in [{"public", "private", "token"} -> Pairs \cup {Missing, Torn}]
  /\ genkeys \in [step : {"idle", "public", "private", "token"}, pair : Pairs \cup {Missing}]
  /\ genkeys.step # "idle" => genkeys.pair \in made
  /\ held \subseteq made /\ made \subseteq Pairs
  /\ ring \in Seq(Pairs)
  /\ checks \in [Checks -> [at : {"waiting", "trying", "accepted", "rejected", "dropped"},
                              token : Tokens \cup {NoToken}, next : Nat \ {0},
                              reason : Forms \cup {"none", "accepted", "expired", "mismatch"}]]
  /\ \A c \in Checks :
       /\ checks[c].at = "waiting" => checks[c] = Waiting
       /\ checks[c].at = "trying" => checks[c].token \in Tokens /\ checks[c].next <= Len(ring)
=============================================================================
