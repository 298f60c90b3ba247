------------------------- MODULE PolicyStoreProofs -------------------------
(***************************************************************************)
(* Proofs about the policy store, for any rules and any write outcomes.    *)
(***************************************************************************)
EXTENDS PolicyStore, CollectionProofs, TLAPS

\* What the file and the last response guarantee together.
FileSound == FileBoots /\ SuccessIsWhole

LEMMA InitSound == Init => FileSound
  BY PolicyAssumption DEF Init, FileSound, FileBoots, SuccessIsWhole

\* Whatever os.WriteFile leaves behind, the file is bootable or torn.
LEMMA SavedSound ==
  ASSUME FileSound, NEW id, NEW failure, failure # 200,
         SaveLocked(policy', id, failure)
  PROVE  FileSound'
  <1>1. ASSUME Valid(policy'), NEW outcome \in WriteOutcomes,
               file' = Written(outcome, policy'),
               status' = IF outcome = "written" THEN 200 ELSE failure
        PROVE  FileSound'
    <2>1. outcome \in {"written", "failed", "torn", "late"}
      BY PolicyAssumption
    <2>2. file' \in {policy', file, Torn}
      BY <1>1, <2>1 DEF Written
    <2>3. FileBoots'
      BY <1>1, <2>2 DEF FileSound, FileBoots
    <2>4. SuccessIsWhole'
      BY <1>1 DEF SuccessIsWhole, Written
    <2> QED
      BY <2>3, <2>4 DEF FileSound
  <1>2. CASE ~Valid(policy')
    BY <1>2 DEF SaveLocked, FileSound, FileBoots, SuccessIsWhole
  <1> QED
    BY <1>1, <1>2 DEF SaveLocked

LEMMA StepSound == FileSound /\ [Next]_vars => FileSound'
  <1> SUFFICES ASSUME FileSound, [Next]_vars PROVE FileSound'
    OBVIOUS
  <1>1. ASSUME NEW rule \in Rules, Post(rule) PROVE FileSound'
    BY <1>1, SavedSound DEF Post
  <1>2. CASE BadRequest
    BY <1>2 DEF BadRequest, FileSound, FileBoots, SuccessIsWhole
  <1>3. ASSUME NEW id \in IDs, Delete(id) PROVE FileSound'
    <2>1. CASE Holds(policy, id)
      BY <1>3, <2>1, SavedSound DEF Delete
    <2>2. CASE ~Holds(policy, id)
      BY <1>3, <2>2 DEF Delete, FileSound, FileBoots, SuccessIsWhole
    <2> QED
      BY <2>1, <2>2
  <1>4. CASE Crash
    BY <1>4 DEF Crash, FileSound, FileBoots, SuccessIsWhole
  <1>5. CASE Restart
    BY <1>5 DEF Restart, FileSound, FileBoots, SuccessIsWhole
  <1>6. CASE UNCHANGED vars
    BY <1>6 DEF vars, FileSound, FileBoots, SuccessIsWhole
  <1> QED
    BY <1>1, <1>2, <1>3, <1>4, <1>5, <1>6 DEF Next

(***************************************************************************)
(* No admin request makes the file one that the next start refuses, as     *)
(* long as no write is torn.                                               *)
(***************************************************************************)
THEOREM FileAlwaysBoots == Spec => []FileBoots
  <1>1. FileSound => FileBoots
    BY DEF FileSound
  <1> QED
    BY <1>1, InitSound, StepSound, PTL DEF Spec

(***************************************************************************)
(* A 200 means that the file holds the whole policy that is live.          *)
(***************************************************************************)
THEOREM SuccessIsDurable == Spec => []SuccessIsWhole
  <1>1. FileSound => SuccessIsWhole
    BY DEF FileSound
  <1> QED
    BY <1>1, InitSound, StepSound, PTL DEF Spec

-----------------------------------------------------------------------------
(***************************************************************************)
(* The store's state keeps its types, the live ids stay unique, and a      *)
(* promise is kept by the file and by the live policy: a request changes   *)
(* the rule of no other id, in neither of them.                            *)
(***************************************************************************)
Kept(rules) ==
  \A id \in IDs : promised[id] # Unknown => Lookup(rules, id) = promised[id]

StoreInv ==
  /\ TypeOK
  /\ FileBoots
  /\ LiveIdsUnique
  /\ AcknowledgedSticks
  /\ up => Kept(policy)

LEMMA LookupTyped ==
  ASSUME NEW rules \in Seq(Rules), IdsUnique(rules), NEW id
  PROVE  Lookup(rules, id) \in Rules \cup {Missing}
  BY PositionOf DEF Lookup

LEMMA InitStore == Init => StoreInv
  <1> SUFFICES ASSUME Init PROVE StoreInv
    OBVIOUS
  <1>1. FirstPolicy \in Seq(Rules) /\ IdsUnique(FirstPolicy) /\ Valid(FirstPolicy)
    BY PolicyAssumption DEF Valid
  <1>2. TypeOK
    BY <1>1, LookupTyped DEF Init, TypeOK
  <1> QED
    BY <1>1, <1>2 DEF Init, StoreInv, FileBoots, LiveIdsUnique, AcknowledgedSticks, Kept

\* A change of one rule, saved or not.
LEMMA SavedStore ==
  ASSUME StoreInv, up, up', NEW id \in IDs, NEW failure \in {404, 500},
         policy' \in Seq(Rules), IdsUnique(policy'),
         \A other : other # id => Lookup(policy', other) = Lookup(policy, other),
         SaveLocked(policy', id, failure)
  PROVE  StoreInv'
  <1>1. /\ file' \in {policy', file, Torn}
        /\ file' = policy' => Valid(policy') \/ file' = file
        /\ promised' \in {[promised EXCEPT ![id] = Lookup(policy', id)],
                          [promised EXCEPT ![id] = Unknown]}
        /\ promised' = [promised EXCEPT ![id] = Lookup(policy', id)] =>
             file' = policy' \/ promised' = [promised EXCEPT ![id] = Unknown]
        /\ status' \in {200, failure}
    BY PolicyAssumption DEF SaveLocked, Written
  <1> DEFINE promise == promised'[id]
  <1>2. /\ DOMAIN promised = IDs /\ promised' = [promised EXCEPT ![id] = promise]
        /\ promise \in {Lookup(policy', id), Unknown}
        /\ promise # Unknown => file' = policy'
    BY <1>1 DEF StoreInv, TypeOK
  <1> HIDE DEF promise
  <1>3. \A other \in IDs \ {id} : promised'[other] = promised[other]
    BY <1>2
  <1>4. TypeOK'
    <2>1. promised' \in [IDs -> Rules \cup {Missing, Unknown}]
      BY <1>2, LookupTyped DEF StoreInv, TypeOK
    <2> QED
      BY <1>1, <2>1 DEF StoreInv, TypeOK
  <1>5. FileBoots'
    BY <1>1 DEF StoreInv, FileBoots
  <1>6. LiveIdsUnique'
    BY DEF LiveIdsUnique
  <1>7. \A other \in IDs : promised'[other] # Unknown => Lookup(policy', other) = promised'[other]
    BY <1>2, <1>3 DEF StoreInv, Kept, promise
  <1>8. AcknowledgedSticks'
    <2> SUFFICES ASSUME file' # Torn, NEW other \in IDs, promised'[other] # Unknown
                 PROVE  Lookup(file', other) = promised'[other]
      BY DEF AcknowledgedSticks
    <2>1. CASE file' = policy'
      BY <1>7, <2>1
    <2>2. CASE file' = file /\ other # id
      BY <1>3, <2>2 DEF StoreInv, AcknowledgedSticks
    <2>3. CASE other = id
      BY <1>2, <1>7, <2>3 DEF promise
    <2> QED
      BY <1>1, <2>1, <2>2, <2>3
  <1> QED
    BY <1>4, <1>5, <1>6, <1>7, <1>8 DEF StoreInv, Kept

LEMMA StepStore == StoreInv /\ [Next]_vars => StoreInv'
  <1> SUFFICES ASSUME StoreInv, [Next]_vars PROVE StoreInv'
    OBVIOUS
  <1> USE DEF StoreInv
  <1>0. policy \in Seq(Rules) /\ IdsUnique(policy)
    BY DEF TypeOK, LiveIdsUnique
  <1>1. ASSUME NEW rule \in Rules, Post(rule) PROVE StoreInv'
    <2>1. rule.ruleID \in IDs
      BY DEF Rules
    <2>2. /\ policy' \in Seq(Rules) /\ IdsUnique(policy')
          /\ \A other : other # rule.ruleID => Lookup(policy', other) = Lookup(policy, other)
      BY <1>0, <1>1, UpsertKeeps DEF Post
    <2> QED
      BY <1>1, <2>1, <2>2, SavedStore DEF Post
  <1>2. CASE BadRequest
    BY <1>2 DEF BadRequest, TypeOK, FileBoots, LiveIdsUnique, AcknowledgedSticks, Kept
  <1>3. ASSUME NEW id \in IDs, Delete(id) PROVE StoreInv'
    <2>1. CASE Holds(policy, id)
      <3>1. /\ policy' \in Seq(Rules) /\ IdsUnique(policy')
            /\ \A other : other # id => Lookup(policy', other) = Lookup(policy, other)
        BY <1>0, <1>3, <2>1, WithoutKeeps DEF Delete
      <3> QED
        BY <1>3, <2>1, <3>1, SavedStore DEF Delete
    <2>2. CASE ~Holds(policy, id)
      BY <1>3, <2>2 DEF Delete, TypeOK, FileBoots, LiveIdsUnique, AcknowledgedSticks, Kept
    <2> QED
      BY <2>1, <2>2
  <1>4. CASE Crash
    <2>1. /\ policy' = <<>> /\ file' = file /\ promised' = promised /\ status' = 0
          /\ up' \in BOOLEAN /\ ~up'
      BY <1>4 DEF Crash
    <2>2. TypeOK'
      BY <2>1 DEF TypeOK
    <2>3. LiveIdsUnique'
      BY <2>1 DEF LiveIdsUnique, IdsUnique
    <2>4. FileBoots' /\ AcknowledgedSticks'
      BY <2>1 DEF FileBoots, AcknowledgedSticks
    <2> QED
      BY <2>1, <2>2, <2>3, <2>4
  <1>5. CASE Restart
    BY <1>5 DEF Restart, Valid, TypeOK, FileBoots, LiveIdsUnique, AcknowledgedSticks, Kept
  <1>6. CASE UNCHANGED vars
    BY <1>6 DEF vars, TypeOK, FileBoots, LiveIdsUnique, AcknowledgedSticks, Kept
  <1> QED
    BY <1>1, <1>2, <1>3, <1>4, <1>5, <1>6 DEF Next

LEMMA StoreInvariant == Spec => []StoreInv
  BY InitStore, StepStore, PTL DEF Spec

(***************************************************************************)
(* The live policy, the file and the promises keep their types, through    *)
(* every admin request, failed write and restart.                          *)
(***************************************************************************)
THEOREM StoreTyped == Spec => []TypeOK
  <1>1. StoreInv => TypeOK
    BY DEF StoreInv
  <1> QED
    BY <1>1, StoreInvariant, PTL

(***************************************************************************)
(* Two live rules never share an id, even where a request failed to        *)
(* validate or to save what it had already put into the live policy.       *)
(***************************************************************************)
THEOREM LiveIdsStayUnique == Spec => []LiveIdsUnique
  <1>1. StoreInv => LiveIdsUnique
    BY DEF StoreInv
  <1> QED
    BY <1>1, StoreInvariant, PTL

(***************************************************************************)
(* An acknowledged change stays in the file until the next change of the   *)
(* same rule, unless a write of the file is torn.                          *)
(***************************************************************************)
THEOREM AcknowledgedChangesStick == Spec => []AcknowledgedSticks
  <1>1. StoreInv => AcknowledgedSticks
    BY DEF StoreInv
  <1> QED
    BY <1>1, StoreInvariant, PTL
=============================================================================
