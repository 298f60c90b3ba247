--------------------------- MODULE CollectionProofs ---------------------------
(***************************************************************************)
(* Lemmas about the collections that several modules keep: lists of rules, *)
(* and the sums over finite sets that a ledger is compared with.           *)
(***************************************************************************)
EXTENDS RuleList, FiniteSetsExt, FiniteSetTheorems, TLAPS

-----------------------------------------------------------------------------
(***************************************************************************)
(* The list of rules: ids that are unique stay unique, and a change of one *)
(* rule is not seen by a lookup of another.                                *)
(***************************************************************************)
LEMMA PositionOf ==
  ASSUME NEW S, NEW rules \in Seq(S), IdsUnique(rules), NEW id, Holds(rules, id)
  PROVE  /\ Position(rules, id) \in 1 .. Len(rules)
         /\ rules[Position(rules, id)].ruleID = id
         /\ \A i \in 1 .. Len(rules) : rules[i].ruleID = id => i = Position(rules, id)
  <1>1. PICK i \in 1 .. Len(rules) : rules[i].ruleID = id
    BY DEF Holds
  <1>2. \A j \in 1 .. i - 1 : rules[j].ruleID # id
    BY <1>1 DEF IdsUnique
  <1>3. \E k \in 1 .. Len(rules) :
          rules[k].ruleID = id /\ \A j \in 1 .. k - 1 : rules[j].ruleID # id
    BY <1>1, <1>2
  <1>4. /\ Position(rules, id) \in 1 .. Len(rules)
        /\ rules[Position(rules, id)].ruleID = id
    BY <1>3 DEF Position
  <1> QED
    BY <1>4 DEF IdsUnique

\* A lookup is told by any rule of that id.
LEMMA LookupAt ==
  ASSUME NEW S, NEW rules \in Seq(S), IdsUnique(rules), NEW i \in 1 .. Len(rules)
  PROVE  Lookup(rules, rules[i].ruleID) = rules[i]
  <1>1. Holds(rules, rules[i].ruleID)
    BY DEF Holds
  <1> QED
    BY <1>1, PositionOf DEF Lookup

LEMMA UpsertKeeps ==
  ASSUME NEW S, NEW rules \in Seq(S), IdsUnique(rules), NEW rule \in S
  PROVE  /\ Upsert(rules, rule) \in Seq(S)
         /\ IdsUnique(Upsert(rules, rule))
         /\ Lookup(Upsert(rules, rule), rule.ruleID) = rule
         /\ \A id : id # rule.ruleID => Lookup(Upsert(rules, rule), id) = Lookup(rules, id)
  <1> DEFINE after == Upsert(rules, rule)
             n == IF Holds(rules, rule.ruleID) THEN Position(rules, rule.ruleID)
                  ELSE Len(rules) + 1
  <1>1. /\ after \in Seq(S)
        /\ 1 .. Len(rules) \subseteq 1 .. Len(after)
        /\ n \in 1 .. Len(after)
        /\ after[n] = rule
        /\ \A i \in 1 .. Len(after) \ {n} : i \in 1 .. Len(rules) /\ after[i] = rules[i]
        /\ \A i \in 1 .. Len(rules) \ {n} : rules[i].ruleID # rule.ruleID
        /\ n \in 1 .. Len(rules) => rules[n].ruleID = rule.ruleID
    <2>1. CASE Holds(rules, rule.ruleID)
      BY <2>1, PositionOf DEF Upsert
    <2>2. CASE ~Holds(rules, rule.ruleID)
      BY <2>2 DEF Upsert, Holds
    <2> QED
      BY <2>1, <2>2
  <1> HIDE DEF after, n
  <1>2. IdsUnique(after)
    BY <1>1 DEF IdsUnique
  <1>3. Lookup(after, rule.ruleID) = rule
    BY <1>1, <1>2, LookupAt
  <1>4. ASSUME NEW id, id # rule.ruleID
        PROVE  Lookup(after, id) = Lookup(rules, id)
    <2>1. ASSUME NEW i \in 1 .. Len(rules), rules[i].ruleID = id
          PROVE  Lookup(after, id) = Lookup(rules, id)
      <3>1. i \in 1 .. Len(after) /\ after[i] = rules[i]
        BY <1>1, <1>4, <2>1
      <3> QED
        BY <1>1, <1>2, <2>1, <3>1, LookupAt
    <2>2. ASSUME ~Holds(rules, id)
          PROVE  Lookup(after, id) = Lookup(rules, id)
      <3>1. ~Holds(after, id)
        BY <1>1, <1>4, <2>2 DEF Holds
      <3> QED
        BY <2>2, <3>1 DEF Lookup
    <2> QED
      BY <2>1, <2>2 DEF Holds
  <1> QED
    BY <1>1, <1>2, <1>3, <1>4 DEF after

LEMMA WithoutKeeps ==
  ASSUME NEW S, NEW rules \in Seq(S), IdsUnique(rules), NEW gone, Holds(rules, gone)
  PROVE  /\ Without(rules, gone) \in Seq(S)
         /\ IdsUnique(Without(rules, gone))
         /\ Lookup(Without(rules, gone), gone) = Missing
         /\ \A id : id # gone => Lookup(Without(rules, gone), id) = Lookup(rules, id)
  <1> DEFINE after == Without(rules, gone)
             n == Position(rules, gone)
             old(i) == IF i < n THEN i ELSE i + 1
  <1>1. n \in 1 .. Len(rules) /\ rules[n].ruleID = gone
        /\ \A i \in 1 .. Len(rules) : rules[i].ruleID = gone => i = n
    BY PositionOf
  <1>2. Len(rules) \in Nat /\ Len(rules) - 1 \in Nat
    BY <1>1
  <1>3. after = [i \in 1 .. Len(rules) - 1 |-> rules[old(i)]]
    BY DEF Without
  <1> HIDE DEF after, n
  <1>4. \A i \in 1 .. Len(rules) - 1 : old(i) \in 1 .. Len(rules) \ {n}
    BY <1>1, <1>2
  <1>5. /\ after \in Seq(S) /\ Len(after) = Len(rules) - 1
        /\ \A i \in 1 .. Len(after) : after[i] = rules[old(i)]
    <2>1. \A i \in 1 .. Len(rules) - 1 : rules[old(i)] \in S
      BY <1>4
    <2>2. after \in Seq(S) /\ Len(after) = Len(rules) - 1
      BY <1>2, <1>3, <2>1
    <2> QED
      BY <1>3, <2>2
  <1>6. \A i, j \in 1 .. Len(after) : old(i) = old(j) => i = j
    BY <1>1, <1>2, <1>5
  <1>7. \A k \in 1 .. Len(rules) \ {n} : \E i \in 1 .. Len(after) : old(i) = k
    <2> SUFFICES ASSUME NEW k \in 1 .. Len(rules) \ {n}
                 PROVE  \E i \in 1 .. Len(after) : old(i) = k
      OBVIOUS
    <2>1. CASE k < n
      BY <1>1, <1>2, <1>5, <2>1
    <2>2. CASE k > n
      <3>1. k - 1 \in 1 .. Len(after) /\ old(k - 1) = k
        BY <1>1, <1>2, <1>5, <2>2
      <3> QED
        BY <3>1
    <2> QED
      BY <1>1, <2>1, <2>2
  <1> HIDE DEF old
  <1>8. IdsUnique(after)
    BY <1>4, <1>5, <1>6 DEF IdsUnique
  <1>9. Lookup(after, gone) = Missing
    BY <1>1, <1>4, <1>5 DEF Lookup, Holds
  <1>10. ASSUME NEW id, id # gone
         PROVE  Lookup(after, id) = Lookup(rules, id)
    <2>1. ASSUME NEW k \in 1 .. Len(rules), rules[k].ruleID = id
          PROVE  Lookup(after, id) = Lookup(rules, id)
      <3>1. PICK i \in 1 .. Len(after) : old(i) = k
        BY <1>1, <1>7, <1>10, <2>1
      <3> QED
        BY <1>5, <1>8, <2>1, <3>1, LookupAt
    <2>2. ASSUME ~Holds(rules, id)
          PROVE  Lookup(after, id) = Lookup(rules, id)
      <3>1. ~Holds(after, id)
        BY <1>4, <1>5, <2>2 DEF Holds
      <3> QED
        BY <2>2, <3>1 DEF Lookup
    <2> QED
      BY <2>1, <2>2 DEF Holds
  <1> QED
    BY <1>5, <1>8, <1>9, <1>10 DEF after

-----------------------------------------------------------------------------
(***************************************************************************)
(* SumFunctionOnSet, unfolded.  Its definition chooses a recursive         *)
(* function on the subsets of S; such a function is shown to exist and to  *)
(* be the only one, by induction over those subsets: a set is in a family  *)
(* whenever its proper subsets are.                                        *)
(***************************************************************************)
Pick(s) == CHOOSE x \in s : TRUE

\* One turn of the recursion, on the values that g has for smaller sets.
Turn(fun, g, s) == IF s = {} THEN 0 ELSE fun[Pick(s)] + g[s \ {Pick(s)}]

Solves(fun, g, S) == g = [s \in SUBSET S |-> Turn(fun, g, s)]

LEMMA FiniteInduction ==
  ASSUME NEW S, IsFiniteSet(S), NEW family,
         \A T \in SUBSET S : (\A U \in SUBSET T : U # T => U \in family) => T \in family
  PROVE  \A T \in SUBSET S : T \in family
  <1> DEFINE bad == {T \in SUBSET S : T \notin family}
             order == StrictSubsetOrdering(S)
  <1>1. IsWellFoundedOn(order, SUBSET S)
    BY FS_StrictSubsetOrderingWellFounded, FS_FiniteSubsetsOfFinite
  <1>2. SUFFICES ASSUME bad # {} PROVE FALSE
    OBVIOUS
  <1>3. bad \subseteq SUBSET S
    OBVIOUS
  <1> HIDE DEF bad, order
  <1>4. PICK T \in bad : \A U \in bad : <<U, T>> \notin order
    BY <1>1, <1>2, <1>3, WFMin
  <1>5. ASSUME NEW U \in SUBSET T, U # T PROVE U \in family
    <2>1. U \in SUBSET S /\ T \in SUBSET S
      BY <1>3, <1>4, <1>5
    <2>2. <<U, T>> \in order
      BY <2>1, <1>5 DEF order, StrictSubsetOrdering
    <2> QED
      BY <2>1, <2>2, <1>4 DEF bad
  <1> QED
    BY <1>3, <1>4, <1>5 DEF bad

LEMMA OneSolution ==
  ASSUME NEW S, IsFiniteSet(S), NEW T, IsFiniteSet(T), NEW fun, NEW g, NEW h,
         Solves(fun, g, S), Solves(fun, h, T)
  PROVE  \A s \in SUBSET (S \cap T) : g[s] = h[s]
  <1> DEFINE family == {s \in SUBSET (S \cap T) : g[s] = h[s]}
  <1>1. IsFiniteSet(S \cap T)
    BY FS_Subset
  <1>2. ASSUME NEW s \in SUBSET (S \cap T), \A r \in SUBSET s : r # s => r \in family
        PROVE  s \in family
    <2>1. g[s] = Turn(fun, g, s) /\ h[s] = Turn(fun, h, s)
      BY DEF Solves
    <2>2. CASE s = {}
      BY <2>1, <2>2 DEF Turn
    <2>3. CASE s # {}
      <3>1. Pick(s) \in s
        BY <2>3 DEF Pick
      <3>2. s \ {Pick(s)} \in family
        BY <1>2, <3>1
      <3> QED
        BY <2>1, <2>3, <3>2 DEF Turn
    <2> QED
      BY <2>2, <2>3
  <1> HIDE DEF family
  <1>3. \A s \in SUBSET (S \cap T) : s \in family
    BY <1>1, <1>2, FiniteInduction
  <1> QED
    BY <1>3 DEF family

LEMMA SomeSolution ==
  ASSUME NEW S, IsFiniteSet(S), NEW fun
  PROVE  \E g : Solves(fun, g, S)
  <1> DEFINE family == {T \in SUBSET S : \E g : Solves(fun, g, T)}
             of(T) == CHOOSE g : Solves(fun, g, T)
  <1>1. ASSUME NEW T \in SUBSET S, \A U \in SUBSET T : U # T => U \in family
        PROVE  T \in family
    <2> DEFINE value(s) == Turn(fun, of(s \ {Pick(s)}), s)
               g == [s \in SUBSET T |-> value(s)]
    <2>1. ASSUME NEW s \in SUBSET T, s # {}
          PROVE  g[s \ {Pick(s)}] = of(s \ {Pick(s)})[s \ {Pick(s)}]
      <3> DEFINE r == s \ {Pick(s)}
      <3>1. r \in SUBSET T /\ r # T
        BY <2>1 DEF Pick
      <3>2. Solves(fun, of(r), r)
        BY <3>1, <1>1
      <3>3. g[r] = Turn(fun, of(r \ {Pick(r)}), r) /\ of(r)[r] = Turn(fun, of(r), r)
        BY <3>1, <3>2 DEF Solves
      <3>4. CASE r = {}
        BY <3>3, <3>4 DEF Turn
      <3>5. CASE r # {}
        <4> DEFINE q == r \ {Pick(r)}
        <4>1. q \in SUBSET r /\ q # r /\ q \in SUBSET T /\ q # T
          BY <3>1, <3>5 DEF Pick
        <4>2. Solves(fun, of(q), q)
          BY <4>1, <1>1
        <4>3. IsFiniteSet(r) /\ IsFiniteSet(q)
          BY <3>1, <4>1, FS_Subset
        <4> HIDE DEF of, q, r
        <4>4. of(r)[q] = of(q)[q]
          BY <3>2, <4>1, <4>2, <4>3, OneSolution
        <4> QED
          BY <3>3, <3>5, <4>4 DEF Turn, q, r
      <3> QED
        BY <3>4, <3>5
    <2>2. Solves(fun, g, T)
      <3>1. ASSUME NEW s \in SUBSET T PROVE value(s) = Turn(fun, g, s)
        <4> HIDE DEF g, of
        <4> QED
          BY <2>1, <3>1 DEF Turn
      <3> HIDE DEF value
      <3> QED
        BY <3>1 DEF Solves
    <2> QED
      BY <2>2
  <1> HIDE DEF family
  <1>2. \A T \in SUBSET S : T \in family
    BY <1>1, FiniteInduction
  <1> QED
    BY <1>2 DEF family

LEMMA SumSolves ==
  ASSUME NEW S, NEW fun
  PROVE  SumFunctionOnSet(fun, S) = (CHOOSE g : Solves(fun, g, S))[S]
  BY DEF SumFunctionOnSet, FoldFunctionOnSet, MapThenFoldSet, Solves, Turn, Pick

LEMMA SumStep ==
  ASSUME NEW S, IsFiniteSet(S), NEW fun
  PROVE  /\ S = {} => SumFunctionOnSet(fun, S) = 0
         /\ S # {} => /\ Pick(S) \in S
                      /\ SumFunctionOnSet(fun, S) =
                           fun[Pick(S)] + SumFunctionOnSet(fun, S \ {Pick(S)})
  <1> DEFINE of(T) == CHOOSE g : Solves(fun, g, T)
             R == S \ {Pick(S)}
  <1>1. Solves(fun, of(S), S)
    BY SomeSolution
  <1>2. IsFiniteSet(R)
    BY FS_Subset
  <1>3. Solves(fun, of(R), R)
    BY <1>2, SomeSolution
  <1>4. SumFunctionOnSet(fun, S) = of(S)[S] /\ SumFunctionOnSet(fun, R) = of(R)[R]
    BY SumSolves
  <1> HIDE DEF of
  <1>5. of(S)[S] = Turn(fun, of(S), S)
    BY <1>1 DEF Solves
  <1>6. of(S)[R] = of(R)[R]
    BY <1>1, <1>2, <1>3, OneSolution
  <1> QED
    BY <1>4, <1>5, <1>6 DEF Turn, Pick

LEMMA SumTyped ==
  ASSUME NEW S, IsFiniteSet(S), NEW fun, \A x \in S : fun[x] \in Int
  PROVE  SumFunctionOnSet(fun, S) \in Int
  <1> DEFINE family == {T \in SUBSET S : SumFunctionOnSet(fun, T) \in Int}
  <1>1. ASSUME NEW T \in SUBSET S, \A U \in SUBSET T : U # T => U \in family
        PROVE  T \in family
    <2>1. IsFiniteSet(T)
      BY FS_Subset
    <2>2. CASE T = {}
      BY <2>1, <2>2, SumStep
    <2>3. CASE T # {}
      <3>1. Pick(T) \in T /\ SumFunctionOnSet(fun, T) =
              fun[Pick(T)] + SumFunctionOnSet(fun, T \ {Pick(T)})
        BY <2>1, <2>3, SumStep
      <3>2. T \ {Pick(T)} \in family
        BY <1>1, <3>1
      <3> QED
        BY <3>1, <3>2
    <2> QED
      BY <2>2, <2>3
  <1> HIDE DEF family
  <1>2. \A T \in SUBSET S : T \in family
    BY <1>1, FiniteInduction
  <1> QED
    BY <1>2 DEF family

LEMMA SumRemoves ==
  ASSUME NEW S, IsFiniteSet(S), NEW fun, \A x \in S : fun[x] \in Int
  PROVE  \A x \in S : SumFunctionOnSet(fun, S) = fun[x] + SumFunctionOnSet(fun, S \ {x})
  <1> DEFINE sum(T) == SumFunctionOnSet(fun, T)
             family == {T \in SUBSET S : \A x \in T : sum(T) = fun[x] + sum(T \ {x})}
  <1>0. \A T \in SUBSET S : IsFiniteSet(T)
    BY FS_Subset
  <1>1. \A T \in SUBSET S : sum(T) \in Int
    BY <1>0, SumTyped
  <1>2. ASSUME NEW T \in SUBSET S, \A U \in SUBSET T : U # T => U \in family
        PROVE  T \in family
    <2> SUFFICES ASSUME NEW x \in T PROVE sum(T) = fun[x] + sum(T \ {x})
      OBVIOUS
    <2> DEFINE y == Pick(T)
    <2>1. y \in T /\ sum(T) = fun[y] + sum(T \ {y})
      BY <1>0, SumStep
    <2> HIDE DEF sum, y
    <2>2. CASE x = y
      BY <2>1, <2>2
    <2>3. CASE x # y
      <3> DEFINE rest == T \ {x, y}
      <3>1. T \ {y} \in family /\ T \ {x} \in family
        BY <1>2, <2>1
      <3>2. (T \ {y}) \ {x} = rest /\ (T \ {x}) \ {y} = rest
        OBVIOUS
      <3>3. sum(T \ {y}) = fun[x] + sum(rest)
        <4>1. x \in T \ {y}
          BY <2>3
        <4> QED
          BY <3>1, <3>2, <4>1
      <3>4. sum(T \ {x}) = fun[y] + sum(rest)
        <4>1. y \in T \ {x}
          BY <2>1, <2>3
        <4> QED
          BY <3>1, <3>2, <4>1
      <3>5. sum(rest) \in Int /\ fun[x] \in Int /\ fun[y] \in Int
        BY <1>1, <2>1
      <3> QED
        BY <2>1, <3>3, <3>4, <3>5
    <2> QED
      BY <2>2, <2>3
  <1> HIDE DEF family
  <1>3. \A T \in SUBSET S : T \in family
    BY <1>2, FiniteInduction
  <1> QED
    BY <1>3 DEF family

LEMMA SumAdds ==
  ASSUME NEW S, IsFiniteSet(S), NEW x, x \notin S, NEW fun, \A y \in S \cup {x} : fun[y] \in Int
  PROVE  SumFunctionOnSet(fun, S \cup {x}) = fun[x] + SumFunctionOnSet(fun, S)
  <1>1. IsFiniteSet(S \cup {x}) /\ (S \cup {x}) \ {x} = S
    BY FS_AddElement
  <1> QED
    BY <1>1, SumRemoves

\* The sum depends on the values in the set only.
LEMMA SumAgrees ==
  ASSUME NEW S, IsFiniteSet(S), NEW f, NEW g, \A x \in S : f[x] = g[x]
  PROVE  SumFunctionOnSet(f, S) = SumFunctionOnSet(g, S)
  <1> DEFINE family == {T \in SUBSET S : SumFunctionOnSet(f, T) = SumFunctionOnSet(g, T)}
  <1>1. ASSUME NEW T \in SUBSET S, \A U \in SUBSET T : U # T => U \in family
        PROVE  T \in family
    <2>1. IsFiniteSet(T)
      BY FS_Subset
    <2>2. CASE T = {}
      BY <2>1, <2>2, SumStep
    <2>3. CASE T # {}
      <3>1. /\ Pick(T) \in T
            /\ SumFunctionOnSet(f, T) = f[Pick(T)] + SumFunctionOnSet(f, T \ {Pick(T)})
            /\ SumFunctionOnSet(g, T) = g[Pick(T)] + SumFunctionOnSet(g, T \ {Pick(T)})
        BY <2>1, <2>3, SumStep
      <3>2. T \ {Pick(T)} \in family
        BY <1>1, <3>1
      <3> QED
        BY <3>1, <3>2
    <2> QED
      BY <2>2, <2>3
  <1> HIDE DEF family
  <1>2. \A T \in SUBSET S : T \in family
    BY <1>1, FiniteInduction
  <1> QED
    BY <1>2 DEF family

\* Amounts that are not negative: the sum over a part is at most that over the whole.
LEMMA SumGrows ==
  ASSUME NEW S, IsFiniteSet(S), NEW fun, \A x \in S : fun[x] \in Nat
  PROVE  \A T \in SUBSET S : SumFunctionOnSet(fun, T) <= SumFunctionOnSet(fun, S)
  <1> DEFINE sum(T) == SumFunctionOnSet(fun, T)
             family == {T \in SUBSET S : \A U \in SUBSET T : sum(U) <= sum(T)}
  <1>0. \A T \in SUBSET S : IsFiniteSet(T)
    BY FS_Subset
  <1>1. \A T \in SUBSET S : sum(T) \in Int
    BY <1>0, SumTyped
  <1>2. ASSUME NEW T \in SUBSET S, \A U \in SUBSET T : U # T => U \in family
        PROVE  T \in family
    <2> SUFFICES ASSUME NEW U \in SUBSET T PROVE sum(U) <= sum(T)
      OBVIOUS
    <2> HIDE DEF sum
    <2>1. CASE U = T
      BY <1>1, <2>1
    <2>2. CASE U # T
      <3>1. PICK x \in T : x \notin U
        BY <2>2
      <3>2. sum(T) = fun[x] + sum(T \ {x})
        BY <1>0, SumRemoves DEF sum
      <3>3. T \ {x} \in family /\ U \in SUBSET (T \ {x})
        BY <1>2, <3>1
      <3>4. sum(U) <= sum(T \ {x}) /\ sum(U) \in Int /\ sum(T \ {x}) \in Int /\ fun[x] \in Nat
        BY <1>1, <3>3
      <3> QED
        BY <3>2, <3>4
    <2> QED
      BY <2>1, <2>2
  <1> HIDE DEF family
  <1>3. \A T \in SUBSET S : T \in family
    BY <1>2, FiniteInduction
  <1> QED
    BY <1>3 DEF family

\* The parts of one sum that are not zero are parts of another, each of its own.
LEMMA SumEmbeds ==
  ASSUME NEW S, IsFiniteSet(S), NEW T, IsFiniteSet(T), NEW f, NEW g, NEW h,
         \A x \in S : f[x] \in Int,
         \A y \in T : g[y] \in Nat,
         \A x \in S : f[x] = 0 \/ (h[x] \in T /\ g[h[x]] = f[x]),
         \A x, y \in S : h[x] = h[y] => x = y
  PROVE  SumFunctionOnSet(f, S) <= SumFunctionOnSet(g, T)
  <1> DEFINE left(U) == SumFunctionOnSet(f, U)
             right(V) == SumFunctionOnSet(g, V)
             covers(U, V) == \A x \in U : f[x] = 0 \/ h[x] \in V
             family == {U \in SUBSET S : \A V \in SUBSET T : covers(U, V) => left(U) <= right(V)}
  <1>1. \A U \in SUBSET S : IsFiniteSet(U) /\ left(U) \in Int
    BY FS_Subset, SumTyped
  <1>2. \A V \in SUBSET T : IsFiniteSet(V) /\ right(V) \in Int /\ right(V) >= 0
    <2> SUFFICES ASSUME NEW V \in SUBSET T
                 PROVE  IsFiniteSet(V) /\ right(V) \in Int /\ right(V) >= 0
      OBVIOUS
    <2>1. IsFiniteSet(V) /\ right(V) \in Int
      BY FS_Subset, SumTyped
    <2>2. right({}) = 0
      BY FS_EmptySet, SumStep
    <2>3. right({}) <= right(V)
      BY <2>1, SumGrows
    <2> QED
      BY <2>1, <2>2, <2>3
  <1>3. ASSUME NEW U \in SUBSET S, \A W \in SUBSET U : W # U => W \in family
        PROVE  U \in family
    <2> SUFFICES ASSUME NEW V \in SUBSET T, covers(U, V) PROVE left(U) <= right(V)
      OBVIOUS
    <2>1. CASE U = {}
      BY <1>1, <1>2, <2>1, SumStep
    <2>2. CASE U # {}
      <3>1. PICK x \in U : TRUE
        BY <2>2
      <3>2. U \ {x} \in family /\ left(U) = f[x] + left(U \ {x})
        BY <1>1, <1>3, <3>1, SumRemoves
      <3>3. left(U \ {x}) \in Int /\ left(U) \in Int /\ f[x] \in Int
        BY <1>1, <3>1
      <3>4. CASE f[x] = 0
        <4>1. left(U \ {x}) <= right(V)
          BY <3>2
        <4> HIDE DEF left, right
        <4> QED
          BY <1>2, <3>2, <3>3, <3>4, <4>1
      <3>5. CASE f[x] # 0
        <4>1. h[x] \in V /\ g[h[x]] = f[x]
          BY <3>1, <3>5
        <4>2. V \ {h[x]} \in SUBSET T /\ covers(U \ {x}, V \ {h[x]})
          BY <3>1
        <4>3. left(U \ {x}) <= right(V \ {h[x]})
          BY <3>2, <4>2
        <4>4. right(V) = g[h[x]] + right(V \ {h[x]})
          BY <1>2, <4>1, SumRemoves
        <4> HIDE DEF left, right
        <4> QED
          BY <1>2, <3>2, <3>3, <4>1, <4>2, <4>3, <4>4
      <3> QED
        BY <3>4, <3>5
    <2> QED
      BY <2>1, <2>2
  <1> HIDE DEF family
  <1>4. \A U \in SUBSET S : U \in family
    BY <1>3, FiniteInduction
  <1> QED
    BY <1>4 DEF family
=============================================================================
