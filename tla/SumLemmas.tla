------------------------------- MODULE SumLemmas -------------------------------
(***************************************************************************)
(* Facts the proofs need about data of any size: induction over the        *)
(* natural numbers, and the sum of a function's values over a finite set   *)
(* (SumFunctionOnSet, by which the specifications define running totals).  *)
(***************************************************************************)
EXTENDS Integers, FiniteSets, Functions, FiniteSetTheorems, TLAPS

\* Every non-empty set of naturals has a least element.
LEMMA LeastNatural ==
    ASSUME NEW S \in SUBSET Nat, S # {}
    PROVE  \E n \in S : \A m \in S : n <= m
  <1>1. PICK R : R = OpToRel(<, Nat)
    OBVIOUS
  <1>2. IsWellFoundedOn(R, Nat)
    BY <1>1, NatLessThanWellFounded
  <1>3. PICK n \in S : \A m \in S : <<m, n>> \notin R
    BY <1>2, WFMin
  <1>4. \A m \in S : ~ (m < n)
    BY <1>1, <1>3 DEF OpToRel
  <1> QED
    BY <1>4

\* A set of naturals with 0 and the successor of every member is all of them.
LEMMA Induction ==
    ASSUME NEW S \in SUBSET Nat, 0 \in S, \A n \in S : n + 1 \in S
    PROVE  S = Nat
  <1> SUFFICES ASSUME Nat \ S # {} PROVE FALSE
    OBVIOUS
  <1>1. PICK n \in Nat \ S : \A m \in Nat \ S : n <= m
    BY LeastNatural
  <1>2. n # 0 /\ n - 1 \in Nat /\ n - 1 \notin Nat \ S
    BY <1>1
  <1> QED
    BY <1>1, <1>2

----------------------------------------------------------------------------
(* Sums. *)

Head1(s) == CHOOSE x \in s : TRUE

\* T[s] is the sum over s of f's values, for s with no more than n members.
SumsUpTo(T, f, S, n) ==
    \A s \in SUBSET S : Cardinality(s) <= n =>
        T[s] = IF s = {} THEN 0 ELSE f[Head1(s)] + T[s \ {Head1(s)}]

SumsAll(T, f, S) ==
    T = [s \in SUBSET S |-> IF s = {} THEN 0 ELSE f[Head1(s)] + T[s \ {Head1(s)}]]

IntValued(f, S) == \A x \in S : f[x] \in Int

\* What a smaller set leaves after one member is taken.
LEMMA Smaller ==
    ASSUME NEW S, IsFiniteSet(S), NEW s \in SUBSET S, NEW x \in s
    PROVE  /\ IsFiniteSet(s)
           /\ s \ {x} \in SUBSET S
           /\ Cardinality(s) \in Nat /\ Cardinality(s \ {x}) = Cardinality(s) - 1
           /\ Cardinality(s) # 0
  <1>1. IsFiniteSet(s)
    BY FS_Subset
  <1>2. Cardinality(s) \in Nat /\ Cardinality(s \ {x}) = Cardinality(s) - 1
    BY <1>1, FS_CardinalityType, FS_RemoveElement
  <1> QED
    BY <1>1, <1>2, FS_EmptySet

\* The member taken first is one.
LEMMA HeadIn ==
    ASSUME NEW s, s # {}
    PROVE  Head1(s) \in s
  BY DEF Head1

\* There are such sums, however large the set.
LEMMA SumsExist ==
    ASSUME NEW S, IsFiniteSet(S), NEW f, IntValued(f, S)
    PROVE  \E T : SumsAll(T, f, S)
  <1> DEFINE G == {n \in Nat : \E T \in [SUBSET S -> Int] : SumsUpTo(T, f, S, n)}
  <1>1. 0 \in G
    <2> DEFINE T == [s \in SUBSET S |-> 0]
    <2>1. \A s \in SUBSET S : Cardinality(s) <= 0 => s = {}
      BY FS_Subset, FS_EmptySet, FS_CardinalityType
    <2>2. T \in [SUBSET S -> Int] /\ SumsUpTo(T, f, S, 0)
      BY <2>1 DEF SumsUpTo
    <2> QED
      BY <2>2
  <1>2. ASSUME NEW n \in G PROVE n + 1 \in G
    <2>0. n \in Nat
      OBVIOUS
    <2>1. PICK T \in [SUBSET S -> Int] : SumsUpTo(T, f, S, n)
      OBVIOUS
    <2> DEFINE U == [s \in SUBSET S |->
                        IF Cardinality(s) <= n THEN T[s] 
                        ELSE f[Head1(s)] + T[s \ {Head1(s)}]]
    <2>2. ASSUME NEW s \in SUBSET S PROVE U[s] \in Int
      <3>1. CASE s = {}
        BY <3>1, FS_EmptySet, <2>1
      <3>2. CASE s # {}
        <4>1. Head1(s) \in s
          BY <3>2, HeadIn
        <4> HIDE DEF U
        <4>2. f[Head1(s)] \in Int /\ T[s] \in Int /\ T[s \ {Head1(s)}] \in Int
          BY <4>1, <2>1 DEF IntValued
        <4> QED
          BY <4>2 DEF U
      <3> QED
        BY <3>1, <3>2
    <2>3. ASSUME NEW s \in SUBSET S, Cardinality(s) <= n + 1
          PROVE  U[s] = IF s = {} THEN 0 ELSE f[Head1(s)] + U[s \ {Head1(s)}]
      <3>1. CASE s = {}
        <4>1. Cardinality(s) = 0
          BY <3>1, FS_EmptySet
        <4>2. Cardinality(s) <= n
          BY <4>1
        <4> QED
          BY <3>1, <4>2, <2>1 DEF SumsUpTo
      <3>2. CASE s # {}
        <4>1. Head1(s) \in s
          BY <3>2, HeadIn
        <4>2. PICK r : r = s \ {Head1(s)}
          OBVIOUS
        <4>3. /\ r \in SUBSET S /\ Cardinality(s) \in Nat
              /\ Cardinality(r) = Cardinality(s) - 1
          BY <4>1, <4>2, Smaller
        <4>4. Cardinality(r) <= n
          BY <2>3, <4>3, <2>0
        <4>5. U[r] = T[r]
          BY <4>3, <4>4
        <4>6. U[s] = f[Head1(s)] + T[r]
          BY <3>2, <4>2, <2>1 DEF SumsUpTo
        <4> HIDE DEF U
        <4> QED
          BY <4>5, <4>6, <4>2, <3>2
      <3> QED
        BY <3>1, <3>2
    <2>4. U \in [SUBSET S -> Int]
      BY <2>2
    <2>5. SumsUpTo(U, f, S, n + 1)
      <3> HIDE DEF U
      <3> QED
        BY <2>3 DEF SumsUpTo
    <2> HIDE DEF U
    <2>6. n + 1 \in Nat
      BY <2>0
    <2> QED
      BY <2>4, <2>5, <2>6
  <1>3. G = Nat
    <2> HIDE DEF G
    <2>1. G \in SUBSET Nat
      BY DEF G
    <2> QED
      BY <1>1, <1>2, <2>1, Induction
  <1>4. Cardinality(S) \in Nat
    BY FS_CardinalityType
  <1>5. PICK T \in [SUBSET S -> Int] : SumsUpTo(T, f, S, Cardinality(S))
    BY <1>3, <1>4
  <1>6. \A s \in SUBSET S : Cardinality(s) <= Cardinality(S)
    BY FS_Subset
  <1>7. SumsAll(T, f, S)
    BY <1>5, <1>6 DEF SumsUpTo, SumsAll
  <1> QED
    BY <1>7

\* A sum of integers is one.
LEMMA SumsInt ==
    ASSUME NEW S, IsFiniteSet(S), NEW f, IntValued(f, S), NEW T, SumsAll(T, f, S)
    PROVE  \A s \in SUBSET S : T[s] \in Int
  <1> DEFINE G == {n \in Nat : \A s \in SUBSET S : Cardinality(s) = n => T[s] \in Int}
  <1>0. \A s \in SUBSET S :
            T[s] = IF s = {} THEN 0 ELSE f[Head1(s)] + T[s \ {Head1(s)}]
    BY DEF SumsAll
  <1>1. 0 \in G
    <2>1. \A s \in SUBSET S : Cardinality(s) = 0 => s = {}
      BY FS_Subset, FS_EmptySet
    <2>2. \A s \in SUBSET S : s = {} => T[s] = 0
      BY <1>0
    <2>3. \A s \in SUBSET S : Cardinality(s) = 0 => T[s] \in Int
      BY <2>1, <2>2
    <2> QED
      BY <2>3
  <1>2. ASSUME NEW n \in G PROVE n + 1 \in G
    <2>0. n \in Nat
      OBVIOUS
    <2>1. ASSUME NEW s \in SUBSET S, Cardinality(s) = n + 1
          PROVE  T[s] \in Int
      <3>1. s # {}
        <4>1. IsFiniteSet(s) /\ n + 1 # 0
          BY FS_Subset, <2>0
        <4> QED
          BY <4>1, <2>1, FS_EmptySet
      <3>2. PICK y : y = Head1(s)
        OBVIOUS
      <3>3. y \in s /\ T[s] = f[y] + T[s \ {y}]
        BY <3>1, <3>2, HeadIn, <1>0
      <3>4. s \ {y} \in SUBSET S /\ Cardinality(s \ {y}) = n
        BY <2>1, <3>3, Smaller
      <3> QED
        BY <3>3, <3>4 DEF IntValued
    <2> QED
      BY <2>1
  <1>3. G = Nat
    <2> HIDE DEF G
    <2>1. G \in SUBSET Nat
      BY DEF G
    <2> QED
      BY <1>1, <1>2, <2>1, Induction
  <1>4. \A s \in SUBSET S : Cardinality(s) \in Nat
    BY FS_Subset, FS_CardinalityType
  <1> QED
    BY <1>3, <1>4

\* The order in which the members are taken makes no difference.
LEMMA SumsAnyOrder ==
    ASSUME NEW S, IsFiniteSet(S), NEW f, IntValued(f, S), NEW T, SumsAll(T, f, S)
    PROVE  \A s \in SUBSET S : \A x \in s : T[s] = f[x] + T[s \ {x}]
  <1> DEFINE Good(s) == \A x \in s : T[s] = f[x] + T[s \ {x}]
             G == {n \in Nat : \A s \in SUBSET S : Cardinality(s) = n => Good(s)}
  <1>0. \A s \in SUBSET S :
            T[s] = IF s = {} THEN 0 ELSE f[Head1(s)] + T[s \ {Head1(s)}]
    BY DEF SumsAll
  <1>1. 0 \in G
    <2>1. \A s \in SUBSET S : Cardinality(s) = 0 => s = {}
      BY FS_Subset, FS_EmptySet
    <2> QED
      BY <2>1
  <1>2. ASSUME NEW n \in G PROVE n + 1 \in G
    <2>0. n \in Nat
      OBVIOUS
    <2>1. ASSUME NEW s \in SUBSET S, Cardinality(s) = n + 1, NEW x \in s
          PROVE  T[s] = f[x] + T[s \ {x}]
      <3>1. PICK y : y = Head1(s)
        OBVIOUS
      <3>2. y \in s /\ T[s] = f[y] + T[s \ {y}]
        BY <3>1, HeadIn, <1>0
      <3>3. CASE x = y
        BY <3>2, <3>3
      <3>4. CASE x # y
        <4>1. x \in s \ {y} /\ y \in s \ {x}
          BY <3>2, <3>4
        <4>2. PICK r : r = (s \ {x}) \ {y}
          OBVIOUS
        <4>3. r = (s \ {y}) \ {x}
          BY <4>2
        <4>4. /\ s \ {x} \in SUBSET S /\ Cardinality(s \ {x}) = n
              /\ s \ {y} \in SUBSET S /\ Cardinality(s \ {y}) = n
          BY <2>1, <3>2, Smaller
        <4>5. T[s \ {y}] = f[x] + T[r]
          BY <4>1, <4>3, <4>4
        <4>6. T[s \ {x}] = f[y] + T[r]
          BY <4>1, <4>2, <4>4
        <4>7. f[x] \in Int /\ f[y] \in Int
          BY <3>2 DEF IntValued
        <4>8. T[r] \in Int
          BY <4>2, SumsInt
        <4> QED
          BY <3>2, <4>5, <4>6, <4>7, <4>8
      <3> QED
        BY <3>3, <3>4
    <2> QED
      BY <2>1
  <1>3. G = Nat
    <2> HIDE DEF G
    <2>1. G \in SUBSET Nat
      BY DEF G
    <2> QED
      BY <1>1, <1>2, <2>1, Induction
  <1>4. \A s \in SUBSET S : Cardinality(s) \in Nat
    BY FS_Subset, FS_CardinalityType
  <1> QED
    BY <1>3, <1>4

\* Two functions that agree on S have the same sums over its subsets.
LEMMA SumsUnique ==
    ASSUME NEW S, IsFiniteSet(S), NEW f, NEW g, \A x \in S : f[x] = g[x],
           NEW R, NEW T, NEW A, NEW B, S \in SUBSET A, S \in SUBSET B,
           SumsAll(R, f, A), SumsAll(T, g, B)
    PROVE  \A s \in SUBSET S : R[s] = T[s]
  <1> DEFINE G == {n \in Nat : \A s \in SUBSET S : Cardinality(s) = n => R[s] = T[s]}
  <1>0. \A s \in SUBSET S :
            /\ R[s] = IF s = {} THEN 0 ELSE f[Head1(s)] + R[s \ {Head1(s)}]
            /\ T[s] = IF s = {} THEN 0 ELSE g[Head1(s)] + T[s \ {Head1(s)}]
    BY DEF SumsAll
  <1>1. 0 \in G
    <2>1. \A s \in SUBSET S : Cardinality(s) = 0 => s = {}
      BY FS_Subset, FS_EmptySet
    <2> QED
      BY <2>1, <1>0
  <1>2. ASSUME NEW n \in G PROVE n + 1 \in G
    <2>0. n \in Nat
      OBVIOUS
    <2>1. ASSUME NEW s \in SUBSET S, Cardinality(s) = n + 1
          PROVE  R[s] = T[s]
      <3>1. s # {}
        <4>1. IsFiniteSet(s) /\ n + 1 # 0
          BY FS_Subset, <2>0
        <4> QED
          BY <4>1, <2>1, FS_EmptySet
      <3>2. PICK y : y = Head1(s)
        OBVIOUS
      <3>3. y \in s /\ R[s] = f[y] + R[s \ {y}] /\ T[s] = g[y] + T[s \ {y}]
        BY <3>1, <3>2, HeadIn, <1>0
      <3>4. s \ {y} \in SUBSET S /\ Cardinality(s \ {y}) = n
        BY <2>1, <3>3, Smaller
      <3>5. R[s \ {y}] = T[s \ {y}]
        BY <3>4
      <3> QED
        BY <3>3, <3>5
    <2> QED
      BY <2>1
  <1>3. G = Nat
    <2> HIDE DEF G
    <2>1. G \in SUBSET Nat
      BY DEF G
    <2> QED
      BY <1>1, <1>2, <2>1, Induction
  <1>4. \A s \in SUBSET S : Cardinality(s) \in Nat
    BY FS_Subset, FS_CardinalityType
  <1> QED
    BY <1>3, <1>4

\* SumFunctionOnSet is such a sum.
LEMMA SumIsSums ==
    ASSUME NEW S, IsFiniteSet(S), NEW f, IntValued(f, S)
    PROVE  \E T : SumsAll(T, f, S) /\ SumFunctionOnSet(f, S) = T[S]
  <1> DEFINE C == CHOOSE T : SumsAll(T, f, S)
  <1>1. SumsAll(C, f, S)
    BY SumsExist
  <1>2. SumFunctionOnSet(f, S) = C[S]
    BY DEF SumFunctionOnSet, FoldFunctionOnSet, MapThenFoldSet, SumsAll, Head1
  <1> QED
    BY <1>1, <1>2

----------------------------------------------------------------------------
(* What the specifications use. *)

\* Nothing adds up to zero.
LEMMA SumEmpty ==
    ASSUME NEW f
    PROVE  SumFunctionOnSet(f, {}) = 0
  <1>1. IsFiniteSet({}) /\ IntValued(f, {})
    BY FS_EmptySet DEF IntValued
  <1>2. PICK T : SumsAll(T, f, {}) /\ SumFunctionOnSet(f, {}) = T[{}]
    BY <1>1, SumIsSums
  <1> QED
    BY <1>2 DEF SumsAll

\* Numbers add up to a number.
LEMMA SumInt ==
    ASSUME NEW S, IsFiniteSet(S), NEW f, IntValued(f, S)
    PROVE  SumFunctionOnSet(f, S) \in Int
  BY SumIsSums, SumsInt

\* Any member can be counted first, ...
LEMMA SumRemove ==
    ASSUME NEW S, IsFiniteSet(S), NEW f, IntValued(f, S), NEW x \in S
    PROVE  SumFunctionOnSet(f, S) = f[x] + SumFunctionOnSet(f, S \ {x})
  <1>1. PICK T : SumsAll(T, f, S) /\ SumFunctionOnSet(f, S) = T[S]
    BY SumIsSums
  <1>2. PICK r : r = S \ {x}
    OBVIOUS
  <1>3. IsFiniteSet(r) /\ IntValued(f, r) /\ r \in SUBSET S
    BY <1>2, FS_Subset DEF IntValued
  <1>4. PICK R : SumsAll(R, f, r) /\ SumFunctionOnSet(f, r) = R[r]
    BY <1>3, SumIsSums
  <1>5. T[S] = f[x] + T[r]
    BY <1>1, <1>2, SumsAnyOrder
  <1>6. R[r] = T[r]
    <2>1. \A s \in SUBSET r : R[s] = T[s]
      BY <1>1, <1>3, <1>4, SumsUnique
    <2> QED
      BY <2>1
  <1> QED
    BY <1>1, <1>2, <1>4, <1>5, <1>6

\* ... and one more counts once.
LEMMA SumAdd ==
    ASSUME NEW S, IsFiniteSet(S), NEW f, IntValued(f, S), NEW x, x \notin S, f[x] \in Int
    PROVE  SumFunctionOnSet(f, S \cup {x}) = f[x] + SumFunctionOnSet(f, S)
  <1>1. IsFiniteSet(S \cup {x}) /\ IntValued(f, S \cup {x})
    BY FS_AddElement DEF IntValued
  <1>2. (S \cup {x}) \ {x} = S
    OBVIOUS
  <1> QED
    BY <1>1, <1>2, SumRemove

\* Only the values on the set count.
LEMMA SumCongruence ==
    ASSUME NEW S, IsFiniteSet(S), NEW f, NEW g, IntValued(f, S), \A x \in S : f[x] = g[x]
    PROVE  SumFunctionOnSet(f, S) = SumFunctionOnSet(g, S)
  <1>1. PICK R : SumsAll(R, f, S) /\ SumFunctionOnSet(f, S) = R[S]
    BY SumIsSums
  <1>2. IntValued(g, S)
    BY DEF IntValued
  <1>3. PICK T : SumsAll(T, g, S) /\ SumFunctionOnSet(g, S) = T[S]
    BY <1>2, SumIsSums
  <1> QED
    BY <1>1, <1>3, SumsUnique
================================================================================
