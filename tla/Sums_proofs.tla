----------------------------- MODULE Sums_proofs -----------------------------
(* Facts about the sums of kobo the models take over finite sets, for every *)
(* finite set.  MapThenSumSet adds the elements in an order CHOOSE fixes;   *)
(* the facts below do not depend on it.  Where an induction is needed it is *)
(* on a smallest counterexample.                                            *)
EXTENDS Integers, FiniteSetsExt, FiniteSetTheorems, WellFoundedInduction, TLAPS

\* The sum of a function over a set.
SumOf(f, S) == MapThenSumSet(LAMBDA x : f[x], S)

Whole(f, S) == \A x \in S : f[x] \in Int

-----------------------------------------------------------------------------
(* Smallest counterexamples.                                                *)

\* A nonempty set of naturals has a least element.
LEMMA LeastNat ==
    ASSUME NEW T \in SUBSET Nat, T # {}
    PROVE  \E m \in T : \A k \in T : m <= k
<1>1. IsWellFoundedOn(OpToRel(<, Nat), Nat)
  BY NatLessThanWellFounded
<1>2. PICK m \in T : \A k \in T : ~ (<<k, m>> \in OpToRel(<, Nat))
  BY <1>1, WFMin
<1>3. \A k \in T : ~ (k < m)
  BY <1>2 DEF OpToRel
<1> QED
  BY <1>3

\* Among some subsets of a finite set, one has none of the others left when an element
\* of it is removed.
LEMMA LeastSubset ==
    ASSUME NEW S, IsFiniteSet(S), NEW B \in SUBSET (SUBSET S), B # {}
    PROVE  \E T \in B : \A x \in T : T \ {x} \notin B
<1> DEFINE sizes == {n \in Nat : \E T \in B : Cardinality(T) = n}
<1>1. \A T \in B : IsFiniteSet(T) /\ Cardinality(T) \in Nat
  BY FS_Subset, FS_CardinalityType
<1>2. sizes \in SUBSET Nat /\ sizes # {}
  BY <1>1
<1>3. PICK m \in sizes : \A k \in sizes : m <= k
  BY <1>2, LeastNat
<1>4. PICK T \in B : Cardinality(T) = m
  BY <1>3
<1>5. ASSUME NEW x \in T, T \ {x} \in B
      PROVE  FALSE
  <2>1. Cardinality(T \ {x}) = m - 1
    BY <1>1, <1>4, FS_RemoveElement
  <2>2. m - 1 \in sizes
    BY <1>1, <1>5, <2>1
  <2> QED
    BY <1>3, <2>2
<1> QED
  BY <1>5

-----------------------------------------------------------------------------
(* The recursion behind a sum.                                              *)

Pick(s) == CHOOSE x \in s : TRUE

\* h adds up f over each subset in D, one element at a time.
AddsOver(f, D, h) ==
    h = [s \in D |-> IF s = {} THEN 0 ELSE f[Pick(s)] + h[s \ {Pick(s)}]]

LEMMA PickIn == \A s : s # {} => Pick(s) \in s
  BY Zenon DEF Pick

LEMMA SumUnfolds ==
    ASSUME NEW f, NEW S
    PROVE  SumOf(f, S) = (CHOOSE h : AddsOver(f, SUBSET S, h))[S]
  BY DEF SumOf, MapThenSumSet, MapThenFoldSet, AddsOver, Pick

\* The recursion has a solution: it is built up by the size of the subsets.
LEMMA SolutionExists ==
    ASSUME NEW f, NEW S, IsFiniteSet(S)
    PROVE  \E h : AddsOver(f, SUBSET S, h)
<1> DEFINE UpTo(n) == {s \in SUBSET S : Cardinality(s) <= n}
           bad == {n \in Nat : ~ \E h : AddsOver(f, UpTo(n), h)}
<1>1. \A s \in SUBSET S : IsFiniteSet(s) /\ Cardinality(s) \in Nat
                          /\ (Cardinality(s) = 0 <=> s = {})
                          /\ \A x \in s : Cardinality(s \ {x}) = Cardinality(s) - 1
  <2> SUFFICES ASSUME NEW s \in SUBSET S
               PROVE  IsFiniteSet(s) /\ Cardinality(s) \in Nat
                      /\ (Cardinality(s) = 0 <=> s = {})
                      /\ \A x \in s : Cardinality(s \ {x}) = Cardinality(s) - 1
    OBVIOUS
  <2>1. IsFiniteSet(s)
    BY FS_Subset
  <2> QED
    BY <2>1, FS_CardinalityType, FS_EmptySet, FS_RemoveElement
<1>2. bad = {}
  <2> SUFFICES ASSUME bad # {}
               PROVE  FALSE
    OBVIOUS
  <2>1. PICK n \in bad : \A k \in bad : n <= k
    <3> bad \in SUBSET Nat
      OBVIOUS
    <3> HIDE DEF bad
    <3> QED
      BY LeastNat
  <2>2. CASE n = 0
    <3> DEFINE h == [s \in UpTo(0) |-> 0]
    <3>1. \A s \in UpTo(0) : s = {}
      BY <1>1
    <3>2. AddsOver(f, UpTo(0), h)
      BY <3>1 DEF AddsOver
    <3> QED
      BY <2>1, <2>2, <3>2
  <2>3. CASE n # 0
    <3>1. n - 1 \in Nat /\ n - 1 \notin bad
      <4>1. n \in Nat
        OBVIOUS
      <4> HIDE DEF bad
      <4> QED
        BY <2>1, <2>3, <4>1
    <3>2. PICK g : AddsOver(f, UpTo(n - 1), g)
      BY <3>1
    <3> DEFINE Body(s) == IF s = {} THEN 0 ELSE f[Pick(s)] + g[s \ {Pick(s)}]
               h == [s \in UpTo(n) |-> Body(s)]
    <3>3. \A s \in UpTo(n - 1) : g[s] = Body(s)
      BY <3>2 DEF AddsOver
    <3>4. \A s \in UpTo(n) : s # {} =>
             s \ {Pick(s)} \in UpTo(n - 1) /\ s \ {Pick(s)} \in UpTo(n)
      <4> SUFFICES ASSUME NEW s \in UpTo(n), s # {}
                   PROVE  s \ {Pick(s)} \in UpTo(n - 1) /\ s \ {Pick(s)} \in UpTo(n)
        OBVIOUS
      <4>1. Cardinality(s \ {Pick(s)}) = Cardinality(s) - 1 /\ Cardinality(s) <= n
            /\ Cardinality(s) \in Nat
        BY <1>1, PickIn
      <4> QED
        BY <2>1, <4>1
    <3>5. \A s \in UpTo(n) : s # {} => h[s \ {Pick(s)}] = g[s \ {Pick(s)}]
      BY <3>3, <3>4
    <3> HIDE DEF UpTo
    <3>6. \A s \in UpTo(n) : Body(s) = IF s = {} THEN 0 ELSE f[Pick(s)] + h[s \ {Pick(s)}]
      <4> HIDE DEF h
      <4> QED
        BY <3>5
    <3>7. h = [s \in UpTo(n) |-> Body(s)]
      OBVIOUS
    <3>8. h = [s \in UpTo(n) |-> IF s = {} THEN 0 ELSE f[Pick(s)] + h[s \ {Pick(s)}]]
      <4> HIDE DEF h, Body
      <4> QED
        BY <3>6, <3>7
    <3>9. AddsOver(f, UpTo(n), h)
      <4> HIDE DEF h
      <4> QED
        BY <3>8 DEF AddsOver
    <3> QED
      BY <2>1, <3>9
  <2> QED
    BY <2>2, <2>3
<1>3. Cardinality(S) \in Nat /\ UpTo(Cardinality(S)) = SUBSET S
  BY FS_Subset, FS_CardinalityType
<1> QED
  BY <1>2, <1>3

\* What a sum of a subset is inside the solution for a larger set: the same.
LEMMA SolutionsAgree ==
    ASSUME NEW f, NEW S, IsFiniteSet(S), NEW U \in SUBSET S, NEW g, NEW h,
           AddsOver(f, SUBSET S, g), AddsOver(f, SUBSET U, h)
    PROVE  \A s \in SUBSET U : g[s] = h[s]
<1> DEFINE bad == {s \in SUBSET U : g[s] # h[s]}
<1>1. ASSUME NEW s \in SUBSET U
      PROVE  /\ g[s] = IF s = {} THEN 0 ELSE f[Pick(s)] + g[s \ {Pick(s)}]
             /\ h[s] = IF s = {} THEN 0 ELSE f[Pick(s)] + h[s \ {Pick(s)}]
  BY DEF AddsOver
<1> SUFFICES ASSUME bad # {}
             PROVE  FALSE
  OBVIOUS
<1>2. IsFiniteSet(U) /\ bad \in SUBSET (SUBSET U)
  BY FS_Subset
<1>3. PICK s \in bad : \A x \in s : s \ {x} \notin bad
  <2> HIDE DEF bad
  <2> QED
    BY <1>2, LeastSubset
<1>4. s # {} /\ s \in SUBSET U /\ g[s] # h[s]
  BY <1>1
<1>5. s \ {Pick(s)} \in SUBSET U /\ s \ {Pick(s)} \notin bad
  <2> HIDE DEF bad
  <2> QED
    BY <1>3, <1>4, PickIn
<1>6. g[s \ {Pick(s)}] = h[s \ {Pick(s)}]
  BY <1>5
<1> QED
  BY <1>1, <1>4, <1>6

LEMMA SumEmpty == \A f : SumOf(f, {}) = 0
<1> SUFFICES ASSUME NEW f
             PROVE  SumOf(f, {}) = 0
  OBVIOUS
<1> DEFINE h == CHOOSE h : AddsOver(f, SUBSET {}, h)
<1>1. AddsOver(f, SUBSET {}, h)
  <2>1. \E g : AddsOver(f, SUBSET {}, g)
    BY SolutionExists, FS_EmptySet
  <2> QED
    BY <2>1, Zenon
<1> HIDE DEF h
<1>2. h[{}] = 0
  BY <1>1 DEF AddsOver
<1> QED
  BY <1>2, SumUnfolds DEF h

LEMMA SumPeels ==
    ASSUME NEW f, NEW S, IsFiniteSet(S), S # {}
    PROVE  SumOf(f, S) = f[Pick(S)] + SumOf(f, S \ {Pick(S)})
<1> DEFINE U == S \ {Pick(S)}
           h == CHOOSE h : AddsOver(f, SUBSET S, h)
           g == CHOOSE g : AddsOver(f, SUBSET U, g)
<1>1. IsFiniteSet(U) /\ U \in SUBSET S
  BY FS_RemoveElement
<1> HIDE DEF U
<1>2. AddsOver(f, SUBSET S, h)
  <2>1. \E k : AddsOver(f, SUBSET S, k)
    BY SolutionExists
  <2> QED
    BY <2>1, Zenon
<1>3. AddsOver(f, SUBSET U, g)
  <2>1. \E k : AddsOver(f, SUBSET U, k)
    BY <1>1, SolutionExists
  <2> QED
    BY <2>1, Zenon
<1> HIDE DEF h, g
<1>4. h[U] = g[U]
  BY <1>1, <1>2, <1>3, SolutionsAgree
<1>5. h[S] = f[Pick(S)] + h[U]
  BY <1>2 DEF AddsOver, U
<1>6. SumOf(f, S) = h[S]
  BY SumUnfolds DEF h
<1>7. SumOf(f, U) = g[U]
  BY SumUnfolds DEF g
<1> QED
  BY <1>4, <1>5, <1>6, <1>7 DEF U

-----------------------------------------------------------------------------
(* Sums of whole numbers.                                                   *)

LEMMA SumType ==
    ASSUME NEW f, NEW S, IsFiniteSet(S), Whole(f, S)
    PROVE  SumOf(f, S) \in Int
<1> DEFINE bad == {T \in SUBSET S : SumOf(f, T) \notin Int}
<1> SUFFICES ASSUME bad # {}
             PROVE  FALSE
  OBVIOUS
<1>1. bad \in SUBSET (SUBSET S)
  OBVIOUS
<1>2. PICK T \in bad : \A x \in T : T \ {x} \notin bad
  <2> HIDE DEF bad
  <2> QED
    BY <1>1, LeastSubset
<1>3. T \in SUBSET S /\ IsFiniteSet(T) /\ SumOf(f, T) \notin Int
  BY FS_Subset
<1>4. T # {}
  BY <1>3, SumEmpty
<1>5. Pick(T) \in T
  BY <1>4, PickIn
<1>6. SumOf(f, T \ {Pick(T)}) \in Int
  <2>1. T \ {Pick(T)} \in SUBSET S /\ T \ {Pick(T)} \notin bad
    <3> HIDE DEF bad
    <3> QED
      BY <1>2, <1>3, <1>5
  <2> QED
    BY <2>1
<1>7. f[Pick(T)] \in Int
  BY <1>3, <1>5 DEF Whole
<1>8. SumOf(f, T) = f[Pick(T)] + SumOf(f, T \ {Pick(T)})
  BY <1>3, <1>4, SumPeels
<1> QED
  BY <1>3, <1>6, <1>7, <1>8

\* Any element may be taken out first.
LEMMA SumRemove ==
    ASSUME NEW f, NEW S, IsFiniteSet(S), Whole(f, S), NEW x \in S
    PROVE  SumOf(f, S) = f[x] + SumOf(f, S \ {x})
<1> DEFINE Bad(T) == \E y \in T : SumOf(f, T) # f[y] + SumOf(f, T \ {y})
           bad == {T \in SUBSET S : Bad(T)}
<1> SUFFICES ASSUME bad # {}
             PROVE  FALSE
  OBVIOUS
<1>1. bad \in SUBSET (SUBSET S)
  OBVIOUS
<1>2. PICK T \in bad : \A y \in T : T \ {y} \notin bad
  <2> HIDE DEF bad
  <2> QED
    BY <1>1, LeastSubset
<1>3. T \in SUBSET S /\ Bad(T)
  OBVIOUS
<1>4. PICK y \in T : SumOf(f, T) # f[y] + SumOf(f, T \ {y})
  BY <1>3
<1> DEFINE c == Pick(T)
<1>5. c \in T
  BY PickIn
<1> HIDE DEF c
<1>6. IsFiniteSet(T)
  BY <1>3, FS_Subset
<1>7. SumOf(f, T) = f[c] + SumOf(f, T \ {c})
  BY <1>5, <1>6, SumPeels DEF c
<1>8. y # c
  BY <1>4, <1>7
<1>9. \A z \in T : T \ {z} \in SUBSET S /\ ~ Bad(T \ {z})
  <2> HIDE DEF Bad
  <2> QED
    BY <1>2, <1>3
<1>10. SumOf(f, T \ {c}) = f[y] + SumOf(f, (T \ {c}) \ {y})
  BY <1>5, <1>8, <1>9
<1>11. SumOf(f, T \ {y}) = f[c] + SumOf(f, (T \ {y}) \ {c})
  BY <1>5, <1>8, <1>9
<1>12. (T \ {c}) \ {y} = (T \ {y}) \ {c}
  OBVIOUS
<1>13. f[y] \in Int /\ f[c] \in Int
  BY <1>3, <1>5 DEF Whole
<1>14. SumOf(f, (T \ {y}) \ {c}) \in Int
  <2> DEFINE R == (T \ {y}) \ {c}
  <2>1. R \in SUBSET S
    BY <1>3
  <2> HIDE DEF R
  <2>2. IsFiniteSet(R) /\ Whole(f, R)
    BY <2>1, FS_Subset DEF Whole
  <2>3. SumOf(f, R) \in Int
    BY <2>2, SumType
  <2> QED
    BY <2>3 DEF R
<1>15. SumOf(f, (T \ {c}) \ {y}) = SumOf(f, (T \ {y}) \ {c})
  BY <1>12
<1> HIDE DEF Bad, bad
<1> QED
  BY <1>4, <1>7, <1>10, <1>11, <1>13, <1>14, <1>15

\* Functions that agree on a set have the same sum over it.
LEMMA SumSame ==
    ASSUME NEW f, NEW g, NEW S, IsFiniteSet(S), \A x \in S : f[x] = g[x]
    PROVE  SumOf(f, S) = SumOf(g, S)
<1> DEFINE bad == {T \in SUBSET S : SumOf(f, T) # SumOf(g, T)}
<1> SUFFICES ASSUME bad # {}
             PROVE  FALSE
  OBVIOUS
<1>1. bad \in SUBSET (SUBSET S)
  OBVIOUS
<1>2. PICK T \in bad : \A x \in T : T \ {x} \notin bad
  <2> HIDE DEF bad
  <2> QED
    BY <1>1, LeastSubset
<1>3. T \in SUBSET S /\ SumOf(f, T) # SumOf(g, T)
  OBVIOUS
<1>4. T # {} /\ IsFiniteSet(T)
  BY <1>3, SumEmpty, FS_Subset
<1>5. Pick(T) \in T /\ Pick(T) \in S
  BY <1>3, <1>4, PickIn
<1>6. SumOf(f, T \ {Pick(T)}) = SumOf(g, T \ {Pick(T)})
  <2>1. T \ {Pick(T)} \in SUBSET S /\ T \ {Pick(T)} \notin bad
    <3> HIDE DEF bad
    <3> QED
      BY <1>2, <1>3, <1>5
  <2> QED
    BY <2>1
<1>7. SumOf(f, T) = f[Pick(T)] + SumOf(f, T \ {Pick(T)})
  BY <1>4, SumPeels
<1>8. SumOf(g, T) = g[Pick(T)] + SumOf(g, T \ {Pick(T)})
  BY <1>4, SumPeels
<1> QED
  BY <1>3, <1>5, <1>6, <1>7, <1>8

\* One value of the function changes: the sum changes by as much.
LEMMA SumChange ==
    ASSUME NEW f, NEW g, NEW S, IsFiniteSet(S), Whole(f, S), NEW x \in S, g[x] \in Int,
           \A y \in S \ {x} : g[y] = f[y]
    PROVE  SumOf(g, S) = SumOf(f, S) - f[x] + g[x]
<1>1. IsFiniteSet(S \ {x}) /\ Whole(f, S \ {x}) /\ Whole(g, S)
  BY FS_RemoveElement DEF Whole
<1>2. SumOf(f, S) = f[x] + SumOf(f, S \ {x})
  BY SumRemove
<1>3. SumOf(g, S) = g[x] + SumOf(g, S \ {x})
  BY <1>1, SumRemove
<1>4. SumOf(g, S \ {x}) = SumOf(f, S \ {x})
  BY <1>1, SumSame
<1>5. SumOf(f, S \ {x}) \in Int /\ f[x] \in Int
  BY <1>1, SumType DEF Whole
<1> QED
  BY <1>2, <1>3, <1>4, <1>5

\* An element joins the set.
LEMMA SumAdd ==
    ASSUME NEW f, NEW S, IsFiniteSet(S), NEW x, x \notin S, Whole(f, S \cup {x})
    PROVE  SumOf(f, S \cup {x}) = f[x] + SumOf(f, S)
<1>1. IsFiniteSet(S \cup {x}) /\ (S \cup {x}) \ {x} = S
  BY FS_AddElement
<1> QED
  BY <1>1, SumRemove

\* A pointwise larger function has no smaller a sum.
LEMMA SumLeq ==
    ASSUME NEW f, NEW g, NEW S, IsFiniteSet(S), Whole(f, S), Whole(g, S),
           \A x \in S : f[x] <= g[x]
    PROVE  SumOf(f, S) <= SumOf(g, S)
<1> DEFINE bad == {T \in SUBSET S : ~ (SumOf(f, T) <= SumOf(g, T))}
<1> SUFFICES ASSUME bad # {}
             PROVE  FALSE
  OBVIOUS
<1>1. bad \in SUBSET (SUBSET S)
  OBVIOUS
<1>2. PICK T \in bad : \A x \in T : T \ {x} \notin bad
  <2> HIDE DEF bad
  <2> QED
    BY <1>1, LeastSubset
<1>3. T \in SUBSET S /\ ~ (SumOf(f, T) <= SumOf(g, T))
  OBVIOUS
<1>4. T # {} /\ IsFiniteSet(T)
  <2>1. SumOf(f, {}) = 0 /\ SumOf(g, {}) = 0
    BY SumEmpty
  <2>2. T # {}
    BY <1>3, <2>1
  <2> QED
    BY <1>3, <2>2, FS_Subset
<1> DEFINE c == Pick(T)
           R == T \ {c}
<1>5. c \in T /\ c \in S
  BY <1>3, <1>4, PickIn
<1>6. R \in SUBSET S /\ R \notin bad /\ IsFiniteSet(R)
  <2> HIDE DEF bad
  <2> QED
    BY <1>2, <1>3, <1>4, <1>5, FS_RemoveElement
<1>7. SumOf(f, T) = f[c] + SumOf(f, R)
  BY <1>4, SumPeels
<1>8. SumOf(g, T) = g[c] + SumOf(g, R)
  BY <1>4, SumPeels
<1> HIDE DEF c, R
<1>9. SumOf(f, R) <= SumOf(g, R)
  BY <1>6
<1>10. Whole(f, R) /\ Whole(g, R)
  BY <1>6 DEF Whole
<1>11. SumOf(f, R) \in Int /\ SumOf(g, R) \in Int
  BY <1>6, <1>10, SumType
<1>12. f[c] \in Int /\ g[c] \in Int /\ f[c] <= g[c]
  BY <1>5 DEF Whole
<1> HIDE DEF bad
<1> QED
  BY <1>3, <1>7, <1>8, <1>9, <1>11, <1>12

\* Zeros add nothing.
LEMMA SumZero ==
    ASSUME NEW f, NEW S, IsFiniteSet(S), \A x \in S : f[x] = 0
    PROVE  SumOf(f, S) = 0
<1> DEFINE bad == {T \in SUBSET S : SumOf(f, T) # 0}
<1> SUFFICES ASSUME bad # {}
             PROVE  FALSE
  OBVIOUS
<1>1. bad \in SUBSET (SUBSET S)
  OBVIOUS
<1>2. PICK T \in bad : \A x \in T : T \ {x} \notin bad
  <2> HIDE DEF bad
  <2> QED
    BY <1>1, LeastSubset
<1>3. T \in SUBSET S /\ SumOf(f, T) # 0
  OBVIOUS
<1>4. T # {} /\ IsFiniteSet(T)
  BY <1>3, SumEmpty, FS_Subset
<1>5. Pick(T) \in T /\ f[Pick(T)] = 0
  BY <1>3, <1>4, PickIn
<1>6. SumOf(f, T \ {Pick(T)}) = 0
  <2>1. T \ {Pick(T)} \in SUBSET S /\ T \ {Pick(T)} \notin bad
    <3> HIDE DEF bad
    <3> QED
      BY <1>2, <1>3, <1>5
  <2> QED
    BY <2>1
<1>7. SumOf(f, T) = f[Pick(T)] + SumOf(f, T \ {Pick(T)})
  BY <1>4, SumPeels
<1> QED
  BY <1>3, <1>5, <1>6, <1>7

\* A part of a sum of naturals is no larger than the whole.
LEMMA SumPart ==
    ASSUME NEW f, NEW S, IsFiniteSet(S), \A x \in S : f[x] \in Nat, NEW U \in SUBSET S
    PROVE  SumOf(f, U) \in Nat /\ SumOf(f, S) \in Nat /\ SumOf(f, U) <= SumOf(f, S)
<1>1. Whole(f, S)
  BY DEF Whole
<1> DEFINE bad == {T \in SUBSET S : ~ /\ SumOf(f, T \cap U) \in Nat
                                      /\ SumOf(f, T) \in Nat
                                      /\ SumOf(f, T \cap U) <= SumOf(f, T)}
<1>2. bad = {}
  <2> SUFFICES ASSUME bad # {}
               PROVE  FALSE
    OBVIOUS
  <2>1. bad \in SUBSET (SUBSET S)
    OBVIOUS
  <2>2. PICK T \in bad : \A x \in T : T \ {x} \notin bad
    <3> HIDE DEF bad
    <3> QED
      BY <2>1, LeastSubset
  <2>3. /\ T \in SUBSET S
        /\ ~ /\ SumOf(f, T \cap U) \in Nat
             /\ SumOf(f, T) \in Nat
             /\ SumOf(f, T \cap U) <= SumOf(f, T)
    OBVIOUS
  <2>4. T # {} /\ IsFiniteSet(T)
    <3>1. {} \cap U = {}
      OBVIOUS
    <3>2. T # {}
      BY <2>3, <3>1, SumEmpty
    <3> QED
      BY <2>3, <3>2, FS_Subset
  <2> DEFINE c == Pick(T)
             R == T \ {c}
  <2>5. c \in T /\ c \in S
    BY <2>3, <2>4, PickIn
  <2>6. R \in SUBSET S /\ R \notin bad /\ IsFiniteSet(R)
    <3> HIDE DEF bad
    <3> QED
      BY <2>2, <2>3, <2>4, <2>5, FS_RemoveElement
  <2>7. SumOf(f, T) = f[c] + SumOf(f, R)
    BY <2>4, SumPeels
  <2>8. /\ SumOf(f, R \cap U) \in Nat
        /\ SumOf(f, R) \in Nat
        /\ SumOf(f, R \cap U) <= SumOf(f, R)
    BY <2>6
  <2>9. SumOf(f, T \cap U) = IF c \in U THEN f[c] + SumOf(f, R \cap U) ELSE SumOf(f, R \cap U)
    <3>1. CASE c \in U
      <4>1. c \in T \cap U /\ (T \cap U) \ {c} = R \cap U
        BY <2>5, <3>1
      <4>2. IsFiniteSet(T \cap U) /\ Whole(f, T \cap U)
        BY <1>1, <2>3, FS_Subset DEF Whole
      <4> QED
        BY <3>1, <4>1, <4>2, SumRemove
    <3>2. CASE c \notin U
      <4>1. T \cap U = R \cap U
        BY <3>2
      <4> QED
        BY <3>2, <4>1
    <3> QED
      BY <3>1, <3>2
  <2> HIDE DEF c, R, bad
  <2>10. f[c] \in Nat
    BY <2>5
  <2> QED
    BY <2>3, <2>7, <2>8, <2>9, <2>10
<1>3. S \in SUBSET S /\ S \cap U = U
  OBVIOUS
<1> QED
  BY <1>2, <1>3

\* Terms that are zero may be left out of the set.
LEMMA SumSupport ==
    ASSUME NEW f, NEW S, IsFiniteSet(S), Whole(f, S), NEW U \in SUBSET S,
           \A x \in S \ U : f[x] = 0
    PROVE  SumOf(f, S) = SumOf(f, U)
<1> DEFINE bad == {T \in SUBSET S : SumOf(f, T) # SumOf(f, T \cap U)}
<1>1. bad = {}
  <2> SUFFICES ASSUME bad # {}
               PROVE  FALSE
    OBVIOUS
  <2>1. bad \in SUBSET (SUBSET S)
    OBVIOUS
  <2>2. PICK T \in bad : \A x \in T : T \ {x} \notin bad
    <3> HIDE DEF bad
    <3> QED
      BY <2>1, LeastSubset
  <2>3. T \in SUBSET S /\ SumOf(f, T) # SumOf(f, T \cap U)
    OBVIOUS
  <2>4. T # {} /\ IsFiniteSet(T)
    <3>1. {} \cap U = {}
      OBVIOUS
    <3>2. T # {}
      BY <2>3, <3>1
    <3> QED
      BY <2>3, <3>2, FS_Subset
  <2> DEFINE c == Pick(T)
             R == T \ {c}
  <2>5. c \in T /\ c \in S /\ f[c] \in Int
    BY <2>3, <2>4, PickIn DEF Whole
  <2>6. R \in SUBSET S /\ R \notin bad /\ IsFiniteSet(R)
    <3> HIDE DEF bad
    <3> QED
      BY <2>2, <2>3, <2>4, <2>5, FS_RemoveElement
  <2>7. SumOf(f, T) = f[c] + SumOf(f, R)
    BY <2>4, SumPeels
  <2>8. SumOf(f, R) = SumOf(f, R \cap U)
    BY <2>6
  <2>9. SumOf(f, R) \in Int
    <3>1. Whole(f, R)
      BY <2>6 DEF Whole
    <3> QED
      BY <2>6, <3>1, SumType
  <2>10. CASE c \in U
    <3>1. c \in T \cap U /\ (T \cap U) \ {c} = R \cap U
      BY <2>5, <2>10
    <3>2. IsFiniteSet(T \cap U) /\ Whole(f, T \cap U)
      BY <2>3, FS_Subset DEF Whole
    <3>3. SumOf(f, T \cap U) = f[c] + SumOf(f, R \cap U)
      BY <3>1, <3>2, SumRemove
    <3> QED
      BY <2>3, <2>7, <2>8, <3>3
  <2>11. CASE c \notin U
    <3>1. T \cap U = R \cap U /\ f[c] = 0
      BY <2>5, <2>11
    <3>2. SumOf(f, T \cap U) = SumOf(f, R \cap U)
      BY <3>1
    <3> HIDE DEF bad, R, c
    <3>3. SumOf(f, T) = SumOf(f, R)
      BY <2>7, <2>9, <3>1
    <3> QED
      BY <2>3, <2>8, <3>2, <3>3
  <2> QED
    BY <2>10, <2>11
<1>2. S \in SUBSET S /\ S \cap U = U
  OBVIOUS
<1> QED
  BY <1>1, <1>2

-----------------------------------------------------------------------------
(* Sums taken in another way.                                               *)

\* What adds up step by step like a sum is the sum.
LEMMA SumUnique ==
    ASSUME NEW f, NEW S, IsFiniteSet(S), NEW G, G[{}] = 0,
           \A T \in SUBSET S : \A x \in T : G[T] = f[x] + G[T \ {x}]
    PROVE  G[S] = SumOf(f, S)
<1> DEFINE bad == {T \in SUBSET S : G[T] # SumOf(f, T)}
<1>1. bad = {}
  <2> SUFFICES ASSUME bad # {}
               PROVE  FALSE
    OBVIOUS
  <2>1. bad \in SUBSET (SUBSET S)
    OBVIOUS
  <2>2. PICK T \in bad : \A x \in T : T \ {x} \notin bad
    <3> HIDE DEF bad
    <3> QED
      BY <2>1, LeastSubset
  <2>3. T \in SUBSET S /\ G[T] # SumOf(f, T)
    OBVIOUS
  <2>4. T # {} /\ IsFiniteSet(T)
    BY <2>3, SumEmpty, FS_Subset
  <2>5. Pick(T) \in T
    BY <2>4, PickIn
  <2>6. G[T \ {Pick(T)}] = SumOf(f, T \ {Pick(T)})
    <3>1. T \ {Pick(T)} \in SUBSET S /\ T \ {Pick(T)} \notin bad
      <4> HIDE DEF bad
      <4> QED
        BY <2>2, <2>3, <2>5
    <3> QED
      BY <3>1
  <2>7. SumOf(f, T) = f[Pick(T)] + SumOf(f, T \ {Pick(T)})
    BY <2>4, SumPeels
  <2>8. G[T] = f[Pick(T)] + G[T \ {Pick(T)}]
    BY <2>3, <2>5
  <2> QED
    BY <2>3, <2>6, <2>7, <2>8
<1> QED
  BY <1>1

\* The sum over two sets that share nothing.
LEMMA SumUnion ==
    ASSUME NEW f, NEW S, NEW U, IsFiniteSet(S), IsFiniteSet(U), S \cap U = {},
           Whole(f, S), Whole(f, U)
    PROVE  SumOf(f, S \cup U) = SumOf(f, S) + SumOf(f, U)
<1> DEFINE G == [T \in SUBSET S |-> SumOf(f, T \cup U) - SumOf(f, U)]
<1>1. ASSUME NEW T \in SUBSET S
      PROVE  IsFiniteSet(T \cup U) /\ Whole(f, T \cup U) /\ SumOf(f, T \cup U) \in Int
  <2>1. IsFiniteSet(T \cup U)
    BY FS_Subset, FS_Union
  <2>2. Whole(f, T \cup U)
    BY DEF Whole
  <2> QED
    BY <2>1, <2>2, SumType
<1>2. SumOf(f, U) \in Int
  BY SumType
<1>3. G[{}] = 0
  <2>1. {} \cup U = U
    OBVIOUS
  <2>2. G[{}] = SumOf(f, U) - SumOf(f, U)
    BY <2>1
  <2> QED
    BY <1>2, <2>2
<1>4. ASSUME NEW T \in SUBSET S, NEW x \in T
      PROVE  G[T] = f[x] + G[T \ {x}]
  <2>1. x \in T \cup U /\ (T \cup U) \ {x} = (T \ {x}) \cup U /\ T \ {x} \in SUBSET S
    OBVIOUS
  <2>2. SumOf(f, T \cup U) = f[x] + SumOf(f, (T \ {x}) \cup U)
    <3> DEFINE V == T \cup U
    <3>0. IsFiniteSet(V) /\ Whole(f, V) /\ x \in V
      BY <1>1, <2>1
    <3> HIDE DEF V
    <3>1. SumOf(f, V) = f[x] + SumOf(f, V \ {x})
      BY <3>0, SumRemove
    <3> USE DEF V
    <3> QED
      BY <2>1, <3>1
  <2>3. f[x] \in Int
    BY DEF Whole
  <2>4. SumOf(f, (T \ {x}) \cup U) \in Int
    BY <1>1, <2>1
  <2>5. G[T] = SumOf(f, T \cup U) - SumOf(f, U)
        /\ G[T \ {x}] = SumOf(f, (T \ {x}) \cup U) - SumOf(f, U)
    BY <2>1
  <2> HIDE DEF G
  <2> QED
    BY <1>2, <2>2, <2>3, <2>4, <2>5
<1>5. G[S] = SumOf(f, S)
  <2> HIDE DEF G
  <2> QED
    BY <1>3, <1>4, SumUnique
<1>6. G[S] = SumOf(f, S \cup U) - SumOf(f, U)
  OBVIOUS
<1>7. SumOf(f, S \cup U) \in Int
  BY <1>1
<1> HIDE DEF G
<1> QED
  BY <1>2, <1>5, <1>6, <1>7

LEMMA SumNegative ==
    ASSUME NEW f, NEW g, NEW S, IsFiniteSet(S), Whole(f, S), \A x \in S : g[x] = - f[x]
    PROVE  SumOf(g, S) = - SumOf(f, S)
<1> DEFINE G == [T \in SUBSET S |-> - SumOf(f, T)]
<1>1. G[{}] = 0
  <2>1. SumOf(f, {}) = 0
    BY SumEmpty
  <2> QED
    BY <2>1
<1>2. ASSUME NEW T \in SUBSET S, NEW x \in T
      PROVE  G[T] = g[x] + G[T \ {x}]
  <2>1. IsFiniteSet(T) /\ Whole(f, T) /\ IsFiniteSet(T \ {x}) /\ Whole(f, T \ {x})
    BY FS_Subset DEF Whole
  <2>2. SumOf(f, T) = f[x] + SumOf(f, T \ {x})
    BY <2>1, SumRemove
  <2>3. SumOf(f, T \ {x}) \in Int /\ f[x] \in Int /\ g[x] = - f[x]
    BY <2>1, SumType DEF Whole
  <2>4. G[T] = - SumOf(f, T) /\ G[T \ {x}] = - SumOf(f, T \ {x})
    OBVIOUS
  <2> HIDE DEF G
  <2> QED
    BY <2>2, <2>3, <2>4
<1>3. G[S] = SumOf(g, S)
  <2> HIDE DEF G
  <2> QED
    BY <1>1, <1>2, SumUnique
<1> QED
  BY <1>3

\* The values a function takes on a finite set are finitely many.
LEMMA FiniteImage ==
    ASSUME NEW m, NEW S, IsFiniteSet(S)
    PROVE  IsFiniteSet({m[x] : x \in S})
<1> DEFINE T == {m[x] : x \in S}
           f == [x \in S |-> m[x]]
<1>1. f \in [S -> T]
  OBVIOUS
<1>2. \A y \in T : \E x \in S : f[x] = y
  OBVIOUS
<1> HIDE DEF f, T
<1>3. f \in Surjection(S, T)
  BY <1>1, <1>2 DEF Surjection
<1>4. IsFiniteSet(T)
  BY <1>3, FS_Surjection
<1> QED
  BY <1>4 DEF T

\* The elements may be given other names, each a name of its own.
LEMMA SumRename ==
    ASSUME NEW f, NEW g, NEW m, NEW S, IsFiniteSet(S),
           \A x, y \in S : m[x] = m[y] => x = y,
           \A x \in S : f[m[x]] = g[x] /\ g[x] \in Int
    PROVE  SumOf(f, {m[x] : x \in S}) = SumOf(g, S)
<1> DEFINE M(T) == {m[x] : x \in T}
           G == [T \in SUBSET S |-> SumOf(f, M(T))]
<1>1. G[{}] = 0
  <2>1. M({}) = {}
    OBVIOUS
  <2>2. SumOf(f, M({})) = 0
    BY <2>1, SumEmpty
  <2> QED
    BY <2>2
<1>2. ASSUME NEW T \in SUBSET S, NEW x \in T
      PROVE  G[T] = g[x] + G[T \ {x}]
  <2>1. IsFiniteSet(T)
    BY FS_Subset
  <2>2. IsFiniteSet(M(T))
    BY <2>1, FiniteImage
  <2>3. Whole(f, M(T))
    BY DEF Whole
  <2>4. m[x] \in M(T) /\ M(T) \ {m[x]} = M(T \ {x}) /\ f[m[x]] = g[x]
    OBVIOUS
  <2>5. SumOf(f, M(T)) = f[m[x]] + SumOf(f, M(T) \ {m[x]})
    <3> HIDE DEF M
    <3> QED
      BY <2>2, <2>3, <2>4, SumRemove
  <2>6. G[T] = SumOf(f, M(T)) /\ G[T \ {x}] = SumOf(f, M(T \ {x}))
    OBVIOUS
  <2> HIDE DEF G, M
  <2> QED
    BY <2>4, <2>5, <2>6
<1>3. G[S] = SumOf(g, S)
  <2> HIDE DEF G
  <2> QED
    BY <1>1, <1>2, SumUnique
<1> QED
  BY <1>3

\* A sum whose terms are not written as a function's values: h is the recursion
\* MapThenSumSet stands for.
LEMMA SumIs ==
    ASSUME NEW f, NEW S, IsFiniteSet(S), NEW h, AddsOver(f, SUBSET S, h)
    PROVE  h[S] = SumOf(f, S)
<1> DEFINE g == CHOOSE g : AddsOver(f, SUBSET S, g)
<1>1. AddsOver(f, SUBSET S, g)
  <2>1. \E k : AddsOver(f, SUBSET S, k)
    BY SolutionExists
  <2> QED
    BY <2>1, Zenon
<1>2. SumOf(f, S) = g[S]
  BY SumUnfolds
<1> HIDE DEF g
<1>3. \A s \in SUBSET S : g[s] = h[s]
  BY <1>1, SolutionsAgree
<1> QED
  BY <1>2, <1>3

-----------------------------------------------------------------------------
(* Folds over sequences.                                                    *)

\* FoldLeft over the positions 1 .. n, its step at position i being the function F[i]:
\* h gives the fold of every set of positions, the last position coming last.
FoldsOver(F, base, D, h) ==
    h = [s \in D |-> IF s = {} THEN base ELSE F[Max(s)][h[s \ {Max(s)}]]]

LEMMA MaxIn ==
    ASSUME NEW n \in Nat, NEW s \in SUBSET (1 .. n), s # {}
    PROVE  Max(s) \in s /\ \A y \in s : Max(s) >= y
<1> DEFINE above == {k \in Nat : \A y \in s : y <= k}
<1>1. above \in SUBSET Nat /\ n \in above
  OBVIOUS
<1>2. PICK m \in above : \A k \in above : m <= k
  <2> HIDE DEF above
  <2> QED
    BY <1>1, LeastNat
<1>3. m \in s
  <2> SUFFICES ASSUME m \notin s
               PROVE  FALSE
    OBVIOUS
  <2>1. m \in Nat /\ \A y \in s : y <= m /\ y # m /\ y \in 1 .. n
    OBVIOUS
  <2>2. m # 0
    <3>1. PICK y \in s : TRUE
      OBVIOUS
    <3> QED
      BY <2>1, <3>1
  <2>3. m - 1 \in above
    BY <2>1, <2>2
  <2> QED
    BY <1>2, <2>1, <2>3
<1>4. \A y \in s : m >= y
  OBVIOUS
<1>5. \E x \in s : \A y \in s : x >= y
  BY <1>3, <1>4
<1> QED
  BY <1>5, Zenon DEF Max

\* The last of the first positions.
LEMMA MaxUpTo ==
    ASSUME NEW k \in Nat \ {0}
    PROVE  Max(1 .. k) = k /\ (1 .. k) \ {Max(1 .. k)} = 1 .. k - 1
<1>1. 1 .. k \in SUBSET (1 .. k) /\ 1 .. k # {}
  OBVIOUS
<1>2. Max(1 .. k) \in 1 .. k /\ \A y \in 1 .. k : Max(1 .. k) >= y
  BY <1>1, MaxIn
<1>3. Max(1 .. k) = k
  BY <1>2
<1> QED
  BY <1>3

\* A fold exists whose steps stay in V.
LEMMA FoldExists ==
    ASSUME NEW V, NEW base \in V, NEW n \in Nat, NEW F,
           \A i \in 1 .. n, v \in V : F[i][v] \in V
    PROVE  \E h : /\ FoldsOver(F, base, SUBSET (1 .. n), h)
                  /\ \A s \in SUBSET (1 .. n) : h[s] \in V
<1> DEFINE S == 1 .. n
           UpTo(m) == {s \in SUBSET S : Cardinality(s) <= m}
           Good(m, h) == FoldsOver(F, base, UpTo(m), h) /\ \A s \in UpTo(m) : h[s] \in V
           bad == {m \in Nat : ~ \E h : Good(m, h)}
<1>1. IsFiniteSet(S)
  BY FS_Interval
<1>2. \A s \in SUBSET S : IsFiniteSet(s) /\ Cardinality(s) \in Nat
                          /\ (Cardinality(s) = 0 <=> s = {})
                          /\ \A x \in s : Cardinality(s \ {x}) = Cardinality(s) - 1
  <2> SUFFICES ASSUME NEW s \in SUBSET S
               PROVE  IsFiniteSet(s) /\ Cardinality(s) \in Nat
                      /\ (Cardinality(s) = 0 <=> s = {})
                      /\ \A x \in s : Cardinality(s \ {x}) = Cardinality(s) - 1
    OBVIOUS
  <2>1. IsFiniteSet(s)
    BY <1>1, FS_Subset
  <2> QED
    BY <2>1, FS_CardinalityType, FS_EmptySet, FS_RemoveElement
<1>3. \A s \in SUBSET S : s # {} => Max(s) \in s
  BY MaxIn
<1> HIDE DEF S
<1>4. bad = {}
  <2> SUFFICES ASSUME bad # {}
               PROVE  FALSE
    OBVIOUS
  <2>1. PICK m \in bad : \A k \in bad : m <= k
    <3> bad \in SUBSET Nat
      OBVIOUS
    <3> HIDE DEF bad
    <3> QED
      BY LeastNat
  <2>2. CASE m = 0
    <3> DEFINE h == [s \in UpTo(0) |-> base]
    <3>1. \A s \in UpTo(0) : s = {}
      BY <1>2
    <3>2. Good(0, h)
      BY <3>1 DEF FoldsOver
    <3> QED
      BY <2>1, <2>2, <3>2
  <2>3. CASE m # 0
    <3>1. m - 1 \in Nat /\ m - 1 \notin bad
      <4>1. m \in Nat
        OBVIOUS
      <4> HIDE DEF bad
      <4> QED
        BY <2>1, <2>3, <4>1
    <3>2. PICK g : Good(m - 1, g)
      BY <3>1
    <3> DEFINE Body(s) == IF s = {} THEN base ELSE F[Max(s)][g[s \ {Max(s)}]]
               h == [s \in UpTo(m) |-> Body(s)]
    <3>3. \A s \in UpTo(m - 1) : g[s] = Body(s) /\ g[s] \in V
      BY <3>2 DEF FoldsOver
    <3>4. \A s \in UpTo(m) : s # {} =>
             s \ {Max(s)} \in UpTo(m - 1) /\ s \ {Max(s)} \in UpTo(m) /\ Max(s) \in S
      <4> SUFFICES ASSUME NEW s \in UpTo(m), s # {}
                   PROVE  /\ s \ {Max(s)} \in UpTo(m - 1) /\ s \ {Max(s)} \in UpTo(m)
                          /\ Max(s) \in S
        OBVIOUS
      <4>1. Cardinality(s \ {Max(s)}) = Cardinality(s) - 1 /\ Cardinality(s) <= m
            /\ Cardinality(s) \in Nat
        BY <1>2, <1>3
      <4> QED
        BY <1>3, <2>1, <4>1
    <3>5. \A s \in UpTo(m) : s # {} => h[s \ {Max(s)}] = g[s \ {Max(s)}]
      BY <3>3, <3>4
    <3> HIDE DEF UpTo, Good
    <3>6. \A s \in UpTo(m) : Body(s) = IF s = {} THEN base ELSE F[Max(s)][h[s \ {Max(s)}]]
      <4> HIDE DEF h
      <4> QED
        BY <3>5
    <3>7. \A s \in UpTo(m) : Body(s) \in V
      BY <3>3, <3>4 DEF S
    <3>8. h = [s \in UpTo(m) |-> Body(s)]
      OBVIOUS
    <3>9. h = [s \in UpTo(m) |-> IF s = {} THEN base ELSE F[Max(s)][h[s \ {Max(s)}]]]
      <4> HIDE DEF h, Body
      <4> QED
        BY <3>6, <3>8
    <3>10. \A s \in UpTo(m) : h[s] \in V
      <4> HIDE DEF Body
      <4> QED
        BY <3>7
    <3>11. Good(m, h)
      <4> HIDE DEF h
      <4> QED
        BY <3>9, <3>10 DEF FoldsOver, Good
    <3> QED
      BY <2>1, <3>11
  <2> QED
    BY <2>2, <2>3
<1>5. Cardinality(S) \in Nat /\ UpTo(Cardinality(S)) = SUBSET S
  BY <1>1, FS_Subset, FS_CardinalityType
<1>6. PICK h : Good(Cardinality(S), h)
  BY <1>4, <1>5
<1> QED
  BY <1>5, <1>6 DEF S
=============================================================================
