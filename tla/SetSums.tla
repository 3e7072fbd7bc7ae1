------------------------------ MODULE SetSums ------------------------------
(***************************************************************************)
(* Sums over finite sets.  SumOver(F, S) adds F[x] for the x in S, as      *)
(* MapThenSumSet does, whose recursion takes the elements in an order that *)
(* CHOOSE fixes and nobody knows.  Every fact here comes from taking a     *)
(* least set that refutes it.                                              *)
(***************************************************************************)
EXTENDS Integers, FiniteSetsExt, FiniteSetTheorems, WellFoundedInduction, TLAPS

SumOver(F, S) == MapThenSumSet(LAMBDA x : F[x], S)

-----------------------------------------------------------------------------
(* The recursion: g maps each subset of S to its sum. *)

First(A) == CHOOSE x \in A : TRUE

PartialSum(F, g, A) == IF A = {} THEN 0 ELSE F[First(A)] + g[A \ {First(A)}]

IsPartialSums(F, S, g) == g = [A \in SUBSET S |-> PartialSum(F, g, A)]

\* A set of subsets of a finite set has a least member.
LEMMA LeastSubset ==
    ASSUME NEW S, IsFiniteSet(S), NEW T, T \subseteq SUBSET S, T # {}
    PROVE  \E A \in T : \A B \in T : B \subseteq A => B = A
<1>1. T \subseteq FiniteSubsetsOf(S)
  BY FS_Subset DEF FiniteSubsetsOf
<1>2. \E A \in T : \A B \in T : <<B, A>> \notin StrictSubsetOrdering(S)
  BY <1>1, WFMin, FS_StrictSubsetOrderingWellFounded
<1> QED
  BY <1>2 DEF StrictSubsetOrdering

\* So has a set of natural numbers.
LEMMA LeastNat ==
    ASSUME NEW T, T \subseteq Nat, T # {}
    PROVE  \E n \in T : \A m \in T : n <= m
<1>1. \E n \in T : \A m \in T : <<m, n>> \notin OpToRel(<, Nat)
  BY WFMin, NatLessThanWellFounded
<1>2. PICK n \in T : \A m \in T : <<m, n>> \notin OpToRel(<, Nat)
  BY <1>1
<1>3. \A m \in T : ~(m < n)
  BY <1>2 DEF OpToRel
<1> QED
  BY <1>3

LEMMA FirstMember ==
    ASSUME NEW A, A # {}
    PROVE  First(A) \in A
BY DEF First

\* What the partial sums of S say of a subset, those of T say too.
LEMMA PartialSumsAgree ==
    ASSUME NEW F, NEW S, IsFiniteSet(S), NEW T, NEW g, NEW h,
           IsPartialSums(F, S, g), IsPartialSums(F, T, h),
           NEW A, A \subseteq S, A \subseteq T
    PROVE  g[A] = h[A]
<1> DEFINE Bad == {B \in SUBSET A : g[B] # h[B]}
<1>1. SUFFICES ASSUME Bad # {} PROVE FALSE
  OBVIOUS
<1>2. IsFiniteSet(A) /\ Bad \subseteq SUBSET A
  BY FS_Subset
<1> HIDE DEF Bad
<1>3. PICK B \in Bad : \A C \in Bad : C \subseteq B => C = B
  BY <1>1, <1>2, LeastSubset
<1>4. g[B] = PartialSum(F, g, B) /\ h[B] = PartialSum(F, h, B) /\ g[B] # h[B]
  BY <1>2, <1>3 DEF Bad, IsPartialSums
<1>5. B # {}
  BY <1>4 DEF PartialSum
<1>6. g[B \ {First(B)}] = h[B \ {First(B)}]
  BY <1>2, <1>3, <1>5, FirstMember DEF Bad
<1> QED
  BY <1>4, <1>6 DEF PartialSum

LEMMA PartialSumsExist ==
    ASSUME NEW F, NEW S, IsFiniteSet(S)
    PROVE  \E g : IsPartialSums(F, S, g)
<1> DEFINE Bad == {A \in SUBSET S : ~ \E g : IsPartialSums(F, A, g)}
<1>1. SUFFICES ASSUME Bad # {} PROVE FALSE
  OBVIOUS
<1>2. Bad \subseteq SUBSET S
  OBVIOUS
<1>3. \A A \in SUBSET S : A \notin Bad => \E g : IsPartialSums(F, A, g)
  OBVIOUS
<1>4. \A A \in Bad : ~ \E g : IsPartialSums(F, A, g)
  OBVIOUS
<1> HIDE DEF Bad
<1>5. PICK A \in Bad : \A B \in Bad : B \subseteq A => B = A
  BY <1>1, <1>2, LeastSubset
<1> DEFINE Of(B) == CHOOSE g : IsPartialSums(F, B, g)
           f == First(A)
           top == IF A = {} THEN 0 ELSE F[f] + Of(A \ {f})[A \ {f}]
           g == [B \in SUBSET A |-> IF B = A THEN top ELSE Of(B)[B]]
<1>6. \A B \in SUBSET A : B # A => IsPartialSums(F, B, Of(B))
  BY <1>2, <1>3, <1>5
<1>7. \A B \in SUBSET A : IsFiniteSet(B)
  BY <1>2, <1>5, FS_Subset
<1> HIDE DEF Of
<1>8. ASSUME NEW B \in SUBSET A
      PROVE  g[B] = PartialSum(F, g, B)
  <2>1. CASE B = A
    BY <2>1, FirstMember DEF PartialSum
  <2>2. CASE B # A /\ B = {}
    <3>1. Of(B)[B] = PartialSum(F, Of(B), B)
      BY <1>6, <2>2 DEF IsPartialSums
    <3> QED
      BY <2>2, <3>1 DEF PartialSum
  <2>3. CASE B # A /\ B # {}
    <3> DEFINE C == B \ {First(B)}
    <3>1. First(B) \in B /\ C \in SUBSET A /\ C # A /\ C \subseteq B
      BY <2>3, FirstMember
    <3>2. Of(B)[B] = F[First(B)] + Of(B)[C]
      BY <1>6, <2>3 DEF IsPartialSums, PartialSum
    <3>3. Of(B)[C] = Of(C)[C]
      BY <1>6, <1>7, <2>3, <3>1, PartialSumsAgree
    <3> HIDE DEF C
    <3>4. g[C] = Of(C)[C] /\ g[B] = Of(B)[B]
      BY <2>3, <3>1
    <3> HIDE DEF g
    <3> QED
      BY <2>3, <3>2, <3>3, <3>4 DEF PartialSum, C
  <2> QED
    BY <2>1, <2>2, <2>3
<1>9. g = [B \in SUBSET A |-> g[B]]
  OBVIOUS
<1> HIDE DEF g
<1>10. IsPartialSums(F, A, g)
  BY <1>8, <1>9 DEF IsPartialSums
<1> QED
  BY <1>4, <1>5, <1>10

\* The sum over S is what any partial sums of S or of a superset say of S.
LEMMA SumOverIs ==
    ASSUME NEW F, NEW T, IsFiniteSet(T), NEW g, IsPartialSums(F, T, g),
           NEW S, S \subseteq T
    PROVE  SumOver(F, S) = g[S]
<1>1. IsFiniteSet(S)
  BY FS_Subset
<1>2. \E h : IsPartialSums(F, S, h)
  BY <1>1, PartialSumsExist
<1>3. \E h : IsPartialSums(F, S, h) /\ SumOver(F, S) = h[S]
  BY <1>2 DEF SumOver, MapThenSumSet, MapThenFoldSet, IsPartialSums, PartialSum, First
<1> QED
  BY <1>1, <1>3, PartialSumsAgree

-----------------------------------------------------------------------------
(* What proofs use of a sum. *)

LEMMA SumOverNothing ==
    ASSUME NEW F
    PROVE  SumOver(F, {}) = 0
<1>1. IsFiniteSet({})
  BY FS_EmptySet
<1>2. PICK g : IsPartialSums(F, {}, g)
  BY <1>1, PartialSumsExist
<1>3. g[{}] = 0
  BY <1>2 DEF IsPartialSums, PartialSum
<1> QED
  BY <1>1, <1>2, <1>3, SumOverIs

LEMMA SumOverUnfolds ==
    ASSUME NEW F, NEW S, IsFiniteSet(S), S # {}
    PROVE  SumOver(F, S) = F[First(S)] + SumOver(F, S \ {First(S)})
<1>1. PICK g : IsPartialSums(F, S, g)
  BY PartialSumsExist
<1>2. g[S] = F[First(S)] + g[S \ {First(S)}]
  BY <1>1 DEF IsPartialSums, PartialSum
<1> QED
  BY <1>1, <1>2, SumOverIs

\* A sum of naturals is one.
LEMMA SumOverNat ==
    ASSUME NEW F, NEW S, IsFiniteSet(S), \A x \in S : F[x] \in Nat
    PROVE  SumOver(F, S) \in Nat
<1> DEFINE Bad == {A \in SUBSET S : SumOver(F, A) \notin Nat}
<1>1. SUFFICES ASSUME Bad # {} PROVE FALSE
  OBVIOUS
<1>2. PICK A \in Bad : \A B \in Bad : B \subseteq A => B = A
  <2>1. Bad \subseteq SUBSET S
    OBVIOUS
  <2> HIDE DEF Bad
  <2> QED
    BY <1>1, <2>1, LeastSubset
<1>3. A # {}
  BY SumOverNothing
<1>4. First(A) \in A /\ SumOver(F, A \ {First(A)}) \in Nat
  BY <1>2, <1>3, FirstMember
<1>5. SumOver(F, A) = F[First(A)] + SumOver(F, A \ {First(A)})
  BY <1>2, <1>3, FS_Subset, SumOverUnfolds
<1> QED
  BY <1>4, <1>5

\* Any element can be taken out first.
LEMMA SumOverSplits ==
    ASSUME NEW F, NEW S, IsFiniteSet(S), \A x \in S : F[x] \in Nat, NEW x \in S
    PROVE  SumOver(F, S) = F[x] + SumOver(F, S \ {x})
<1> DEFINE Bad == {A \in SUBSET S : \E y \in A : SumOver(F, A) # F[y] + SumOver(F, A \ {y})}
<1>1. SUFFICES ASSUME Bad # {} PROVE FALSE
  OBVIOUS
<1>2. PICK A \in Bad : \A B \in Bad : B \subseteq A => B = A
  <2>1. Bad \subseteq SUBSET S
    OBVIOUS
  <2> HIDE DEF Bad
  <2> QED
    BY <1>1, <2>1, LeastSubset
<1>3. PICK y \in A : SumOver(F, A) # F[y] + SumOver(F, A \ {y})
  BY <1>2
<1> DEFINE f == First(A)
<1>4. f \in A /\ SumOver(F, A) = F[f] + SumOver(F, A \ {f})
  BY <1>2, FS_Subset, SumOverUnfolds, FirstMember
<1>5. f # y
  BY <1>3, <1>4
<1> DEFINE B == A \ {f}
           C == A \ {y}
           D == A \ {f, y}
<1>6. SumOver(F, B) = F[y] + SumOver(F, D)
  <2>1. B \ {y} = D
    OBVIOUS
  <2>2. y \in B /\ B \in SUBSET S /\ B \notin Bad
    BY <1>2, <1>4, <1>5
  <2> QED
    BY <2>1, <2>2
<1>7. SumOver(F, C) = F[f] + SumOver(F, D)
  <2>1. C \ {f} = D
    OBVIOUS
  <2>2. f \in C /\ C \in SUBSET S /\ C \notin Bad
    BY <1>2, <1>4, <1>5
  <2> QED
    BY <2>1, <2>2
<1>8. SumOver(F, D) \in Nat /\ F[f] \in Nat /\ F[y] \in Nat
  BY <1>2, <1>4, FS_Subset, SumOverNat
<1> QED
  BY <1>3, <1>4, <1>6, <1>7, <1>8

\* An element more adds its value.
LEMMA SumOverAdds ==
    ASSUME NEW F, NEW S, IsFiniteSet(S), NEW x, x \notin S,
           \A y \in S \cup {x} : F[y] \in Nat
    PROVE  SumOver(F, S \cup {x}) = SumOver(F, S) + F[x]
<1>1. IsFiniteSet(S \cup {x}) /\ (S \cup {x}) \ {x} = S
  BY FS_AddElement
<1>2. SumOver(F, S) \in Nat
  BY SumOverNat
<1> QED
  BY <1>1, <1>2, SumOverSplits

\* Termwise less is less in all.
LEMMA SumOverMonotone ==
    ASSUME NEW F, NEW G, NEW S, IsFiniteSet(S),
           \A x \in S : F[x] \in Nat /\ G[x] \in Nat /\ F[x] <= G[x]
    PROVE  SumOver(F, S) <= SumOver(G, S)
<1> DEFINE Bad == {A \in SUBSET S : ~ (SumOver(F, A) <= SumOver(G, A))}
<1>1. SUFFICES ASSUME Bad # {} PROVE FALSE
  OBVIOUS
<1>2. PICK A \in Bad : \A B \in Bad : B \subseteq A => B = A
  <2>1. Bad \subseteq SUBSET S
    OBVIOUS
  <2> HIDE DEF Bad
  <2> QED
    BY <1>1, <2>1, LeastSubset
<1>3. A # {}
  BY SumOverNothing
<1> DEFINE f == First(A)
           B == A \ {f}
<1>4. f \in A /\ SumOver(F, B) <= SumOver(G, B)
  BY <1>2, <1>3, FirstMember
<1>5. SumOver(F, A) = F[f] + SumOver(F, B) /\ SumOver(G, A) = G[f] + SumOver(G, B)
  BY <1>2, <1>3, FS_Subset, SumOverUnfolds
<1>6. SumOver(F, B) \in Nat /\ SumOver(G, B) \in Nat
  BY FS_Subset, SumOverNat
<1> QED
  BY <1>2, <1>4, <1>5, <1>6

\* Only the values of the members count.
LEMMA SumOverEqual ==
    ASSUME NEW F, NEW G, NEW S, IsFiniteSet(S), \A x \in S : F[x] = G[x]
    PROVE  SumOver(F, S) = SumOver(G, S)
<1> DEFINE Bad == {A \in SUBSET S : SumOver(F, A) # SumOver(G, A)}
<1>1. SUFFICES ASSUME Bad # {} PROVE FALSE
  OBVIOUS
<1>2. PICK A \in Bad : \A B \in Bad : B \subseteq A => B = A
  <2>1. Bad \subseteq SUBSET S
    OBVIOUS
  <2> HIDE DEF Bad
  <2> QED
    BY <1>1, <2>1, LeastSubset
<1>3. A # {}
  BY SumOverNothing
<1> DEFINE f == First(A)
           B == A \ {f}
<1>4. f \in A /\ SumOver(F, B) = SumOver(G, B)
  BY <1>2, <1>3, FirstMember
<1>5. SumOver(F, A) = F[f] + SumOver(F, B) /\ SumOver(G, A) = G[f] + SumOver(G, B)
  BY <1>2, <1>3, FS_Subset, SumOverUnfolds
<1> QED
  BY <1>2, <1>4, <1>5

\* A part is at most the whole.
LEMMA SumOverPart ==
    ASSUME NEW F, NEW S, IsFiniteSet(S), \A x \in S : F[x] \in Nat, NEW T, T \subseteq S
    PROVE  SumOver(F, T) <= SumOver(F, S)
<1> DEFINE Bad == {A \in SUBSET S : T \subseteq A /\ ~ (SumOver(F, T) <= SumOver(F, A))}
<1>1. SUFFICES ASSUME Bad # {} PROVE FALSE
  OBVIOUS
<1>2. PICK A \in Bad : \A B \in Bad : B \subseteq A => B = A
  <2>1. Bad \subseteq SUBSET S
    OBVIOUS
  <2> HIDE DEF Bad
  <2> QED
    BY <1>1, <2>1, LeastSubset
<1>3. SumOver(F, T) \in Nat /\ SumOver(F, A) \in Nat
  BY FS_Subset, SumOverNat
<1>4. PICK x \in A : x \notin T
  <2>1. T \subseteq A /\ A # T
    BY <1>2, <1>3
  <2> QED
    BY <2>1
<1>5. SumOver(F, A) = F[x] + SumOver(F, A \ {x}) /\ SumOver(F, A \ {x}) \in Nat
  BY FS_Subset, SumOverSplits, SumOverNat
<1>6. A \ {x} \notin Bad
  BY <1>2
<1> QED
  BY <1>2, <1>3, <1>4, <1>5, <1>6

\* One value changed changes the sum by as much.
LEMMA SumOverChanged ==
    ASSUME NEW F, NEW G, NEW S, IsFiniteSet(S), NEW x \in S,
           \A y \in S : F[y] \in Nat /\ G[y] \in Nat,
           \A y \in S \ {x} : F[y] = G[y]
    PROVE  SumOver(G, S) + F[x] = SumOver(F, S) + G[x]
<1>1. SumOver(F, S \ {x}) = SumOver(G, S \ {x}) /\ SumOver(F, S \ {x}) \in Nat
  BY FS_Subset, SumOverEqual, SumOverNat
<1> QED
  BY <1>1, SumOverSplits

\* A total that changes with one value stays the sum.
LEMMA TotalFollows ==
    ASSUME NEW F, NEW G, NEW S, IsFiniteSet(S), NEW x \in S,
           \A y \in S : F[y] \in Nat /\ G[y] \in Nat,
           \A y \in S \ {x} : F[y] = G[y],
           NEW p, p = SumOver(F, S), NEW q \in Nat, q + F[x] = p + G[x]
    PROVE  q = SumOver(G, S)
<1>1. SumOver(F, S) \in Nat /\ SumOver(G, S) \in Nat
  BY SumOverNat
<1>2. SumOver(G, S) + F[x] = SumOver(F, S) + G[x]
  BY SumOverChanged
<1> QED
  BY <1>1, <1>2

LEMMA SumOverZero ==
    ASSUME NEW F, NEW S, IsFiniteSet(S), \A x \in S : F[x] = 0
    PROVE  SumOver(F, S) = 0
<1> DEFINE Bad == {A \in SUBSET S : SumOver(F, A) # 0}
<1>1. SUFFICES ASSUME Bad # {} PROVE FALSE
  OBVIOUS
<1>2. PICK A \in Bad : \A B \in Bad : B \subseteq A => B = A
  <2>1. Bad \subseteq SUBSET S
    OBVIOUS
  <2> HIDE DEF Bad
  <2> QED
    BY <1>1, <2>1, LeastSubset
<1>3. A # {}
  BY SumOverNothing
<1>4. First(A) \in A /\ SumOver(F, A \ {First(A)}) = 0
  BY <1>2, <1>3, FirstMember
<1>5. SumOver(F, A) = F[First(A)] + SumOver(F, A \ {First(A)})
  BY <1>2, <1>3, FS_Subset, SumOverUnfolds
<1> QED
  BY <1>4, <1>5

\* Terms of at most e each, as many times e in all.
LEMMA SumOverBound ==
    ASSUME NEW F, NEW S, IsFiniteSet(S), NEW e \in Nat,
           \A x \in S : F[x] \in Nat /\ F[x] <= e
    PROVE  SumOver(F, S) <= Cardinality(S) * e
<1> DEFINE Bad == {A \in SUBSET S : ~ (SumOver(F, A) <= Cardinality(A) * e)}
<1>1. SUFFICES ASSUME Bad # {} PROVE FALSE
  OBVIOUS
<1>2. PICK A \in Bad : \A B \in Bad : B \subseteq A => B = A
  <2>1. Bad \subseteq SUBSET S
    OBVIOUS
  <2> HIDE DEF Bad
  <2> QED
    BY <1>1, <2>1, LeastSubset
<1>3. A # {}
  BY SumOverNothing, FS_EmptySet
<1> DEFINE f == First(A)
           B == A \ {f}
<1>4. f \in A /\ IsFiniteSet(A) /\ IsFiniteSet(B)
  BY <1>2, <1>3, FirstMember, FS_Subset
<1>5. Cardinality(B) \in Nat /\ Cardinality(A) = Cardinality(B) + 1
  BY <1>4, FS_RemoveElement, FS_CardinalityType
<1>6. SumOver(F, B) <= Cardinality(B) * e
  BY <1>2, <1>4
<1>7. SumOver(F, A) = F[f] + SumOver(F, B) /\ SumOver(F, B) \in Nat
  BY <1>3, <1>4, SumOverUnfolds, SumOverNat
<1>8. F[f] \in Nat /\ F[f] <= e
  BY <1>4
<1>9. Cardinality(A) * e = Cardinality(B) * e + e /\ Cardinality(B) * e \in Nat
  <2> DEFINE n == Cardinality(B)
  <2>1. n \in Nat
    BY <1>5
  <2> HIDE DEF n
  <2>2. (n + 1) * e = n * e + e /\ n * e \in Nat
    BY <2>1
  <2> QED
    BY <1>5, <2>2 DEF n
<1>10. ~ (SumOver(F, A) <= Cardinality(A) * e)
  OBVIOUS
<1> HIDE DEF f, B
<1> QED
  BY <1>6, <1>7, <1>8, <1>9, <1>10

\* The sum of a set of numbers is a sum over the set.
LEMMA SumSetIs ==
    ASSUME NEW S, IsFiniteSet(S)
    PROVE  SumSet(S) = SumOver([x \in S |-> x], S)
<1> DEFINE F == [x \in S |-> x]
           Rec(g) == g = [A \in SUBSET S |-> IF A = {} THEN 0
                                 ELSE First(A) + g[A \ {First(A)}]]
<1>1. \A A \in SUBSET S : A # {} => F[First(A)] = First(A)
  BY FirstMember
<1> HIDE DEF F
<1>2. ASSUME NEW g
      PROVE  IsPartialSums(F, S, g) <=> Rec(g)
  <2> DEFINE u == [A \in SUBSET S |-> PartialSum(F, g, A)]
             v == [A \in SUBSET S |-> IF A = {} THEN 0
                                     ELSE First(A) + g[A \ {First(A)}]]
  <2>1. \A A \in SUBSET S : u[A] = v[A]
    BY <1>1 DEF PartialSum
  <2>2. u = v
    BY <2>1
  <2> QED
    BY <2>2 DEF IsPartialSums
<1>3. SumSet(S) = (CHOOSE g : Rec(g))[S]
  BY DEF SumSet, FoldSet, MapThenFoldSet, First
<1> HIDE DEF Rec
<1>4. IsPartialSums(F, S, CHOOSE g : Rec(g))
  BY <1>2, PartialSumsExist
<1>5. SumSet(S) = SumOver(F, S)
  BY <1>3, <1>4, SumOverIs
<1> QED
  BY <1>5 DEF F
=============================================================================
