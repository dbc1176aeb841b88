------------------------------ MODULE FiniteSums ------------------------------
(***************************************************************************)
(* Sums over finite sets, for the proofs about what students are charged   *)
(* and teachers are paid.  MapThenSumSet of FiniteSetsExt takes one element*)
(* after another, chosen by CHOOSE; the lemmas say that it has a value,    *)
(* which depends on no such choice: an element added or removed adds or    *)
(* takes away its own value, whichever others are there.                   *)
(*                                                                         *)
(* An induction over a finite set is the search for a smallest             *)
(* counterexample (SmallestSubset): this needs no predicate as a parameter.*)
(***************************************************************************)
EXTENDS Integers, FiniteSets, FiniteSetsExt, FiniteSetTheorems, TLAPS

\* Every set of subsets of a finite set has a smallest member, one that contains
\* no other: the form in which the proofs below do induction over finite sets.
LEMMA SmallestSubset ==
  ASSUME NEW S, IsFiniteSet(S), NEW F, F \subseteq SUBSET S, F # {}
  PROVE  \E T \in F : \A U \in F : U \subseteq T => U = T
<1>1. IsWellFoundedOn(StrictSubsetOrdering(S), SUBSET S)
  BY FS_FiniteSubsetsOfFinite, FS_StrictSubsetOrderingWellFounded, Zenon
<1>2. PICK T \in F : \A U \in F : <<U, T>> \notin StrictSubsetOrdering(S)
  BY <1>1, WFMin, Zenon
<1> QED
  BY <1>2 DEF StrictSubsetOrdering

\* The next element to be summed.
Pick(T) == CHOOSE x \in T : TRUE

\* g sums f over the subsets of S, one element at a time.
Sums(g, f, S) ==
    g = [T \in SUBSET S |-> IF T = {} THEN 0 ELSE f[Pick(T)] + g[T \ {Pick(T)}]]

\* It is one of the set.
LEMMA PickIn == ASSUME NEW T, T # {} PROVE Pick(T) \in T
  BY DEF Pick

\* Two functions that sum f agree on every set both have.
LEMMA SumsUnique ==
  ASSUME NEW f, NEW S, NEW U, NEW g, NEW h, Sums(g, f, S), Sums(h, f, U),
         IsFiniteSet(S), NEW T \in SUBSET S, T \subseteq U
  PROVE  g[T] = h[T]
<1> DEFINE Bad == {V \in SUBSET T : g[V] # h[V]}
<1>1. ASSUME Bad # {} PROVE FALSE
  <2>1. IsFiniteSet(T) /\ Bad \subseteq SUBSET T
    BY FS_Subset
  <2>2. PICK V \in Bad : \A W \in Bad : W \subseteq V => W = V
    <3> HIDE DEF Bad
    <3> QED
      BY <1>1, <2>1, SmallestSubset
  <2>3. V \in SUBSET S /\ V \in SUBSET U
    OBVIOUS
  <2>4. /\ g[V] = IF V = {} THEN 0 ELSE f[Pick(V)] + g[V \ {Pick(V)}]
        /\ h[V] = IF V = {} THEN 0 ELSE f[Pick(V)] + h[V \ {Pick(V)}]
    BY <2>3 DEF Sums
  <2>5. V # {}
    BY <2>4
  <2>6. V \ {Pick(V)} \subseteq V /\ V \ {Pick(V)} # V
    BY <2>5, PickIn
  <2>7. g[V \ {Pick(V)}] = h[V \ {Pick(V)}]
    BY <2>2, <2>6
  <2> QED
    BY <2>2, <2>4, <2>7
<1> QED
  BY <1>1

\* Some function sums f over the subsets of S, if S is finite.
LEMMA SumsExist ==
  ASSUME NEW f, NEW S, IsFiniteSet(S)
  PROVE  \E g : Sums(g, f, S)
<1> DEFINE G(T) == CHOOSE g : Sums(g, f, T)
           F == {T \in SUBSET S : ~ \E g : Sums(g, f, T)}
<1>1. ASSUME NEW T \in F, \A U \in F : U \subseteq T => U = T PROVE FALSE
  <2> DEFINE h == [U \in SUBSET T |->
                     IF U = {} THEN 0
                     ELSE f[Pick(U)] + G(U \ {Pick(U)})[U \ {Pick(U)}]]
  <2>1. ASSUME NEW U \in SUBSET T, U # T PROVE Sums(G(U), f, U)
    <3>1. \E g : Sums(g, f, U)
      BY <1>1, <2>1
    <3> QED
      BY <3>1
  <2>2. ASSUME NEW U \in SUBSET T, U # T PROVE G(U)[U] = h[U]
    <3>1. CASE U = {}
      <4>1. Sums(G(U), f, U) /\ U \in SUBSET U
        BY <2>1, <2>2
      <4>2. G(U)[U] = 0
        <5> HIDE DEF G
        <5> QED
          BY <3>1, <4>1 DEF Sums
      <4> QED
        BY <3>1, <4>2
    <3>2. CASE U # {}
      <4> DEFINE V == U \ {Pick(U)}
      <4>1. V \in SUBSET T /\ V # T /\ V \subseteq U /\ U \in SUBSET U
        BY <2>2
      <4>2. Sums(G(U), f, U) /\ Sums(G(V), f, V)
        BY <2>1, <2>2, <4>1
      <4>3. G(U)[V] = G(V)[V]
        <5>1. IsFiniteSet(U)
          BY FS_Subset
        <5> HIDE DEF G, V
        <5> QED
          BY <4>1, <4>2, <5>1, SumsUnique
      <4>4. G(U)[U] = f[Pick(U)] + G(U)[V]
        <5> HIDE DEF G
        <5> QED
          BY <3>2, <4>2 DEF Sums
      <4> QED
        BY <3>2, <4>3, <4>4
    <3> QED
      BY <3>1, <3>2
  <2>3. Sums(h, f, T)
    <3>1. ASSUME NEW U \in SUBSET T, U # {}
          PROVE  G(U \ {Pick(U)})[U \ {Pick(U)}] = h[U \ {Pick(U)}]
      <4>1. U \ {Pick(U)} \in SUBSET T /\ U \ {Pick(U)} # T
        BY <3>1, PickIn
      <4> HIDE DEF G, h
      <4> QED
        BY <2>2, <4>1
    <3> DEFINE k == [U \in SUBSET T |-> IF U = {} THEN 0 ELSE f[Pick(U)] + h[U \ {Pick(U)}]]
    <3>2. \A U \in SUBSET T : h[U] = k[U]
      <4>1. ASSUME NEW U \in SUBSET T, U = {} PROVE h[U] = k[U]
        BY <4>1
      <4>2. ASSUME NEW U \in SUBSET T, U # {} PROVE h[U] = k[U]
        <5>1. h[U] = f[Pick(U)] + G(U \ {Pick(U)})[U \ {Pick(U)}]
          BY <4>2
        <5>2. k[U] = f[Pick(U)] + h[U \ {Pick(U)}]
          BY <4>2
        <5> QED
          BY <3>1, <4>2, <5>1, <5>2
      <4> QED
        BY <4>1, <4>2
    <3>3. h = k
      BY <3>2
    <3> HIDE DEF h
    <3> QED
      BY <3>3 DEF Sums
  <2> HIDE DEF h
  <2> QED
    BY <2>3
<1>2. F = {}
  <2>1. F \subseteq SUBSET S
    OBVIOUS
  <2> HIDE DEF F
  <2> QED
    BY <1>1, <2>1, SmallestSubset
<1> QED
  BY <1>2

\* The sum of f over S, as FiniteSetsExt computes it.
SumOf(f, S) == MapThenSumSet(LAMBDA x : f[x], S)

\* It is the value of a function that sums f.
LEMMA SumOfIsSum ==
  ASSUME NEW f, NEW S, IsFiniteSet(S)
  PROVE  \E g : Sums(g, f, S) /\ SumOf(f, S) = g[S]
<1>1. Sums(CHOOSE g : Sums(g, f, S), f, S)
  BY SumsExist
<1>2. SumOf(f, S) = (CHOOSE g : Sums(g, f, S))[S]
  BY DEF SumOf, MapThenSumSet, MapThenFoldSet, Sums, Pick
<1> QED
  BY <1>1, <1>2

\* Each subset has its own sum.
LEMMA SumsAreSumOf ==
  ASSUME NEW f, NEW S, IsFiniteSet(S), NEW g, Sums(g, f, S), NEW T \in SUBSET S
  PROVE  g[T] = SumOf(f, T)
<1>1. IsFiniteSet(T)
  BY FS_Subset
<1>2. PICK h : Sums(h, f, T) /\ SumOf(f, T) = h[T]
  BY <1>1, SumOfIsSum
<1>3. g[T] = h[T]
  BY <1>2, SumsUnique
<1> QED
  BY <1>2, <1>3

\* The equation a sum is computed by.
LEMMA SumOfStep ==
  ASSUME NEW f, NEW S, IsFiniteSet(S)
  PROVE  SumOf(f, S) = IF S = {} THEN 0 ELSE f[Pick(S)] + SumOf(f, S \ {Pick(S)})
<1>1. PICK g : Sums(g, f, S) /\ SumOf(f, S) = g[S]
  BY SumOfIsSum
<1>2. g[S] = IF S = {} THEN 0 ELSE f[Pick(S)] + g[S \ {Pick(S)}]
  <2>1. S \in SUBSET S
    OBVIOUS
  <2> QED
    BY <1>1, <2>1 DEF Sums
<1>3. g[S \ {Pick(S)}] = SumOf(f, S \ {Pick(S)})
  <2> DEFINE R == S \ {Pick(S)}
  <2>1. R \in SUBSET S
    OBVIOUS
  <2> HIDE DEF R
  <2>2. Sums(g, f, S)
    BY <1>1
  <2>3. g[R] = SumOf(f, R)
    BY <2>1, <2>2, SumsAreSumOf, Zenon
  <2> QED
    BY <2>3 DEF R
<1> QED
  BY <1>1, <1>2, <1>3

\* A sum of integers is one, and of natural numbers one of those.
LEMMA SumOfType ==
  ASSUME NEW f, NEW S, IsFiniteSet(S), NEW N \in {Nat, Int}, \A x \in S : f[x] \in N
  PROVE  SumOf(f, S) \in N
<1> DEFINE Bad == {T \in SUBSET S : SumOf(f, T) \notin N}
<1>1. ASSUME NEW T \in Bad, \A U \in Bad : U \subseteq T => U = T PROVE FALSE
  <2>1. IsFiniteSet(T)
    BY FS_Subset
  <2>2. SumOf(f, T) = IF T = {} THEN 0 ELSE f[Pick(T)] + SumOf(f, T \ {Pick(T)})
    BY <2>1, SumOfStep
  <2>3. T # {}
    BY <2>2
  <2>4. Pick(T) \in S /\ T \ {Pick(T)} \in SUBSET S /\ T \ {Pick(T)} # T
    BY <2>3, PickIn
  <2>5. SumOf(f, T \ {Pick(T)}) \in N
    BY <1>1, <2>4
  <2>6. f[Pick(T)] \in N
    BY <2>4
  <2> QED
    BY <2>2, <2>3, <2>5, <2>6
<1>2. Bad \subseteq SUBSET S
  OBVIOUS
<1>3. Bad = {}
  <2> HIDE DEF Bad
  <2> QED
    BY <1>1, <1>2, SmallestSubset
<1>4. S \in SUBSET S
  OBVIOUS
<1> QED
  BY <1>3, <1>4

\* Any element may be summed first.
LEMMA SumOfRemove ==
  ASSUME NEW f, NEW S, IsFiniteSet(S), \A x \in S : f[x] \in Int, NEW x \in S
  PROVE  SumOf(f, S) = f[x] + SumOf(f, S \ {x})
<1> DEFINE Good(T) == \A y \in T : SumOf(f, T) = f[y] + SumOf(f, T \ {y})
           Bad == {T \in SUBSET S : ~Good(T)}
<1>1. ASSUME NEW T \in Bad, \A U \in Bad : U \subseteq T => U = T PROVE FALSE
  <2> DEFINE p == Pick(T)
  <2>1. IsFiniteSet(T) /\ T \in SUBSET S
    BY FS_Subset
  <2>2. PICK y \in T : SumOf(f, T) # f[y] + SumOf(f, T \ {y})
    OBVIOUS
  <2>3. \A U \in SUBSET T : U # T => Good(U)
    BY <1>1
  <2> HIDE DEF Good, Bad
  <2>4. p \in T /\ p \in S /\ y \in S
    <3>1. p \in T
      BY PickIn
    <3> QED
      BY <2>1, <3>1
  <2>5. SumOf(f, T) = f[p] + SumOf(f, T \ {p})
    BY <2>1, <2>4, SumOfStep
  <2> HIDE DEF p
  <2>6. p # y
    BY <2>2, <2>5
  <2>7. SumOf(f, T \ {p}) = f[y] + SumOf(f, (T \ {p}) \ {y})
    <3>1. Good(T \ {p}) /\ y \in T \ {p}
      BY <2>3, <2>4, <2>6
    <3> QED
      BY <3>1 DEF Good
  <2>8. SumOf(f, T \ {y}) = f[p] + SumOf(f, (T \ {y}) \ {p})
    <3>1. Good(T \ {y}) /\ p \in T \ {y}
      BY <2>3, <2>4, <2>6
    <3> QED
      BY <3>1 DEF Good
  <2>9. (T \ {p}) \ {y} = (T \ {y}) \ {p}
    OBVIOUS
  <2>10. SumOf(f, (T \ {y}) \ {p}) \in Int
    <3>1. IsFiniteSet((T \ {y}) \ {p}) /\ \A z \in (T \ {y}) \ {p} : f[z] \in Int
      BY <2>1, FS_Subset
    <3> QED
      BY <3>1, SumOfType
  <2>11. f[p] \in Int /\ f[y] \in Int
    BY <2>4
  <2> DEFINE rest == SumOf(f, (T \ {y}) \ {p})
  <2>12. SumOf(f, T) = f[p] + (f[y] + rest) /\ SumOf(f, T \ {y}) = f[p] + rest
    BY <2>5, <2>7, <2>8, <2>9
  <2> HIDE DEF rest
  <2>13. rest \in Int
    BY <2>10 DEF rest
  <2> QED
    BY <2>2, <2>11, <2>12, <2>13
<1>2. Bad \subseteq SUBSET S
  OBVIOUS
<1>3. Bad = {}
  <2> HIDE DEF Bad
  <2> QED
    BY <1>1, <1>2, SmallestSubset
<1>4. S \in SUBSET S
  OBVIOUS
<1> QED
  BY <1>3, <1>4

\* The sum depends on the values at the elements alone.
LEMMA SumOfSame ==
  ASSUME NEW f, NEW g, NEW S, IsFiniteSet(S), \A x \in S : f[x] = g[x]
  PROVE  SumOf(f, S) = SumOf(g, S)
<1> DEFINE Bad == {T \in SUBSET S : SumOf(f, T) # SumOf(g, T)}
<1>1. ASSUME NEW T \in Bad, \A U \in Bad : U \subseteq T => U = T PROVE FALSE
  <2>1. IsFiniteSet(T)
    BY FS_Subset
  <2>2. /\ SumOf(f, T) = IF T = {} THEN 0 ELSE f[Pick(T)] + SumOf(f, T \ {Pick(T)})
        /\ SumOf(g, T) = IF T = {} THEN 0 ELSE g[Pick(T)] + SumOf(g, T \ {Pick(T)})
    BY <2>1, SumOfStep
  <2>3. T # {}
    BY <2>2
  <2>4. Pick(T) \in S /\ T \ {Pick(T)} \in SUBSET S /\ T \ {Pick(T)} # T
    BY <2>3, PickIn
  <2>5. SumOf(f, T \ {Pick(T)}) = SumOf(g, T \ {Pick(T)})
    BY <1>1, <2>4
  <2>6. f[Pick(T)] = g[Pick(T)]
    BY <2>4
  <2>7. SumOf(f, T) # SumOf(g, T)
    OBVIOUS
  <2> HIDE DEF Bad
  <2> QED
    BY <2>2, <2>3, <2>5, <2>6, <2>7
<1>2. Bad \subseteq SUBSET S
  OBVIOUS
<1>3. Bad = {}
  <2> HIDE DEF Bad
  <2> QED
    BY <1>1, <1>2, SmallestSubset
<1>4. S \in SUBSET S
  OBVIOUS
<1> QED
  BY <1>3, <1>4

\* One more element adds its value.
LEMMA SumOfAdd ==
  ASSUME NEW f, NEW S, IsFiniteSet(S), NEW x, x \notin S, \A y \in S \cup {x} : f[y] \in Int
  PROVE  SumOf(f, S \cup {x}) = f[x] + SumOf(f, S)
<1>1. IsFiniteSet(S \cup {x})
  BY FS_AddElement
<1>2. (S \cup {x}) \ {x} = S
  OBVIOUS
<1> QED
  BY <1>1, <1>2, SumOfRemove

\* The sum of nothing is zero.
LEMMA SumOfEmpty == ASSUME NEW f PROVE SumOf(f, {}) = 0
BY FS_EmptySet, SumOfStep
\* What a function makes of a finite set is a finite set.
LEMMA FiniteImage ==
  ASSUME NEW f, NEW S, IsFiniteSet(S)
  PROVE  IsFiniteSet({f[x] : x \in S})
<1> DEFINE T == {f[x] : x \in S}
           g == [x \in S |-> f[x]]
<1>1. g \in Surjection(S, T)
  BY DEF Surjection
<1> HIDE DEF g, T
<1>2. IsFiniteSet(T)
  BY <1>1, FS_Surjection
<1> QED
  BY <1>2 DEF T
===============================================================================
