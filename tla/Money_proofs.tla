---------------------------- MODULE Money_proofs ----------------------------
(***************************************************************************)
(* Facts about sums of amounts, for the proofs of the components: a sum    *)
(* over a finite set of indices follows what is added to it and taken from *)
(* it, whatever the order the amounts are added up in.                     *)
(***************************************************************************)
EXTENDS Money, FiniteSetTheorems, WellFoundedInduction, TLAPS

NatBelow == {pair \in Nat \X Nat : pair[1] < pair[2]}

LEMMA LeastNatural ==
  ASSUME NEW T, T \subseteq Nat, T # {}
  PROVE  \E x \in T : \A y \in T : x <= y
<1>1. IsWellFoundedOn(OpToRel(<, Nat), Nat)
  BY NatLessThanWellFounded
<1>2. OpToRel(<, Nat) = NatBelow
  BY Zenon DEF OpToRel, NatBelow
<1>3. PICK x \in T : \A y \in T : <<y, x>> \notin NatBelow
  BY <1>1, <1>2, WFMin, Zenon
<1>4. \A a, b \in Nat : a < b => <<a, b>> \in NatBelow
  <2> TAKE a, b \in Nat
  <2>1. <<a, b>> \in Nat \X Nat /\ <<a, b>>[1] = a /\ <<a, b>>[2] = b
    OBVIOUS
  <2> QED
    BY <2>1 DEF NatBelow
<1>5. ASSUME NEW y \in T PROVE x <= y
  <2>1. x \in Nat /\ y \in Nat
    BY <1>3
  <2>2. ~(y < x)
    BY <1>3, <1>4, <2>1, Zenon
  <2> QED
    BY <2>1, <2>2
<1> QED
  BY <1>5

LEMMA ByInduction ==
  ASSUME NEW T, T \subseteq Nat, 0 \in T, \A n \in T : n + 1 \in T
  PROVE  T = Nat
<1> SUFFICES ASSUME Nat \ T # {} PROVE FALSE
  OBVIOUS
<1>1. PICK x \in Nat \ T : \A y \in Nat \ T : x <= y
  BY LeastNatural
<1>2. x - 1 \in Nat /\ x - 1 \notin Nat \ T /\ (x - 1) + 1 = x
  BY <1>1
<1> QED
  BY <1>2

LEMMA BySetInduction ==
  ASSUME NEW S, IsFiniteSet(S), NEW T, {} \in T,
         \A A \in (SUBSET S) \cap T : \A x \in S \ A : A \union {x} \in T
  PROVE  S \in T
<1> DEFINE N == {n \in Nat : \A A \in SUBSET S : Cardinality(A) = n => A \in T}
<1>1. \A A \in SUBSET S : IsFiniteSet(A) /\ Cardinality(A) \in Nat
  BY FS_Subset, FS_CardinalityType
<1>2. 0 \in N
  BY <1>1, FS_EmptySet
<1>3. ASSUME NEW n \in N PROVE n + 1 \in N
  <2>1. SUFFICES ASSUME NEW A \in SUBSET S, Cardinality(A) = n + 1 PROVE A \in T
    OBVIOUS
  <2>2. PICK x \in A : TRUE
    BY <1>1, <2>1, FS_EmptySet
  <2>3. Cardinality(A \ {x}) = n
    BY <1>1, <2>1, <2>2, FS_RemoveElement
  <2>4. A \ {x} \in (SUBSET S) \cap T /\ x \in S \ (A \ {x})
    BY <2>2, <2>3
  <2>5. (A \ {x}) \union {x} \in T
    BY <2>4
  <2> QED
    BY <2>2, <2>5, (A \ {x}) \union {x} = A
<1>4. N = Nat
  <2> HIDE DEF N
  <2>1. N \subseteq Nat
    BY DEF N
  <2> QED
    BY <1>2, <1>3, <2>1, ByInduction
<1> QED
  BY <1>1, <1>4

-----------------------------------------------------------------------------
(* A sum, as the library adds it up: the amount of some element of the set *)
(* and the sum over the others.                                            *)
Some(s) == CHOOSE x \in s : TRUE

WholeOn(f, S) == \A x \in S : f[x] \in Int

Added(f, S, g) ==
  g = [s \in SUBSET S |-> IF s = {} THEN 0 ELSE f[Some(s)] + g[s \ {Some(s)}]]

LEMMA SomeElement == \A s : s # {} => Some(s) \in s
  BY DEF Some

LEMMA AddingIsPossible ==
  ASSUME NEW S, IsFiniteSet(S), NEW f, WholeOn(f, S)
  PROVE  \E g \in [SUBSET S -> Int] : Added(f, S, g)
<1> DEFINE Upto(n) == {s \in SUBSET S : Cardinality(s) <= n}
           N == {n \in Nat : \E g \in [Upto(n) -> Int] : \A s \in Upto(n) :
                   g[s] = IF s = {} THEN 0 ELSE f[Some(s)] + g[s \ {Some(s)}]}
<1>1. \A s \in SUBSET S : IsFiniteSet(s) /\ Cardinality(s) \in Nat
                            /\ Cardinality(s) <= Cardinality(S)
  BY FS_Subset, FS_CardinalityType
<1>2. \A s \in SUBSET S : s # {} =>
        /\ Some(s) \in s
        /\ s \ {Some(s)} \in SUBSET S
        /\ Cardinality(s \ {Some(s)}) = Cardinality(s) - 1
  BY <1>1, SomeElement, FS_RemoveElement
<1>3. 0 \in N
  <2>1. \A s \in Upto(0) : s = {}
    BY <1>1, FS_EmptySet
  <2>2. [s \in Upto(0) |-> 0] \in [Upto(0) -> Int]
    OBVIOUS
  <2> QED
    BY <2>1, <2>2
<1>4. ASSUME NEW n \in N PROVE n + 1 \in N
  <2>1. PICK g \in [Upto(n) -> Int] : \A s \in Upto(n) :
          g[s] = IF s = {} THEN 0 ELSE f[Some(s)] + g[s \ {Some(s)}]
    OBVIOUS
  <2> DEFINE h == [s \in Upto(n + 1) |->
                     IF s = {} THEN 0 ELSE f[Some(s)] + g[s \ {Some(s)}]]
  <2>2. \A s \in Upto(n + 1) : s # {} => s \ {Some(s)} \in Upto(n) /\ Some(s) \in S
    BY <1>1, <1>2
  <2>3. h \in [Upto(n + 1) -> Int]
    BY <2>2 DEF WholeOn
  <2>4. \A s \in Upto(n) : s \in Upto(n + 1) /\ h[s] = g[s]
    BY <1>1, <2>1
  <2>5. \A s \in Upto(n + 1) :
          h[s] = IF s = {} THEN 0 ELSE f[Some(s)] + h[s \ {Some(s)}]
    BY <2>2, <2>4
  <2>6. n + 1 \in Nat
    OBVIOUS
  <2> QED
    BY <2>3, <2>5, <2>6
<1>5. N = Nat
  <2> HIDE DEF N
  <2>1. N \subseteq Nat
    BY DEF N
  <2> QED
    BY <1>3, <1>4, <2>1, ByInduction
<1>6. Upto(Cardinality(S)) = SUBSET S
  BY <1>1
<1>7. Cardinality(S) \in N
  BY <1>1, <1>5
<1>8. PICK g \in [SUBSET S -> Int] : \A s \in SUBSET S :
        g[s] = IF s = {} THEN 0 ELSE f[Some(s)] + g[s \ {Some(s)}]
  BY <1>6, <1>7
<1>9. Added(f, S, g)
  BY <1>8 DEF Added
<1> QED
  BY <1>9

LEMMA AddedAgrees ==
  ASSUME NEW S, IsFiniteSet(S), NEW T \in SUBSET S, NEW f, NEW e, NEW g, NEW h,
         Added(f, S, g), Added(e, T, h), \A x \in T : f[x] = e[x]
  PROVE  \A s \in SUBSET T : g[s] = h[s]
<1> DEFINE N == {n \in Nat : \A s \in SUBSET T : Cardinality(s) = n => g[s] = h[s]}
<1>1. \A s \in SUBSET T : IsFiniteSet(s) /\ Cardinality(s) \in Nat
  BY FS_Subset, FS_CardinalityType
<1>2. \A s \in SUBSET T :
        /\ g[s] = IF s = {} THEN 0 ELSE f[Some(s)] + g[s \ {Some(s)}]
        /\ h[s] = IF s = {} THEN 0 ELSE e[Some(s)] + h[s \ {Some(s)}]
  BY DEF Added
<1>3. 0 \in N
  BY <1>1, <1>2, FS_EmptySet
<1>4. ASSUME NEW n \in N PROVE n + 1 \in N
  <2>1. SUFFICES ASSUME NEW s \in SUBSET T, Cardinality(s) = n + 1 PROVE g[s] = h[s]
    OBVIOUS
  <2>2. s # {} /\ Some(s) \in s
    BY <2>1, <1>1, FS_EmptySet, SomeElement
  <2>3. Cardinality(s \ {Some(s)}) = n /\ s \ {Some(s)} \in SUBSET T
    <3>1. IsFiniteSet(s) /\ Cardinality(s) = n + 1 /\ n \in Nat
      BY <1>1, <2>1
    <3>2. Cardinality(s \ {Some(s)}) = IF Some(s) \in s THEN Cardinality(s) - 1 ELSE Cardinality(s)
      BY <3>1, FS_RemoveElement, Zenon
    <3> QED
      BY <2>2, <3>1, <3>2
  <2>4. g[s \ {Some(s)}] = h[s \ {Some(s)}] /\ f[Some(s)] = e[Some(s)]
    BY <2>2, <2>3
  <2> QED
    BY <2>2, <2>4, <1>2
<1>5. N = Nat
  <2> HIDE DEF N
  <2>1. N \subseteq Nat
    BY DEF N
  <2> QED
    BY <1>3, <1>4, <2>1, ByInduction
<1> QED
  BY <1>1, <1>5

LEMMA AddedInAnyOrder ==
  ASSUME NEW S, IsFiniteSet(S), NEW f, WholeOn(f, S),
         NEW g, WholeOn(g, SUBSET S), Added(f, S, g)
  PROVE  \A s \in SUBSET S : \A x \in s : g[s] = f[x] + g[s \ {x}]
<1> DEFINE N == {n \in Nat : \A s \in SUBSET S : Cardinality(s) = n =>
                               \A x \in s : g[s] = f[x] + g[s \ {x}]}
<1>1. \A s \in SUBSET S : IsFiniteSet(s) /\ Cardinality(s) \in Nat
  BY FS_Subset, FS_CardinalityType
<1>2. \A s \in SUBSET S : s # {} =>
        Some(s) \in s /\ g[s] = f[Some(s)] + g[s \ {Some(s)}]
  BY SomeElement DEF Added
<1>3. 0 \in N
  BY <1>1, FS_EmptySet
<1>4. ASSUME NEW n \in N PROVE n + 1 \in N
  <2>1. SUFFICES ASSUME NEW s \in SUBSET S, Cardinality(s) = n + 1, NEW x \in s
                 PROVE  g[s] = f[x] + g[s \ {x}]
    OBVIOUS
  <2> DEFINE p == Some(s)
  <2>2. p \in s /\ g[s] = f[p] + g[s \ {p}]
    BY <1>2
  <2> HIDE DEF p
  <2>3. CASE x = p
    BY <2>2, <2>3
  <2>4. CASE x # p
    <3>1. /\ s \ {p} \in SUBSET S /\ Cardinality(s \ {p}) = n /\ x \in s \ {p}
          /\ s \ {x} \in SUBSET S /\ Cardinality(s \ {x}) = n /\ p \in s \ {x}
      <4>1. IsFiniteSet(s) /\ Cardinality(s) = n + 1 /\ n \in Nat
        BY <1>1, <2>1
      <4>2. Cardinality(s \ {p}) = IF p \in s THEN Cardinality(s) - 1 ELSE Cardinality(s)
        BY <4>1, FS_RemoveElement, Zenon
      <4>3. Cardinality(s \ {x}) = IF x \in s THEN Cardinality(s) - 1 ELSE Cardinality(s)
        BY <4>1, FS_RemoveElement, Zenon
      <4> QED
        BY <2>2, <2>4, <4>1, <4>2, <4>3
    <3> DEFINE rest == (s \ {p}) \ {x}
    <3>2. rest = (s \ {x}) \ {p} /\ rest \in SUBSET S
      OBVIOUS
    <3>3. g[s \ {p}] = f[x] + g[rest]
      BY <3>1
    <3>4. g[s \ {x}] = f[p] + g[rest]
      <4>1. g[s \ {x}] = f[p] + g[(s \ {x}) \ {p}]
        BY <3>1
      <4> QED
        BY <3>2, <4>1
    <3>5. f[x] \in Int /\ f[p] \in Int /\ g[rest] \in Int
      BY <2>2, <3>2 DEF WholeOn
    <3> HIDE DEF rest
    <3> QED
      BY <2>2, <3>3, <3>4, <3>5
  <2> QED
    BY <2>3, <2>4
<1>5. N = Nat
  <2> HIDE DEF N
  <2>1. N \subseteq Nat
    BY DEF N
  <2> QED
    BY <1>3, <1>4, <2>1, ByInduction
<1> QED
  BY <1>1, <1>5

LEMMA AddedFromTheFirst ==
  ASSUME NEW S, IsFiniteSet(S), NEW f, WholeOn(f, S),
         NEW g, WholeOn(g, SUBSET S), Added(f, S, g), NEW x \in S
  PROVE  g[S] = f[x] + g[S \ {x}]
<1>1. \A s \in SUBSET S : \A y \in s : g[s] = f[y] + g[s \ {y}]
  <2>1. SUFFICES ASSUME NEW s \in SUBSET S, NEW y \in s PROVE g[s] = f[y] + g[s \ {y}]
    OBVIOUS
  <2> QED
    BY AddedInAnyOrder
<1>2. S \in SUBSET S
  OBVIOUS
<1> QED
  BY <1>1, <1>2, Zenon

LEMMA SumIsAdded ==
  ASSUME NEW S, IsFiniteSet(S), NEW f, WholeOn(f, S)
  PROVE  \E g : /\ WholeOn(g, SUBSET S)
               /\ Added(f, S, g)
               /\ SumFunctionOnSet(f, S) = g[S]
<1> DEFINE h == CHOOSE g : Added(f, S, g)
<1>1. PICK g \in [SUBSET S -> Int] : Added(f, S, g)
  BY AddingIsPossible
<1>2. Added(f, S, h)
  BY <1>1
<1>3. SumFunctionOnSet(f, S) = h[S]
  BY Zenon DEF SumFunctionOnSet, FoldFunctionOnSet, MapThenFoldSet, Added, Some
<1> HIDE DEF h
<1>4. S \in SUBSET S
  OBVIOUS
<1>5. g[S] = h[S]
  BY <1>1, <1>2, <1>4, AddedAgrees
<1>6. WholeOn(g, SUBSET S)
  BY DEF WholeOn
<1> QED
  BY <1>1, <1>3, <1>5, <1>6

-----------------------------------------------------------------------------
(* The sum of f over S, one element at a time.                             *)
LEMMA SumOfNone == ASSUME NEW f PROVE SumFunctionOnSet(f, {}) = 0
<1>1. PICK g : Added(f, {}, g) /\ SumFunctionOnSet(f, {}) = g[{}]
  <2>1. IsFiniteSet({}) /\ WholeOn(f, {})
    BY FS_EmptySet DEF WholeOn
  <2> QED
    BY <2>1, SumIsAdded
<1> QED
  BY <1>1 DEF Added

LEMMA SumIsInteger ==
  ASSUME NEW S, IsFiniteSet(S), NEW f, WholeOn(f, S)
  PROVE  SumFunctionOnSet(f, S) \in Int
<1>1. PICK g : WholeOn(g, SUBSET S) /\ SumFunctionOnSet(f, S) = g[S]
  BY SumIsAdded
<1> QED
  BY <1>1 DEF WholeOn

LEMMA SumAgrees ==
  ASSUME NEW S, IsFiniteSet(S), NEW f, NEW e,
         WholeOn(f, S), \A x \in S : e[x] = f[x]
  PROVE  SumFunctionOnSet(f, S) = SumFunctionOnSet(e, S)
<1>1. PICK g : /\ WholeOn(g, SUBSET S)
                /\ Added(f, S, g)
                /\ SumFunctionOnSet(f, S) = g[S]
  BY SumIsAdded
<1>2. PICK h : Added(e, S, h) /\ SumFunctionOnSet(e, S) = h[S]
  <2>1. WholeOn(e, S)
    BY DEF WholeOn
  <2> QED
    BY <2>1, SumIsAdded
<1>3. S \in SUBSET S
  OBVIOUS
<1>4. g[S] = h[S]
  BY <1>1, <1>2, <1>3, AddedAgrees
<1> QED
  BY <1>1, <1>2, <1>4

LEMMA SumWithout ==
  ASSUME NEW S, IsFiniteSet(S), NEW f, WholeOn(f, S), NEW x \in S
  PROVE  SumFunctionOnSet(f, S) = f[x] + SumFunctionOnSet(f, S \ {x})
<1>1. PICK g : /\ WholeOn(g, SUBSET S)
                /\ Added(f, S, g)
                /\ SumFunctionOnSet(f, S) = g[S]
  BY SumIsAdded
<1> DEFINE rest == S \ {x}
<1>2. IsFiniteSet(rest) /\ rest \in SUBSET S /\ WholeOn(f, rest)
  BY FS_RemoveElement DEF WholeOn
<1> HIDE DEF rest
<1>3. PICK h : Added(f, rest, h) /\ SumFunctionOnSet(f, rest) = h[rest]
  BY <1>2, SumIsAdded
<1>4. g[rest] = h[rest]
  <2>1. \A s \in SUBSET rest : g[s] = h[s]
    BY <1>1, <1>2, <1>3, AddedAgrees
  <2> QED
    BY <2>1
<1> USE DEF rest
<1>5. g[S] = f[x] + g[S \ {x}]
  BY <1>1, AddedFromTheFirst
<1> QED
  BY <1>1, <1>3, <1>4, <1>5

LEMMA SumWith ==
  ASSUME NEW S, IsFiniteSet(S), NEW f, NEW x, x \notin S,
         WholeOn(f, S \union {x})
  PROVE  SumFunctionOnSet(f, S \union {x}) = SumFunctionOnSet(f, S) + f[x]
<1>1. IsFiniteSet(S \union {x}) /\ x \in S \union {x} /\ (S \union {x}) \ {x} = S
  BY FS_AddElement
<1>2. SumFunctionOnSet(f, S \union {x}) = f[x] + SumFunctionOnSet(f, (S \union {x}) \ {x})
  BY <1>1, SumWithout
<1>3. SumFunctionOnSet(f, S) \in Int /\ f[x] \in Int
  <2>1. WholeOn(f, S) /\ f[x] \in Int
    BY DEF WholeOn
  <2> QED
    BY <2>1, SumIsInteger
<1>4. SumFunctionOnSet(f, S \union {x}) = f[x] + SumFunctionOnSet(f, S)
  BY <1>1, <1>2, Zenon
<1> QED
  BY <1>3, <1>4

LEMMA SumChanged ==
  ASSUME NEW S, IsFiniteSet(S), NEW f, NEW e, WholeOn(f, S), WholeOn(e, S),
         NEW y \in S, \A x \in S \ {y} : e[x] = f[x]
  PROVE  SumFunctionOnSet(e, S) = SumFunctionOnSet(f, S) + e[y] - f[y]
<1>1. IsFiniteSet(S \ {y}) /\ WholeOn(f, S \ {y}) /\ f[y] \in Int /\ e[y] \in Int
  BY FS_RemoveElement DEF WholeOn
<1>2. SumFunctionOnSet(f, S \ {y}) = SumFunctionOnSet(e, S \ {y})
  BY <1>1, SumAgrees
<1>3. SumFunctionOnSet(f, S) = f[y] + SumFunctionOnSet(f, S \ {y})
  BY SumWithout
<1>4. SumFunctionOnSet(e, S) = e[y] + SumFunctionOnSet(e, S \ {y})
  BY SumWithout
<1>5. SumFunctionOnSet(f, S \ {y}) \in Int
  BY <1>1, SumIsInteger
<1> QED
  BY <1>1, <1>2, <1>3, <1>4, <1>5

LEMMA SumAtMost ==
  ASSUME NEW S, IsFiniteSet(S), NEW f, NEW e, WholeOn(f, S), WholeOn(e, S),
         \A x \in S : f[x] <= e[x]
  PROVE  SumFunctionOnSet(f, S) <= SumFunctionOnSet(e, S)
<1> DEFINE T == {A \in SUBSET S : SumFunctionOnSet(f, A) <= SumFunctionOnSet(e, A)}
<1>1. {} \in T
  BY SumOfNone
<1>2. ASSUME NEW A \in (SUBSET S) \cap T, NEW x \in S \ A PROVE A \union {x} \in T
  <2>1. /\ IsFiniteSet(A) /\ WholeOn(f, A \union {x}) /\ WholeOn(e, A \union {x})
        /\ WholeOn(f, A) /\ WholeOn(e, A)
    BY FS_Subset DEF WholeOn
  <2>2. SumFunctionOnSet(f, A \union {x}) = SumFunctionOnSet(f, A) + f[x]
    BY <2>1, SumWith
  <2>3. SumFunctionOnSet(e, A \union {x}) = SumFunctionOnSet(e, A) + e[x]
    BY <2>1, SumWith
  <2>4. SumFunctionOnSet(f, A) \in Int /\ SumFunctionOnSet(e, A) \in Int
    BY <2>1, SumIsInteger
  <2>5. f[x] \in Int /\ e[x] \in Int /\ f[x] <= e[x]
    BY DEF WholeOn
  <2>6. SumFunctionOnSet(f, A) <= SumFunctionOnSet(e, A)
    OBVIOUS
  <2> QED
    BY <2>2, <2>3, <2>4, <2>5, <2>6
<1> HIDE DEF T
<1>3. S \in T
  BY <1>1, <1>2, BySetInduction
<1> QED
  BY <1>3 DEF T

LEMMA SumOfSums ==
  ASSUME NEW S, IsFiniteSet(S), NEW f, NEW e, NEW g, WholeOn(f, S), WholeOn(e, S),
         \A x \in S : g[x] = f[x] + e[x]
  PROVE  SumFunctionOnSet(g, S) = SumFunctionOnSet(f, S) + SumFunctionOnSet(e, S)
<1> DEFINE T == {A \in SUBSET S :
                   SumFunctionOnSet(g, A) = SumFunctionOnSet(f, A) + SumFunctionOnSet(e, A)}
<1>1. {} \in T
  BY SumOfNone
<1>2. ASSUME NEW A \in (SUBSET S) \cap T, NEW x \in S \ A PROVE A \union {x} \in T
  <2>1. /\ IsFiniteSet(A) /\ WholeOn(f, A \union {x}) /\ WholeOn(e, A \union {x})
        /\ WholeOn(f, A) /\ WholeOn(e, A)
    BY FS_Subset DEF WholeOn
  <2>2. WholeOn(g, A \union {x})
    BY DEF WholeOn
  <2>3. SumFunctionOnSet(f, A \union {x}) = SumFunctionOnSet(f, A) + f[x]
    BY <2>1, SumWith
  <2>4. SumFunctionOnSet(e, A \union {x}) = SumFunctionOnSet(e, A) + e[x]
    BY <2>1, SumWith
  <2>5. SumFunctionOnSet(g, A \union {x}) = SumFunctionOnSet(g, A) + g[x]
    <3>1. x \notin A /\ IsFiniteSet(A)
      BY <2>1
    <3> HIDE DEF T
    <3> QED
      BY ONLY <2>2, <3>1, SumWith
  <2>6. SumFunctionOnSet(f, A) \in Int /\ SumFunctionOnSet(e, A) \in Int
    BY <2>1, SumIsInteger
  <2>7. f[x] \in Int /\ e[x] \in Int /\ g[x] = f[x] + e[x]
    BY DEF WholeOn
  <2>8. SumFunctionOnSet(g, A) = SumFunctionOnSet(f, A) + SumFunctionOnSet(e, A)
    OBVIOUS
  <2> QED
    BY <2>3, <2>4, <2>5, <2>6, <2>7, <2>8
<1> HIDE DEF T
<1>3. S \in T
  BY <1>1, <1>2, BySetInduction
<1> QED
  BY <1>3 DEF T

(* A sum is split over any part of its set and the rest.                   *)
LEMMA SumSplit ==
  ASSUME NEW S, IsFiniteSet(S), NEW A \in SUBSET S, NEW f, WholeOn(f, S)
  PROVE  SumFunctionOnSet(f, S) = SumFunctionOnSet(f, A) + SumFunctionOnSet(f, S \ A)
<1> DEFINE T == {B \in SUBSET S : SumFunctionOnSet(f, B) =
                   SumFunctionOnSet(f, B \cap A) + SumFunctionOnSet(f, B \ A)}
<1>1. {} \in T
  <2>1. {} \cap A = {} /\ {} \ A = {}
    OBVIOUS
  <2> QED
    BY <2>1, SumOfNone
<1>2. ASSUME NEW B \in (SUBSET S) \cap T, NEW x \in S \ B PROVE B \union {x} \in T
  <2> DEFINE inside == B \cap A
             outside == B \ A
  <2>1. /\ IsFiniteSet(B) /\ IsFiniteSet(inside) /\ IsFiniteSet(outside) /\ f[x] \in Int
        /\ x \notin inside /\ x \notin outside
        /\ WholeOn(f, B \union {x}) /\ WholeOn(f, inside \union {x})
        /\ WholeOn(f, outside \union {x}) /\ WholeOn(f, inside) /\ WholeOn(f, outside)
    BY FS_Subset DEF WholeOn
  <2>2. SumFunctionOnSet(f, B) = SumFunctionOnSet(f, inside) + SumFunctionOnSet(f, outside)
    OBVIOUS
  <2>3. (B \union {x}) \cap A = (IF x \in A THEN inside \union {x} ELSE inside)
    OBVIOUS
  <2>4. (B \union {x}) \ A = (IF x \in A THEN outside ELSE outside \union {x})
    OBVIOUS
  <2> HIDE DEF inside, outside, T
  <2>5. SumFunctionOnSet(f, B \union {x}) = SumFunctionOnSet(f, B) + f[x]
    BY <2>1, SumWith
  <2>6. SumFunctionOnSet(f, inside \union {x}) = SumFunctionOnSet(f, inside) + f[x]
    BY <2>1, SumWith
  <2>7. SumFunctionOnSet(f, outside \union {x}) = SumFunctionOnSet(f, outside) + f[x]
    BY <2>1, SumWith
  <2>8. SumFunctionOnSet(f, inside) \in Int /\ SumFunctionOnSet(f, outside) \in Int
    BY <2>1, SumIsInteger
  <2>9. SumFunctionOnSet(f, B \union {x}) =
          SumFunctionOnSet(f, (B \union {x}) \cap A) + SumFunctionOnSet(f, (B \union {x}) \ A)
    <3>1. CASE x \in A
      <4>1. (B \union {x}) \cap A = inside \union {x} /\ (B \union {x}) \ A = outside
        BY <2>3, <2>4, <3>1, Zenon
      <4>2. SumFunctionOnSet(f, B \union {x}) =
              SumFunctionOnSet(f, inside \union {x}) + SumFunctionOnSet(f, outside)
        BY ONLY <2>1, <2>2, <2>5, <2>6, <2>8
      <4> QED
        BY <4>1, <4>2, Zenon
    <3>2. CASE x \notin A
      <4>1. (B \union {x}) \cap A = inside /\ (B \union {x}) \ A = outside \union {x}
        BY <2>3, <2>4, <3>2, Zenon
      <4>2. SumFunctionOnSet(f, B \union {x}) =
              SumFunctionOnSet(f, inside) + SumFunctionOnSet(f, outside \union {x})
        BY ONLY <2>1, <2>2, <2>5, <2>7, <2>8
      <4> QED
        BY <4>1, <4>2, Zenon
    <3> QED
      BY <3>1, <3>2
  <2> QED
    BY <2>9 DEF T
<1> HIDE DEF T
<1>3. S \in T
  BY <1>1, <1>2, BySetInduction
<1>4. S \cap A = A
  OBVIOUS
<1> QED
  BY <1>3, <1>4 DEF T

(* A sum is carried over by a map that takes no two to one.                *)
LEMMA SumCarriedOver ==
  ASSUME NEW S, IsFiniteSet(S), NEW f, WholeOn(f, S), NEW h, NEW g,
         \A x \in S : g[h[x]] = f[x],
         \A x, y \in S : h[x] = h[y] => x = y
  PROVE  SumFunctionOnSet(g, {h[x] : x \in S}) = SumFunctionOnSet(f, S)
<1> DEFINE Image(A) == {h[x] : x \in A}
           T == {A \in SUBSET S : /\ IsFiniteSet(Image(A))
                                  /\ SumFunctionOnSet(g, Image(A)) = SumFunctionOnSet(f, A)}
<1>1. {} \in T
  <2>1. Image({}) = {}
    OBVIOUS
  <2> QED
    BY <2>1, SumOfNone, FS_EmptySet
<1>2. ASSUME NEW A \in (SUBSET S) \cap T, NEW x \in S \ A PROVE A \union {x} \in T
  <2>1. Image(A \union {x}) = Image(A) \union {h[x]} /\ h[x] \notin Image(A)
    OBVIOUS
  <2>2. IsFiniteSet(A) /\ WholeOn(f, A \union {x}) /\ x \notin A
    BY FS_Subset DEF WholeOn
  <2>3. \A y \in Image(A) \union {h[x]} : g[y] \in Int
    BY DEF WholeOn
  <2>4. IsFiniteSet(Image(A)) /\ SumFunctionOnSet(g, Image(A)) = SumFunctionOnSet(f, A)
    OBVIOUS
  <2>5. g[h[x]] = f[x]
    OBVIOUS
  <2> HIDE DEF Image, T
  <2>6. WholeOn(g, Image(A) \union {h[x]})
    BY <2>3 DEF WholeOn
  <2>7. SumFunctionOnSet(g, Image(A) \union {h[x]}) = SumFunctionOnSet(g, Image(A)) + g[h[x]]
    BY <2>1, <2>4, <2>6, SumWith
  <2>8. SumFunctionOnSet(f, A \union {x}) = SumFunctionOnSet(f, A) + f[x]
    BY <2>2, SumWith
  <2>9. IsFiniteSet(Image(A) \union {h[x]})
    BY <2>4, FS_AddElement
  <2>10. A \union {x} \in SUBSET S
    OBVIOUS
  <2> QED
    BY <2>1, <2>4, <2>5, <2>7, <2>8, <2>9, <2>10 DEF T
<1> HIDE DEF T
<1>3. S \in T
  BY <1>1, <1>2, BySetInduction
<1> QED
  BY <1>3 DEF T

LEMMA SumOfPart ==
  ASSUME NEW S, IsFiniteSet(S), NEW A \in SUBSET S, NEW f, \A x \in S : f[x] \in Nat
  PROVE  /\ SumFunctionOnSet(f, A) \in Nat
         /\ SumFunctionOnSet(f, A) <= SumFunctionOnSet(f, S)
<1> DEFINE T == {B \in SUBSET S : /\ SumFunctionOnSet(f, B) \in Nat
                                  /\ SumFunctionOnSet(f, B \cap A) \in Nat
                                  /\ SumFunctionOnSet(f, B \cap A) <= SumFunctionOnSet(f, B)}
<1>1. {} \in T
  <2>1. {} \cap A = {}
    OBVIOUS
  <2> QED
    BY <2>1, SumOfNone
<1>2. ASSUME NEW B \in (SUBSET S) \cap T, NEW x \in S \ B PROVE B \union {x} \in T
  <2>1. /\ IsFiniteSet(B) /\ IsFiniteSet(B \cap A) /\ f[x] \in Nat
        /\ WholeOn(f, B \union {x}) /\ WholeOn(f, (B \cap A) \union {x})
    BY FS_Subset DEF WholeOn
  <2>2. SumFunctionOnSet(f, B \union {x}) = SumFunctionOnSet(f, B) + f[x]
    BY <2>1, SumWith
  <2>3. CASE x \in A
    <3>1. (B \union {x}) \cap A = (B \cap A) \union {x} /\ x \notin B \cap A
      BY <2>3
    <3>2. SumFunctionOnSet(f, (B \cap A) \union {x}) = SumFunctionOnSet(f, B \cap A) + f[x]
      BY <2>1, <3>1, SumWith
    <3> QED
      BY <2>1, <2>2, <3>1, <3>2
  <2>4. CASE x \notin A
    <3>1. (B \union {x}) \cap A = B \cap A
      BY <2>4
    <3> QED
      BY <2>1, <2>2, <3>1
  <2> QED
    BY <2>3, <2>4
<1> HIDE DEF T
<1>3. S \in T
  BY <1>1, <1>2, BySetInduction
<1>4. S \cap A = A
  OBVIOUS
<1> QED
  BY <1>3, <1>4 DEF T

LEMMA Division ==
  ASSUME NEW a \in Int, NEW d \in Nat, d > 0
  PROVE  /\ a \div d \in Int /\ a % d \in Int
         /\ a = d * (a \div d) + (a % d)
         /\ 0 <= a % d /\ a % d < d
  OBVIOUS

LEMMA SumOfMultiples ==
  ASSUME NEW S, IsFiniteSet(S), NEW f, NEW g, WholeOn(f, S), NEW c \in Int,
         \A x \in S : g[x] = c * f[x]
  PROVE  SumFunctionOnSet(g, S) = c * SumFunctionOnSet(f, S)
<1> DEFINE T == {A \in SUBSET S : SumFunctionOnSet(g, A) = c * SumFunctionOnSet(f, A)}
<1>1. {} \in T
  BY SumOfNone
<1>2. ASSUME NEW A \in (SUBSET S) \cap T, NEW x \in S \ A PROVE A \union {x} \in T
  <2>1. IsFiniteSet(A) /\ WholeOn(f, A \union {x}) /\ WholeOn(f, A) /\ f[x] \in Int
    BY FS_Subset DEF WholeOn
  <2>2. WholeOn(g, A \union {x})
    BY DEF WholeOn
  <2>3. SumFunctionOnSet(f, A \union {x}) = SumFunctionOnSet(f, A) + f[x]
    BY <2>1, SumWith
  <2>4. SumFunctionOnSet(g, A \union {x}) = SumFunctionOnSet(g, A) + g[x]
    <3> HIDE DEF T
    <3>1. IsFiniteSet(A) /\ x \notin A
      BY <2>1
    <3> QED
      BY ONLY <2>2, <3>1, SumWith
  <2>5. SumFunctionOnSet(f, A) \in Int
    BY <2>1, SumIsInteger
  <2>6. \A a, b \in Int : c * (a + b) = c * a + c * b
    OBVIOUS
  <2>7. c * (SumFunctionOnSet(f, A) + f[x]) = c * SumFunctionOnSet(f, A) + c * f[x]
    BY <2>1, <2>5, <2>6
  <2>8. SumFunctionOnSet(g, A) = c * SumFunctionOnSet(f, A) /\ g[x] = c * f[x]
    OBVIOUS
  <2> QED
    BY <2>3, <2>4, <2>7, <2>8
<1> HIDE DEF T
<1>3. S \in T
  BY <1>1, <1>2, BySetInduction
<1> QED
  BY <1>3 DEF T

(* Amounts of nothing do not count.                                        *)
LEMMA SumOfSupport ==
  ASSUME NEW S, IsFiniteSet(S), NEW A \in SUBSET S, NEW f, WholeOn(f, S),
         \A x \in S \ A : f[x] = 0
  PROVE  SumFunctionOnSet(f, S) = SumFunctionOnSet(f, A)
<1> DEFINE B == S \ A
<1>1. IsFiniteSet(A) /\ IsFiniteSet(B) /\ WholeOn(f, A) /\ WholeOn(f, B)
  BY FS_Subset DEF WholeOn
<1>2. SumFunctionOnSet(f, S) = SumFunctionOnSet(f, A) + SumFunctionOnSet(f, B)
  BY SumSplit
<1>3. \A x \in B : f[x] = 0 * f[x]
  BY <1>1 DEF WholeOn
<1> HIDE DEF B
<1>4. SumFunctionOnSet(f, B) = 0 * SumFunctionOnSet(f, B)
  BY <1>1, <1>3, SumOfMultiples
<1>5. SumFunctionOnSet(f, A) \in Int /\ SumFunctionOnSet(f, B) \in Int
  BY <1>1, SumIsInteger
<1> QED
  BY <1>2, <1>4, <1>5

LEMMA SumOfOnes ==
  ASSUME NEW S, IsFiniteSet(S), NEW f, \A x \in S : f[x] \in {0, 1}
  PROVE  SumFunctionOnSet(f, S) = Cardinality({x \in S : f[x] = 1})
<1> DEFINE Ones(A) == {x \in A : f[x] = 1}
           T == {A \in SUBSET S : SumFunctionOnSet(f, A) = Cardinality(Ones(A))}
<1>1. {} \in T
  <2>1. Ones({}) = {}
    OBVIOUS
  <2> QED
    BY <2>1, SumOfNone, FS_EmptySet
<1>2. ASSUME NEW A \in (SUBSET S) \cap T, NEW x \in S \ A PROVE A \union {x} \in T
  <2>1. IsFiniteSet(A) /\ IsFiniteSet(Ones(A)) /\ WholeOn(f, A \union {x})
    BY FS_Subset DEF WholeOn
  <2>2. SumFunctionOnSet(f, A \union {x}) = SumFunctionOnSet(f, A) + f[x]
    BY <2>1, SumWith
  <2>3. CASE f[x] = 1
    <3>1. Ones(A \union {x}) = Ones(A) \union {x} /\ x \notin Ones(A)
      BY <2>3
    <3>2. Cardinality(Ones(A) \union {x}) = Cardinality(Ones(A)) + 1
      BY <2>1, <3>1, FS_AddElement
    <3> QED
      BY <2>2, <2>3, <3>1, <3>2
  <2>4. CASE f[x] = 0
    <3>1. Ones(A \union {x}) = Ones(A)
      BY <2>4
    <3>2. Cardinality(Ones(A)) \in Nat
      BY <2>1, FS_CardinalityType
    <3> QED
      BY <2>2, <2>4, <3>1, <3>2
  <2> QED
    BY <2>3, <2>4
<1> HIDE DEF T
<1>3. S \in T
  BY <1>1, <1>2, BySetInduction
<1> QED
  BY <1>3 DEF T

(* Where no two of n have the same rank, each rank below n is taken.       *)
LEMMA RankedBelow ==
  ASSUME NEW S, IsFiniteSet(S), NEW rank \in [S -> Nat],
         \A x \in S : rank[x] < Cardinality(S),
         \A x, y \in S : rank[x] = rank[y] => x = y,
         NEW k \in Nat, k <= Cardinality(S)
  PROVE  Cardinality({x \in S : rank[x] < k}) = k
<1> DEFINE n == Cardinality(S)
           Low == {x \in S : rank[x] < k}
           low == [x \in Low |-> rank[x]]
<1>1. n \in Nat /\ IsFiniteSet(0..(n - 1)) /\ Cardinality(0..(n - 1)) = n
  <2>1. n \in Nat
    BY FS_CardinalityType
  <2> HIDE DEF n
  <2>2. 0 \in Int /\ n - 1 \in Int
    BY <2>1
  <2>3. /\ IsFiniteSet(0..(n - 1))
        /\ Cardinality(0..(n - 1)) = IF 0 > n - 1 THEN 0 ELSE (n - 1) - 0 + 1
    BY <2>2, FS_Interval
  <2> QED
    BY <2>1, <2>3
<1>2. rank \in Injection(S, 0..(n - 1))
  BY <1>1 DEF Injection, IsInjective
<1>3. rank \in Surjection(S, 0..(n - 1))
  <2>1. Cardinality(S) = Cardinality(0..(n - 1))
    BY <1>1
  <2> HIDE DEF n
  <2> QED
    BY <1>1, <1>2, <2>1, FS_Injection
<1>4. low \in Bijection(Low, 0..(k - 1))
  <2>1. low \in [Low -> 0..(k - 1)]
    OBVIOUS
  <2>2. \A r \in 0..(k - 1) : \E x \in Low : low[x] = r
    BY <1>1, <1>3 DEF Surjection
  <2> QED
    BY <2>1, <2>2 DEF Bijection, Injection, Surjection, IsInjective
<1>5. IsFiniteSet(Low)
  BY FS_Subset
<1>6. Cardinality(0..(k - 1)) = Cardinality(Low)
  BY <1>4, <1>5, FS_Bijection DEF ExistsBijection
<1> QED
  BY <1>6, FS_Interval

LEMMA QuotientBounds ==
  ASSUME NEW r \in Int, NEW s \in Nat, NEW m \in Nat, s > 0,
         0 <= r * s, r * s <= (s - 1) * m
  PROVE  r \in Nat /\ r <= m
<1>1. \A a, b \in Int : a <= b => a * s <= b * s
  OBVIOUS
<1>2. ASSUME r < 0 PROVE FALSE
  <2>1. r * s <= (-1) * s
    BY <1>1, <1>2
  <2>2. (-1) * s = -s /\ r * s \in Int
    OBVIOUS
  <2> QED
    BY <2>1, <2>2
<1>3. ASSUME r > m PROVE FALSE
  <2>1. (m + 1) * s <= r * s
    BY <1>1, <1>3
  <2>2. (m + 1) * s = m * s + s /\ (s - 1) * m = m * s - m /\ m * s \in Int /\ r * s \in Int
    OBVIOUS
  <2> QED
    BY <2>1, <2>2
<1> QED
  BY <1>2, <1>3

Floors(total, w) == [i \in DOMAIN w |-> (total * w[i]) \div SumFunction(w)]

Cuts(total, w) == [i \in DOMAIN w |-> (total * w[i]) % SumFunction(w)]

IsWeighting(w) ==
  /\ w \in [DOMAIN w -> Nat]
  /\ IsFiniteSet(DOMAIN w)
  /\ DOMAIN w \subseteq Int
  /\ SumFunction(w) \in Nat \ {0}

LEMMA FloorsAndCuts ==
  ASSUME NEW total \in Int, NEW w, IsWeighting(w), NEW i \in DOMAIN w
  PROVE  /\ Floors(total, w)[i] \in Int
         /\ Cuts(total, w)[i] \in 0..(SumFunction(w) - 1)
         /\ total * w[i] = SumFunction(w) * Floors(total, w)[i] + Cuts(total, w)[i]
<1> DEFINE sum == SumFunction(w)
           x   == total * w[i]
<1>1. sum \in Nat /\ sum > 0 /\ x \in Int
  BY DEF IsWeighting
<1>2. Floors(total, w)[i] = x \div sum /\ Cuts(total, w)[i] = x % sum
  BY DEF Floors, Cuts
<1> HIDE DEF sum, x
<1>3. /\ x \div sum \in Int /\ x % sum \in Int
      /\ x = sum * (x \div sum) + (x % sum)
      /\ 0 <= x % sum /\ x % sum < sum
  BY <1>1, Division
<1>4. /\ Floors(total, w)[i] \in Int
      /\ Cuts(total, w)[i] \in 0..(sum - 1)
      /\ x = sum * Floors(total, w)[i] + Cuts(total, w)[i]
  BY <1>1, <1>2, <1>3
<1> QED
  BY <1>4 DEF sum, x

Residual(total, w) == total - SumFunctionOnSet(Floors(total, w), DOMAIN w)

CutShort(total, w) == {i \in DOMAIN w : Cuts(total, w)[i] > 0}

LEMMA ResidualIsCovered ==
  ASSUME NEW total \in Int, NEW w, IsWeighting(w)
  PROVE  Residual(total, w) \in Nat /\ Residual(total, w) <= Cardinality(CutShort(total, w))
<1> DEFINE S     == DOMAIN w
           sum   == SumFunction(w)
           floor == Floors(total, w)
           cut   == Cuts(total, w)
           whole == [i \in S |-> total * w[i]]
           full  == [i \in S |-> sum * floor[i]]
           one   == [i \in S |-> IF cut[i] > 0 THEN 1 ELSE 0]
           most  == [i \in S |-> (sum - 1) * one[i]]
           m     == Cardinality(CutShort(total, w))
<1>1. IsFiniteSet(S) /\ sum \in Nat /\ sum > 0 /\ sum = SumFunctionOnSet(w, S) /\ WholeOn(w, S)
  BY DEF IsWeighting, SumFunction, WholeOn
<1>2. \A i \in S : floor[i] \in Int /\ cut[i] \in 0..(sum - 1) /\ total * w[i] = sum * floor[i] + cut[i]
  BY FloorsAndCuts
<1> HIDE DEF floor, cut
<1>3. SumFunctionOnSet(whole, S) = total * sum
  <2> HIDE DEF sum
  <2>1. \A i \in S : whole[i] = total * w[i]
    OBVIOUS
  <2> HIDE DEF whole
  <2> QED
    BY <1>1, <2>1, SumOfMultiples
<1>4. WholeOn(floor, S) /\ WholeOn(cut, S)
  BY <1>1, <1>2 DEF WholeOn
<1>5. SumFunctionOnSet(full, S) = sum * SumFunctionOnSet(floor, S) /\ WholeOn(full, S)
  <2> HIDE DEF sum
  <2>1. \A i \in S : full[i] = sum * floor[i] /\ full[i] \in Int
    BY <1>1, <1>4 DEF WholeOn
  <2> HIDE DEF full
  <2>2. SumFunctionOnSet(full, S) = sum * SumFunctionOnSet(floor, S)
    BY <1>1, <1>4, <2>1, SumOfMultiples
  <2> QED
    BY <2>1, <2>2 DEF WholeOn
<1>6. SumFunctionOnSet(whole, S) = SumFunctionOnSet(full, S) + SumFunctionOnSet(cut, S)
  <2>1. \A i \in S : whole[i] = full[i] + cut[i]
    BY <1>2
  <2> HIDE DEF whole, full
  <2> QED
    BY <1>1, <1>4, <1>5, <2>1, SumOfSums
<1>7. WholeOn(one, S) /\ WholeOn(most, S) /\ \A i \in S : cut[i] <= most[i] /\ 0 <= cut[i]
  <2> HIDE DEF sum
  <2>1. \A i \in S : one[i] \in {0, 1} /\ (one[i] = 1 <=> cut[i] > 0) /\ most[i] = (sum - 1) * one[i]
    OBVIOUS
  <2> HIDE DEF one, most
  <2>2. (sum - 1) * 1 = sum - 1 /\ (sum - 1) * 0 = 0
    BY <1>1
  <2>3. ASSUME NEW i \in S PROVE one[i] \in Int /\ most[i] \in Int /\ cut[i] <= most[i] /\ 0 <= cut[i]
    BY <1>1, <1>2, <2>1, <2>2
  <2> QED
    BY <2>3 DEF WholeOn
<1>8. SumFunctionOnSet(one, S) = m /\ m \in Nat
  <2>1. \A i \in S : one[i] \in {0, 1}
    OBVIOUS
  <2>2. {i \in S : one[i] = 1} = CutShort(total, w)
    BY DEF CutShort, cut
  <2>3. IsFiniteSet(CutShort(total, w))
    BY <1>1, FS_Subset DEF CutShort
  <2> HIDE DEF one
  <2> QED
    BY <1>1, <2>1, <2>2, <2>3, SumOfOnes, FS_CardinalityType
<1>9. SumFunctionOnSet(most, S) = (sum - 1) * m
  <2> HIDE DEF sum, m
  <2>1. (\A i \in S : most[i] = (sum - 1) * one[i]) /\ sum - 1 \in Int
    BY <1>1
  <2> HIDE DEF one, most
  <2> QED
    BY <1>1, <1>7, <1>8, <2>1, SumOfMultiples
<1>10. SumFunctionOnSet(cut, S) <= SumFunctionOnSet(most, S)
  <2> HIDE DEF most, one
  <2> QED
    BY <1>1, <1>4, <1>7, SumAtMost
<1>11. 0 <= SumFunctionOnSet(cut, S)
  <2>1. \A i \in S : cut[i] \in Nat
    BY <1>1, <1>2
  <2>2. SumFunctionOnSet(cut, S) \in Nat
    BY <1>1, <2>1, SumOfPart
  <2> QED
    BY <2>2
<1>12. SumFunctionOnSet(floor, S) \in Int /\ SumFunctionOnSet(cut, S) \in Int
  BY <1>1, <1>4, SumIsInteger
<1> DEFINE r  == Residual(total, w)
           sf == SumFunctionOnSet(floor, S)
           sc == SumFunctionOnSet(cut, S)
<1>13. r = total - sf
  BY DEF Residual, floor
<1>14. sc = total * sum - sum * sf
  <2>1. total * sum = sum * sf + sc
    BY <1>3, <1>5, <1>6
  <2> HIDE DEF sf, sc, sum
  <2> QED
    BY <1>1, <1>12, <2>1 DEF sf, sc
<1>15. r * sum = sc
  <2> HIDE DEF r, sf, sc, sum
  <2>1. sf \in Int
    BY <1>12 DEF sf
  <2> QED
    BY <1>1, <1>13, <1>14, <2>1
<1>16. 0 <= r * sum /\ r * sum <= (sum - 1) * m /\ r \in Int
  BY <1>9, <1>10, <1>11, <1>12, <1>13, <1>15
<1> HIDE DEF r, sum, m
<1>17. r \in Nat /\ r <= m
  BY <1>1, <1>8, <1>16, QuotientBounds
<1> QED
  BY <1>17 DEF r, m

(* The indexes served before i when the left-over units are handed out.    *)
Ahead(total, w, i) == {j \in DOMAIN w : ServedBefore(total, w, j, i)}

LEMMA ServedInOrder ==
  ASSUME NEW total \in Int, NEW w, IsWeighting(w)
  PROVE  /\ \A i \in DOMAIN w : ~ServedBefore(total, w, i, i)
         /\ \A i, j, k \in DOMAIN w :
              ServedBefore(total, w, i, j) /\ ServedBefore(total, w, j, k)
                => ServedBefore(total, w, i, k)
         /\ \A i, j \in DOMAIN w :
              i = j \/ ServedBefore(total, w, i, j) \/ ServedBefore(total, w, j, i)
<1> DEFINE cut == Cuts(total, w)
<1>1. \A i \in DOMAIN w : cut[i] \in Int /\ w[i] \in Int /\ i \in Int
  BY FloorsAndCuts DEF IsWeighting
<1>2. \A i, j \in DOMAIN w :
        ServedBefore(total, w, i, j)
          <=> \/ cut[i] > cut[j]
              \/ cut[i] = cut[j] /\ w[i] > w[j]
              \/ cut[i] = cut[j] /\ w[i] = w[j] /\ i < j
  BY DEF ServedBefore, Cuts
<1> HIDE DEF cut
<1> QED
  BY <1>1, <1>2

(* No two indexes have as many ahead of them.                              *)
LEMMA AheadIsARank ==
  ASSUME NEW total \in Int, NEW w, IsWeighting(w)
  PROVE  /\ \A i \in DOMAIN w :
              /\ IsFiniteSet(Ahead(total, w, i))
              /\ Cardinality(Ahead(total, w, i)) \in Nat
              /\ Cardinality(Ahead(total, w, i)) < Cardinality(DOMAIN w)
         /\ \A i, j \in DOMAIN w :
              Cardinality(Ahead(total, w, i)) = Cardinality(Ahead(total, w, j)) => i = j
<1>1. IsFiniteSet(DOMAIN w) /\ Cardinality(DOMAIN w) \in Nat
  BY FS_CardinalityType DEF IsWeighting
<1>2. ASSUME NEW i \in DOMAIN w
      PROVE  /\ IsFiniteSet(Ahead(total, w, i))
             /\ Cardinality(Ahead(total, w, i)) \in Nat
             /\ Cardinality(Ahead(total, w, i)) < Cardinality(DOMAIN w)
  <2>1. Ahead(total, w, i) \in SUBSET (DOMAIN w) /\ i \notin Ahead(total, w, i)
    BY ServedInOrder DEF Ahead
  <2>2. IsFiniteSet(Ahead(total, w, i)) /\ Cardinality(Ahead(total, w, i)) \in Nat
    BY <1>1, <2>1, FS_Subset, FS_CardinalityType
  <2>3. /\ Cardinality(Ahead(total, w, i)) <= Cardinality(DOMAIN w)
        /\ Cardinality(Ahead(total, w, i)) # Cardinality(DOMAIN w)
    BY <1>1, <2>1, FS_Subset
  <2> QED
    BY <1>1, <2>2, <2>3
<1>3. ASSUME NEW i \in DOMAIN w, NEW j \in DOMAIN w, ServedBefore(total, w, i, j)
      PROVE  Cardinality(Ahead(total, w, i)) < Cardinality(Ahead(total, w, j))
  <2>1. Ahead(total, w, i) \in SUBSET Ahead(total, w, j)
    BY <1>3, ServedInOrder DEF Ahead
  <2>2. i \in Ahead(total, w, j) /\ i \notin Ahead(total, w, i)
    BY <1>3, ServedInOrder DEF Ahead
  <2>3. /\ Cardinality(Ahead(total, w, i)) <= Cardinality(Ahead(total, w, j))
        /\ Cardinality(Ahead(total, w, i)) # Cardinality(Ahead(total, w, j))
    BY <1>2, <2>1, <2>2, FS_Subset
  <2> QED
    BY <1>2, <2>3
<1>4. ASSUME NEW i \in DOMAIN w, NEW j \in DOMAIN w,
             Cardinality(Ahead(total, w, i)) = Cardinality(Ahead(total, w, j))
      PROVE  i = j
  <2>1. CASE ServedBefore(total, w, i, j)
    BY <1>2, <1>3, <1>4, <2>1
  <2>2. CASE ServedBefore(total, w, j, i)
    BY <1>2, <1>3, <1>4, <2>2
  <2> QED
    BY <2>1, <2>2, ServedInOrder
<1> QED
  BY <1>2, <1>4

(* As many units are handed out as the floors leave, each to an index the  *)
(* floor cut short.                                                        *)
Bonus(total, w) ==
  [i \in DOMAIN w |-> IF Cardinality(Ahead(total, w, i)) < Residual(total, w) THEN 1 ELSE 0]

LEMMA ResidualIsHandedOut ==
  ASSUME NEW total \in Int, NEW w, IsWeighting(w)
  PROVE  /\ SumFunctionOnSet(Bonus(total, w), DOMAIN w) = Residual(total, w)
         /\ \A i \in DOMAIN w : Bonus(total, w)[i] \in {0, 1}
         /\ \A i \in DOMAIN w : Bonus(total, w)[i] = 1 => Cuts(total, w)[i] > 0
<1> DEFINE S     == DOMAIN w
           r     == Residual(total, w)
           rank  == [i \in S |-> Cardinality(Ahead(total, w, i))]
           bonus == Bonus(total, w)
<1>1. IsFiniteSet(S) /\ r \in Nat /\ r <= Cardinality(CutShort(total, w))
  BY ResidualIsCovered DEF IsWeighting
<1>2. /\ IsFiniteSet(CutShort(total, w))
      /\ Cardinality(CutShort(total, w)) \in Nat
      /\ Cardinality(CutShort(total, w)) <= Cardinality(S)
  <2>1. CutShort(total, w) \in SUBSET S
    BY DEF CutShort
  <2> QED
    BY <1>1, <2>1, FS_Subset, FS_CardinalityType
<1>3. \A i \in S : bonus[i] = (IF rank[i] < r THEN 1 ELSE 0)
  BY DEF Bonus
<1>4. /\ rank \in [S -> Nat]
      /\ \A i \in S : rank[i] < Cardinality(S)
      /\ \A i, j \in S : rank[i] = rank[j] => i = j
  BY AheadIsARank
<1>5. Cardinality(S) \in Nat
  BY <1>1, FS_CardinalityType
<1>6. Cardinality({i \in S : rank[i] < r}) = r
  <2> HIDE DEF rank, r
  <2>1. r <= Cardinality(S)
    BY <1>1, <1>2, <1>5
  <2> QED
    BY <1>1, <1>4, <2>1, RankedBelow
<1>7. {i \in S : bonus[i] = 1} = {i \in S : rank[i] < r}
  BY <1>3
<1>8. SumFunctionOnSet(bonus, S) = Cardinality({i \in S : bonus[i] = 1})
  <2> HIDE DEF bonus, r, rank
  <2> QED
    BY <1>1, <1>3, SumOfOnes
<1>9. ASSUME NEW i \in S, rank[i] < r PROVE Cuts(total, w)[i] > 0
  <2>1. SUFFICES ASSUME ~(Cuts(total, w)[i] > 0) PROVE FALSE
    OBVIOUS
  <2>2. \A j \in S : Cuts(total, w)[j] \in Int
    BY FloorsAndCuts
  <2>3. CutShort(total, w) \in SUBSET Ahead(total, w, i)
    BY <2>1, <2>2 DEF CutShort, Ahead, ServedBefore, Cuts
  <2>4. Cardinality(CutShort(total, w)) <= Cardinality(Ahead(total, w, i))
    BY <2>3, AheadIsARank, FS_Subset
  <2>5. Cardinality(Ahead(total, w, i)) \in Nat /\ rank[i] = Cardinality(Ahead(total, w, i))
    BY AheadIsARank
  <2> HIDE DEF rank, r
  <2> QED
    BY <1>1, <1>2, <1>9, <2>4, <2>5
<1> QED
  BY <1>3, <1>6, <1>7, <1>8, <1>9

(* The weights as they are read: what is negative or unreadable is nothing. *)
AsWeights(weights) == [i \in DOMAIN weights |-> Greater(AsMinor(weights[i]), 0)]

LEMMA SharesAreFloorsAndBonuses ==
  ASSUME NEW total \in Int, NEW weights, IsWeighting(AsWeights(weights)), total # 0
  PROVE  AllocateByWeight(total, weights) =
           [i \in DOMAIN weights |->
              Floors(total, AsWeights(weights))[i] + Bonus(total, AsWeights(weights))[i]]
<1> DEFINE w     == AsWeights(weights)
           S     == DOMAIN w
           floor == Floors(total, w)
<1>1. S = DOMAIN weights /\ IsWeighting(w)
  BY DEF AsWeights
<1>2. Total(w) = SumFunction(w) /\ Total(w) > 0 /\ AsMinor(total) = total
  <2> HIDE DEF w
  <2> QED
    BY <1>1 DEF Total, AsMinor, IsWeighting
<1>3. Total(floor) = SumFunctionOnSet(floor, S)
  <2>1. IsFiniteSet(S) /\ WholeOn(floor, S)
    <3> HIDE DEF w
    <3> QED
      BY <1>1, FloorsAndCuts DEF IsWeighting, WholeOn
  <2>2. SumFunctionOnSet(floor, S) \in Int /\ DOMAIN floor = S
    <3>1. DOMAIN floor = S
      BY DEF Floors
    <3> HIDE DEF floor, w
    <3> QED
      BY <2>1, <3>1, SumIsInteger
  <2> HIDE DEF floor, w
  <2> QED
    BY <2>2 DEF Total, AsMinor, SumFunction
<1>4. floor = [i \in S |-> (total * w[i]) \div Total(w)]
  BY <1>2 DEF Floors
<1>5. AllocateByWeight(total, weights) =
        [i \in S |-> (total * w[i]) \div Total(w)
                       + (IF Cardinality({j \in S : ServedBefore(total, w, j, i)})
                               < total - Total([k \in S |-> (total * w[k]) \div Total(w)])
                          THEN 1 ELSE 0)]
  <2>1. AllocateByWeight(total, weights) =
          IF Total(w) <= 0 \/ AsMinor(total) = 0
          THEN [i \in S |-> 0]
          ELSE [i \in S |->
                  (AsMinor(total) * w[i]) \div Total(w)
                    + (IF Cardinality({j \in S : ServedBefore(AsMinor(total), w, j, i)})
                            < AsMinor(total)
                                - Total([k \in S |-> (AsMinor(total) * w[k]) \div Total(w)])
                       THEN 1 ELSE 0)]
    BY Zenon DEF AllocateByWeight, AsWeights
  <2> HIDE DEF w
  <2>2. ~(Total(w) <= 0 \/ AsMinor(total) = 0)
    BY <1>1, <1>2 DEF IsWeighting
  <2> QED
    BY <1>2, <2>1, <2>2, Zenon
<1>6. total - Total([k \in S |-> (total * w[k]) \div Total(w)]) = Residual(total, w)
  BY <1>3, <1>4 DEF Residual
<1>7. \A i \in S :
        (total * w[i]) \div Total(w)
          + (IF Cardinality({j \in S : ServedBefore(total, w, j, i)})
                  < total - Total([k \in S |-> (total * w[k]) \div Total(w)])
             THEN 1 ELSE 0)
        = floor[i] + Bonus(total, w)[i]
  <2> HIDE DEF w
  <2> QED
    BY <1>4, <1>6 DEF Bonus, Ahead
<1> QED
  BY <1>1, <1>5, <1>7

(* What is divided is handed out to the last unit and no unit more: the    *)
(* floors leave a residual, and as many shares get one of it               *)
(* (allocateByWeight).                                                     *)
THEOREM AllocationIsExact ==
  ASSUME NEW total \in Int, NEW weights, IsWeighting(AsWeights(weights))
  PROVE  /\ AllocateByWeight(total, weights) \in [DOMAIN weights -> Int]
         /\ SumFunction(AllocateByWeight(total, weights)) = total
<1> DEFINE w     == AsWeights(weights)
           S     == DOMAIN weights
           a     == AllocateByWeight(total, weights)
           floor == Floors(total, w)
           bonus == Bonus(total, w)
<1>1. DOMAIN w = S /\ IsFiniteSet(S) /\ IsWeighting(w)
  BY DEF AsWeights, IsWeighting
<1>2. CASE total = 0
  <2>1. a = [i \in S |-> 0]
    BY <1>2 DEF AllocateByWeight, AsMinor
  <2>2. \A i \in S : a[i] = 0 * 0
    BY <2>1
  <2>3. DOMAIN a = S /\ WholeOn(a, S) /\ \A i \in S : a[i] \in {0, 1} /\ a[i] # 1
    BY <2>1 DEF WholeOn
  <2>4. {i \in S : a[i] = 1} = {}
    BY <2>3
  <2> HIDE DEF a
  <2>5. SumFunctionOnSet(a, S) = 0
    BY <1>1, <2>3, <2>4, SumOfOnes, FS_EmptySet
  <2>6. SumFunction(a) = 0
    BY <2>3, <2>5 DEF SumFunction
  <2>7. a \in [S -> Int]
    BY <2>1
  <2> QED
    BY <1>2, <2>6, <2>7 DEF a
<1>3. CASE total # 0
  <2>1. a = [i \in S |-> floor[i] + bonus[i]]
    BY <1>3, SharesAreFloorsAndBonuses
  <2>2. WholeOn(floor, S) /\ WholeOn(bonus, S)
    <3> HIDE DEF w
    <3> QED
      BY <1>1, FloorsAndCuts, ResidualIsHandedOut DEF WholeOn
  <2>3. SumFunctionOnSet(bonus, S) = total - SumFunctionOnSet(floor, S)
    BY <1>1, ResidualIsHandedOut DEF Residual
  <2>4. SumFunctionOnSet(floor, S) \in Int
    <3> HIDE DEF floor
    <3> QED
      BY <1>1, <2>2, SumIsInteger
  <2> HIDE DEF floor, bonus
  <2>5. SumFunctionOnSet(a, S) = SumFunctionOnSet(floor, S) + SumFunctionOnSet(bonus, S)
    <3>1. \A i \in S : a[i] = floor[i] + bonus[i]
      BY <2>1
    <3> HIDE DEF a
    <3> QED
      BY <1>1, <2>2, <3>1, SumOfSums
  <2>6. DOMAIN a = S /\ a \in [S -> Int]
    BY <2>1, <2>2 DEF WholeOn
  <2> HIDE DEF a
  <2>7. SumFunctionOnSet(a, S) = total
    BY <2>3, <2>4, <2>5
  <2> QED
    BY <2>6, <2>7 DEF SumFunction, a
<1> QED
  BY <1>2, <1>3

(* Where no more is divided than the weights come to, no share is more     *)
(* than its weight: no unit of the residual goes where nothing was cut     *)
(* short (allocateByWeight, of which spreadDiscount makes use).            *)
THEOREM ShareWithinWeight ==
  ASSUME NEW total \in Nat, NEW weights, IsWeighting(AsWeights(weights)),
         total <= SumFunction(AsWeights(weights)), NEW i \in DOMAIN weights
  PROVE  /\ AllocateByWeight(total, weights)[i] \in Nat
         /\ AllocateByWeight(total, weights)[i] <= AsWeights(weights)[i]
<1> DEFINE w   == AsWeights(weights)
           sum == SumFunction(w)
           x   == total * w[i]
           f   == Floors(total, w)[i]
           c   == Cuts(total, w)[i]
           b   == Bonus(total, w)[i]
<1>1. i \in DOMAIN w /\ w[i] \in Nat /\ sum \in Nat /\ sum > 0 /\ IsWeighting(w)
  BY DEF AsWeights, IsWeighting
<1>2. CASE total = 0
  BY <1>1, <1>2 DEF AllocateByWeight, AsMinor
<1>3. CASE total # 0
  <2>1. AllocateByWeight(total, weights)[i] = f + b
    BY <1>3, SharesAreFloorsAndBonuses
  <2>2. b \in {0, 1} /\ (b = 1 => c > 0)
    <3> HIDE DEF w
    <3> QED
      BY <1>1, ResidualIsHandedOut
  <2>3. f \in Int /\ c \in 0..(sum - 1) /\ x = sum * f + c
    <3> HIDE DEF w
    <3> QED
      BY <1>1, FloorsAndCuts
  <2> HIDE DEF f, c, b, sum, w
  <2>4. 0 <= x /\ x <= sum * w[i]
    BY <1>1 DEF sum, w
  <2>5. \A m, n \in Int : sum * m <= sum * n => m <= n
    BY <1>1
  <2>6. 0 <= f
    <3>1. ASSUME f <= -1 PROVE FALSE
      <4>1. sum * f <= sum * (-1)
        BY <1>1, <2>3, <3>1
      <4>2. sum * (-1) = -sum /\ sum * f \in Int /\ x \in Int
        BY <1>1, <2>3
      <4> QED
        BY <1>1, <2>3, <2>4, <4>1, <4>2
    <3> QED
      BY <2>3, <3>1
  <2>7. f + b <= w[i]
    <3>1. ASSUME f + b >= w[i] + 1 PROVE FALSE
      <4>1. sum * w[i] <= sum * (f + b - 1)
        BY <1>1, <2>2, <2>3, <3>1
      <4>2. CASE b = 1
        <5>1. sum * w[i] <= sum * f
          BY <2>3, <4>1, <4>2
        <5>2. sum * w[i] \in Int /\ sum * f \in Int /\ c > 0
          BY <1>1, <2>2, <2>3, <4>2
        <5> QED
          BY <2>3, <2>4, <5>1, <5>2
      <4>3. CASE b = 0
        <5>1. sum * (f + b - 1) = sum * f - sum
          BY <1>1, <2>3, <4>3
        <5>2. sum * w[i] \in Int /\ sum * f \in Int
          BY <1>1, <2>3
        <5>3. sum * w[i] <= sum * f - sum
          BY <4>1, <5>1
        <5>4. sum * (w[i] + 1) <= sum * f
          BY <1>1, <5>2, <5>3
        <5> QED
          BY <1>1, <2>3, <2>4, <5>2, <5>3
      <4> QED
        BY <2>2, <4>2, <4>3
    <3> QED
      BY <1>1, <2>2, <2>3, <3>1
  <2> QED
    BY <2>1, <2>2, <2>3, <2>6, <2>7 DEF w
<1> QED
  BY <1>2, <1>3

-----------------------------------------------------------------------------
(* Amounts that are shared out in proportion to amounts (the gross claims  *)
(* of a commission pool).                                                  *)
AmountsOver(w, n) == w \in [1..n -> Nat]

LEMMA AmountsAreWeights ==
  ASSUME NEW n \in Nat, NEW w, AmountsOver(w, n)
  PROVE  /\ AsWeights(w) = w
         /\ IsFiniteSet(DOMAIN w) /\ WholeOn(w, DOMAIN w)
         /\ SumFunction(w) \in Nat
         /\ \A i \in 1..n : w[i] <= SumFunction(w)
         /\ SumFunction(w) # 0 => IsWeighting(w)
<1>1. IsFiniteSet(DOMAIN w) /\ DOMAIN w = 1..n
  BY FS_Interval DEF AmountsOver
<1>2. AsWeights(w) = w
  BY DEF AsWeights, AmountsOver, Greater, AsMinor
<1>3. WholeOn(w, DOMAIN w) /\ \A i \in DOMAIN w : w[i] \in Nat
  BY DEF WholeOn, AmountsOver
<1>4. SumFunction(w) \in Nat
  <2>1. DOMAIN w \in SUBSET DOMAIN w
    OBVIOUS
  <2> QED
    BY <1>1, <1>3, <2>1, SumOfPart DEF SumFunction
<1>5. ASSUME NEW i \in 1..n PROVE w[i] <= SumFunction(w)
  <2> DEFINE S == DOMAIN w
  <2>1. S \ {i} \in SUBSET S /\ i \in S
    BY <1>1
  <2>2. SumFunctionOnSet(w, S) = w[i] + SumFunctionOnSet(w, S \ {i})
    BY <1>1, <1>3, <2>1, SumWithout
  <2>3. SumFunctionOnSet(w, S \ {i}) \in Nat
    BY <1>1, <1>3, <2>1, SumOfPart
  <2> QED
    BY <1>3, <2>1, <2>2, <2>3 DEF SumFunction
<1> QED
  BY <1>1, <1>2, <1>3, <1>4, <1>5 DEF IsWeighting, AmountsOver

(* What allocateByWeight makes of an amount: amounts, that come to all of  *)
(* it as soon as somebody has a claim.                                     *)
LEMMA SharesAreAmounts ==
  ASSUME NEW n \in Nat, NEW w, AmountsOver(w, n), NEW total \in Nat
  PROVE  /\ AmountsOver(AllocateByWeight(total, w), n)
         /\ SumFunction(w) # 0 => SumFunction(AllocateByWeight(total, w)) = total
         /\ SumFunction(w) = 0 => \A i \in 1..n : AllocateByWeight(total, w)[i] = 0
         /\ total <= SumFunction(w) =>
              \A i \in 1..n : AllocateByWeight(total, w)[i] <= w[i]
<1> DEFINE sum == SumFunction(w)
           a   == AllocateByWeight(total, w)
<1>1. /\ AsWeights(w) = w /\ sum \in Nat /\ DOMAIN w = 1..n
      /\ \A i \in 1..n : w[i] \in Nat
      /\ sum # 0 => IsWeighting(w)
  BY AmountsAreWeights DEF AmountsOver
<1>2. CASE sum = 0
  <2>1. a = [i \in 1..n |-> 0]
    <3>1. Total([i \in DOMAIN w |-> Greater(AsMinor(w[i]), 0)]) = 0
      BY <1>1, <1>2 DEF Total, AsWeights, AsMinor
    <3> QED
      BY <1>1, <3>1 DEF AllocateByWeight
  <2>2. \A i \in 1..n : a[i] = 0
    BY <2>1
  <2>3. \A i \in 1..n : a[i] <= w[i]
    BY <1>1, <2>2
  <2>4. AmountsOver(a, n)
    <3> HIDE DEF a
    <3> QED
      BY <2>1 DEF AmountsOver
  <2> QED
    BY <1>2, <2>2, <2>3, <2>4
<1>3. CASE sum # 0
  <2>1. IsWeighting(w) /\ IsWeighting(AsWeights(w)) /\ total \in Int
    BY <1>1, <1>3
  <2>2. a \in [1..n -> Int] /\ SumFunction(a) = total
    BY <1>1, <2>1, AllocationIsExact
  <2>3. ASSUME NEW i \in 1..n PROVE a[i] \in Nat
    <3>1. CASE total = 0
      BY <1>1, <3>1 DEF AllocateByWeight, AsMinor
    <3>2. CASE total # 0
      <4>1. a = [k \in DOMAIN w |-> Floors(total, AsWeights(w))[k] + Bonus(total, AsWeights(w))[k]]
        BY <2>1, <3>2, SharesAreFloorsAndBonuses
      <4>2. a[i] = Floors(total, w)[i] + Bonus(total, w)[i]
        BY <1>1, <4>1
      <4>3. Bonus(total, w)[i] \in {0, 1}
        BY <1>1, <2>1, ResidualIsHandedOut
      <4>4. /\ Floors(total, w)[i] \in Int
            /\ Cuts(total, w)[i] \in 0..(sum - 1)
            /\ total * w[i] = sum * Floors(total, w)[i] + Cuts(total, w)[i]
        BY <1>1, <2>1, FloorsAndCuts
      <4>5. total * w[i] \in Nat
        BY <1>1
      <4>6. \A f, c, s, x \in Int :
              s > 0 /\ 0 <= c /\ c < s /\ x = s * f + c /\ 0 <= x => 0 <= f
        <5> SUFFICES ASSUME NEW f \in Int, NEW c \in Int, NEW s \in Int, NEW x \in Int,
                            s > 0, 0 <= c, c < s, x = s * f + c, 0 <= x, f <= -1
                     PROVE  FALSE
          OBVIOUS
        <5>1. s * f <= -s
          OBVIOUS
        <5> QED
          BY <5>1
      <4>7. 0 <= Floors(total, w)[i]
        <5> HIDE DEF sum
        <5>1. Cuts(total, w)[i] \in Int /\ sum \in Int /\ sum > 0 /\ total * w[i] \in Int
          BY <1>1, <1>3, <4>4, <4>5
        <5> QED
          BY <4>4, <4>5, <4>6, <5>1
      <4> QED
        BY <4>2, <4>3, <4>4, <4>7
    <3> QED
      BY <3>1, <3>2
  <2>4. ASSUME NEW i \in 1..n, total <= sum PROVE a[i] <= w[i]
    BY <1>1, <2>1, <2>4, ShareWithinWeight
  <2>5. AmountsOver(a, n)
    <3> HIDE DEF a
    <3> QED
      BY <2>2, <2>3 DEF AmountsOver
  <2> QED
    BY <1>3, <2>2, <2>4, <2>5
<1> QED
  BY <1>2, <1>3

(* Each share is within one unit of its exact quota, and a larger weight   *)
(* never ends with the smaller share: the left-over units go to those the  *)
(* division cut hardest (allocateByWeight).                                *)
THEOREM SharesFollowWeights ==
  ASSUME NEW n \in Nat, NEW w, AmountsOver(w, n), NEW total \in Nat,
         SumFunction(w) # 0, NEW i \in 1..n
  PROVE  LET a   == AllocateByWeight(total, w)
             sum == SumFunction(w)
         IN  /\ a[i] * sum - w[i] * total < sum
             /\ -(a[i] * sum - w[i] * total) < sum
             /\ \A j \in 1..n : w[i] > w[j] => a[i] >= a[j]
<1> DEFINE sum  == SumFunction(w)
           a    == AllocateByWeight(total, w)
           f    == Floors(total, w)
           c    == Cuts(total, w)
           b    == Bonus(total, w)
<1>1. /\ AsWeights(w) = w /\ sum \in Nat /\ sum > 0 /\ DOMAIN w = 1..n
      /\ \A k \in 1..n : w[k] \in Nat
      /\ IsWeighting(w) /\ total \in Int
  BY AmountsAreWeights DEF AmountsOver
<1>2. CASE total = 0
  <2>1. \A k \in 1..n : a[k] = 0
    BY <1>1, <1>2 DEF AllocateByWeight, AsMinor
  <2>2. a[i] * sum = 0 /\ w[i] * total = 0
    <3>1. \A x \in Int : 0 * x = 0 /\ x * 0 = 0
      OBVIOUS
    <3> HIDE DEF a, sum
    <3> QED
      BY <1>1, <1>2, <2>1, <3>1
  <2>3. /\ a[i] * sum - w[i] * total < sum
        /\ -(a[i] * sum - w[i] * total) < sum
    <3> HIDE DEF a, sum
    <3> QED
      BY <1>1, <2>2
  <2> QED
    BY <2>1, <2>3
<1>3. CASE total # 0
  <2>1. \A k \in 1..n : a[k] = f[k] + b[k]
    <3>1. a = [k \in DOMAIN w |-> Floors(total, AsWeights(w))[k] + Bonus(total, AsWeights(w))[k]]
      BY <1>1, <1>3, SharesAreFloorsAndBonuses
    <3> QED
      BY <1>1, <3>1
  <2>2. \A k \in 1..n : b[k] \in {0, 1} /\ (b[k] = 1 => c[k] > 0)
    BY <1>1, ResidualIsHandedOut
  <2>3. \A k \in 1..n : /\ f[k] \in Int /\ c[k] \in Int /\ 0 <= c[k] /\ c[k] < sum
                        /\ total * w[k] = sum * f[k] + c[k]
    <3> SUFFICES ASSUME NEW k \in 1..n
                 PROVE  /\ f[k] \in Int /\ c[k] \in Int /\ 0 <= c[k] /\ c[k] < sum
                        /\ total * w[k] = sum * f[k] + c[k]
      OBVIOUS
    <3>1. k \in DOMAIN w
      BY <1>1
    <3> QED
      BY <1>1, <3>1, FloorsAndCuts
  <2>4. a[i] * sum - w[i] * total = b[i] * sum - c[i]
    <3> HIDE DEF sum, a, f, c, b
    <3>1. a[i] * sum = sum * f[i] + b[i] * sum
      <4>1. \A s, x, y \in Int : (x + y) * s = s * x + y * s
        OBVIOUS
      <4>2. b[i] \in Int /\ f[i] \in Int /\ sum \in Int
        BY <1>1, <2>2, <2>3
      <4> QED
        BY <2>1, <4>1, <4>2
    <3>2. w[i] * total = sum * f[i] + c[i]
      BY <1>1, <2>3
    <3>3. sum * f[i] \in Int /\ b[i] * sum \in Int /\ c[i] \in Int
      <4>1. \A x, y \in Int : x * y \in Int
        OBVIOUS
      <4>2. b[i] \in Int /\ f[i] \in Int /\ sum \in Int /\ c[i] \in Int
        BY <1>1, <2>2, <2>3
      <4> QED
        BY <4>1, <4>2
    <3> QED
      BY <3>1, <3>2, <3>3
  <2>5. b[i] * sum - c[i] < sum /\ -(b[i] * sum - c[i]) < sum
    <3> HIDE DEF sum, a, f, c, b
    <3>1. \A s, x, y \in Int : 
            0 <= y /\ y < s /\ x \in {0, 1} /\ (x = 1 => y > 0)
              => x * s - y < s /\ -(x * s - y) < s
      <4>1. \A s \in Int : 0 * s = 0 /\ 1 * s = s
        OBVIOUS
      <4> QED
        BY <4>1
    <3>2. b[i] \in Int /\ c[i] \in Int /\ sum \in Int
      BY <1>1, <2>2, <2>3
    <3> QED
      BY <2>2, <2>3, <3>1, <3>2
  <2>6. ASSUME NEW j \in 1..n, w[i] > w[j] PROVE a[i] >= a[j]
    <3>1. sum * f[j] + c[j] < sum * f[i] + c[i]
      <4>1. total * w[j] < total * w[i]
        <5>1. \A s, x, y \in Nat : s # 0 /\ x > y => s * y < s * x
          OBVIOUS
        <5> QED
          BY <1>1, <1>3, <2>6, <5>1
      <4> QED
        BY <2>3, <4>1
    <3>2. CASE f[i] > f[j]
      <4> HIDE DEF a, f, b, c, sum
      <4> QED
        BY <2>1, <2>2, <2>3, <3>2
    <3>3. CASE f[i] = f[j]
      <4>1. c[i] > c[j]
        <5> HIDE DEF a, f, b, c, sum
        <5>1. sum * f[j] \in Int /\ sum * f[j] = sum * f[i]
          BY <1>1, <2>3, <3>3
        <5> QED
          BY <2>3, <3>1, <5>1
      <4>2. ServedBefore(total, w, i, j)
        BY <1>1, <4>1 DEF ServedBefore, Cuts
      <4>3. Ahead(total, w, i) \subseteq Ahead(total, w, j)
        BY <1>1, <4>2, ServedInOrder DEF Ahead
      <4>4. /\ Cardinality(Ahead(total, w, i)) <= Cardinality(Ahead(total, w, j))
            /\ Cardinality(Ahead(total, w, i)) \in Nat
            /\ Cardinality(Ahead(total, w, j)) \in Nat
        BY <1>1, <4>3, AheadIsARank, FS_Subset
      <4>5. Residual(total, w) \in Nat
        BY <1>1, ResidualIsCovered
      <4>6. b[j] = 1 => b[i] = 1
        BY <1>1, <4>4, <4>5 DEF Bonus
      <4> HIDE DEF a, f, b, c, sum
      <4> QED
        BY <2>1, <2>2, <2>3, <3>3, <4>6
    <3>4. CASE f[i] < f[j]
      <4> HIDE DEF a, f, b, c, sum
      <4>1. f[i] + 1 <= f[j]
        BY <2>3, <3>4
      <4>2. sum * (f[i] + 1) <= sum * f[j]
        <5>1. \A s \in Nat, x, y \in Int : x <= y => s * x <= s * y
          OBVIOUS
        <5>2. f[i] + 1 \in Int /\ f[j] \in Int /\ sum \in Nat
          BY <1>1, <2>3
        <5> QED
          BY <4>1, <5>1, <5>2
      <4>3. sum * (f[i] + 1) = sum * f[i] + sum
        BY <1>1, <2>3
      <4>4. sum * f[i] \in Int /\ sum * f[j] \in Int
        BY <1>1, <2>3
      <4>5. c[i] \in Int /\ c[j] \in Int /\ 0 <= c[j] /\ c[i] < sum /\ sum \in Int
        BY <1>1, <2>3
      <4>6. sum * f[i] + sum <= sum * f[j]
        BY <4>2, <4>3
      <4> QED
        BY <3>1, <4>4, <4>5, <4>6
    <3> HIDE DEF a, f, b, c, sum
    <3> QED
      BY <2>3, <3>2, <3>3, <3>4
  <2> HIDE DEF a, f, b, c, sum
  <2> QED
    BY <2>4, <2>5, <2>6 DEF a, sum
<1> QED
  BY <1>2, <1>3
=============================================================================
