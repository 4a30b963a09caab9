----------------------- MODULE SequencePositionsProofs -----------------------
(***************************************************************************)
(* Lemmas about At, and what the proofs about recursive functions need:    *)
(* induction over the natural numbers, stated for sets of them, and that   *)
(* what a step keeps or yields, n steps keep or yield.                     *)
(***************************************************************************)
EXTENDS SequencePositions, Integers, Functions, FiniteSetTheorems, WellFoundedInduction, TLAPS

(* A set of numbers has a least one.                                       *)
LEMMA Least == ASSUME NEW T \in SUBSET Nat, T # {} PROVE \E x \in T : \A y \in T : ~(y < x)
<1> DEFINE R == OpToRel(<, Nat)
<1>1. IsWellFoundedOn(R, Nat)
  BY NatLessThanWellFounded, Zenon
<1>2. \A x, y \in Nat : y < x => <<y, x>> \in R
  BY DEF OpToRel
<1> HIDE DEF R
<1>3. T \subseteq Nat
  OBVIOUS
<1>4. \E x \in T : \A y \in T : ~(<<y, x>> \in R)
  BY <1>1, <1>3, WFMin, Zenon
<1> QED
  BY <1>2, <1>3, <1>4

(* Induction, for a set of numbers.                                        *)
LEMMA Induction ==
    ASSUME NEW S, 0 \in S, \A n \in Nat : n \in S => n + 1 \in S
    PROVE  Nat \subseteq S
<1> SUFFICES ASSUME ~(Nat \subseteq S) PROVE FALSE
  OBVIOUS
<1> DEFINE T == Nat \ S
<1>1. T \in SUBSET Nat /\ T # {}
  OBVIOUS
<1>2. PICK x \in T : \A y \in T : ~(y < x)
  BY <1>1, Least
<1>3. x \in Nat /\ x # 0 /\ x \notin S
  BY <1>2
<1>4. x - 1 \in Nat /\ x - 1 < x /\ (x - 1) + 1 = x
  BY <1>3
<1>5. x - 1 \in S
  BY <1>2, <1>4
<1> QED
  BY <1>3, <1>4, <1>5

(* The elements of P up to m, and how many they are.                       *)
UpTo(P, m) == {l \in P : l <= m}

LEMMA PlacesAreFinite ==
    ASSUME NEW N \in Nat, NEW P \in SUBSET (1 .. N)
    PROVE  IsFiniteSet(P) /\ Cardinality(P) \in Nat
<1>1. IsFiniteSet(1 .. N)
  BY FS_Interval
<1>2. IsFiniteSet(P)
  BY <1>1, FS_Subset
<1> QED
  BY <1>2, FS_CardinalityType

LEMMA UpToIsFinite ==
    ASSUME NEW N \in Nat, NEW P \in SUBSET (1 .. N), NEW m \in Int
    PROVE  /\ IsFiniteSet(P) /\ IsFiniteSet(UpTo(P, m))
           /\ Cardinality(P) \in Nat /\ Cardinality(UpTo(P, m)) \in Nat
           /\ Cardinality(UpTo(P, m)) <= Cardinality(P)
           /\ m \in P => Cardinality(UpTo(P, m)) >= 1
<1>1. IsFiniteSet(P)
  BY PlacesAreFinite
<1>2. UpTo(P, m) \in SUBSET P
  BY DEF UpTo
<1>3. IsFiniteSet(UpTo(P, m)) /\ Cardinality(UpTo(P, m)) <= Cardinality(P)
  BY <1>1, <1>2, FS_Subset
<1>4. Cardinality(P) \in Nat /\ Cardinality(UpTo(P, m)) \in Nat
  BY <1>1, <1>3, FS_CardinalityType
<1>5. ASSUME m \in P PROVE Cardinality(UpTo(P, m)) >= 1
  <2>1. UpTo(P, m) # {}
    BY <1>5 DEF UpTo
  <2>2. Cardinality(UpTo(P, m)) # 0
    BY <1>3, <2>1, FS_EmptySet
  <2> QED
    BY <1>4, <2>2
<1> QED
  BY <1>1, <1>3, <1>4, <1>5

(* Every rank is the rank of an element.                                   *)
LEMMA RankExists ==
    ASSUME NEW N \in Nat, NEW P \in SUBSET (1 .. N), NEW n \in Nat, n >= 1, n <= Cardinality(P)
    PROVE  \E m \in P : Cardinality(UpTo(P, m)) = n
<1> DEFINE T == {m \in Nat : Cardinality(UpTo(P, m)) >= n}
<1>0. IsFiniteSet(P) /\ Cardinality(P) \in Nat /\ n \in Nat /\ n >= 1
  BY PlacesAreFinite
<1>a. \A l \in P : l \in Nat /\ 1 <= l /\ l <= N
  OBVIOUS
<1>1. N \in T
  <2>1. UpTo(P, N) = P
    BY <1>a DEF UpTo
  <2> QED
    BY <1>0, <2>1
<1>2. PICK m \in T : \A y \in T : ~(y < m)
  <2>1. T \in SUBSET Nat /\ T # {}
    BY <1>1
  <2> HIDE DEF T
  <2> QED
    BY <2>1, Least
<1>3. m \in Nat /\ Cardinality(UpTo(P, m)) >= n /\ Cardinality(UpTo(P, m)) \in Nat
  <2>1. m \in Nat /\ m \in Int /\ Cardinality(UpTo(P, m)) >= n
    BY <1>2
  <2>2. Cardinality(UpTo(P, m)) \in Nat
    BY <2>1, UpToIsFinite
  <2> QED
    BY <2>1, <2>2
<1>4. m # 0
  <2>1. UpTo(P, 0) = {}
    <3>1. \A l \in P : ~(l <= 0)
      BY ONLY <1>a
    <3> QED
      BY <3>1, Zenon DEF UpTo
  <2>2. Cardinality(UpTo(P, 0)) = 0
    BY <2>1, FS_EmptySet
  <2> QED
    BY <1>0, <1>3, <2>2
<1>5. m - 1 \in Nat /\ m - 1 \in Int /\ m - 1 < m
  BY <1>3, <1>4
<1>6. PICK c \in Nat : c = Cardinality(UpTo(P, m - 1)) /\ c < n
  <2>1. Cardinality(UpTo(P, m - 1)) \in Nat
    BY <1>5, UpToIsFinite
  <2>2. ~(Cardinality(UpTo(P, m - 1)) >= n)
    BY <1>2, <1>5
  <2> QED
    BY <1>0, <2>1, <2>2
<1>7. m \in P
  <2>1. SUFFICES ASSUME m \notin P PROVE FALSE
    OBVIOUS
  <2>2. UpTo(P, m) = UpTo(P, m - 1)
    <3>1. \A l \in P : l <= m <=> l <= m - 1
      BY ONLY <1>a, <1>3, <2>1
    <3> QED
      BY <3>1, Zenon DEF UpTo
  <2> QED
    BY <1>0, <1>3, <1>6, <2>2
<1>8. UpTo(P, m) = UpTo(P, m - 1) \cup {m} /\ m \notin UpTo(P, m - 1)
  <2>1. (\A l \in P : l <= m <=> l <= m - 1 \/ l = m) /\ ~(m <= m - 1)
    BY ONLY <1>a, <1>3
  <2> QED
    BY <1>7, <2>1, Zenon DEF UpTo
<1>9. IsFiniteSet(UpTo(P, m - 1))
  BY <1>5, UpToIsFinite
<1>10. Cardinality(UpTo(P, m)) = c + 1
  BY <1>6, <1>8, <1>9, FS_AddElement
<1> QED
  BY <1>0, <1>3, <1>6, <1>7, <1>10

(* Elements of a sequence are a sequence of such elements.                 *)
Maps(s, P, S) == \A m \in P : s[m] \in S

LEMMA AtType ==
    ASSUME NEW S, NEW N \in Nat, NEW s, NEW P \in SUBSET (1 .. N), Maps(s, P, S)
    PROVE  At(s, P) \in Seq(S) /\ Len(At(s, P)) = Cardinality(P)
<1>1. PICK c \in Nat : c = Cardinality(P)
  BY PlacesAreFinite
<1> DEFINE Place(n) == CHOOSE m \in P : Cardinality(UpTo(P, m)) = n
<1>2. ASSUME NEW n \in 1 .. c PROVE Place(n) \in P
  <2>1. n \in Nat /\ n >= 1 /\ n <= Cardinality(P)
    BY <1>1
  <2>2. \E m \in P : Cardinality(UpTo(P, m)) = n
    BY <2>1, RankExists
  <2> QED
    BY <2>2, Zenon
<1>3. At(s, P) = [n \in 1 .. c |-> s[Place(n)]]
  BY <1>1 DEF At, UpTo
<1> HIDE DEF Place
<1>4. At(s, P) \in [1 .. c -> S]
  BY <1>2, <1>3 DEF Maps
<1>5. At(s, P) \in Seq(S) /\ Len(At(s, P)) = c
  BY <1>4
<1> QED
  BY <1>1, <1>5

(* What a step keeps, n steps keep.                                        *)
LEMMA StepsKeep ==
    ASSUME NEW V, NEW L \in Nat, NEW g, g[0] \in V,
           \A n \in 1 .. L : g[n - 1] \in V => g[n] \in V
    PROVE  \A n \in 0 .. L : g[n] \in V
<1> DEFINE S == {n \in Nat : n <= L => g[n] \in V}
<1>1. 0 \in S
  OBVIOUS
<1>2. ASSUME NEW n \in Nat, n \in S PROVE n + 1 \in S
  <2>1. SUFFICES ASSUME n + 1 <= L PROVE g[n + 1] \in V
    OBVIOUS
  <2>2. n <= L /\ n + 1 \in 1 .. L /\ (n + 1) - 1 = n
    BY <2>1
  <2>3. g[n] \in V
    BY <1>2, <2>2
  <2> QED
    BY <2>2, <2>3
<1> HIDE DEF S
<1>3. Nat \subseteq S
  BY <1>1, <1>2, Induction, Zenon
<1> QED
  BY <1>3 DEF S

(* A step can be iterated.                                                 *)
Iterable(step, V, L) == step \in [V -> [1 .. L -> V]]
Iteration(f, v, step, V, L) ==
    f \in [0 .. L -> V] /\ f[0] = v /\ \A n \in 1 .. L : f[n] = step[f[n - 1]][n]

LEMMA StepsExist ==
    ASSUME NEW V, NEW v \in V, NEW L \in Nat, NEW step, Iterable(step, V, L)
    PROVE  \E f : Iteration(f, v, step, V, L)
<1>0. step \in [V -> [1 .. L -> V]]
  BY DEF Iterable
<1> DEFINE Is(f, m) == f[0] = v /\ \A n \in 1 .. m : f[n] = step[f[n - 1]][n]
<1> DEFINE S == {m \in Nat : m <= L => \E f \in [0 .. m -> V] : Is(f, m)}
<1>1. 0 \in S
  <2> DEFINE f == [n \in 0 .. 0 |-> v]
  <2>1. f \in [0 .. 0 -> V] /\ Is(f, 0)
    OBVIOUS
  <2> QED
    BY <2>1
<1>2. ASSUME NEW m \in Nat, m \in S PROVE m + 1 \in S
  <2>0. m + 1 \in Nat
    OBVIOUS
  <2>1. SUFFICES ASSUME m + 1 <= L PROVE \E f \in [0 .. m + 1 -> V] : Is(f, m + 1)
    BY <2>0, Zenon
  <2>2. m <= L /\ m + 1 \in 1 .. L
    BY <2>1
  <2>3. PICK f \in [0 .. m -> V] : Is(f, m)
    BY <1>2, <2>2
  <2>4. f[m] \in V /\ step[f[m]][m + 1] \in V
    BY <1>0, <2>2
  <2>5. PICK w \in V : w = step[f[m]][m + 1]
    BY <2>4
  <2> DEFINE g == [n \in 0 .. m + 1 |-> IF n = m + 1 THEN w ELSE f[n]]
  <2>6. g \in [0 .. m + 1 -> V] /\ (\A n \in 0 .. m : g[n] = f[n]) /\ g[m + 1] = w
    BY <2>5
  <2> HIDE DEF g
  <2>7. g[0] = v
    BY <2>3, <2>6
  <2>8. ASSUME NEW n \in 1 .. m + 1 PROVE g[n] = step[g[n - 1]][n]
    <3>1. CASE n = m + 1
      <4>1. n - 1 = m /\ m \in 0 .. m
        BY <3>1
      <4> QED
        BY <2>5, <2>6, <3>1, <4>1
    <3>2. CASE n # m + 1
      <4>1. n \in 1 .. m /\ n \in 0 .. m /\ n - 1 \in 0 .. m
        BY <3>2
      <4> QED
        BY <2>3, <2>6, <4>1
    <3> QED
      BY <3>1, <3>2
  <2> QED
    BY <2>6, <2>7, <2>8
<1> HIDE DEF S, Is
<1>3. Nat \subseteq S
  BY <1>1, <1>2, Induction, Zenon
<1>4. \E f \in [0 .. L -> V] : Is(f, L)
  BY <1>3 DEF S
<1> QED
  BY <1>4 DEF Is, Iteration

-----------------------------------------------------------------------------
(* Sums over finite sets.                                                  *)

(* How a sum over a set is computed, one element after another.            *)
First(s) == CHOOSE x \in s : TRUE
SumOf(f, w, D) == f = [s \in D |-> IF s = {} THEN 0 ELSE w[First(s)] + f[s \ {First(s)}]]
LEMMA SumExists ==
    ASSUME NEW w, NEW S, IsFiniteSet(S)
    PROVE  \E f : SumOf(f, w, SUBSET S)
<1> DEFINE D(n) == {s \in SUBSET S : Cardinality(s) <= n}
<1> DEFINE Next(f, s) == IF s = {} THEN 0 ELSE w[First(s)] + f[s \ {First(s)}]
<1> DEFINE T == {n \in Nat : \E f : SumOf(f, w, D(n))}
<1>0. \A s \in SUBSET S : IsFiniteSet(s) /\ Cardinality(s) \in Nat /\ Cardinality(s) <= Cardinality(S)
  BY FS_Subset, FS_CardinalityType
<1>1. 0 \in T
  <2>1. \A s \in D(0) : s = {}
    BY <1>0, FS_EmptySet
  <2> DEFINE f == [s \in D(0) |-> 0]
  <2>2. SumOf(f, w, D(0))
    BY <2>1, Zenon DEF SumOf
  <2> QED
    BY <2>2
<1>2. ASSUME NEW n \in Nat, n \in T PROVE n + 1 \in T
  <2>1. PICK f : SumOf(f, w, D(n))
    BY <1>2
  <2> DEFINE g == [s \in D(n + 1) |-> Next(f, s)]
  <2>2. ASSUME NEW s \in D(n) PROVE f[s] = Next(f, s)
    BY <2>1, <2>2, Zenon DEF SumOf
  <2>3. ASSUME NEW s \in D(n) PROVE s \in D(n + 1)
    BY <1>0
  <2>4. ASSUME NEW s \in D(n + 1), s # {} PROVE s \ {First(s)} \in D(n)
    <3>1. First(s) \in s
      BY <2>4, Zenon DEF First
    <3>2. IsFiniteSet(s) /\ Cardinality(s) \in Nat /\ Cardinality(s) <= n + 1
      BY <1>0, <2>4
    <3>3. Cardinality(s \ {First(s)}) = Cardinality(s) - 1
      BY <3>1, <3>2, FS_RemoveElement
    <3> QED
      BY <3>2, <3>3
  <2> HIDE DEF D, Next
  <2>5. ASSUME NEW s \in D(n) PROVE g[s] = f[s]
    BY <2>2, <2>3, <2>5, Zenon
  <2>6. ASSUME NEW s \in D(n + 1) PROVE g[s] = Next(g, s)
    <3>1. g[s] = Next(f, s)
      BY <2>6, Zenon
    <3>2. CASE s = {}
      BY <3>1, <3>2, Zenon DEF Next
    <3>3. CASE s # {}
      <4>1. g[s \ {First(s)}] = f[s \ {First(s)}]
        BY <2>4, <2>5, <3>3, Zenon
      <4> HIDE DEF g
      <4> QED
        BY <3>1, <3>3, <4>1, Zenon DEF Next
    <3> QED
      BY <3>2, <3>3
  <2>7. SumOf(g, w, D(n + 1))
    <3>1. \A s \in D(n + 1) : Next(f, s) = Next(g, s)
      BY <2>6, Zenon
    <3>2. g = [s \in D(n + 1) |-> Next(g, s)]
      BY <3>1, Zenon
    <3> QED
      BY <3>2, Zenon DEF SumOf, Next
  <2> QED
    BY <2>7
<1> HIDE DEF T
<1>3. Nat \subseteq T
  BY <1>1, <1>2, Induction, Zenon
<1>4. Cardinality(S) \in Nat
  BY FS_CardinalityType
<1>5. D(Cardinality(S)) = SUBSET S
  BY <1>0
<1>6. PICK f : SumOf(f, w, D(Cardinality(S)))
  BY <1>3, <1>4 DEF T
<1> QED
  BY <1>5, <1>6, Zenon

LEMMA SumIs ==
    ASSUME NEW w, NEW S, IsFiniteSet(S)
    PROVE  \E f : SumOf(f, w, SUBSET S) /\ SumFunctionOnSet(w, S) = f[S]
<1>1. SumFunctionOnSet(w, S) = (CHOOSE f : SumOf(f, w, SUBSET S))[S]
  BY Zenon DEF SumFunctionOnSet, FoldFunctionOnSet, MapThenFoldSet, SumOf, First
<1>2. \E f : SumOf(f, w, SUBSET S)
  BY SumExists
<1>3. PICK g : g = CHOOSE f : SumOf(f, w, SUBSET S)
  OBVIOUS
<1>4. SumOf(g, w, SUBSET S)
  BY <1>2, <1>3, Zenon
<1> QED
  BY <1>1, <1>3, <1>4, Zenon

LEMMA SumsAgree ==
    ASSUME NEW w, NEW S, NEW T, IsFiniteSet(T), T \subseteq S, NEW f, NEW g,
           SumOf(f, w, SUBSET S), SumOf(g, w, SUBSET T)
    PROVE  f[T] = g[T]
<1> DEFINE N == {n \in Nat : \A s \in SUBSET T : Cardinality(s) = n => f[s] = g[s]}
<1>0. \A s \in SUBSET T : IsFiniteSet(s) /\ Cardinality(s) \in Nat
  BY FS_Subset, FS_CardinalityType
<1>1. ASSUME NEW s \in SUBSET T
      PROVE  /\ f[s] = IF s = {} THEN 0 ELSE w[First(s)] + f[s \ {First(s)}]
             /\ g[s] = IF s = {} THEN 0 ELSE w[First(s)] + g[s \ {First(s)}]
  <2>1. s \in SUBSET S
    OBVIOUS
  <2> QED
    BY <1>1, <2>1, Zenon DEF SumOf
<1>2. 0 \in N
  <2>1. \A s \in SUBSET T : Cardinality(s) = 0 => s = {}
    BY <1>0, FS_EmptySet
  <2> QED
    BY <1>1, <2>1
<1>3. ASSUME NEW n \in Nat, n \in N PROVE n + 1 \in N
  <2>1. SUFFICES ASSUME NEW s \in SUBSET T, Cardinality(s) = n + 1 PROVE f[s] = g[s]
    OBVIOUS
  <2>2. s # {}
    BY <2>1, FS_EmptySet
  <2>3. First(s) \in s
    BY <2>2, Zenon DEF First
  <2>4. Cardinality(s \ {First(s)}) = n
    BY <1>0, <2>1, <2>3, FS_RemoveElement
  <2>5. f[s \ {First(s)}] = g[s \ {First(s)}]
    BY <1>3, <2>4
  <2> QED
    BY <1>1, <2>2, <2>5, Zenon
<1> HIDE DEF N
<1>4. Nat \subseteq N
  BY <1>2, <1>3, Induction, Zenon
<1>5. T \in SUBSET T /\ Cardinality(T) \in Nat
  BY <1>0
<1> QED
  BY <1>4, <1>5 DEF N

LEMMA SumUnfolds ==
    ASSUME NEW w, NEW S, IsFiniteSet(S)
    PROVE  /\ S = {} => SumFunctionOnSet(w, S) = 0
           /\ S # {} => SumFunctionOnSet(w, S) = w[First(S)] + SumFunctionOnSet(w, S \ {First(S)})
<1>1. PICK f : SumOf(f, w, SUBSET S) /\ SumFunctionOnSet(w, S) = f[S]
  BY SumIs
<1>2. S \in SUBSET S
  OBVIOUS
<1>3. f[S] = IF S = {} THEN 0 ELSE w[First(S)] + f[S \ {First(S)}]
  BY <1>1, <1>2, Zenon DEF SumOf
<1>4. PICK T : T = S \ {First(S)}
  OBVIOUS
<1>5. IsFiniteSet(T) /\ T \subseteq S
  BY <1>4, FS_Subset
<1>6. PICK g : SumOf(g, w, SUBSET T) /\ SumFunctionOnSet(w, T) = g[T]
  BY <1>5, SumIs
<1>7. f[T] = g[T]
  BY <1>1, <1>5, <1>6, SumsAgree
<1> QED
  BY <1>1, <1>3, <1>4, <1>6, <1>7

(* w gives every element of S a number.                                    *)
Weights(w, S) == \A x \in S : w[x] \in Nat

(* The order in which the elements are added does not matter.              *)
LEMMA SumStep ==
    ASSUME NEW w, NEW S, IsFiniteSet(S), Weights(w, S)
    PROVE  /\ SumFunctionOnSet(w, S) \in Nat
           /\ \A x \in S : SumFunctionOnSet(w, S) = w[x] + SumFunctionOnSet(w, S \ {x})
<1> DEFINE Good(s) == /\ SumFunctionOnSet(w, s) \in Nat
                      /\ \A x \in s : SumFunctionOnSet(w, s) = w[x] + SumFunctionOnSet(w, s \ {x})
<1> DEFINE N == {n \in Nat : \A s \in SUBSET S : Cardinality(s) <= n => Good(s)}
<1>0. \A s \in SUBSET S : IsFiniteSet(s) /\ Cardinality(s) \in Nat
  BY FS_Subset, FS_CardinalityType
<1>2. 0 \in N
  <2>1. \A s \in SUBSET S : Cardinality(s) <= 0 => s = {}
    BY <1>0, FS_EmptySet
  <2>2. ASSUME NEW s \in SUBSET S, s = {} PROVE Good(s)
    <3>1. SumFunctionOnSet(w, s) = 0
      BY <1>0, <2>2, SumUnfolds
    <3> QED
      BY <2>2, <3>1
  <2> HIDE DEF Good
  <2>3. \A s \in SUBSET S : Cardinality(s) <= 0 => Good(s)
    BY <2>1, <2>2
  <2> QED
    BY <2>3
<1>3. ASSUME NEW n \in Nat, n \in N PROVE n + 1 \in N
  <2>a. \A s \in SUBSET S : Cardinality(s) <= n => Good(s)
    <3> HIDE DEF Good
    <3> QED
      BY <1>3
  <2>1. SUFFICES ASSUME NEW s \in SUBSET S, Cardinality(s) = n + 1 PROVE Good(s)
    <3> HIDE DEF Good
    <3>0. n + 1 \in Nat
      OBVIOUS
    <3>1. \A s \in SUBSET S : Cardinality(s) <= n + 1 => Cardinality(s) <= n \/ Cardinality(s) = n + 1
      BY <1>0
    <3>2. \A s \in SUBSET S : Cardinality(s) <= n + 1 => Good(s)
      BY <2>a, <3>1, Zenon
    <3> QED
      BY <3>0, <3>2
  <2>2. s # {} /\ IsFiniteSet(s)
    BY <1>0, <2>1, FS_EmptySet
  <2>3. PICK y \in s : y = First(s)
    BY <2>2, Zenon DEF First
  <2>4. SumFunctionOnSet(w, s) = w[y] + SumFunctionOnSet(w, s \ {y})
    BY <2>2, <2>3, SumUnfolds
  <2>5. ASSUME NEW x \in s PROVE s \ {x} \in SUBSET S /\ Cardinality(s \ {x}) = n /\ Good(s \ {x})
    <3>1. Cardinality(s \ {x}) = (n + 1) - 1
      BY <2>1, <2>2, FS_RemoveElement
    <3>2. s \ {x} \in SUBSET S /\ Cardinality(s \ {x}) = n /\ n <= n
      BY <3>1
    <3> HIDE DEF Good
    <3> QED
      BY <2>a, <3>2
  <2>6. w[y] \in Nat /\ SumFunctionOnSet(w, s \ {y}) \in Nat
    BY <2>5 DEF Weights
  <2>7. ASSUME NEW x \in s PROVE SumFunctionOnSet(w, s) = w[x] + SumFunctionOnSet(w, s \ {x})
    <3>1. CASE x = y
      BY <2>4, <3>1
    <3>2. CASE x # y
      <4>1. PICK a : a = (s \ {x}) \ {y}
        OBVIOUS
      <4>2. a = (s \ {y}) \ {x} /\ x \in s \ {y} /\ y \in s \ {x}
        BY <3>2, <4>1
      <4>3. /\ SumFunctionOnSet(w, s \ {y}) = w[x] + SumFunctionOnSet(w, a)
            /\ SumFunctionOnSet(w, s \ {x}) = w[y] + SumFunctionOnSet(w, a)
        BY <2>5, <4>1, <4>2
      <4>4. w[x] \in Nat /\ w[y] \in Nat /\ SumFunctionOnSet(w, a) \in Nat
        <5>1. Cardinality(a) = n - 1
          <6>1. PICK b : b = s \ {x}
            OBVIOUS
          <6>2. IsFiniteSet(b) /\ Cardinality(b) = n /\ y \in b /\ a = b \ {y}
            BY <1>0, <2>5, <4>1, <4>2, <6>1
          <6> QED
            BY <6>2, FS_RemoveElement
        <5>2. a \in SUBSET S /\ Cardinality(a) <= n
          BY <4>1, <5>1
        <5>3. SumFunctionOnSet(w, a) \in Nat
          BY <2>a, <5>2
        <5> QED
          BY <5>3 DEF Weights
      <4> QED
        BY <2>4, <4>3, <4>4
    <3> QED
      BY <3>1, <3>2
  <2> QED
    BY <2>4, <2>6, <2>7
<1> HIDE DEF N, Good
<1>4. Nat \subseteq N
  BY <1>2, <1>3, Induction, Zenon
<1>5. S \in SUBSET S /\ Cardinality(S) \in Nat /\ Cardinality(S) <= Cardinality(S)
  BY <1>0
<1>6. Good(S)
  BY <1>4, <1>5 DEF N
<1> QED
  BY <1>6 DEF Good

LEMMA SumEmpty == ASSUME NEW w PROVE SumFunctionOnSet(w, {}) = 0
<1>1. IsFiniteSet({})
  BY FS_EmptySet
<1> QED
  BY <1>1, SumUnfolds

LEMMA SumAdded ==
    ASSUME NEW w, NEW S, IsFiniteSet(S), Weights(w, S), NEW x, x \notin S, w[x] \in Nat
    PROVE  SumFunctionOnSet(w, S \cup {x}) = SumFunctionOnSet(w, S) + w[x]
<1>1. PICK T : T = S \cup {x}
  OBVIOUS
<1>2. IsFiniteSet(T) /\ Weights(w, T) /\ x \in T /\ S = T \ {x}
  BY <1>1, FS_AddElement DEF Weights
<1>3. SumFunctionOnSet(w, T) = w[x] + SumFunctionOnSet(w, S) /\ SumFunctionOnSet(w, S) \in Nat
  BY <1>2, SumStep
<1> QED
  BY <1>1, <1>3

(* Two parts.                                                              *)
LEMMA SumParts ==
    ASSUME NEW w, NEW S, IsFiniteSet(S), Weights(w, S), NEW R, R \subseteq S
    PROVE  /\ SumFunctionOnSet(w, S) = SumFunctionOnSet(w, R) + SumFunctionOnSet(w, S \ R)
           /\ SumFunctionOnSet(w, R) \in Nat /\ SumFunctionOnSet(w, S \ R) \in Nat
<1> DEFINE Good(r) == /\ SumFunctionOnSet(w, S) = SumFunctionOnSet(w, r) + SumFunctionOnSet(w, S \ r)
                      /\ SumFunctionOnSet(w, r) \in Nat /\ SumFunctionOnSet(w, S \ r) \in Nat
<1> DEFINE N == {n \in Nat : \A r \in SUBSET S : Cardinality(r) = n => Good(r)}
<1>0. \A r \in SUBSET S : IsFiniteSet(r) /\ Cardinality(r) \in Nat /\ Weights(w, r)
  BY FS_Subset, FS_CardinalityType DEF Weights
<1>1. \A r \in SUBSET S : SumFunctionOnSet(w, r) \in Nat
  BY <1>0, SumStep
<1>2. 0 \in N
  <2>1. Good({})
    <3>1. SumFunctionOnSet(w, {}) = 0 /\ S \ {} = S
      BY SumEmpty
    <3> QED
      BY <1>1, <3>1
  <2>2. \A r \in SUBSET S : Cardinality(r) = 0 => r = {}
    BY <1>0, FS_EmptySet
  <2> HIDE DEF Good
  <2> QED
    BY <2>1, <2>2
<1>3. ASSUME NEW n \in Nat, n \in N PROVE n + 1 \in N
  <2>1. SUFFICES ASSUME NEW r \in SUBSET S, Cardinality(r) = n + 1 PROVE Good(r)
    <3> HIDE DEF Good
    <3> QED
      OBVIOUS
  <2>2. PICK x \in r : TRUE
    BY <2>1, FS_EmptySet
  <2>3. PICK q : q = r \ {x}
    OBVIOUS
  <2>4. q \in SUBSET S /\ Cardinality(q) = n /\ r = q \cup {x} /\ x \notin q /\ x \in S
    <3>1. Cardinality(q) = (n + 1) - 1
      BY <1>0, <2>1, <2>2, <2>3, FS_RemoveElement
    <3> QED
      BY <2>2, <2>3, <3>1
  <2>5. Good(q)
    <3> HIDE DEF Good
    <3> QED
      BY <1>3, <2>4
  <2>6. SumFunctionOnSet(w, r) = SumFunctionOnSet(w, q) + w[x]
    BY <1>0, <2>4, SumAdded DEF Weights
  <2>7. SumFunctionOnSet(w, S \ q) = w[x] + SumFunctionOnSet(w, S \ r)
    <3>1. PICK s : s = S \ q
      OBVIOUS
    <3>2. s \in SUBSET S /\ x \in s /\ s \ {x} = S \ r
      BY <2>4, <3>1
    <3>3. SumFunctionOnSet(w, s) = w[x] + SumFunctionOnSet(w, s \ {x})
      BY <1>0, <3>2, SumStep
    <3> QED
      BY <3>1, <3>2, <3>3
  <2>8. w[x] \in Nat /\ SumFunctionOnSet(w, S \ r) \in Nat /\ SumFunctionOnSet(w, q) \in Nat
    BY <1>1, <2>4 DEF Weights
  <2>9. SumFunctionOnSet(w, S) = SumFunctionOnSet(w, q) + SumFunctionOnSet(w, S \ q)
    BY <2>5
  <2> QED
    BY <2>6, <2>7, <2>8, <2>9
<1> HIDE DEF N, Good
<1>4. Nat \subseteq N
  BY <1>2, <1>3, Induction, Zenon
<1>5. R \in SUBSET S /\ Cardinality(R) \in Nat
  BY <1>0
<1>6. Good(R)
  BY <1>4, <1>5 DEF N
<1> QED
  BY <1>6 DEF Good

(* A sum over distinct places is the sum over what is there.               *)
LEMMA SumPlaces ==
    ASSUME NEW v, NEW w, NEW g, NEW I, IsFiniteSet(I), \A i \in I : v[i] = w[g[i]] /\ v[i] \in Nat,
           \A i, j \in I : g[i] = g[j] => i = j
    PROVE  /\ SumFunctionOnSet(v, I) = SumFunctionOnSet(w, {g[i] : i \in I})
           /\ SumFunctionOnSet(v, I) \in Nat /\ IsFiniteSet({g[i] : i \in I})
<1> DEFINE Of(J) == {g[i] : i \in J}
<1> DEFINE Good(J) == SumFunctionOnSet(v, J) = SumFunctionOnSet(w, Of(J)) /\ IsFiniteSet(Of(J))
<1> DEFINE N == {n \in Nat : \A J \in SUBSET I : Cardinality(J) = n => Good(J)}
<1>0. \A J \in SUBSET I : IsFiniteSet(J) /\ Cardinality(J) \in Nat /\ Weights(v, J) /\ Weights(w, Of(J))
  BY FS_Subset, FS_CardinalityType DEF Weights
<1>2. 0 \in N
  <2>1. Good({})
    <3>1. Of({}) = {}
      OBVIOUS
    <3> HIDE DEF Of
    <3> QED
      BY <3>1, SumEmpty, FS_EmptySet
  <2>2. \A J \in SUBSET I : Cardinality(J) = 0 => J = {}
    BY <1>0, FS_EmptySet
  <2> HIDE DEF Good
  <2> QED
    BY <2>1, <2>2
<1>3. ASSUME NEW n \in Nat, n \in N PROVE n + 1 \in N
  <2>1. SUFFICES ASSUME NEW J \in SUBSET I, Cardinality(J) = n + 1 PROVE Good(J)
    <3> HIDE DEF Good
    <3> QED
      OBVIOUS
  <2>2. PICK x \in J : TRUE
    BY <2>1, FS_EmptySet
  <2>3. PICK K : K = J \ {x}
    OBVIOUS
  <2>4. K \in SUBSET I /\ Cardinality(K) = n /\ J = K \cup {x} /\ x \notin K /\ x \in I
    <3>1. Cardinality(K) = (n + 1) - 1
      BY <1>0, <2>1, <2>2, <2>3, FS_RemoveElement
    <3> QED
      BY <2>2, <2>3, <3>1
  <2>5. Good(K)
    <3> HIDE DEF Good
    <3> QED
      BY <1>3, <2>4
  <2>6. SumFunctionOnSet(v, J) = SumFunctionOnSet(v, K) + v[x]
    BY <1>0, <2>4, SumAdded
  <2>7. Of(J) = Of(K) \cup {g[x]} /\ g[x] \notin Of(K)
    BY <2>4
  <2>8. IsFiniteSet(Of(K)) /\ Weights(w, Of(K)) /\ w[g[x]] \in Nat /\ v[x] = w[g[x]]
    BY <1>0, <2>4, <2>5
  <2> HIDE DEF Of
  <2>9. SumFunctionOnSet(w, Of(J)) = SumFunctionOnSet(w, Of(K)) + w[g[x]] /\ IsFiniteSet(Of(J))
    BY <2>7, <2>8, SumAdded, FS_AddElement
  <2> QED
    BY <2>5, <2>6, <2>8, <2>9
<1> HIDE DEF N, Good
<1>4. Nat \subseteq N
  BY <1>2, <1>3, Induction, Zenon
<1>5. I \in SUBSET I /\ Cardinality(I) \in Nat /\ Weights(v, I)
  BY <1>0
<1>6. Good(I)
  BY <1>4, <1>5 DEF N
<1>7. SumFunctionOnSet(v, I) \in Nat
  BY <1>5, SumStep
<1> QED
  BY <1>6, <1>7 DEF Good

-----------------------------------------------------------------------------
(* Distinct elements, and sorting.                                         *)

(* No element twice.                                                       *)
Distinct(s) == \A i, j \in DOMAIN s : s[i] = s[j] => i = j

(* The elements at P are found by their ranks.                             *)
Ranked(s, P) ==
    /\ DOMAIN At(s, P) = 1 .. Cardinality(P)
    /\ \A m \in P : /\ Cardinality(UpTo(P, m)) \in 1 .. Cardinality(P)
                    /\ At(s, P)[Cardinality(UpTo(P, m))] = s[m]
    /\ \A n \in 1 .. Cardinality(P) : \E m \in P : Cardinality(UpTo(P, m)) = n
    /\ \A m, l \in P : Cardinality(UpTo(P, m)) = Cardinality(UpTo(P, l)) => m = l
LEMMA AtRank ==
    ASSUME NEW N \in Nat, NEW s, NEW P \in SUBSET (1 .. N)
    PROVE  Ranked(s, P)
<1>1. PICK c \in Nat : c = Cardinality(P)
  BY PlacesAreFinite
<1> DEFINE Rank(m) == Cardinality(UpTo(P, m))
<1> DEFINE Place(n) == CHOOSE m \in P : Rank(m) = n
<1>2. ASSUME NEW n \in 1 .. c PROVE Place(n) \in P /\ Rank(Place(n)) = n
  <2>1. n \in Nat /\ n >= 1 /\ n <= Cardinality(P)
    BY <1>1
  <2>2. \E m \in P : Rank(m) = n
    BY <2>1, RankExists
  <2> QED
    BY <2>2, Zenon
<1>3. ASSUME NEW m \in P PROVE Rank(m) \in 1 .. c
  <2>1. m \in Int
    OBVIOUS
  <2>2. Rank(m) \in Nat /\ Rank(m) <= Cardinality(P) /\ Rank(m) >= 1
    BY <2>1, UpToIsFinite
  <2> QED
    BY <1>1, <2>2
<1>4. ASSUME NEW m \in P, NEW l \in P, m < l PROVE Rank(m) # Rank(l)
  <2>1. m \in Int /\ l \in Int
    OBVIOUS
  <2>2. IsFiniteSet(UpTo(P, m)) /\ IsFiniteSet(UpTo(P, l)) /\ Rank(m) \in Nat /\ Rank(l) \in Nat
    BY <2>1, UpToIsFinite
  <2>3. UpTo(P, m) \cup {l} \subseteq UpTo(P, l) /\ l \notin UpTo(P, m)
    <3>1. (\A x \in P : x <= m => x <= l) /\ l <= l /\ ~(l <= m)
      BY ONLY <1>4, P \in SUBSET (1 .. N), N \in Nat, <2>1
    <3> QED
      BY <3>1, Zenon DEF UpTo
  <2>4. Cardinality(UpTo(P, m) \cup {l}) = Rank(m) + 1
    BY <2>2, <2>3, FS_AddElement
  <2>5. Cardinality(UpTo(P, m) \cup {l}) <= Rank(l)
    BY <2>2, <2>3, FS_Subset
  <2> QED
    BY <2>2, <2>4, <2>5
<1>5. \A m, l \in P : Rank(m) = Rank(l) => m = l
  <2>1. \A m, l \in P : m # l => m < l \/ l < m
    OBVIOUS
  <2> HIDE DEF Rank
  <2> QED
    BY <1>4, <2>1, Zenon
<1>6. At(s, P) = [n \in 1 .. c |-> s[Place(n)]]
  BY <1>1 DEF At, UpTo
<1> HIDE DEF Place, Rank
<1>7. DOMAIN At(s, P) = 1 .. c /\ \A n \in 1 .. c : At(s, P)[n] = s[Place(n)]
  BY <1>6, Zenon
<1>8. \A m \in P : Place(Rank(m)) = m
  BY <1>2, <1>3, <1>5, Zenon
<1>9. \A m \in P : At(s, P)[Rank(m)] = s[m]
  BY <1>3, <1>7, <1>8, Zenon
<1> QED
  BY <1>1, <1>2, <1>3, <1>5, <1>7, <1>9, Zenon DEF Rank, Ranked

(* The elements at P are at P, and distinct if they were.                  *)
LEMMA AtElements ==
    ASSUME NEW N \in Nat, NEW s, DOMAIN s = 1 .. N, NEW P \in SUBSET (1 .. N)
    PROVE  /\ {At(s, P)[n] : n \in DOMAIN At(s, P)} = {s[m] : m \in P}
           /\ Distinct(s) => Distinct(At(s, P))
<1> DEFINE Rank(m) == Cardinality(UpTo(P, m))
<1>1. PICK c : c = Cardinality(P)
  OBVIOUS
<1>2. /\ DOMAIN At(s, P) = 1 .. c
      /\ \A m \in P : Rank(m) \in 1 .. c /\ At(s, P)[Rank(m)] = s[m]
      /\ \A n \in 1 .. c : \E m \in P : Rank(m) = n
  <2>1. Ranked(s, P)
    BY AtRank
  <2> QED
    BY <1>1, <2>1, Zenon DEF Ranked
<1> HIDE DEF Rank
<1>3. {At(s, P)[n] : n \in DOMAIN At(s, P)} = {s[m] : m \in P}
  <2>1. PICK t : t = At(s, P)
    OBVIOUS
  <2>2. \A n \in 1 .. c : \E m \in P : t[n] = s[m]
    BY <1>2, <2>1
  <2>3. \A m \in P : \E n \in 1 .. c : t[n] = s[m]
    BY <1>2, <2>1
  <2>4. DOMAIN t = 1 .. c
    BY <1>2, <2>1
  <2>5. {t[n] : n \in 1 .. c} = {s[m] : m \in P}
    BY ONLY <2>2, <2>3
  <2> QED
    BY <2>1, <2>4, <2>5
<1>4. ASSUME Distinct(s), NEW n \in 1 .. c, NEW m \in 1 .. c, At(s, P)[n] = At(s, P)[m] PROVE n = m
  <2>1. PICK a \in P : Rank(a) = n
    BY <1>2
  <2>2. PICK b \in P : Rank(b) = m
    BY <1>2
  <2>3. s[a] = s[b] /\ a \in DOMAIN s /\ b \in DOMAIN s
    BY <1>2, <1>4, <2>1, <2>2
  <2> QED
    BY <1>4, <2>1, <2>2, <2>3 DEF Distinct
<1> QED
  BY <1>2, <1>3, <1>4, Zenon DEF Distinct

(* A finite set that R puts in order has a last element, and can be listed *)
(* in that order.                                                          *)
Ordered(R, S) ==
    /\ \A x, y \in S : x # y => <<x, y>> \in R \/ <<y, x>> \in R
    /\ \A x, y, z \in S : <<x, y>> \in R /\ <<y, z>> \in R => <<x, z>> \in R
LEMMA LastExists ==
    ASSUME NEW R, NEW S, IsFiniteSet(S), S # {}, Ordered(R, S)
    PROVE  \E z \in S : \A x \in S \ {z} : <<x, z>> \in R
<1> DEFINE Good(s) == \E z \in s : \A x \in s \ {z} : <<x, z>> \in R
<1> DEFINE N == {n \in Nat : \A s \in SUBSET S : Cardinality(s) = n + 1 => Good(s)}
<1>0. \A s \in SUBSET S : IsFiniteSet(s) /\ Cardinality(s) \in Nat
  BY FS_Subset, FS_CardinalityType
<1>1. ASSUME NEW n \in Nat, NEW s \in SUBSET S, Cardinality(s) = n + 1
      PROVE  \E x \in s : s \ {x} \in SUBSET S /\ Cardinality(s \ {x}) = n
  <2>1. PICK x \in s : TRUE
    BY <1>1, FS_EmptySet
  <2>2. Cardinality(s \ {x}) = (n + 1) - 1
    BY <1>0, <1>1, FS_RemoveElement
  <2> QED
    BY <2>2
<1>2. 0 \in N
  <2>1. SUFFICES ASSUME NEW s \in SUBSET S, Cardinality(s) = 0 + 1 PROVE Good(s)
    <3> HIDE DEF Good
    <3> QED
      OBVIOUS
  <2>2. PICK x \in s : s \ {x} \in SUBSET S /\ Cardinality(s \ {x}) = 0
    BY <1>1, <2>1
  <2>3. s \ {x} = {}
    BY <1>0, <2>2, FS_EmptySet
  <2> QED
    BY <2>3
<1>3. ASSUME NEW n \in Nat, n \in N PROVE n + 1 \in N
  <2>1. SUFFICES ASSUME NEW s \in SUBSET S, Cardinality(s) = (n + 1) + 1 PROVE Good(s)
    <3> HIDE DEF Good
    <3> QED
      OBVIOUS
  <2>2. PICK x \in s : s \ {x} \in SUBSET S /\ Cardinality(s \ {x}) = n + 1
    BY <1>1, <2>1
  <2>3. Good(s \ {x})
    <3> HIDE DEF Good
    <3> QED
      BY <1>3, <2>2
  <2>4. PICK z \in s \ {x} : \A y \in (s \ {x}) \ {z} : <<y, z>> \in R
    BY <2>3
  <2>5. CASE <<x, z>> \in R
    <3>1. \A y \in s \ {z} : <<y, z>> \in R
      BY <2>4, <2>5
    <3> QED
      BY <3>1
  <2>6. CASE <<z, x>> \in R
    <3>1. ASSUME NEW y \in s \ {x} PROVE <<y, x>> \in R
      <4>1. y = z \/ <<y, z>> \in R
        BY <2>4
      <4>2. x \in S /\ y \in S /\ z \in S
        OBVIOUS
      <4> QED
        BY <2>6, <4>1, <4>2, Zenon DEF Ordered
    <3> QED
      BY <3>1
  <2>7. <<x, z>> \in R \/ <<z, x>> \in R
    <3>1. x \in S /\ z \in S /\ x # z
      OBVIOUS
    <3> QED
      BY <3>1, Zenon DEF Ordered
  <2> QED
    BY <2>5, <2>6, <2>7
<1> HIDE DEF N, Good
<1>4. Nat \subseteq N
  BY <1>2, <1>3, Induction, Zenon
<1>5. PICK n \in Nat : Cardinality(S) = n + 1
  <2>1. Cardinality(S) \in Nat /\ Cardinality(S) # 0
    BY <1>0, FS_EmptySet
  <2>2. Cardinality(S) - 1 \in Nat /\ Cardinality(S) = (Cardinality(S) - 1) + 1
    BY <2>1
  <2> QED
    BY <2>2
<1>6. Good(S)
  BY <1>4, <1>5 DEF N
<1> QED
  BY <1>6 DEF Good

Sorts(c, R, S, n) ==
    /\ c \in [1 .. n -> S] /\ \A i, j \in 1 .. n : i # j => c[i] # c[j]
    /\ \A i, j \in 1 .. n : i < j => <<c[i], c[j]>> \in R
LEMMA SortExists ==
    ASSUME NEW R, NEW S, IsFiniteSet(S), Ordered(R, S)
    PROVE  \E c : Sorts(c, R, S, Cardinality(S))
<1> DEFINE Good(s, n) == \E c : Sorts(c, R, s, n)
<1> DEFINE N == {n \in Nat : \A s \in SUBSET S : Cardinality(s) = n => Good(s, n)}
<1>0. \A s \in SUBSET S : IsFiniteSet(s) /\ Cardinality(s) \in Nat
  BY FS_Subset, FS_CardinalityType
<1>2. 0 \in N
  <2>1. ASSUME NEW s PROVE Sorts([i \in 1 .. 0 |-> 0], R, s, 0)
    BY DEF Sorts
  <2> QED
    BY <2>1, Zenon
<1>3. ASSUME NEW n \in Nat, n \in N PROVE n + 1 \in N
  <2>1. SUFFICES ASSUME NEW s \in SUBSET S, Cardinality(s) = n + 1 PROVE Good(s, n + 1)
    <3> HIDE DEF Good
    <3>1. n + 1 \in Nat
      OBVIOUS
    <3> QED
      BY <3>1
  <2>2. s # {} /\ IsFiniteSet(s)
    BY <1>0, <2>1, FS_EmptySet
  <2>3. Ordered(R, s)
    BY DEF Ordered
  <2>4. PICK z \in s : \A x \in s \ {z} : <<x, z>> \in R
    BY <2>2, <2>3, LastExists
  <2>5. Cardinality(s \ {z}) = n
    <3>1. Cardinality(s \ {z}) = (n + 1) - 1
      BY <2>1, <2>2, FS_RemoveElement
    <3> QED
      BY <3>1
  <2>6. Good(s \ {z}, n)
    <3> HIDE DEF Good
    <3> QED
      BY <1>3, <2>5
  <2>7. PICK c : Sorts(c, R, s \ {z}, n)
    BY <2>6
  <2> DEFINE d == [i \in 1 .. n + 1 |-> IF i = n + 1 THEN z ELSE c[i]]
  <2>8. (\A i \in 1 .. n : d[i] = c[i] /\ c[i] \in s \ {z}) /\ d[n + 1] = z
    BY <2>7 DEF Sorts
  <2>9. \A i \in 1 .. n + 1 : i = n + 1 \/ i \in 1 .. n
    OBVIOUS
  <2>a. d \in [1 .. n + 1 -> s]
    BY <2>7 DEF Sorts
  <2> HIDE DEF d
  <2>b. ASSUME NEW i \in 1 .. n + 1, NEW j \in 1 .. n + 1, i # j PROVE d[i] # d[j]
    BY <2>7, <2>8, <2>9, <2>b, Zenon DEF Sorts
  <2>c. ASSUME NEW i \in 1 .. n + 1, NEW j \in 1 .. n + 1, i < j PROVE <<d[i], d[j]>> \in R
    <3>1. i \in 1 .. n
      BY <2>c
    <3>2. CASE j = n + 1
      BY <2>4, <2>8, <3>1, <3>2, Zenon
    <3>3. CASE j \in 1 .. n
      BY <2>7, <2>8, <2>c, <3>1, <3>3, Zenon DEF Sorts
    <3> QED
      BY <2>9, <3>2, <3>3
  <2>d. Sorts(d, R, s, n + 1)
    BY <2>a, <2>b, <2>c, Zenon DEF Sorts
  <2> QED
    BY <2>d, Zenon
<1> HIDE DEF N, Good
<1>4. Nat \subseteq N
  BY <1>2, <1>3, Induction, Zenon
<1>5. Good(S, Cardinality(S))
  BY <1>0, <1>4 DEF N
<1> QED
  BY <1>5 DEF Good
=============================================================================
