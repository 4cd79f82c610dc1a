------------------------------ MODULE Reckoning ------------------------------
(***************************************************************************)
(* Lemmas about numbers, sums and sequences, and about numbers as they are *)
(* written (Numerals), that the proofs about payments need.                *)
(*                                                                         *)
(* A property is proved of every n by proving that the set of the n that   *)
(* have it is all of Nat: a set that is not has a least number missing.    *)
(* Nothing is taken as a parameter but sets and functions.  A function     *)
(* that is defined step by step is one function, and exists, so that what  *)
(* the recursive definitions of Numerals compute can be proved of every    *)
(* text and every number.                                                  *)
(***************************************************************************)
EXTENDS Numerals, FiniteSets, FiniteSetTheorems, SequenceTheorems, WellFoundedInduction, TLAPS

---------------------------------------------------------------------------
(* Induction.                                                              *)

Below == {ss \in Nat \X Nat : ss[1] < ss[2]}

\* No descent among the natural numbers goes on for ever.
LEMMA BelowIsWellFounded == IsWellFoundedOn(Below, Nat)
BY NatLessThanWellFounded DEF OpToRel, Below

\* Any natural numbers have a least.
LEMMA Least ==
    ASSUME NEW T \in SUBSET Nat, T # {}
    PROVE  \E n \in T : \A m \in T : n <= m
<1>1. PICK n \in T : \A y \in T : ~(<<y, n>> \in Below)
  BY BelowIsWellFounded, WFMin
<1>2. ASSUME NEW m \in T PROVE n <= m
  <2>1. m \in Nat /\ n \in Nat
    OBVIOUS
  <2>2. <<m, n>> \notin Below
    BY <1>1
  <2>3. m < n => <<m, n>> \in Below
    BY <2>1 DEF Below
  <2> QED
    BY <2>1, <2>2, <2>3
<1> QED
  BY <1>2

\* Natural numbers with 0 among them, and each with the next, are all there are.
LEMMA Induction ==
    ASSUME NEW T \in SUBSET Nat, 0 \in T, \A n \in T : n + 1 \in T
    PROVE  T = Nat
<1>1. SUFFICES ASSUME Nat \ T # {} PROVE FALSE
  OBVIOUS
<1>2. PICK n \in Nat \ T : \A m \in Nat \ T : n <= m
  BY <1>1, Least
<1>3. n # 0
  OBVIOUS
<1>4. n - 1 \in T
  BY <1>2, <1>3
<1> QED
  BY <1>2, <1>4

---------------------------------------------------------------------------
(* Functions defined step by step.                                         *)

Stays(G, n, V)         == G \in [1..n -> [V -> V]]
Follows(f, G, n, b, V) == f \in [0..n -> V] /\ f[0] = b /\ \A k \in 1..n : f[k] = G[k][f[k - 1]]

\* Steps that stay in a set define a function on 0..n.
LEMMA Recursion ==
    ASSUME NEW V, NEW b \in V, NEW n \in Nat, NEW G, Stays(G, n, V)
    PROVE  \E f : Follows(f, G, n, b, V)
<1>0. G \in [1..n -> [V -> V]]
  BY DEF Stays
<1> DEFINE Does(f, m) == f \in [0..m -> V] /\ f[0] = b /\ \A k \in 1..m : f[k] = G[k][f[k - 1]]
           T == {m \in Nat : m <= n => \E f : Does(f, m)}
<1>1. 0 \in T
  <2>1. Does([k \in 0..0 |-> b], 0)
    OBVIOUS
  <2> QED
    BY <2>1
<1>2. ASSUME NEW m \in T PROVE m + 1 \in T
  <2> SUFFICES ASSUME m + 1 <= n PROVE \E f : Does(f, m + 1)
    <3>1. m + 1 \in Nat
      OBVIOUS
    <3> HIDE DEF Does
    <3> QED
      BY <3>1
  <2>1. PICK f : Does(f, m)
    OBVIOUS
  <2>2. f[m] \in V /\ m \in Nat
    BY <2>1
  <2>3. G[m + 1][f[m]] \in V
    BY <1>0, <2>2
  <2> DEFINE h == [k \in 0..m + 1 |-> IF k = m + 1 THEN G[m + 1][f[m]] ELSE f[k]]
  <2>4. /\ h \in [0..m + 1 -> V] /\ h[0] = b
        /\ \A k \in 0..m : h[k] = f[k]
        /\ h[m + 1] = G[m + 1][f[m]]
    BY <2>1, <2>2, <2>3
  <2> HIDE DEF h
  <2>5. ASSUME NEW k \in 1..m + 1 PROVE h[k] = G[k][h[k - 1]]
    <3>1. CASE k = m + 1
      <4>1. k - 1 = m /\ m \in 0..m
        BY <2>2, <3>1
      <4>2. h[k - 1] = f[m]
        BY <2>4, <4>1
      <4> QED
        BY <2>4, <3>1, <4>2
    <3>2. CASE k # m + 1
      <4>1. k \in 1..m /\ k - 1 \in 0..m /\ k \in 0..m
        BY <2>2, <3>2
      <4> QED
        BY <2>1, <2>4, <4>1
    <3> QED
      BY <3>1, <3>2
  <2> QED
    BY <2>4, <2>5
<1> HIDE DEF T
<1>3. T = Nat
  <2>1. T \in SUBSET Nat
    BY DEF T
  <2> QED
    BY <1>1, <1>2, <2>1, Induction
<1> QED
  BY <1>3 DEF T, Follows

\* What holds of 0, and of each number up to n if of the one before, holds of all of them.
LEMMA InductionTo ==
    ASSUME NEW n \in Nat, NEW T \in SUBSET (0..n), 0 \in T, \A k \in 1..n : k - 1 \in T => k \in T
    PROVE  T = 0..n
<1> DEFINE S == {m \in Nat : m <= n => m \in T}
<1>1. 0 \in S
  OBVIOUS
<1>2. ASSUME NEW m \in S PROVE m + 1 \in S
  <2>1. m + 1 <= n => m + 1 \in 1..n /\ (m + 1) - 1 = m
    OBVIOUS
  <2> QED
    BY <2>1
<1>3. S = Nat
  <2>1. S \in SUBSET Nat
    OBVIOUS
  <2> HIDE DEF S
  <2> QED
    BY <1>1, <1>2, <2>1, Induction
<1>4. ASSUME NEW k \in 0..n PROVE k \in T
  <2>1. k \in Nat /\ k <= n
    OBVIOUS
  <2>2. k \in S
    BY <1>3, <2>1
  <2> QED
    BY <2>1, <2>2
<1> QED
  BY <1>4

---------------------------------------------------------------------------
(* The function a fold over a finite set is defined by.                    *)

\* What a fold takes out next.
Pick(s) == CHOOSE x \in s : TRUE

\* g adds up the weights w, over any part of D.
Adds(g, D, w) == g = [s \in SUBSET D |-> IF s = {} THEN 0 ELSE w[Pick(s)] + g[s \ {Pick(s)}]]

UpTo(D, n) == {s \in SUBSET D : Cardinality(s) <= n}

\* What is taken out is an element.
LEMMA PickIsIn == ASSUME NEW s, s # {} PROVE Pick(s) \in s
BY DEF Pick

\* Without one of its elements a set is smaller by one.
LEMMA Smaller ==
    ASSUME NEW D, IsFiniteSet(D), NEW n \in Nat, NEW s \in UpTo(D, n + 1), NEW x \in s
    PROVE  s \ {x} \in UpTo(D, n)
<1>1. IsFiniteSet(s) /\ Cardinality(s) \in Nat
  BY FS_Subset, FS_CardinalityType DEF UpTo
<1>2. Cardinality(s \ {x}) = Cardinality(s) - 1
  BY <1>1, FS_RemoveElement
<1> QED
  BY <1>1, <1>2 DEF UpTo

\* Only the empty set has no element.
LEMMA Smallest ==
    ASSUME NEW D, IsFiniteSet(D), NEW s \in UpTo(D, 0)
    PROVE  s = {}
<1>1. IsFiniteSet(s) /\ Cardinality(s) \in Nat
  BY FS_Subset, FS_CardinalityType DEF UpTo
<1> QED
  BY <1>1, FS_EmptySet DEF UpTo

\* What has at most n elements has at most one more.
LEMMA Grows ==
    ASSUME NEW D, IsFiniteSet(D), NEW n \in Nat
    PROVE  UpTo(D, n) \subseteq UpTo(D, n + 1)
<1> SUFFICES ASSUME NEW s \in UpTo(D, n) PROVE s \in UpTo(D, n + 1)
  OBVIOUS
<1>1. Cardinality(s) \in Nat
  BY FS_Subset, FS_CardinalityType DEF UpTo
<1> QED
  BY <1>1 DEF UpTo

\* No part of a finite set is larger than it.
LEMMA AllOfThem ==
    ASSUME NEW D, IsFiniteSet(D)
    PROVE  Cardinality(D) \in Nat /\ UpTo(D, Cardinality(D)) = SUBSET D
BY FS_Subset, FS_CardinalityType DEF UpTo

\* There is such a function.
LEMMA AddsExists ==
    ASSUME NEW D, IsFiniteSet(D), NEW w
    PROVE  \E g : Adds(g, D, w)
<1> DEFINE Does(g, n) == g = [s \in UpTo(D, n) |->
                                IF s = {} THEN 0 ELSE w[Pick(s)] + g[s \ {Pick(s)}]]
           T == {n \in Nat : \E g : Does(g, n)}
<1>1. 0 \in T
  <2>1. Does([s \in UpTo(D, 0) |-> 0], 0)
    BY Smallest
  <2> QED
    BY <2>1
<1>2. ASSUME NEW n \in T PROVE n + 1 \in T
  <2>1. n \in Nat
    OBVIOUS
  <2>2. PICK g : Does(g, n)
    OBVIOUS
  <2> DEFINE h == [s \in UpTo(D, n + 1) |-> IF s = {} THEN 0 ELSE w[Pick(s)] + g[s \ {Pick(s)}]]
  <2>3. ASSUME NEW s \in UpTo(D, n) PROVE h[s] = g[s]
    <3>1. s \in UpTo(D, n + 1)
      BY <2>1, Grows
    <3> QED
      BY <2>2, <3>1
  <2>4. ASSUME NEW s \in UpTo(D, n + 1), s # {} PROVE h[s \ {Pick(s)}] = g[s \ {Pick(s)}]
    BY <2>1, <2>3, <2>4, Smaller, PickIsIn
  <2>5. Does(h, n + 1)
    <3>1. \A s \in UpTo(D, n + 1) :
             (IF s = {} THEN 0 ELSE w[Pick(s)] + g[s \ {Pick(s)}])
           = (IF s = {} THEN 0 ELSE w[Pick(s)] + h[s \ {Pick(s)}])
      BY <2>4
    <3> QED
      BY <3>1
  <2> HIDE DEF h, Does
  <2> QED
    BY <2>1, <2>5
<1> HIDE DEF T
<1>3. T = Nat
  <2>1. T \in SUBSET Nat
    BY DEF T
  <2> QED
    BY <1>1, <1>2, <2>1, Induction
<1> USE DEF T
<1>4. PICK g : Does(g, Cardinality(D))
  BY <1>3, AllOfThem
<1> QED
  BY <1>4, AllOfThem DEF Adds

\* Its values are natural where the weights are.
LEMMA AddsTyped ==
    ASSUME NEW D, IsFiniteSet(D), NEW w \in [D -> Nat], NEW g, Adds(g, D, w)
    PROVE  g \in [SUBSET D -> Nat] /\ g[{}] = 0
<1> DEFINE T == {n \in Nat : \A s \in UpTo(D, n) : g[s] \in Nat}
<1>0. \A s \in SUBSET D : g[s] = IF s = {} THEN 0 ELSE w[Pick(s)] + g[s \ {Pick(s)}]
  BY DEF Adds
<1>1. 0 \in T
  <2>1. \A s \in UpTo(D, 0) : g[s] = 0
    BY <1>0, Smallest
  <2> QED
    BY <2>1
<1>2. ASSUME NEW n \in T PROVE n + 1 \in T
  <2>1. ASSUME NEW s \in UpTo(D, n + 1), s # {} PROVE g[s] \in Nat
    <3>1. s \in SUBSET D /\ Pick(s) \in s
      BY <2>1, PickIsIn DEF UpTo
    <3>2. g[s \ {Pick(s)}] \in Nat
      BY <3>1, Smaller
    <3>3. w[Pick(s)] \in Nat
      BY <3>1
    <3>4. g[s] = w[Pick(s)] + g[s \ {Pick(s)}]
      BY <1>0, <2>1, <3>1
    <3> QED
      BY <3>2, <3>3, <3>4
  <2>2. g[{}] \in Nat
    <3>1. g[{}] = 0
      BY <1>0
    <3> QED
      BY <3>1
  <2>3. \A s \in UpTo(D, n + 1) : g[s] \in Nat
    BY <2>1, <2>2
  <2> QED
    BY <2>3
<1> HIDE DEF T
<1>3. T = Nat
  <2>1. T \in SUBSET Nat
    BY DEF T
  <2> QED
    BY <1>1, <1>2, <2>1, Induction
<1>4. \A s \in SUBSET D : g[s] \in Nat
  BY <1>3, AllOfThem DEF T
<1> QED
  BY <1>0, <1>4 DEF Adds

\* There is only one, and it does not depend on what else there is to add.
LEMMA AddsUnique ==
    ASSUME NEW D, IsFiniteSet(D), NEW E \in SUBSET D, NEW w, NEW v,
           \A x \in E : v[x] = w[x],
           NEW g, Adds(g, D, w), NEW h, Adds(h, E, v)
    PROVE  \A s \in SUBSET E : h[s] = g[s]
<1> DEFINE T == {n \in Nat : \A s \in UpTo(E, n) : h[s] = g[s]}
<1>0. /\ \A s \in SUBSET D : g[s] = IF s = {} THEN 0 ELSE w[Pick(s)] + g[s \ {Pick(s)}]
      /\ \A s \in SUBSET E : h[s] = IF s = {} THEN 0 ELSE v[Pick(s)] + h[s \ {Pick(s)}]
      /\ IsFiniteSet(E)
  BY FS_Subset DEF Adds
<1>1. 0 \in T
  <2>1. \A s \in UpTo(E, 0) : g[s] = 0 /\ h[s] = 0
    BY <1>0, Smallest
  <2> QED
    BY <2>1
<1>2. ASSUME NEW n \in T PROVE n + 1 \in T
  <2>1. ASSUME NEW s \in UpTo(E, n + 1), s # {} PROVE h[s] = g[s]
    <3>1. s \in SUBSET E /\ s \in SUBSET D /\ Pick(s) \in s
      BY <2>1, PickIsIn DEF UpTo
    <3>2. h[s \ {Pick(s)}] = g[s \ {Pick(s)}]
      BY <1>0, <3>1, Smaller
    <3>3. w[Pick(s)] = v[Pick(s)]
      BY <3>1
    <3>4. g[s] = w[Pick(s)] + g[s \ {Pick(s)}]
      BY <1>0, <2>1, <3>1, Zenon
    <3>5. h[s] = v[Pick(s)] + h[s \ {Pick(s)}]
      BY <1>0, <2>1, <3>1, Zenon
    <3> QED
      BY <3>2, <3>3, <3>4, <3>5
  <2>2. h[{}] = g[{}]
    BY <1>0
  <2> QED
    BY <2>1, <2>2
<1> HIDE DEF T
<1>3. T = Nat
  <2>1. T \in SUBSET Nat
    BY DEF T
  <2> QED
    BY <1>1, <1>2, <2>1, Induction
<1> QED
  BY <1>0, <1>3, AllOfThem DEF T

\* What is added first does not matter.
LEMMA AddsAny ==
    ASSUME NEW D, IsFiniteSet(D), NEW w \in [D -> Nat], NEW g, Adds(g, D, w)
    PROVE  \A s \in SUBSET D, x \in D : x \in s => g[s] = w[x] + g[s \ {x}]
<1> DEFINE T == {n \in Nat : \A s \in UpTo(D, n) : \A x \in s : g[s] = w[x] + g[s \ {x}]}
<1>0. /\ \A s \in SUBSET D : g[s] = IF s = {} THEN 0 ELSE w[Pick(s)] + g[s \ {Pick(s)}]
      /\ \A s \in SUBSET D : g[s] \in Nat
  <2>1. g \in [SUBSET D -> Nat]
    BY AddsTyped
  <2> QED
    BY <2>1 DEF Adds
<1>1. 0 \in T
  BY Smallest
<1>2. ASSUME NEW n \in T PROVE n + 1 \in T
  <2>1. ASSUME NEW s \in UpTo(D, n + 1), NEW x \in s PROVE g[s] = w[x] + g[s \ {x}]
    <3> DEFINE y == Pick(s)
    <3>1. s \in SUBSET D /\ y \in s /\ s # {}
      BY PickIsIn DEF UpTo
    <3>2. g[s] = w[y] + g[s \ {y}]
      BY <1>0, <3>1
    <3> HIDE DEF y
    <3>3. CASE x = y
      BY <3>2, <3>3
    <3>4. CASE x # y
      <4>1. s \ {y} \in UpTo(D, n) /\ x \in s \ {y}
        BY <3>1, <3>4, Smaller
      <4>2. s \ {x} \in UpTo(D, n) /\ y \in s \ {x}
        BY <3>1, <3>4, Smaller
      <4>3. g[s \ {y}] = w[x] + g[(s \ {y}) \ {x}]
        BY <4>1
      <4>4. g[s \ {x}] = w[y] + g[(s \ {x}) \ {y}]
        BY <4>2
      <4>5. (s \ {y}) \ {x} = (s \ {x}) \ {y}
        OBVIOUS
      <4>6. /\ w[x] \in Nat /\ w[y] \in Nat /\ g[(s \ {x}) \ {y}] \in Nat
        BY <1>0, <3>1
      <4>7. g[s] = w[y] + (w[x] + g[(s \ {x}) \ {y}])
        BY <3>2, <4>3, <4>5
      <4> HIDE DEF T
      <4> QED
        BY <4>4, <4>6, <4>7
    <3> QED
      BY <3>3, <3>4
  <2> QED
    BY <2>1
<1> HIDE DEF T
<1>3. T = Nat
  <2>1. T \in SUBSET Nat
    BY DEF T
  <2> QED
    BY <1>1, <1>2, <2>1, Induction
<1>4. Cardinality(D) \in T /\ UpTo(D, Cardinality(D)) = SUBSET D
  BY <1>3, AllOfThem
<1> QED
  BY <1>4 DEF T

---------------------------------------------------------------------------
(* Sums.                                                                   *)

\* The fold of the library is the function that adds.
LEMMA SumIs ==
    ASSUME NEW D, IsFiniteSet(D), NEW w \in [D -> Nat], NEW g, Adds(g, D, w), NEW S \in SUBSET D
    PROVE  SumFunctionOnSet(w, S) = g[S]
<1> DEFINE G == CHOOSE h : h = [s \in SUBSET S |-> IF s = {} THEN 0
                                 ELSE w[CHOOSE x \in s : TRUE] + h[s \ {CHOOSE x \in s : TRUE}]]
<1>1. SumFunctionOnSet(w, S) = G[S]
  BY DEF SumFunctionOnSet, FoldFunctionOnSet, MapThenFoldSet
<1>2. \E h : Adds(h, S, w)
  BY AddsExists, FS_Subset
<1>3. Adds(G, S, w)
  BY <1>2 DEF Adds, Pick
<1> HIDE DEF G
<1> QED
  BY <1>1, <1>3, AddsUnique

\* A sum of natural numbers is one.
LEMMA SumType ==
    ASSUME NEW D, IsFiniteSet(D), NEW w \in [D -> Nat], NEW S \in SUBSET D
    PROVE  SumFunctionOnSet(w, S) \in Nat
<1>1. PICK g : Adds(g, D, w)
  BY AddsExists
<1>2. g \in [SUBSET D -> Nat] /\ g[{}] = 0
  BY <1>1, AddsTyped
<1>3. \A s \in SUBSET D : SumFunctionOnSet(w, s) = g[s]
  BY <1>1, SumIs
<1> QED
  BY <1>2, <1>3

\* Nothing comes to nothing.
LEMMA SumEmpty ==
    ASSUME NEW D, IsFiniteSet(D), NEW w \in [D -> Nat]
    PROVE  SumFunctionOnSet(w, {}) = 0
<1>1. PICK g : Adds(g, D, w)
  BY AddsExists
<1>2. g \in [SUBSET D -> Nat] /\ g[{}] = 0
  BY <1>1, AddsTyped
<1>3. \A s \in SUBSET D : SumFunctionOnSet(w, s) = g[s]
  BY <1>1, SumIs
<1> QED
  BY <1>2, <1>3

\* A sum is any one of its terms and the sum of the others.
LEMMA SumLess ==
    ASSUME NEW D, IsFiniteSet(D), NEW w \in [D -> Nat], NEW S \in SUBSET D, NEW x \in S
    PROVE  SumFunctionOnSet(w, S) = w[x] + SumFunctionOnSet(w, S \ {x})
<1>1. PICK g : Adds(g, D, w)
  BY AddsExists
<1>2. SumFunctionOnSet(w, S) = g[S] /\ SumFunctionOnSet(w, S \ {x}) = g[S \ {x}]
  BY <1>1, SumIs
<1>3. g[S] = w[x] + g[S \ {x}]
  BY <1>1, AddsAny, SMTT(30)
<1> QED
  BY <1>2, <1>3

\* The same weights come to the same, whatever else there is to weigh.
LEMMA SumSame ==
    ASSUME NEW D, IsFiniteSet(D), NEW w \in [D -> Nat],
           NEW E, IsFiniteSet(E), NEW v \in [E -> Nat],
           NEW S, S \subseteq D, S \subseteq E, \A x \in S : v[x] = w[x]
    PROVE  SumFunctionOnSet(v, S) = SumFunctionOnSet(w, S)
<1>1. PICK g : Adds(g, D, w)
  BY AddsExists
<1>2. PICK h : Adds(h, E, v)
  BY AddsExists
<1>3. PICK e : Adds(e, S, v)
  BY AddsExists, FS_Subset
<1>4. e[S] = g[S] /\ e[S] = h[S]
  BY <1>1, <1>2, <1>3, AddsUnique
<1>5. SumFunctionOnSet(v, S) = h[S] /\ SumFunctionOnSet(w, S) = g[S]
  BY <1>1, <1>2, SumIs
<1> QED
  BY <1>4, <1>5

\* A sum does not depend on the weights outside it.
LEMMA SumRestrict ==
    ASSUME NEW D, IsFiniteSet(D), NEW w \in [D -> Nat], NEW E \in SUBSET D, NEW S \in SUBSET E
    PROVE  /\ Restrict(w, E) \in [E -> Nat]
           /\ SumFunctionOnSet(Restrict(w, E), S) = SumFunctionOnSet(w, S)
<1> DEFINE v == Restrict(w, E)
<1>1. v \in [E -> Nat] /\ \A x \in S : v[x] = w[x]
  BY DEF Restrict
<1>2. IsFiniteSet(E)
  BY FS_Subset
<1> HIDE DEF v
<1>3. SumFunctionOnSet(v, S) = SumFunctionOnSet(w, S)
  BY <1>1, <1>2, SumSame
<1> QED
  BY <1>1, <1>3 DEF v

\* More terms come to no less.
LEMMA SumMore ==
    ASSUME NEW D, IsFiniteSet(D), NEW w \in [D -> Nat], NEW R \in SUBSET D, NEW S \in SUBSET R
    PROVE  SumFunctionOnSet(w, S) <= SumFunctionOnSet(w, R)
<1> DEFINE T == {n \in Nat : \A r \in UpTo(D, n) : \A s \in SUBSET r :
                    SumFunctionOnSet(w, s) <= SumFunctionOnSet(w, r)}
<1>0. /\ \A s \in SUBSET D : SumFunctionOnSet(w, s) \in Nat
      /\ \A s \in SUBSET D : \A x \in s :
                 SumFunctionOnSet(w, s) = w[x] + SumFunctionOnSet(w, s \ {x})
  BY SumType, SumLess
<1>1. 0 \in T
  <2>1. ASSUME NEW r \in UpTo(D, 0), NEW s \in SUBSET r
        PROVE  SumFunctionOnSet(w, s) <= SumFunctionOnSet(w, r)
    <3>1. r = {} /\ s = {}
      BY Smallest
    <3> QED
      BY <1>0, <3>1
  <2> QED
    BY <2>1
<1>2. ASSUME NEW n \in T PROVE n + 1 \in T
  <2>1. ASSUME NEW r \in UpTo(D, n + 1), NEW s \in SUBSET r
        PROVE  SumFunctionOnSet(w, s) <= SumFunctionOnSet(w, r)
    <3>0. r \in SUBSET D /\ s \in SUBSET D
      BY DEF UpTo
    <3>1. CASE s = r
      BY <1>0, <3>0, <3>1
    <3>2. CASE s # r
      <4>1. PICK x \in r : x \notin s
        BY <3>2
      <4>2. s \in SUBSET (r \ {x}) /\ r \ {x} \in UpTo(D, n)
        BY <4>1, Smaller
      <4>3. SumFunctionOnSet(w, s) <= SumFunctionOnSet(w, r \ {x})
        BY <4>2
      <4>4. SumFunctionOnSet(w, r) = w[x] + SumFunctionOnSet(w, r \ {x})
        BY <1>0, <3>0
      <4>5. /\ w[x] \in Nat /\ SumFunctionOnSet(w, s) \in Nat
            /\ SumFunctionOnSet(w, r \ {x}) \in Nat
        BY <1>0, <3>0
      <4> HIDE DEF T
      <4> QED
        BY <4>3, <4>4, <4>5
    <3> QED
      BY <3>1, <3>2
  <2> QED
    BY <2>1
<1> HIDE DEF T
<1>3. T = Nat
  <2>1. T \in SUBSET Nat
    BY DEF T
  <2> QED
    BY <1>1, <1>2, <2>1, Induction
<1>4. Cardinality(D) \in T /\ UpTo(D, Cardinality(D)) = SUBSET D
  BY <1>3, AllOfThem
<1> QED
  BY <1>4 DEF T

Along(w, f, A) == [a \in A |-> w[f[a]]]
ImageOf(f, S)  == {f[a] : a \in S}

\* Renaming the terms one to one leaves their sum.
LEMMA SumImage ==
    ASSUME NEW A, IsFiniteSet(A), NEW D, IsFiniteSet(D), NEW w \in [D -> Nat],
           NEW f \in Injection(A, D), NEW S \in SUBSET A
    PROVE  SumFunctionOnSet(Along(w, f, A), S) = SumFunctionOnSet(w, ImageOf(f, S))
<1> DEFINE u == Along(w, f, A)
           T == {n \in Nat : \A s \in UpTo(A, n) :
                    SumFunctionOnSet(u, s) = SumFunctionOnSet(w, {f[a] : a \in s})}
<1>f. f \in [A -> D] /\ \A a, b \in A : f[a] = f[b] => a = b
  BY DEF Injection, IsInjective
<1>u. u \in [A -> Nat] /\ \A a \in A : u[a] = w[f[a]]
  BY <1>f DEF Along
<1> HIDE DEF u
<1>0. /\ \A s \in SUBSET D : SumFunctionOnSet(w, s) \in Nat
      /\ \A s \in SUBSET D : \A x \in s :
                 SumFunctionOnSet(w, s) = w[x] + SumFunctionOnSet(w, s \ {x})
      /\ \A s \in SUBSET A : \A x \in s :
                 SumFunctionOnSet(u, s) = u[x] + SumFunctionOnSet(u, s \ {x})
      /\ SumFunctionOnSet(w, {}) = 0 /\ SumFunctionOnSet(u, {}) = 0
  BY <1>u, SumType, SumLess, SumEmpty
<1>1. 0 \in T
  <2>1. ASSUME NEW s \in UpTo(A, 0)
        PROVE  SumFunctionOnSet(u, s) = SumFunctionOnSet(w, {f[a] : a \in s})
    <3>1. s = {} /\ {f[a] : a \in s} = {}
      BY Smallest
    <3> QED
      BY <1>0, <3>1
  <2> QED
    BY <2>1
<1>2. ASSUME NEW n \in T PROVE n + 1 \in T
  <2>1. ASSUME NEW s \in UpTo(A, n + 1)
        PROVE  SumFunctionOnSet(u, s) = SumFunctionOnSet(w, {f[a] : a \in s})
    <3>0. s \in SUBSET A
      BY DEF UpTo
    <3>1. CASE s = {}
      <4>1. {f[a] : a \in s} = {}
        BY <3>1
      <4> QED
        BY <1>0, <3>1, <4>1
    <3>2. CASE s # {}
      <4>1. PICK x \in s : TRUE
        BY <3>2
      <4>2. s \ {x} \in UpTo(A, n)
        BY Smaller
      <4>3. SumFunctionOnSet(u, s \ {x}) = SumFunctionOnSet(w, {f[a] : a \in s \ {x}})
        BY <4>2
      <4>4. {f[a] : a \in s \ {x}} = {f[a] : a \in s} \ {f[x]}
        BY <1>f, <3>0
      <4>5. {f[a] : a \in s} \in SUBSET D /\ f[x] \in {f[a] : a \in s}
        BY <1>f, <3>0
      <4>6. SumFunctionOnSet(w, {f[a] : a \in s})
              = w[f[x]] + SumFunctionOnSet(w, {f[a] : a \in s} \ {f[x]})
        BY <1>0, <4>5
      <4>7. SumFunctionOnSet(u, s) = u[x] + SumFunctionOnSet(u, s \ {x})
        BY <1>0, <3>0
      <4>8. u[x] = w[f[x]]
        BY <1>u, <3>0
      <4> HIDE DEF T
      <4> QED
        BY <4>3, <4>4, <4>6, <4>7, <4>8
    <3> QED
      BY <3>1, <3>2
  <2> QED
    BY <2>1
<1> HIDE DEF T
<1>3. T = Nat
  <2>1. T \in SUBSET Nat
    BY DEF T
  <2> QED
    BY <1>1, <1>2, <2>1, Induction
<1>4. Cardinality(A) \in T /\ UpTo(A, Cardinality(A)) = SUBSET A
  BY <1>3, AllOfThem
<1> QED
  BY <1>4 DEF T, u, ImageOf

---------------------------------------------------------------------------
(* Orders.                                                                 *)

\* Some of the first n numbers have a greatest.
LEMMA Greatest ==
    ASSUME NEW n \in Nat, NEW S \in SUBSET (1..n), S # {}
    PROVE  \E m \in S : \A x \in S : x <= m
<1> DEFINE T == {k \in Nat : \A x \in S : x <= k}
<1>1. n \in T
  OBVIOUS
<1>2. PICK m \in T : \A k \in T : m <= k
  BY <1>1, Least
<1>3. m \in S
  <2> SUFFICES ASSUME m \notin S PROVE FALSE
    OBVIOUS
  <2>1. \A x \in S : x \in Int /\ x >= 1 /\ x <= m /\ x # m
    OBVIOUS
  <2>0. PICK y \in S : TRUE
    OBVIOUS
  <2>2. m - 1 \in Nat /\ \A x \in S : x <= m - 1
    <3> HIDE DEF T
    <3>1. m \in Nat
      BY DEF T
    <3> QED
      BY <2>0, <2>1, <3>1
  <2>3. m - 1 \in T
    BY <2>2
  <2> QED
    BY <1>2, <2>3
<1> QED
  BY <1>3

\* Each of n weights is no more than the one before it.
Falling(w, n) == /\ w \in [1..n -> Nat]
                 /\ \A i, j \in 1..n : i <= j => w[i] >= w[j]

\* Of any so many, the first of a falling sequence come to the most.
LEMMA FirstAreMost ==
    ASSUME NEW n \in Nat, NEW w, Falling(w, n), NEW S \in SUBSET (1..n)
    PROVE  /\ Cardinality(S) \in 0..n
           /\ SumFunctionOnSet(w, S) <= SumFunctionOnSet(w, 1..Cardinality(S))
<1> DEFINE D == 1..n
<1>D. IsFiniteSet(D) /\ Cardinality(D) = n
  BY FS_Interval
<1>S. S \in SUBSET D
  OBVIOUS
<1>w. w \in [D -> Nat]
  BY DEF Falling
<1> HIDE DEF D
<1>C. ASSUME NEW s \in SUBSET D PROVE IsFiniteSet(s) /\ Cardinality(s) \in 0..n
  <2>1. IsFiniteSet(s) /\ Cardinality(s) \in Nat /\ Cardinality(s) <= n
    BY <1>D, FS_Subset, FS_CardinalityType
  <2> QED
    BY <2>1
<1>0. /\ \A s \in SUBSET D : SumFunctionOnSet(w, s) \in Nat
      /\ \A s \in SUBSET D : \A x \in s :
                 SumFunctionOnSet(w, s) = w[x] + SumFunctionOnSet(w, s \ {x})
      /\ SumFunctionOnSet(w, {}) = 0
  <2> USE <1>D, <1>w
  <2>1. \A s \in SUBSET D : SumFunctionOnSet(w, s) \in Nat
    BY SumType
  <2>2. SumFunctionOnSet(w, {}) = 0
    BY SumEmpty
  <2>3. ASSUME NEW s \in SUBSET D, NEW x \in s
        PROVE SumFunctionOnSet(w, s) = w[x] + SumFunctionOnSet(w, s \ {x})
    BY SumLess
  <2> QED
    BY <2>1, <2>2, <2>3
<1>z. SumFunctionOnSet(w, {}) <= SumFunctionOnSet(w, 1..Cardinality({}))
  <2>1. Cardinality({}) = 0 /\ 1..0 = {}
    BY FS_EmptySet
  <2> QED
    BY <1>0, <2>1
<1> DEFINE T == {k \in Nat : \A s \in UpTo(D, k) :
                    SumFunctionOnSet(w, s) <= SumFunctionOnSet(w, 1..Cardinality(s))}
<1>1. 0 \in T
  <2>1. \A s \in UpTo(D, 0) : s = {}
    BY <1>D, Smallest
  <2> QED
    BY <2>1, <1>z
<1>2. ASSUME NEW k \in T PROVE k + 1 \in T
  <2>1. ASSUME NEW s \in UpTo(D, k + 1), s # {}
        PROVE  SumFunctionOnSet(w, s) <= SumFunctionOnSet(w, 1..Cardinality(s))
    <3>0. s \in SUBSET D
      BY DEF UpTo
    <3>1. PICK m \in s : \A x \in s : x <= m
      BY <2>1, <3>0, Greatest DEF D
    <3> DEFINE c == Cardinality(s)
    <3>2. c \in 0..n /\ c # 0 /\ Cardinality(s \ {m}) = c - 1
      BY <2>1, <3>0, <1>C, FS_EmptySet, FS_RemoveElement
    <3>3. c <= m /\ m \in 1..n
      <4>1. m \in 1..n
        BY <3>0 DEF D
      <4>2. s \in SUBSET (1..m)
        BY <3>0, <3>1 DEF D
      <4>3. Cardinality(1..m) = m /\ IsFiniteSet(1..m)
        BY <4>1, FS_Interval
      <4>4. c <= Cardinality(1..m)
        <5> HIDE DEF T
        <5> QED
          BY <4>2, <4>3, FS_Subset
      <4> QED
        BY <4>1, <4>3, <4>4
    <3>4. s \ {m} \in UpTo(D, k)
      BY <1>D, Smaller
    <3>5. SumFunctionOnSet(w, s \ {m}) <= SumFunctionOnSet(w, 1..(c - 1))
      BY <3>2, <3>4
    <3> HIDE DEF c, T
    <3>6. SumFunctionOnSet(w, s) = w[m] + SumFunctionOnSet(w, s \ {m})
      BY <1>0, <3>0
    <3>7. 1..c \in SUBSET D /\ c \in 1..c /\ (1..c) \ {c} = 1..(c - 1)
      BY <3>2 DEF D
    <3>8. SumFunctionOnSet(w, 1..c) = w[c] + SumFunctionOnSet(w, 1..(c - 1))
      BY <1>0, <3>7
    <3>9. w[c] >= w[m] /\ w[c] \in Nat /\ w[m] \in Nat
      BY <3>2, <3>3 DEF Falling
    <3>10. SumFunctionOnSet(w, s \ {m}) \in Nat /\ SumFunctionOnSet(w, 1..(c - 1)) \in Nat
      BY <1>0, <3>0, <3>7
    <3>11. SumFunctionOnSet(w, s) <= SumFunctionOnSet(w, 1..c)
      BY <3>5, <3>6, <3>8, <3>9, <3>10
    <3> QED
      BY <3>11 DEF c
  <2>2. \A s \in UpTo(D, k + 1) :
           SumFunctionOnSet(w, s) <= SumFunctionOnSet(w, 1..Cardinality(s))
    <3> HIDE DEF T
    <3> QED
      BY <2>1, <1>z
  <2> QED
    BY <2>2
<1> HIDE DEF T
<1>3. T = Nat
  <2>1. T \in SUBSET Nat
    BY DEF T
  <2> QED
    BY <1>1, <1>2, <2>1, Induction
<1>4. Cardinality(D) \in T /\ UpTo(D, Cardinality(D)) = SUBSET D
  BY <1>3, <1>D, AllOfThem
<1>6. SumFunctionOnSet(w, S) <= SumFunctionOnSet(w, 1..Cardinality(S))
  BY <1>4, <1>S DEF T
<1> QED
  BY <1>6, <1>C, <1>S

\* The first n of the weights do.
FallingTo(w, D, n) == /\ w \in [D -> Nat] /\ 1..n \in SUBSET D
                      /\ \A i, j \in 1..n : i <= j => w[i] >= w[j]

\* Of any so many of the first n, the first still come to the most.
LEMMA FirstOfAllAreMost ==
    ASSUME NEW D, IsFiniteSet(D), NEW n \in Nat, NEW w, FallingTo(w, D, n), NEW S \in SUBSET (1..n)
    PROVE  /\ Cardinality(S) \in 0..n
           /\ SumFunctionOnSet(w, S) <= SumFunctionOnSet(w, 1..Cardinality(S))
<1> DEFINE E == 1..n
           v == Restrict(w, E)
           m == Cardinality(S)
<1>1. w \in [D -> Nat] /\ E \in SUBSET D
  BY DEF FallingTo
<1>2. Falling(v, n)
  <2>1. v \in [1..n -> Nat]
    BY <1>1 DEF Restrict
  <2>2. \A i, j \in 1..n : i <= j => v[i] >= v[j]
    BY DEF FallingTo, Restrict
  <2> QED
    BY <2>1, <2>2 DEF Falling
<1>3. m \in 0..n /\ SumFunctionOnSet(v, S) <= SumFunctionOnSet(v, 1..m)
  <2> HIDE DEF v
  <2> QED
    BY <1>2, FirstAreMost
<1>4. S \in SUBSET E /\ 1..m \in SUBSET E
  <2> HIDE DEF m
  <2> QED
    BY <1>3
<1> HIDE DEF E, m
<1>5. ASSUME NEW R, R \in SUBSET E PROVE SumFunctionOnSet(v, R) = SumFunctionOnSet(w, R)
  BY <1>1, <1>5, SumRestrict
<1> HIDE DEF v
<1>6. SumFunctionOnSet(v, S) = SumFunctionOnSet(w, S)
  BY <1>4, <1>5, Zenon
<1>7. SumFunctionOnSet(v, 1..m) = SumFunctionOnSet(w, 1..m)
  BY <1>4, <1>5, Zenon
<1> QED
  BY <1>3, <1>6, <1>7 DEF m

\* Put behind everything before it in a strict order of all of them, each has a
\* place of its own, and no place stays empty.
LEMMA Places ==
    ASSUME NEW D, IsFiniteSet(D), NEW R,
           \A i \in D : <<i, i>> \notin R,
           \A i, j \in D : i # j => <<i, j>> \in R \/ <<j, i>> \in R,
           \A i, j, k \in D : <<i, j>> \in R /\ <<j, k>> \in R => <<i, k>> \in R,
           NEW place, place = [j \in D |-> 1 + Cardinality({i \in D : <<i, j>> \in R})]
    PROVE  /\ place \in Bijection(D, 1..Cardinality(D))
           /\ \A i, j \in D : <<i, j>> \in R => place[i] < place[j]
<1> DEFINE Lower(j) == {i \in D : <<i, j>> \in R}
           n == Cardinality(D)
<1>0. n \in Nat
  BY FS_CardinalityType
<1>1. ASSUME NEW j \in D
      PROVE IsFiniteSet(Lower(j)) /\ Cardinality(Lower(j)) \in 0..(n - 1)
  <2>1. Lower(j) \in SUBSET D
    OBVIOUS
  <2>2. IsFiniteSet(Lower(j)) /\ Cardinality(Lower(j)) \in Nat /\ Cardinality(Lower(j)) <= n
    BY <2>1, FS_Subset, FS_CardinalityType
  <2>3. Lower(j) # D
    OBVIOUS
  <2>4. Cardinality(Lower(j)) # n
    BY <2>1, <2>3, FS_Subset
  <2> HIDE DEF Lower, n
  <2> QED
    BY <1>0, <2>2, <2>4
<1>2. ASSUME NEW i \in D, NEW j \in D, <<i, j>> \in R
      PROVE  Cardinality(Lower(i)) < Cardinality(Lower(j))
  <2>1. Lower(i) \in SUBSET Lower(j) /\ i \in Lower(j) /\ i \notin Lower(i)
    BY <1>2
  <2> HIDE DEF Lower
  <2>2. Cardinality(Lower(i)) <= Cardinality(Lower(j)) /\ Cardinality(Lower(i)) # Cardinality(Lower(j))
    BY <1>1, <2>1, FS_Subset
  <2> QED
    BY <1>1, <2>2
<1>3. \A j \in D : place[j] = 1 + Cardinality(Lower(j))
  OBVIOUS
<1> HIDE DEF Lower
<1>4. \A i, j \in D : <<i, j>> \in R => place[i] < place[j]
  BY <1>1, <1>2, <1>3
<1>5. place \in [D -> 1..n]
  <2>1. \A j \in D : place[j] \in 1..n
    <3> HIDE DEF n
    <3> QED
      BY <1>0, <1>1, <1>3
  <2> QED
    BY <2>1
<1>6. ASSUME NEW i \in D, NEW j \in D, place[i] = place[j] PROVE i = j
  <2>1. place[i] \in Int /\ place[j] \in Int
    BY <1>0, <1>5
  <2>2. ~(<<i, j>> \in R) /\ ~(<<j, i>> \in R)
    <3>1. ~(place[i] < place[j]) /\ ~(place[j] < place[i])
      BY <1>6, <2>1
    <3> QED
      BY <1>4, <3>1, Zenon
  <2> QED
    BY <2>2
<1>7. place \in Injection(D, 1..n)
  <2>1. DOMAIN place = D
    BY <1>5
  <2>2. IsInjective(place)
    BY <1>6, <2>1, Zenon DEF IsInjective
  <2> QED
    BY <1>5, <2>2 DEF Injection
<1>8. IsFiniteSet(1..n) /\ Cardinality(1..n) = n
  BY <1>0, FS_Interval
<1>9. place \in Surjection(D, 1..n)
  BY <1>7, <1>8, FS_Injection
<1> QED
  BY <1>4, <1>7, <1>9 DEF Bijection

---------------------------------------------------------------------------
(* Powers of ten.                                                          *)

\* A power of ten is the last of as many steps, each ten times the one before.
LEMMA Pow10Is ==
    ASSUME NEW n \in Nat
    PROVE  \E f \in [0..n -> Nat] : /\ f[0] = 1 /\ \A k \in 1..n : f[k] = 10 * f[k - 1]
                                    /\ pow10(n) = f[n]
<1> DEFINE R(p) == p = [k \in 0..n |-> IF k = 0 THEN 1 ELSE 10 * p[k - 1]]
           g == CHOOSE p : R(p)
           V == Nat
           G == [k \in 1..n |-> [v \in V |-> 10 * v]]
<1>1. Stays(G, n, V) /\ 1 \in V
  BY DEF Stays
<1> HIDE DEF V
<1>2. PICK f \in [0..n -> V] : f[0] = 1 /\ \A k \in 1..n : f[k] = G[k][f[k - 1]]
  <2> HIDE DEF G
  <2>1. \E f : Follows(f, G, n, 1, V)
    BY <1>1, Recursion
  <2> QED
    BY <2>1 DEF Follows
<1> USE DEF V
<1>3. \A k \in 1..n : f[k] = 10 * f[k - 1]
  <2> SUFFICES ASSUME NEW k \in 1..n PROVE f[k] = 10 * f[k - 1]
    OBVIOUS
  <2>1. f[k - 1] \in Nat
    OBVIOUS
  <2> QED
    BY <1>2, <2>1
<1>4. R(f)
  BY <1>2, <1>3
<1>5. R(g)
  <2> HIDE DEF R
  <2> QED
    BY <1>4
<1>6. pow10(n) = g[n]
  BY DEF pow10
<1> HIDE DEF g, G
<1>7. DOMAIN g = 0..n /\ g[0] = 1 /\ \A k \in 1..n : g[k] = 10 * g[k - 1]
  BY <1>5
<1> HIDE DEF R
<1>8. \A k \in 0..n : f[k] = g[k]
  <2> DEFINE T == {k \in 0..n : f[k] = g[k]}
  <2>1. T \in SUBSET (0..n) /\ 0 \in T
    BY <1>2, <1>7
  <2>2. \A k \in 1..n : k - 1 \in T => k \in T
    BY <1>3, <1>7
  <2>3. T = 0..n
    <3> HIDE DEF T
    <3> QED
      BY <2>1, <2>2, InductionTo
  <2> QED
    BY <2>3
<1>9. pow10(n) = f[n]
  BY <1>6, <1>8
<1> QED
  BY <1>2, <1>3, <1>9

\* A power of ten is ten times the one before.
LEMMA Tens ==
    ASSUME NEW n \in Nat
    PROVE  pow10(n) \in Nat \ {0} /\ pow10(0) = 1 /\ pow10(n + 1) = 10 * pow10(n)
<1>1. PICK f \in [0..n -> Nat] : /\ f[0] = 1 /\ \A k \in 1..n : f[k] = 10 * f[k - 1]
                                 /\ pow10(n) = f[n]
  BY Pow10Is
<1>2. PICK h \in [0..n + 1 -> Nat] : /\ h[0] = 1 /\ \A k \in 1..n + 1 : h[k] = 10 * h[k - 1]
                                     /\ pow10(n + 1) = h[n + 1]
  <2>1. n + 1 \in Nat
    OBVIOUS
  <2> QED
    BY <2>1, Pow10Is
<1>3. PICK e \in [0..0 -> Nat] : e[0] = 1 /\ pow10(0) = e[0]
  <2>1. 0 \in Nat
    OBVIOUS
  <2> QED
    BY <2>1, Pow10Is
<1> DEFINE T == {k \in 0..n : h[k] = f[k] /\ f[k] # 0}
<1>4. T \in SUBSET (0..n) /\ 0 \in T
  BY <1>1, <1>2
<1>5. ASSUME NEW k \in 1..n, k - 1 \in T PROVE k \in T
  <2>1. k \in 1..n + 1 /\ f[k - 1] \in Nat
    OBVIOUS
  <2>2. h[k] = 10 * h[k - 1] /\ f[k] = 10 * f[k - 1]
    BY <1>1, <1>2, <2>1
  <2> QED
    BY <1>5, <2>1, <2>2
<1>6. T = 0..n
  <2> HIDE DEF T
  <2> QED
    BY <1>4, <1>5, InductionTo
<1>7. h[n] = f[n] /\ f[n] # 0
  BY <1>6
<1>8. h[n + 1] = 10 * h[n]
  <2>1. n + 1 \in 1..n + 1 /\ (n + 1) - 1 = n
    OBVIOUS
  <2> QED
    BY <1>2, <2>1
<1> HIDE DEF T
<1> QED
  BY <1>1, <1>2, <1>3, <1>7, <1>8

\* The powers of ten grow, and faster than the numbers.
LEMMA TensGrow ==
    ASSUME NEW n \in Nat
    PROVE  /\ n < pow10(n)
           /\ \A m \in 0..n : pow10(m) <= pow10(n)
<1> DEFINE T == {k \in Nat : k < pow10(k) /\ \A m \in 0..k : pow10(m) <= pow10(k)}
<1>1. 0 \in T
  <2>1. pow10(0) = 1
    BY Tens
  <2> QED
    BY <2>1
<1>2. ASSUME NEW k \in T PROVE k + 1 \in T
  <2>1. pow10(k) \in Nat \ {0} /\ pow10(k + 1) = 10 * pow10(k)
    BY Tens
  <2>2. \A m \in 0..k : pow10(m) \in Nat /\ pow10(m) <= pow10(k)
    BY Tens
  <2>3. ASSUME NEW m \in 0..k + 1 PROVE pow10(m) <= pow10(k + 1)
    <3>1. CASE m = k + 1
      BY <2>1, <3>1
    <3>2. CASE m # k + 1
      <4>1. m \in 0..k
        BY <3>2
      <4>2. pow10(m) \in Nat /\ pow10(m) <= pow10(k)
        BY <2>2, <4>1
      <4> QED
        BY <2>1, <4>2
    <3> QED
      BY <3>1, <3>2
  <2>4. k + 1 < pow10(k + 1)
    BY <2>1
  <2> QED
    BY <2>3, <2>4
<1>3. T = Nat
  <2>1. T \in SUBSET Nat
    OBVIOUS
  <2> HIDE DEF T
  <2> QED
    BY <1>1, <1>2, <2>1, Induction
<1> QED
  BY <1>3

---------------------------------------------------------------------------
(* Digits.                                                                 *)

Digits == ToSet(Figure)

Marks == {".", ",", "_", " ", "<"}

\* A figure is one digit, and nothing else that stands in a text.
LEMMA FigureIs ==
    ASSUME NEW d \in 0..9
    PROVE  /\ Figure[d + 1] \in Digits /\ DigitOf(Figure[d + 1]) = d
           /\ Figure[d + 1] \notin Marks /\ (Figure[d + 1] = "0" <=> d = 0)
<1>0. /\ Figure[1] = "0" /\ Figure[2] = "1" /\ Figure[3] = "2" /\ Figure[4] = "3" /\ Figure[5] = "4"
      /\ Figure[6] = "5" /\ Figure[7] = "6" /\ Figure[8] = "7" /\ Figure[9] = "8" /\ Figure[10] = "9"
  BY DEF Figure
<1>1. d + 1 \in DOMAIN Figure
  BY DEF Figure
<1>2. Figure[d + 1] \in Digits
  BY <1>1 DEF Digits, ToSet
<1>3. \A e \in 0..9 : Figure[e + 1] = Figure[d + 1] => e = d
  <2> SUFFICES ASSUME NEW e \in 0..9, e # d PROVE Figure[e + 1] # Figure[d + 1]
    OBVIOUS
  <2>1. /\ d \in {0, 1, 2, 3, 4, 5, 6, 7, 8, 9}
        /\ e \in {0, 1, 2, 3, 4, 5, 6, 7, 8, 9}
    OBVIOUS
  <2> QED
    BY <1>0, <2>1, SMTT(60)
<1>4. DigitOf(Figure[d + 1]) = d
  BY <1>3 DEF DigitOf
<1>5. Figure[d + 1] \notin Marks
  <2>1. d \in {0, 1, 2, 3, 4, 5, 6, 7, 8, 9}
    OBVIOUS
  <2>2. Figure[d + 1] \in {"0", "1", "2", "3", "4", "5", "6", "7", "8", "9"}
    BY <1>0, <2>1
  <2> QED
    BY <2>2 DEF Marks
<1>6. Figure[d + 1] = "0" <=> d = 0
  BY <1>0, <1>3
<1> QED
  BY <1>2, <1>4, <1>5, <1>6

\* And there are no others.
LEMMA FiguresAre ==
    ASSUME NEW c \in Digits
    PROVE  DigitOf(c) \in 0..9 /\ c = Figure[DigitOf(c) + 1]
<1>1. PICK i \in DOMAIN Figure : c = Figure[i]
  BY DEF Digits, ToSet
<1>2. i \in 1..10
  BY DEF Figure
<1>3. i - 1 \in 0..9 /\ (i - 1) + 1 = i
  BY <1>2
<1> QED
  BY <1>1, <1>3, FigureIs

\* What digits read as, one after the other.
LEMMA NumberIs ==
    ASSUME NEW s \in Seq(Digits)
    PROVE  \E f \in [0..Len(s) -> Nat] :
              /\ f[0] = 0 /\ \A k \in 1..Len(s) : f[k] = f[k - 1] * 10 + DigitOf(s[k])
              /\ Number(s) = f[Len(s)]
<1>n. PICK n \in Nat : n = Len(s)
  OBVIOUS
<1> DEFINE R(p) == p = [k \in 0..n |-> IF k = 0 THEN 0 ELSE p[k - 1] * 10 + DigitOf(s[k])]
           g == CHOOSE p : R(p)
           V == Nat
           G == [k \in 1..n |-> [v \in V |-> v * 10 + DigitOf(s[k])]]
<1>0. \A k \in 1..n : DigitOf(s[k]) \in 0..9
  BY <1>n, FiguresAre
<1>1. Stays(G, n, V) /\ 0 \in V
  BY <1>0 DEF Stays
<1>6. Number(s) = g[n]
  BY <1>n DEF Number
<1> HIDE DEF V
<1>2. PICK f \in [0..n -> V] : f[0] = 0 /\ \A k \in 1..n : f[k] = G[k][f[k - 1]]
  <2> HIDE DEF G
  <2>1. \E f : Follows(f, G, n, 0, V)
    BY <1>1, Recursion
  <2> QED
    BY <2>1 DEF Follows
<1> USE DEF V
<1>3. \A k \in 1..n : f[k] = f[k - 1] * 10 + DigitOf(s[k])
  <2> SUFFICES ASSUME NEW k \in 1..n PROVE f[k] = f[k - 1] * 10 + DigitOf(s[k])
    OBVIOUS
  <2>1. f[k - 1] \in Nat
    BY <1>0
  <2> QED
    BY <1>2, <2>1
<1>4. R(f)
  BY <1>2, <1>3
<1>5. R(g)
  <2> HIDE DEF R
  <2> QED
    BY <1>4
<1> HIDE DEF g, G
<1>7. g[0] = 0 /\ \A k \in 1..n : g[k] = g[k - 1] * 10 + DigitOf(s[k])
  BY <1>0, <1>5
<1> HIDE DEF R
<1>8. \A k \in 0..n : f[k] = g[k]
  <2> DEFINE T == {k \in 0..n : f[k] = g[k]}
  <2>1. T \in SUBSET (0..n) /\ 0 \in T
    BY <1>0, <1>2, <1>7
  <2>2. \A k \in 1..n : k - 1 \in T => k \in T
    BY <1>3, <1>7
  <2>3. T = 0..n
    <3> HIDE DEF T
    <3> QED
      BY <1>0, <2>1, <2>2, InductionTo
  <2> QED
    BY <2>3
<1>9. Number(s) = f[n]
  BY <1>0, <1>6, <1>8
<1> QED
  BY <1>n, <1>2, <1>3, <1>9

\* Dividing by m and then by ten is dividing by ten times m.
LEMMA DividedTwice ==
    ASSUME NEW v \in Nat, NEW m \in Nat \ {0}
    PROVE  /\ v \div m \in Nat /\ v \div (10 * m) \in Nat /\ (v \div m) % 10 \in 0..9
           /\ v \div m = (v \div (10 * m)) * 10 + ((v \div m) % 10)
<1>1. (v \div m) \div 10 = v \div (10 * m)
  OBVIOUS
<1>2. v \div m \in Nat
  OBVIOUS
<1>3. \A q \in Nat : q \div 10 \in Nat /\ q % 10 \in 0..9 /\ q = (q \div 10) * 10 + (q % 10)
  OBVIOUS
<1> QED
  BY <1>1, <1>2, <1>3

\* The digits a number is written with.
LEMMA PaddedIs ==
    ASSUME NEW v \in Nat, NEW n \in Nat
    PROVE  /\ Padded(v, n) \in Seq(Digits) /\ Len(Padded(v, n)) = n
           /\ \A i \in 1..n : /\ DigitOf(Padded(v, n)[i]) = (v \div pow10(n - i)) % 10
                             /\ Padded(v, n)[i] \in Digits
<1>1. ASSUME NEW i \in 1..n
      PROVE  (v \div pow10(n - i)) % 10 \in 0..9
  <2>1. n - i \in Nat
    OBVIOUS
  <2>2. pow10(n - i) \in Nat \ {0}
    BY <2>1, Tens
  <2> QED
    BY <2>2, DividedTwice
<1>2. ASSUME NEW i \in 1..n
      PROVE  /\ DigitOf(Padded(v, n)[i]) = (v \div pow10(n - i)) % 10
             /\ Padded(v, n)[i] \in Digits
  BY <1>1, FigureIs DEF Padded
<1>3. Padded(v, n) \in [1..n -> Digits]
  BY <1>2 DEF Padded
<1> QED
  BY <1>2, <1>3

\* The first digits of a number read as the number without the others.
LEMMA NumberOfDigits ==
    ASSUME NEW v \in Nat, NEW n \in Nat, v < pow10(n), NEW s \in Seq(Digits), Len(s) <= n,
           \A i \in 1..Len(s) : s[i] = Padded(v, n)[i]
    PROVE  Number(s) = v \div pow10(n - Len(s))
<1>m. PICK m \in 0..n : m = Len(s)
  OBVIOUS
<1>1. PICK f \in [0..m -> Nat] :
         /\ f[0] = 0 /\ \A k \in 1..m : f[k] = f[k - 1] * 10 + DigitOf(s[k])
         /\ Number(s) = f[m]
  BY <1>m, NumberIs
<1> DEFINE T == {k \in 0..m : f[k] = v \div pow10(n - k)}
<1>2. 0 \in T
  <2>1. pow10(n) \in Nat \ {0}
    BY Tens
  <2>2. v \div pow10(n) = 0
    BY <2>1
  <2> QED
    BY <1>1, <2>2
<1>3. ASSUME NEW k \in 1..m, k - 1 \in T PROVE k \in T
  <2> DEFINE j == n - k
  <2>1. j \in Nat /\ n - (k - 1) = j + 1
    OBVIOUS
  <2>2. pow10(j) \in Nat \ {0} /\ pow10(j + 1) = 10 * pow10(j)
    BY <2>1, Tens
  <2>3. DigitOf(s[k]) = (v \div pow10(j)) % 10
    <3>1. k \in 1..n /\ k \in 1..Len(s)
      BY <1>m
    <3> QED
      BY <3>1, PaddedIs
  <2>4. f[k - 1] = v \div (10 * pow10(j))
    BY <1>3, <2>1, <2>2
  <2>5. f[k] = f[k - 1] * 10 + DigitOf(s[k])
    BY <1>1
  <2> HIDE DEF j
  <2>6. f[k] = v \div pow10(j)
    BY <2>2, <2>3, <2>4, <2>5, DividedTwice
  <2> QED
    BY <2>6 DEF j
<1>4. T = 0..m
  <2>1. T \in SUBSET (0..m) /\ m \in Nat
    OBVIOUS
  <2> HIDE DEF T
  <2> QED
    BY <1>2, <1>3, <2>1, InductionTo
<1>5. f[m] = v \div pow10(n - m)
  <2>1. m \in T
    <3> HIDE DEF T
    <3> QED
      BY <1>4
  <2> QED
    BY <2>1
<1> QED
  BY <1>m, <1>1, <1>5

\* How many digits are written: enough of them, and one for nothing.
LEMMA WidthIs ==
    ASSUME NEW v \in Nat
    PROVE  Width(v) \in Nat \ {0} /\ v < pow10(Width(v)) /\ (v = 0 => Width(v) = 1)
<1> DEFINE S == {n \in Nat : n # 0 /\ v < pow10(n)}
           R(p) == p = [n \in Nat \ {0} |-> IF v < pow10(n) THEN n ELSE p[n + 1]]
           g == CHOOSE p : R(p)
<1>1. v + 1 \in S
  <2>1. v + 1 < pow10(v + 1) /\ pow10(v + 1) \in Nat
    BY Tens, TensGrow
  <2> QED
    BY <2>1
<1>2. PICK m \in S : \A n \in S : m <= n
  <2>1. S \in SUBSET Nat /\ S # {}
    BY <1>1
  <2> HIDE DEF S
  <2> QED
    BY <2>1, Least
<1>3. \A n \in Nat \ {0} : v < pow10(n) <=> m <= n
  <2> SUFFICES ASSUME NEW n \in Nat \ {0} PROVE v < pow10(n) <=> m <= n
    OBVIOUS
  <2>1. v < pow10(n) => m <= n
    BY <1>2
  <2>2. ASSUME m <= n PROVE v < pow10(n)
    <3>1. m \in 0..n /\ v < pow10(m) /\ pow10(m) \in Nat /\ pow10(n) \in Nat
      BY <2>2, Tens
    <3>2. pow10(m) <= pow10(n)
      BY <3>1, TensGrow
    <3> QED
      BY <3>1, <3>2
  <2> QED
    BY <2>1, <2>2
<1>4. R([n \in Nat \ {0} |-> IF n <= m THEN m ELSE n])
  <2> DEFINE h == [n \in Nat \ {0} |-> IF n <= m THEN m ELSE n]
  <2>1. ASSUME NEW n \in Nat \ {0} PROVE h[n] = IF m <= n THEN n ELSE h[n + 1]
    <3>1. m \in Nat /\ n + 1 \in Nat \ {0}
      OBVIOUS
    <3>2. h[n] = (IF n <= m THEN m ELSE n) /\ h[n + 1] = IF n + 1 <= m THEN m ELSE n + 1
      BY <3>1
    <3> HIDE DEF h
    <3> QED
      BY <3>1, <3>2
  <2>2. \A n \in Nat \ {0} : h[n] = IF v < pow10(n) THEN n ELSE h[n + 1]
    BY <1>3, <2>1
  <2> QED
    BY <2>2
<1>5. R(g)
  <2> HIDE DEF R
  <2> QED
    BY <1>4
<1>6. Width(v) = g[1]
  BY DEF Width
<1>7. m \in Nat \ {0} /\ v < pow10(m)
  OBVIOUS
<1> HIDE DEF g, S
<1>8. \A n \in Nat \ {0} : g[n] = IF m <= n THEN n ELSE g[n + 1]
  BY <1>3, <1>5
<1>9. g[1] = m
  <2>0. PICK l \in Nat : l = m - 1
    BY <1>7
  <2> DEFINE T == {j \in 0..l : g[m - j] = m}
  <2>1. T \in SUBSET (0..l) /\ 0 \in T
    BY <1>7, <1>8
  <2>2. ASSUME NEW j \in 1..l, j - 1 \in T PROVE j \in T
    <3>1. m - j \in Nat \ {0} /\ ~(m <= m - j) /\ (m - j) + 1 = m - (j - 1)
      BY <1>7, <2>0
    <3>2. g[m - j] = g[(m - j) + 1]
      BY <1>8, <3>1
    <3> QED
      BY <2>2, <3>1, <3>2
  <2>3. T = 0..l
    <3> HIDE DEF T
    <3> QED
      BY <2>1, <2>2, InductionTo
  <2>4. l \in T
    <3> HIDE DEF T
    <3> QED
      BY <2>3
  <2>5. m - l = 1
    BY <1>7, <2>0
  <2> QED
    BY <2>4, <2>5
<1>10. v = 0 => m = 1
  <2>1. pow10(1) = 10
    <3>1. 0 \in Nat /\ 0 + 1 = 1
      OBVIOUS
    <3> QED
      BY <3>1, Tens
  <2>2. v = 0 => m <= 1
    BY <1>3, <2>1
  <2> QED
    BY <1>7, <2>2
<1> QED
  BY <1>6, <1>7, <1>9, <1>10

---------------------------------------------------------------------------
(* Texts.                                                                  *)

\* f makes up the text s without the marks, one character after the other.
Strips(f, s, n, marks) == f[0] = <<>> /\ \A k \in 1..n : f[k] = Keep(f[k - 1], s[k], marks)

\* A text that a character is added to, or not, is a text.
LEMMA KeepType ==
    ASSUME NEW C, NEW s \in Seq(C), NEW c \in C, NEW marks
    PROVE  Keep(s, c, marks) \in Seq(C)
  BY DEF Keep

\* There is one such function.
LEMMA WithoutIs ==
    ASSUME NEW C, NEW s \in Seq(C), NEW marks
    PROVE  \E f : /\ f \in [0..Len(s) -> Seq(C)] /\ Strips(f, s, Len(s), marks)
                  /\ Without(s, marks) = f[Len(s)]
<1>n. PICK n \in Nat : n = Len(s)
  OBVIOUS
<1> DEFINE R(p) == p = [k \in 0..n |-> IF k = 0 THEN <<>> ELSE Keep(p[k - 1], s[k], marks)]
           g == CHOOSE p : R(p)
           V == Seq(C)
           G == [k \in 1..n |-> [v \in V |-> Keep(v, s[k], marks)]]
<1>0. \A k \in 1..n : s[k] \in C
  BY <1>n
<1>1. Stays(G, n, V) /\ <<>> \in V
  <2>1. \A k \in 1..n : \A v \in V : Keep(v, s[k], marks) \in V
    BY <1>0, KeepType
  <2> QED
    BY <2>1 DEF Stays
<1>6. Without(s, marks) = g[n]
  BY <1>n DEF Without
<1> HIDE DEF V
<1>2. PICK f \in [0..n -> V] : f[0] = <<>> /\ \A k \in 1..n : f[k] = G[k][f[k - 1]]
  <2> HIDE DEF G
  <2>1. \E f : Follows(f, G, n, <<>>, V)
    BY <1>1, Recursion
  <2> QED
    BY <2>1 DEF Follows
<1>3. \A k \in 1..n : f[k] = Keep(f[k - 1], s[k], marks)
  <2> SUFFICES ASSUME NEW k \in 1..n PROVE f[k] = Keep(f[k - 1], s[k], marks)
    OBVIOUS
  <2>1. f[k - 1] \in V
    OBVIOUS
  <2> QED
    BY <1>2, <2>1
<1>4. R(f)
  BY <1>2, <1>3
<1>5. R(g)
  <2> HIDE DEF R
  <2> QED
    BY <1>4
<1> HIDE DEF g, G
<1>7. g[0] = <<>> /\ \A k \in 1..n : g[k] = Keep(g[k - 1], s[k], marks)
  BY <1>5
<1> HIDE DEF R
<1>8. \A k \in 0..n : f[k] = g[k]
  <2> DEFINE T == {k \in 0..n : f[k] = g[k]}
  <2>1. T \in SUBSET (0..n) /\ 0 \in T
    BY <1>2, <1>7
  <2>2. \A k \in 1..n : k - 1 \in T => k \in T
    BY <1>3, <1>7
  <2>3. T = 0..n
    <3> HIDE DEF T
    <3> QED
      BY <2>1, <2>2, InductionTo
  <2> QED
    BY <2>3
<1>9. Without(s, marks) = f[n]
  BY <1>6, <1>8
<1>10. Strips(f, s, n, marks)
  BY <1>2, <1>3 DEF Strips
<1> QED
  BY <1>n, <1>9, <1>10 DEF V

\* One character more.
LEMMA WithoutMore ==
    ASSUME NEW C, NEW s \in Seq(C), NEW c \in C, NEW marks
    PROVE  /\ Without(s, marks) \in Seq(C)
           /\ Without(Append(s, c), marks) = Keep(Without(s, marks), c, marks)
<1>n. PICK n \in Nat : n = Len(s)
  OBVIOUS
<1> DEFINE t == Append(s, c)
<1>1. PICK f : /\ f \in [0..n -> Seq(C)] /\ Strips(f, s, n, marks)
               /\ Without(s, marks) = f[n]
  BY <1>n, WithoutIs
<1>3. t \in Seq(C) /\ Len(t) = n + 1 /\ t[n + 1] = c /\ \A k \in 1..n : t[k] = s[k]
  BY <1>n
<1> HIDE DEF t
<1>4. PICK h : /\ h \in [0..n + 1 -> Seq(C)] /\ Strips(h, t, n + 1, marks)
               /\ Without(t, marks) = h[n + 1]
  <2>1. \E h : /\ h \in [0..Len(t) -> Seq(C)] /\ Strips(h, t, Len(t), marks)
               /\ Without(t, marks) = h[Len(t)]
    BY <1>3, WithoutIs
  <2> QED
    BY <1>3, <2>1
<1> DEFINE T == {k \in 0..n : h[k] = f[k]}
<1>5. T \in SUBSET (0..n) /\ 0 \in T
  BY <1>1, <1>4 DEF Strips
<1>6. ASSUME NEW k \in 1..n, k - 1 \in T PROVE k \in T
  <2>1. k \in 1..n + 1
    OBVIOUS
  <2>2. h[k] = Keep(h[k - 1], t[k], marks)
    BY <1>4, <2>1 DEF Strips
  <2>3. f[k] = Keep(f[k - 1], s[k], marks)
    BY <1>1 DEF Strips
  <2> QED
    BY <1>3, <1>6, <2>2, <2>3
<1>7. n \in T
  <2> HIDE DEF T
  <2>1. T = 0..n
    BY <1>5, <1>6, InductionTo
  <2> QED
    BY <2>1
<1>8. h[n + 1] = Keep(h[n], t[n + 1], marks)
  <2>1. n + 1 \in 1..n + 1 /\ (n + 1) - 1 = n
    OBVIOUS
  <2> QED
    BY <1>4, <2>1 DEF Strips
<1> QED
  BY <1>1, <1>3, <1>4, <1>7, <1>8 DEF t

\* What is no mark is kept.
LEMMA WithoutUnmarked ==
    ASSUME NEW C, NEW s \in Seq(C), NEW c \in C, NEW marks, c \notin marks
    PROVE  Without(Append(s, c), marks) = Append(Without(s, marks), c)
  BY WithoutMore DEF Keep

\* A sequence that an element is added to.
LEMMA AppendType ==
    ASSUME NEW C, NEW s \in Seq(C), NEW c \in C
    PROVE  Append(s, c) \in Seq(C)
  OBVIOUS

\* Of nothing, nothing is left.
LEMMA WithoutNone == ASSUME NEW marks PROVE Without(<<>>, marks) = <<>>
<1> DEFINE s == <<>>
<1>1. s \in Seq({}) /\ Len(s) = 0
  OBVIOUS
<1> HIDE DEF s
<1>2. PICK f : Strips(f, s, Len(s), marks) /\ Without(s, marks) = f[Len(s)]
  BY <1>1, WithoutIs
<1> QED
  BY <1>1, <1>2 DEF Strips, s

\* What has no mark is left as it is.
LEMMA WithoutJoined ==
    ASSUME NEW C, NEW s \in Seq(C), NEW t \in Seq(C), NEW marks, \A i \in 1..Len(t) : t[i] \notin marks
    PROVE  Without(s \o t, marks) = Without(s, marks) \o t
<1>n. PICK n \in Nat : n = Len(t)
  OBVIOUS
<1>0. Without(s, marks) \in Seq(C)
  BY WithoutIs
<1> DEFINE T == {k \in 0..n : Without(s \o SubSeq(t, 1, k), marks) = Without(s, marks) \o SubSeq(t, 1, k)}
<1>1. 0 \in T
  <2>1. SubSeq(t, 1, 0) = <<>>
    OBVIOUS
  <2>2. s \o <<>> = s /\ Without(s, marks) \o <<>> = Without(s, marks)
    BY <1>0
  <2>3. Without(s \o SubSeq(t, 1, 0), marks) = Without(s, marks) \o SubSeq(t, 1, 0)
    BY <2>1, <2>2
  <2> QED
    BY <2>3
<1>2. ASSUME NEW k \in 1..n, k - 1 \in T PROVE k \in T
  <2> DEFINE a == SubSeq(t, 1, k - 1)
  <2>1. a \in Seq(C) /\ t[k] \in C /\ t[k] \notin marks /\ SubSeq(t, 1, k) = Append(a, t[k])
    BY <1>n
  <2>2. Without(s \o a, marks) = Without(s, marks) \o a
    BY <1>2
  <2> HIDE DEF a
  <2>3. s \o Append(a, t[k]) = Append(s \o a, t[k]) /\ s \o a \in Seq(C)
    BY <2>1
  <2>4. Without(s, marks) \o Append(a, t[k]) = Append(Without(s, marks) \o a, t[k])
    BY <1>0, <2>1
  <2>5. Without(Append(s \o a, t[k]), marks) = Keep(Without(s \o a, marks), t[k], marks)
    <3> DEFINE b == s \o a
    <3>1. b \in Seq(C)
      BY <2>3
    <3> HIDE DEF b
    <3>2. Without(Append(b, t[k]), marks) = Keep(Without(b, marks), t[k], marks)
      BY <2>1, <3>1, WithoutMore
    <3> QED
      BY <3>2 DEF b
  <2>6. Without(Append(s \o a, t[k]), marks) = Append(Without(s \o a, marks), t[k])
    BY <2>1, <2>5 DEF Keep
  <2>7. Without(s \o SubSeq(t, 1, k), marks) = Without(s, marks) \o SubSeq(t, 1, k)
    BY <2>1, <2>2, <2>3, <2>4, <2>6
  <2> QED
    BY <2>7
<1>3. n \in T
  <2>1. T \in SUBSET (0..n)
    OBVIOUS
  <2> HIDE DEF T
  <2>2. T = 0..n
    BY <1>1, <1>2, <2>1, InductionTo
  <2> QED
    BY <2>2
<1>4. SubSeq(t, 1, n) = t
  BY <1>n
<1> QED
  BY <1>3, <1>4

\* A grouped number is made of digits and commas.
Grouping == Digits \cup {Comma}

\* f writes the digits d out with commas between.
Groups(f, d, n) == f[0] = <<>> /\ \A k \in 1..n : f[k] = Push(f[k - 1], d[k], k - 1, n)

\* A digit more, with a comma before it or not.
LEMMA PushType ==
    ASSUME NEW s \in Seq(Grouping), NEW c \in Digits, NEW i, NEW n
    PROVE  Push(s, c, i, n) \in Seq(Grouping)
<1>1. c \in Grouping /\ Comma \in Grouping
  BY DEF Grouping
<1>2. Append(s, Comma) \in Seq(Grouping)
  BY <1>1
<1> QED
  BY <1>1, <1>2 DEF Push

\* There is one function that groups digits from the left.
LEMMA GroupsExist ==
    ASSUME NEW d \in Seq(Digits)
    PROVE  \E f : /\ f \in [0..Len(d) -> Seq(Grouping)] /\ Groups(f, d, Len(d))
                  /\ Grouped(d) = f[Len(d)]
<1>n. PICK n \in Nat : n = Len(d)
  OBVIOUS
<1> DEFINE R(p) == p = [k \in 0..n |-> IF k = 0 THEN <<>> ELSE Push(p[k - 1], d[k], k - 1, n)]
           g == CHOOSE p : R(p)
           V == Seq(Grouping)
           G == [k \in 1..n |-> [v \in V |-> Push(v, d[k], k - 1, n)]]
<1>0. \A k \in 1..n : d[k] \in Digits
  BY <1>n
<1>1. Stays(G, n, V) /\ <<>> \in V
  <2>1. \A k \in 1..n : \A v \in V : Push(v, d[k], k - 1, n) \in V
    BY <1>0, PushType
  <2> QED
    BY <2>1 DEF Stays
<1>6. Grouped(d) = g[n]
  BY <1>n DEF Grouped
<1> HIDE DEF V
<1>2. PICK f \in [0..n -> V] : f[0] = <<>> /\ \A k \in 1..n : f[k] = G[k][f[k - 1]]
  <2> HIDE DEF G
  <2>1. \E f : Follows(f, G, n, <<>>, V)
    BY <1>1, Recursion
  <2> QED
    BY <2>1 DEF Follows
<1>3. \A k \in 1..n : f[k] = Push(f[k - 1], d[k], k - 1, n)
  <2> SUFFICES ASSUME NEW k \in 1..n PROVE f[k] = Push(f[k - 1], d[k], k - 1, n)
    OBVIOUS
  <2>1. f[k - 1] \in V
    OBVIOUS
  <2> QED
    BY <1>2, <2>1
<1>4. R(f)
  BY <1>2, <1>3
<1>5. R(g)
  <2> HIDE DEF R
  <2> QED
    BY <1>4
<1> HIDE DEF g, G
<1>7. g[0] = <<>> /\ \A k \in 1..n : g[k] = Push(g[k - 1], d[k], k - 1, n)
  BY <1>5
<1> HIDE DEF R
<1>8. \A k \in 0..n : f[k] = g[k]
  <2> DEFINE T == {k \in 0..n : f[k] = g[k]}
  <2>1. T \in SUBSET (0..n) /\ 0 \in T
    BY <1>2, <1>7
  <2>2. \A k \in 1..n : k - 1 \in T => k \in T
    BY <1>3, <1>7
  <2>3. T = 0..n
    <3> HIDE DEF T
    <3> QED
      BY <2>1, <2>2, InductionTo
  <2> QED
    BY <2>3
<1>9. Grouped(d) = f[n]
  BY <1>6, <1>8
<1>10. Groups(f, d, n)
  BY <1>2, <1>3 DEF Groups
<1> QED
  BY <1>n, <1>9, <1>10 DEF V

\* The commas out, the digits are left.
LEMMA GroupedIs ==
    ASSUME NEW d \in Seq(Digits), NEW marks, Comma \in marks, marks \subseteq Marks
    PROVE  Grouped(d) \in Seq(Grouping) /\ Without(Grouped(d), marks) = d
<1>n. PICK n \in Nat : n = Len(d)
  OBVIOUS
<1>1. PICK f : /\ f \in [0..n -> Seq(Grouping)] /\ Groups(f, d, n)
               /\ Grouped(d) = f[n]
  BY <1>n, GroupsExist
<1>2. \A c \in Digits : c \notin marks
  BY FiguresAre, FigureIs
<1> DEFINE T == {k \in 0..n : Without(f[k], marks) = SubSeq(d, 1, k)}
<1>3. 0 \in T
  <2>1. SubSeq(d, 1, 0) = <<>> /\ f[0] = <<>>
    BY <1>1 DEF Groups
  <2>2. Without(f[0], marks) = SubSeq(d, 1, 0)
    BY <2>1, WithoutNone
  <2> QED
    BY <2>2
<1>4. ASSUME NEW k \in 1..n, k - 1 \in T PROVE k \in T
  <2>1. PICK s \in Seq(Grouping) : s = f[k - 1]
    BY <1>1
  <2>2. PICK c \in Digits : c = d[k]
    BY <1>n
  <2>3. f[k] = Push(s, c, k - 1, n)
    BY <1>1, <2>1, <2>2 DEF Groups
  <2>4. c \in Grouping /\ Comma \in Grouping /\ c \notin marks
    BY <1>2 DEF Grouping
  <2>5. PICK t \in Seq(Grouping) : t = Append(s, Comma)
    <3>1. Append(s, Comma) \in Seq(Grouping)
      BY <2>4, AppendType
    <3> QED
      BY <3>1
  <2>6. Without(t, marks) = Without(s, marks)
    BY <2>4, <2>5, WithoutMore DEF Keep
  <2>7. /\ Without(Append(t, c), marks) = Append(Without(t, marks), c)
        /\ Without(Append(s, c), marks) = Append(Without(s, marks), c)
    BY <2>4, WithoutUnmarked
  <2>8. f[k] = Append(t, c) \/ f[k] = Append(s, c)
    BY <2>3, <2>5 DEF Push
  <2>9. Without(f[k], marks) = Append(Without(s, marks), c)
    BY <2>6, <2>7, <2>8
  <2>10. SubSeq(d, 1, k) = Append(SubSeq(d, 1, k - 1), c)
    BY <1>n, <2>2
  <2>11. Without(s, marks) = SubSeq(d, 1, k - 1)
    BY <1>4, <2>1
  <2>12. Without(f[k], marks) = SubSeq(d, 1, k)
    BY <2>9, <2>10, <2>11
  <2> QED
    BY <2>12
<1>5. n \in T
  <2>1. T \in SUBSET (0..n)
    OBVIOUS
  <2> HIDE DEF T
  <2>2. T = 0..n
    BY <1>3, <1>4, <2>1, InductionTo
  <2> QED
    BY <2>2
<1>6. SubSeq(d, 1, n) = d
  BY <1>n
<1> QED
  BY <1>1, <1>5, <1>6

---------------------------------------------------------------------------
(* Digits by their places.                                                 *)

\* A power of ten times another.
LEMMA TensAdd ==
    ASSUME NEW m \in Nat, NEW n \in Nat
    PROVE  pow10(m + n) = pow10(m) * pow10(n)
<1> DEFINE T == {k \in Nat : pow10(m + k) = pow10(m) * pow10(k)}
<1>1. 0 \in T
  BY Tens
<1>2. ASSUME NEW k \in T PROVE k + 1 \in T
  <2>1. m + k \in Nat /\ k \in Nat /\ k + 1 \in Nat /\ m + (k + 1) = (m + k) + 1
    OBVIOUS
  <2>2. pow10(m + (k + 1)) = 10 * pow10(m + k)
    BY <2>1, Tens
  <2>3. pow10(k + 1) = 10 * pow10(k) /\ pow10(k) \in Nat /\ pow10(m) \in Nat
    BY <2>1, Tens
  <2>4. pow10(m + k) = pow10(m) * pow10(k)
    OBVIOUS
  <2>5. 10 * (pow10(m) * pow10(k)) = pow10(m) * (10 * pow10(k))
    BY <2>3
  <2> QED
    BY <2>1, <2>2, <2>3, <2>4, <2>5
<1>3. T = Nat
  <2>1. T \in SUBSET Nat
    OBVIOUS
  <2> HIDE DEF T
  <2> QED
    BY <1>1, <1>2, <2>1, Induction
<1>4. n \in T
  <2> HIDE DEF T
  <2> QED
    BY <1>3
<1> QED
  BY <1>4

\* The figure of nothing is "0", and no other.
LEMMA DigitZero == "0" \in Digits /\ DigitOf("0") = 0 /\ \A c \in Digits : DigitOf(c) = 0 => c = "0"
<1>1. Figure[0 + 1] = "0"
  BY DEF Figure
<1>2. 0 \in 0..9
  OBVIOUS
<1>3. Figure[0 + 1] \in Digits /\ DigitOf(Figure[0 + 1]) = 0
  BY <1>2, FigureIs
<1>4. ASSUME NEW c \in Digits, DigitOf(c) = 0 PROVE c = "0"
  <2>1. c = Figure[DigitOf(c) + 1]
    BY FiguresAre
  <2> QED
    BY <1>1, <1>4, <2>1
<1> QED
  BY <1>1, <1>3, <1>4

\* Every place of a number holds a figure.
LEMMA DigitIs == ASSUME NEW s \in Seq(Digits), NEW i \in 1..Len(s) PROVE s[i] \in Digits /\ DigitOf(s[i]) \in 0..9
<1>1. s[i] \in Digits
  OBVIOUS
<1> QED
  BY <1>1, FiguresAre

\* A sum up to k is the k-th, and the sum before it.
LEMMA SumUpTo ==
    ASSUME NEW n \in Nat, NEW w \in [1..n -> Nat]
    PROVE  /\ SumFunctionOnSet(w, 1..0) = 0
           /\ \A k \in 1..n : SumFunctionOnSet(w, 1..k) = w[k] + SumFunctionOnSet(w, 1..k - 1)
<1>1. IsFiniteSet(1..n)
  BY FS_Interval
<1>2. 1..0 = {}
  OBVIOUS
<1>3. ASSUME NEW k \in 1..n
      PROVE  SumFunctionOnSet(w, 1..k) = w[k] + SumFunctionOnSet(w, 1..k - 1)
  <2> DEFINE S == 1..k
  <2>1. S \in SUBSET (1..n) /\ k \in S /\ S \ {k} = 1..k - 1
    OBVIOUS
  <2> HIDE DEF S
  <2>2. SumFunctionOnSet(w, S) = w[k] + SumFunctionOnSet(w, S \ {k})
    BY <1>1, <2>1, SumLess
  <2> QED
    BY <2>1, <2>2 DEF S
<1> QED
  BY <1>1, <1>2, <1>3, SumEmpty

\* Digits taken each by its place are the number they read as, moved up.
LEMMA ByPlaceIs ==
    ASSUME NEW s \in Seq(Digits), NEW e \in Nat, Len(s) <= e
    PROVE  ByPlace(s, e) = Number(s) * pow10(e - Len(s)) /\ Number(s) \in Nat
<1>n. PICK n \in Nat : n = Len(s) /\ n <= e
  OBVIOUS
<1>1. PICK f \in [0..n -> Nat] :
         /\ f[0] = 0 /\ \A k \in 1..n : f[k] = f[k - 1] * 10 + DigitOf(s[k])
         /\ Number(s) = f[n]
  BY <1>n, NumberIs
<1> DEFINE w == [i \in 1..n |-> DigitOf(s[i]) * pow10(e - i)]
<1>2. ByPlace(s, e) = SumFunctionOnSet(w, 1..n)
  <2>1. DOMAIN s = 1..n /\ DOMAIN w = 1..n
    BY <1>n
  <2>2. ByPlace(s, e) = SumFunction(w)
    BY <2>1 DEF ByPlace
  <2> HIDE DEF w
  <2> QED
    BY <2>1, <2>2 DEF SumFunction
<1>3. ASSUME NEW i \in 1..n PROVE DigitOf(s[i]) \in Nat
  <2>1. s[i] \in Digits
    BY <1>n
  <2>2. DigitOf(s[i]) \in 0..9
    BY <2>1, FiguresAre
  <2> QED
    BY <2>2
<1>10. ASSUME NEW i \in 1..n PROVE e - i \in Nat /\ pow10(e - i) \in Nat
  <2>1. e - i \in Nat
    BY <1>n
  <2> QED
    BY <2>1, Tens
<1>4. w \in [1..n -> Nat] /\ \A i \in 1..n : w[i] = DigitOf(s[i]) * pow10(e - i)
  <2>1. \A a, b \in Nat : a * b \in Nat
    OBVIOUS
  <2>2. ASSUME NEW i \in 1..n PROVE DigitOf(s[i]) * pow10(e - i) \in Nat
    <3>1. DigitOf(s[i]) \in Nat /\ pow10(e - i) \in Nat
      BY <1>3, <1>10
    <3> QED
      BY <2>1, <3>1
  <2> QED
    BY <2>2
<1> HIDE DEF w
<1> DEFINE T == {k \in 0..n : SumFunctionOnSet(w, 1..k) = f[k] * pow10(e - k)}
<1>6. 0 \in T
  <2>1. 1..0 = {} /\ f[0] = 0 /\ pow10(e) \in Nat /\ e - 0 = e
    BY <1>1, Tens
  <2>2. SumFunctionOnSet(w, 1..0) = 0
    BY <1>4, SumUpTo
  <2> QED
    BY <2>1, <2>2
<1>7. ASSUME NEW k \in 1..n, k - 1 \in T PROVE k \in T
  <2>1. SumFunctionOnSet(w, 1..k) = w[k] + SumFunctionOnSet(w, 1..k - 1)
    BY <1>4, SumUpTo
  <2>3. PICK j \in Nat : j = e - k /\ e - (k - 1) = j + 1
    BY <1>10
  <2>4. pow10(j + 1) = 10 * pow10(j) /\ pow10(j) \in Nat
    BY Tens
  <2>5. SumFunctionOnSet(w, 1..k - 1) = f[k - 1] * (10 * pow10(j))
    BY <1>7, <2>3, <2>4
  <2>6. w[k] = DigitOf(s[k]) * pow10(j)
    BY <1>4, <2>3
  <2>12. DigitOf(s[k]) \in Nat
    BY <1>3
  <2>7. f[k] = f[k - 1] * 10 + DigitOf(s[k]) /\ f[k - 1] \in Nat
    BY <1>1
  <2>8. \A a, d, p \in Nat : d * p + a * (10 * p) = (a * 10 + d) * p
    OBVIOUS
  <2>9. SumFunctionOnSet(w, 1..k)
          = DigitOf(s[k]) * pow10(j) + f[k - 1] * (10 * pow10(j))
    BY <2>1, <2>5, <2>6
  <2>10. SumFunctionOnSet(w, 1..k) = (f[k - 1] * 10 + DigitOf(s[k])) * pow10(j)
    <3>1. DigitOf(s[k]) \in Nat /\ pow10(j) \in Nat /\ f[k - 1] \in Nat
      BY <2>4, <2>7, <2>12
    <3> QED
      BY <2>8, <2>9, <3>1
  <2>11. SumFunctionOnSet(w, 1..k) = f[k] * pow10(e - k)
    BY <2>3, <2>7, <2>10
  <2> QED
    BY <2>11
<1>8. n \in T
  <2>1. T \in SUBSET (0..n) /\ n \in Nat
    OBVIOUS
  <2> HIDE DEF T
  <2>2. T = 0..n
    BY <1>6, <1>7, <2>1, InductionTo
  <2> QED
    BY <2>1, <2>2
<1>9. SumFunctionOnSet(w, 1..n) = f[n] * pow10(e - n)
  BY <1>8
<1> QED
  BY <1>n, <1>1, <1>2, <1>9

ZerosFrom(s, m) == \A i \in m + 1 .. Len(s) : s[i] = "0"

\* Digits that end in zeros are the digits before them, moved up.
LEMMA TrailingZeros ==
    ASSUME NEW n \in Nat, NEW m \in 0..n, NEW s \in Seq(Digits), Len(s) = n, ZerosFrom(s, m)
    PROVE  /\ SubSeq(s, 1, m) \in Seq(Digits) /\ Len(SubSeq(s, 1, m)) = m
           /\ Number(s) = Number(SubSeq(s, 1, m)) * pow10(n - m)
<1>1. PICK f \in [0..n -> Nat] :
         /\ f[0] = 0 /\ \A k \in 1..n : f[k] = f[k - 1] * 10 + DigitOf(s[k])
         /\ Number(s) = f[n]
  BY NumberIs
<1>2. PICK t \in Seq(Digits) : t = SubSeq(s, 1, m) /\ Len(t) = m /\ \A i \in 1..m : t[i] = s[i]
  OBVIOUS
<1>3. PICK g \in [0..m -> Nat] :
         /\ g[0] = 0 /\ \A k \in 1..m : g[k] = g[k - 1] * 10 + DigitOf(t[k])
         /\ Number(t) = g[m]
  <2>1. \E g \in [0..Len(t) -> Nat] :
           /\ g[0] = 0 /\ \A k \in 1..Len(t) : g[k] = g[k - 1] * 10 + DigitOf(t[k])
           /\ Number(t) = g[Len(t)]
    BY NumberIs
  <2> QED
    BY <1>2, <2>1
<1>4. g[m] = f[m]
  <2> DEFINE T == {k \in 0..m : g[k] = f[k]}
  <2>1. T \in SUBSET (0..m) /\ 0 \in T /\ m \in Nat
    BY <1>1, <1>3
  <2>2. ASSUME NEW k \in 1..m, k - 1 \in T PROVE k \in T
    <3>1. k \in 1..n /\ t[k] = s[k]
      BY <1>2
    <3>2. f[k] = f[k - 1] * 10 + DigitOf(s[k]) /\ g[k] = g[k - 1] * 10 + DigitOf(t[k])
      BY <1>1, <1>3, <3>1
    <3>3. g[k] = f[k]
      BY <2>2, <3>1, <3>2
    <3> QED
      BY <3>3
  <2>3. m \in T
    <3> HIDE DEF T
    <3>1. T = 0..m
      BY <2>1, <2>2, InductionTo
    <3> QED
      BY <2>1, <3>1
  <2> QED
    BY <2>3
<1>5. PICK l \in Nat : l = n - m
  OBVIOUS
<1> DEFINE S == {j \in 0..l : f[m + j] = f[m] * pow10(j)}
<1>6. 0 \in S
  <2>0. 0 \in Nat
    OBVIOUS
  <2>1. pow10(0) = 1 /\ f[m] \in Nat /\ m + 0 = m
    BY <2>0, Tens
  <2> QED
    BY <2>1
<1>7. ASSUME NEW j \in 1..l, j - 1 \in S PROVE j \in S
  <2>1. PICK i \in Nat : i = j - 1
    OBVIOUS
  <2>2. m + j \in 1..n /\ m + j \in m + 1 .. n /\ (m + j) - 1 = m + i /\ i + 1 = j
    BY <1>5, <2>1
  <2>3. s[m + j] = "0"
    BY <2>2 DEF ZerosFrom
  <2>4. DigitOf(s[m + j]) = 0
    BY <2>3, DigitZero
  <2>5. f[m + j] = f[m + i] * 10 + DigitOf(s[m + j])
    BY <1>1, <2>2
  <2>6. f[m + i] = f[m] * pow10(i)
    BY <1>7, <2>1
  <2>7. pow10(j) = 10 * pow10(i) /\ pow10(i) \in Nat /\ f[m] \in Nat
    BY <2>2, Tens
  <2>8. \A a, p \in Nat : (a * p) * 10 + 0 = a * (10 * p)
    OBVIOUS
  <2>9. f[m + j] = f[m] * pow10(j)
    <3>1. f[m + j] = (f[m] * pow10(i)) * 10 + 0
      BY <2>4, <2>5, <2>6
    <3> QED
      BY <2>7, <2>8, <3>1
  <2> QED
    BY <2>9
<1>8. f[m + l] = f[m] * pow10(l)
  <2>1. S \in SUBSET (0..l)
    OBVIOUS
  <2>2. l \in S
    <3> HIDE DEF S
    <3>1. S = 0..l
      BY <1>6, <1>7, <2>1, InductionTo
    <3> QED
      BY <3>1
  <2> QED
    BY <2>2
<1>9. m + l = n
  BY <1>5
<1> QED
  BY <1>1, <1>2, <1>3, <1>4, <1>5, <1>8, <1>9

---------------------------------------------------------------------------
(* The two parts of a written number.                                      *)

\* t is a, of m elements, and then b, of n; t is n elements of a after the first m.
Joins(t, a, m, b, n) == /\ t = a \o b /\ Len(t) = m + n
                        /\ \A i \in 1..m : t[i] = a[i]
                        /\ \A i \in 1..n : t[m + i] = b[i]
Cuts(t, a, m, n)     == /\ t = SubSeq(a, m + 1, m + n) /\ Len(t) = n
                        /\ \A i \in 1..n : t[i] = a[m + i]
Same(a, b, n)        == Len(a) = n /\ Len(b) = n /\ \A i \in 1..n : a[i] = b[i]

\* What a sequence after another is.
LEMMA JoinIs ==
    ASSUME NEW C, NEW a \in Seq(C), NEW b \in Seq(C), NEW m, NEW n, m = Len(a), n = Len(b)
    PROVE  a \o b \in Seq(C) /\ Joins(a \o b, a, m, b, n)
<1>1. a \o b \in Seq(C) /\ Len(a \o b) = m + n
  OBVIOUS
<1>2. \A i \in 1..m : (a \o b)[i] = a[i]
  OBVIOUS
<1>3. \A i \in 1..n : (a \o b)[m + i] = b[i]
  OBVIOUS
<1> QED
  BY <1>1, <1>2, <1>3 DEF Joins

\* What a part of a sequence is.
LEMMA CutIs ==
    ASSUME NEW C, NEW a \in Seq(C), NEW m \in Nat, NEW n \in Nat, m + n <= Len(a)
    PROVE  SubSeq(a, m + 1, m + n) \in Seq(C) /\ Cuts(SubSeq(a, m + 1, m + n), a, m, n)
<1>1. SubSeq(a, m + 1, m + n) \in Seq(C) /\ Len(SubSeq(a, m + 1, m + n)) = n
  OBVIOUS
<1>2. \A i \in 1..n : SubSeq(a, m + 1, m + n)[i] = a[m + i]
  OBVIOUS
<1> QED
  BY <1>1, <1>2 DEF Cuts

\* Sequences of the same elements are the same.
LEMMA SameIs ==
    ASSUME NEW C, NEW a \in Seq(C), NEW b \in Seq(C), NEW n, Same(a, b, n)
    PROVE  a = b
  BY SeqEqual DEF Same

\* The point, as a text.
LEMMA PointIs ==
    ASSUME NEW C
    PROVE  <<".">> \in Seq(C \cup {"."}) /\ Len(<<".">>) = 1 /\ <<".">>[1] = "."
  OBVIOUS

\* A number and a fraction with a point between them.
LEMMA PartsAre ==
    ASSUME NEW a \in Seq(Digits), NEW b \in Seq(Digits)
    PROVE  /\ IntPart(a) = a /\ FracPart(a) = <<>>
           /\ IntPart(a \o (<<".">> \o b)) = a /\ FracPart(a \o (<<".">> \o b)) = b
<1>0. \A c \in Digits : c # "."
  BY FiguresAre, FigureIs DEF Marks
<1>n. PICK m \in Nat, n \in Nat : m = Len(a) /\ n = Len(b)
  OBVIOUS
<1>1. Points(a) = {}
  BY <1>0, <1>n DEF Points
<1> DEFINE C == Digits \cup {"."}
<1>2. a \in Seq(C) /\ b \in Seq(C) /\ <<".">> \in Seq(C)
  OBVIOUS
<1>3. PICK u \in Seq(C) : Joins(u, <<".">>, 1, b, n) /\ u[1] = "."
  <2> DEFINE p == <<".">>
  <2>1. p \in Seq(C) /\ Len(p) = 1 /\ p[1] = "."
    BY PointIs
  <2> HIDE DEF C, p
  <2>2. p \o b \in Seq(C) /\ Joins(p \o b, p, 1, b, n)
    BY <1>2, <1>n, <2>1, JoinIs
  <2>3. (p \o b)[1] = "."
    BY <2>1, <2>2 DEF Joins
  <2> QED
    BY <2>2, <2>3 DEF p
<1>4. PICK t \in Seq(C) : t = a \o (<<".">> \o b) /\ Joins(t, a, m, u, 1 + n)
  <2> HIDE DEF C
  <2>1. Len(u) = 1 + n /\ u = <<".">> \o b
    BY <1>3 DEF Joins
  <2>2. a \o u \in Seq(C) /\ Joins(a \o u, a, m, u, 1 + n)
    BY <1>2, <1>n, <2>1, JoinIs
  <2> QED
    BY <2>1, <2>2
<1> HIDE DEF C
<1>11. t[m + 1] = "."
  BY <1>3, <1>4 DEF Joins
<1>12. \A i \in 1..n : t[m + (1 + i)] = b[i]
  BY <1>3, <1>4 DEF Joins
<1>13. Len(t) = m + (1 + n) /\ \A i \in 1..m : t[i] = a[i]
  BY <1>4 DEF Joins
<1>5. DOMAIN t = 1..m + (1 + n)
  BY <1>13
<1>6. Points(t) = {m + 1}
  <2>1. m + 1 \in Points(t)
    BY <1>5, <1>11 DEF Points
  <2>2. ASSUME NEW i \in Points(t) PROVE i = m + 1
    <3>1. i \in 1..m + (1 + n) /\ t[i] = "."
      BY <1>5 DEF Points
    <3>2. ~ (i <= m)
      <4> SUFFICES ASSUME i <= m PROVE FALSE
        OBVIOUS
      <4>1. i \in 1..m
        BY <3>1
      <4>2. t[i] = a[i] /\ a[i] \in Digits
        BY <1>13, <1>n, <4>1
      <4> QED
        BY <1>0, <3>1, <4>2
    <3>3. ~ (i > m + 1)
      <4> SUFFICES ASSUME i > m + 1 PROVE FALSE
        OBVIOUS
      <4>1. PICK j \in 1..n : i = m + (1 + j)
        <5>1. (i - m) - 1 \in 1..n /\ i = m + (1 + ((i - m) - 1))
          BY <3>1
        <5> QED
          BY <5>1
      <4>2. t[i] = b[j] /\ b[j] \in Digits
        BY <1>12, <1>n, <4>1
      <4> QED
        BY <1>0, <3>1, <4>2
    <3> QED
      BY <3>1, <3>2, <3>3
  <2> QED
    BY <2>1, <2>2
<1>7. Dot(t) = m + 1
  BY <1>6 DEF Dot
<1>8. IntPart(t) = SubSeq(t, 0 + 1, 0 + m) /\ FracPart(t) = SubSeq(t, (m + 1) + 1, (m + 1) + n)
  <2>1. (m + 1) - 1 = 0 + m /\ 1 = 0 + 1 /\ m + (1 + n) = (m + 1) + n
    OBVIOUS
  <2> QED
    BY <1>13, <1>6, <1>7, <2>1 DEF IntPart, FracPart
<1>9. SubSeq(t, 0 + 1, 0 + m) = a
  <2> DEFINE v == SubSeq(t, 0 + 1, 0 + m)
  <2>1. v \in Seq(C) /\ Cuts(v, t, 0, m)
    <3>1. 0 \in Nat /\ 0 + m <= Len(t)
      BY <1>13
    <3> QED
      BY <3>1, CutIs
  <2> HIDE DEF v
  <2>2. Same(v, a, m)
    BY <1>13, <1>n, <2>1 DEF Cuts, Same
  <2>3. v = a
    BY <1>2, <2>1, <2>2, SameIs
  <2> QED
    BY <2>3 DEF v
<1>10. SubSeq(t, (m + 1) + 1, (m + 1) + n) = b
  <2> DEFINE v == SubSeq(t, (m + 1) + 1, (m + 1) + n)
  <2>1. v \in Seq(C) /\ Cuts(v, t, m + 1, n)
    <3>1. m + 1 \in Nat /\ (m + 1) + n <= Len(t)
      BY <1>13
    <3> QED
      BY <3>1, CutIs
  <2> HIDE DEF v
  <2>2. Same(v, b, n)
    <3>1. \A i \in 1..n : (m + 1) + i = m + (1 + i)
      OBVIOUS
    <3> QED
      BY <1>12, <1>n, <2>1, <3>1 DEF Cuts, Same
  <2>3. v = b
    BY <1>2, <2>1, <2>2, SameIs
  <2> QED
    BY <2>3 DEF v
<1>14. IntPart(a) = a /\ FracPart(a) = <<>>
  BY <1>1 DEF IntPart, FracPart
<1> QED
  BY <1>4, <1>8, <1>9, <1>10, <1>14

\* What the part before the point is made of, when a number is written.
Signs == Digits \cup {Comma, "<"}

\* With the commas out of the whole part, the digits of it are left, and the fraction.
LEMMA WithoutSigns ==
    ASSUME NEW g \in Seq(Signs), NEW f \in Seq(Digits), NEW d \in Seq(Digits), NEW marks,
           marks \subseteq Marks, "." \notin marks, Without(g, marks) = d
    PROVE  Without(Joined(g, f), marks) = Joined(d, f)
<1> DEFINE C == Signs \cup {"."}
<1>1. \A c \in Digits : c \notin marks
  BY FiguresAre, FigureIs
<1>2. g \in Seq(C) /\ <<".">> \o f \in Seq(C)
  BY DEF Signs
<1>3. \A i \in 1..Len(<<".">> \o f) : (<<".">> \o f)[i] \notin marks
  <2>1. PICK n \in Nat : n = Len(f)
    OBVIOUS
  <2>2. f \in Seq(C)
    BY DEF Signs
  <2> DEFINE p == <<".">>
           u == p \o f
  <2>3. p \in Seq(C) /\ Len(p) = 1 /\ p[1] = "."
    BY PointIs
  <2> HIDE DEF C, p
  <2>5. Joins(u, p, 1, f, n)
    BY <2>1, <2>2, <2>3, JoinIs
  <2>6. Len(u) = 1 + n /\ u[1] = "." /\ \A i \in 1..n : u[1 + i] = f[i]
    BY <2>3, <2>5 DEF Joins
  <2> HIDE DEF u
  <2>4. \A i \in 1..1 + n : u[i] \notin marks
    <3> SUFFICES ASSUME NEW i \in 1..1 + n PROVE u[i] \notin marks
      OBVIOUS
    <3>1. CASE i = 1
      BY <2>6, <3>1
    <3>2. CASE i # 1
      <4>1. PICK j \in 1..n : i = 1 + j
        <5>1. i - 1 \in 1..n /\ i = 1 + (i - 1)
          BY <3>2
        <5> QED
          BY <5>1
      <4>2. u[i] = f[j] /\ f[j] \in Digits
        BY <2>1, <2>6, <4>1
      <4> QED
        BY <1>1, <4>2
    <3> QED
      BY <3>1, <3>2
  <2> QED
    BY <2>6, <2>4 DEF u, p
<1>4. Without(g \o (<<".">> \o f), marks) = Without(g, marks) \o (<<".">> \o f)
  <2> DEFINE u == <<".">> \o f
  <2>1. u \in Seq(C) /\ \A i \in 1..Len(u) : u[i] \notin marks
    BY <1>2, <1>3
  <2> HIDE DEF u, C
  <2>2. Without(g \o u, marks) = Without(g, marks) \o u
    BY <1>2, <2>1, WithoutJoined
  <2> QED
    BY <2>2 DEF u
<1>5. \A h : Joined(h, f) = IF f = <<>> THEN h ELSE h \o (<<".">> \o f)
  BY DEF Joined
<1> QED
  BY <1>4, <1>5

\* Nothing is read as nothing.
LEMMA NoDigits == <<>> \in Seq(Digits) /\ Len(<<>>) = 0 /\ Number(<<>>) = 0
<1> DEFINE s == <<>>
<1>1. s \in Seq(Digits) /\ Len(s) = 0
  OBVIOUS
<1> HIDE DEF s
<1>2. PICK f \in [0..Len(s) -> Nat] : f[0] = 0 /\ Number(s) = f[Len(s)]
  BY <1>1, NumberIs
<1> QED
  BY <1>1, <1>2 DEF s

\* Digits read as a natural number.
LEMMA NumberType == ASSUME NEW s \in Seq(Digits) PROVE Number(s) \in Nat
<1>1. PICK f \in [0..Len(s) -> Nat] : Number(s) = f[Len(s)]
  BY NumberIs
<1>2. Len(s) \in 0..Len(s)
  OBVIOUS
<1> QED
  BY <1>1, <1>2

\* What a whole number and a fraction say.
LEMMA SaysIs ==
    ASSUME NEW g \in Seq(Signs), NEW d \in Seq(Digits), NEW f \in Seq(Digits), NEW D \in Nat,
           Len(f) <= D, Without(g, {Comma, "<"}) = d
    PROVE  Says(Joined(g, f), D) = Number(d) * pow10(D) + Number(f) * pow10(D - Len(f))
<1> DEFINE marks == {Comma, "<"}
           t == Without(Joined(g, f), marks)
<1>1. t = Joined(d, f)
  <2>1. marks \subseteq Marks /\ "." \notin marks
    BY DEF Marks, Comma
  <2> HIDE DEF marks
  <2>2. Without(g, marks) = d
    BY DEF marks
  <2> QED
    BY <2>1, <2>2, WithoutSigns
<1>2. IntPart(t) = d /\ FracPart(t) = f
  <2> HIDE DEF t
  <2>1. CASE f = <<>>
    BY <1>1, <2>1, PartsAre DEF Joined
  <2>2. CASE f # <<>>
    BY <1>1, <2>2, PartsAre DEF Joined
  <2> QED
    BY <2>1, <2>2
<1>3. Says(Joined(g, f), D) = ByPlace(d, D + Len(d)) + ByPlace(f, D)
  BY <1>2 DEF Says
<1>4. PICK n \in Nat : n = Len(d)
  OBVIOUS
<1>5. D + n \in Nat /\ n <= D + n /\ (D + n) - n = D
  OBVIOUS
<1>6. ByPlace(d, D + n) = Number(d) * pow10(D)
  BY <1>4, <1>5, ByPlaceIs
<1>7. ByPlace(f, D) = Number(f) * pow10(D - Len(f))
  BY ByPlaceIs
<1> QED
  BY <1>3, <1>4, <1>6, <1>7

---------------------------------------------------------------------------
(* Zeros.                                                                  *)

\* Without the zeros it ends in, a fraction is the same.
LEMMA TrimKeeps ==
    ASSUME NEW n \in Nat, NEW s \in Seq(Digits), Len(s) = n, NEW D \in Nat, n <= D
    PROVE  /\ trim_end(s) \in Seq(Digits) /\ Len(trim_end(s)) \in 0..n
           /\ Number(trim_end(s)) * pow10(D - Len(trim_end(s))) = Number(s) * pow10(D - n)
<1> DEFINE ends == {k \in 0..n : \A i \in k + 1 .. n : s[i] = "0"}
<1>1. PICK m \in ends : \A k \in ends : m <= k
  <2>1. n \in ends /\ ends \in SUBSET Nat
    OBVIOUS
  <2> HIDE DEF ends
  <2>2. ends # {}
    BY <2>1
  <2> QED
    BY <2>1, <2>2, Least
<1>2. (CHOOSE k \in ends : \A j \in ends : k <= j) = m
  <2>1. \A k \in ends : k \in Nat
    OBVIOUS
  <2> HIDE DEF ends
  <2> QED
    BY <1>1, <2>1
<1>3. trim_end(s) = SubSeq(s, 1, m)
  BY <1>2 DEF trim_end
<1>4. m \in 0..n /\ ZerosFrom(s, m)
  BY DEF ZerosFrom
<1> HIDE DEF ends
<1>5. /\ SubSeq(s, 1, m) \in Seq(Digits) /\ Len(SubSeq(s, 1, m)) = m
      /\ Number(s) = Number(SubSeq(s, 1, m)) * pow10(n - m)
  BY <1>4, TrailingZeros
<1> DEFINE t == SubSeq(s, 1, m)
<1>6. t \in Seq(Digits) /\ Len(t) = m /\ Number(s) = Number(t) * pow10(n - m) /\ trim_end(s) = t
  BY <1>3, <1>5
<1> HIDE DEF t
<1>7. PICK a \in Nat, b \in Nat : a = n - m /\ b = D - n /\ a + b = D - m
  <2>1. n - m \in Nat /\ D - n \in Nat /\ (n - m) + (D - n) = D - m
    BY <1>4
  <2> QED
    BY <2>1
<1>8. pow10(D - m) = pow10(a) * pow10(b) /\ pow10(a) \in Nat /\ pow10(b) \in Nat
  BY <1>7, TensAdd, Tens
<1>9. Number(t) \in Nat
  BY <1>6, NumberType
<1>10. \A x, p, q \in Nat : x * (p * q) = (x * p) * q
  OBVIOUS
<1>11. Number(t) * pow10(D - m) = Number(s) * pow10(D - n)
  BY <1>6, <1>7, <1>8, <1>9, <1>10
<1> QED
  BY <1>4, <1>6, <1>11

\* Of zeros alone nothing is left, and they are read as nothing.
LEMMA ZerosAre ==
    ASSUME NEW n \in Nat, NEW s \in Seq(Digits), Len(s) = n, ZerosFrom(s, 0)
    PROVE  Number(s) = 0 /\ trim_end(s) = <<>>
<1>1. 0 \in 0..n
  OBVIOUS
<1>2. SubSeq(s, 1, 0) = <<>>
  OBVIOUS
<1>3. Number(s) = Number(SubSeq(s, 1, 0)) * pow10(n - 0)
  BY <1>1, TrailingZeros
<1>4. Number(s) = 0
  <2>1. pow10(n) \in Nat /\ n - 0 = n
    BY Tens
  <2>2. Number(s) = 0 * pow10(n)
    BY <1>2, <1>3, <2>1, NoDigits
  <2>3. \A p \in Nat : 0 * p = 0
    OBVIOUS
  <2> QED
    BY <2>1, <2>2, <2>3
<1> DEFINE ends == {k \in 0..n : \A i \in k + 1 .. n : s[i] = "0"}
<1>5. 0 \in ends /\ \A k \in ends : 0 <= k
  BY DEF ZerosFrom
<1>6. (CHOOSE k \in ends : \A j \in ends : k <= j) = 0
  <2>1. \A k \in ends : k \in Nat
    OBVIOUS
  <2> HIDE DEF ends
  <2> QED
    BY <1>5, <2>1
<1>7. trim_end(s) = SubSeq(s, 1, 0)
  BY <1>6 DEF trim_end
<1> QED
  BY <1>2, <1>4, <1>7

\* A zero is written as one, and nothing else is.
LEMMA ZeroIs == /\ <<"0">> \in Seq(Digits) /\ Number(<<"0">>) = 0
                /\ Grouped(<<"0">>) = <<"0">>
                /\ \A d \in Seq(Digits) : Grouped(d) = <<"0">> => d = <<"0">>
<1> DEFINE z == <<"0">>
<1>1. z \in Seq(Digits) /\ Len(z) = 1 /\ z[1] = "0" /\ \A i \in 1..1 : z[i] = "0"
  BY DigitZero
<1>2. z = Append(<<>>, "0")
  OBVIOUS
<1> HIDE DEF z
<1>3. Number(z) = 0
  <2>1. ZerosFrom(z, 0) /\ 1 \in Nat
    BY <1>1 DEF ZerosFrom
  <2> QED
    BY <1>1, <2>1, ZerosAre
<1>4. Grouped(z) = z
  <2>1. PICK f : Groups(f, z, 1) /\ Grouped(z) = f[1]
    <3>1. \E f : Groups(f, z, Len(z)) /\ Grouped(z) = f[Len(z)]
      BY <1>1, GroupsExist
    <3> QED
      BY <1>1, <3>1
  <2>2. f[0] = <<>> /\ f[1] = Push(f[0], z[1], 0, 1)
    BY <2>1 DEF Groups
  <2>3. f[1] = Append(<<>>, "0")
    BY <1>1, <2>2 DEF Push
  <2> QED
    BY <1>2, <2>1, <2>3
<1>5. ASSUME NEW d \in Seq(Digits), Grouped(d) = z PROVE d = z
  <2> DEFINE marks == {Comma, "<"}
  <2>1. Comma \in marks /\ marks \subseteq Marks
    BY DEF Marks, Comma
  <2> HIDE DEF marks
  <2>2. Without(Grouped(d), marks) = d /\ Without(Grouped(z), marks) = z
    BY <1>1, <2>1, GroupedIs
  <2> QED
    BY <1>4, <1>5, <2>2
<1> QED
  BY <1>1, <1>3, <1>4, <1>5 DEF z

---------------------------------------------------------------------------
(* Amounts as they are written.                                            *)

\* A number is its part before the point and its part behind it.
LEMMA Divides ==
    ASSUME NEW a \in Nat, NEW P \in Nat \ {0}
    PROVE  a \div P \in Nat /\ a % P \in 0..P - 1 /\ a = (a \div P) * P + (a % P)
  OBVIOUS

\* The first m of n digits of a number.
LEMMA FrontNumber ==
    ASSUME NEW n \in Nat, NEW m \in 0..n, NEW v \in Nat, v < pow10(n)
    PROVE  /\ SubSeq(Padded(v, n), 1, m) \in Seq(Digits) /\ Len(SubSeq(Padded(v, n), 1, m)) = m
           /\ \A i \in 1..m : SubSeq(Padded(v, n), 1, m)[i] = Padded(v, n)[i]
           /\ Number(SubSeq(Padded(v, n), 1, m)) = v \div pow10(n - m)
<1> DEFINE s == Padded(v, n)
<1>1. s \in Seq(Digits) /\ Len(s) = n
  BY PaddedIs
<1> HIDE DEF s
<1> DEFINE t == SubSeq(s, 1, m)
<1>2. t \in Seq(Digits) /\ Len(t) = m /\ \A i \in 1..m : t[i] = s[i]
  BY <1>1
<1> HIDE DEF t
<1>3. Number(t) = v \div pow10(n - m)
  <2>1. Len(t) <= n /\ \A i \in 1..Len(t) : t[i] = Padded(v, n)[i]
    BY <1>2 DEF s
  <2>2. Number(t) = v \div pow10(n - Len(t))
    BY <1>2, <2>1, NumberOfDigits
  <2> QED
    BY <1>2, <2>2
<1> QED
  BY <1>2, <1>3 DEF t, s

\* All of them.
LEMMA PaddedNumber ==
    ASSUME NEW n \in Nat, NEW v \in Nat, v < pow10(n)
    PROVE  Number(Padded(v, n)) = v
<1> DEFINE s == Padded(v, n)
<1>1. s \in Seq(Digits) /\ Len(s) = n
  BY PaddedIs
<1>2. \A i \in 1..Len(s) : s[i] = Padded(v, n)[i]
  OBVIOUS
<1> HIDE DEF s
<1>3. Number(s) = v \div pow10(n - n)
  BY <1>1, <1>2, NumberOfDigits
<1>4. pow10(n - n) = 1
  <2>1. n - n = 0 /\ 0 \in Nat
    OBVIOUS
  <2> QED
    BY <2>1, Tens
<1> QED
  BY <1>3, <1>4 DEF s

\* The whole part: its digits, how they are grouped, and nothing less than can be shown.
LEMMA WholeIs ==
    ASSUME NEW q \in Nat
    PROVE  /\ Padded(q, Width(q)) \in Seq(Digits) /\ Padded(q, Width(q)) # <<>>
           /\ Number(Padded(q, Width(q))) = q
           /\ q = 0 => Padded(q, Width(q)) = <<"0">>
<1>1. PICK n \in Nat \ {0} : n = Width(q) /\ q < pow10(n) /\ (q = 0 => n = 1)
  BY WidthIs
<1> DEFINE s == Padded(q, n)
<1>2. s \in Seq(Digits) /\ Len(s) = n /\ \A i \in 1..n : DigitOf(s[i]) = (q \div pow10(n - i)) % 10
  BY <1>1, PaddedIs
<1>3. Number(s) = q
  BY <1>1, PaddedNumber
<1> HIDE DEF s
<1>4. s # <<>>
  BY <1>1, <1>2
<1>5. ASSUME q = 0 PROVE s = <<"0">>
  <2>1. n = 1 /\ s[1] \in Digits /\ pow10(n - 1) \in Nat \ {0}
    <3>1. n - 1 \in Nat
      BY <1>1
    <3> QED
      BY <1>1, <1>2, <1>5, <3>1, Tens
  <2>2. DigitOf(s[1]) = (q \div pow10(n - 1)) % 10
    BY <1>2, <2>1
  <2>3. (q \div pow10(n - 1)) % 10 = 0
    BY <1>5, <2>1
  <2>4. s[1] = "0"
    BY <2>1, <2>2, <2>3, DigitZero
  <2> QED
    BY <1>2, <2>1, <2>4
<1> QED
  BY <1>1, <1>2, <1>3, <1>4, <1>5 DEF s

\* What is grouped is made of figures and commas, which are taken out again.
LEMMA GroupedSigns ==
    ASSUME NEW d \in Seq(Digits)
    PROVE  /\ Grouped(d) \in Seq(Signs) /\ ~Contains(Grouped(d), "<")
           /\ Without(Grouped(d), {Comma, "<"}) = d
<1> DEFINE marks == {Comma, "<"}
           g == Grouped(d)
<1>1. Comma \in marks /\ marks \subseteq Marks
  BY DEF Marks, Comma
<1> HIDE DEF marks
<1>2. g \in Seq(Grouping) /\ Without(g, marks) = d
  BY <1>1, GroupedIs
<1> HIDE DEF g
<1>3. Grouping \subseteq Signs
  BY DEF Grouping, Signs
<1>4. g \in Seq(Signs)
  BY <1>2, <1>3
<1>5. "<" \notin Grouping
  <2>1. \A c \in Digits : c # "<"
    BY FiguresAre, FigureIs DEF Marks
  <2>2. Comma # "<"
    BY DEF Comma
  <2> QED
    BY <2>1, <2>2 DEF Grouping
<1>6. ~Contains(g, "<")
  <2>1. \A i \in 1..Len(g) : g[i] \in Grouping
    BY <1>2
  <2> QED
    BY <1>5, <2>1 DEF Contains
<1> QED
  BY <1>2, <1>4, <1>6 DEF marks, g

\* An amount that is written without being cut: its digits, its fraction, and what they say.
Writes(t, d, f, a, D) == /\ t = Joined(Grouped(d), f)
                         /\ d \in Seq(Digits) /\ d # <<>> /\ f \in Seq(Digits) /\ Len(f) \in 0..D
                         /\ Number(d) = a \div pow10(D)
                         /\ Number(f) * pow10(D - Len(f)) = a % pow10(D)

\* Where there is room for every decimal, nothing is cut, and the zeros that are left out
\* are worth nothing.
LEMMA UncutIs ==
    ASSUME NEW a \in Nat, NEW D \in Nat, NEW M \in Nat, D <= M
    PROVE  \E d, f : Writes(to_display_string_trim(a, D, M), d, f, a, D)
<1> DEFINE P == pow10(D)
           q == a \div P
           x == a % P
           d == Padded(q, Width(q))
           k == IF D = 0 THEN 1 ELSE D
           s == Padded(x, k)
           f == trim_end(s)
<1>1. P \in Nat \ {0}
  BY Tens
<1>2. q \in Nat /\ x \in 0..P - 1
  <2> HIDE DEF P
  <2> QED
    BY <1>1, Divides
<1>3. to_display_string_trim(a, D, M) = Joined(Grouped(d), f)
  <2> DEFINE c == to_display_string_max(a, D, M)
  <2>1. c = [int |-> Grouped(d), frac |-> s]
    BY DEF to_display_string_max, to_display_string, to_exact_string
  <2>2. ~Contains(Grouped(d), "<")
    <3>1. d \in Seq(Digits)
      <4> HIDE DEF q
      <4> QED
        BY <1>2, WholeIs
    <3> HIDE DEF d
    <3> QED
      BY <3>1, GroupedSigns
  <2> HIDE DEF c, d, s
  <2>3. Contains(c.int, "<") = FALSE /\ c.int = Grouped(d) /\ c.frac = s
    BY <2>1, <2>2
  <2> QED
    BY <2>3 DEF to_display_string_trim, c
<1>4. d \in Seq(Digits) /\ d # <<>> /\ Number(d) = q
  <2> HIDE DEF q
  <2> QED
    BY <1>2, WholeIs
<1>5. f \in Seq(Digits) /\ Len(f) \in 0..D /\ Number(f) * pow10(D - Len(f)) = x
  <2>1. CASE D = 0
    <3>1. x = 0 /\ k = 1
      BY <1>2, <2>1, Tens
    <3>2. s \in Seq(Digits) /\ Len(s) = 1 /\ DigitOf(s[1]) = (x \div pow10(0)) % 10
      <4>1. 1 - 1 = 0 /\ 1 \in 1..1 /\ 1 \in Nat /\ x \in Nat
        BY <3>1
      <4> HIDE DEF x
      <4>2. /\ Padded(x, 1) \in Seq(Digits) /\ Len(Padded(x, 1)) = 1
            /\ DigitOf(Padded(x, 1)[1]) = (x \div pow10(1 - 1)) % 10
        BY <4>1, PaddedIs
      <4>3. s = Padded(x, 1)
        BY <3>1
      <4> HIDE DEF s
      <4> QED
        BY <4>1, <4>2, <4>3
    <3> HIDE DEF s, x
    <3>3. DigitOf(s[1]) = 0 /\ s[1] \in Digits
      <4>1. pow10(0) = 1
        BY <2>1, Tens
      <4> QED
        BY <3>1, <3>2, <4>1
    <3>4. s[1] = "0"
      BY <3>3, DigitZero
    <3>5. ZerosFrom(s, 0) /\ 1 \in Nat
      BY <3>2, <3>4 DEF ZerosFrom
    <3>6. f = <<>>
      BY <3>2, <3>5, ZerosAre
    <3> HIDE DEF f
    <3>7. f \in Seq(Digits) /\ Len(f) = 0 /\ Number(f) = 0
      BY <3>6, NoDigits
    <3> QED
      BY <2>1, <3>1, <3>7, Tens
  <2>2. CASE D # 0
    <3>1. k = D /\ x \in Nat /\ x < pow10(D)
      BY <1>1, <1>2, <2>2
    <3> HIDE DEF x
    <3>2. s \in Seq(Digits) /\ Len(s) = D /\ Number(s) = x
      BY <3>1, PaddedIs, PaddedNumber
    <3> HIDE DEF s
    <3>3. /\ f \in Seq(Digits) /\ Len(f) \in 0..D
          /\ Number(f) * pow10(D - Len(f)) = Number(s) * pow10(D - D)
      BY <3>2, TrimKeeps
    <3>4. pow10(D - D) = 1
      <4>1. D - D = 0
        OBVIOUS
      <4> QED
        BY <4>1, Tens
    <3>5. Number(s) * 1 = Number(s)
      BY <3>1, <3>2
    <3> QED
      BY <3>2, <3>3, <3>4, <3>5
  <2> QED
    BY <2>1, <2>2
<1> HIDE DEF d, f
<1>6. Writes(to_display_string_trim(a, D, M), d, f, a, D)
  BY <1>3, <1>4, <1>5 DEF Writes
<1> QED
  BY <1>6

\* Neither the point nor a digit says that an amount is less.
LEMMA JoinedHasNone ==
    ASSUME NEW g \in Seq(Signs), ~Contains(g, "<"), NEW f \in Seq(Digits)
    PROVE  ~Contains(Joined(g, f), "<")
<1> DEFINE C == {c \in Signs \cup {"."} : c # "<"}
<1>1. \A c \in Digits : c # "<"
  BY FiguresAre, FigureIs DEF Marks
<1>2. f \in Seq(C) /\ <<".">> \in Seq(C) /\ g \in Seq(C)
  <2>1. f \in Seq(C)
    BY <1>1 DEF Signs
  <2>2. "." \in C
    OBVIOUS
  <2>3. g \in Seq(C)
    <3>1. \A i \in 1..Len(g) : g[i] \in Signs /\ g[i] # "<"
      BY DEF Contains
    <3>2. \A i \in 1..Len(g) : g[i] \in C
      BY <3>1
    <3>3. g \in [1..Len(g) -> C] /\ Len(g) \in Nat
      BY <3>2
    <3> HIDE DEF C
    <3> QED
      BY <3>3
  <2> QED
    BY <2>1, <2>2, <2>3
<1>3. \A c \in C : c # "<"
  OBVIOUS
<1> HIDE DEF C
<1>4. Joined(g, f) \in Seq(C)
  <2>1. <<".">> \o f \in Seq(C)
    BY <1>2
  <2>2. g \o (<<".">> \o f) \in Seq(C)
    BY <1>2, <2>1
  <2> QED
    BY <1>2, <2>2 DEF Joined
<1> DEFINE t == Joined(g, f)
<1>5. \A i \in 1..Len(t) : t[i] \in C
  <2> HIDE DEF t
  <2>1. t \in Seq(C)
    BY <1>4 DEF t
  <2> QED
    BY <2>1
<1> HIDE DEF t
<1>6. ~Contains(t, "<")
  BY <1>3, <1>5 DEF Contains
<1> QED
  BY <1>6 DEF t

\* What is written without being cut says the amount.
LEMMA WritesSays ==
    ASSUME NEW a \in Nat, NEW D \in Nat, NEW t, NEW d, NEW f, Writes(t, d, f, a, D)
    PROVE  Says(t, D) = a /\ ~Contains(t, "<")
<1> DEFINE P == pow10(D)
           q == a \div P
           x == a % P
<1>1. /\ t = Joined(Grouped(d), f) /\ d \in Seq(Digits) /\ f \in Seq(Digits) /\ Len(f) <= D
      /\ Number(d) = q /\ Number(f) * pow10(D - Len(f)) = x
  BY DEF Writes
<1>2. P \in Nat \ {0}
  BY Tens
<1>3. a = q * P + x
  <2> HIDE DEF P
  <2> QED
    BY <1>2, Divides
<1>4. /\ Grouped(d) \in Seq(Signs) /\ ~Contains(Grouped(d), "<")
      /\ Without(Grouped(d), {Comma, "<"}) = d
  BY <1>1, GroupedSigns
<1> HIDE DEF q, x, P
<1>5. Says(t, D) = q * P + x
  <2> DEFINE g == Grouped(d)
  <2>1. g \in Seq(Signs) /\ Without(g, {Comma, "<"}) = d /\ t = Joined(g, f)
    BY <1>1, <1>4
  <2> HIDE DEF g
  <2>2. Says(Joined(g, f), D) = Number(d) * pow10(D) + Number(f) * pow10(D - Len(f))
    BY <1>1, <2>1, SaysIs
  <2> QED
    BY <1>1, <2>1, <2>2 DEF P
<1>6. ~Contains(t, "<")
  <2> DEFINE g == Grouped(d)
  <2>1. g \in Seq(Signs) /\ ~Contains(g, "<") /\ t = Joined(g, f)
    BY <1>1, <1>4
  <2> HIDE DEF g
  <2> QED
    BY <1>1, <2>1, JoinedHasNone
<1> QED
  BY <1>3, <1>5, <1>6

\* Read digit by digit, a written amount is the amount, of any number of decimals.
THEOREM FullSays == \A a, D \in Nat : Says(to_display_string_full(a, D), D) = a
<1> SUFFICES ASSUME NEW a \in Nat, NEW D \in Nat
             PROVE  Says(to_display_string_full(a, D), D) = a
  OBVIOUS
<1>1. PICK d, f : Writes(to_display_string_trim(a, D, D), d, f, a, D)
  BY UncutIs
<1>2. Says(to_display_string_trim(a, D, D), D) = a
  BY <1>1, WritesSays
<1> QED
  BY <1>2 DEF to_display_string_full

\* Of a number cut short: it is said to be less than can be shown, and is; or no more is
\* said than there is, nor nothing where there is something.
Short(text, said, a) == IF Contains(text, "<") THEN a \in 1..said - 1
                        ELSE said <= a /\ (said = 0 => a = 0)

\* One, with zeros in front.
LEMMA OneIs ==
    ASSUME NEW M \in Nat \ {0}
    PROVE  /\ Zeros(M - 1) \o <<"1">> \in Seq(Digits) /\ Len(Zeros(M - 1) \o <<"1">>) = M
           /\ Number(Zeros(M - 1) \o <<"1">>) = 1
<1> DEFINE z == Zeros(M - 1)
           l == <<"1">>
           o == z \o l
           s == Padded(1, M)
<1>1. Figure[1] = "0" /\ Figure[2] = "1"
  BY DEF Figure
<1>2. "0" \in Digits /\ "1" \in Digits
  <2>1. 0 \in 0..9 /\ 1 \in 0..9 /\ 0 + 1 = 1 /\ 1 + 1 = 2
    OBVIOUS
  <2> QED
    BY <1>1, <2>1, FigureIs
<1>3. z \in Seq(Digits) /\ Len(z) = M - 1 /\ \A i \in 1..M - 1 : z[i] = "0"
  BY <1>2 DEF Zeros
<1>4. l \in Seq(Digits) /\ Len(l) = 1 /\ l[1] = "1"
  BY <1>2
<1> HIDE DEF z, l
<1>5. o \in Seq(Digits) /\ Joins(o, z, M - 1, l, 1)
  BY <1>3, <1>4, JoinIs
<1> HIDE DEF o
<1>6. Len(o) = M /\ o[M] = "1" /\ \A i \in 1..M - 1 : o[i] = "0"
  <2>1. (M - 1) + 1 = M /\ 1 \in 1..1
    OBVIOUS
  <2> QED
    BY <1>3, <1>4, <1>5, <2>1 DEF Joins
<1>7. s \in Seq(Digits) /\ Len(s) = M
  BY PaddedIs
<1>8. ASSUME NEW i \in 1..M PROVE s[i] = o[i]
  <2>0. M - i \in Nat
    OBVIOUS
  <2>1. s[i] = Figure[((1 \div pow10(M - i)) % 10) + 1]
    BY DEF Padded
  <2>2. CASE i = M
    <3>1. pow10(M - i) = 1
      <4>1. M - i = 0 /\ 0 \in Nat
        BY <2>2
      <4> QED
        BY <4>1, Tens
    <3>2. ((1 \div pow10(M - i)) % 10) + 1 = 2
      BY <3>1
    <3> QED
      BY <1>1, <1>6, <2>1, <2>2, <3>2
  <2>3. CASE i # M
    <3>1. pow10(M - i) \in Nat /\ M - i < pow10(M - i) /\ 1 < pow10(M - i)
      <4>1. M - i >= 1
        BY <2>3
      <4> QED
        BY <2>0, <4>1, Tens, TensGrow
    <3> DEFINE p == pow10(M - i)
    <3>2. 1 \div p = 0
      <4> HIDE DEF p
      <4>1. p \in Nat /\ 1 < p
        BY <3>1 DEF p
      <4> QED
        BY <4>1
    <3>3. ((1 \div pow10(M - i)) % 10) + 1 = 1
      BY <3>2
    <3>4. i \in 1..M - 1
      BY <2>3
    <3> QED
      BY <1>1, <1>6, <2>1, <3>3, <3>4
  <2> QED
    BY <2>2, <2>3
<1>9. Number(s) = 1
  <2>1. 1 < pow10(M)
    BY Tens, TensGrow
  <2> QED
    BY <2>1, PaddedNumber
<1> HIDE DEF s
<1>10. o = s
  <2>1. Same(s, o, M)
    BY <1>6, <1>7, <1>8 DEF Same
  <2> QED
    BY <1>5, <1>7, <2>1, SameIs
<1> QED
  BY <1>5, <1>6, <1>9, <1>10 DEF o, z, l

\* Less than can be shown, as it is written.
LEMMA LessSays ==
    ASSUME NEW D \in Nat, NEW M \in Nat \ {0}, M < D
    PROVE  /\ Contains(Joined(<<"<", "0">>, Zeros(M - 1) \o <<"1">>), "<")
           /\ Says(Joined(<<"<", "0">>, Zeros(M - 1) \o <<"1">>), D) = pow10(D - M)
<1> DEFINE g == <<"<", "0">>
           o == Zeros(M - 1) \o <<"1">>
           t == Joined(g, o)
           marks == {Comma, "<"}
<1>1. o \in Seq(Digits) /\ Len(o) = M /\ Number(o) = 1
  BY OneIs
<1> HIDE DEF o
<1>2. g \in Seq(Signs) /\ Len(g) = 2 /\ g[1] = "<"
  BY DigitZero DEF Signs
<1>3. Without(g, marks) = <<"0">>
  <2>1. <<>> \in Seq(Signs) /\ "<" \in Signs /\ "0" \in Signs
    BY DigitZero DEF Signs
  <2>2. "<" \in marks /\ "0" \notin marks
    <3>1. marks \subseteq Marks
      BY DEF Marks, Comma
    <3>2. "0" \notin Marks
      BY DigitZero, FiguresAre, FigureIs
    <3> QED
      BY <3>1, <3>2
  <2> HIDE DEF marks
  <2> DEFINE h == Append(<<>>, "<")
  <2>3. h \in Seq(Signs)
    BY <2>1
  <2>4. Without(h, marks) = Without(<<>>, marks)
    BY <2>1, <2>2, WithoutMore DEF Keep
  <2>5. Without(Append(h, "0"), marks) = Append(Without(h, marks), "0")
    <3> HIDE DEF h
    <3> QED
      BY <2>1, <2>2, <2>3, WithoutUnmarked
  <2>6. Append(h, "0") = g /\ Append(<<>>, "0") = <<"0">>
    <3>1. h = <<"<">> /\ Append(<<>>, "0") = <<"0">>
      OBVIOUS
    <3>2. Append(h, "0") = g
      <4> DEFINE k == Append(h, "0")
      <4>1. k \in Seq(Signs) /\ Len(k) = 2 /\ k[1] = "<" /\ k[2] = "0"
        BY <2>1
      <4>2. Len(g) = 2 /\ g[1] = "<" /\ g[2] = "0"
        OBVIOUS
      <4> HIDE DEF k, g
      <4>3. Same(k, g, 2)
        BY <4>1, <4>2 DEF Same
      <4>4. k = g
        BY <1>2, <4>1, <4>3, SameIs
      <4> QED
        BY <4>4 DEF k
    <3> QED
      BY <3>1, <3>2
  <2> QED
    BY <2>4, <2>5, <2>6, WithoutNone
<1>4. Says(t, D) = Number(<<"0">>) * pow10(D) + Number(o) * pow10(D - M)
  <2> DEFINE d == <<"0">>
  <2>1. d \in Seq(Digits) /\ Without(g, {Comma, "<"}) = d /\ Len(o) <= D
    BY <1>1, <1>3, ZeroIs
  <2> HIDE DEF d, g
  <2>2. Says(Joined(g, o), D) = Number(d) * pow10(D) + Number(o) * pow10(D - Len(o))
    BY <1>1, <1>2, <2>1, SaysIs
  <2> QED
    BY <1>1, <2>2 DEF d
<1>5. Says(t, D) = pow10(D - M)
  <2>1. D - M \in Nat
    OBVIOUS
  <2>2. pow10(D) \in Nat /\ pow10(D - M) \in Nat
    BY <2>1, Tens
  <2>3. Says(t, D) = 0 * pow10(D) + 1 * pow10(D - M)
    BY <1>1, <1>4, ZeroIs
  <2>4. \A p, r \in Nat : 0 * p + 1 * r = r
    OBVIOUS
  <2> QED
    BY <2>2, <2>3, <2>4
<1>6. Contains(t, "<")
  <2> DEFINE C == Signs \cup {"."}
             u == <<".">> \o o
  <2>1. u \in Seq(C) /\ g \in Seq(C)
    <3>1. o \in Seq(C)
      BY <1>1 DEF Signs
    <3>2. <<".">> \in Seq(C)
      BY PointIs
    <3>3. u \in Seq(C)
      BY <3>1, <3>2
    <3> HIDE DEF g, u
    <3>4. g \in Seq(C)
      BY <1>2
    <3> QED
      BY <3>3, <3>4
  <2>2. o # <<>>
    BY <1>1
  <2> HIDE DEF g
  <2>3. t = g \o u
    BY <2>2 DEF Joined
  <2> HIDE DEF u, C
  <2>4. Joins(g \o u, g, 2, u, Len(u))
    BY <1>2, <2>1, JoinIs
  <2>5. Len(u) \in Nat
    BY <2>1
  <2>6. 1 \in 1..Len(g \o u) /\ (g \o u)[1] = "<"
    <3>1. 1 \in 1..2
      OBVIOUS
    <3> QED
      BY <1>2, <2>4, <2>5, <3>1 DEF Joins
  <2> HIDE DEF t
  <2>7. \E i \in 1..Len(t) : t[i] = "<"
    BY <2>3, <2>6
  <2> QED
    BY <2>7 DEF Contains
<1> QED
  BY <1>5, <1>6 DEF o

\* Where there is not, what is cut is dropped, or said to be less than can be shown.
LEMMA CutSays ==
    ASSUME NEW a \in Nat, NEW D \in Nat, NEW M \in Nat \ {0}, M < D
    PROVE  Short(to_display_string_trim(a, D, M), Says(to_display_string_trim(a, D, M), D), a)
<1> DEFINE P == pow10(D)
           Q == pow10(D - M)
           q == a \div P
           x == a % P
           d == Padded(q, Width(q))
           cut == SubSeq(Padded(x, D), 1, M)
           t == to_display_string_trim(a, D, M)
           c == to_display_string_max(a, D, M)
<1>1. P \in Nat \ {0} /\ Q \in Nat \ {0} /\ D - M \in Nat
  <2>1. D - M \in Nat
    OBVIOUS
  <2> QED
    BY <2>1, Tens
<1>2. q \in Nat /\ x \in 0..P - 1 /\ a = q * P + x
  <2> HIDE DEF P
  <2> QED
    BY <1>1, Divides
<1>3. c = IF Grouped(d) = <<"0">> /\ cut = Zeros(M) /\ a # 0
          THEN [int |-> <<"<", "0">>, frac |-> Zeros(M - 1) \o <<"1">>]
          ELSE [int |-> Grouped(d), frac |-> cut]
  <2>1. ~(D <= M) /\ D # 0
    OBVIOUS
  <2> QED
    BY <2>1 DEF to_display_string_max, to_display_string, to_exact_string
<1>4. t = Joined(c.int, IF Contains(c.int, "<") THEN c.frac ELSE trim_end(c.frac))
  BY DEF to_display_string_trim
<1>5. d \in Seq(Digits) /\ Number(d) = q /\ (q = 0 => d = <<"0">>)
  <2> HIDE DEF q
  <2> QED
    BY <1>2, WholeIs
<1>6. /\ cut \in Seq(Digits) /\ Len(cut) = M /\ Number(cut) = x \div Q
      /\ \A i \in 1..M : cut[i] = Padded(x, D)[i]
  <2>1. x \in Nat /\ x < pow10(D) /\ M \in 0..D
    BY <1>1, <1>2
  <2> HIDE DEF x
  <2> QED
    BY <2>1, FrontNumber
<1>7. ASSUME x \div Q = 0 PROVE cut = Zeros(M)
  <2>1. ASSUME NEW i \in 1..M PROVE cut[i] = "0"
    <3>1. i \in 1..D /\ D - i \in Nat /\ D - M \in 0..D - i
      OBVIOUS
    <3>2. DigitOf(Padded(x, D)[i]) = (x \div pow10(D - i)) % 10 /\ Padded(x, D)[i] \in Digits
      <4>1. x \in Nat
        BY <1>1, <1>2
      <4> HIDE DEF x
      <4> QED
        BY <3>1, <4>1, PaddedIs
    <3>3. Q <= pow10(D - i) /\ pow10(D - i) \in Nat
      BY <3>1, Tens, TensGrow
    <3> DEFINE p == pow10(D - i)
    <3>4. x \div p = 0
      <4>1. x \in Nat /\ p \in Nat /\ Q \in Nat \ {0} /\ Q <= p
        BY <1>1, <1>2, <3>3
      <4> HIDE DEF x, p, Q
      <4>2. x < Q
        BY <1>7, <4>1
      <4> QED
        BY <4>1, <4>2
    <3>5. DigitOf(Padded(x, D)[i]) = 0
      BY <3>2, <3>4
    <3> HIDE DEF cut, x
    <3> QED
      BY <1>6, <3>2, <3>5, DigitZero
  <2>2. Zeros(M) \in Seq(Digits) /\ Len(Zeros(M)) = M /\ \A i \in 1..M : Zeros(M)[i] = "0"
    BY DigitZero DEF Zeros
  <2> HIDE DEF cut
  <2>3. Same(cut, Zeros(M), M)
    BY <1>6, <2>1, <2>2 DEF Same
  <2> QED
    BY <1>6, <2>2, <2>3, SameIs
<1>8. x \div Q \in Nat /\ x = (x \div Q) * Q + (x % Q) /\ x % Q \in 0..Q - 1 /\ x \in Nat
  <2>1. x \in Nat
    BY <1>1, <1>2
  <2> HIDE DEF x, Q
  <2> QED
    BY <1>1, <2>1, Divides
<1> HIDE DEF d, cut, c, t, x, q, P, Q
<1>9. CASE Grouped(d) = <<"0">> /\ cut = Zeros(M) /\ a # 0
  <2>1. c = [int |-> <<"<", "0">>, frac |-> Zeros(M - 1) \o <<"1">>]
    BY <1>3, <1>9
  <2>2. Contains(c.int, "<")
    <3>1. c.int = <<"<", "0">>
      BY <2>1
    <3>2. 1 \in 1..Len(<<"<", "0">>) /\ <<"<", "0">>[1] = "<"
      OBVIOUS
    <3> QED
      BY <3>1, <3>2 DEF Contains
  <2>3. t = Joined(<<"<", "0">>, Zeros(M - 1) \o <<"1">>)
    BY <1>4, <2>1, <2>2
  <2>4. Contains(t, "<") /\ Says(t, D) = Q
    BY <2>3, LessSays DEF Q
  <2>5. q = 0
    BY <1>5, <1>9, ZeroIs
  <2>6. x \div Q = 0
    <3>1. \A i \in 1..M : Zeros(M)[i] = "0"
      BY DEF Zeros
    <3>2. ZerosFrom(cut, 0)
      BY <1>6, <1>9, <3>1 DEF ZerosFrom
    <3> QED
      BY <1>6, <3>2, ZerosAre
  <2>7. a = x /\ x < Q
    <3>1. 0 * P = 0 /\ 0 * Q = 0
      BY <1>1
    <3> QED
      BY <1>1, <1>2, <1>8, <2>5, <2>6, <3>1
  <2>8. a \in 1..Q - 1
    BY <1>1, <1>9, <2>7
  <2> QED
    BY <2>4, <2>8 DEF Short, t
<1>10. CASE ~(Grouped(d) = <<"0">> /\ cut = Zeros(M) /\ a # 0)
  <2>1. c.int = Grouped(d) /\ c.frac = cut
    <3>1. c = [int |-> Grouped(d), frac |-> cut]
      BY <1>3, <1>10
    <3> QED
      BY <3>1
  <2> DEFINE g == Grouped(d)
             f == trim_end(cut)
  <2>2. g \in Seq(Signs) /\ ~Contains(g, "<") /\ Without(g, {Comma, "<"}) = d
    BY <1>5, GroupedSigns
  <2>3. t = Joined(g, f)
    BY <1>4, <2>1, <2>2
  <2>4. /\ f \in Seq(Digits) /\ Len(f) \in 0..M
        /\ Number(f) * pow10(D - Len(f)) = Number(cut) * pow10(D - M)
    <3>1. M \in Nat /\ M <= D
      OBVIOUS
    <3> QED
      BY <1>6, <3>1, TrimKeeps
  <2> HIDE DEF g, f
  <2>5. ~Contains(t, "<")
    BY <2>2, <2>3, <2>4, JoinedHasNone
  <2>6. Says(t, D) = q * P + (x \div Q) * Q
    <3>1. Len(f) <= D
      BY <2>4
    <3>2. Says(Joined(g, f), D) = Number(d) * pow10(D) + Number(f) * pow10(D - Len(f))
      BY <1>5, <2>2, <2>4, <3>1, SaysIs
    <3> QED
      BY <1>5, <1>6, <2>3, <2>4, <3>2 DEF P, Q
  <2> DEFINE b == q * P
             e == (x \div Q) * Q
  <2>7. b \in Nat /\ e \in Nat /\ (b = 0 => q = 0) /\ (e = 0 => x \div Q = 0)
    <3>1. \A u \in Nat, v \in Nat \ {0} : u * v \in Nat /\ (u * v = 0 => u = 0)
      OBVIOUS
    <3> QED
      BY <1>1, <1>2, <1>8, <3>1
  <2>8. a = b + x /\ e <= x /\ x \in Nat /\ Says(t, D) = b + e
    BY <1>1, <1>2, <1>8, <2>6
  <2> HIDE DEF b, e
  <2>9. Says(t, D) <= a
    BY <2>7, <2>8
  <2>10. ASSUME Says(t, D) = 0 PROVE a = 0
    <3>1. q = 0 /\ x \div Q = 0
      BY <2>7, <2>8, <2>10
    <3> QED
      BY <1>5, <1>7, <1>10, <3>1, ZeroIs
  <2> QED
    BY <2>5, <2>9, <2>10 DEF Short, t
<1> QED
  BY <1>9, <1>10

\* A column says no more than there is, and nothing only of nothing, however many decimals
\* an asset has and a column has room for.
THEOREM ColumnSays ==
    \A a, D \in Nat, M \in Nat \ {0} :
        Short(to_display_string_trim(a, D, M), Says(to_display_string_trim(a, D, M), D), a)
<1> SUFFICES ASSUME NEW a \in Nat, NEW D \in Nat, NEW M \in Nat \ {0}
             PROVE  Short(to_display_string_trim(a, D, M), Says(to_display_string_trim(a, D, M), D), a)
  OBVIOUS
<1>1. CASE D <= M
  <2>1. PICK d, f : Writes(to_display_string_trim(a, D, M), d, f, a, D)
    BY <1>1, UncutIs
  <2>2. Says(to_display_string_trim(a, D, M), D) = a /\ ~Contains(to_display_string_trim(a, D, M), "<")
    BY <2>1, WritesSays
  <2> QED
    BY <2>2 DEF Short
<1>2. CASE D > M
  BY <1>2, CutSays
<1> QED
  BY <1>1, <1>2

=============================================================================
