----------------------------- MODULE Iteration -----------------------------
(***************************************************************************)
(* Induction without a predicate for a parameter, and what it gives for    *)
(* the folds of the community modules: a fold over a sequence is what an   *)
(* iteration along its places comes to.  The operator that is folded is    *)
(* stood for by a function of a pair, so that each fold of the models can  *)
(* take the place of h.                                                    *)
(***************************************************************************)
EXTENDS Integers, Sequences, FiniteSets, FiniteSetsExt, Functions, SequencesExt,
        FiniteSetTheorems, SequenceTheorems, WellFoundedInduction, TLAPS

LEMMA Least ==
  ASSUME NEW S, S \subseteq Nat, S # {}
  PROVE  \E m \in S : \A k \in S : m <= k
<1>1. PICK m \in S : \A k \in S : ~ (<<k, m>> \in OpToRel(<, Nat))
  BY NatLessThanWellFounded, WFMin
<1>2. ASSUME NEW k \in S
      PROVE  m <= k
  <2>1. m \in Nat /\ k \in Nat /\ ~(k < m)
    BY <1>1 DEF OpToRel
  <2> QED BY <2>1
<1> QED BY <1>2

\* Induction, with a set in place of a predicate.
LEMMA UpTo ==
  ASSUME NEW n \in Nat, NEW S, 0 \in S, \A k \in 0 .. n - 1 : k \in S => k + 1 \in S
  PROVE  \A k \in 0 .. n : k \in S
<1> DEFINE out == {k \in 0 .. n : k \notin S}
<1>1. CASE out = {}
  BY <1>1
<1>2. CASE out # {}
  <2>1. PICK m \in out : \A k \in out : m <= k
    <3> out \subseteq Nat
      OBVIOUS
    <3> HIDE DEF out
    <3> QED BY <1>2, Least
  <2>2. m # 0 /\ m - 1 \in 0 .. n - 1 /\ m - 1 \notin out
    BY <2>1
  <2>3. m - 1 \in S
    BY <2>2
  <2> QED BY <2>1, <2>2, <2>3
<1> QED BY <1>1, <1>2

LEMMA GreatestOf ==
  ASSUME NEW n \in Nat, NEW S, S \subseteq 1 .. n, S # {}
  PROVE  Max(S) \in S /\ \A k \in S : k <= Max(S)
<1> DEFINE flip == {m \in 0 .. n : n - m \in S}
<1>1. PICK k \in S : TRUE
  OBVIOUS
<1>2. n - k \in flip /\ flip \subseteq Nat
  <2>1. k \in 1 .. n /\ n - (n - k) = k
    BY <1>1
  <2> QED BY <2>1, <1>1
<1>3. PICK m \in flip : \A l \in flip : m <= l
  <2> HIDE DEF flip
  <2> QED BY <1>2, Least
<1>4. n - m \in S
  BY <1>3
<1>5. ASSUME NEW l \in S
      PROVE  l <= n - m
  <2>1. l \in 1 .. n /\ n - (n - l) = l
    OBVIOUS
  <2>2. n - l \in flip
    BY <2>1
  <2> QED BY <1>3, <2>1, <2>2
<1>6. \A l \in S : n - m >= l
  <2>1. \A l \in S : l \in Int
    OBVIOUS
  <2> QED BY <1>5, <1>4, <2>1
<1>7. Max(S) \in S /\ \A l \in S : Max(S) >= l
  BY <1>4, <1>6 DEF Max
<1> QED BY <1>7

\* f lists what n turns of the step h make of b.
IsIteration(f, n, b, h) == f[0] = b /\ \A i \in 1 .. n : f[i] = h[<<f[i - 1], i>>]

LEMMA Iterates ==
  ASSUME NEW n \in Nat, NEW T, NEW b \in T, NEW h \in [T \X (1 .. n) -> T]
  PROVE  \E f \in [0 .. n -> T] : IsIteration(f, n, b, h)
<1> DEFINE S == {k \in 0 .. n : \E f \in [0 .. k -> T] : f[0] = b /\ \A i \in 1 .. k : f[i] = h[<<f[i - 1], i>>]}
<1>1. 0 \in S
  <2> DEFINE f == [i \in 0 .. 0 |-> b]
  <2>1. f \in [0 .. 0 -> T] /\ f[0] = b /\ 0 \in 0 .. n
    OBVIOUS
  <2>2. \A i \in 1 .. 0 : FALSE
    OBVIOUS
  <2> HIDE DEF f
  <2>3. \E a \in [0 .. 0 -> T] : a[0] = b /\ \A i \in 1 .. 0 : a[i] = h[<<a[i - 1], i>>]
    BY <2>1, <2>2
  <2> QED BY <2>1, <2>3
<1>2. ASSUME NEW k \in 0 .. n - 1, k \in S
      PROVE  k + 1 \in S
  <2>1. PICK f \in [0 .. k -> T] : f[0] = b /\ \A i \in 1 .. k : f[i] = h[<<f[i - 1], i>>]
    BY <1>2
  <2> DEFINE g == [i \in 0 .. k + 1 |-> IF i = k + 1 THEN h[<<f[k], k + 1>>] ELSE f[i]]
  <2>2. g \in [0 .. k + 1 -> T]
    BY <2>1
  <2>3. g[0] = b
    BY <2>1
  <2>4. ASSUME NEW i \in 1 .. k + 1
        PROVE  g[i] = h[<<g[i - 1], i>>]
    <3>1. i - 1 \in 0 .. k + 1 /\ i - 1 # k + 1 /\ i \in 0 .. k + 1
      OBVIOUS
    <3>2. g[i - 1] = f[i - 1]
      BY <3>1
    <3>3. CASE i = k + 1
      BY <3>1, <3>2, <3>3
    <3>4. CASE i # k + 1
      BY <2>1, <3>1, <3>2, <3>4
    <3> QED BY <3>3, <3>4
  <2> HIDE DEF g
  <2>5. k + 1 \in 0 .. n
    BY <1>2
  <2>6. \E a \in [0 .. k + 1 -> T] : a[0] = b /\ \A i \in 1 .. k + 1 : a[i] = h[<<a[i - 1], i>>]
    BY <2>2, <2>3, <2>4
  <2> QED BY <2>5, <2>6
<1>3. n \in S
  <2> HIDE DEF S
  <2> QED BY <1>1, <1>2, UpTo
<1> QED BY <1>3 DEF IsIteration

\* g is the fold over the subsets of D that takes the element c[s] last.
IsFold(g, D, b, h, c) == \A s \in SUBSET D : g[s] = IF s = {} THEN b ELSE h[<<g[s \ {c[s]}], c[s]>>]

\* There is one, whatever the order in which c takes the elements.
LEMMA FoldExists ==
  ASSUME NEW D, IsFiniteSet(D), NEW T, NEW b \in T, NEW h \in [T \X D -> T],
         NEW c \in [(SUBSET D) \ {{}} -> D], \A s \in SUBSET D : s # {} => c[s] \in s
  PROVE  \E g \in [SUBSET D -> T] : IsFold(g, D, b, h, c)
<1> DEFINE n == Cardinality(D)
           Small(k) == {s \in SUBSET D : Cardinality(s) <= k}
           Folds(g, k) == \A s \in Small(k) : g[s] = IF s = {} THEN b ELSE h[<<g[s \ {c[s]}], c[s]>>]
           S == {k \in 0 .. n : \E g \in [Small(k) -> T] : Folds(g, k)}
<1>1. n \in Nat /\ \A s \in SUBSET D : IsFiniteSet(s) /\ Cardinality(s) \in Nat /\ Cardinality(s) <= n
                                     /\ (Cardinality(s) = 0 <=> s = {})
  BY FS_CardinalityType, FS_Subset, FS_EmptySet
<1>2. ASSUME NEW s \in SUBSET D, s # {}
      PROVE  s \ {c[s]} \in SUBSET D /\ Cardinality(s \ {c[s]}) = Cardinality(s) - 1
  BY <1>1, <1>2, FS_RemoveElement
<1> HIDE DEF n
<1>3. 0 \in S
  <2> DEFINE g == [s \in Small(0) |-> b]
  <2>1. \A s \in Small(0) : s = {}
    BY <1>1
  <2>2. g \in [Small(0) -> T] /\ Folds(g, 0)
    BY <2>1
  <2> HIDE DEF g, Small
  <2>3. 0 \in 0 .. n
    BY <1>1
  <2> QED BY <2>2, <2>3
<1>4. ASSUME NEW k \in 0 .. n - 1, k \in S
      PROVE  k + 1 \in S
  <2>1. PICK g \in [Small(k) -> T] : Folds(g, k)
    BY <1>4
  <2> DEFINE m == [s \in Small(k + 1) |-> IF s \in Small(k) THEN g[s] ELSE h[<<g[s \ {c[s]}], c[s]>>]]
  <2>2. {} \in Small(k) /\ Small(k) \subseteq Small(k + 1)
    BY <1>1
  <2>3. ASSUME NEW s \in Small(k + 1), s # {}
        PROVE  s \ {c[s]} \in Small(k) /\ c[s] \in D
    <3>1. s \in SUBSET D /\ c[s] \in s
      BY <2>3
    <3>2. Cardinality(s \ {c[s]}) = Cardinality(s) - 1 /\ Cardinality(s) <= k + 1 /\ Cardinality(s) \in Nat
      BY <1>1, <1>2, <2>3, <3>1
    <3>3. k \in Int
      BY <1>1
    <3> QED BY <3>1, <3>2, <3>3
  <2>4. m \in [Small(k + 1) -> T]
    <3> HIDE DEF Small
    <3> QED BY <2>1, <2>2, <2>3
  <2>5. Folds(m, k + 1)
    <3>1. ASSUME NEW s \in Small(k + 1)
          PROVE  m[s] = IF s = {} THEN b ELSE h[<<m[s \ {c[s]}], c[s]>>]
      <4> HIDE DEF Small
      <4>1. CASE s = {}
        BY <2>1, <2>2, <4>1
      <4>2. CASE s # {}
        <5>1. m[s \ {c[s]}] = g[s \ {c[s]}]
          BY <2>2, <2>3, <4>2
        <5>2. CASE s \in Small(k)
          <6>1. g[s] = h[<<g[s \ {c[s]}], c[s]>>]
            BY <2>1, <4>2, <5>2
          <6> QED BY <2>2, <4>2, <5>1, <5>2, <6>1
        <5>3. CASE s \notin Small(k)
          BY <4>2, <5>1, <5>3
        <5> QED BY <5>2, <5>3
      <4> QED BY <4>1, <4>2
    <3> QED BY <3>1
  <2>6. k + 1 \in 0 .. n
    BY <1>1
  <2> QED BY <2>4, <2>5, <2>6
<1>5. n \in S
  <2> HIDE DEF S
  <2> QED BY <1>1, <1>3, <1>4, UpTo
<1>6. Small(n) = SUBSET D
  BY <1>1
<1>7. PICK g \in [SUBSET D -> T] : \A s \in SUBSET D : g[s] = IF s = {} THEN b ELSE h[<<g[s \ {c[s]}], c[s]>>]
  <2> HIDE DEF Small
  <2> QED BY <1>5, <1>6
<1> QED BY <1>7 DEF IsFold


\* FoldLeft takes the greatest of the places that are left.
IsFoldUp(g, n, b, h) ==
  \A s \in SUBSET (1 .. n) : g[s] = IF s = {} THEN b ELSE h[<<g[s \ {Max(s)}], Max(s)>>]

LEMMA FoldUpExists ==
  ASSUME NEW n \in Nat, NEW T, NEW b \in T, NEW h \in [T \X (1 .. n) -> T]
  PROVE  \E g \in [SUBSET (1 .. n) -> T] : IsFoldUp(g, n, b, h)
<1> DEFINE D == 1 .. n
           c == [s \in (SUBSET D) \ {{}} |-> Max(s)]
<1>1. ASSUME NEW s \in SUBSET D, s # {}
      PROVE  Max(s) \in s
  BY <1>1, GreatestOf
<1>2. c \in [(SUBSET D) \ {{}} -> D] /\ \A s \in SUBSET D : s # {} => c[s] = Max(s) /\ c[s] \in s
  BY <1>1
<1>3. IsFiniteSet(D)
  BY FS_Interval
<1> HIDE DEF c
<1>4. PICK g \in [SUBSET D -> T] : IsFold(g, D, b, h, c)
  <2>1. h \in [T \X D -> T]
    OBVIOUS
  <2>2. c \in [(SUBSET D) \ {{}} -> D]
    BY <1>2
  <2>3. \A s \in SUBSET D : s # {} => c[s] \in s
    BY <1>2
  <2> HIDE DEF D
  <2> QED BY <1>3, <2>1, <2>2, <2>3, FoldExists, Zenon
<1>5. \A s \in SUBSET D : g[s] = IF s = {} THEN b ELSE h[<<g[s \ {Max(s)}], Max(s)>>]
  <2> HIDE DEF D
  <2> QED BY <1>2, <1>4 DEF IsFold
<1> QED BY <1>4, <1>5 DEF IsFoldUp

\* Two iterations that take the same steps come to the same.
LEMMA IterationsAgree ==
  ASSUME NEW n \in Nat, NEW f, NEW g, g[0] = f[0], \A k \in 1 .. n : g[k - 1] = f[k - 1] => g[k] = f[k]
  PROVE  \A k \in 0 .. n : g[k] = f[k]
<1> DEFINE S == {k \in 0 .. n : g[k] = f[k]}
<1>1. 0 \in S
  OBVIOUS
<1>2. ASSUME NEW k \in 0 .. n - 1, k \in S
      PROVE  k + 1 \in S
  <2>1. k + 1 \in 1 .. n /\ (k + 1) - 1 = k /\ k + 1 \in 0 .. n
    OBVIOUS
  <2> QED BY <1>2, <2>1
<1> HIDE DEF S
<1>3. \A k \in 0 .. n : k \in S
  BY <1>1, <1>2, UpTo
<1> QED BY <1>3 DEF S

LEMMA UpperEnds ==
  ASSUME NEW k \in Nat \ {0}
  PROVE  /\ 1 .. k # {} /\ Max(1 .. k) = k /\ (1 .. k) \ {k} = 1 .. k - 1
<1>1. Max(1 .. k) \in 1 .. k /\ \A l \in 1 .. k : l <= Max(1 .. k)
  <2>1. 1 .. k # {} /\ k \in Nat
    OBVIOUS
  <2> QED BY <2>1, GreatestOf
<1> QED BY <1>1

\* G is a FoldLeft over n places as the community modules define it, known to take
\* the step h only where it has come to a member of T.
FoldsUp(G, n, T, b, h) ==
  \A s \in SUBSET (1 .. n) :
    /\ s = {} => G[s] = b
    /\ s # {} /\ G[s \ {Max(s)}] \in T => G[s] = h[<<G[s \ {Max(s)}], Max(s)>>]

\* It comes to what an iteration comes to.
ComesTo(G, f, n, b, h) == IsIteration(f, n, b, h) /\ G[1 .. n] = f[n]

LEMMA FoldUp ==
  ASSUME NEW n \in Nat, NEW T, NEW b \in T, NEW h \in [T \X (1 .. n) -> T], NEW G, FoldsUp(G, n, T, b, h)
  PROVE  \E f \in [0 .. n -> T] : ComesTo(G, f, n, b, h)
<1>1. PICK f \in [0 .. n -> T] : IsIteration(f, n, b, h)
  BY Iterates
<1> DEFINE S == {k \in 0 .. n : G[1 .. k] = f[k]}
<1>2. 0 \in S
  <2>1. 1 .. 0 = {} /\ 0 \in 0 .. n
    OBVIOUS
  <2> QED BY <1>1, <2>1 DEF IsIteration, FoldsUp
<1>3. ASSUME NEW k \in 0 .. n - 1, k \in S
      PROVE  k + 1 \in S
  <2>1. k + 1 \in Nat \ {0} /\ k + 1 \in 1 .. n /\ k + 1 \in 0 .. n /\ (k + 1) - 1 = k
    OBVIOUS
  <2>2. 1 .. k + 1 # {} /\ Max(1 .. k + 1) = k + 1 /\ (1 .. k + 1) \ {k + 1} = 1 .. k
    BY <2>1, UpperEnds
  <2>3. 1 .. k + 1 \in SUBSET (1 .. n) /\ G[1 .. k] = f[k] /\ f[k] \in T
    BY <1>1, <1>3, <2>1
  <2>4. G[1 .. k + 1] = h[<<f[k], k + 1>>]
    BY <2>2, <2>3 DEF FoldsUp
  <2> QED BY <1>1, <2>1, <2>4 DEF IsIteration
<1> HIDE DEF S
<1>4. \A k \in 0 .. n : k \in S
  BY <1>2, <1>3, UpTo
<1>5. G[1 .. n] = f[n]
  BY <1>4 DEF S
<1> QED BY <1>1, <1>5 DEF ComesTo

-----------------------------------------------------------------------------
\* Induction over the subsets of a finite set, which gives up one element at a time.
One(s) == CHOOSE x \in s : TRUE

LEMMA OneByOne ==
  ASSUME NEW D, IsFiniteSet(D), NEW S, {} \in S, \A s \in SUBSET D : s # {} /\ s \ {One(s)} \in S => s \in S
  PROVE  D \in S
<1> DEFINE n == Cardinality(D)
           K == {k \in 0 .. n : \A s \in SUBSET D : Cardinality(s) <= k => s \in S}
<1>1. n \in Nat /\ \A s \in SUBSET D : IsFiniteSet(s) /\ Cardinality(s) \in Nat /\ Cardinality(s) <= n
                                     /\ (Cardinality(s) = 0 <=> s = {})
  BY FS_CardinalityType, FS_Subset, FS_EmptySet
<1>2. ASSUME NEW s \in SUBSET D, s # {}
      PROVE  One(s) \in s /\ s \ {One(s)} \in SUBSET D /\ Cardinality(s \ {One(s)}) = Cardinality(s) - 1
  <2>1. One(s) \in s
    BY <1>2 DEF One
  <2> QED BY <1>1, <2>1, FS_RemoveElement
<1> HIDE DEF n
<1>3. 0 \in K
  <2>1. \A s \in SUBSET D : Cardinality(s) <= 0 => s \in S
    BY <1>1
  <2> QED BY <1>1, <2>1
<1>4. ASSUME NEW k \in 0 .. n - 1, k \in K
      PROVE  k + 1 \in K
  <2>1. ASSUME NEW s \in SUBSET D, Cardinality(s) <= k + 1, s # {}
        PROVE  s \in S
    <3>1. Cardinality(s \ {One(s)}) <= k
      BY <1>1, <1>2, <2>1
    <3> QED BY <1>2, <1>4, <2>1, <3>1
  <2>2. k + 1 \in 0 .. n
    BY <1>1
  <2> QED BY <2>1, <2>2
<1>5. n \in K
  <2> HIDE DEF K
  <2> QED BY <1>1, <1>3, <1>4, UpTo
<1> QED BY <1>1, <1>5 DEF n

\* A sum as the community modules define it.
Adds(g, D, f) == \A s \in SUBSET D : g[s] = IF s = {} THEN 0 ELSE f[One(s)] + g[s \ {One(s)}]

LEMMA SumIs ==
  ASSUME NEW D, IsFiniteSet(D), NEW f \in [D -> Nat]
  PROVE  \E g \in [SUBSET D -> Nat] : Adds(g, D, f) /\ SumFunction(f) = g[D]
<1> DEFINE h == [x \in Nat \X D |-> f[x[2]] + x[1]]
           c == [s \in (SUBSET D) \ {{}} |-> One(s)]
           Body(g) == [s \in SUBSET D |-> IF s = {} THEN 0 ELSE f[CHOOSE x \in s : TRUE] + g[s \ {CHOOSE x \in s : TRUE}]]
           G == CHOOSE g : g = Body(g)
<1>1. DOMAIN f = D
  OBVIOUS
<1>2. SumFunction(f) = G[D]
  BY <1>1 DEF SumFunction, SumFunctionOnSet, FoldFunctionOnSet, MapThenFoldSet
<1>3. h \in [Nat \X D -> Nat] /\ \A a \in Nat, x \in D : h[<<a, x>>] = f[x] + a
  OBVIOUS
<1>4. /\ c \in [(SUBSET D) \ {{}} -> D]
      /\ \A s \in SUBSET D : s # {} => c[s] = One(s) /\ c[s] \in s /\ One(s) \in s
  BY DEF One
<1> HIDE DEF h, c
<1>5. PICK g \in [SUBSET D -> Nat] : IsFold(g, D, 0, h, c)
  BY <1>3, <1>4, FoldExists
<1>6. ASSUME NEW s \in SUBSET D
      PROVE  g[s] = IF s = {} THEN 0 ELSE f[One(s)] + g[s \ {One(s)}]
  <2>1. CASE s = {}
    BY <1>5, <2>1 DEF IsFold
  <2>2. CASE s # {}
    <3>1. s \ {One(s)} \in SUBSET D /\ One(s) \in D /\ c[s] = One(s)
      BY <1>4, <2>2
    <3>2. g[s] = h[<<g[s \ {One(s)}], One(s)>>]
      BY <1>5, <2>2, <3>1 DEF IsFold
    <3> QED BY <1>3, <1>5, <2>2, <3>1, <3>2
  <2> QED BY <2>1, <2>2
<1>7. g = Body(g)
  BY <1>5, <1>6 DEF One
<1>8. G = Body(G)
  <2> HIDE DEF Body
  <2> QED BY <1>7
<1>9. ASSUME NEW s \in SUBSET D
      PROVE  G[s] = IF s = {} THEN 0 ELSE f[One(s)] + G[s \ {One(s)}]
  <2> HIDE DEF G
  <2> QED BY <1>8 DEF One
<1> HIDE DEF G
<1>10. D \in {s \in SUBSET D : G[s] = g[s]}
  <2> DEFINE S == {s \in SUBSET D : G[s] = g[s]}
  <2>1. {} \in S
    BY <1>6, <1>9
  <2>2. ASSUME NEW s \in SUBSET D, s # {}, s \ {One(s)} \in S
        PROVE  s \in S
    BY <2>2, <1>6, <1>9
  <2> HIDE DEF S
  <2>3. D \in S
    BY <2>1, <2>2, OneByOne
  <2> QED BY <2>3 DEF S
<1> QED BY <1>2, <1>5, <1>6, <1>10 DEF Adds

LEMMA SumOfNone ==
  ASSUME NEW D, IsFiniteSet(D), NEW f \in [D -> Nat], \A x \in D : f[x] = 0
  PROVE  SumFunction(f) = 0
<1>1. PICK g \in [SUBSET D -> Nat] : Adds(g, D, f) /\ SumFunction(f) = g[D]
  BY SumIs
<1> DEFINE S == {s \in SUBSET D : g[s] = 0}
<1>2. {} \in S
  BY <1>1 DEF Adds
<1>3. ASSUME NEW s \in SUBSET D, s # {}, s \ {One(s)} \in S
      PROVE  s \in S
  <2>1. One(s) \in D
    BY <1>3 DEF One
  <2> QED BY <1>1, <1>3, <2>1 DEF Adds
<1> HIDE DEF S
<1>4. D \in S
  BY <1>2, <1>3, OneByOne
<1> QED BY <1>1, <1>4 DEF S

\* What is added at one place is added to the sum.
LEMMA SumMoves ==
  ASSUME NEW D, IsFiniteSet(D), NEW f \in [D -> Nat], NEW j \in D, NEW m \in Nat, NEW e \in [D -> Nat],
         e[j] = f[j] + m, \A x \in D \ {j} : e[x] = f[x]
  PROVE  SumFunction(e) = SumFunction(f) + m
<1>1. PICK g \in [SUBSET D -> Nat] : Adds(g, D, f) /\ SumFunction(f) = g[D]
  BY SumIs
<1>2. PICK h \in [SUBSET D -> Nat] : Adds(h, D, e) /\ SumFunction(e) = h[D]
  BY SumIs
<1> DEFINE S == {s \in SUBSET D : h[s] = g[s] + IF j \in s THEN m ELSE 0}
<1>3. {} \in S
  <2>1. {} \in SUBSET D /\ j \notin {}
    OBVIOUS
  <2>2. g[{}] = 0 /\ h[{}] = 0
    BY <1>1, <1>2, <2>1 DEF Adds
  <2> QED BY <2>1, <2>2
<1>4. ASSUME NEW s \in SUBSET D, s # {}, s \ {One(s)} \in S
      PROVE  s \in S
  <2>1. One(s) \in s /\ One(s) \in D
    BY <1>4 DEF One
  <2>2. /\ g[s] = f[One(s)] + g[s \ {One(s)}] /\ h[s] = e[One(s)] + h[s \ {One(s)}]
        /\ g[s \ {One(s)}] \in Nat /\ h[s \ {One(s)}] \in Nat
    BY <1>1, <1>2, <1>4 DEF Adds
  <2>3. h[s \ {One(s)}] = g[s \ {One(s)}] + IF j \in s \ {One(s)} THEN m ELSE 0
    BY <1>4
  <2>4. CASE One(s) = j
    BY <2>1, <2>2, <2>3, <2>4
  <2>5. CASE One(s) # j
    <3>1. e[One(s)] = f[One(s)] /\ (j \in s \ {One(s)} <=> j \in s) /\ f[One(s)] \in Nat
      BY <2>1, <2>5
    <3> QED BY <2>2, <2>3, <3>1
  <2> QED BY <2>4, <2>5
<1> HIDE DEF S
<1>5. D \in S
  BY <1>3, <1>4, OneByOne
<1> QED BY <1>1, <1>2, <1>5 DEF S
=============================================================================
