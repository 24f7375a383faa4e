-------------------------- MODULE TableKernelProofs --------------------------
(***************************************************************************)
(* The kernel's actions on a table, for every set of pieces, boxes,        *)
(* players and anchors: a piece is in one place, and everything that says  *)
(* where it is agrees (PlacesAreSound); who may touch a piece follows the  *)
(* zone it lies in (ZonesFollow); a stack stays together until somebody    *)
(* takes from it (StacksStayTogether).  The invariant, TableInv, is about  *)
(* what the sequences of boxes and stacks and the table of attachments     *)
(* hold; the lemmas follow a piece out of wherever it is and into its new  *)
(* place.  Then what its scripts make of an action: one transaction, the   *)
(* same for every replica (ScriptsAreSound, TransactionsAreWhole).         *)
(***************************************************************************)
EXTENDS TableKernel, ScriptTransaction, Iteration, FiniteSetTheorems, SequenceTheorems, TLAPS

-----------------------------------------------------------------------------
(* Sequences without a piece, and with one more. *)

LEMMA SliceFacts ==
  ASSUME NEW S, NEW s \in Seq(S), NEW m \in 1 .. Len(s) + 1, NEW n \in m - 1 .. Len(s)
  PROVE  /\ SubSeq(s, m, n) \in Seq(S) /\ Len(SubSeq(s, m, n)) = n - m + 1
         /\ \A k \in 1 .. n - m + 1 : SubSeq(s, m, n)[k] = s[m + k - 1]
<1>1. Len(s) \in Nat /\ m \in Int /\ n \in Int /\ n - m + 1 >= 0
  BY LenProperties
<1>2. \A k \in m .. n : s[k] \in S
  BY <1>1, ElementOfSeq
<1>3. /\ SubSeq(s, m, n) \in Seq(S)
      /\ Len(SubSeq(s, m, n)) = IF m <= n THEN n - m + 1 ELSE 0
      /\ \A k \in 1 .. n - m + 1 : SubSeq(s, m, n)[k] = s[m + k - 1]
  BY <1>1, <1>2, SubSeqProperties
<1> QED
  BY <1>1, <1>3

LEMMA RemoveElements ==
  ASSUME NEW S, NEW s \in Seq(S), NEW i \in 1 .. Len(s)
  PROVE  /\ RemoveAt(s, i) \in Seq(S) /\ Len(RemoveAt(s, i)) = Len(s) - 1
         /\ \A k \in 1 .. Len(s) - 1 : RemoveAt(s, i)[k] = IF k < i THEN s[k] ELSE s[k + 1]
<1> DEFINE a == SubSeq(s, 1, i - 1)
           b == SubSeq(s, i + 1, Len(s))
           u == a \o b
<1>1. Len(s) \in Nat /\ i \in Nat
  BY LenProperties
<1>2. a \in Seq(S) /\ Len(a) = i - 1 /\ \A k \in 1 .. i - 1 : a[k] = s[k]
  <2>1. 1 \in 1 .. Len(s) + 1 /\ i - 1 \in 1 - 1 .. Len(s)
    BY <1>1
  <2>2. /\ a \in Seq(S) /\ Len(a) = i - 1 - 1 + 1
        /\ \A k \in 1 .. i - 1 - 1 + 1 : a[k] = s[1 + k - 1]
    BY <2>1, SliceFacts
  <2> QED
    BY <1>1, <2>2
<1>3. b \in Seq(S) /\ Len(b) = Len(s) - i /\ \A k \in 1 .. Len(s) - i : b[k] = s[i + k]
  <2>1. i + 1 \in 1 .. Len(s) + 1 /\ Len(s) \in i + 1 - 1 .. Len(s)
    BY <1>1
  <2>2. /\ b \in Seq(S) /\ Len(b) = Len(s) - (i + 1) + 1
        /\ \A k \in 1 .. Len(s) - (i + 1) + 1 : b[k] = s[i + 1 + k - 1]
    BY <2>1, SliceFacts
  <2> QED
    BY <1>1, <2>2
<1>4. RemoveAt(s, i) = u
  BY DEF RemoveAt
<1> HIDE DEF a, b
<1>5. /\ u \in Seq(S) /\ Len(u) = Len(a) + Len(b)
      /\ \A k \in 1 .. Len(a) + Len(b) : u[k] = IF k <= Len(a) THEN a[k] ELSE b[k - Len(a)]
  BY <1>2, <1>3, ConcatProperties
<1> HIDE DEF u
<1>7. Len(a) + Len(b) = Len(s) - 1 /\ Len(a) \in Nat /\ Len(a) = i - 1
  BY <1>1, <1>2, <1>3
<1>8. \A k \in 1 .. Len(s) - 1 : u[k] = IF k <= i - 1 THEN a[k] ELSE b[k - (i - 1)]
  BY <1>5, <1>7
<1>6. ASSUME NEW k \in 1 .. Len(s) - 1
      PROVE  u[k] = IF k < i THEN s[k] ELSE s[k + 1]
  <2>1. CASE k < i
    <3>1. k <= i - 1 /\ k \in 1 .. i - 1
      BY <1>1, <2>1
    <3> QED
      BY <1>2, <1>8, <2>1, <3>1
  <2>2. CASE k >= i
    <3>1. ~(k <= i - 1) /\ k - (i - 1) \in 1 .. Len(s) - i /\ i + (k - (i - 1)) = k + 1 /\ ~(k < i)
      BY <1>1, <2>2
    <3>2. u[k] = b[k - (i - 1)]
      BY <1>8, <3>1
    <3> QED
      BY <1>3, <3>1, <3>2
  <2> QED
    BY <1>1, <2>1, <2>2
<1> QED
  BY <1>1, <1>2, <1>3, <1>4, <1>5, <1>6

LEMMA WithoutFacts ==
  ASSUME NEW S, NEW s \in Seq(S), IsInjective(s), NEW p
  PROVE  /\ Without(s, p) \in Seq(S) /\ IsInjective(Without(s, p))
         /\ Range(Without(s, p)) = Range(s) \ {p}
         /\ Len(Without(s, p)) = IF p \in Range(s) THEN Len(s) - 1 ELSE Len(s)
<1>1. Len(s) \in Nat /\ DOMAIN s = 1 .. Len(s)
  BY LenProperties
<1>2. CASE p \notin Range(s)
  BY <1>2 DEF Without
<1>3. CASE p \in Range(s)
  <2> DEFINE i == CHOOSE j \in DOMAIN s : s[j] = p
             t == RemoveAt(s, i)
  <2>1. i \in 1 .. Len(s) /\ s[i] = p
    BY <1>1, <1>3 DEF Range
  <2>2. Without(s, p) = t
    BY <1>3 DEF Without
  <2> HIDE DEF i
  <2>3. /\ t \in Seq(S) /\ Len(t) = Len(s) - 1
        /\ \A k \in 1 .. Len(s) - 1 : t[k] = IF k < i THEN s[k] ELSE s[k + 1]
    BY <2>1, RemoveElements
  <2> HIDE DEF t
  <2>4. DOMAIN t = 1 .. Len(s) - 1
    BY <2>3, LenProperties
  <2>5. IsInjective(t)
    <3> SUFFICES ASSUME NEW k \in 1 .. Len(s) - 1, NEW m \in 1 .. Len(s) - 1, t[k] = t[m]
                 PROVE  k = m
      BY <2>4 DEF IsInjective
    <3> DEFINE x == IF k < i THEN k ELSE k + 1
               y == IF m < i THEN m ELSE m + 1
    <3>1. x \in 1 .. Len(s) /\ y \in 1 .. Len(s) /\ s[x] = s[y]
      BY <1>1, <2>1, <2>3
    <3>2. x = y
      BY <1>1, <3>1 DEF IsInjective
    <3> QED
      BY <1>1, <2>1, <3>2
  <2>6. Range(t) = Range(s) \ {p}
    <3>1. ASSUME NEW k \in 1 .. Len(s) - 1
          PROVE  t[k] \in Range(s) \ {p}
      <4> DEFINE x == IF k < i THEN k ELSE k + 1
      <4>1. x \in 1 .. Len(s) /\ t[k] = s[x] /\ x # i
        BY <1>1, <2>1, <2>3
      <4>2. s[x] # p
        BY <1>1, <2>1, <4>1 DEF IsInjective
      <4> QED
        BY <1>1, <4>1, <4>2 DEF Range
    <3>2. ASSUME NEW x \in 1 .. Len(s), s[x] # p
          PROVE  \E k \in 1 .. Len(s) - 1 : t[k] = s[x]
      <4> DEFINE k == IF x < i THEN x ELSE x - 1
      <4>1. k \in 1 .. Len(s) - 1 /\ t[k] = s[x]
        BY <1>1, <2>1, <2>3, <3>2
      <4> QED
        BY <4>1
    <3>3. Range(t) = {t[k] : k \in 1 .. Len(s) - 1} /\ Range(s) = {s[x] : x \in 1 .. Len(s)}
      BY <1>1, <2>4 DEF Range
    <3> QED
      BY <3>1, <3>2, <3>3
  <2> QED
    BY <1>3, <2>2, <2>3, <2>5, <2>6
<1> QED
  BY <1>2, <1>3

LEMMA ConcatFacts ==
  ASSUME NEW S, NEW s \in Seq(S), NEW t \in Seq(S)
  PROVE  /\ s \o t \in Seq(S) /\ Len(s \o t) = Len(s) + Len(t)
         /\ Range(s \o t) = Range(s) \cup Range(t)
         /\ IsInjective(s) /\ IsInjective(t) /\ Range(s) \cap Range(t) = {} => IsInjective(s \o t)
<1> DEFINE u == s \o t
<1>1. /\ Len(s) \in Nat /\ Len(t) \in Nat /\ DOMAIN s = 1 .. Len(s) /\ DOMAIN t = 1 .. Len(t)
  BY LenProperties
<1>2. /\ u \in Seq(S) /\ Len(u) = Len(s) + Len(t)
      /\ \A k \in 1 .. Len(s) + Len(t) : u[k] = IF k <= Len(s) THEN s[k] ELSE t[k - Len(s)]
  BY ConcatProperties
<1>3. DOMAIN u = 1 .. Len(s) + Len(t)
  BY <1>2, LenProperties
<1>4. Range(u) = Range(s) \cup Range(t)
  BY RangeConcatenation
<1> HIDE DEF u
<1>5. ASSUME IsInjective(s), IsInjective(t), Range(s) \cap Range(t) = {}
      PROVE  IsInjective(u)
  <2> SUFFICES ASSUME NEW k \in 1 .. Len(s) + Len(t), NEW m \in 1 .. Len(s) + Len(t), u[k] = u[m], k < m
               PROVE  FALSE
    BY <1>1, <1>3 DEF IsInjective
  <2>1. CASE m <= Len(s)
    BY <1>1, <1>2, <1>5, <2>1, SMTT(40) DEF IsInjective
  <2>2. CASE k > Len(s)
    <3>1. k - Len(s) \in 1 .. Len(t) /\ m - Len(s) \in 1 .. Len(t) /\ t[k - Len(s)] = t[m - Len(s)]
      BY <1>1, <1>2, <2>2
    <3>2. k - Len(s) = m - Len(s)
      BY <1>1, <1>5, <3>1 DEF IsInjective
    <3> QED
      BY <1>1, <3>2
  <2>3. CASE k <= Len(s) /\ m > Len(s)
    <3>1. k \in DOMAIN s /\ m - Len(s) \in DOMAIN t /\ s[k] = t[m - Len(s)]
      BY <1>1, <1>2, <2>3
    <3> QED
      BY <1>5, <3>1 DEF Range
  <2> QED
    BY <1>1, <2>1, <2>2, <2>3
<1> QED
  BY <1>2, <1>4, <1>5 DEF u

LEMMA SingletonFacts ==
  ASSUME NEW S, NEW p \in S
  PROVE  <<p>> \in Seq(S) /\ Len(<<p>>) = 1 /\ Range(<<p>>) = {p} /\ IsInjective(<<p>>)
<1> DEFINE s == <<p>>
<1>1. s \in Seq(S) /\ Len(s) = 1 /\ s[1] = p
  OBVIOUS
<1> HIDE DEF s
<1>2. DOMAIN s = {1}
  BY <1>1, LenProperties
<1>3. Range(s) = {p} /\ IsInjective(s)
  BY <1>1, <1>2 DEF Range, IsInjective
<1> QED
  BY <1>1, <1>3 DEF s

LEMMA AppendFacts ==
  ASSUME NEW S, NEW s \in Seq(S), NEW p \in S
  PROVE  /\ Append(s, p) \in Seq(S) /\ Append(s, p) # << >> /\ Len(Append(s, p)) = Len(s) + 1
         /\ Range(Append(s, p)) = Range(s) \cup {p}
         /\ IsInjective(s) /\ p \notin Range(s) => IsInjective(Append(s, p))
<1> DEFINE e == <<p>>
<1>1. Append(s, p) = s \o e
  BY AppendIsConcat
<1>2. e \in Seq(S) /\ Len(e) = 1 /\ Range(e) = {p} /\ IsInjective(e)
  BY SingletonFacts
<1> HIDE DEF e
<1>3. Append(s, p) # << >>
  BY AppendProperties
<1> QED
  BY <1>1, <1>2, <1>3, ConcatFacts

\* The two parts of a sequence that is cut.
LEMMA CutFacts ==
  ASSUME NEW S, NEW s \in Seq(S), NEW m \in 0 .. Len(s)
  PROVE  /\ SubSeq(s, 1, m) \in Seq(S) /\ Len(SubSeq(s, 1, m)) = m
         /\ SubSeq(s, m + 1, Len(s)) \in Seq(S) /\ Len(SubSeq(s, m + 1, Len(s))) = Len(s) - m
         /\ Range(SubSeq(s, 1, m)) \cup Range(SubSeq(s, m + 1, Len(s))) = Range(s)
         /\ IsInjective(s) =>
              /\ IsInjective(SubSeq(s, 1, m)) /\ IsInjective(SubSeq(s, m + 1, Len(s)))
              /\ Range(SubSeq(s, 1, m)) \cap Range(SubSeq(s, m + 1, Len(s))) = {}
<1> DEFINE a == SubSeq(s, 1, m)
           b == SubSeq(s, m + 1, Len(s))
<1>1. Len(s) \in Nat /\ m \in Nat /\ m <= Len(s) /\ DOMAIN s = 1 .. Len(s)
  BY LenProperties
<1>2. a \in Seq(S) /\ Len(a) = m /\ \A k \in 1 .. m : a[k] = s[k]
  <2>1. 1 \in 1 .. Len(s) + 1 /\ m \in 1 - 1 .. Len(s)
    BY <1>1
  <2>2. a \in Seq(S) /\ Len(a) = m - 1 + 1 /\ \A k \in 1 .. m - 1 + 1 : a[k] = s[1 + k - 1]
    BY <2>1, SliceFacts, SMTT(40)
  <2> QED
    BY <1>1, <2>2
<1>3. b \in Seq(S) /\ Len(b) = Len(s) - m /\ \A k \in 1 .. Len(s) - m : b[k] = s[m + k]
  <2>1. m + 1 \in 1 .. Len(s) + 1 /\ Len(s) \in m + 1 - 1 .. Len(s)
    BY <1>1
  <2>2. /\ b \in Seq(S) /\ Len(b) = Len(s) - (m + 1) + 1
        /\ \A k \in 1 .. Len(s) - (m + 1) + 1 : b[k] = s[m + 1 + k - 1]
    BY <2>1, SliceFacts
  <2>3. Len(s) - (m + 1) + 1 = Len(s) - m
    BY <1>1, SMTT(40)
  <2>4. ASSUME NEW k \in 1 .. Len(s) - m
        PROVE  b[k] = s[m + k]
    <3>1. m + 1 + k - 1 = m + k
      BY <1>1
    <3> QED
      BY <2>2, <2>3, <3>1
  <2> QED
    BY <2>2, <2>3, <2>4
<1> HIDE DEF a, b
<1>4. DOMAIN a = 1 .. m /\ DOMAIN b = 1 .. Len(s) - m
  <2>1. DOMAIN a = 1 .. m
    BY <1>2, LenProperties
  <2>2. DOMAIN b = 1 .. Len(s) - m
    BY <1>3, LenProperties
  <2> QED
    BY <2>1, <2>2
<1>5. Range(a) \cup Range(b) = Range(s)
  <2>1. ASSUME NEW k \in 1 .. Len(s) - m
        PROVE  m + k \in 1 .. Len(s)
    BY <1>1
  <2>2. Range(a) \subseteq Range(s) /\ Range(b) \subseteq Range(s)
    <3>1. \A k \in 1 .. m : a[k] = s[k] /\ k \in 1 .. Len(s)
      BY <1>1, <1>2
    <3>2. \A k \in 1 .. Len(s) - m : b[k] = s[m + k] /\ m + k \in 1 .. Len(s)
      BY <1>3, <2>1
    <3> QED
      BY <1>1, <1>4, <3>1, <3>2 DEF Range
  <2>3. ASSUME NEW k \in 1 .. Len(s)
        PROVE  s[k] \in Range(a) \cup Range(b)
    <3>1. CASE k <= m
      BY <1>1, <1>2, <1>4, <3>1 DEF Range
    <3>2. CASE k > m
      <4>1. k - m \in 1 .. Len(s) - m /\ m + (k - m) = k
        BY <1>1, <3>2
      <4>2. b[k - m] = s[k]
        BY <1>3, <4>1
      <4> QED
        BY <1>4, <4>1, <4>2 DEF Range
    <3> QED
      BY <1>1, <3>1, <3>2
  <2>4. Range(s) = {s[k] : k \in 1 .. Len(s)}
    BY <1>1 DEF Range
  <2> QED
    BY <2>2, <2>3, <2>4
<1>6. ASSUME IsInjective(s)
      PROVE  IsInjective(a) /\ IsInjective(b) /\ Range(a) \cap Range(b) = {}
  <2>1. IsInjective(a)
    <3>1. \A k \in 1 .. m : k \in DOMAIN s
      BY <1>1
    <3> QED
      BY <1>2, <1>4, <1>6, <3>1 DEF IsInjective
  <2>2. ASSUME NEW k \in 1 .. Len(s) - m
        PROVE  m + k \in DOMAIN s
    BY <1>1
  <2>3. IsInjective(b)
    <3> SUFFICES ASSUME NEW k \in 1 .. Len(s) - m, NEW l \in 1 .. Len(s) - m, b[k] = b[l]
                 PROVE  k = l
      BY <1>4 DEF IsInjective
    <3>1. s[m + k] = s[m + l]
      BY <1>3
    <3>2. m + k = m + l
      BY <1>6, <2>2, <3>1 DEF IsInjective
    <3> QED
      BY <1>1, <3>2
  <2>4. ASSUME NEW k \in 1 .. m, NEW l \in 1 .. Len(s) - m
        PROVE  a[k] # b[l]
    <3>1. k \in DOMAIN s /\ m + l \in DOMAIN s /\ k # m + l
      BY <1>1
    <3> QED
      BY <1>2, <1>3, <1>6, <3>1 DEF IsInjective
  <2>5. Range(a) = {a[k] : k \in 1 .. m} /\ Range(b) = {b[l] : l \in 1 .. Len(s) - m}
    BY <1>4 DEF Range
  <2> QED
    BY <2>1, <2>3, <2>4, <2>5
<1> QED
  BY <1>2, <1>3, <1>5, <1>6 DEF a, b

LEMMA InsertFacts ==
  ASSUME NEW S, NEW s \in Seq(S), NEW i \in 1 .. Len(s) + 1, NEW p \in S
  PROVE  /\ InsertAt(s, i, p) \in Seq(S) /\ Len(InsertAt(s, i, p)) = Len(s) + 1
         /\ Range(InsertAt(s, i, p)) = Range(s) \cup {p}
         /\ IsInjective(s) /\ p \notin Range(s) => IsInjective(InsertAt(s, i, p))
<1> DEFINE a == SubSeq(s, 1, i - 1)
           e == <<p>>
           b == SubSeq(s, i, Len(s))
<1>1. Len(s) \in Nat /\ i \in Nat /\ i - 1 \in 0 .. Len(s) /\ i - 1 + 1 = i
  BY LenProperties
<1>2. /\ a \in Seq(S) /\ Len(a) = i - 1 /\ b \in Seq(S) /\ Len(b) = Len(s) - (i - 1)
      /\ Range(a) \cup Range(b) = Range(s)
      /\ IsInjective(s) => IsInjective(a) /\ IsInjective(b) /\ Range(a) \cap Range(b) = {}
  <2>1. SubSeq(s, i - 1 + 1, Len(s)) = b
    BY <1>1
  <2>2. \E m \in 0 .. Len(s) : m = i - 1 /\ SubSeq(s, m + 1, Len(s)) = b /\ SubSeq(s, 1, m) = a
    BY <1>1
  <2> HIDE DEF a, b
  <2>3. PICK m \in 0 .. Len(s) : m = i - 1 /\ SubSeq(s, m + 1, Len(s)) = b /\ SubSeq(s, 1, m) = a
    BY <2>2
  <2>4. /\ SubSeq(s, 1, m) \in Seq(S) /\ Len(SubSeq(s, 1, m)) = m
        /\ SubSeq(s, m + 1, Len(s)) \in Seq(S) /\ Len(SubSeq(s, m + 1, Len(s))) = Len(s) - m
        /\ Range(SubSeq(s, 1, m)) \cup Range(SubSeq(s, m + 1, Len(s))) = Range(s)
        /\ IsInjective(s) =>
             /\ IsInjective(SubSeq(s, 1, m)) /\ IsInjective(SubSeq(s, m + 1, Len(s)))
             /\ Range(SubSeq(s, 1, m)) \cap Range(SubSeq(s, m + 1, Len(s))) = {}
    BY CutFacts
  <2> QED
    BY <2>3, <2>4
<1>3. e \in Seq(S) /\ Len(e) = 1 /\ Range(e) = {p} /\ IsInjective(e)
  BY SingletonFacts
<1>4. InsertAt(s, i, p) = a \o e \o b
  BY DEF InsertAt
<1> HIDE DEF a, b, e
<1>5. /\ a \o e \in Seq(S) /\ Len(a \o e) = Len(a) + Len(e) /\ Range(a \o e) = Range(a) \cup Range(e)
      /\ IsInjective(a) /\ IsInjective(e) /\ Range(a) \cap Range(e) = {} => IsInjective(a \o e)
  <2>1. a \in Seq(S) /\ e \in Seq(S)
    BY <1>2, <1>3
  <2> QED
    BY <2>1, ConcatFacts
<1> DEFINE c == a \o e
<1> HIDE DEF c
<1>6. c \in Seq(S) /\ Len(c) = i /\ Range(c) = Range(a) \cup {p}
      /\ (IsInjective(a) /\ p \notin Range(a) => IsInjective(c)) /\ InsertAt(s, i, p) = c \o b
  BY <1>1, <1>2, <1>3, <1>4, <1>5 DEF c
<1>7. /\ c \o b \in Seq(S) /\ Len(c \o b) = Len(c) + Len(b) /\ Range(c \o b) = Range(c) \cup Range(b)
      /\ IsInjective(c) /\ IsInjective(b) /\ Range(c) \cap Range(b) = {} => IsInjective(c \o b)
  <2>1. c \in Seq(S) /\ b \in Seq(S)
    BY <1>2, <1>6
  <2> QED
    BY <2>1, ConcatFacts
<1>8. Len(c) + Len(b) = Len(s) + 1
  BY <1>1, <1>2, <1>6
<1>9. IsInjective(s) /\ p \notin Range(s) => IsInjective(c \o b)
  BY <1>2, <1>6, <1>7
<1> QED
  BY <1>2, <1>6, <1>7, <1>8, <1>9

LEMMA ReverseFacts ==
  ASSUME NEW S, NEW s \in Seq(S)
  PROVE  /\ Reverse(s) \in Seq(S) /\ Len(Reverse(s)) = Len(s) /\ Range(Reverse(s)) = Range(s)
         /\ IsInjective(s) => IsInjective(Reverse(s))
<1> DEFINE r == [i \in 1 .. Len(s) |-> s[(Len(s) - i) + 1]]
<1>1. Len(s) \in Nat /\ DOMAIN s = 1 .. Len(s) /\ \A i \in 1 .. Len(s) : s[i] \in S
  BY LenProperties
<1>2. Reverse(s) = r
  BY DEF Reverse
<1>3. \A i \in 1 .. Len(s) : (Len(s) - i) + 1 \in 1 .. Len(s) /\ (Len(s) - ((Len(s) - i) + 1)) + 1 = i
  BY <1>1
<1>4. DOMAIN r = 1 .. Len(s) /\ \A i \in 1 .. Len(s) : r[i] = s[(Len(s) - i) + 1]
  OBVIOUS
<1>5. r \in [1 .. Len(s) -> S]
  BY <1>1, <1>3
<1>6. r \in Seq(S) /\ Len(r) = Len(s)
  BY <1>1, <1>5, <1>4
<1> HIDE DEF r
<1>7. Range(r) = Range(s)
  <2>1. Range(r) \subseteq Range(s)
    BY <1>1, <1>3, <1>4 DEF Range
  <2>2. ASSUME NEW k \in 1 .. Len(s)
        PROVE  s[k] \in Range(r)
    <3>1. r[(Len(s) - k) + 1] = s[k]
      BY <1>3, <1>4
    <3> QED
      BY <1>3, <1>4, <3>1 DEF Range
  <2>3. Range(s) = {s[k] : k \in 1 .. Len(s)}
    BY <1>1 DEF Range
  <2> QED
    BY <2>1, <2>2, <2>3
<1>8. IsInjective(s) => IsInjective(r)
  <2> SUFFICES ASSUME IsInjective(s), NEW k \in 1 .. Len(s), NEW l \in 1 .. Len(s), r[k] = r[l]
               PROVE  k = l
    BY <1>4 DEF IsInjective
  <2>1. (Len(s) - k) + 1 = (Len(s) - l) + 1
    BY <1>1, <1>3, <1>4 DEF IsInjective
  <2> QED
    BY <1>1, <2>1
<1> QED
  BY <1>2, <1>6, <1>7, <1>8

\* An order of the items of a box is as long as the box, and has the same items.
LEMMA ShuffleFacts ==
  ASSUME NEW S, NEW s \in Seq(S), IsInjective(s), NEW order \in SetToSeqs(Range(s))
  PROVE  /\ order \in Seq(S) /\ Len(order) = Len(s) /\ IsInjective(order) /\ Range(order) = Range(s)
<1> DEFINE n == Len(s)
           R == Range(s)
<1>1. n \in Nat /\ s \in [1 .. n -> S] /\ DOMAIN s = 1 .. n /\ R \subseteq S
  BY LenProperties, RangeOfSeq
<1>2. s \in Bijection(1 .. n, R)
  BY <1>1 DEF Bijection, Injection, Surjection, Range, IsInjective
<1>3. ExistsBijection(1 .. n, R)
  BY <1>2 DEF ExistsBijection
<1>4. IsFiniteSet(R) /\ Cardinality(R) = n
  BY <1>1, <1>3, FS_NatBijection, FS_CountingElements
<1>5. order \in [1 .. n -> R] /\ \A i, j \in 1 .. n : i # j => order[i] # order[j]
  BY <1>4 DEF SetToSeqs
<1>6. order \in Injection(1 .. n, R)
  BY <1>5 DEF Injection, IsInjective
<1>7. IsFiniteSet(1 .. n) /\ Cardinality(1 .. n) = n
  BY <1>1, FS_Interval, SMTT(40)
<1>8. order \in Surjection(1 .. n, R)
  BY <1>4, <1>6, <1>7, FS_Injection
<1>9. order \in Seq(S) /\ Len(order) = n /\ DOMAIN order = 1 .. n
  BY <1>1, <1>5
<1>10. Range(order) = R /\ IsInjective(order)
  BY <1>6, <1>8, <1>9 DEF Surjection, Injection, Range
<1> QED
  BY <1>9, <1>10

-----------------------------------------------------------------------------
(* Where the pieces are.  The same of any boxes, stacks and snap points as of the *)
(* state's own, as actions change them in steps.                                  *)

TidyBoxes(b) ==
  /\ b \in [Boxes -> Seq(Pieces)]
  /\ \A x \in Boxes : Len(b[x]) <= Capacity[x] /\ IsInjective(b[x])
  /\ \A x, y \in Boxes : x # y => Range(b[x]) \cap Range(b[y]) = {}

TidyStacks(t) ==
  /\ \A s \in t : s \in Seq(Stackable) /\ s # << >> /\ IsInjective(s)
  /\ \A s, u \in t : s # u => Range(s) \cap Range(u) = {}

TidySnaps(a) ==
  /\ a \in [SnapPoints -> SUBSET Pieces]
  /\ \A n \in SnapPoints : a[n] \subseteq SnapTakes[n] /\ Cardinality(a[n]) <= Capacity[n]
  /\ \A m, n \in SnapPoints : m # n => a[m] \cap a[n] = {}

Apart(b, t, a) ==
  /\ \A x \in Boxes, s \in t : Range(b[x]) \cap Range(s) = {}
  /\ \A x \in Boxes, n \in SnapPoints : Range(b[x]) \cap a[n] = {}
  /\ \A s \in t, n \in SnapPoints : Range(s) \cap a[n] = {}

Tidy(b, t, a) == TidyBoxes(b) /\ TidyStacks(t) /\ TidySnaps(a) /\ Apart(b, t, a)

Free(p, b, t, a) ==
  /\ \A x \in Boxes : p \notin Range(b[x])
  /\ \A s \in t : p \notin Range(s)
  /\ \A n \in SnapPoints : p \notin a[n]

TableInv ==
  /\ Tidy(box, stacks, attached)
  /\ members \in [Zones -> SUBSET Pieces]
  /\ ValidEntities
  /\ present \subseteq Players
  /\ \A p \in Pieces : heldBy[p] \in present \cup {None}

LEMMA LooseIsFree == \A p : Loose(p) <=> Free(p, box, stacks, attached)
BY DEF Loose, Boxed, Stacked, Snapped, Free

LEMMA FewerStacks ==
  ASSUME NEW b, NEW t, NEW a, NEW u, Tidy(b, t, a), u \subseteq t
  PROVE  Tidy(b, u, a)
BY DEF Tidy, TidyStacks, Apart

\* A new stack, of pieces that are nowhere else.
LEMMA NewStack ==
  ASSUME NEW b, NEW t, NEW a, NEW q, Tidy(b, t, a), q \in Seq(Stackable), q # << >>, IsInjective(q),
         \A p \in Range(q) : Free(p, b, t, a)
  PROVE  Tidy(b, t \cup {q}, a)
<1>1. TidyStacks(t \cup {q})
  BY DEF Tidy, TidyStacks, Free
<1>2. Apart(b, t \cup {q}, a)
  BY DEF Tidy, Apart, Free
<1> QED
  BY <1>1, <1>2 DEF Tidy

\* Other boxes, of what was in the boxes or nowhere.
LEMMA NewBoxes ==
  ASSUME NEW b, NEW t, NEW a, NEW c, Tidy(b, t, a), TidyBoxes(c),
         \A x \in Boxes : \A p \in Range(c[x]) : (\E y \in Boxes : p \in Range(b[y])) \/ Free(p, b, t, a)
  PROVE  Tidy(c, t, a)
<1>1. Apart(c, t, a)
  BY DEF Tidy, Apart, Free
<1> QED
  BY <1>1 DEF Tidy

LEMMA PutOnSnap ==
  ASSUME NEW b, NEW t, NEW a, NEW p \in Pieces, NEW n \in SnapPoints, Tidy(b, t, a), Free(p, b, t, a),
         p \in SnapTakes[n], Cardinality(a[n]) < Capacity[n]
  PROVE  Tidy(b, t, [a EXCEPT ![n] = @ \cup {p}])
<1> DEFINE more == a[n] \cup {p}
           c == [a EXCEPT ![n] = more]
<1>1. /\ a \in [SnapPoints -> SUBSET Pieces] /\ a[n] \subseteq Pieces /\ p \notin a[n]
      /\ \A m \in SnapPoints : a[m] \subseteq SnapTakes[m] /\ Cardinality(a[m]) <= Capacity[m] /\ p \notin a[m]
  BY DEF Tidy, TidySnaps, Free
<1>2. IsFiniteSet(a[n]) /\ Cardinality(a[n]) \in Nat /\ Capacity[n] \in Nat
  BY <1>1, TableAssumption, FS_Subset, FS_CardinalityType
<1>3. Cardinality(more) = Cardinality(a[n]) + 1
  BY <1>1, <1>2, FS_AddElement
<1>4. Cardinality(more) <= Capacity[n] /\ more \subseteq SnapTakes[n] /\ more \subseteq Pieces
  BY <1>1, <1>2, <1>3
<1>5. \A q \in more : q \in a[n] \/ q = p
  OBVIOUS
<1>6. a[n] \subseteq more
  OBVIOUS
<1> HIDE DEF more
<1>7. c[n] = more /\ (\A m \in SnapPoints \ {n} : c[m] = a[m]) /\ c \in [SnapPoints -> SUBSET Pieces]
  BY <1>1, <1>4
<1>8. c = [a EXCEPT ![n] = @ \cup {p}]
  BY DEF more
<1> HIDE DEF c
<1>9. TidySnaps(c)
  <2>1. \A m \in SnapPoints : c[m] \subseteq SnapTakes[m] /\ Cardinality(c[m]) <= Capacity[m]
    BY <1>1, <1>4, <1>7
  <2>2. \A m, k \in SnapPoints : m # k => c[m] \cap c[k] = {}
    BY <1>1, <1>5, <1>7 DEF Tidy, TidySnaps
  <2> QED
    BY <1>7, <2>1, <2>2 DEF TidySnaps
<1>10. Apart(b, t, c)
  BY <1>5, <1>7 DEF Tidy, Apart, Free
<1> QED
  BY <1>8, <1>9, <1>10 DEF Tidy

\* detachExclusivePlacement: what is left is tidy, and the piece is nowhere.
LEMMA Detached ==
  ASSUME Tidy(box, stacks, attached), NEW p \in Pieces
  PROVE  /\ Tidy(BoxesWithout(p), StacksWithout(p), SnapsWithout(p))
         /\ Free(p, BoxesWithout(p), StacksWithout(p), SnapsWithout(p))
         /\ \A x \in Boxes : Range(BoxesWithout(p)[x]) = Range(box[x]) \ {p}
<1> DEFINE b == BoxesWithout(p)
           t == StacksWithout(p)
           a == SnapsWithout(p)
<1>1. /\ b \in [Boxes -> Seq(Pieces)]
      /\ \A x \in Boxes : /\ Range(b[x]) = Range(box[x]) \ {p} /\ IsInjective(b[x])
                          /\ Len(b[x]) <= Capacity[x]
  <2>1. ASSUME NEW x \in Boxes
        PROVE  /\ Without(box[x], p) \in Seq(Pieces) /\ IsInjective(Without(box[x], p))
               /\ Range(Without(box[x], p)) = Range(box[x]) \ {p}
               /\ Len(Without(box[x], p)) <= Capacity[x]
    <3>1. box[x] \in Seq(Pieces) /\ IsInjective(box[x]) /\ Len(box[x]) <= Capacity[x] /\ Capacity[x] \in Nat
      BY TableAssumption DEF Tidy, TidyBoxes
    <3>2. Len(box[x]) \in Nat
      BY <3>1, LenProperties
    <3> QED
      BY <3>1, <3>2, WithoutFacts
  <2> QED
    BY <2>1 DEF BoxesWithout
<1>2. ASSUME NEW s \in stacks
      PROVE  /\ Without(s, p) \in Seq(Stackable) /\ IsInjective(Without(s, p))
             /\ Range(Without(s, p)) = Range(s) \ {p}
  BY WithoutFacts DEF Tidy, TidyStacks
<1>3. \A u \in t : u # << >> /\ \E s \in stacks : u = Without(s, p)
  BY DEF StacksWithout
<1>4. /\ a \in [SnapPoints -> SUBSET Pieces] /\ \A n \in SnapPoints : a[n] = attached[n] \ {p}
  BY DEF SnapsWithout, Tidy, TidySnaps
<1> HIDE DEF b, t, a
<1>5. TidyBoxes(b)
  BY <1>1 DEF TidyBoxes, Tidy
<1>6. TidyStacks(t)
  <2>1. \A u \in t : u \in Seq(Stackable) /\ u # << >> /\ IsInjective(u)
    BY <1>2, <1>3
  <2>2. ASSUME NEW u \in t, NEW v \in t, u # v
        PROVE  Range(u) \cap Range(v) = {}
    <3>1. PICK s \in stacks, r \in stacks : u = Without(s, p) /\ v = Without(r, p)
      BY <1>3
    <3>2. s # r
      BY <2>2, <3>1
    <3> QED
      BY <1>2, <3>1, <3>2 DEF Tidy, TidyStacks
  <2> QED
    BY <2>1, <2>2 DEF TidyStacks
<1>7. TidySnaps(a)
  <2>1. ASSUME NEW n \in SnapPoints
        PROVE  a[n] \subseteq SnapTakes[n] /\ Cardinality(a[n]) <= Capacity[n]
    <3>1. attached[n] \subseteq SnapTakes[n] /\ Cardinality(attached[n]) <= Capacity[n] /\ attached[n] \subseteq Pieces
          /\ a[n] \subseteq attached[n]
      BY <1>4 DEF Tidy, TidySnaps
    <3>2. IsFiniteSet(attached[n]) /\ Capacity[n] \in Nat
      BY <3>1, TableAssumption, FS_Subset
    <3>3. Cardinality(a[n]) <= Cardinality(attached[n]) /\ IsFiniteSet(a[n])
      BY <3>1, <3>2, FS_Subset
    <3>4. Cardinality(a[n]) \in Nat /\ Cardinality(attached[n]) \in Nat
      BY <3>2, <3>3, FS_CardinalityType
    <3> QED
      BY <3>1, <3>2, <3>3, <3>4
  <2> QED
    BY <1>4, <2>1 DEF TidySnaps, Tidy
<1>8. Apart(b, t, a)
  <2>1. \A u \in t : \E s \in stacks : Range(u) \subseteq Range(s)
    BY <1>2, <1>3
  <2> QED
    BY <1>1, <1>4, <2>1 DEF Apart, Tidy
<1>9. Free(p, b, t, a)
  <2>1. \A u \in t : p \notin Range(u)
    BY <1>2, <1>3
  <2> QED
    BY <1>1, <1>4, <2>1 DEF Free
<1> QED
  BY <1>1, <1>5, <1>6, <1>7, <1>8, <1>9 DEF Tidy, b, t, a

\* A piece on a stack, or on a piece that is nowhere and so far no stack.
LEMMA StackOn ==
  ASSUME NEW b, NEW t, NEW a, NEW p \in Stackable, NEW s, Tidy(b, t, a), Free(p, b, t, a),
         s \in t \/ \E q \in Stackable \ {p} : s = <<q>> /\ Free(q, b, t, a)
  PROVE  Tidy(b, (t \ {s}) \cup {Append(s, p)}, a)
<1> DEFINE rest == t \ {s}
           new == Append(s, p)
<1>1. s \in Seq(Stackable) /\ IsInjective(s) /\ p \notin Range(s) /\ \A r \in Range(s) : Free(r, b, rest, a)
  <2>1. CASE s \in t
    <3>1. s \in Seq(Stackable) /\ IsInjective(s) /\ p \notin Range(s)
      BY <2>1 DEF Tidy, TidyStacks, Free
    <3>2. \A r \in Range(s) : Free(r, b, rest, a)
      BY <2>1 DEF Tidy, TidyStacks, Apart, Free
    <3> QED
      BY <3>1, <3>2
  <2>2. CASE \E q \in Stackable \ {p} : s = <<q>> /\ Free(q, b, t, a)
    <3>1. PICK q \in Stackable \ {p} : s = <<q>> /\ Free(q, b, t, a)
      BY <2>2
    <3>2. s \in Seq(Stackable) /\ IsInjective(s) /\ Range(s) = {q}
      BY <3>1, SingletonFacts
    <3> QED
      BY <3>1, <3>2 DEF Free
  <2> QED
    BY <2>1, <2>2
<1>2. new \in Seq(Stackable) /\ new # << >> /\ IsInjective(new) /\ Range(new) = Range(s) \cup {p}
  BY <1>1, AppendFacts
<1>3. Free(p, b, rest, a)
  BY DEF Free
<1>4. Tidy(b, rest, a)
  BY FewerStacks
<1> HIDE DEF rest, new
<1>5. \A r \in Range(new) : Free(r, b, rest, a)
  BY <1>1, <1>2, <1>3
<1>6. Tidy(b, rest \cup {new}, a)
  BY <1>2, <1>4, <1>5, NewStack
<1> QED
  BY <1>6 DEF rest, new

LEMMA RecomputeTyped ==
  ASSUME TableInv, NEW placed \in SUBSET Pieces, Recompute(placed)
  PROVE  members' \in [Zones -> SUBSET Pieces]
<1>1. members \in [Zones -> SUBSET Pieces]
  BY DEF TableInv
<1> DEFINE in(z) == {p \in placed : Inside(p, z)'}
<1>2. members' = [z \in Zones |-> (members[z] \ placed) \cup in(z)]
  BY DEF Recompute
<1>3. \A z \in Zones : in(z) \subseteq Pieces
  OBVIOUS
<1> HIDE DEF in
<1> QED
  BY <1>1, <1>2, <1>3

\* An action that touches neither hands nor positions.
LEMMA RestStays ==
  ASSUME TableInv, UNCHANGED <<heldBy, locked, at, present>>, Tidy(box', stacks', attached'),
         members' \in [Zones -> SUBSET Pieces]
  PROVE  TableInv'
BY DEF TableInv, ValidEntities

LEMMA InitTable == TableInit => TableInv
<1> SUFFICES ASSUME TableInit
             PROVE  TableInv
  OBVIOUS
<1>0. PICK inside \in SUBSET Pieces : \E order \in SetToSeqs(inside) : \E d \in Decks :
        /\ Len(order) <= Capacity[d]
        /\ box = [b \in Boxes |-> IF b = d THEN order ELSE << >>]
  BY DEF TableInit
<1>1. PICK order \in SetToSeqs(inside) : \E d \in Decks :
        /\ Len(order) <= Capacity[d]
        /\ box = [b \in Boxes |-> IF b = d THEN order ELSE << >>]
  BY <1>0
<1>2. order \in Seq(Pieces) /\ IsInjective(order)
  <2>1. IsFiniteSet(inside) /\ Cardinality(inside) \in Nat
    BY TableAssumption, FS_Subset, FS_CardinalityType
  <2>2. order \in [1 .. Cardinality(inside) -> inside] /\ \A i, j \in 1 .. Cardinality(inside) : i # j => order[i] # order[j]
    BY DEF SetToSeqs
  <2>3. DOMAIN order = 1 .. Cardinality(inside) /\ order \in [1 .. Cardinality(inside) -> Pieces]
    BY <2>2
  <2> QED
    BY <2>1, <2>2, <2>3 DEF IsInjective
<1> DEFINE none == << >>
<1>3. none \in Seq(Pieces) /\ Len(none) = 0 /\ IsInjective(none) /\ Range(none) = {}
  BY EmptySeq DEF IsInjective, Range
<1>4. PICK d \in Decks :
        Len(order) <= Capacity[d] /\ box = [b \in Boxes |-> IF b = d THEN order ELSE none]
  BY <1>1
<1> HIDE DEF none
<1>5. TidyBoxes(box)
  <2>1. \A b \in Boxes : Capacity[b] \in Nat
    BY TableAssumption
  <2> QED
    BY <1>2, <1>3, <1>4, <2>1 DEF TidyBoxes
<1>6. TidyStacks(stacks) /\ stacks = {}
  BY DEF TableInit, TidyStacks
<1>7. TidySnaps(attached) /\ \A n \in SnapPoints : attached[n] = {}
  <2>1. attached = [n \in SnapPoints |-> {}] /\ \A n \in SnapPoints : Capacity[n] \in Nat
    BY TableAssumption DEF TableInit
  <2> QED
    BY <2>1, FS_EmptySet DEF TidySnaps
<1>8. Apart(box, stacks, attached)
  BY <1>6, <1>7 DEF Apart
<1> QED
  BY <1>5, <1>6, <1>7, <1>8 DEF TableInv, Tidy, TableInit, ValidEntities

LEMMA PeopleKeep ==
  ASSUME TableInv, NEW player \in Players,
         PlayerJoined(player) \/ PlayerLeft(player) \/ \E p \in Pieces : Grab(player, p)
  PROVE  TableInv'
<1>1. UNCHANGED <<box, stacks, attached, locked, at, members>>
  BY DEF PlayerJoined, PlayerLeft, Grab
<1>2. Tidy(box, stacks, attached)'
  BY <1>1 DEF TableInv
<1>3. CASE PlayerJoined(player)
  BY <1>1, <1>2, <1>3 DEF PlayerJoined, TableInv, ValidEntities
<1>4. CASE PlayerLeft(player)
  BY <1>1, <1>2, <1>4 DEF PlayerLeft, TableInv, ValidEntities
<1>5. CASE \E p \in Pieces : Grab(player, p)
  BY <1>1, <1>2, <1>5 DEF Grab, TableInv, ValidEntities
<1> QED
  BY <1>3, <1>4, <1>5

LEMMA DropKeeps ==
  ASSUME TableInv, NEW player \in Players, NEW p \in Pieces, NEW place \in Places, Drop(player, p, place)
  PROVE  TableInv'
<1> DEFINE b == BoxesWithout(p)
           t == StacksWithout(p)
           a == SnapsWithout(p)
<1>1. /\ Tidy(b, t, a) /\ Free(p, b, t, a)
      /\ \A x \in Boxes : Range(b[x]) = Range(box[x]) \ {p}
  BY Detached DEF TableInv
<1>2. /\ box' = b /\ heldBy' = [heldBy EXCEPT ![p] = None] /\ at' = [at EXCEPT ![p] = place]
      /\ UNCHANGED <<locked, present>> /\ Recompute({p})
  BY DEF Drop
<1>3. Tidy(box', stacks', attached')
  <2>1. CASE \E n \in NearestSnapPoints(p, place) :
                attached' = [SnapsWithout(p) EXCEPT ![n] = @ \cup {p}] /\ stacks' = t
    <3>1. PICK n \in SnapPoints : HasRoom(p, n) /\ attached' = [SnapsWithout(p) EXCEPT ![n] = @ \cup {p}] /\ stacks' = t
      BY <2>1 DEF NearestSnapPoints
    <3>2. p \in SnapTakes[n] /\ Cardinality(a[n]) < Capacity[n] /\ attached' = [a EXCEPT ![n] = @ \cup {p}]
      BY <3>1 DEF HasRoom, SnapsWithout
    <3> HIDE DEF a, b, t
    <3>3. Tidy(b, t, [a EXCEPT ![n] = @ \cup {p}])
      BY <1>1, <3>2, PutOnSnap
    <3> QED
      BY <1>2, <3>1, <3>2, <3>3
  <2>2. CASE attached' = a /\ stacks' = t
    BY <1>1, <1>2, <2>2
  <2>3. CASE attached' = a /\ \E s \in StackTargets(p, place) : stacks' = (t \ {s}) \cup {Append(s, p)}
    <3>1. PICK s \in StackTargets(p, place) : stacks' = (t \ {s}) \cup {Append(s, p)}
      BY <2>3
    <3>2. p \in Stackable
      BY <3>1 DEF StackTargets
    <3>3. s \in t \/ \E q \in Stackable \ {p} : s = <<q>> /\ Loose(q)
      BY <3>1 DEF StackTargets
    <3>4. \A q : Loose(q) => Free(q, b, t, a)
      <4>1. ASSUME NEW q, Loose(q)
            PROVE  Free(q, b, t, a)
        <5>1. Free(q, box, stacks, attached)
          BY <4>1, LooseIsFree
        <5>2. \A u \in t : q \notin Range(u)
          <6>1. ASSUME NEW u \in t
                PROVE  \E s2 \in stacks : Range(u) \subseteq Range(s2)
            <7>1. PICK s2 \in stacks : u = Without(s2, p)
              BY DEF StacksWithout
            <7>2. s2 \in Seq(Stackable) /\ IsInjective(s2)
              BY DEF TableInv, Tidy, TidyStacks
            <7> QED
              BY <7>1, <7>2, WithoutFacts
          <6> QED
            BY <5>1, <6>1 DEF Free
        <5>3. \A n \in SnapPoints : q \notin a[n]
          BY <5>1 DEF Free, SnapsWithout
        <5> HIDE DEF a, b, t
        <5> QED
          BY <1>1, <5>1, <5>2, <5>3 DEF Free
      <4> QED
        BY <4>1
    <3> HIDE DEF a, b, t
    <3> QED
      BY <1>1, <1>2, <2>3, <3>1, <3>2, <3>3, <3>4, StackOn
  <2> QED
    BY <2>1, <2>2, <2>3 DEF Drop
<1>4. members' \in [Zones -> SUBSET Pieces]
  BY <1>2, RecomputeTyped
<1>5. ValidEntities' /\ \A q \in Pieces : heldBy'[q] \in present' \cup {None}
  BY <1>2 DEF TableInv, ValidEntities
<1> QED
  BY <1>2, <1>3, <1>4, <1>5 DEF TableInv

LEMMA MoveKeeps ==
  ASSUME TableInv, NEW p \in Pieces,
         (\E place \in Places : Move(p, place)) \/ \E n \in SnapPoints : SnapAttach(p, n)
  PROVE  TableInv'
<1> DEFINE b == BoxesWithout(p)
           t == StacksWithout(p)
           a == SnapsWithout(p)
<1>1. /\ Tidy(b, t, a) /\ Free(p, b, t, a)
  BY Detached DEF TableInv
<1>2. /\ box' = b /\ stacks' = t /\ UNCHANGED <<heldBy, locked, present>> /\ Recompute({p})
  BY DEF Move, SnapAttach
<1>3. members' \in [Zones -> SUBSET Pieces]
  BY <1>2, RecomputeTyped
<1>4. Tidy(box', stacks', attached')
  <2>1. CASE attached' = a
    BY <1>1, <1>2, <2>1
  <2>2. CASE \E n \in SnapPoints : SnapAttach(p, n)
    <3>1. PICK n \in SnapPoints : HasRoom(p, n) /\ attached' = [SnapsWithout(p) EXCEPT ![n] = @ \cup {p}]
      BY <2>2 DEF SnapAttach
    <3>2. p \in SnapTakes[n] /\ Cardinality(a[n]) < Capacity[n] /\ attached' = [a EXCEPT ![n] = @ \cup {p}]
      BY <3>1 DEF HasRoom, SnapsWithout
    <3> HIDE DEF a, b, t
    <3> QED
      BY <1>1, <1>2, <3>2, PutOnSnap
  <2> QED
    BY <2>1, <2>2 DEF Move
<1>5. at' \in [Pieces -> Places]
  BY DEF Move, SnapAttach, TableInv, ValidEntities
<1> HIDE DEF a, b, t
<1> QED
  BY <1>2, <1>3, <1>4, <1>5 DEF TableInv, ValidEntities

LEMMA LockKeeps ==
  ASSUME TableInv, NEW p \in Pieces, NEW value \in BOOLEAN, SetLocked(p, value)
  PROVE  TableInv'
<1>1. /\ p \in Lockable /\ locked' = [locked EXCEPT ![p] = value]
      /\ UNCHANGED <<box, stacks, attached, heldBy, at, members, present>>
  BY DEF SetLocked
<1>2. locked' \in [Pieces -> BOOLEAN] /\ \A q \in Pieces \ Lockable : ~locked'[q]
  BY <1>1 DEF TableInv, ValidEntities
<1>3. Tidy(box, stacks, attached)'
  BY <1>1 DEF TableInv
<1> QED
  BY <1>1, <1>2, <1>3 DEF TableInv, ValidEntities

\* What the boxes hold after a transfer.
HaveTaken(c, p, to) ==
  /\ c \in [Boxes -> Seq(Pieces)]
  /\ \A x \in Boxes :
       /\ Len(c[x]) <= Capacity[x] /\ IsInjective(c[x])
       /\ x = to => Range(c[x]) = Range(box[x]) \cup {p}
       /\ x # to => Range(c[x]) = Range(box[x]) \ {p}

LEMMA TransferFacts ==
  ASSUME TableInv, NEW p \in Pieces, NEW from \in Boxes \cup {World}, NEW to \in Boxes \cup {World},
         NEW index, CanTransfer(p, from, to), to \in Boxes => index \in 1 .. Len(box[to]) + 1
  PROVE  HaveTaken(Transferred(p, from, to, index), p, to)
<1>0. PICK c : c = Transferred(p, from, to, index)
  OBVIOUS
<1>1. \A x \in Boxes : /\ box[x] \in Seq(Pieces) /\ IsInjective(box[x]) /\ Len(box[x]) <= Capacity[x]
                       /\ Len(box[x]) \in Nat /\ Capacity[x] \in Nat
  BY LenProperties, TableAssumption DEF TableInv, Tidy, TidyBoxes
<1>2. from # to /\ World \notin Boxes
  BY TableAssumption DEF CanTransfer
<1>3. \A x \in Boxes \ {from} : p \notin Range(box[x])
  BY <1>2, LooseIsFree DEF CanTransfer, Free, TableInv, Tidy, TidyBoxes
<1>4. ASSUME NEW x \in Boxes
      PROVE  /\ c[x] \in Seq(Pieces) /\ Len(c[x]) <= Capacity[x] /\ IsInjective(c[x])
             /\ x = to => Range(c[x]) = Range(box[x]) \cup {p}
             /\ x # to => Range(c[x]) = Range(box[x]) \ {p}
  <2>1. CASE x = from
    <3>1. c[x] = Without(box[x], p) /\ x # to
      BY <1>0, <1>2, <2>1 DEF Transferred
    <3>2. /\ Without(box[x], p) \in Seq(Pieces) /\ IsInjective(Without(box[x], p))
          /\ Range(Without(box[x], p)) = Range(box[x]) \ {p}
          /\ Len(Without(box[x], p)) = IF p \in Range(box[x]) THEN Len(box[x]) - 1 ELSE Len(box[x])
      BY <1>1, WithoutFacts
    <3> QED
      BY <1>1, <3>1, <3>2
  <2>2. CASE x = to
    <3>1. c[x] = InsertAt(box[x], index, p) /\ p \notin Range(box[x]) /\ Len(box[x]) < Capacity[x]
      BY <1>0, <1>2, <1>3, <2>2 DEF Transferred, CanTransfer
    <3>2. /\ InsertAt(box[x], index, p) \in Seq(Pieces) /\ Len(InsertAt(box[x], index, p)) = Len(box[x]) + 1
          /\ Range(InsertAt(box[x], index, p)) = Range(box[x]) \cup {p}
          /\ IsInjective(box[x]) /\ p \notin Range(box[x]) => IsInjective(InsertAt(box[x], index, p))
      <4>1. index \in 1 .. Len(box[x]) + 1 /\ box[x] \in Seq(Pieces)
        BY <1>1, <2>2
      <4> QED
        BY <4>1, InsertFacts
    <3> QED
      BY <1>1, <2>2, <3>1, <3>2
  <2>3. CASE x # from /\ x # to
    <3>1. c[x] = box[x] /\ p \notin Range(box[x])
      BY <1>0, <1>3, <2>3 DEF Transferred
    <3> QED
      BY <1>1, <2>3, <3>1
  <2> QED
    BY <2>1, <2>2, <2>3
<1>5. c = [x \in Boxes |-> c[x]]
  BY <1>0 DEF Transferred
<1>6. c \in [Boxes -> Seq(Pieces)]
  BY <1>4, <1>5
<1> QED
  BY <1>0, <1>4, <1>6 DEF HaveTaken

LEMMA TransferKeeps ==
  ASSUME TableInv, NEW p \in Pieces, NEW from \in Boxes \cup {World}, NEW to \in Boxes \cup {World},
         NEW index \in IF to = World THEN {0} ELSE 1 .. Len(box[to]) + 1, ContainerMove(p, from, to, index)
  PROVE  TableInv'
<1>1. /\ CanTransfer(p, from, to) /\ box' = Transferred(p, from, to, index)
      /\ UNCHANGED <<stacks, attached, heldBy, locked, at, present>> /\ Recompute({p})
  BY DEF ContainerMove
<1>2. /\ box' \in [Boxes -> Seq(Pieces)]
      /\ \A x \in Boxes :
           /\ Len(box'[x]) <= Capacity[x] /\ IsInjective(box'[x])
           /\ x = to => Range(box'[x]) = Range(box[x]) \cup {p}
           /\ x # to => Range(box'[x]) = Range(box[x]) \ {p}
  <2>1. to \in Boxes => index \in 1 .. Len(box[to]) + 1
    BY TableAssumption
  <2>2. CanTransfer(p, from, to)
    BY <1>1
  <2>3. HaveTaken(Transferred(p, from, to, index), p, to)
    BY <2>1, <2>2, TransferFacts
  <2> QED
    BY <1>1, <2>3 DEF HaveTaken
<1>3. TidyBoxes(box')
  BY <1>2 DEF TidyBoxes, TableInv, Tidy
<1>4. (\E y \in Boxes : p \in Range(box[y])) \/ Free(p, box, stacks, attached)
  BY <1>1, LooseIsFree DEF CanTransfer
<1>5. Tidy(box', stacks, attached)
  <2>1. \A x \in Boxes : \A q \in Range(box'[x]) :
          (\E y \in Boxes : q \in Range(box[y])) \/ Free(q, box, stacks, attached)
    BY <1>2, <1>4
  <2>2. Tidy(box, stacks, attached)
    BY DEF TableInv
  <2> QED
    BY <1>3, <2>1, <2>2, NewBoxes
<1> QED
  BY <1>1, <1>5, RecomputeTyped, RestStays

LEMMA ShuffleKeeps ==
  ASSUME TableInv, NEW deck \in Decks, DeckShuffle(deck)
  PROVE  TableInv' /\ \A x \in Boxes : Range(box'[x]) = Range(box[x])
<1>0. deck \in Boxes /\ Tidy(box, stacks, attached)
  BY TableAssumption DEF TableInv
<1>1. PICK order \in SetToSeqs(Range(box[deck])) : box' = [box EXCEPT ![deck] = order]
  BY DEF DeckShuffle
<1>2. /\ order \in Seq(Pieces) /\ Len(order) = Len(box[deck]) /\ IsInjective(order)
      /\ Range(order) = Range(box[deck])
  <2>1. box[deck] \in Seq(Pieces) /\ IsInjective(box[deck])
    BY <1>0 DEF Tidy, TidyBoxes
  <2> QED
    BY <2>1, ShuffleFacts
<1>3. /\ box' \in [Boxes -> Seq(Pieces)]
      /\ \A x \in Boxes : Len(box'[x]) = Len(box[x]) /\ IsInjective(box'[x]) /\ Range(box'[x]) = Range(box[x])
  BY <1>0, <1>1, <1>2 DEF Tidy, TidyBoxes
<1>4. TidyBoxes(box')
  BY <1>0, <1>3 DEF Tidy, TidyBoxes
<1>5. Tidy(box', stacks, attached)
  BY <1>0, <1>3, <1>4, NewBoxes
<1> QED
  BY <1>3, <1>5, RestStays DEF DeckShuffle, TableInv

\* What is drawn leaves the top of the deck, and nothing else moves.
LEMMA DrawFacts ==
  ASSUME TableInv, NEW deck \in Decks, NEW to \in Boxes, NEW count \in 1 .. Len(box[deck]),
         DeckDraw(deck, to, count)
  PROVE  /\ TidyBoxes(box')
         /\ Range(box'[deck]) \cup Range(box'[to]) = Range(box[deck]) \cup Range(box[to])
         /\ \A x \in Boxes \ {deck, to} : box'[x] = box[x]
<1> DEFINE left == Len(box[deck]) - count
           kept == SubSeq(box[deck], 1, left)
           drawn == SubSeq(box[deck], left + 1, left + count)
           more == box[to] \o Reverse(drawn)
<1>1. /\ deck \in Boxes /\ deck # to /\ Len(box[to]) + count <= Capacity[to]
      /\ box' = [box EXCEPT ![deck] = kept, ![to] = more]
  BY TableAssumption DEF DeckDraw
<1>2. \A x \in Boxes : /\ box[x] \in Seq(Pieces) /\ IsInjective(box[x]) /\ Len(box[x]) <= Capacity[x]
                       /\ Len(box[x]) \in Nat /\ Capacity[x] \in Nat
  BY LenProperties, TableAssumption DEF TableInv, Tidy, TidyBoxes
<1>3. left \in 0 .. Len(box[deck]) /\ left + count = Len(box[deck]) /\ count \in Nat
  BY <1>1, <1>2
<1>4. /\ kept \in Seq(Pieces) /\ Len(kept) = left /\ drawn \in Seq(Pieces) /\ Len(drawn) = count
      /\ Range(kept) \cup Range(drawn) = Range(box[deck])
      /\ IsInjective(kept) /\ IsInjective(drawn) /\ Range(kept) \cap Range(drawn) = {}
  <2> DEFINE rest == SubSeq(box[deck], left + 1, Len(box[deck]))
  <2>1. drawn = rest
    BY <1>3
  <2>2. /\ kept \in Seq(Pieces) /\ Len(kept) = left
        /\ rest \in Seq(Pieces) /\ Len(rest) = Len(box[deck]) - left
        /\ Range(kept) \cup Range(rest) = Range(box[deck])
        /\ IsInjective(box[deck]) =>
             /\ IsInjective(kept) /\ IsInjective(rest)
             /\ Range(kept) \cap Range(rest) = {}
    <3>1. box[deck] \in Seq(Pieces) /\ left \in 0 .. Len(box[deck])
      BY <1>1, <1>2, <1>3
    <3> HIDE DEF left
    <3> QED
      BY <3>1, CutFacts
  <2>3. Len(box[deck]) - left = count
    BY <1>1, <1>2, <1>3
  <2> HIDE DEF kept, drawn, rest, left
  <2> QED
    BY <1>1, <1>2, <2>1, <2>2, <2>3
<1> HIDE DEF kept, drawn, left
<1>5. Range(box[deck]) \cap Range(box[to]) = {}
  BY <1>1 DEF TableInv, Tidy, TidyBoxes
<1>6. /\ Reverse(drawn) \in Seq(Pieces) /\ Len(Reverse(drawn)) = count /\ Range(Reverse(drawn)) = Range(drawn)
      /\ IsInjective(Reverse(drawn))
  BY <1>4, ReverseFacts
<1> DEFINE rev == Reverse(drawn)
<1> HIDE DEF rev
<1>7. /\ more \in Seq(Pieces) /\ Len(more) = Len(box[to]) + count /\ Range(more) = Range(box[to]) \cup Range(drawn)
      /\ IsInjective(more)
  <2>1. /\ rev \in Seq(Pieces) /\ Len(rev) = count /\ Range(rev) = Range(drawn) /\ IsInjective(rev)
        /\ more = box[to] \o rev
    BY <1>6 DEF rev
  <2>2. box[to] \in Seq(Pieces) /\ IsInjective(box[to]) /\ Range(box[to]) \cap Range(rev) = {}
    BY <1>2, <1>4, <1>5, <2>1
  <2> HIDE DEF more
  <2> QED
    BY <2>1, <2>2, ConcatFacts
<1> HIDE DEF more
<1>8. /\ box'[deck] = kept /\ box'[to] = more /\ \A x \in Boxes \ {deck, to} : box'[x] = box[x]
      /\ box' \in [Boxes -> Seq(Pieces)]
  BY <1>1, <1>2, <1>4, <1>7 DEF TableInv, Tidy, TidyBoxes
<1>9. \A x \in Boxes : Len(box'[x]) <= Capacity[x] /\ IsInjective(box'[x])
  <2>1. left <= Capacity[deck]
    BY <1>1, <1>2, <1>3
  <2> QED
    BY <1>1, <1>2, <1>4, <1>7, <1>8, <2>1
<1>10. Range(kept) \subseteq Range(box[deck]) /\ Range(drawn) \subseteq Range(box[deck])
  BY <1>4
<1>11. \A x, y \in Boxes : x # y => Range(box'[x]) \cap Range(box'[y]) = {}
  <2>1. Range(kept) \cap Range(more) = {}
    BY <1>4, <1>5, <1>7
  <2>2. ASSUME NEW x \in Boxes \ {deck, to}
        PROVE  Range(box[x]) \cap Range(kept) = {} /\ Range(box[x]) \cap Range(more) = {}
    <3>1. Range(box[x]) \cap Range(box[deck]) = {} /\ Range(box[x]) \cap Range(box[to]) = {}
      BY <1>1 DEF TableInv, Tidy, TidyBoxes
    <3> QED
      BY <1>7, <1>10, <3>1
  <2>3. \A x, y \in Boxes \ {deck, to} : x # y => Range(box[x]) \cap Range(box[y]) = {}
    BY DEF TableInv, Tidy, TidyBoxes
  <2> QED
    BY <1>8, <2>1, <2>2, <2>3
<1>12. Range(kept) \cup Range(more) = Range(box[deck]) \cup Range(box[to])
  BY <1>4, <1>7
<1> QED
  BY <1>8, <1>9, <1>11, <1>12 DEF TidyBoxes

LEMMA DrawKeeps ==
  ASSUME TableInv, NEW deck \in Decks, NEW to \in Boxes, NEW count \in 1 .. Len(box[deck]),
         DeckDraw(deck, to, count)
  PROVE  TableInv'
<1>1. /\ TidyBoxes(box') /\ deck \in Boxes
      /\ Range(box'[deck]) \cup Range(box'[to]) = Range(box[deck]) \cup Range(box[to])
      /\ \A x \in Boxes \ {deck, to} : box'[x] = box[x]
  BY DrawFacts, TableAssumption
<1>2. \A x \in Boxes : \A q \in Range(box'[x]) : \E y \in Boxes : q \in Range(box[y])
  <2> SUFFICES ASSUME NEW x \in Boxes, NEW q \in Range(box'[x])
               PROVE  \E y \in Boxes : q \in Range(box[y])
    OBVIOUS
  <2>1. CASE x \in {deck, to}
    BY <1>1, <2>1
  <2>2. CASE x \notin {deck, to}
    BY <1>1, <2>2
  <2> QED
    BY <2>1, <2>2
<1>3. Tidy(box', stacks, attached)
  BY <1>1, <1>2, NewBoxes DEF TableInv
<1> QED
  BY <1>3, RestStays DEF DeckDraw, TableInv

\* Only the stacks change: what is left of them, and new ones of free pieces.
LEMMA RestackKeeps ==
  ASSUME TableInv, NEW new, NEW placed \in SUBSET Pieces, Restacked(new, placed), Tidy(box, new, attached)
  PROVE  TableInv'
<1>1. stacks' = new /\ UNCHANGED <<box, attached, heldBy, locked, at, present>> /\ Recompute(placed)
  BY DEF Restacked
<1>2. Tidy(box', stacks', attached')
  BY <1>1
<1> QED
  BY <1>1, <1>2, RecomputeTyped, RestStays

LEMMA StackedPieces ==
  ASSUME TableInv, NEW s \in stacks
  PROVE  /\ s \in Seq(Stackable) /\ Len(s) \in Nat \ {0} /\ DOMAIN s = 1 .. Len(s) /\ IsInjective(s)
         /\ Range(s) \subseteq Pieces /\ Last(s) \in Range(s)
         /\ \A r \in Range(s) : Free(r, box, stacks \ {s}, attached)
<1>1. s \in Seq(Stackable) /\ s # << >> /\ IsInjective(s)
  BY DEF TableInv, Tidy, TidyStacks
<1>2. Len(s) \in Nat \ {0} /\ DOMAIN s = 1 .. Len(s)
  BY <1>1, EmptySeq, LenProperties
<1>3. Last(s) \in Range(s)
  BY <1>2 DEF Last, Range
<1>4. Range(s) \subseteq Pieces
  BY <1>1, RangeOfSeq, TableAssumption
<1>5. \A r \in Range(s) : Free(r, box, stacks \ {s}, attached)
  BY DEF TableInv, Tidy, TidyStacks, Apart, Free
<1> QED
  BY <1>1, <1>2, <1>3, <1>4, <1>5

LEMMA CreateKeeps ==
  ASSUME TableInv, NEW inside \in SUBSET Pieces, NEW items \in SetToSeqs(inside), StackCreate(items)
  PROVE  TableInv' /\ Range(items) \subseteq Pieces
<1>1. IsFiniteSet(inside) /\ Cardinality(inside) \in Nat
  BY TableAssumption, FS_Subset, FS_CardinalityType
<1> DEFINE n == Cardinality(inside)
<1>2. items \in [1 .. n -> inside] /\ \A i, j \in 1 .. n : i # j => items[i] # items[j]
  BY DEF SetToSeqs
<1>3. \A p \in Range(items) : p \in Stackable /\ Free(p, box, stacks, attached)
  BY LooseIsFree DEF StackCreate, CanBeStacked
<1> HIDE DEF n
<1>4. items \in Seq(Stackable) /\ Len(items) = n /\ DOMAIN items = 1 .. n
  <2>1. n \in Nat /\ DOMAIN items = 1 .. n
    BY <1>1, <1>2 DEF n
  <2>2. \A i \in 1 .. n : items[i] \in Stackable
    BY <1>3, <2>1 DEF Range
  <2>3. items \in [1 .. n -> Stackable]
    BY <1>2, <2>2
  <2> QED
    BY <2>1, <2>3
<1>5. IsInjective(items) /\ Range(items) \subseteq Pieces
  BY <1>2, <1>3, <1>4, TableAssumption DEF IsInjective
<1>6. items # << >>
  <2>1. Len(items) >= 2
    BY DEF StackCreate
  <2>2. Len(<< >>) = 0
    BY EmptySeq
  <2> QED
    BY <2>1, <2>2
<1>7. Tidy(box, stacks \cup {items}, attached)
  BY <1>3, <1>4, <1>5, <1>6, NewStack DEF TableInv
<1> QED
  BY <1>5, <1>7, RestackKeeps DEF StackCreate

LEMMA AddKeeps ==
  ASSUME TableInv, NEW s \in stacks, NEW p \in Pieces, StackAdd(s, p)
  PROVE  TableInv'
<1>1. p \in Stackable /\ Free(p, box, stacks, attached)
  BY LooseIsFree DEF StackAdd, CanBeStacked
<1>2. Tidy(box, (stacks \ {s}) \cup {Append(s, p)}, attached)
  BY <1>1, StackOn DEF TableInv
<1> QED
  BY <1>2, RestackKeeps DEF StackAdd

\* Without its top a stack is its front, or nothing; the other stacks stay.
LEMMA WithoutTop ==
  ASSUME TableInv, NEW s \in stacks
  PROVE  /\ Without(s, Last(s)) = Front(s)
         /\ \A t \in stacks \ {s} : Without(t, Last(s)) = t
<1>1. /\ s \in Seq(Stackable) /\ Len(s) \in Nat \ {0} /\ DOMAIN s = 1 .. Len(s) /\ IsInjective(s)
      /\ Last(s) \in Range(s) /\ Last(s) = s[Len(s)]
  BY StackedPieces DEF Last
<1>2. Without(s, Last(s)) = Front(s)
  <2> DEFINE i == CHOOSE j \in DOMAIN s : s[j] = Last(s)
  <2>1. i \in 1 .. Len(s) /\ s[i] = s[Len(s)]
    BY <1>1 DEF Range
  <2>2. i = Len(s)
    BY <1>1, <2>1 DEF IsInjective
  <2>3. Without(s, Last(s)) = RemoveAt(s, i)
    BY <1>1 DEF Without
  <2> HIDE DEF i
  <2>4. RemoveAt(s, Len(s)) = SubSeq(s, 1, Len(s) - 1) \o SubSeq(s, Len(s) + 1, Len(s))
    BY DEF RemoveAt
  <2>5. SubSeq(s, Len(s) + 1, Len(s)) = << >>
    BY <1>1, SubSeqEmpty
  <2>6. SubSeq(s, 1, Len(s) - 1) \in Seq(Stackable)
    <3>1. 1 \in 1 .. Len(s) + 1 /\ Len(s) - 1 \in 1 - 1 .. Len(s)
      BY <1>1
    <3> QED
      BY <1>1, <3>1, SliceFacts
  <2>7. SubSeq(s, 1, Len(s) - 1) \o << >> = SubSeq(s, 1, Len(s) - 1)
    BY <2>6, ConcatEmptySeq
  <2> QED
    BY <2>2, <2>3, <2>4, <2>5, <2>7 DEF Front
<1>3. \A t \in stacks \ {s} : Last(s) \notin Range(t)
  BY <1>1 DEF TableInv, Tidy, TidyStacks
<1> QED
  BY <1>2, <1>3 DEF Without

LEMMA RemoveTopKeeps ==
  ASSUME TableInv, NEW s \in stacks, StackRemoveTop(s)
  PROVE  TableInv'
<1>1. Last(s) \in Pieces /\ Last(s) \in Range(s)
  BY StackedPieces
<1>2. BoxesWithout(Last(s)) = box /\ SnapsWithout(Last(s)) = attached
  <2>1. \A x \in Boxes : Last(s) \notin Range(box[x])
    BY <1>1 DEF TableInv, Tidy, Apart
  <2>2. \A n \in SnapPoints : Last(s) \notin attached[n]
    BY <1>1 DEF TableInv, Tidy, Apart
  <2>3. BoxesWithout(Last(s)) = box
    BY <2>1 DEF BoxesWithout, Without, TableInv, Tidy, TidyBoxes
  <2>4. \A n \in SnapPoints : attached[n] \ {Last(s)} = attached[n]
    BY <2>2
  <2>5. SnapsWithout(Last(s)) = attached
    BY <2>4 DEF SnapsWithout, TableInv, Tidy, TidySnaps
  <2> QED
    BY <2>3, <2>5
<1>3. Tidy(box, StacksWithout(Last(s)), attached)
  <2>1. Tidy(BoxesWithout(Last(s)), StacksWithout(Last(s)), SnapsWithout(Last(s)))
    BY <1>1, Detached DEF TableInv
  <2> QED
    BY <1>2, <2>1
<1> QED
  BY <1>1, <1>3, RestackKeeps DEF StackRemoveTop

LEMMA MergeKeeps ==
  ASSUME TableInv, NEW target \in stacks, NEW source \in stacks, StackMerge(target, source)
  PROVE  TableInv'
<1> DEFINE rest == stacks \ {target, source}
           new == target \o source
<1>1. target # source
  BY DEF StackMerge
<1>2. /\ target \in Seq(Stackable) /\ Len(target) \in Nat \ {0} /\ IsInjective(target)
      /\ source \in Seq(Stackable) /\ Len(source) \in Nat \ {0} /\ IsInjective(source)
  BY StackedPieces
<1>3. Range(target) \cap Range(source) = {}
  BY <1>1 DEF TableInv, Tidy, TidyStacks
<1>4. /\ new \in Seq(Stackable) /\ Len(new) = Len(target) + Len(source) /\ IsInjective(new)
      /\ Range(new) = Range(target) \cup Range(source)
  BY <1>2, <1>3, ConcatFacts
<1>5. \A r \in Range(target) \cup Range(source) : Free(r, box, rest, attached)
  <2>1. /\ \A r \in Range(target) : Free(r, box, stacks \ {target}, attached)
        /\ \A r \in Range(source) : Free(r, box, stacks \ {source}, attached)
    BY StackedPieces
  <2> QED
    BY <2>1 DEF Free
<1>6. Tidy(box, rest, attached)
  BY FewerStacks DEF TableInv
<1> HIDE DEF new, rest
<1>7. new # << >>
  <2>1. Len(new) # 0 /\ Len(<< >>) = 0
    BY <1>2, <1>4, EmptySeq
  <2> QED
    BY <2>1
<1>8. Tidy(box, rest \cup {new}, attached)
  BY <1>4, <1>5, <1>6, <1>7, NewStack
<1> QED
  BY <1>8, RestackKeeps DEF StackMerge, new, rest

LEMMA DissolveKeeps ==
  ASSUME TableInv, NEW s \in stacks, StackDissolve(s)
  PROVE  TableInv'
<1>1. Tidy(box, stacks \ {s}, attached) /\ Range(s) \subseteq Pieces
  BY FewerStacks, StackedPieces DEF TableInv
<1> QED
  BY <1>1, RestackKeeps DEF StackDissolve

LEMMA TableStep == TableInv /\ [TableNext]_tableVars => TableInv'
<1> SUFFICES ASSUME TableInv, [TableNext]_tableVars
             PROVE  TableInv'
  OBVIOUS
<1>1. ASSUME PlayerAction
      PROVE  TableInv'
  BY <1>1, PeopleKeep, DropKeeps DEF PlayerAction
<1>2. ASSUME NEW p \in Pieces, NEW from \in Boxes \cup {World}, NEW to \in Boxes \cup {World},
             NEW index \in IF to = World THEN {0} ELSE 1 .. Len(box[to]) + 1, ContainerMove(p, from, to, index)
      PROVE  TableInv'
  BY <1>2, TransferKeeps
<1>3. ASSUME NEW p \in Pieces,
             \/ \E place \in Places : Move(p, place)
             \/ \E n \in SnapPoints : SnapAttach(p, n)
             \/ \E value \in BOOLEAN : SetLocked(p, value)
      PROVE  TableInv'
  BY <1>3, MoveKeeps, LockKeeps
<1>4. ASSUME NEW d \in Decks,
             DeckShuffle(d) \/ \E b \in Boxes : \E count \in 1 .. Len(box[d]) : DeckDraw(d, b, count)
      PROVE  TableInv'
  BY <1>4, ShuffleKeeps, DrawKeeps
<1>5. ASSUME NEW inside \in SUBSET Pieces, NEW items \in SetToSeqs(inside), StackCreate(items)
      PROVE  TableInv'
  BY <1>5, CreateKeeps
<1>6. ASSUME NEW s \in stacks,
             \/ \E p \in Pieces : StackAdd(s, p)
             \/ \E t \in stacks : StackMerge(s, t)
             \/ StackRemoveTop(s)
             \/ StackDissolve(s)
      PROVE  TableInv'
  BY <1>6, AddKeeps, MergeKeeps, RemoveTopKeeps, DissolveKeeps
<1>7. CASE UNCHANGED tableVars
  <2>1. /\ UNCHANGED box /\ UNCHANGED stacks /\ UNCHANGED attached /\ UNCHANGED heldBy /\ UNCHANGED locked
        /\ UNCHANGED at /\ UNCHANGED members /\ UNCHANGED present
    BY <1>7 DEF tableVars
  <2> QED
    BY <2>1 DEF TableInv, ValidEntities
<1> QED
  BY <1>1, <1>2, <1>3, <1>4, <1>5, <1>6, <1>7 DEF TableNext, ScriptAction

LEMMA TableIsRight == TableInv => PlacesAreSound
<1> SUFFICES ASSUME TableInv
             PROVE  PlacesAreSound
  OBVIOUS
<1>1. ValidContainers /\ ValidStacks /\ ValidSnapPoints /\ ValidZones /\ ValidEntities
  BY DEF TableInv, Tidy, TidyBoxes, TidyStacks, TidySnaps, ValidContainers, ValidStacks, ValidSnapPoints, ValidZones
<1>2. ValidPlacements
  <2>1. \A p \in Pieces : ~(Boxed(p) /\ Stacked(p)) /\ ~(Boxed(p) /\ Snapped(p)) /\ ~(Stacked(p) /\ Snapped(p))
    BY DEF TableInv, Tidy, Apart, Boxed, Stacked, Snapped
  <2> QED
    BY <2>1 DEF TableInv, Tidy, TidyBoxes, TidyStacks, TidySnaps, ValidPlacements
<1> QED
  BY <1>1, <1>2 DEF PlacesAreSound, ValidTable, TableInv

\* Whatever mix of drops, transfers, draws, merges and attachments is accepted, for any
\* table and any number of players: the check of the whole state never takes an action
\* back, and nobody who has left holds a piece.
THEOREM PlacesAlwaysSound == TableSpec => []PlacesAreSound
<1> QED
  BY InitTable, TableStep, TableIsRight, PTL DEF TableSpec

-----------------------------------------------------------------------------
(* Zones. *)

ZoneFollows(z, p) ==
  /\ Inside(p, z)' # Inside(p, z) => (p \in members'[z] <=> Inside(p, z)')
  /\ (p \in members'[z]) # (p \in members[z]) => (p \in members'[z] <=> Inside(p, z)')

\* Whoever is not recomputed has stayed where they were.
LEMMA RecomputedFollow ==
  ASSUME NEW placed, Recompute(placed), NEW z \in Zones, NEW p,
         p \notin placed => at'[p] = at[p] /\ (Boxed(p)' <=> Boxed(p))
  PROVE  ZoneFollows(z, p)
<1>1. CASE p \in placed
  <2>1. p \in members'[z] <=> Inside(p, z)'
    BY <1>1 DEF Recompute
  <2> QED
    BY <2>1 DEF ZoneFollows
<1>2. CASE p \notin placed
  <2>1. p \in members'[z] <=> p \in members[z]
    BY <1>2 DEF Recompute
  <2>2. Inside(p, z)' = Inside(p, z)
    BY <1>2 DEF Inside
  <2>3. (p \in members'[z]) = (p \in members[z])
    BY <2>1
  <2> QED
    BY <2>2, <2>3 DEF ZoneFollows
<1> QED
  BY <1>1, <1>2

LEMMA StillFollow ==
  ASSUME UNCHANGED members, NEW z \in Zones, NEW p, at'[p] = at[p], Boxed(p)' <=> Boxed(p)
  PROVE  ZoneFollows(z, p)
<1>1. Inside(p, z)' = Inside(p, z)
  BY DEF Inside
<1>2. (p \in members'[z]) = (p \in members[z])
  OBVIOUS
<1> QED
  BY <1>1, <1>2 DEF ZoneFollows

LEMMA ZonesStep ==
  ASSUME TableInv, [TableNext]_tableVars, NEW z \in Zones, NEW p \in Pieces
  PROVE  ZoneFollows(z, p)
<1>1. ASSUME UNCHANGED <<box, at, members>>
      PROVE  ZoneFollows(z, p)
  BY <1>1, StillFollow DEF Boxed
<1>2. ASSUME NEW q \in Pieces, box' = BoxesWithout(q), Recompute({q}), \A r \in Pieces \ {q} : at'[r] = at[r]
      PROVE  ZoneFollows(z, p)
  <2>1. p # q => (Boxed(p)' <=> Boxed(p))
    <3>1. \A x \in Boxes : Range(BoxesWithout(q)[x]) = Range(box[x]) \ {q}
      BY Detached DEF TableInv
    <3> QED
      BY <1>2, <3>1 DEF Boxed
  <2> QED
    BY <1>2, <2>1, RecomputedFollow
<1>3. ASSUME NEW player \in Players, NEW q \in Pieces, NEW place \in Places, Drop(player, q, place)
      PROVE  ZoneFollows(z, p)
  BY <1>2, <1>3 DEF Drop, TableInv, ValidEntities
<1>4. ASSUME NEW q \in Pieces, NEW place \in Places, Move(q, place)
      PROVE  ZoneFollows(z, p)
  BY <1>2, <1>4 DEF Move, TableInv, ValidEntities
<1>5. ASSUME NEW q \in Pieces, NEW n \in SnapPoints, SnapAttach(q, n)
      PROVE  ZoneFollows(z, p)
  BY <1>2, <1>5 DEF SnapAttach
<1>6. ASSUME NEW q \in Pieces, NEW from \in Boxes \cup {World}, NEW to \in Boxes \cup {World},
             NEW index \in IF to = World THEN {0} ELSE 1 .. Len(box[to]) + 1, ContainerMove(q, from, to, index)
      PROVE  ZoneFollows(z, p)
  <2>1. CanTransfer(q, from, to) /\ box' = Transferred(q, from, to, index) /\ at' = at /\ Recompute({q})
    BY <1>6 DEF ContainerMove
  <2>2. to \in Boxes => index \in 1 .. Len(box[to]) + 1
    BY TableAssumption
  <2>3. HaveTaken(Transferred(q, from, to, index), q, to)
    BY <2>1, <2>2, TransferFacts
  <2>4. p # q => (Boxed(p)' <=> Boxed(p))
    BY <2>1, <2>3 DEF HaveTaken, Boxed
  <2> QED
    BY <2>1, <2>4, RecomputedFollow
<1>7. ASSUME NEW d \in Decks, DeckShuffle(d)
      PROVE  ZoneFollows(z, p)
  BY <1>7, ShuffleKeeps, StillFollow DEF DeckShuffle, Boxed
<1>8. ASSUME NEW d \in Decks, NEW b \in Boxes, NEW count \in 1 .. Len(box[d]), DeckDraw(d, b, count)
      PROVE  ZoneFollows(z, p)
  <2>1. /\ Range(box'[d]) \cup Range(box'[b]) = Range(box[d]) \cup Range(box[b])
        /\ \A x \in Boxes \ {d, b} : box'[x] = box[x]
    BY <1>8, DrawFacts
  <2>2. Boxed(p)' <=> Boxed(p)
    <3>1. d \in Boxes
      BY TableAssumption
    <3>2. Boxed(p) <=> \/ p \in Range(box[d]) \cup Range(box[b])
                       \/ \E x \in Boxes \ {d, b} : p \in Range(box[x])
      BY <3>1 DEF Boxed
    <3>3. Boxed(p)' <=> \/ p \in Range(box'[d]) \cup Range(box'[b])
                        \/ \E x \in Boxes \ {d, b} : p \in Range(box'[x])
      BY <3>1 DEF Boxed
    <3> QED
      BY <2>1, <3>2, <3>3
  <2> QED
    BY <1>8, <2>2, StillFollow DEF DeckDraw
<1>9. ASSUME NEW new, NEW placed, Restacked(new, placed)
      PROVE  ZoneFollows(z, p)
  BY <1>9, RecomputedFollow DEF Restacked, Boxed
<1>10. ASSUME PlayerAction
       PROVE  ZoneFollows(z, p)
  BY <1>1, <1>3, <1>10 DEF PlayerAction, PlayerJoined, PlayerLeft, Grab
<1>11. ASSUME ScriptAction
       PROVE  ZoneFollows(z, p)
  <2>1. CASE \E q \in Pieces :
               \/ \E place \in Places : Move(q, place)
               \/ \E n \in SnapPoints : SnapAttach(q, n)
               \/ \E value \in BOOLEAN : SetLocked(q, value)
    BY <1>1, <1>4, <1>5, <2>1 DEF SetLocked
  <2>2. CASE \E q \in Pieces : \E from, to \in Boxes \cup {World} :
               \E index \in IF to = World THEN {0} ELSE 1 .. Len(box[to]) + 1 : ContainerMove(q, from, to, index)
    BY <1>6, <2>2
  <2>3. CASE \E d \in Decks : DeckShuffle(d) \/ \E b \in Boxes : \E count \in 1 .. Len(box[d]) : DeckDraw(d, b, count)
    BY <1>7, <1>8, <2>3
  <2>4. CASE \/ \E inside \in SUBSET Pieces : \E items \in SetToSeqs(inside) : StackCreate(items)
             \/ \E s \in stacks :
                  \/ \E q \in Pieces : StackAdd(s, q)
                  \/ \E t \in stacks : StackMerge(s, t)
                  \/ StackRemoveTop(s) \/ StackDissolve(s)
    BY <1>9, <2>4 DEF StackCreate, StackAdd, StackMerge, StackRemoveTop, StackDissolve
  <2> QED
    BY <1>11, <2>1, <2>2, <2>3, <2>4 DEF ScriptAction
<1>12. CASE UNCHANGED tableVars
  BY <1>1, <1>12 DEF tableVars
<1> QED
  BY <1>10, <1>11, <1>12 DEF TableNext

\* A zone's members are told with the very step that brings a piece in or out, for any
\* table: also of pieces that leave from a stack or a box, that are drawn, or merged.
THEOREM ZonesAlwaysFollow == TableSpec => ZonesFollow
<1>1. TableInv /\ [TableNext]_tableVars =>
        [\A z \in Zones, p \in Pieces :
           /\ Inside(p, z)' # Inside(p, z) => (p \in members'[z] <=> Inside(p, z)')
           /\ (p \in members'[z]) # (p \in members[z]) => (p \in members'[z] <=> Inside(p, z)')]_tableVars
  <2>1. TableInv /\ [TableNext]_tableVars => \A z \in Zones, p \in Pieces : ZoneFollows(z, p)
    BY ZonesStep
  <2> QED
    BY <2>1 DEF ZoneFollows
<1> QED
  BY <1>1, InitTable, TableStep, PTL DEF TableSpec, ZonesFollow

-----------------------------------------------------------------------------
(* Stacks. *)

\* Below its top, s lies in u, i pieces from the bottom.
LiesIn(s, u, i) ==
  /\ u \in Seq(Stackable) /\ i \in Nat /\ i + Len(s) - 1 <= Len(u)
  /\ \A k \in 1 .. Len(s) - 1 : u[i + k] = s[k]

LEMMA FrontFacts ==
  ASSUME NEW s \in Seq(Stackable), Len(s) \in Nat \ {0}
  PROVE  /\ Front(s) \in Seq(Stackable) /\ Len(Front(s)) = Len(s) - 1
         /\ \A k \in 1 .. Len(s) - 1 : Front(s)[k] = s[k]
<1>1. 1 \in 1 .. Len(s) + 1 /\ Len(s) - 1 \in 1 - 1 .. Len(s)
  OBVIOUS
<1>2. /\ SubSeq(s, 1, Len(s) - 1) \in Seq(Stackable) /\ Len(SubSeq(s, 1, Len(s) - 1)) = Len(s) - 1 - 1 + 1
      /\ \A k \in 1 .. Len(s) - 1 - 1 + 1 : SubSeq(s, 1, Len(s) - 1)[k] = s[1 + k - 1]
  BY <1>1, SliceFacts
<1> DEFINE f == SubSeq(s, 1, Len(s) - 1)
<1>3. Front(s) = f
  BY DEF Front
<1> HIDE DEF f
<1> QED
  BY <1>2, <1>3 DEF f

LEMMA PartFacts ==
  ASSUME NEW s \in Seq(Stackable), Len(s) \in Nat \ {0}, NEW u, NEW i, LiesIn(s, u, i)
  PROVE  PartOf(Front(s), u)
<1> DEFINE f == Front(s)
           w == SubSeq(u, i + 1, i + Len(f))
<1>1. f \in Seq(Stackable) /\ Len(f) = Len(s) - 1 /\ \A k \in 1 .. Len(s) - 1 : f[k] = s[k]
  BY FrontFacts
<1>2. u \in Seq(Stackable) /\ Len(u) \in Nat /\ i \in Nat /\ i + Len(f) <= Len(u)
      /\ \A k \in 1 .. Len(f) : u[i + k] = f[k]
  BY <1>1, LenProperties DEF LiesIn
<1>3. i + 1 \in 1 .. Len(u) + 1 /\ i + Len(f) \in i + 1 - 1 .. Len(u) /\ Len(f) \in Nat
  BY <1>1, <1>2
<1> HIDE DEF f
<1>4. /\ w \in Seq(Stackable) /\ Len(w) = i + Len(f) - (i + 1) + 1
      /\ \A k \in 1 .. i + Len(f) - (i + 1) + 1 : w[k] = u[i + 1 + k - 1]
  BY <1>2, <1>3, SliceFacts
<1>5. i + Len(f) - (i + 1) + 1 = Len(f)
  BY <1>2, <1>3
<1>6. ASSUME NEW k \in 1 .. Len(f)
      PROVE  f[k] = w[k]
  <2>1. i + 1 + k - 1 = i + k
    BY <1>2, <1>3
  <2> QED
    BY <1>2, <1>4, <1>5, <2>1
<1>7. f = w
  <2> HIDE DEF w
  <2> QED
    BY <1>1, <1>4, <1>5, <1>6, SeqEqual
<1>8. i \in 0 .. Len(u) - Len(f)
  BY <1>2, <1>3
<1> QED
  BY <1>7, <1>8 DEF PartOf, f

\* The stacks s may become: itself, its front, or either with a piece on it.
LEMMA LiesInItself ==
  ASSUME NEW s \in Seq(Stackable), Len(s) \in Nat \ {0}
  PROVE  /\ LiesIn(s, s, 0) /\ LiesIn(s, Front(s), 0)
         /\ \A p \in Stackable : LiesIn(s, Append(s, p), 0) /\ LiesIn(s, Append(Front(s), p), 0)
<1>1. /\ Front(s) \in Seq(Stackable) /\ Len(Front(s)) = Len(s) - 1
      /\ \A k \in 1 .. Len(s) - 1 : Front(s)[k] = s[k]
  BY FrontFacts
<1>2. LiesIn(s, s, 0)
  BY DEF LiesIn
<1>3. LiesIn(s, Front(s), 0)
  <2> DEFINE f == Front(s)
  <2>1. f \in Seq(Stackable) /\ Len(f) = Len(s) - 1 /\ \A k \in 1 .. Len(s) - 1 : f[k] = s[k]
    BY <1>1
  <2> HIDE DEF f
  <2>2. LiesIn(s, f, 0)
    BY <2>1 DEF LiesIn
  <2> QED
    BY <2>2 DEF f
<1>4. ASSUME NEW p \in Stackable, NEW f \in Seq(Stackable), Len(f) \in {Len(s), Len(s) - 1},
             \A k \in 1 .. Len(s) - 1 : f[k] = s[k]
      PROVE  LiesIn(s, Append(f, p), 0)
  <2> DEFINE u == Append(f, p)
  <2>1. u \in Seq(Stackable) /\ Len(u) = Len(f) + 1 /\ \A k \in 1 .. Len(f) : u[k] = f[k]
    BY AppendProperties
  <2> HIDE DEF u
  <2>2. \A k \in 1 .. Len(s) - 1 : k \in 1 .. Len(f)
    BY <1>4
  <2>3. LiesIn(s, u, 0)
    BY <1>4, <2>1, <2>2 DEF LiesIn
  <2> QED
    BY <2>3 DEF u
<1> QED
  BY <1>1, <1>2, <1>3, <1>4

StaysTogether(s) ==
  \/ \E u \in stacks' \cup {<< >>} : PartOf(Front(s), u)
  \/ \A p \in Range(s) : Loose(p)'

LEMMA LyingStays ==
  ASSUME TableInv, NEW s \in stacks, NEW u \in stacks' \cup {<< >>}, NEW i, LiesIn(s, u, i)
  PROVE  StaysTogether(s)
BY StackedPieces, PartFacts DEF StaysTogether

\* Of a stack, only the top can leave: with or without it, the front stays.
LEMMA FrontStays ==
  ASSUME TableInv, NEW p, CanLeave(p), NEW s \in stacks
  PROVE  \E u \in StacksWithout(p) \cup {<< >>} : u = s \/ u = Front(s)
<1>1. s \in Seq(Stackable) /\ s # << >> /\ Len(s) \in Nat \ {0}
  BY StackedPieces DEF TableInv, Tidy, TidyStacks
<1>2. CASE p \notin Range(s)
  BY <1>1, <1>2 DEF StacksWithout, Without
<1>3. CASE p \in Range(s)
  <2>1. p = Last(s)
    BY <1>3 DEF CanLeave
  <2>2. Without(s, p) = Front(s)
    BY <2>1, WithoutTop
  <2> QED
    BY <2>2 DEF StacksWithout
<1> QED
  BY <1>2, <1>3

LEMMA EmptyFront ==
  ASSUME TableInv, NEW s \in stacks, Front(s) = << >>
  PROVE  StaysTogether(s)
<1>1. s \in Seq(Stackable) /\ Len(s) \in Nat \ {0}
  BY StackedPieces
<1>2. LiesIn(s, << >>, 0)
  BY <1>1, LiesInItself
<1> QED
  BY <1>2, LyingStays

LEMMA WithoutStays ==
  ASSUME TableInv, NEW p, CanLeave(p), stacks' = StacksWithout(p), NEW s \in stacks
  PROVE  StaysTogether(s)
<1>1. s \in Seq(Stackable) /\ Len(s) \in Nat \ {0} /\ s # << >>
  BY StackedPieces DEF TableInv, Tidy, TidyStacks
<1>2. PICK u \in StacksWithout(p) \cup {<< >>} : u = s \/ u = Front(s)
  BY FrontStays
<1>3. LiesIn(s, u, 0)
  BY <1>1, <1>2, LiesInItself
<1> QED
  BY <1>2, <1>3, LyingStays

\* A stack that is left as it is, or gets a piece.
LEMMA GrowingStays ==
  ASSUME TableInv, NEW s \in stacks, NEW p \in Stackable, s \in stacks' \/ Append(s, p) \in stacks'
  PROVE  StaysTogether(s)
<1>1. s \in Seq(Stackable) /\ Len(s) \in Nat \ {0}
  BY StackedPieces
<1> QED
  BY <1>1, LiesInItself, LyingStays

LEMMA StayingStays ==
  ASSUME TableInv, NEW s \in stacks, s \in stacks'
  PROVE  StaysTogether(s)
<1>1. s \in Seq(Stackable) /\ Len(s) \in Nat \ {0}
  BY StackedPieces
<1> QED
  BY <1>1, LiesInItself, LyingStays

LEMMA DroppedStays ==
  ASSUME TableInv, NEW player \in Players, NEW p \in Pieces, NEW place \in Places, Drop(player, p, place),
         NEW s \in stacks
  PROVE  StaysTogether(s)
<1>1. CASE stacks' = StacksWithout(p)
  BY <1>1, WithoutStays DEF Drop
<1>2. CASE \E t \in StackTargets(p, place) : stacks' = (StacksWithout(p) \ {t}) \cup {Append(t, p)}
  <2>1. PICK t \in StackTargets(p, place) : stacks' = (StacksWithout(p) \ {t}) \cup {Append(t, p)}
    BY <1>2
  <2>2. p \in Stackable
    BY <2>1 DEF StackTargets
  <2>3. s \in Seq(Stackable) /\ Len(s) \in Nat \ {0} /\ s # << >>
    BY StackedPieces DEF TableInv, Tidy, TidyStacks
  <2>4. PICK u \in StacksWithout(p) \cup {<< >>} : u = s \/ u = Front(s)
    BY FrontStays DEF Drop
  <2>5. CASE u = t
    <3>1. LiesIn(s, Append(u, p), 0)
      BY <2>2, <2>3, <2>4, LiesInItself
    <3>2. Append(u, p) \in stacks'
      BY <2>1, <2>5
    <3> QED
      BY <3>1, <3>2, LyingStays
  <2>6. CASE u # t
    <3>1. LiesIn(s, u, 0)
      BY <2>3, <2>4, LiesInItself
    <3>2. u \in stacks' \cup {<< >>}
      BY <2>1, <2>4, <2>6
    <3> QED
      BY <3>1, <3>2, LyingStays
  <2> QED
    BY <2>5, <2>6
<1> QED
  BY <1>1, <1>2 DEF Drop

LEMMA MergedStays ==
  ASSUME TableInv, NEW target \in stacks, NEW source \in stacks, StackMerge(target, source), NEW s \in stacks
  PROVE  StaysTogether(s)
<1> DEFINE u == target \o source
<1>1. stacks' = (stacks \ {target, source}) \cup {u}
  BY DEF StackMerge, Restacked
<1>2. /\ target \in Seq(Stackable) /\ Len(target) \in Nat \ {0}
      /\ source \in Seq(Stackable) /\ Len(source) \in Nat \ {0}
  BY StackedPieces
<1>3. /\ u \in Seq(Stackable) /\ Len(u) = Len(target) + Len(source)
      /\ \A k \in 1 .. Len(target) + Len(source) :
           u[k] = IF k <= Len(target) THEN target[k] ELSE source[k - Len(target)]
  BY <1>2, ConcatProperties
<1> HIDE DEF u
<1>4. CASE s = target
  <2>1. \A k \in 1 .. Len(target) - 1 : u[0 + k] = target[k]
    BY <1>2, <1>3
  <2>2. LiesIn(s, u, 0)
    BY <1>2, <1>3, <1>4, <2>1 DEF LiesIn
  <2> QED
    BY <1>1, <2>2, LyingStays
<1>5. CASE s = source
  <2>1. ASSUME NEW k \in 1 .. Len(source) - 1
        PROVE  u[Len(target) + k] = source[k]
    <3>1. PICK j \in 1 .. Len(target) + Len(source) : j = Len(target) + k /\ j - Len(target) = k /\ ~(j <= Len(target))
      BY <1>2
    <3>2. u[j] = source[j - Len(target)]
      BY <1>3, <3>1
    <3> QED
      BY <3>1, <3>2
  <2>2. LiesIn(s, u, Len(target))
    BY <1>2, <1>3, <1>5, <2>1 DEF LiesIn
  <2> QED
    BY <1>1, <2>2, LyingStays
<1>6. CASE s \notin {target, source}
  BY <1>1, <1>6, StayingStays
<1> QED
  BY <1>4, <1>5, <1>6

LEMMA DissolvedStays ==
  ASSUME TableInv, NEW t \in stacks, StackDissolve(t), NEW s \in stacks
  PROVE  StaysTogether(s)
<1>1. stacks' = stacks \ {t} /\ box' = box /\ attached' = attached
  BY DEF StackDissolve, Restacked
<1>2. CASE s # t
  BY <1>1, <1>2, StayingStays
<1>3. CASE s = t
  <2>1. \A p \in Range(s) : Free(p, box, stacks \ {s}, attached)
    BY StackedPieces
  <2>2. \A p \in Range(s) : Loose(p)'
    BY <1>1, <1>3, <2>1 DEF Loose, Boxed, Stacked, Snapped, Free
  <2> QED
    BY <2>2 DEF StaysTogether
<1> QED
  BY <1>2, <1>3

LEMMA StacksStep ==
  ASSUME TableInv, [TableNext]_tableVars, NEW s \in stacks
  PROVE  StaysTogether(s)
<1>1. ASSUME UNCHANGED stacks
      PROVE  StaysTogether(s)
  BY <1>1, StayingStays
<1>2. ASSUME PlayerAction
      PROVE  StaysTogether(s)
  BY <1>1, <1>2, DroppedStays DEF PlayerAction, PlayerJoined, PlayerLeft, Grab
<1>3. ASSUME ScriptAction
      PROVE  StaysTogether(s)
  <2>1. CASE \E q \in Pieces :
               \/ \E place \in Places : Move(q, place)
               \/ \E n \in SnapPoints : SnapAttach(q, n)
    BY <2>1, WithoutStays DEF Move, SnapAttach
  <2>2. CASE \/ \E q \in Pieces : \E value \in BOOLEAN : SetLocked(q, value)
             \/ \E q \in Pieces : \E from, to \in Boxes \cup {World} :
                  \E index \in IF to = World THEN {0} ELSE 1 .. Len(box[to]) + 1 : ContainerMove(q, from, to, index)
             \/ \E d \in Decks : DeckShuffle(d) \/ \E b \in Boxes : \E count \in 1 .. Len(box[d]) : DeckDraw(d, b, count)
    BY <1>1, <2>2 DEF SetLocked, ContainerMove, DeckShuffle, DeckDraw
  <2>3. CASE \E inside \in SUBSET Pieces : \E items \in SetToSeqs(inside) : StackCreate(items)
    BY <2>3, StayingStays DEF StackCreate, Restacked
  <2>4. ASSUME NEW t \in stacks, NEW q \in Pieces, StackAdd(t, q)
        PROVE  StaysTogether(s)
    <3>1. q \in Stackable /\ (s \in stacks' \/ Append(s, q) \in stacks')
      BY <2>4 DEF StackAdd, CanBeStacked, Restacked
    <3> QED
      BY <3>1, GrowingStays
  <2>5. ASSUME NEW t \in stacks, StackRemoveTop(t)
        PROVE  StaysTogether(s)
    <3>1. CanLeave(Last(t))
      BY StackedPieces DEF CanLeave, TableInv, Tidy, TidyStacks
    <3> QED
      BY <2>5, <3>1, WithoutStays DEF StackRemoveTop, Restacked
  <2>6. ASSUME NEW t \in stacks, (\E r \in stacks : StackMerge(t, r)) \/ StackDissolve(t)
        PROVE  StaysTogether(s)
    BY <2>6, MergedStays, DissolvedStays
  <2> QED
    BY <1>3, <2>1, <2>2, <2>3, <2>4, <2>5, <2>6 DEF ScriptAction
<1>4. CASE UNCHANGED tableVars
  BY <1>1, <1>4 DEF tableVars
<1> QED
  BY <1>2, <1>3, <1>4 DEF TableNext

\* What is below the top of a stack stays together and in order, for any table: no drop,
\* transfer or script takes a piece from below, unless it dissolves the stack.
THEOREM StacksAlwaysStay == TableSpec => StacksStayTogether
<1>1. TableInv /\ [TableNext]_tableVars =>
        [\A s \in stacks : \/ \E u \in stacks' \cup {<< >>} : PartOf(Front(s), u)
                           \/ \A p \in Range(s) : Loose(p)']_tableVars
  <2>1. TableInv /\ [TableNext]_tableVars => \A s \in stacks : StaysTogether(s)
    BY StacksStep
  <2> QED
    BY <2>1 DEF StaysTogether
<1> QED
  BY <1>1, InitTable, TableStep, PTL DEF TableSpec, StacksStayTogether

-----------------------------------------------------------------------------
(***************************************************************************)
(* The scripts of an action.  A transaction is whole because all the calls *)
(* that have been decided on, made or not, relate the table it works on to *)
(* the one before it (Owed); replicas agree because its steps are a        *)
(* function of the release, the action and the table (Turn), so that its   *)
(* runs come to one end.                                                   *)
(***************************************************************************)
\* What tables, commands, calls and deliveries are.
TimerIds == Nat \X Nat
TimerRows == [status : {"scheduled", "fired", "canceled"}, by : Bindings]
TimerMaps == UNION {[ids -> TimerRows] : ids \in SUBSET TimerIds}
Prompts == {"none", "open", "resolved", "canceled"}

Tables ==
  [sequence : Nat, faceUp : BOOLEAN, value : Nat, count : 0 .. MaxCount, prompt : Prompts, timers : TimerMaps,
   drawn : Nat, memory : Seq(Bindings \X Nat)]

PlainActions == [type : {"start", "flip", "press", "roll", "respond"}]
Fires == [type : {"fire"}, timer : TimerIds]
OrderedActions == PlainActions \cup Fires

PlainCommands == [type : {"flip", "roll", "count", "ask", "respond", "withdraw"}]
Registers == [type : {"register"}, by : Bindings, timer : TimerIds]
Cancels == [type : {"cancel"}, timer : TimerIds]
Commands == PlainCommands \cup Registers \cup Cancels

Calls == [binding : Bindings, callback : Callbacks]
Deliveries ==
  {e \in [callback : Callbacks \cup {"none"}, to : SUBSET Bindings] : e.to # {} => e.callback \in Callbacks}

LEMMA TimersAre ==
  ASSUME NEW t \in Tables
  PROVE  /\ t.timers = [id \in DOMAIN t.timers |-> t.timers[id]] /\ DOMAIN t.timers \subseteq TimerIds
         /\ \A id \in DOMAIN t.timers : t.timers[id] \in TimerRows
<1>1. t.timers \in TimerMaps
  BY DEF Tables
<1>2. PICK ids \in SUBSET TimerIds : t.timers \in [ids -> TimerRows]
  BY <1>1 DEF TimerMaps
<1> QED BY <1>2

LEMMA TimersArePut ==
  ASSUME NEW ids \in SUBSET TimerIds, NEW f \in [ids -> TimerRows]
  PROVE  f \in TimerMaps
BY DEF TimerMaps

LEMMA EmptyTableType == EmptyTable \in Tables
<1>1. << >> \in TimerMaps
  <2>1. << >> \in [{} -> TimerRows]
    OBVIOUS
  <2>2. {} \in SUBSET TimerIds
    OBVIOUS
  <2> QED BY <2>1, <2>2, TimersArePut
<1>2. << >> \in Seq(Bindings \X Nat)
  OBVIOUS
<1>3. 0 \in 0 .. MaxCount
  <2>1. MaxCount \in Nat
    BY ScriptAssumption
  <2> QED BY <2>1
<1> QED BY <1>1, <1>2, <1>3 DEF EmptyTable, Tables, Prompts

\* What an action or a command leaves of a table.
Sound(t, u) == u \in Tables /\ u.sequence = t.sequence

LEMMA TimedType ==
  ASSUME NEW t \in Tables, NEW c \in Fires \cup Registers \cup Cancels, TimerFits(t, c)
  PROVE  /\ Sound(t, Timed(t, c))
         /\ Timed(t, c).faceUp = t.faceUp /\ Timed(t, c).prompt = t.prompt
         /\ c.type # "fire" => Fired(Timed(t, c)) = Fired(t)
         /\ c.type = "fire" => c.timer \in DOMAIN t.timers /\ c.timer \notin Fired(t) /\ Fired(Timed(t, c)) = Fired(t) \cup {c.timer}
<1>1. /\ DOMAIN t.timers \subseteq TimerIds /\ \A id \in DOMAIN t.timers : t.timers[id] \in TimerRows
      /\ t.timers = [id \in DOMAIN t.timers |-> t.timers[id]]
  BY TimersAre
<1>2. CASE c \in Registers
  <2> DEFINE ids == DOMAIN t.timers \cup {c.timer}
             f == [id \in ids |-> IF id = c.timer THEN [status |-> "scheduled", by |-> c.by] ELSE t.timers[id]]
  <2>1. /\ c.type = "register" /\ c.timer \in TimerIds /\ c.by \in Bindings /\ c.timer \notin DOMAIN t.timers
        /\ Timed(t, c) = [t EXCEPT !.timers = f]
    BY <1>2 DEF Registers, TimerFits, Timed
  <2>2. f \in [ids -> TimerRows] /\ ids \in SUBSET TimerIds
    BY <1>1, <2>1 DEF TimerRows
  <2>3. f \in TimerMaps
    <3> HIDE DEF f, ids
    <3> QED BY <2>2, TimersArePut
  <2>4. {id \in DOMAIN f : f[id].status = "fired"} = Fired(t)
    BY <2>1 DEF Fired
  <2> HIDE DEF f
  <2>5. Timed(t, c).timers = f /\ Sound(t, Timed(t, c)) /\ Timed(t, c).faceUp = t.faceUp /\ Timed(t, c).prompt = t.prompt
    BY <2>1, <2>3 DEF Sound, Tables
  <2> QED BY <2>1, <2>4, <2>5 DEF Fired
<1>3. ASSUME NEW s \in {"fired", "canceled"}, HasTimer(t, c.timer, "scheduled"), Timed(t, c) = [t EXCEPT !.timers[c.timer].status = s]
      PROVE  /\ Sound(t, Timed(t, c)) /\ Timed(t, c).faceUp = t.faceUp /\ Timed(t, c).prompt = t.prompt
             /\ c.timer \in DOMAIN t.timers /\ c.timer \notin Fired(t)
             /\ Fired(Timed(t, c)) = IF s = "fired" THEN Fired(t) \cup {c.timer} ELSE Fired(t)
  <2> DEFINE f == [t.timers EXCEPT ![c.timer].status = s]
  <2>1. c.timer \in DOMAIN t.timers /\ t.timers[c.timer].status = "scheduled"
    BY <1>3 DEF HasTimer
  <2>2. /\ DOMAIN f = DOMAIN t.timers /\ f[c.timer] = [t.timers[c.timer] EXCEPT !.status = s]
        /\ \A id \in DOMAIN t.timers : id # c.timer => f[id] = t.timers[id]
    BY <1>1, <2>1
  <2>3. f[c.timer] \in TimerRows /\ f[c.timer].status = s
    BY <1>1, <2>1, <2>2 DEF TimerRows
  <2>4. f \in [DOMAIN t.timers -> TimerRows]
    <3>1. f = [id \in DOMAIN t.timers |-> f[id]]
      BY <2>2
    <3> HIDE DEF f
    <3> QED BY <1>1, <2>2, <2>3, <3>1
  <2>5. Timed(t, c) = [t EXCEPT !.timers = f]
    BY <1>3 DEF Tables
  <2> HIDE DEF f
  <2>6. f \in TimerMaps
    BY <1>1, <2>4, TimersArePut
  <2>7. Timed(t, c).timers = f /\ Sound(t, Timed(t, c)) /\ Timed(t, c).faceUp = t.faceUp /\ Timed(t, c).prompt = t.prompt
    BY <2>5, <2>6 DEF Sound, Tables
  <2>8. {id \in DOMAIN f : f[id].status = "fired"} = IF s = "fired" THEN Fired(t) \cup {c.timer} ELSE Fired(t)
    BY <2>1, <2>2, <2>3 DEF Fired
  <2> QED BY <2>1, <2>7, <2>8 DEF Fired
<1>4. CASE c \in Fires
  <2>1. c.type = "fire" /\ HasTimer(t, c.timer, "scheduled") /\ Timed(t, c) = [t EXCEPT !.timers[c.timer].status = "fired"]
    BY <1>4 DEF Fires, TimerFits, Timed
  <2> QED BY <1>3, <2>1
<1>5. CASE c \in Cancels
  <2>1. c.type = "cancel" /\ HasTimer(t, c.timer, "scheduled") /\ Timed(t, c) = [t EXCEPT !.timers[c.timer].status = "canceled"]
    BY <1>5 DEF Cancels, TimerFits, Timed
  <2> QED BY <1>3, <2>1
<1> QED BY <1>2, <1>4, <1>5

\* What actions and commands do to the table: the face of the card, the prompt and the
\* timers that have fired.
Effect(t, c, u) ==
  /\ Sound(t, u)
  /\ u.faceUp # t.faceUp <=> c.type = "flip"
  /\ u.prompt = IF c.type = "ask" THEN "open" ELSE IF c.type = "respond" THEN "resolved"
                ELSE IF c.type = "withdraw" THEN "canceled" ELSE t.prompt
  /\ c.type = "ask" => t.prompt = "none"
  /\ c.type \in {"respond", "withdraw"} => t.prompt = "open"
  /\ c.type # "fire" => Fired(u) = Fired(t)
  /\ c.type = "fire" => c.timer \in DOMAIN t.timers /\ c.timer \notin Fired(t) /\ Fired(u) = Fired(t) \cup {c.timer}

LEMMA AppliedHas ==
  ASSUME NEW t \in Tables, NEW c \in OrderedActions \cup Commands, Valid(t, c)
  PROVE  Effect(t, c, Applied(t, c))
<1>1. /\ t.faceUp \in BOOLEAN /\ t.drawn \in Nat /\ t.count \in 0 .. MaxCount /\ MaxCount \in Nat /\ t.prompt \in Prompts
  BY ScriptAssumption DEF Tables
<1>2. CASE c \in Fires \cup Registers \cup Cancels
  <2>1. c.type \in TimerTypes /\ c.type \notin PromptTypes /\ c.type \notin {"start", "flip", "roll", "count"}
    BY <1>2 DEF Fires, Registers, Cancels, TimerTypes, PromptTypes
  <2>2. TimerFits(t, c) /\ Applied(t, c) = Timed(t, c)
    BY <2>1 DEF Valid, Applied
  <2>3. c.type \notin {"ask", "respond", "withdraw", "flip"}
    BY <2>1 DEF PromptTypes
  <2> QED BY <1>2, <2>2, <2>3, TimedType DEF Effect
<1>3. CASE c.type = "flip"
  <2>1. Applied(t, c) = [t EXCEPT !.faceUp = ~@]
    BY <1>3 DEF Applied, PromptTypes, TimerTypes
  <2> QED BY <1>1, <1>3, <2>1 DEF Effect, Sound, Tables, Fired
<1>4. CASE c.type = "roll"
  <2>1. Applied(t, c) = [t EXCEPT !.drawn = @ + 1, !.value = t.drawn]
    BY <1>4 DEF Applied, Rolled, PromptTypes, TimerTypes
  <2>2. /\ Applied(t, c) \in Tables /\ Applied(t, c).sequence = t.sequence /\ Applied(t, c).faceUp = t.faceUp
        /\ Applied(t, c).prompt = t.prompt /\ Applied(t, c).timers = t.timers
    <3>1. t.drawn + 1 \in Nat /\ t.drawn \in Nat
      BY <1>1
    <3> QED BY <2>1, <3>1 DEF Tables
  <2> QED BY <1>4, <2>2 DEF Effect, Sound, Fired
<1>5. CASE c.type = "count"
  <2>1. Applied(t, c) = [t EXCEPT !.count = IF @ < MaxCount THEN @ + 1 ELSE @]
    BY <1>5 DEF Applied, Counted, PromptTypes, TimerTypes
  <2>2. (IF t.count < MaxCount THEN t.count + 1 ELSE t.count) \in 0 .. MaxCount
    BY <1>1
  <2> QED BY <1>5, <2>1, <2>2 DEF Effect, Sound, Tables, Fired
<1>6. CASE c.type \in {"ask", "respond", "withdraw"}
  <2>1. /\ PromptFits(t, c) /\ Applied(t, c) = Prompted(t, c)
    BY <1>6 DEF Valid, Applied, PromptTypes, TimerTypes
  <2>2. Prompted(t, c) = [t EXCEPT !.prompt = IF c.type = "ask" THEN "open" ELSE IF c.type = "respond" THEN "resolved" ELSE "canceled"]
    BY <1>6 DEF Prompted
  <2>3. (IF c.type = "ask" THEN "open" ELSE IF c.type = "respond" THEN "resolved" ELSE "canceled") \in Prompts
    BY DEF Prompts
  <2>4. /\ Applied(t, c) \in Tables /\ Applied(t, c).sequence = t.sequence /\ Applied(t, c).faceUp = t.faceUp
        /\ Applied(t, c).timers = t.timers
        /\ Applied(t, c).prompt = IF c.type = "ask" THEN "open" ELSE IF c.type = "respond" THEN "resolved" ELSE "canceled"
    BY <2>1, <2>2, <2>3 DEF Tables
  <2> QED BY <1>6, <2>1, <2>4 DEF Effect, Sound, Fired, PromptFits
<1>7. CASE c.type \in {"start", "press"}
  <2>1. Applied(t, c) = t
    BY <1>7 DEF Applied, PromptTypes, TimerTypes
  <2> QED BY <1>7, <2>1 DEF Effect, Sound
<1> QED BY <1>2, <1>3, <1>4, <1>5, <1>6, <1>7 DEF OrderedActions, Commands, PlainActions, PlainCommands

\* Which events are delivered to whom.
LEMMA DeliveryIs ==
  ASSUME NEW t \in Tables, NEW c \in OrderedActions \cup Commands, Valid(t, c)
  PROVE  /\ Delivery(t, c) \in Deliveries
         /\ c.type = "start" => Delivery(t, c) = [callback |-> "on_start", to |-> Bindings]
         /\ c.type = "respond" => Delivery(t, c) = [callback |-> "on_prompt", to |-> Bindings]
         /\ c.type = "flip" => Delivery(t, c) = [callback |-> "on_flip", to |-> {Card}]
         /\ c.type = "fire" => \E b \in Bindings : Delivery(t, c) = [callback |-> "tick", to |-> {b}]
         /\ c.type \in {"press", "roll"} => \E cb \in {"on_press", "on_roll"} : Delivery(t, c) = [callback |-> cb, to |-> {Die}]
         /\ c.type \notin {"start", "respond", "flip", "fire", "press", "roll"} => Delivery(t, c) = [callback |-> "none", to |-> {}]
<1>0. Card \in Bindings /\ Die \in Bindings
  BY DEF Card, Die, Bindings
<1>1. CASE c.type = "start"
  BY <1>1 DEF Delivery, Deliveries, Callbacks
<1>2. CASE c.type = "respond"
  BY <1>2 DEF Delivery, Deliveries, Callbacks
<1>3. CASE c.type = "flip"
  BY <1>0, <1>3 DEF Delivery, Deliveries, Callbacks
<1>4. CASE c.type = "fire"
  <2>1. c \in Fires
    BY <1>4 DEF OrderedActions, Commands, PlainActions, PlainCommands, Registers, Cancels
  <2>2. c.timer \in DOMAIN t.timers
    BY <1>4 DEF Valid, TimerFits, HasTimer, TimerTypes, PromptTypes
  <2>3. t.timers[c.timer].by \in Bindings
    BY <2>2, TimersAre DEF TimerRows
  <2>4. Delivery(t, c) = [callback |-> "tick", to |-> {t.timers[c.timer].by}]
    BY <1>4 DEF Delivery
  <2>5. Delivery(t, c) \in Deliveries
    BY <2>3, <2>4 DEF Deliveries, Callbacks
  <2> QED BY <1>4, <2>3, <2>4, <2>5
<1>5. CASE c.type \in {"press", "roll"}
  BY <1>0, <1>5 DEF Delivery, Deliveries, Callbacks
<1>6. CASE c.type \notin {"start", "respond", "flip", "fire", "press", "roll"}
  BY <1>6 DEF Delivery, Deliveries, Callbacks
<1> QED BY <1>1, <1>2, <1>3, <1>4, <1>5, <1>6

-----------------------------------------------------------------------------
\* Those who hear of an event are called after those who are called already.
CallOf(b, e) == [binding |-> b, callback |-> e.callback]
Grown(d, e) ==
  IF 1 \in e.to THEN (IF 2 \in e.to THEN Append(Append(d, CallOf(1, e)), CallOf(2, e)) ELSE Append(d, CallOf(1, e)))
  ELSE IF 2 \in e.to THEN Append(d, CallOf(2, e)) ELSE d

LEMMA HeardOfOneMore ==
  ASSUME NEW d \in Seq(Calls), NEW c \in Calls, NEW cb
  PROVE  /\ Append(d, c) \in Seq(Calls) /\ Len(Append(d, c)) = Len(d) + 1
         /\ Append(d, c)[Len(d) + 1] = c /\ \A i \in 1 .. Len(d) : Append(d, c)[i] = d[i]
         /\ IsFiniteSet(Heard(d, cb)) /\ Cardinality(Heard(d, cb)) \in Nat
         /\ Heard(Append(d, c), cb) = IF c.callback = cb THEN Heard(d, cb) \cup {Len(d) + 1} ELSE Heard(d, cb)
         /\ Cardinality(Heard(Append(d, c), cb)) = IF c.callback = cb THEN Cardinality(Heard(d, cb)) + 1 ELSE Cardinality(Heard(d, cb))
<1>1. /\ Append(d, c) \in Seq(Calls) /\ Len(Append(d, c)) = Len(d) + 1 /\ Len(d) \in Nat
      /\ Append(d, c)[Len(d) + 1] = c /\ \A i \in 1 .. Len(d) : Append(d, c)[i] = d[i]
      /\ DOMAIN d = 1 .. Len(d) /\ DOMAIN Append(d, c) = 1 .. Len(d) + 1
  OBVIOUS
<1>2. Heard(Append(d, c), cb) = IF c.callback = cb THEN Heard(d, cb) \cup {Len(d) + 1} ELSE Heard(d, cb)
  <2>1. \A i \in 1 .. Len(d) + 1 : i \in 1 .. Len(d) \/ i = Len(d) + 1
    BY <1>1
  <2>2. 1 .. Len(d) \subseteq 1 .. Len(d) + 1 /\ Len(d) + 1 \in 1 .. Len(d) + 1
    BY <1>1
  <2> HIDE DEF Heard
  <2>3. \A i : i \in Heard(d, cb) <=> i \in 1 .. Len(d) /\ d[i].callback = cb
    BY <1>1 DEF Heard
  <2>4. \A i : i \in Heard(Append(d, c), cb) <=> i \in 1 .. Len(d) + 1 /\ Append(d, c)[i].callback = cb
    BY <1>1 DEF Heard
  <2> QED BY <1>1, <2>1, <2>2, <2>3, <2>4
<1>3. IsFiniteSet(Heard(d, cb)) /\ Cardinality(Heard(d, cb)) \in Nat
  <2>1. Heard(d, cb) \subseteq 1 .. Len(d)
    BY <1>1 DEF Heard
  <2>2. IsFiniteSet(1 .. Len(d))
    BY <1>1, FS_Interval
  <2> QED BY <2>1, <2>2, FS_Subset, FS_CardinalityType
<1>4. Len(d) + 1 \notin Heard(d, cb)
  BY <1>1 DEF Heard
<1> QED BY <1>1, <1>2, <1>3, <1>4, FS_AddElement

\* What follows from the delivery of e to those who are called already.
Extends(d, e, g) ==
  /\ g \in Seq(Calls) /\ Len(g) = Len(d) + Cardinality(e.to) /\ \A i \in 1 .. Len(d) : g[i] = d[i]
  /\ \A i \in 1 .. Cardinality(e.to) : g[Len(d) + i] = Grown(<< >>, e)[i]
  /\ \A cb : Cardinality(Heard(g, cb)) = Cardinality(Heard(d, cb)) + IF cb = e.callback THEN Cardinality(e.to) ELSE 0
  /\ \A cb : cb # e.callback \/ e.to = {} => Heard(g, cb) = Heard(d, cb)
  /\ e.to = Bindings => /\ Heard(g, e.callback) = Heard(d, e.callback) \cup {Len(d) + 1, Len(d) + 2}
                        /\ g[Len(d) + 1].binding = 1 /\ g[Len(d) + 2].binding = 2

LEMMA ToIs ==
  ASSUME NEW to \in SUBSET Bindings
  PROVE  \/ to = {} /\ 1 \notin to /\ 2 \notin to /\ Cardinality(to) = 0
         \/ to = {1} /\ 1 \in to /\ 2 \notin to /\ Cardinality(to) = 1
         \/ to = {2} /\ 2 \in to /\ 1 \notin to /\ Cardinality(to) = 1
         \/ to = Bindings /\ 1 \in to /\ 2 \in to /\ Cardinality(to) = 2
<1>1. Cardinality({}) = 0 /\ Cardinality({1}) = 1 /\ Cardinality({2}) = 1
  BY FS_EmptySet, FS_Singleton
<1>2. Cardinality({1, 2}) = 2
  <2>1. IsFiniteSet({1}) /\ 2 \notin {1} /\ {1, 2} = {1} \cup {2}
    BY FS_Singleton
  <2> QED BY <1>1, <2>1, FS_AddElement
<1> QED BY <1>1, <1>2 DEF Bindings

LEMMA GrownExtends ==
  ASSUME NEW d \in Seq(Calls), NEW e \in Deliveries
  PROVE  Extends(d, e, Grown(d, e))
<1> DEFINE c1 == CallOf(1, e)
           c2 == CallOf(2, e)
<1>1. e.to \in SUBSET Bindings /\ (e.to # {} => c1 \in Calls /\ c2 \in Calls /\ e.callback \in Callbacks)
      /\ c1.callback = e.callback /\ c2.callback = e.callback /\ c1.binding = 1 /\ c2.binding = 2
  BY DEF Deliveries, CallOf, Calls, Bindings
<1>2. << >> \in Seq(Calls) /\ Len(<< >>) = 0 /\ Len(d) \in Nat
  OBVIOUS
<1> HIDE DEF c1, c2
<1>3. \A cb : Cardinality(Heard(d, cb)) \in Nat
  <2>1. IsFiniteSet(1 .. Len(d))
    BY <1>2, FS_Interval
  <2>2. \A cb : Heard(d, cb) \subseteq 1 .. Len(d)
    BY DEF Heard
  <2> QED BY <2>1, <2>2, FS_Subset, FS_CardinalityType
<1>4. CASE e.to = {}
  <2>1. Grown(d, e) = d /\ Cardinality(e.to) = 0
    BY <1>1, <1>4, ToIs DEF Grown
  <2> QED BY <1>2, <1>3, <1>4, <2>1 DEF Extends, Bindings
<1>5. ASSUME NEW c \in Calls, c.callback = e.callback, e.to # Bindings, Cardinality(e.to) = 1, e.to # {},
             Grown(d, e) = Append(d, c), Grown(<< >>, e) = Append(<< >>, c)
      PROVE  Extends(d, e, Grown(d, e))
  <2>1. /\ Append(d, c) \in Seq(Calls) /\ Len(Append(d, c)) = Len(d) + 1
        /\ Append(d, c)[Len(d) + 1] = c /\ \A i \in 1 .. Len(d) : Append(d, c)[i] = d[i]
        /\ Append(<< >>, c)[1] = c
    BY <1>2
  <2>2. \A cb : /\ Heard(Append(d, c), cb) = IF c.callback = cb THEN Heard(d, cb) \cup {Len(d) + 1} ELSE Heard(d, cb)
                /\ Cardinality(Heard(Append(d, c), cb)) = IF c.callback = cb THEN Cardinality(Heard(d, cb)) + 1 ELSE Cardinality(Heard(d, cb))
    BY HeardOfOneMore
  <2>3. \A i \in 1 .. 1 : i = 1
    OBVIOUS
  <2> QED BY <1>3, <1>5, <2>1, <2>2, <2>3 DEF Extends
<1>6. CASE e.to = {1}
  <2>1. Grown(d, e) = Append(d, c1) /\ Grown(<< >>, e) = Append(<< >>, c1) /\ Cardinality(e.to) = 1 /\ e.to # Bindings /\ e.to # {}
    <3>1. 1 \in e.to /\ 2 \notin e.to /\ Cardinality(e.to) = 1
      BY <1>1, <1>6, ToIs
    <3> QED BY <1>6, <3>1 DEF Grown, c1, Bindings
  <2> QED BY <1>1, <1>5, <2>1
<1>7. CASE e.to = {2}
  <2>1. Grown(d, e) = Append(d, c2) /\ Grown(<< >>, e) = Append(<< >>, c2) /\ Cardinality(e.to) = 1 /\ e.to # Bindings /\ e.to # {}
    <3>1. 1 \notin e.to /\ 2 \in e.to /\ Cardinality(e.to) = 1
      BY <1>1, <1>7, ToIs
    <3> QED BY <1>7, <3>1 DEF Grown, c2, Bindings
  <2> QED BY <1>1, <1>5, <2>1
<1>8. CASE e.to = Bindings
  <2>1. /\ Grown(d, e) = Append(Append(d, c1), c2) /\ Grown(<< >>, e) = Append(Append(<< >>, c1), c2) /\ Cardinality(e.to) = 2
        /\ c1 \in Calls /\ c2 \in Calls
    BY <1>1, <1>8, ToIs DEF Grown, c1, c2, Bindings
  <2> DEFINE g == Append(d, c1)
  <2>2. /\ g \in Seq(Calls) /\ Len(g) = Len(d) + 1
        /\ g[Len(d) + 1] = c1 /\ \A i \in 1 .. Len(d) : g[i] = d[i]
    BY <2>1
  <2>3. \A cb : /\ Heard(g, cb) = IF c1.callback = cb THEN Heard(d, cb) \cup {Len(d) + 1} ELSE Heard(d, cb)
                /\ Cardinality(Heard(g, cb)) = IF c1.callback = cb THEN Cardinality(Heard(d, cb)) + 1 ELSE Cardinality(Heard(d, cb))
    BY <2>1, HeardOfOneMore
  <2> HIDE DEF g
  <2>4. /\ Append(g, c2) \in Seq(Calls) /\ Len(Append(g, c2)) = Len(d) + 2
        /\ Append(g, c2)[Len(d) + 2] = c2 /\ \A i \in 1 .. Len(d) + 1 : Append(g, c2)[i] = g[i]
    BY <1>2, <2>1, <2>2
  <2>5. \A cb : /\ Heard(Append(g, c2), cb) = IF c2.callback = cb THEN Heard(g, cb) \cup {Len(d) + 2} ELSE Heard(g, cb)
                /\ Cardinality(Heard(Append(g, c2), cb)) = IF c2.callback = cb THEN Cardinality(Heard(g, cb)) + 1 ELSE Cardinality(Heard(g, cb))
    <3>1. Len(g) + 1 = Len(d) + 2
      BY <1>2, <2>2
    <3> QED BY <2>1, <2>2, <3>1, HeardOfOneMore
  <2>6. /\ Append(Append(<< >>, c1), c2)[1] = c1 /\ Append(Append(<< >>, c1), c2)[2] = c2
    BY <2>1
  <2>7. \A i \in 1 .. 2 : i = 1 \/ i = 2
    OBVIOUS
  <2>8. Len(d) + 1 \in 1 .. Len(d) + 1 /\ \A i \in 1 .. Len(d) : i \in 1 .. Len(d) + 1
    BY <1>2
  <2>9. Grown(d, e) = Append(g, c2)
    BY <2>1 DEF g
  <2>10. \A cb : Cardinality(Heard(Append(g, c2), cb)) = Cardinality(Heard(d, cb)) + IF cb = e.callback THEN 2 ELSE 0
    BY <1>1, <1>3, <2>3, <2>5
  <2>11. \A cb : cb # e.callback => Heard(Append(g, c2), cb) = Heard(d, cb)
    BY <1>1, <2>3, <2>5
  <2>12. Heard(Append(g, c2), e.callback) = Heard(d, e.callback) \cup {Len(d) + 1, Len(d) + 2}
    BY <1>1, <2>3, <2>5
  <2>13. \A i \in 1 .. 2 : Append(g, c2)[Len(d) + i] = Append(Append(<< >>, c1), c2)[i]
    BY <2>2, <2>4, <2>6, <2>7, <2>8
  <2>14. e.to # {}
    BY <1>8 DEF Bindings
  <2> QED BY <1>1, <2>1, <2>2, <2>4, <2>8, <2>9, <2>10, <2>11, <2>12, <2>13, <2>14 DEF Extends
<1> QED BY <1>1, <1>4, <1>6, <1>7, <1>8, ToIs

LEMMA GrownIsAppended ==
  ASSUME NEW d \in Seq(Calls), NEW e \in Deliveries
  PROVE  Grown(d, e) = d \o Grown(<< >>, e)
<1>1. e.to \in SUBSET Bindings /\ (e.to # {} => CallOf(1, e) \in Calls /\ CallOf(2, e) \in Calls)
  BY DEF Deliveries, CallOf, Calls, Bindings
<1>2. \A c \in Calls : Append(d, c) = d \o Append(<< >>, c)
  OBVIOUS
<1>3. \A c1, c2 \in Calls : Append(Append(d, c1), c2) = d \o Append(Append(<< >>, c1), c2)
  OBVIOUS
<1>4. d = d \o << >>
  OBVIOUS
<1>5. e.to = {} \/ e.to # {}
  OBVIOUS
<1>6. e.to = {} => 1 \notin e.to /\ 2 \notin e.to
  OBVIOUS
<1> QED BY <1>1, <1>2, <1>3, <1>4, <1>5, <1>6 DEF Grown

\* Who hears of an event, once the bindings are sorted.
Sorted == <<1, 2>>
Hears(heard, b, e) == IF b \in e.to THEN Append(heard, CallOf(b, e)) ELSE heard

LEMMA SubscribersAre ==
  ASSUME NEW e \in Deliveries
  PROVE  Subscribers(e, Sorted) = Grown(<< >>, e)
<1> DEFINE Body(g) == [s \in SUBSET DOMAIN Sorted |-> IF s = {} THEN << >> ELSE Hears(g[s \ {Max(s)}], Sorted[Max(s)], e)]
           G == CHOOSE g : g = Body(g)
           H1 == Hears(<< >>, 1, e)
           g == [s \in SUBSET {1, 2} |-> IF s = {} THEN << >> ELSE IF s = {1} THEN H1 ELSE IF s = {2} THEN Hears(<< >>, 2, e) ELSE Hears(H1, 2, e)]
<1>1. DOMAIN Sorted = {1, 2} /\ Sorted[1] = 1 /\ Sorted[2] = 2
  BY DEF Sorted
<1>2. Subscribers(e, Sorted) = G[{1, 2}]
  BY <1>1 DEF Subscribers, Hears, CallOf, FoldLeft, MapThenFoldSet
<1>3. Max({1}) = 1 /\ Max({2}) = 2 /\ Max({1, 2}) = 2
  <2>1. ASSUME NEW S \in {{1}, {2}, {1, 2}}
        PROVE  Max(S) \in S /\ \A k \in S : k <= Max(S)
    <3>1. \E m \in S : \A k \in S : k <= m
      OBVIOUS
    <3> QED BY <3>1 DEF Max
  <2>2. Max({1}) \in {1} /\ Max({2}) \in {2} /\ Max({1, 2}) \in {1, 2} /\ 2 <= Max({1, 2})
    BY <2>1
  <2> QED BY <2>2
<1>4. \A s \in SUBSET {1, 2} : s = {} \/ s = {1} \/ s = {2} \/ s = {1, 2}
  OBVIOUS
<1>5. {1} \ {1} = {} /\ {2} \ {2} = {} /\ {1, 2} \ {2} = {1} /\ {1} # {} /\ {2} # {} /\ {1, 2} # {} /\ {1} # {2} /\ {1} # {1, 2} /\ {2} # {1, 2}
  OBVIOUS
<1>6. g[{}] = << >> /\ g[{1}] = H1 /\ g[{2}] = Hears(<< >>, 2, e) /\ g[{1, 2}] = Hears(H1, 2, e)
  <2> HIDE DEF H1
  <2> QED BY <1>5
<1> HIDE DEF H1
<1>7. g = Body(g)
  <2>1. g = [s \in SUBSET {1, 2} |-> g[s]]
    OBVIOUS
  <2> HIDE DEF g
  <2>2. \A s \in SUBSET {1, 2} : g[s] = IF s = {} THEN << >> ELSE Hears(g[s \ {Max(s)}], Sorted[Max(s)], e)
    BY <1>1, <1>3, <1>4, <1>5, <1>6 DEF H1
  <2> QED BY <1>1, <2>1, <2>2
<1>8. G = Body(G)
  <2> HIDE DEF Body
  <2> QED BY <1>7
<1>9. \A s \in SUBSET {1, 2} : G[s] = IF s = {} THEN << >> ELSE Hears(G[s \ {Max(s)}], Sorted[Max(s)], e)
  <2> HIDE DEF G
  <2> QED BY <1>1, <1>8
<1>10. G[{1, 2}] = Hears(H1, 2, e)
  <2> HIDE DEF G
  <2>1. G[{}] = << >>
    BY <1>9
  <2>2. G[{1}] = H1
    <3>1. {1} \in SUBSET {1, 2}
      OBVIOUS
    <3>2. G[{1}] = Hears(G[{1} \ {Max({1})}], Sorted[Max({1})], e)
      BY <1>5, <1>9, <3>1
    <3> QED BY <1>1, <1>3, <1>5, <2>1, <3>2 DEF H1
  <2> QED BY <1>1, <1>3, <1>5, <1>9, <2>2
<1> QED BY <1>2, <1>10 DEF H1, Hears, Grown

\* However the runtime lists the bindings.
LEMMA ArrangedIs ==
  ASSUME NEW listed \in SetToSeqs(Bindings)
  PROVE  Arranged(listed) = Sorted
<1>1. Cardinality({1, 2}) = 2 /\ Cardinality({1}) = 1
  BY ToIs DEF Bindings
<1>2. listed \in [1 .. 2 -> {1, 2}] /\ listed[1] # listed[2]
  <2>1. listed \in [1 .. 2 -> {1, 2}] /\ \A i, j \in 1 .. 2 : i # j => listed[i] # listed[j]
    BY <1>1 DEF SetToSeqs, Bindings
  <2> QED BY <2>1
<1>3. Range(listed) = {1, 2} /\ DOMAIN listed = 1 .. 2
  BY <1>2 DEF Range
<1>4. {c \in {1, 2} : c <= 1} = {1} /\ {c \in {1, 2} : c <= 2} = {1, 2}
  OBVIOUS
<1>5. (CHOOSE b \in {1, 2} : Cardinality({c \in {1, 2} : c <= b}) = 1) = 1
  BY <1>1, <1>4
<1>6. (CHOOSE b \in {1, 2} : Cardinality({c \in {1, 2} : c <= b}) = 2) = 2
  BY <1>1, <1>4
<1>7. Arranged(listed) = [i \in 1 .. 2 |-> CHOOSE b \in {1, 2} : Cardinality({c \in {1, 2} : c <= b}) = i]
  BY <1>3 DEF Arranged
<1>8. Arranged(listed)[1] = 1 /\ Arranged(listed)[2] = 2 /\ DOMAIN Arranged(listed) = 1 .. 2
  BY <1>5, <1>6, <1>7
<1>9. Arranged(listed) = [i \in 1 .. 2 |-> Arranged(listed)[i]]
  BY <1>7
<1> HIDE DEF Arranged
<1> QED BY <1>8, <1>9 DEF Sorted

-----------------------------------------------------------------------------
(***************************************************************************)
(* What the scripts are owed.  All the calls that have been decided on,    *)
(* made or not, relate the table of the transaction to the one before it.  *)
(***************************************************************************)
Answered(before, t) == t.prompt = "resolved" /\ before.prompt # "resolved"
Owed(before, t, used, d) ==
  /\ d \in Seq(Calls)
  /\ Len(d) + (IF t.prompt = "open" THEN 1 ELSE 0) <= used + 2
  /\ t.faceUp # before.faceUp <=> Cardinality(Heard(d, "on_flip")) % 2 = 1
  /\ Cardinality(Fired(t) \ Fired(before)) = Cardinality(Heard(d, "tick"))
  /\ before.prompt = "resolved" => t.prompt = "resolved"
  /\ IF Answered(before, t)
     THEN \E i, j \in 1 .. Len(d) : /\ Heard(d, "on_prompt") = {i, j} /\ i < j
                                    /\ d[i].binding = 1 /\ d[j].binding = 2
     ELSE Heard(d, "on_prompt") = {}

LEMMA NoCallsHeard ==
  ASSUME NEW cb
  PROVE  Heard(<< >>, cb) = {} /\ Cardinality(Heard(<< >>, cb)) = 0
<1>1. DOMAIN << >> = {}
  OBVIOUS
<1> QED BY <1>1, FS_EmptySet DEF Heard

LEMMA HeardAreNumbers ==
  ASSUME NEW d \in Seq(Calls), NEW cb
  PROVE  IsFiniteSet(Heard(d, cb)) /\ Cardinality(Heard(d, cb)) \in Nat
<1>1. IsFiniteSet(1 .. Len(d))
  BY FS_Interval
<1>2. Heard(d, cb) \subseteq 1 .. Len(d)
  BY DEF Heard
<1> QED BY <1>1, <1>2, FS_Subset, FS_CardinalityType

\* An action or command on table t, of a transaction that began with table before.
LEMMA OneMoreOwed ==
  ASSUME NEW before \in Tables, NEW t \in Tables, NEW used \in Nat, NEW d, Owed(before, t, used, d),
         NEW c \in Commands, Valid(t, c)
  PROVE  Owed(before, Applied(t, c), used + 1, Grown(d, Delivery(t, c)))
<1> DEFINE u == Applied(t, c)
           e == Delivery(t, c)
           g == Grown(d, e)
<1>1. Effect(t, c, u) /\ e \in Deliveries /\ c.type # "fire" /\ c.type # "start" /\ c.type # "press"
  BY AppliedHas, DeliveryIs DEF Commands, PlainCommands, Registers, Cancels
<1>2. d \in Seq(Calls) /\ Extends(d, e, g)
  BY <1>1, GrownExtends DEF Owed
<1>3. Len(d) \in Nat /\ \A cb : Cardinality(Heard(d, cb)) \in Nat
  BY <1>2, HeardAreNumbers
<1>4. /\ c.type = "respond" => e = [callback |-> "on_prompt", to |-> Bindings]
      /\ c.type = "flip" => e = [callback |-> "on_flip", to |-> {Card}]
      /\ c.type = "roll" => \E cb \in {"on_press", "on_roll"} : e = [callback |-> cb, to |-> {Die}]
      /\ c.type \notin {"respond", "flip", "roll"} => e = [callback |-> "none", to |-> {}]
  BY <1>1, DeliveryIs
<1>5. Cardinality({Card}) = 1 /\ Cardinality({Die}) = 1 /\ Cardinality(Bindings) = 2 /\ Cardinality({}) = 0 /\ {Card} # Bindings /\ {Die} # Bindings
  BY ToIs DEF Card, Die, Bindings
<1> HIDE DEF u, e, g
<1>6. g \in Seq(Calls) /\ Len(g) = Len(d) + Cardinality(e.to)
  BY <1>2 DEF Extends
<1>7. Len(g) + (IF u.prompt = "open" THEN 1 ELSE 0) <= used + 1 + 2
  <2>1. Len(d) + (IF t.prompt = "open" THEN 1 ELSE 0) <= used + 2
    BY DEF Owed
  <2>2. CASE c.type = "respond"
    <3>1. t.prompt = "open" /\ u.prompt = "resolved" /\ Cardinality(e.to) = 2
      BY <1>1, <1>4, <1>5, <2>2 DEF Effect
    <3> QED BY <1>3, <1>6, <2>1, <3>1
  <2>3. CASE c.type # "respond"
    <3>1. Cardinality(e.to) = 0 \/ (Cardinality(e.to) = 1 /\ c.type \in {"flip", "roll"})
      BY <1>4, <1>5, <2>3
    <3>2. CASE c.type \in {"flip", "roll"}
      <4>1. u.prompt = t.prompt
        BY <1>1, <3>2 DEF Effect
      <4> QED BY <1>3, <1>6, <2>1, <3>1, <4>1
    <3>3. CASE c.type \notin {"flip", "roll"}
      BY <1>3, <1>6, <2>1, <3>1, <3>3
    <3> QED BY <3>2, <3>3
  <2> QED BY <2>2, <2>3
<1>8. u.faceUp # before.faceUp <=> Cardinality(Heard(g, "on_flip")) % 2 = 1
  <2> DEFINE n == Cardinality(Heard(d, "on_flip"))
  <2>1. n \in Nat /\ (t.faceUp # before.faceUp <=> n % 2 = 1)
    BY <1>3 DEF Owed
  <2>2. CASE c.type = "flip"
    <3>1. Cardinality(Heard(g, "on_flip")) = n + 1
      <4>1. e.callback = "on_flip" /\ Cardinality(e.to) = 1
        BY <1>4, <1>5, <2>2
      <4>2. Cardinality(Heard(g, "on_flip")) = n + IF "on_flip" = e.callback THEN Cardinality(e.to) ELSE 0
        BY <1>2 DEF Extends
      <4> HIDE DEF n
      <4> QED BY <4>1, <4>2
    <3>2. (n + 1) % 2 = 1 <=> ~(n % 2 = 1)
      <4> HIDE DEF n
      <4> QED BY <2>1
    <3>3. u.faceUp # t.faceUp /\ u.faceUp \in BOOLEAN /\ t.faceUp \in BOOLEAN
      BY <1>1, <2>2 DEF Effect, Sound, Tables
    <3>4. u.faceUp # before.faceUp <=> ~(t.faceUp # before.faceUp)
      <4>1. before.faceUp \in BOOLEAN
        BY DEF Tables
      <4> QED BY <3>3, <4>1
    <3>5. u.faceUp # before.faceUp <=> ~(n % 2 = 1)
      <4> HIDE DEF n
      <4> QED BY <2>1, <3>4
    <3>6. u.faceUp # before.faceUp <=> (n + 1) % 2 = 1
      <4> HIDE DEF n
      <4> QED BY <3>2, <3>5
    <3> HIDE DEF n
    <3> QED BY <3>1, <3>6
  <2>3. CASE c.type # "flip"
    <3>1. e.callback # "on_flip"
      BY <1>4, <2>3
    <3>2. Cardinality(Heard(g, "on_flip")) = n
      BY <1>2, <1>3, <3>1 DEF Extends
    <3>3. u.faceUp = t.faceUp
      BY <1>1, <2>3 DEF Effect
    <3> QED BY <2>1, <3>2, <3>3
  <2> QED BY <2>2, <2>3
<1>9. Cardinality(Fired(u) \ Fired(before)) = Cardinality(Heard(g, "tick"))
  <2>1. e.callback # "tick" /\ Fired(u) = Fired(t)
    BY <1>1, <1>4 DEF Effect
  <2>2. Cardinality(Heard(g, "tick")) = Cardinality(Heard(d, "tick"))
    BY <1>2, <1>3, <2>1 DEF Extends
  <2> QED BY <2>1, <2>2 DEF Owed
<1>10. before.prompt = "resolved" => u.prompt = "resolved"
  BY <1>1 DEF Effect, Owed
<1>11. IF Answered(before, u)
       THEN \E i, j \in 1 .. Len(g) : /\ Heard(g, "on_prompt") = {i, j} /\ i < j
                                      /\ g[i].binding = 1 /\ g[j].binding = 2
       ELSE Heard(g, "on_prompt") = {}
  <2>1. CASE c.type = "respond"
    <3>1. t.prompt = "open" /\ u.prompt = "resolved" /\ before.prompt # "resolved" /\ e.callback = "on_prompt" /\ e.to = Bindings
      BY <1>1, <1>4, <2>1 DEF Effect, Owed
    <3>2. Heard(d, "on_prompt") = {}
      BY <3>1 DEF Owed, Answered
    <3>3. /\ Heard(g, "on_prompt") = {Len(d) + 1, Len(d) + 2} /\ g[Len(d) + 1].binding = 1 /\ g[Len(d) + 2].binding = 2
          /\ Len(g) = Len(d) + 2
      BY <1>2, <1>5, <3>1, <3>2 DEF Extends
    <3>4. Len(d) + 1 \in 1 .. Len(g) /\ Len(d) + 2 \in 1 .. Len(g) /\ Len(d) + 1 < Len(d) + 2
      BY <1>3, <3>3
    <3>5. Answered(before, u)
      BY <3>1 DEF Answered
    <3> QED BY <3>3, <3>4, <3>5
  <2>2. CASE c.type # "respond"
    <3>1. e.callback # "on_prompt" \/ e.to = {}
      BY <1>4, <2>2
    <3>2. Heard(g, "on_prompt") = Heard(d, "on_prompt") /\ (\A i \in 1 .. Len(d) : g[i] = d[i]) /\ Len(g) >= Len(d)
      <4>1. Cardinality(e.to) \in Nat
        BY <1>4, <1>5
      <4> QED BY <1>2, <1>3, <1>6, <3>1, <4>1 DEF Extends
    <3>3. Answered(before, u) <=> Answered(before, t)
      BY <1>1, <2>2 DEF Effect, Owed, Answered
    <3>4. CASE Answered(before, t)
      <4>1. PICK i, j \in 1 .. Len(d) : Heard(d, "on_prompt") = {i, j} /\ i < j /\ d[i].binding = 1 /\ d[j].binding = 2
        BY <3>4 DEF Owed
      <4>2. i \in 1 .. Len(g) /\ j \in 1 .. Len(g)
        BY <1>3, <1>6, <3>2
      <4> QED BY <3>2, <3>3, <3>4, <4>1, <4>2
    <3>5. CASE ~Answered(before, t)
      BY <3>2, <3>3, <3>5 DEF Owed
    <3> QED BY <3>4, <3>5
  <2> QED BY <2>1, <2>2
<1> QED BY <1>6, <1>7, <1>8, <1>9, <1>10, <1>11 DEF Owed, u, e, g


\* The ordered action itself, on the table before the transaction.
LEMMA BaseOwed ==
  ASSUME NEW t \in Tables, NEW c \in OrderedActions, Valid(t, c), t.sequence = 0 => t.prompt = "none", NEW u \in Tables,
         u.faceUp = Applied(t, c).faceUp, u.prompt = Applied(t, c).prompt, u.timers = Applied(t, c).timers
  PROVE  Owed(t, u, 0, Grown(<< >>, Delivery(t, c)))
<1> DEFINE v == Applied(t, c)
           e == Delivery(t, c)
           g == Grown(<< >>, e)
<1>1. Effect(t, c, v) /\ e \in Deliveries /\ c.type \in {"start", "flip", "press", "roll", "respond", "fire"}
  BY AppliedHas, DeliveryIs DEF OrderedActions, PlainActions, Fires
<1>2. << >> \in Seq(Calls) /\ Extends(<< >>, e, g) /\ Len(<< >>) = 0
  <2>1. << >> \in Seq(Calls) /\ Len(<< >>) = 0
    OBVIOUS
  <2> HIDE DEF e
  <2> QED BY <1>1, <2>1, GrownExtends
<1>3. \A cb : Heard(<< >>, cb) = {} /\ Cardinality(Heard(<< >>, cb)) = 0
  BY NoCallsHeard
<1>4. /\ c.type = "start" => e = [callback |-> "on_start", to |-> Bindings]
      /\ c.type = "respond" => e = [callback |-> "on_prompt", to |-> Bindings]
      /\ c.type = "flip" => e = [callback |-> "on_flip", to |-> {Card}]
      /\ c.type = "fire" => \E b \in Bindings : e = [callback |-> "tick", to |-> {b}]
      /\ c.type \in {"press", "roll"} => \E cb \in {"on_press", "on_roll"} : e = [callback |-> cb, to |-> {Die}]
  BY <1>1, DeliveryIs
<1>5. Cardinality({Card}) = 1 /\ Cardinality({Die}) = 1 /\ Cardinality(Bindings) = 2 /\ \A b \in Bindings : Cardinality({b}) = 1
  BY ToIs DEF Card, Die, Bindings
<1>6. u.faceUp = v.faceUp /\ u.prompt = v.prompt /\ Fired(u) = Fired(v)
  BY DEF Fired
<1>7. c.type = "start" => t.prompt = "none"
  BY DEF Valid, PromptTypes, TimerTypes
<1> HIDE DEF v, e, g
<1>8. /\ g \in Seq(Calls) /\ Len(g) = Cardinality(e.to)
      /\ \A cb : Cardinality(Heard(g, cb)) = IF cb = e.callback THEN Cardinality(e.to) ELSE 0
      /\ \A cb : cb # e.callback \/ e.to = {} => Heard(g, cb) = {}
  <2>1. Cardinality(e.to) \in Nat
    <3>1. c.type \in {"press", "roll"} => e.to = {Die}
      BY <1>4
    <3>2. c.type = "fire" => \E b \in Bindings : e.to = {b}
      BY <1>4
    <3>3. e.to = Bindings \/ e.to = {Card} \/ e.to = {Die} \/ \E b \in Bindings : e.to = {b}
      BY <1>1, <1>4, <3>1, <3>2
    <3>4. Cardinality(e.to) = 1 \/ Cardinality(e.to) = 2
      BY <1>5, <3>3, Zenon
    <3> QED BY <3>4
  <2> QED BY <1>2, <1>3, <2>1 DEF Extends
<1>9. Len(g) + (IF u.prompt = "open" THEN 1 ELSE 0) <= 0 + 2
  <2>1. CASE c.type = "start"
    <3>1. u.prompt = "none" /\ Cardinality(e.to) = 2
      BY <1>1, <1>4, <1>5, <1>6, <1>7, <2>1 DEF Effect
    <3> QED BY <1>8, <3>1
  <2>2. CASE c.type = "respond"
    <3>1. u.prompt = "resolved" /\ Cardinality(e.to) = 2
      BY <1>1, <1>4, <1>5, <1>6, <2>2 DEF Effect
    <3> QED BY <1>8, <3>1
  <2>3. CASE c.type \in {"flip", "press", "roll", "fire"}
    <3>1. Cardinality(e.to) = 1
      <4>1. CASE c.type = "fire"
        <5>1. PICK b \in Bindings : e = [callback |-> "tick", to |-> {b}]
          BY <1>4, <4>1
        <5>2. e.to = {b}
          BY <5>1
        <5> QED BY <1>5, <5>2
      <4>2. CASE c.type # "fire"
        BY <1>4, <1>5, <2>3, <4>2
      <4> QED BY <4>1, <4>2
    <3> QED BY <1>8, <3>1
  <2> QED BY <1>1, <2>1, <2>2, <2>3
<1>10. u.faceUp # t.faceUp <=> Cardinality(Heard(g, "on_flip")) % 2 = 1
  <2>1. CASE c.type = "flip"
    <3>1. e.callback = "on_flip" /\ Cardinality(e.to) = 1 /\ u.faceUp # t.faceUp
      BY <1>1, <1>4, <1>5, <1>6, <2>1 DEF Effect
    <3>2. Cardinality(Heard(g, "on_flip")) = 1
      BY <1>8, <3>1
    <3> QED BY <3>1, <3>2
  <2>2. CASE c.type # "flip"
    <3>1. e.callback # "on_flip" /\ u.faceUp = t.faceUp
      BY <1>1, <1>4, <1>6, <2>2 DEF Effect
    <3>2. Cardinality(Heard(g, "on_flip")) = 0
      BY <1>8, <3>1
    <3> QED BY <3>1, <3>2
  <2> QED BY <2>1, <2>2
<1>11. Cardinality(Fired(u) \ Fired(t)) = Cardinality(Heard(g, "tick"))
  <2>1. CASE c.type = "fire"
    <3>1. e.callback = "tick" /\ Cardinality(e.to) = 1 /\ c.timer \notin Fired(t) /\ Fired(u) = Fired(t) \cup {c.timer}
      BY <1>1, <1>4, <1>5, <1>6, <2>1 DEF Effect
    <3>2. Fired(u) \ Fired(t) = {c.timer}
      BY <3>1
    <3> QED BY <1>8, <3>1, <3>2, FS_Singleton
  <2>2. CASE c.type # "fire"
    <3>1. e.callback # "tick" /\ Fired(u) \ Fired(t) = {}
      BY <1>1, <1>4, <1>6, <2>2 DEF Effect
    <3> QED BY <1>8, <3>1, FS_EmptySet
  <2> QED BY <2>1, <2>2
<1>12. t.prompt = "resolved" => u.prompt = "resolved"
  BY <1>1, <1>6 DEF Effect
<1>13. IF Answered(t, u)
       THEN \E i, j \in 1 .. Len(g) : /\ Heard(g, "on_prompt") = {i, j} /\ i < j
                                      /\ g[i].binding = 1 /\ g[j].binding = 2
       ELSE Heard(g, "on_prompt") = {}
  <2>1. CASE c.type = "respond"
    <3>1. Answered(t, u) /\ e.callback = "on_prompt" /\ e.to = Bindings
      BY <1>1, <1>4, <1>6, <2>1 DEF Effect, Answered
    <3>2. /\ Heard(g, "on_prompt") = {1, 2} /\ g[1].binding = 1 /\ g[2].binding = 2 /\ Len(g) = 2
      <4>1. Len(<< >>) + 1 = 1 /\ Len(<< >>) + 2 = 2
        OBVIOUS
      <4> QED BY <1>2, <1>3, <1>5, <1>8, <3>1, <4>1 DEF Extends
    <3>3. 1 \in 1 .. Len(g) /\ 2 \in 1 .. Len(g) /\ 1 < 2
      BY <3>2
    <3> QED BY <3>1, <3>2, <3>3
  <2>2. CASE c.type # "respond"
    <3>1. ~Answered(t, u) /\ e.callback # "on_prompt"
      BY <1>1, <1>4, <1>6, <2>2 DEF Effect, Answered
    <3> QED BY <1>8, <3>1
  <2> QED BY <2>1, <2>2
<1> QED BY <1>8, <1>9, <1>10, <1>11, <1>12, <1>13 DEF Owed, e, g

\* The owed calls do not depend on random numbers, script state and place in the log.
LEMMA OwedShown ==
  ASSUME NEW before, NEW t, NEW u, NEW used, NEW d, Owed(before, t, used, d),
         u.faceUp = t.faceUp, u.prompt = t.prompt, u.timers = t.timers
  PROVE  Owed(before, u, used, d)
BY DEF Owed, Answered, Fired

-----------------------------------------------------------------------------
\* The calls of a transaction: those made, those of the event being delivered and
\* those that the events still waiting will lead to.
IsCalled(f, d, events) ==
  /\ f \in [0 .. Len(events) -> Seq(Calls)] /\ f[0] = d
  /\ \A j \in 1 .. Len(events) : f[j] = Grown(f[j - 1], events[j])

OwedIn(before, t, used, d, events) ==
  \E f \in [0 .. Len(events) -> Seq(Calls)] : IsCalled(f, d, events) /\ Owed(before, t, used, f[Len(events)])

LEMMA CalledAtLeast ==
  ASSUME NEW events \in Seq(Deliveries), NEW d \in Seq(Calls), NEW f, IsCalled(f, d, events)
  PROVE  Len(d) <= Len(f[Len(events)])
<1> DEFINE S == {j \in 0 .. Len(events) : Len(d) <= Len(f[j])}
<1>1. Len(events) \in Nat /\ Len(d) \in Nat /\ f \in [0 .. Len(events) -> Seq(Calls)]
  BY DEF IsCalled
<1>2. 0 \in S
  BY <1>1 DEF IsCalled
<1>3. \A j \in 1 .. Len(events) : j - 1 \in S => j \in S
  <2> SUFFICES ASSUME NEW j \in 1 .. Len(events), j - 1 \in S
               PROVE  Len(d) <= Len(f[j])
    OBVIOUS
  <2>1. j - 1 \in 0 .. Len(events) /\ f[j - 1] \in Seq(Calls) /\ events[j] \in Deliveries /\ Len(d) <= Len(f[j - 1])
    BY <1>1
  <2>2. Extends(f[j - 1], events[j], f[j])
    BY <2>1, GrownExtends DEF IsCalled
  <2>3. Cardinality(events[j].to) \in Nat
    BY <2>1, ToIs DEF Deliveries
  <2>4. Len(f[j - 1]) \in Nat /\ Len(f[j]) = Len(f[j - 1]) + Cardinality(events[j].to)
    BY <2>1, <2>2 DEF Extends
  <2> QED BY <1>1, <2>1, <2>3, <2>4
<1>4. \A j \in 0 .. Len(events) : j \in S
  <2> HIDE DEF S
  <2>1. \A k \in 0 .. Len(events) - 1 : k \in S => k + 1 \in S
    <3>1. \A k \in 0 .. Len(events) - 1 : k + 1 \in 1 .. Len(events) /\ k + 1 - 1 = k
      BY <1>1
    <3> QED BY <1>3, <3>1
  <2> QED BY <1>1, <1>2, <2>1, UpTo
<1>5. Len(events) \in 0 .. Len(events)
  BY <1>1
<1> QED BY <1>4, <1>5

\* A command leads to one more event.
LEMMA CommandOwed ==
  ASSUME NEW before \in Tables, NEW t \in Tables, NEW used \in Nat, NEW d \in Seq(Calls), NEW events \in Seq(Deliveries),
         OwedIn(before, t, used, d, events), NEW c \in Commands, Valid(t, c)
  PROVE  OwedIn(before, Applied(t, c), used + 1, d, Append(events, Delivery(t, c)))
<1> DEFINE e == Delivery(t, c)
           n == Len(events)
<1>1. PICK f \in [0 .. n -> Seq(Calls)] : IsCalled(f, d, events) /\ Owed(before, t, used, f[n])
  BY DEF OwedIn
<1>2. e \in Deliveries /\ n \in Nat
  BY DeliveryIs
<1>3. f[n] \in Seq(Calls)
  BY <1>1, <1>2
<1>4. Owed(before, Applied(t, c), used + 1, Grown(f[n], e))
  BY <1>1, OneMoreOwed
<1> HIDE DEF e
<1>5. Grown(f[n], e) \in Seq(Calls)
  BY <1>2, <1>3, GrownExtends DEF Extends
<1> DEFINE g == [j \in 0 .. n + 1 |-> IF j = n + 1 THEN Grown(f[n], e) ELSE f[j]]
<1>6. Len(Append(events, e)) = n + 1 /\ Append(events, e)[n + 1] = e /\ \A j \in 1 .. n : Append(events, e)[j] = events[j]
  <2>1. e \in Deliveries
    BY <1>2
  <2> QED BY <2>1
<1> HIDE DEF n
<1>7. /\ g \in [0 .. n + 1 -> Seq(Calls)] /\ g[0] = f[0] /\ g[n + 1] = Grown(f[n], e) /\ g[n] = f[n]
      /\ \A j \in 1 .. n : g[j] = f[j] /\ g[j - 1] = f[j - 1]
  BY <1>1, <1>2, <1>5
<1> HIDE DEF g
<1>8. IsCalled(g, d, Append(events, e))
  <2>1. \A j \in 1 .. n + 1 : j \in 1 .. n \/ (j = n + 1 /\ j - 1 = n)
    BY <1>2
  <2>2. f[0] = d /\ \A j \in 1 .. n : f[j] = Grown(f[j - 1], events[j])
    BY <1>1 DEF IsCalled, n
  <2>3. ASSUME NEW j \in 1 .. n + 1
        PROVE  g[j] = Grown(g[j - 1], Append(events, e)[j])
    <3>1. CASE j \in 1 .. n
      BY <1>6, <1>7, <2>2, <3>1
    <3>2. CASE j = n + 1 /\ j - 1 = n
      BY <1>6, <1>7, <3>2
    <3> QED BY <2>1, <3>1, <3>2
  <2> QED BY <1>6, <1>7, <2>2, <2>3 DEF IsCalled
<1> QED BY <1>4, <1>6, <1>7, <1>8 DEF OwedIn, e

-----------------------------------------------------------------------------
\* What an invocation queues, and what becomes of it.
Queues == [commands : Seq(Commands), ids : Nat]

LEMMA OldestIs ==
  ASSUME NEW t \in Tables, NEW b, Own(t, b) # {}
  PROVE  Oldest(t, b) \in Own(t, b) /\ Oldest(t, b) \in TimerIds
<1>1. Own(t, b) \subseteq TimerIds
  BY TimersAre DEF Own
<1> DEFINE S == {id[1] : id \in Own(t, b)}
<1>2. S \subseteq Nat /\ S # {}
  BY <1>1 DEF TimerIds
<1>3. PICK m \in S : \A k \in S : m <= k
  <2> HIDE DEF S
  <2> QED BY <1>2, Least
<1>4. PICK id \in Own(t, b) : id[1] = m
  BY <1>3
<1>5. \A other \in Own(t, b) : id[1] <= other[1]
  BY <1>3, <1>4
<1> HIDE DEF S
<1> QED BY <1>1, <1>5 DEF Oldest

LEMMA QueueType ==
  ASSUME NEW t \in Tables, NEW b \in Bindings, NEW q \in Queues, NEW asked \in Requests
  PROVE  Queue(t, b, q, asked) \in Queues
<1>1. q.commands \in Seq(Commands) /\ q.ids \in Nat /\ t.sequence \in Nat
  BY DEF Queues, Tables
<1>2. ASSUME NEW c \in Commands
      PROVE  [q EXCEPT !.commands = Append(@, c)] \in Queues
  <2>1. Append(q.commands, c) \in Seq(Commands)
    BY <1>1
  <2> QED BY <2>1 DEF Queues
<1>3. CASE asked = "show"
  <2>1. [type |-> "flip"] \in Commands
    BY DEF Commands, PlainCommands
  <2>2. Queue(t, b, q, asked) = IF t.faceUp THEN q ELSE [q EXCEPT !.commands = Append(@, [type |-> "flip"])]
    BY <1>3 DEF Queue
  <2> QED BY <1>2, <2>1, <2>2
<1>4. CASE asked = "after"
  <2> DEFINE c == [type |-> "register", by |-> b, timer |-> <<t.sequence, q.ids>>]
  <2>1. c \in Commands
    BY <1>1 DEF Commands, Registers, TimerIds
  <2>2. Queue(t, b, q, asked) = [commands |-> Append(q.commands, c), ids |-> q.ids + 1]
    BY <1>4 DEF Queue
  <2> HIDE DEF c
  <2>3. Append(q.commands, c) \in Seq(Commands) /\ q.ids + 1 \in Nat
    BY <1>1, <2>1
  <2> QED BY <2>2, <2>3 DEF Queues
<1>5. CASE asked = "forget"
  <2>1. CASE Own(t, b) = {}
    BY <1>5, <2>1 DEF Queue
  <2>2. CASE Own(t, b) # {}
    <3>1. [type |-> "cancel", timer |-> Oldest(t, b)] \in Commands
      BY <2>2, OldestIs DEF Commands, Cancels
    <3>2. Queue(t, b, q, asked) = [q EXCEPT !.commands = Append(@, [type |-> "cancel", timer |-> Oldest(t, b)])]
      BY <1>5, <2>2 DEF Queue
    <3> QED BY <1>2, <3>1, <3>2
  <2> QED BY <2>1, <2>2
<1>6. CASE asked \notin {"show", "after", "forget"}
  <2>1. [type |-> asked] \in Commands
    BY <1>6 DEF Commands, PlainCommands, Requests
  <2>2. Queue(t, b, q, asked) = [q EXCEPT !.commands = Append(@, [type |-> asked])]
    BY <1>6 DEF Queue
  <2> QED BY <1>2, <2>1, <2>2
<1> QED BY <1>3, <1>4, <1>5, <1>6

LEMMA NoQueue ==
  ASSUME NEW ids \in Nat
  PROVE  [commands |-> << >>, ids |-> ids] \in Queues
BY DEF Queues

IsQueued(f, t, b, asked, ids) ==
  /\ f[0] = [commands |-> << >>, ids |-> ids]
  /\ \A i \in 1 .. Len(asked) : f[i] = Queue(t, b, f[i - 1], asked[i])

LEMMA QueuedIterates ==
  ASSUME NEW t \in Tables, NEW b \in Bindings, NEW ids \in Nat, NEW asked \in Seq(Requests)
  PROVE  \E f \in [0 .. Len(asked) -> Queues] : IsQueued(f, t, b, asked, ids) /\ Queued(t, b, asked, ids) = f[Len(asked)]
<1> DEFINE n == Len(asked)
           start == [commands |-> << >>, ids |-> ids]
           h == [x \in Queues \X (1 .. n) |-> Queue(t, b, x[1], asked[x[2]])]
           Body(g) == [s \in SUBSET DOMAIN asked |-> IF s = {} THEN start ELSE Queue(t, b, g[s \ {Max(s)}], asked[Max(s)])]
           G == CHOOSE g : g = Body(g)
<1>1. n \in Nat /\ DOMAIN asked = 1 .. n /\ start \in Queues /\ \A i \in 1 .. n : asked[i] \in Requests
  BY NoQueue
<1>2. h \in [Queues \X (1 .. n) -> Queues]
  <2> SUFFICES ASSUME NEW x \in Queues \X (1 .. n)
               PROVE  Queue(t, b, x[1], asked[x[2]]) \in Queues
    OBVIOUS
  <2> QED BY <1>1, QueueType
<1>3. \A r \in Queues, i \in 1 .. n : h[<<r, i>>] = Queue(t, b, r, asked[i])
  OBVIOUS
<1>4. Queued(t, b, asked, ids) = G[DOMAIN asked]
  BY DEF Queued, FoldLeft, MapThenFoldSet
<1> HIDE DEF h, n, start
<1>5. ASSUME NEW s \in SUBSET (1 .. n), s # {}
      PROVE  Max(s) \in 1 .. n
  BY <1>1, <1>5, GreatestOf
<1>6. PICK g \in [SUBSET (1 .. n) -> Queues] : IsFoldUp(g, n, start, h)
  BY <1>1, <1>2, FoldUpExists
<1>7. g = Body(g)
  <2>1. ASSUME NEW s \in SUBSET (1 .. n)
        PROVE  g[s] = IF s = {} THEN start ELSE Queue(t, b, g[s \ {Max(s)}], asked[Max(s)])
    BY <1>3, <1>5, <1>6 DEF IsFoldUp
  <2> QED BY <1>1, <1>6, <2>1
<1>8. G = Body(G)
  <2> HIDE DEF Body
  <2> QED BY <1>7
<1>9. FoldsUp(G, n, Queues, start, h)
  <2> HIDE DEF G
  <2> QED BY <1>1, <1>3, <1>5, <1>8 DEF FoldsUp
<1>10. PICK f \in [0 .. n -> Queues] : ComesTo(G, f, n, start, h)
  <2> HIDE DEF G
  <2> QED BY <1>1, <1>2, <1>9, FoldUp
<1>11. IsQueued(f, t, b, asked, ids)
  <2>1. \A i \in 1 .. n : f[i - 1] \in Queues
    BY <1>1, <1>10
  <2> QED BY <1>3, <1>10, <2>1 DEF IsQueued, ComesTo, IsIteration, n, start
<1> QED BY <1>1, <1>4, <1>10, <1>11 DEF ComesTo, n

LEMMA QueuedIs ==
  ASSUME NEW t \in Tables, NEW b \in Bindings, NEW ids \in Nat, NEW asked \in Seq(Requests),
         NEW f \in [0 .. Len(asked) -> Queues], IsQueued(f, t, b, asked, ids)
  PROVE  Queued(t, b, asked, ids) = f[Len(asked)]
<1>1. PICK g \in [0 .. Len(asked) -> Queues] : IsQueued(g, t, b, asked, ids) /\ Queued(t, b, asked, ids) = g[Len(asked)]
  BY QueuedIterates
<1>2. \A k \in 0 .. Len(asked) : g[k] = f[k]
  <2>1. g[0] = f[0]
    BY <1>1 DEF IsQueued
  <2>2. \A k \in 1 .. Len(asked) : g[k - 1] = f[k - 1] => g[k] = f[k]
    BY <1>1 DEF IsQueued
  <2>3. Len(asked) \in Nat
    OBVIOUS
  <2> QED BY <2>1, <2>2, <2>3, IterationsAgree, Zenon
<1> QED BY <1>1, <1>2

LEMMA QueuedType ==
  ASSUME NEW t \in Tables, NEW b \in Bindings, NEW ids \in Nat, NEW asked \in Seq(Requests)
  PROVE  Queued(t, b, asked, ids) \in Queues
<1>1. PICK f \in [0 .. Len(asked) -> Queues] : IsQueued(f, t, b, asked, ids) /\ Queued(t, b, asked, ids) = f[Len(asked)]
  BY QueuedIterates
<1>2. Len(asked) \in 0 .. Len(asked)
  <2>1. Len(asked) \in Nat
    OBVIOUS
  <2> QED BY <2>1
<1> QED BY <1>1, <1>2

Works == [ok : BOOLEAN, draft : Tables, used : 0 .. MaxCommands, events : Seq(Deliveries)]

LEMMA CommandType ==
  ASSUME NEW c \in Commands, NEW work \in Works
  PROVE  /\ Command(c, work) \in Works
         /\ Command(c, work).draft.sequence = work.draft.sequence
         /\ Command(c, work).ok =>
              /\ work.ok /\ Valid(work.draft, c) /\ Command(c, work).draft = Applied(work.draft, c)
              /\ Command(c, work).used = work.used + 1
              /\ Command(c, work).events = Append(work.events, Delivery(work.draft, c))
<1>1. work.ok \in BOOLEAN /\ work.draft \in Tables /\ work.used \in 0 .. MaxCommands /\ work.events \in Seq(Deliveries) /\ MaxCommands \in Nat
  BY ScriptAssumption DEF Works
<1>2. CASE work.ok /\ Affordable(work.used) /\ Valid(work.draft, c) /\ ValidState(Applied(work.draft, c))
  <2> DEFINE t == Applied(work.draft, c)
             e == Delivery(work.draft, c)
  <2>1. t \in Tables /\ t.sequence = work.draft.sequence
    BY <1>1, <1>2, AppliedHas DEF Effect, Sound
  <2>2. e \in Deliveries
    BY <1>1, <1>2, DeliveryIs
  <2>3. work.used + 1 \in 0 .. MaxCommands
    BY <1>1, <1>2 DEF Affordable
  <2>4. Command(c, work) = [work EXCEPT !.draft = t, !.used = @ + 1, !.events = Append(@, e)]
    BY <1>2 DEF Command
  <2> HIDE DEF t, e
  <2>5. Append(work.events, e) \in Seq(Deliveries)
    BY <1>1, <2>2
  <2>6. /\ Command(c, work).ok = work.ok /\ Command(c, work).draft = t /\ Command(c, work).used = work.used + 1
        /\ Command(c, work).events = Append(work.events, e) /\ Command(c, work) \in Works
    BY <1>1, <2>1, <2>3, <2>4, <2>5 DEF Works
  <2> QED BY <1>2, <2>1, <2>6 DEF t, e
<1>3. CASE ~(work.ok /\ Affordable(work.used) /\ Valid(work.draft, c) /\ ValidState(Applied(work.draft, c)))
  <2>1. Command(c, work) = [work EXCEPT !.ok = FALSE]
    BY <1>3 DEF Command
  <2> QED BY <2>1 DEF Works
<1> QED BY <1>2, <1>3

LEMMA CommandClosed ==
  ASSUME NEW c \in Commands, NEW work \in Works
  PROVE  Command(c, work) \in Works
BY CommandType

IsCommanded(f, work, commands) ==
  f[0] = work /\ \A i \in 1 .. Len(commands) : f[i] = Command(commands[i], f[i - 1])

LEMMA CommandedIterates ==
  ASSUME NEW work \in Works, NEW commands \in Seq(Commands)
  PROVE  \E f \in [0 .. Len(commands) -> Works] : IsCommanded(f, work, commands) /\ Commanded(work, commands) = f[Len(commands)]
<1> DEFINE n == Len(commands)
           start == work
           h == [x \in Works \X (1 .. n) |-> Command(commands[x[2]], x[1])]
           Body(g) == [s \in SUBSET DOMAIN commands |-> IF s = {} THEN start ELSE Command(commands[Max(s)], g[s \ {Max(s)}])]
           G == CHOOSE g : g = Body(g)
<1>1. n \in Nat /\ DOMAIN commands = 1 .. n /\ start \in Works /\ \A i \in 1 .. n : commands[i] \in Commands
  OBVIOUS
<1>2. h \in [Works \X (1 .. n) -> Works]
  <2> SUFFICES ASSUME NEW x \in Works \X (1 .. n)
               PROVE  Command(commands[x[2]], x[1]) \in Works
    OBVIOUS
  <2> QED BY <1>1, CommandClosed
<1>3. \A r \in Works, i \in 1 .. n : h[<<r, i>>] = Command(commands[i], r)
  OBVIOUS
<1>4. Commanded(work, commands) = G[DOMAIN commands]
  BY DEF Commanded, FoldLeft, MapThenFoldSet
<1> HIDE DEF h, n, start
<1>5. ASSUME NEW s \in SUBSET (1 .. n), s # {}
      PROVE  Max(s) \in 1 .. n
  BY <1>1, <1>5, GreatestOf
<1>6. PICK g \in [SUBSET (1 .. n) -> Works] : IsFoldUp(g, n, start, h)
  BY <1>1, <1>2, FoldUpExists
<1>7. g = Body(g)
  <2>1. ASSUME NEW s \in SUBSET (1 .. n)
        PROVE  g[s] = IF s = {} THEN start ELSE Command(commands[Max(s)], g[s \ {Max(s)}])
    BY <1>3, <1>5, <1>6 DEF IsFoldUp
  <2> QED BY <1>1, <1>6, <2>1
<1>8. G = Body(G)
  <2> HIDE DEF Body
  <2> QED BY <1>7
<1>9. FoldsUp(G, n, Works, start, h)
  <2> HIDE DEF G
  <2> QED BY <1>1, <1>3, <1>5, <1>8 DEF FoldsUp
<1>10. PICK f \in [0 .. n -> Works] : ComesTo(G, f, n, start, h)
  <2> HIDE DEF G
  <2> QED BY <1>1, <1>2, <1>9, FoldUp
<1>11. IsCommanded(f, work, commands)
  <2>1. \A i \in 1 .. n : f[i - 1] \in Works
    BY <1>1, <1>10
  <2> QED BY <1>3, <1>10, <2>1 DEF IsCommanded, ComesTo, IsIteration, n, start
<1> QED BY <1>1, <1>4, <1>10, <1>11 DEF ComesTo, n

LEMMA CommandedIs ==
  ASSUME NEW work \in Works, NEW commands \in Seq(Commands),
         NEW f \in [0 .. Len(commands) -> Works], IsCommanded(f, work, commands)
  PROVE  Commanded(work, commands) = f[Len(commands)]
<1>1. PICK g \in [0 .. Len(commands) -> Works] : IsCommanded(g, work, commands) /\ Commanded(work, commands) = g[Len(commands)]
  BY CommandedIterates
<1>2. \A k \in 0 .. Len(commands) : g[k] = f[k]
  <2>1. g[0] = f[0]
    BY <1>1 DEF IsCommanded
  <2>2. \A k \in 1 .. Len(commands) : g[k - 1] = f[k - 1] => g[k] = f[k]
    BY <1>1 DEF IsCommanded
  <2>3. Len(commands) \in Nat
    OBVIOUS
  <2> QED BY <2>1, <2>2, <2>3, IterationsAgree, Zenon
<1> QED BY <1>1, <1>2

\* Whatever an invocation has queued leads to what the scripts are owed.
WorkIs(before, work, d, now) ==
  now \in Works /\ now.draft.sequence = work.draft.sequence /\ (now.ok => OwedIn(before, now.draft, now.used, d, now.events))

LEMMA CommandedOwed ==
  ASSUME NEW before \in Tables, NEW work \in Works, NEW d \in Seq(Calls), NEW commands \in Seq(Commands),
         OwedIn(before, work.draft, work.used, d, work.events)
  PROVE  WorkIs(before, work, d, Commanded(work, commands))
<1>1. PICK f \in [0 .. Len(commands) -> Works] : IsCommanded(f, work, commands) /\ Commanded(work, commands) = f[Len(commands)]
  BY CommandedIterates
<1>2. Len(commands) \in Nat
  OBVIOUS
<1> DEFINE n == Len(commands)
           S == {k \in 0 .. n : WorkIs(before, work, d, f[k])}
<1>3. 0 \in S
  BY <1>1, <1>2 DEF IsCommanded, WorkIs
<1>4. ASSUME NEW k \in 0 .. n - 1, k \in S
      PROVE  k + 1 \in S
  <2>1. k + 1 \in 1 .. n /\ k + 1 \in 0 .. n /\ k \in 0 .. n /\ k + 1 - 1 = k
    BY <1>2
  <2>2. f[k] \in Works /\ f[k + 1] = Command(commands[k + 1], f[k]) /\ commands[k + 1] \in Commands
    BY <1>1, <2>1 DEF IsCommanded
  <2>3. WorkIs(before, work, d, f[k])
    BY <1>4
  <2>4. f[k].draft \in Tables /\ f[k].used \in Nat /\ f[k].events \in Seq(Deliveries)
    <3>1. MaxCommands \in Nat
      BY ScriptAssumption
    <3> QED BY <2>2, <3>1 DEF Works
  <2>5. WorkIs(before, work, d, f[k + 1])
    <3>1. f[k + 1] \in Works /\ f[k + 1].draft.sequence = work.draft.sequence
      BY <2>2, <2>3, CommandType DEF WorkIs
    <3>2. ASSUME f[k + 1].ok
          PROVE  OwedIn(before, f[k + 1].draft, f[k + 1].used, d, f[k + 1].events)
      <4>1. /\ f[k].ok /\ Valid(f[k].draft, commands[k + 1]) /\ f[k + 1].draft = Applied(f[k].draft, commands[k + 1])
            /\ f[k + 1].used = f[k].used + 1
            /\ f[k + 1].events = Append(f[k].events, Delivery(f[k].draft, commands[k + 1]))
        BY <2>2, <3>2, CommandType
      <4>2. OwedIn(before, f[k].draft, f[k].used, d, f[k].events)
        BY <2>3, <4>1 DEF WorkIs
      <4> QED BY <2>2, <2>4, <4>1, <4>2, CommandOwed
    <3> QED BY <3>1, <3>2 DEF WorkIs
  <2> QED BY <2>1, <2>5
<1>5. \A k \in 0 .. n : k \in S
  <2> HIDE DEF S
  <2> QED BY <1>2, <1>3, <1>4, UpTo
<1>6. n \in 0 .. n
  BY <1>2
<1> QED BY <1>1, <1>5, <1>6

-----------------------------------------------------------------------------
(***************************************************************************)
(* A transaction as a function of the release, the action and the table:   *)
(* what its next step leads to.                                            *)
(***************************************************************************)
Transactions ==
  [step : {"guard", "deliver"}, bindings : {Sorted}, todo : Seq(Calls), draft : Tables, events : Seq(Deliveries),
   used : 0 .. MaxCommands, ids : Nat, calls : Seq(Calls)]
Results == [applied : BOOLEAN, heard : Seq(Calls)]

Void == [applied |-> FALSE, heard |-> << >>]
Going(t, x) == [tx |-> x, table |-> t, said |-> Void]
Over(t, result) == [tx |-> Idle, table |-> t, said |-> result]
Refused(t) == Over([t EXCEPT !.sequence = @ + 1], Void)

Answer(p, t, call) == Programs[p][call.binding, call.callback, t.faceUp]
Forbids(answer) == answer.fails \/ answer.draws > 0 \/ answer.commands # << >> \/ ~answer.allows

Begun(a, t) ==
  [step |-> "guard", bindings |-> Sorted, todo |-> Subscribers(Guard(a), Sorted),
   draft |-> t, events |-> << >>, used |-> 0, ids |-> 0, calls |-> << >>]

GuardTurn(p, t, x) ==
  IF Forbids(Answer(p, t, Head(x.todo))) THEN Refused(t) ELSE Going(t, [x EXCEPT !.todo = Tail(@)])

BaseTurn(a, t, x) ==
  IF ~Valid(t, a) \/ ~ValidState(Applied(t, a)) THEN Refused(t)
  ELSE Going(t, [x EXCEPT !.step = "deliver", !.draft = [Applied(t, a) EXCEPT !.sequence = @ + 1],
                          !.events = <<Delivery(t, a)>>])

EventTurn(t, x) == Going(t, [x EXCEPT !.events = Tail(@), !.todo = Subscribers(Head(x.events), x.bindings)])

Shown(x, call, answer) ==
  [x.draft EXCEPT !.drawn = @ + answer.draws,
                  !.memory = IF answer.remembers THEN Append(@, <<call.binding, x.draft.drawn>>) ELSE @]
Asked(x, call, answer) == Queued(x.draft, call.binding, answer.commands, x.ids)
Worked(x, call, answer) ==
  Commanded([ok |-> TRUE, draft |-> Shown(x, call, answer), used |-> x.used, events |-> x.events],
            Asked(x, call, answer).commands)

Invoked(t, x, call, answer) ==
  IF answer.fails \/ ~Worked(x, call, answer).ok THEN Refused(t)
  ELSE Going(t, [x EXCEPT !.todo = Tail(@), !.draft = Worked(x, call, answer).draft,
                          !.used = Worked(x, call, answer).used, !.events = Worked(x, call, answer).events,
                          !.ids = Asked(x, call, answer).ids, !.calls = Append(@, call)])
InvokeTurn(p, t, x) == Invoked(t, x, Head(x.todo), Answer(p, x.draft, Head(x.todo)))

CommitTurn(t, x) ==
  IF ValidState(x.draft) THEN Over(x.draft, [applied |-> TRUE, heard |-> x.calls]) ELSE Refused(t)

Turn(p, a, t, x) ==
  IF x.step = "guard" THEN (IF x.todo # << >> THEN GuardTurn(p, t, x) ELSE BaseTurn(a, t, x))
  ELSE IF x.todo # << >> THEN InvokeTurn(p, t, x)
  ELSE IF x.events # << >> THEN EventTurn(t, x) ELSE CommitTurn(t, x)

\* A replica takes the turn y.
Takes(r, y) ==
  /\ tx' = [tx EXCEPT ![r] = y.tx] /\ table' = [table EXCEPT ![r] = y.table]
  /\ results' = IF y.tx = Idle THEN [results EXCEPT ![r] = Append(@, y.said)] ELSE results
  /\ UNCHANGED <<program, actions>>

ScriptTypes ==
  /\ program \in DOMAIN Programs /\ actions \in Seq(OrderedActions)
  /\ table \in [Replicas -> Tables] /\ tx \in [Replicas -> Transactions \cup {Idle}]
  /\ results \in [Replicas -> Seq(Results)]

LEMMA Refuses ==
  ASSUME ScriptTypes, NEW r \in Replicas, Reject(r), UNCHANGED <<program, actions>>
  PROVE  Takes(r, Refused(table[r]))
BY DEF ScriptTypes, Reject, Rejected, Finish, Refused, Over, Void, Takes

LEMMA GoesOn ==
  ASSUME ScriptTypes, NEW r \in Replicas, NEW x, x # Idle, tx' = [tx EXCEPT ![r] = x], UNCHANGED <<table, results>>,
         UNCHANGED <<program, actions>>
  PROVE  Takes(r, Going(table[r], x))
<1>1. table' = [table EXCEPT ![r] = table[r]]
  BY DEF ScriptTypes
<1> QED BY <1>1 DEF Going, Takes

LEMMA TransactionIs ==
  ASSUME NEW x \in Transactions
  PROVE  /\ x.step \in {"guard", "deliver"} /\ x.bindings = Sorted /\ x.todo \in Seq(Calls) /\ x.draft \in Tables
         /\ x.events \in Seq(Deliveries) /\ x.used \in 0 .. MaxCommands /\ x.ids \in Nat /\ x.calls \in Seq(Calls)
         /\ x # Idle
BY DEF Transactions, Idle

LEMMA TurnTaken ==
  ASSUME ScriptTypes, NEW r \in Replicas,
         AskGuard(r) \/ ApplyBase(r) \/ NextEvent(r) \/ Invoke(r) \/ Commit(r)
  PROVE  tx[r] \in Transactions /\ Takes(r, Turn(program, Action(r), table[r], tx[r]))
<1> DEFINE x == tx[r]
           a == Action(r)
<1>1. x \in Transactions \cup {Idle}
  BY DEF ScriptTypes
<1>2. x.step \in {"guard", "deliver"}
  BY DEF AskGuard, ApplyBase, NextEvent, Invoke, Commit, At
<1>3. x \in Transactions
  BY <1>1, <1>2 DEF Idle
<1>4. \A y : y.step \in {"guard", "deliver"} => y # Idle
  BY DEF Idle
<1>5. UNCHANGED <<program, actions>>
  BY DEF AskGuard, ApplyBase, NextEvent, Invoke, Commit
<1>6. tx \in [Replicas -> Transactions \cup {Idle}]
  BY DEF ScriptTypes
<1>7. CASE AskGuard(r)
  <2> DEFINE answer == Answer(program, table[r], Head(x.todo))
             y == [x EXCEPT !.todo = Tail(@)]
  <2>1. Turn(program, a, table[r], x) = IF Forbids(answer) THEN Refused(table[r]) ELSE Going(table[r], y)
    BY <1>7 DEF AskGuard, At, Turn, GuardTurn
  <2>2. IF Forbids(answer) THEN Reject(r)
        ELSE tx' = [tx EXCEPT ![r].todo = Tail(@)] /\ UNCHANGED <<table, results>>
    BY <1>7 DEF AskGuard, Response, Answer, Forbids
  <2>3. [tx EXCEPT ![r].todo = Tail(@)] = [tx EXCEPT ![r] = y]
    BY <1>6
  <2>4. y # Idle
    BY <1>3 DEF Idle, Transactions
  <2> HIDE DEF answer, y, x, a
  <2>5. CASE Forbids(answer)
    BY <1>3, <1>5, <2>1, <2>2, <2>5, Refuses DEF x, a
  <2>6. CASE ~Forbids(answer)
    <3>1. tx' = [tx EXCEPT ![r] = y] /\ UNCHANGED <<table, results>>
      BY <2>2, <2>3, <2>6
    <3>2. Takes(r, Going(table[r], y))
      BY <1>5, <2>4, <3>1, GoesOn
    <3> QED BY <1>3, <2>1, <2>6, <3>2 DEF x, a
  <2> QED BY <1>3, <2>5, <2>6 DEF x
<1>8. CASE ApplyBase(r)
  <2> DEFINE bad == ~Valid(table[r], a) \/ ~ValidState(Applied(table[r], a))
             y == [x EXCEPT !.step = "deliver", !.draft = [Applied(table[r], a) EXCEPT !.sequence = @ + 1],
                            !.events = <<Delivery(table[r], a)>>]
  <2>1. Turn(program, a, table[r], x) = IF bad THEN Refused(table[r]) ELSE Going(table[r], y)
    BY <1>8 DEF ApplyBase, At, Turn, BaseTurn
  <2>2. IF bad THEN Reject(r) ELSE tx' = [tx EXCEPT ![r] = y] /\ UNCHANGED <<table, results>>
    BY <1>6, <1>8 DEF ApplyBase
  <2>4. y # Idle
    BY <1>3 DEF Idle, Transactions
  <2> HIDE DEF bad, y, x, a
  <2>5. CASE bad
    BY <1>3, <1>5, <2>1, <2>2, <2>5, Refuses DEF x, a
  <2>6. CASE ~bad
    BY <1>3, <1>5, <2>1, <2>2, <2>4, <2>6, GoesOn DEF x, a
  <2> QED BY <1>3, <2>5, <2>6 DEF x, a
<1>9. CASE NextEvent(r)
  <2> DEFINE y == [x EXCEPT !.events = Tail(@), !.todo = Subscribers(Head(x.events), x.bindings)]
  <2>1. Turn(program, a, table[r], x) = Going(table[r], y)
    BY <1>9 DEF NextEvent, At, Turn, EventTurn
  <2>2. tx' = [tx EXCEPT ![r] = y] /\ UNCHANGED <<table, results>>
    BY <1>6, <1>9 DEF NextEvent
  <2>4. y # Idle
    BY <1>3 DEF Idle, Transactions
  <2> HIDE DEF y, x, a
  <2>5. Takes(r, Turn(program, a, table[r], x))
    BY <1>5, <2>1, <2>2, <2>4, GoesOn DEF x, a
  <2> QED BY <1>3, <2>5 DEF x, a
<1>10. CASE Invoke(r)
  <2> DEFINE call == Head(x.todo)
             answer == Answer(program, x.draft, call)
             queued == Asked(x, call, answer)
             work == Worked(x, call, answer)
             y == [x EXCEPT !.todo = Tail(@), !.draft = work.draft, !.used = work.used, !.events = work.events,
                            !.ids = queued.ids, !.calls = Append(@, call)]
  <2>1. Turn(program, a, table[r], x) = IF answer.fails \/ ~work.ok THEN Refused(table[r]) ELSE Going(table[r], y)
    BY <1>10 DEF Invoke, At, Turn, InvokeTurn, Invoked
  <2>2. IF answer.fails \/ ~work.ok THEN Reject(r) ELSE tx' = [tx EXCEPT ![r] = y] /\ UNCHANGED <<table, results>>
    BY <1>6, <1>10 DEF Invoke, Response, Answer, Asked, Worked, Shown
  <2>4. y # Idle
    BY <1>3 DEF Idle, Transactions
  <2> HIDE DEF answer, y, x, a, work, queued, call
  <2>5. CASE answer.fails \/ ~work.ok
    BY <1>3, <1>5, <2>1, <2>2, <2>5, Refuses DEF x, a
  <2>6. CASE ~(answer.fails \/ ~work.ok)
    BY <1>3, <1>5, <2>1, <2>2, <2>4, <2>6, GoesOn DEF x, a
  <2> QED BY <1>3, <2>5, <2>6 DEF x, a
<1>11. CASE Commit(r)
  <2>1. Turn(program, a, table[r], x) =
          IF ValidState(x.draft) THEN Over(x.draft, [applied |-> TRUE, heard |-> x.calls]) ELSE Refused(table[r])
    BY <1>11 DEF Commit, At, Turn, CommitTurn
  <2>2. IF ValidState(x.draft) THEN Finish(r, x.draft, [applied |-> TRUE, heard |-> x.calls]) ELSE Reject(r)
    BY <1>11 DEF Commit
  <2> HIDE DEF x, a
  <2>3. CASE ValidState(x.draft)
    BY <1>3, <1>5, <2>1, <2>2, <2>3 DEF x, a, ScriptTypes, Finish, Over, Takes
  <2>4. CASE ~ValidState(x.draft)
    BY <1>3, <1>5, <2>1, <2>2, <2>4, Refuses DEF x, a
  <2> QED BY <1>3, <2>3, <2>4 DEF x, a
<1> QED BY <1>7, <1>8, <1>9, <1>10, <1>11

\* What holds of a transaction of a table t.
TxIs(x, t) ==
  /\ x \in Transactions
  /\ x.step = "guard" => x.draft = t /\ x.events = << >> /\ x.used = 0 /\ x.calls = << >>
  /\ x.step = "deliver" => x.draft.sequence = t.sequence + 1 /\ OwedIn(t, x.draft, x.used, x.calls \o x.todo, x.events)

\* What an applied action leaves behind: TransactionsAreWhole, for one transaction.
Whole(before, t, result) ==
  /\ ~result.applied => t = [before EXCEPT !.sequence = @ + 1]
  /\ result.applied =>
       /\ t.faceUp # before.faceUp <=> Cardinality(Heard(result.heard, "on_flip")) % 2 = 1
       /\ Cardinality(Fired(t) \ Fired(before)) = Cardinality(Heard(result.heard, "tick"))
       /\ LET answered == t.prompt = "resolved" /\ before.prompt # "resolved"
              told == Heard(result.heard, "on_prompt")
          IN  IF answered
              THEN /\ {result.heard[i].binding : i \in told} = Bindings /\ Cardinality(told) = Cardinality(Bindings)
                   /\ \A i, j \in told : i < j => result.heard[i].binding < result.heard[j].binding
              ELSE told = {}

IsTurn(t, y) ==
  \/ y.tx # Idle /\ y.table = t /\ TxIs(y.tx, t)
  \/ /\ y.tx = Idle /\ y.table \in Tables /\ y.table.sequence = t.sequence + 1 /\ y.said \in Results
     /\ Whole(t, y.table, y.said)

LEMMA RefusedIs ==
  ASSUME NEW t \in Tables
  PROVE  IsTurn(t, Refused(t))
<1>1. /\ [t EXCEPT !.sequence = @ + 1] \in Tables /\ [t EXCEPT !.sequence = @ + 1].sequence = t.sequence + 1
  <2>1. t.sequence + 1 \in Nat
    BY DEF Tables
  <2> QED BY <2>1 DEF Tables
<1>2. Void \in Results /\ ~Void.applied
  BY DEF Void, Results
<1> QED BY <1>1, <1>2 DEF Refused, Over, IsTurn, Whole

LEMMA SubscribersType ==
  ASSUME NEW e \in Deliveries
  PROVE  Subscribers(e, Sorted) \in Seq(Calls)
<1>1. << >> \in Seq(Calls)
  OBVIOUS
<1> QED BY <1>1, GrownExtends, SubscribersAre DEF Extends

LEMMA GuardIs ==
  ASSUME NEW a \in OrderedActions
  PROVE  Guard(a) \in Deliveries
<1>1. Card \in Bindings /\ Die \in Bindings
  BY DEF Card, Die, Bindings
<1>2. a.type = "flip" => Guard(a) = [callback |-> "can_flip", to |-> {Card}]
  BY DEF Guard
<1>3. a.type = "press" => Guard(a) = [callback |-> "can_press", to |-> {Die}]
  BY DEF Guard
<1>4. a.type \notin {"flip", "press"} => Guard(a) = [callback |-> "none", to |-> {}]
  BY DEF Guard
<1> QED BY <1>1, <1>2, <1>3, <1>4 DEF Deliveries, Callbacks

LEMMA BegunIs ==
  ASSUME NEW a \in OrderedActions, NEW t \in Tables
  PROVE  TxIs(Begun(a, t), t)
<1>1. Subscribers(Guard(a), Sorted) \in Seq(Calls)
  BY GuardIs, SubscribersType
<1>2. << >> \in Seq(Calls) /\ << >> \in Seq(Deliveries) /\ 0 \in Nat
  OBVIOUS
<1>3. 0 \in 0 .. MaxCommands
  <2>1. MaxCommands \in Nat
    BY ScriptAssumption
  <2> QED BY <2>1
<1>4. Begun(a, t) \in Transactions
  BY <1>1, <1>2, <1>3 DEF Begun, Transactions
<1> QED BY <1>4 DEF TxIs, Begun

LEMMA HeadAndTail ==
  ASSUME NEW S, NEW seq \in Seq(S), seq # << >>
  PROVE  Head(seq) \in S /\ Tail(seq) \in Seq(S) /\ Head(seq) = seq[1] /\ Len(seq) >= 1 /\ Len(Tail(seq)) = Len(seq) - 1
         /\ \A i \in 1 .. Len(seq) - 1 : Tail(seq)[i] = seq[i + 1]
OBVIOUS

LEMMA AnswerType ==
  ASSUME NEW p \in DOMAIN Programs, NEW t \in Tables, NEW call \in Calls
  PROVE  Answer(p, t, call) \in Responses
<1>1. call.binding \in Bindings /\ call.callback \in Callbacks /\ t.faceUp \in BOOLEAN
  BY DEF Calls, Tables
<1> QED BY <1>1, ScriptAssumption DEF Answer

LEMMA GuardTurnIs ==
  ASSUME NEW t \in Tables, NEW p, NEW x, TxIs(x, t), x.step = "guard", x.todo # << >>
  PROVE  IsTurn(t, GuardTurn(p, t, x))
<1>1. CASE Forbids(Answer(p, t, Head(x.todo)))
  BY <1>1, RefusedIs DEF GuardTurn
<1>2. CASE ~Forbids(Answer(p, t, Head(x.todo)))
  <2> DEFINE y == [x EXCEPT !.todo = Tail(@)]
  <2>1. x \in Transactions /\ x.draft = t /\ x.events = << >> /\ x.used = 0 /\ x.calls = << >>
    BY DEF TxIs
  <2>2. Tail(x.todo) \in Seq(Calls)
    BY <2>1, TransactionIs, HeadAndTail
  <2>3. y \in Transactions
    BY <2>1, <2>2 DEF Transactions
  <2>4. y.step = "guard" /\ y.draft = t /\ y.events = << >> /\ y.used = 0 /\ y.calls = << >>
    BY <2>1 DEF Transactions
  <2>5. GuardTurn(p, t, x) = Going(t, y)
    BY <1>2 DEF GuardTurn
  <2> HIDE DEF y
  <2>6. TxIs(y, t)
    BY <2>3, <2>4 DEF TxIs
  <2> QED BY <2>3, <2>5, <2>6, TransactionIs DEF IsTurn, Going
<1> QED BY <1>1, <1>2

LEMMA BaseTurnIs ==
  ASSUME NEW t \in Tables, t.sequence = 0 => t.prompt = "none", NEW a \in OrderedActions, NEW x, TxIs(x, t),
         x.step = "guard", x.todo = << >>
  PROVE  IsTurn(t, BaseTurn(a, t, x))
<1>1. CASE ~Valid(t, a) \/ ~ValidState(Applied(t, a))
  BY <1>1, RefusedIs DEF BaseTurn
<1>2. CASE Valid(t, a) /\ ValidState(Applied(t, a))
  <2> DEFINE u == [Applied(t, a) EXCEPT !.sequence = @ + 1]
             e == Delivery(t, a)
             y == [x EXCEPT !.step = "deliver", !.draft = u, !.events = <<e>>]
             g == Grown(<< >>, e)
             f == [j \in 0 .. 1 |-> IF j = 0 THEN << >> ELSE g]
  <2>1. x \in Transactions /\ x.draft = t /\ x.events = << >> /\ x.used = 0 /\ x.calls = << >>
    BY DEF TxIs
  <2>2. Applied(t, a) \in Tables /\ Applied(t, a).sequence = t.sequence /\ e \in Deliveries
    BY <1>2, AppliedHas, DeliveryIs DEF Effect, Sound
  <2>3. /\ u \in Tables /\ u.sequence = t.sequence + 1
        /\ u.faceUp = Applied(t, a).faceUp /\ u.prompt = Applied(t, a).prompt /\ u.timers = Applied(t, a).timers
    <3>1. Applied(t, a).sequence + 1 \in Nat
      BY <2>2 DEF Tables
    <3> QED BY <2>2, <3>1 DEF Tables
  <2>4. BaseTurn(a, t, x) = Going(t, y)
    BY <1>2 DEF BaseTurn
  <2> HIDE DEF u
  <2>5. Owed(t, u, 0, g)
    BY <1>2, <2>3, BaseOwed
  <2>6. g \in Seq(Calls) /\ << >> \in Seq(Calls)
    BY <2>5 DEF Owed
  <2> HIDE DEF e, g
  <2>7. <<e>> \in Seq(Deliveries) /\ Len(<<e>>) = 1 /\ <<e>>[1] = e
    BY <2>2
  <2>8. f \in [0 .. 1 -> Seq(Calls)] /\ f[0] = << >> /\ f[1] = g
    BY <2>6
  <2> HIDE DEF f
  <2>9. IsCalled(f, << >>, <<e>>)
    <3>1. \A j \in 1 .. 1 : j = 1 /\ j - 1 = 0
      OBVIOUS
    <3> QED BY <2>7, <2>8, <3>1 DEF IsCalled, g
  <2>10. OwedIn(t, u, 0, << >>, <<e>>)
    BY <2>5, <2>7, <2>8, <2>9 DEF OwedIn
  <2>11. y \in Transactions /\ y.step = "deliver" /\ y.draft = u /\ y.events = <<e>> /\ y.used = 0 /\ y.calls = << >> /\ y.todo = << >>
    BY <2>1, <2>3, <2>7 DEF Transactions
  <2> HIDE DEF y
  <2>12. y.calls \o y.todo = << >>
    BY <2>6, <2>11
  <2>13. TxIs(y, t)
    BY <2>3, <2>10, <2>11, <2>12 DEF TxIs
  <2> QED BY <2>4, <2>11, <2>13, TransactionIs DEF IsTurn, Going
<1> QED BY <1>1, <1>2

LEMMA EventTurnIs ==
  ASSUME NEW t \in Tables, NEW x, TxIs(x, t), x.step = "deliver", x.todo = << >>, x.events # << >>
  PROVE  IsTurn(t, EventTurn(t, x))
<1> DEFINE e == Head(x.events)
           more == Tail(x.events)
           n == Len(x.events)
           g == Grown(<< >>, e)
           y == [x EXCEPT !.events = more, !.todo = g]
<1>1. x \in Transactions /\ x.draft.sequence = t.sequence + 1 /\ OwedIn(t, x.draft, x.used, x.calls \o x.todo, x.events)
  BY DEF TxIs
<1>2. x.calls \in Seq(Calls) /\ x.events \in Seq(Deliveries) /\ x.bindings = Sorted /\ n \in Nat
  BY <1>1, TransactionIs
<1>3. /\ e \in Deliveries /\ more \in Seq(Deliveries) /\ e = x.events[1] /\ n >= 1 /\ Len(more) = n - 1
      /\ \A i \in 1 .. n - 1 : more[i] = x.events[i + 1]
  BY <1>2, HeadAndTail
<1>4. EventTurn(t, x) = Going(t, y)
  BY <1>2, <1>3, SubscribersAre DEF EventTurn
<1>5. x.calls \o x.todo = x.calls
  BY <1>2
<1>6. PICK f \in [0 .. n -> Seq(Calls)] : IsCalled(f, x.calls, x.events) /\ Owed(t, x.draft, x.used, f[n])
  BY <1>1, <1>5 DEF OwedIn
<1> HIDE DEF e, more, n
<1>7. g \in Seq(Calls)
  <2>1. << >> \in Seq(Calls)
    OBVIOUS
  <2> QED BY <1>3, <2>1, GrownExtends DEF Extends
<1>8. f[1] = x.calls \o g
  <2>1. f[1] = Grown(x.calls, e)
    <3>1. 1 \in 1 .. n /\ 1 - 1 = 0
      BY <1>2, <1>3
    <3> QED BY <1>3, <1>6, <3>1 DEF IsCalled, n
  <2>2. Grown(x.calls, e) = x.calls \o g
    BY <1>2, <1>3, GrownIsAppended DEF g
  <2> QED BY <2>1, <2>2
<1> HIDE DEF g
<1> DEFINE h == [j \in 0 .. n - 1 |-> f[j + 1]]
<1>9. h \in [0 .. n - 1 -> Seq(Calls)] /\ h[0] = x.calls \o g /\ h[n - 1] = f[n] /\ \A j \in 1 .. n - 1 : h[j] = f[j + 1] /\ h[j - 1] = f[j]
  <2>1. \A j \in 0 .. n - 1 : j + 1 \in 0 .. n
    BY <1>2, <1>3
  <2>2. 0 \in 0 .. n - 1 /\ n - 1 \in 0 .. n - 1 /\ n - 1 + 1 = n /\ \A j \in 1 .. n - 1 : j \in 0 .. n - 1 /\ j - 1 \in 0 .. n - 1 /\ j - 1 + 1 = j
    BY <1>2, <1>3
  <2> QED BY <1>6, <1>8, <2>1, <2>2
<1> HIDE DEF h
<1>10. IsCalled(h, x.calls \o g, more)
  <2>1. \A j \in 1 .. n - 1 : j + 1 \in 1 .. n /\ j + 1 - 1 = j
    BY <1>2, <1>3
  <2>2. \A j \in 1 .. n : f[j] = Grown(f[j - 1], x.events[j])
    BY <1>6 DEF IsCalled, n
  <2>3. ASSUME NEW j \in 1 .. n - 1
        PROVE  h[j] = Grown(h[j - 1], more[j])
    <3>1. h[j] = f[j + 1] /\ h[j - 1] = f[j] /\ more[j] = x.events[j + 1]
      BY <1>3, <1>9
    <3>2. f[j + 1] = Grown(f[j], x.events[j + 1])
      BY <2>1, <2>2
    <3> QED BY <3>1, <3>2
  <2> QED BY <1>3, <1>9, <2>3 DEF IsCalled
<1>11. y \in Transactions /\ y.step = "deliver" /\ y.draft = x.draft /\ y.used = x.used /\ y.calls = x.calls /\ y.todo = g /\ y.events = more
  BY <1>1, <1>3, <1>7 DEF Transactions
<1>12. OwedIn(t, x.draft, x.used, x.calls \o g, more)
  BY <1>3, <1>6, <1>9, <1>10 DEF OwedIn
<1> HIDE DEF y
<1>13. TxIs(y, t)
  BY <1>1, <1>11, <1>12 DEF TxIs
<1> QED BY <1>4, <1>11, <1>13, TransactionIs DEF IsTurn, Going

LEMMA HeadThenTail ==
  ASSUME NEW S, NEW d \in Seq(S), NEW seq \in Seq(S), seq # << >>
  PROVE  Append(d, Head(seq)) \o Tail(seq) = d \o seq
<1>1. Head(seq) \in S /\ Tail(seq) \in Seq(S) /\ Head(seq) = seq[1] /\ Len(seq) >= 1 /\ Len(Tail(seq)) = Len(seq) - 1
      /\ \A i \in 1 .. Len(seq) - 1 : Tail(seq)[i] = seq[i + 1]
  BY HeadAndTail
<1> DEFINE m == Len(d)
           n == Len(seq)
           b == Append(d, Head(seq))
           lhs == b \o Tail(seq)
           rhs == d \o seq
<1>2. m \in Nat /\ n \in Nat /\ b \in Seq(S) /\ Len(b) = m + 1 /\ b[m + 1] = seq[1] /\ \A i \in 1 .. m : b[i] = d[i]
  BY <1>1
<1> HIDE DEF b
<1>3. lhs \in Seq(S) /\ Len(lhs) = m + n /\ (\A i \in 1 .. m + 1 : lhs[i] = b[i]) /\ \A i \in m + 2 .. m + n : lhs[i] = Tail(seq)[i - (m + 1)]
  <2>1. lhs \in Seq(S) /\ Len(lhs) = Len(b) + Len(Tail(seq))
    BY <1>1, <1>2
  <2>2. \A i \in 1 .. Len(b) + Len(Tail(seq)) : lhs[i] = IF i <= Len(b) THEN b[i] ELSE Tail(seq)[i - Len(b)]
    <3>1. b \in Seq(S) /\ Tail(seq) \in Seq(S)
      BY <1>1, <1>2
    <3> QED BY <3>1
  <2> HIDE DEF lhs
  <2>3. \A i \in 1 .. m + 1 : i \in 1 .. Len(b) + Len(Tail(seq)) /\ i <= Len(b)
    BY <1>1, <1>2
  <2>4. \A i \in m + 2 .. m + n : i \in 1 .. Len(b) + Len(Tail(seq)) /\ ~(i <= Len(b)) /\ i - Len(b) = i - (m + 1)
    BY <1>1, <1>2
  <2>5. Len(b) + Len(Tail(seq)) = m + n
    BY <1>1, <1>2
  <2> QED BY <2>1, <2>2, <2>3, <2>4, <2>5
<1>4. rhs \in Seq(S) /\ Len(rhs) = m + n /\ (\A i \in 1 .. m : rhs[i] = d[i]) /\ \A i \in m + 1 .. m + n : rhs[i] = seq[i - m]
  OBVIOUS
<1> HIDE DEF lhs, rhs
<1>5. ASSUME NEW i \in 1 .. m + n
      PROVE  lhs[i] = rhs[i]
  <2>1. CASE i \in 1 .. m
    <3>1. i \in 1 .. m + 1
      BY <1>2, <2>1
    <3> QED BY <1>2, <1>3, <1>4, <2>1, <3>1
  <2>2. CASE i = m + 1
    <3>1. m + 1 \in 1 .. m + 1 /\ m + 1 \in m + 1 .. m + n /\ m + 1 - m = 1
      BY <1>1, <1>2
    <3> QED BY <1>2, <1>3, <1>4, <2>2, <3>1
  <2>3. CASE i \in m + 2 .. m + n
    <3>1. i \in m + 1 .. m + n /\ i - (m + 1) \in 1 .. n - 1 /\ i - (m + 1) + 1 = i - m
      BY <1>1, <1>2, <2>3
    <3>2. lhs[i] = Tail(seq)[i - (m + 1)] /\ rhs[i] = seq[i - m]
      BY <1>3, <1>4, <2>3, <3>1
    <3>3. Tail(seq)[i - (m + 1)] = seq[i - (m + 1) + 1]
      BY <1>1, <3>1
    <3> QED BY <3>1, <3>2, <3>3
  <2> QED BY <1>2, <2>1, <2>2, <2>3
<1>6. lhs = [i \in 1 .. m + n |-> lhs[i]] /\ rhs = [i \in 1 .. m + n |-> rhs[i]]
  BY <1>3, <1>4
<1>7. lhs = rhs
  <2> DEFINE I == 1 .. m + n
  <2>1. lhs = [i \in I |-> lhs[i]] /\ rhs = [i \in I |-> rhs[i]] /\ \A i \in I : lhs[i] = rhs[i]
    BY <1>5, <1>6
  <2> HIDE DEF I
  <2> QED BY <2>1
<1> QED BY <1>7 DEF lhs, rhs, b

LEMMA ShownIs ==
  ASSUME NEW x \in Transactions, NEW call \in Calls, NEW answer \in Responses
  PROVE  /\ Shown(x, call, answer) \in Tables /\ Shown(x, call, answer).sequence = x.draft.sequence
         /\ Shown(x, call, answer).faceUp = x.draft.faceUp /\ Shown(x, call, answer).prompt = x.draft.prompt
         /\ Shown(x, call, answer).timers = x.draft.timers
<1>1. x.draft \in Tables
  BY TransactionIs
<1>2. x.draft.drawn \in Nat /\ x.draft.memory \in Seq(Bindings \X Nat)
  BY <1>1 DEF Tables
<1>3. x.draft.drawn + answer.draws \in Nat
  BY <1>2 DEF Responses
<1> DEFINE m == IF answer.remembers THEN Append(x.draft.memory, <<call.binding, x.draft.drawn>>) ELSE x.draft.memory
<1>4. m \in Seq(Bindings \X Nat)
  <2>1. <<call.binding, x.draft.drawn>> \in Bindings \X Nat
    BY <1>2 DEF Calls
  <2> QED BY <1>2, <2>1
<1>5. Shown(x, call, answer) = [x.draft EXCEPT !.drawn = x.draft.drawn + answer.draws, !.memory = m]
  BY DEF Shown
<1> HIDE DEF m
<1> QED BY <1>1, <1>3, <1>4, <1>5 DEF Tables

LEMMA InvokeTurnIs ==
  ASSUME NEW t \in Tables, NEW p \in DOMAIN Programs, NEW x, TxIs(x, t), x.step = "deliver", x.todo # << >>
  PROVE  IsTurn(t, InvokeTurn(p, t, x))
<1> DEFINE call == Head(x.todo)
           answer == Answer(p, x.draft, call)
           queued == Asked(x, call, answer)
           shown == Shown(x, call, answer)
           work == Worked(x, call, answer)
           y == [x EXCEPT !.todo = Tail(@), !.draft = work.draft, !.used = work.used, !.events = work.events,
                          !.ids = queued.ids, !.calls = Append(@, call)]
<1>1. x \in Transactions /\ x.draft.sequence = t.sequence + 1 /\ OwedIn(t, x.draft, x.used, x.calls \o x.todo, x.events)
  BY DEF TxIs
<1>2. /\ x.todo \in Seq(Calls) /\ x.draft \in Tables /\ x.events \in Seq(Deliveries) /\ x.used \in 0 .. MaxCommands
      /\ x.ids \in Nat /\ x.calls \in Seq(Calls)
  BY <1>1, TransactionIs
<1>3. call \in Calls /\ Tail(x.todo) \in Seq(Calls) /\ Append(x.calls, call) \o Tail(x.todo) = x.calls \o x.todo
  BY <1>2, HeadAndTail, HeadThenTail
<1>4. Append(x.calls, call) \in Seq(Calls)
  BY <1>2, <1>3
<1> HIDE DEF call
<1>5. answer \in Responses
  BY <1>2, <1>3, AnswerType
<1> HIDE DEF answer
<1>6. queued \in Queues
  <2>1. call.binding \in Bindings /\ answer.commands \in Seq(Requests)
    BY <1>3, <1>5 DEF Calls, Responses
  <2> QED BY <1>2, <2>1, QueuedType DEF Asked
<1>7. queued.commands \in Seq(Commands) /\ queued.ids \in Nat
  BY <1>6 DEF Queues
<1>8. shown \in Tables /\ shown.sequence = x.draft.sequence /\ OwedIn(t, shown, x.used, x.calls \o x.todo, x.events)
  <2>1. /\ shown \in Tables /\ shown.sequence = x.draft.sequence
        /\ shown.faceUp = x.draft.faceUp /\ shown.prompt = x.draft.prompt /\ shown.timers = x.draft.timers
    BY <1>1, <1>3, <1>5, ShownIs
  <2> HIDE DEF shown
  <2>2. PICK f \in [0 .. Len(x.events) -> Seq(Calls)] :
          IsCalled(f, x.calls \o x.todo, x.events) /\ Owed(t, x.draft, x.used, f[Len(x.events)])
    BY <1>1 DEF OwedIn
  <2>3. Owed(t, shown, x.used, f[Len(x.events)])
    BY <2>1, <2>2, OwedShown
  <2> QED BY <2>1, <2>2, <2>3 DEF OwedIn
<1> DEFINE first == [ok |-> TRUE, draft |-> shown, used |-> x.used, events |-> x.events]
<1>9. work = Commanded(first, queued.commands)
  BY DEF Worked
<1> HIDE DEF shown, queued
<1>10. first \in Works /\ first.draft = shown /\ first.used = x.used /\ first.events = x.events
  BY <1>2, <1>8 DEF Works
<1> HIDE DEF first
<1>11. x.calls \o x.todo \in Seq(Calls)
  BY <1>2
<1>12. WorkIs(t, first, x.calls \o x.todo, work)
  BY <1>7, <1>8, <1>9, <1>10, <1>11, CommandedOwed
<1>13. InvokeTurn(p, t, x) = IF answer.fails \/ ~work.ok THEN Refused(t) ELSE Going(t, y)
  BY DEF InvokeTurn, Invoked, call, answer, queued
<1> HIDE DEF work
<1>14. CASE answer.fails \/ ~work.ok
  BY <1>13, <1>14, RefusedIs
<1>15. CASE ~(answer.fails \/ ~work.ok)
  <2>1. /\ work.draft \in Tables /\ work.used \in 0 .. MaxCommands /\ work.events \in Seq(Deliveries)
        /\ work.draft.sequence = t.sequence + 1 /\ OwedIn(t, work.draft, work.used, x.calls \o x.todo, work.events)
    BY <1>1, <1>8, <1>10, <1>12, <1>15 DEF WorkIs, Works
  <2>2. /\ y \in Transactions /\ y.step = "deliver" /\ y.draft = work.draft /\ y.used = work.used /\ y.events = work.events
        /\ y.calls = Append(x.calls, call) /\ y.todo = Tail(x.todo)
    BY <1>1, <1>3, <1>4, <1>7, <2>1 DEF Transactions
  <2> HIDE DEF y
  <2>3. TxIs(y, t)
    BY <1>3, <2>1, <2>2 DEF TxIs
  <2> QED BY <1>13, <1>15, <2>2, <2>3, TransactionIs DEF IsTurn, Going
<1> QED BY <1>14, <1>15

LEMMA WholeIs ==
  ASSUME NEW before \in Tables, NEW t \in Tables, NEW used, NEW d, Owed(before, t, used, d)
  PROVE  Whole(before, t, [applied |-> TRUE, heard |-> d])
<1> DEFINE result == [applied |-> TRUE, heard |-> d]
<1>1. result.applied /\ result.heard = d
  OBVIOUS
<1> HIDE DEF result
<1>2. CASE Answered(before, t)
  <2>1. PICK i, j \in 1 .. Len(d) : Heard(d, "on_prompt") = {i, j} /\ i < j /\ d[i].binding = 1 /\ d[j].binding = 2
    BY <1>2 DEF Owed
  <2>2. {d[k].binding : k \in Heard(d, "on_prompt")} = Bindings
    BY <2>1 DEF Bindings
  <2>3. Cardinality(Heard(d, "on_prompt")) = 2 /\ Cardinality(Bindings) = 2
    <3>1. i # j
      BY <2>1
    <3>2. IsFiniteSet({i}) /\ Cardinality({i}) = 1 /\ j \notin {i} /\ {i, j} = {i} \cup {j}
      BY <3>1, FS_Singleton
    <3>3. Cardinality({i, j}) = 2
      BY <3>2, FS_AddElement
    <3>4. Cardinality(Bindings) = 2
      BY ToIs DEF Bindings
    <3> QED BY <2>1, <3>3, <3>4
  <2>4. \A k, m \in Heard(d, "on_prompt") : k < m => d[k].binding < d[m].binding
    BY <2>1
  <2> QED BY <1>1, <1>2, <2>2, <2>3, <2>4 DEF Owed, Whole, Answered, result
<1>3. CASE ~Answered(before, t)
  BY <1>1, <1>3 DEF Owed, Whole, Answered, result
<1> QED BY <1>2, <1>3

LEMMA CommitTurnIs ==
  ASSUME NEW t \in Tables, NEW x, TxIs(x, t), x.step = "deliver", x.todo = << >>, x.events = << >>
  PROVE  IsTurn(t, CommitTurn(t, x))
<1>1. CASE ~ValidState(x.draft)
  BY <1>1, RefusedIs DEF CommitTurn
<1>2. CASE ValidState(x.draft)
  <2>1. x \in Transactions /\ x.draft.sequence = t.sequence + 1 /\ OwedIn(t, x.draft, x.used, x.calls \o x.todo, x.events)
    BY DEF TxIs
  <2>2. x.calls \in Seq(Calls) /\ x.draft \in Tables
    BY <2>1, TransactionIs
  <2>3. x.calls \o x.todo = x.calls /\ Len(x.events) = 0
    BY <2>2
  <2>4. Owed(t, x.draft, x.used, x.calls)
    BY <2>1, <2>3 DEF OwedIn, IsCalled
  <2>5. Whole(t, x.draft, [applied |-> TRUE, heard |-> x.calls])
    BY <2>2, <2>4, WholeIs
  <2>6. [applied |-> TRUE, heard |-> x.calls] \in Results
    BY <2>2 DEF Results
  <2> QED BY <1>2, <2>1, <2>2, <2>5, <2>6 DEF IsTurn, CommitTurn, Over
<1> QED BY <1>1, <1>2

LEMMA TurnIs ==
  ASSUME NEW p \in DOMAIN Programs, NEW t \in Tables, t.sequence = 0 => t.prompt = "none", NEW a \in OrderedActions,
         NEW x, TxIs(x, t)
  PROVE  IsTurn(t, Turn(p, a, t, x))
<1>1. x.step \in {"guard", "deliver"}
  BY TransactionIs DEF TxIs
<1>2. CASE x.step = "guard" /\ x.todo # << >>
  BY <1>2, GuardTurnIs DEF Turn
<1>3. CASE x.step = "guard" /\ x.todo = << >>
  BY <1>3, BaseTurnIs DEF Turn
<1>4. CASE x.step = "deliver" /\ x.todo # << >>
  BY <1>4, InvokeTurnIs DEF Turn
<1>5. CASE x.step = "deliver" /\ x.todo = << >> /\ x.events # << >>
  BY <1>5, EventTurnIs DEF Turn
<1>6. CASE x.step = "deliver" /\ x.todo = << >> /\ x.events = << >>
  BY <1>6, CommitTurnIs DEF Turn
<1> QED BY <1>1, <1>2, <1>3, <1>4, <1>5, <1>6

-----------------------------------------------------------------------------
(***************************************************************************)
(* A transaction comes to one end: the runs of it are the same run.        *)
(***************************************************************************)
IsRun(p, a, t, n, f) ==
  /\ f[0] = Begun(a, t)
  /\ \A k \in 1 .. n : f[k] = Turn(p, a, t, f[k - 1]).tx
  /\ \A k \in 0 .. n : f[k] # Idle

Underway(p, a, t, x) == \E n \in Nat : \E f : IsRun(p, a, t, n, f) /\ f[n] = x
Ends(p, a, t, y) == y.tx = Idle /\ \E x : Underway(p, a, t, x) /\ y = Turn(p, a, t, x)
Outcome(p, a, t) == CHOOSE y : Ends(p, a, t, y)

LEMMA RunsAgree ==
  ASSUME NEW p, NEW a, NEW t, NEW n \in Nat, NEW m \in Nat, NEW f, NEW g, n <= m,
         IsRun(p, a, t, n, f), Turn(p, a, t, f[n]).tx = Idle, IsRun(p, a, t, m, g)
  PROVE  n = m /\ f[n] = g[m]
<1> DEFINE S == {k \in 0 .. n : f[k] = g[k]}
<1>1. 0 \in S
  BY DEF IsRun
<1>2. ASSUME NEW k \in 0 .. n - 1, k \in S
      PROVE  k + 1 \in S
  <2>1. k + 1 \in 1 .. n /\ k + 1 \in 1 .. m /\ k + 1 - 1 = k /\ k + 1 \in 0 .. n
    OBVIOUS
  <2>2. f[k + 1] = Turn(p, a, t, f[k]).tx /\ g[k + 1] = Turn(p, a, t, g[k]).tx
    BY <2>1 DEF IsRun
  <2> QED BY <1>2, <2>1, <2>2
<1>3. \A k \in 0 .. n : k \in S
  <2> HIDE DEF S
  <2> QED BY <1>1, <1>2, UpTo
<1>4. f[n] = g[n]
  <2>1. n \in 0 .. n
    OBVIOUS
  <2> QED BY <1>3, <2>1
<1>5. CASE n < m
  <2>1. n + 1 \in 1 .. m /\ n + 1 - 1 = n /\ n + 1 \in 0 .. m
    BY <1>5
  <2>2. g[n + 1] = Turn(p, a, t, g[n]).tx /\ g[n + 1] # Idle
    BY <2>1 DEF IsRun
  <2> QED BY <1>4, <2>2
<1>6. CASE n = m
  BY <1>4, <1>6
<1> QED BY <1>5, <1>6

LEMMA EndsAlike ==
  ASSUME NEW p, NEW a, NEW t, NEW y, NEW z, Ends(p, a, t, y), Ends(p, a, t, z)
  PROVE  y = z
<1>1. PICK x1 : Underway(p, a, t, x1) /\ y = Turn(p, a, t, x1) /\ y.tx = Idle
  BY DEF Ends
<1>2. PICK x2 : Underway(p, a, t, x2) /\ z = Turn(p, a, t, x2) /\ z.tx = Idle
  BY DEF Ends
<1>3. PICK n \in Nat : \E f : IsRun(p, a, t, n, f) /\ f[n] = x1
  BY <1>1 DEF Underway
<1>4. PICK m \in Nat : \E g : IsRun(p, a, t, m, g) /\ g[m] = x2
  BY <1>2 DEF Underway
<1>5. PICK f : IsRun(p, a, t, n, f) /\ f[n] = x1
  BY <1>3
<1>6. PICK g : IsRun(p, a, t, m, g) /\ g[m] = x2
  BY <1>4
<1>7. CASE n <= m
  <2>1. f[n] = g[m]
    BY <1>1, <1>5, <1>6, <1>7, RunsAgree
  <2> QED BY <1>1, <1>2, <1>5, <1>6, <2>1
<1>8. CASE m <= n
  <2>1. f[n] = g[m]
    BY <1>2, <1>5, <1>6, <1>8, RunsAgree
  <2> QED BY <1>1, <1>2, <1>5, <1>6, <2>1
<1> QED BY <1>7, <1>8

LEMMA OutcomeIsTheEnd ==
  ASSUME NEW p, NEW a, NEW t, NEW y, Ends(p, a, t, y)
  PROVE  Outcome(p, a, t) = y
<1>1. Ends(p, a, t, Outcome(p, a, t))
  BY DEF Outcome
<1> QED BY <1>1, EndsAlike

LEMMA RunBegins ==
  ASSUME NEW p, NEW a, NEW t
  PROVE  Underway(p, a, t, Begun(a, t))
<1> DEFINE f == [k \in 0 .. 0 |-> Begun(a, t)]
<1>1. f[0] = Begun(a, t)
  OBVIOUS
<1>2. Begun(a, t) # Idle
  BY DEF Begun, Idle
<1> HIDE DEF f
<1>3. IsRun(p, a, t, 0, f)
  BY <1>1, <1>2 DEF IsRun
<1> QED BY <1>1, <1>3 DEF Underway

LEMMA RunGoesOn ==
  ASSUME NEW p, NEW a, NEW t, NEW x, Underway(p, a, t, x), Turn(p, a, t, x).tx # Idle
  PROVE  Underway(p, a, t, Turn(p, a, t, x).tx)
<1>0. PICK n \in Nat : \E f : IsRun(p, a, t, n, f) /\ f[n] = x
  BY DEF Underway
<1>1. PICK f : IsRun(p, a, t, n, f) /\ f[n] = x
  BY <1>0
<1> DEFINE y == Turn(p, a, t, x).tx
           g == [k \in 0 .. n + 1 |-> IF k = n + 1 THEN y ELSE f[k]]
<1>2. g[n + 1] = y /\ (\A k \in 0 .. n : g[k] = f[k]) /\ y # Idle
  <2>1. y # Idle
    OBVIOUS
  <2> HIDE DEF y
  <2> QED BY <2>1
<1> HIDE DEF g
<1>3. g[0] = Begun(a, t)
  BY <1>1, <1>2 DEF IsRun
<1>4. ASSUME NEW k \in 1 .. n + 1
      PROVE  g[k] = Turn(p, a, t, g[k - 1]).tx
  <2>1. CASE k = n + 1
    <3>1. k - 1 = n /\ n \in 0 .. n
      BY <2>1
    <3> QED BY <1>1, <1>2, <2>1, <3>1
  <2>2. CASE k \in 1 .. n
    <3>1. k \in 0 .. n /\ k - 1 \in 0 .. n
      BY <2>2
    <3> QED BY <1>1, <1>2, <2>2, <3>1 DEF IsRun
  <2> QED BY <2>1, <2>2
<1>5. \A k \in 0 .. n + 1 : g[k] # Idle
  <2>1. \A k \in 0 .. n + 1 : k = n + 1 \/ k \in 0 .. n
    OBVIOUS
  <2>2. \A k \in 0 .. n : g[k] # Idle
    BY <1>1, <1>2 DEF IsRun
  <2>3. g[n + 1] # Idle
    BY <1>2
  <2> HIDE DEF y
  <2> QED BY <2>1, <2>2, <2>3
<1>6. IsRun(p, a, t, n + 1, g) /\ n + 1 \in Nat
  <2> HIDE DEF y
  <2> QED BY <1>3, <1>4, <1>5 DEF IsRun
<1> QED BY <1>2, <1>6 DEF Underway

-----------------------------------------------------------------------------
\* What each action of the log came to, and a replica that has followed the log so far.
IsHistory(O, p, acts) ==
  O[0].table = EmptyTable /\ \A k \in 1 .. Len(acts) : O[k] = Outcome(p, acts[k], O[k - 1].table)

Follows(O, p, acts, t, said, x) ==
  /\ t = O[t.sequence].table
  /\ Len(said) = t.sequence /\ \A k \in 1 .. t.sequence : said[k] = O[k].said
  /\ x # Idle => Underway(p, acts[t.sequence + 1], t, x)

\* What holds of one replica.
Sits(acts, t, x) ==
  /\ t.sequence <= Len(acts) /\ (t.sequence = 0 => t.prompt = "none")
  /\ x # Idle => t.sequence < Len(acts) /\ TxIs(x, t)

Agreement ==
  \E O : /\ IsHistory(O, program, actions)
         /\ \A r \in Replicas : Follows(O, program, actions, table[r], results[r], tx[r])

ScriptInv ==
  /\ ScriptTypes
  /\ \A r \in Replicas : Sits(actions, table[r], tx[r])
  /\ Agreement

LEMMA ScriptStarts ==
  ASSUME ScriptInit
  PROVE  ScriptInv
<1>1. EmptyTable.sequence = 0 /\ EmptyTable.prompt = "none" /\ EmptyTable \in Tables
  BY EmptyTableType DEF EmptyTable
<1>2. << >> \in Seq(OrderedActions) /\ << >> \in Seq(Results) /\ Len(<< >>) = 0
  OBVIOUS
<1>3. ScriptTypes
  BY <1>1, <1>2 DEF ScriptInit, ScriptTypes
<1>4. \A r \in Replicas : table[r] = EmptyTable /\ tx[r] = Idle /\ results[r] = << >>
  BY DEF ScriptInit
<1>5. \A r \in Replicas : Sits(actions, table[r], tx[r])
  BY <1>1, <1>2, <1>4 DEF ScriptInit, Sits
<1>6. Agreement
  <2> DEFINE O == [k \in 0 .. 0 |-> Over(EmptyTable, Void)]
  <2>1. O[0].table = EmptyTable
    BY DEF Over
  <2> HIDE DEF O
  <2>2. IsHistory(O, program, actions)
    BY <1>2, <2>1 DEF IsHistory, ScriptInit
  <2>3. \A r \in Replicas : Follows(O, program, actions, table[r], results[r], tx[r])
    BY <1>1, <1>2, <1>4, <2>1 DEF Follows
  <2> QED BY <2>2, <2>3 DEF Agreement
<1> QED BY <1>3, <1>5, <1>6 DEF ScriptInv

\* The log grows by one action.
LEMMA LogGrows ==
  ASSUME ScriptInv, NEW c \in OrderedActions, actions' = Append(actions, c), UNCHANGED <<program, table, tx, results>>
  PROVE  ScriptInv'
<1> DEFINE n == Len(actions)
<1>1. ScriptTypes /\ (\A r \in Replicas : Sits(actions, table[r], tx[r])) /\ Agreement
  BY DEF ScriptInv
<1>2. /\ actions \in Seq(OrderedActions) /\ n \in Nat /\ actions' \in Seq(OrderedActions) /\ Len(actions') = n + 1
      /\ actions'[n + 1] = c /\ \A k \in 1 .. n : actions'[k] = actions[k]
  BY <1>1 DEF ScriptTypes
<1>3. ScriptTypes'
  BY <1>1, <1>2 DEF ScriptTypes
<1>4. \A r \in Replicas : table[r].sequence \in Nat
  BY <1>1 DEF ScriptTypes, Tables
<1>5. \A r \in Replicas : Sits(actions, table[r], tx[r])'
  <2> SUFFICES ASSUME NEW r \in Replicas
               PROVE  Sits(actions', table[r], tx[r])
    OBVIOUS
  <2>1. Sits(actions, table[r], tx[r]) /\ table[r].sequence \in Nat
    BY <1>1, <1>4
  <2> HIDE DEF n
  <2>2. Len(actions) = n
    BY DEF n
  <2> QED BY <1>2, <2>1, <2>2 DEF Sits
<1>6. PICK O : IsHistory(O, program, actions) /\ \A r \in Replicas : Follows(O, program, actions, table[r], results[r], tx[r])
  BY <1>1 DEF Agreement
<1> DEFINE P == [k \in 0 .. n + 1 |-> IF k = n + 1 THEN Outcome(program, c, O[n].table) ELSE O[k]]
<1>7. P[n + 1] = Outcome(program, c, O[n].table) /\ \A k \in 0 .. n : P[k] = O[k]
  BY <1>2
<1> HIDE DEF P
<1>8. IsHistory(P, program, actions')
  <2>1. P[0].table = EmptyTable
    BY <1>2, <1>6, <1>7 DEF IsHistory
  <2>2. ASSUME NEW k \in 1 .. n + 1
        PROVE  P[k] = Outcome(program, actions'[k], P[k - 1].table)
    <3>1. CASE k = n + 1
      <4>1. k - 1 = n /\ n \in 0 .. n
        BY <1>2, <3>1
      <4> QED BY <1>2, <1>7, <3>1, <4>1
    <3>2. CASE k \in 1 .. n
      <4>1. k \in 0 .. n /\ k - 1 \in 0 .. n
        BY <1>2, <3>2
      <4>2. O[k] = Outcome(program, actions[k], O[k - 1].table)
        BY <1>6, <3>2 DEF IsHistory
      <4> QED BY <1>2, <1>7, <3>2, <4>1, <4>2
    <3> QED BY <1>2, <3>1, <3>2
  <2> QED BY <1>2, <2>1, <2>2 DEF IsHistory
<1>9. ASSUME NEW r \in Replicas
      PROVE  Follows(P, program, actions', table[r], results[r], tx[r])
  <2> DEFINE s == table[r].sequence
  <2>1. Follows(O, program, actions, table[r], results[r], tx[r]) /\ Sits(actions, table[r], tx[r]) /\ s \in Nat
    BY <1>1, <1>4, <1>6
  <2>2. s \in 0 .. n /\ \A k \in 1 .. s : k \in 0 .. n
    BY <1>2, <2>1 DEF Sits
  <2>3. tx[r] # Idle => s + 1 \in 1 .. n
    BY <1>2, <2>1 DEF Sits
  <2>4. tx[r] # Idle => actions'[s + 1] = actions[s + 1]
    BY <1>2, <2>3
  <2> QED BY <1>7, <2>1, <2>2, <2>4 DEF Follows
<1>10. Agreement'
  BY <1>8, <1>9 DEF Agreement
<1> QED BY <1>3, <1>5, <1>10 DEF ScriptInv

\* A replica begins a transaction.
LEMMA BeginKeeps ==
  ASSUME ScriptInv, NEW r \in Replicas, Begin(r)
  PROVE  ScriptInv'
<1> DEFINE t == table[r]
           a == Action(r)
<1>1. ScriptTypes /\ (\A q \in Replicas : Sits(actions, table[q], tx[q])) /\ Agreement
  BY DEF ScriptInv
<1>2. PICK listed \in SetToSeqs(Bindings) :
        tx' = [tx EXCEPT ![r] = [step |-> "guard", bindings |-> Arranged(listed),
                                 todo |-> Subscribers(Guard(Action(r)), Arranged(listed)),
                                 draft |-> table[r], events |-> << >>, used |-> 0, ids |-> 0, calls |-> << >>]]
  BY DEF Begin
<1>3. tx' = [tx EXCEPT ![r] = Begun(a, t)]
  BY <1>2, ArrangedIs DEF Begun
<1>4. t \in Tables /\ t.sequence \in Nat /\ t.sequence < Len(actions) /\ actions \in Seq(OrderedActions)
  BY <1>1 DEF ScriptTypes, Begin, Tables
<1>5. a \in OrderedActions /\ a = actions[t.sequence + 1]
  BY <1>4 DEF Action
<1>6. TxIs(Begun(a, t), t)
  BY <1>4, <1>5, BegunIs
<1>7. UNCHANGED <<program, actions, table, results>>
  BY DEF Begin
<1>8. tx \in [Replicas -> Transactions \cup {Idle}]
  BY <1>1 DEF ScriptTypes
<1> HIDE DEF t, a
<1>9. tx'[r] = Begun(a, t) /\ (\A q \in Replicas : q # r => tx'[q] = tx[q]) /\ tx' \in [Replicas -> Transactions \cup {Idle}]
  BY <1>3, <1>6, <1>8 DEF TxIs
<1>10. ScriptTypes'
  BY <1>1, <1>7, <1>9 DEF ScriptTypes
<1>11. \A q \in Replicas : Sits(actions, table[q], tx[q])'
  <2> SUFFICES ASSUME NEW q \in Replicas
               PROVE  Sits(actions, table[q], tx'[q])
    BY <1>7
  <2>1. CASE q = r
    BY <1>1, <1>4, <1>6, <1>9, <2>1 DEF Sits, t
  <2>2. CASE q # r
    BY <1>1, <1>9, <2>2
  <2> QED BY <2>1, <2>2
<1>12. PICK O : IsHistory(O, program, actions) /\ \A q \in Replicas : Follows(O, program, actions, table[q], results[q], tx[q])
  BY <1>1 DEF Agreement
<1>13. ASSUME NEW q \in Replicas
       PROVE  Follows(O, program, actions, table[q], results[q], tx'[q])
  <2>1. CASE q = r
    <3>1. Underway(program, a, t, Begun(a, t))
      BY RunBegins
    <3> QED BY <1>5, <1>9, <1>12, <2>1, <3>1 DEF Follows, t
  <2>2. CASE q # r
    BY <1>9, <1>12, <2>2
  <2> QED BY <2>1, <2>2
<1>14. Agreement'
  BY <1>7, <1>12, <1>13 DEF Agreement
<1> QED BY <1>10, <1>11, <1>14 DEF ScriptInv

\* A replica takes its turn: what it comes to is what every replica comes to.
LEMMA TurnKeeps ==
  ASSUME ScriptInv, NEW r \in Replicas, tx[r] \in Transactions, Takes(r, Turn(program, Action(r), table[r], tx[r]))
  PROVE  ScriptInv' /\ IsTurn(table[r], Turn(program, Action(r), table[r], tx[r]))
<1> DEFINE t == table[r]
           x == tx[r]
           a == Action(r)
           y == Turn(program, a, t, x)
           k == t.sequence + 1
<1>1. ScriptTypes /\ (\A q \in Replicas : Sits(actions, table[q], tx[q])) /\ Agreement
  BY DEF ScriptInv
<1>2. /\ program \in DOMAIN Programs /\ actions \in Seq(OrderedActions) /\ table \in [Replicas -> Tables]
      /\ tx \in [Replicas -> Transactions \cup {Idle}] /\ results \in [Replicas -> Seq(Results)]
  BY <1>1 DEF ScriptTypes
<1>3. x # Idle
  BY TransactionIs
<1>4. /\ t \in Tables /\ t.sequence \in Nat /\ t.sequence < Len(actions) /\ (t.sequence = 0 => t.prompt = "none") /\ TxIs(x, t)
  BY <1>1, <1>2, <1>3 DEF Sits, Tables
<1>5. a \in OrderedActions /\ a = actions[k] /\ k \in 1 .. Len(actions) /\ k \in Nat
  BY <1>2, <1>4 DEF Action
<1>6. IsTurn(t, y)
  BY <1>2, <1>4, <1>5, TurnIs
<1>7. /\ tx' = [tx EXCEPT ![r] = y.tx] /\ table' = [table EXCEPT ![r] = y.table]
      /\ results' = IF y.tx = Idle THEN [results EXCEPT ![r] = Append(@, y.said)] ELSE results
      /\ program' = program /\ actions' = actions
  BY DEF Takes
<1>8. PICK O : IsHistory(O, program, actions) /\ \A q \in Replicas : Follows(O, program, actions, table[q], results[q], tx[q])
  BY <1>1 DEF Agreement
<1>9. Follows(O, program, actions, t, results[r], x) /\ Underway(program, a, t, x)
  BY <1>3, <1>5, <1>8 DEF Follows
<1>10. y = Turn(program, a, t, x)
  OBVIOUS
<1>11. results[r] \in Seq(Results)
  BY <1>2
<1> SUFFICES ScriptInv'
  BY <1>6
<1> HIDE DEF y, a, x, t
<1>12. /\ tx'[r] = y.tx /\ (\A q \in Replicas : q # r => tx'[q] = tx[q])
       /\ table'[r] = y.table /\ (\A q \in Replicas : q # r => table'[q] = table[q])
       /\ \A q \in Replicas : q # r => results'[q] = results[q]
  BY <1>2, <1>7
<1>13. y.tx \in Transactions \cup {Idle} /\ y.table \in Tables
  BY <1>4, <1>6 DEF IsTurn, TxIs
<1>14. y.tx = Idle => results'[r] = Append(results[r], y.said) /\ results' = [results EXCEPT ![r] = Append(results[r], y.said)] /\ y.said \in Results
  BY <1>2, <1>6, <1>7 DEF IsTurn
<1>15. ScriptTypes'
  <2>1. results' \in [Replicas -> Seq(Results)]
    <3>1. CASE y.tx = Idle
      <4>1. Append(results[r], y.said) \in Seq(Results)
        BY <1>11, <1>14, <3>1
      <4> QED BY <1>2, <1>14, <3>1, <4>1
    <3>2. CASE y.tx # Idle
      BY <1>2, <1>7, <3>2
    <3> QED BY <3>1, <3>2
  <2>2. tx' \in [Replicas -> Transactions \cup {Idle}] /\ table' \in [Replicas -> Tables]
    BY <1>2, <1>7, <1>13
  <2> QED BY <1>2, <1>7, <2>1, <2>2 DEF ScriptTypes
<1>16. ASSUME NEW q \in Replicas
       PROVE  Sits(actions, table'[q], tx'[q])
  <2>1. CASE q # r
    BY <1>1, <1>12, <2>1
  <2>2. CASE q = r /\ y.tx # Idle
    BY <1>4, <1>6, <1>12, <2>2 DEF IsTurn, Sits
  <2>3. CASE q = r /\ y.tx = Idle
    <3>1. y.table.sequence = k /\ k <= Len(actions) /\ k # 0
      BY <1>4, <1>5, <1>6, <2>3 DEF IsTurn
    <3> QED BY <1>12, <2>3, <3>1 DEF Sits
  <2> QED BY <2>1, <2>2, <2>3
<1>17. ASSUME NEW q \in Replicas
       PROVE  Follows(O, program, actions, table'[q], results'[q], tx'[q])
  <2>1. CASE q # r
    BY <1>8, <1>12, <2>1
  <2>2. CASE q = r /\ y.tx # Idle
    <3>1. y.table = t /\ results' = results
      BY <1>6, <1>7, <2>2 DEF IsTurn
    <3>2. Underway(program, a, t, y.tx)
      BY <1>9, <1>10, <2>2, RunGoesOn
    <3> QED BY <1>5, <1>9, <1>12, <2>2, <3>1, <3>2 DEF Follows
  <2>3. CASE q = r /\ y.tx = Idle
    <3>1. y.table.sequence = k /\ results'[r] = Append(results[r], y.said)
      BY <1>6, <1>14, <2>3 DEF IsTurn
    <3>2. Outcome(program, a, t) = y
      <4>1. Ends(program, a, t, y)
        BY <1>9, <1>10, <2>3 DEF Ends
      <4> QED BY <4>1, OutcomeIsTheEnd
    <3>3. O[k] = y
      <4>1. k - 1 = t.sequence /\ t = O[t.sequence].table
        BY <1>4, <1>9 DEF Follows
      <4>2. O[k] = Outcome(program, actions[k], O[k - 1].table)
        BY <1>5, <1>8 DEF IsHistory
      <4> QED BY <1>5, <3>2, <4>1, <4>2
    <3>4. Len(results[r]) = t.sequence /\ \A j \in 1 .. t.sequence : results[r][j] = O[j].said
      BY <1>9 DEF Follows
    <3>5. /\ Len(results'[r]) = k /\ results'[r][k] = y.said
          /\ \A j \in 1 .. t.sequence : results'[r][j] = results[r][j]
      BY <1>11, <1>4, <3>1, <3>4
    <3>6. \A j \in 1 .. k : j = k \/ j \in 1 .. t.sequence
      BY <1>4
    <3> HIDE DEF k
    <3>7. \A j \in 1 .. k : results'[r][j] = O[j].said
      BY <3>3, <3>4, <3>5, <3>6
    <3> QED BY <1>12, <2>3, <3>1, <3>3, <3>5, <3>7 DEF Follows
  <2> QED BY <2>1, <2>2, <2>3
<1>18. Agreement'
  BY <1>7, <1>8, <1>17 DEF Agreement
<1> QED BY <1>7, <1>15, <1>16, <1>18 DEF ScriptInv

LEMMA ScriptStays ==
  ASSUME ScriptInv, UNCHANGED scriptVars
  PROVE  ScriptInv'
BY DEF ScriptInv, ScriptTypes, Agreement, scriptVars

LEMMA ScriptKeeps ==
  ASSUME ScriptInv, ScriptNext
  PROVE  /\ ScriptInv'
         /\ \A r \in Replicas : results'[r] # results[r] => Whole(table[r], table'[r], Last(results'[r]))
<1>1. /\ program \in DOMAIN Programs /\ actions \in Seq(OrderedActions) /\ table \in [Replicas -> Tables]
      /\ tx \in [Replicas -> Transactions \cup {Idle}] /\ results \in [Replicas -> Seq(Results)]
  BY DEF ScriptInv, ScriptTypes
<1>2. CASE Sequence
  <2>1. UNCHANGED <<program, table, tx, results>>
    BY <1>2 DEF Sequence
  <2>2. \E c \in OrderedActions : actions' = Append(actions, c)
    <3>1. CASE actions = << >>
      <4>1. [type |-> "start"] \in OrderedActions
        BY DEF OrderedActions, PlainActions
      <4>2. actions' = Append(actions, [type |-> "start"])
        BY <1>2, <3>1 DEF Sequence
      <4> QED BY <4>1, <4>2
    <3>2. ASSUME NEW type \in {"flip", "press", "roll", "respond"}, actions' = Append(actions, [type |-> type])
          PROVE  \E c \in OrderedActions : actions' = Append(actions, c)
      <4>1. [type |-> type] \in OrderedActions
        BY <3>2 DEF OrderedActions, PlainActions
      <4> QED BY <3>2, <4>1
    <3>3. ASSUME NEW r \in Replicas, NEW id \in DOMAIN table[r].timers,
                 actions' = Append(actions, [type |-> "fire", timer |-> id])
          PROVE  \E c \in OrderedActions : actions' = Append(actions, c)
      <4>1. table[r] \in Tables
        BY <1>1
      <4>2. id \in TimerIds
        BY <3>3, <4>1, TimersAre
      <4>3. [type |-> "fire", timer |-> id] \in OrderedActions
        BY <4>2 DEF OrderedActions, Fires
      <4> QED BY <3>3, <4>3
    <3> QED BY <1>2, <3>1, <3>2, <3>3 DEF Sequence
  <2>3. ScriptInv'
    BY <2>1, <2>2, LogGrows
  <2> QED BY <2>1, <2>3
<1>3. ASSUME NEW r \in Replicas, Begin(r)
      PROVE  ScriptInv' /\ results' = results
  BY <1>3, BeginKeeps DEF Begin
<1>4. ASSUME NEW r \in Replicas, AskGuard(r) \/ ApplyBase(r) \/ NextEvent(r) \/ Invoke(r) \/ Commit(r)
      PROVE  /\ ScriptInv'
             /\ \A q \in Replicas : results'[q] # results[q] => Whole(table[q], table'[q], Last(results'[q]))
  <2> DEFINE y == Turn(program, Action(r), table[r], tx[r])
  <2>1. tx[r] \in Transactions /\ Takes(r, y)
    <3>1. ScriptTypes
      BY DEF ScriptInv
    <3> QED BY <1>4, <3>1, TurnTaken
  <2>2. ScriptInv' /\ IsTurn(table[r], y)
    BY <2>1, TurnKeeps
  <2> HIDE DEF y
  <2>3. ASSUME NEW q \in Replicas, results'[q] # results[q]
        PROVE  Whole(table[q], table'[q], Last(results'[q]))
    <3>1. y.tx = Idle /\ results' = [results EXCEPT ![r] = Append(@, y.said)] /\ table' = [table EXCEPT ![r] = y.table]
      BY <2>1, <2>3 DEF Takes
    <3>2. q = r /\ results'[r] = Append(results[r], y.said) /\ table'[r] = y.table
      BY <1>1, <2>3, <3>1
    <3>3. results[r] \in Seq(Results) /\ y.said \in Results /\ Whole(table[r], y.table, y.said)
      BY <1>1, <2>2, <3>1 DEF IsTurn
    <3>4. Last(Append(results[r], y.said)) = y.said
      <4>1. Len(Append(results[r], y.said)) = Len(results[r]) + 1 /\ Append(results[r], y.said)[Len(results[r]) + 1] = y.said
        BY <3>3
      <4> QED BY <4>1 DEF Last
    <3> QED BY <3>2, <3>3, <3>4
  <2> QED BY <2>2, <2>3
<1> QED BY <1>2, <1>3, <1>4 DEF ScriptNext

LEMMA ScriptInvMeans ==
  ASSUME ScriptInv
  PROVE  ScriptsAreSound
<1>1. /\ table \in [Replicas -> Tables] /\ tx \in [Replicas -> Transactions \cup {Idle}]
      /\ results \in [Replicas -> Seq(Results)]
  BY DEF ScriptInv, ScriptTypes
<1>2. PICK O : \A r \in Replicas : Follows(O, program, actions, table[r], results[r], tx[r])
  BY DEF ScriptInv, Agreement
<1>3. ASSUME NEW r \in Replicas, NEW s \in Replicas, table[r].sequence = table[s].sequence
      PROVE  table[r] = table[s]
  BY <1>2, <1>3 DEF Follows
<1>4. ASSUME NEW r \in Replicas, NEW s \in Replicas, table[r].sequence <= table[s].sequence
      PROVE  IsPrefix(results[r], results[s])
  <2> DEFINE a == results[r]
             b == results[s]
             n == Len(a)
  <2>1. a \in Seq(Results) /\ b \in Seq(Results) /\ n \in Nat /\ Len(b) \in Nat
    BY <1>1
  <2>2. n = table[r].sequence /\ Len(b) = table[s].sequence
    BY <1>2 DEF Follows
  <2>3. n <= Len(b)
    BY <1>4, <2>2
  <2>4. (\A k \in 1 .. n : a[k] = O[k].said) /\ \A k \in 1 .. Len(b) : b[k] = O[k].said
    BY <1>2, <2>2 DEF Follows
  <2> HIDE DEF a, b, n
  <2>5. \A k \in 1 .. n : a[k] = b[k]
    <3>1. \A k \in 1 .. n : k \in 1 .. Len(b)
      BY <2>1, <2>3
    <3> QED BY <2>4, <3>1
  <2>6. SubSeq(a, 1, n) = [k \in 1 .. n |-> a[k]] /\ SubSeq(b, 1, n) = [k \in 1 .. n |-> b[k]]
    <3>1. \A k \in 1 .. n : 1 + k - 1 = k
      BY <2>1
    <3> QED BY <2>1, <2>3, <3>1 DEF n
  <2>7. SubSeq(a, 1, n) = SubSeq(b, 1, n)
    BY <2>5, <2>6
  <2> QED BY <2>3, <2>7 DEF IsPrefix, a, b, n
<1>5. ReplicasAgree
  <2> SUFFICES ASSUME NEW r \in Replicas, NEW s \in Replicas
               PROVE  /\ table[r].sequence = table[s].sequence => table[r] = table[s]
                      /\ IsPrefix(results[r], results[s]) \/ IsPrefix(results[s], results[r])
    BY DEF ReplicasAgree
  <2>1. table[r].sequence \in Nat /\ table[s].sequence \in Nat
    BY <1>1 DEF Tables
  <2>2. table[r].sequence <= table[s].sequence \/ table[s].sequence <= table[r].sequence
    BY <2>1
  <2> QED BY <1>3, <1>4, <2>2
<1>6. WorkIsBounded
  <2> SUFFICES ASSUME NEW r \in Replicas, tx[r].step = "deliver"
               PROVE  tx[r].used <= MaxCommands /\ Len(tx[r].calls) + Len(tx[r].todo) <= Cardinality(Bindings) + MaxCommands
    BY DEF WorkIsBounded, At
  <2>1. tx[r] \in Transactions
    BY <1>1 DEF Idle
  <2>2. TxIs(tx[r], table[r])
    BY <2>1, TransactionIs DEF ScriptInv, Sits
  <2> DEFINE x == tx[r]
             d == x.calls \o x.todo
  <2>3. x.calls \in Seq(Calls) /\ x.todo \in Seq(Calls) /\ x.events \in Seq(Deliveries) /\ x.used \in 0 .. MaxCommands /\ MaxCommands \in Nat
    BY <2>1, TransactionIs, ScriptAssumption
  <2>4. d \in Seq(Calls) /\ Len(d) = Len(x.calls) + Len(x.todo)
    BY <2>3
  <2>5. PICK f \in [0 .. Len(x.events) -> Seq(Calls)] :
          IsCalled(f, d, x.events) /\ Owed(table[r], x.draft, x.used, f[Len(x.events)])
    BY <2>2 DEF TxIs, OwedIn
  <2> HIDE DEF x, d
  <2>6. Len(d) <= Len(f[Len(x.events)])
    BY <2>3, <2>4, <2>5, CalledAtLeast
  <2>7. Len(f[Len(x.events)]) <= x.used + 2
    <3>1. f[Len(x.events)] \in Seq(Calls) /\ Len(f[Len(x.events)]) + (IF x.draft.prompt = "open" THEN 1 ELSE 0) <= x.used + 2
      BY <2>5 DEF Owed
    <3>2. Len(f[Len(x.events)]) \in Nat
      BY <3>1
    <3>3. x.used \in Nat
      BY <2>3
    <3>4. \A k, u \in Nat : k + 1 <= u + 2 \/ k + 0 <= u + 2 => k <= u + 2
      OBVIOUS
    <3> QED BY <3>1, <3>2, <3>3, <3>4
  <2>8. Cardinality(Bindings) = 2
    BY ToIs DEF Bindings
  <2>9. Len(f[Len(x.events)]) \in Nat /\ Len(x.calls) \in Nat /\ Len(x.todo) \in Nat
    <3>1. f[Len(x.events)] \in Seq(Calls)
      BY <2>5 DEF Owed
    <3> QED BY <2>3, <3>1
  <2>10. x.used <= MaxCommands /\ Len(x.calls) + Len(x.todo) <= 2 + MaxCommands
    <3>1. x.used \in Nat /\ x.used <= MaxCommands
      BY <2>3
    <3>2. \A k, m, u \in Nat : k <= m /\ m <= u + 2 /\ u <= MaxCommands => k <= 2 + MaxCommands
      BY <2>3
    <3>3. Len(d) \in Nat
      <4>1. d \in Seq(Calls)
        BY <2>4
      <4> QED BY <4>1
    <3> QED BY <2>4, <2>6, <2>7, <2>9, <3>1, <3>2, <3>3
  <2> QED BY <2>8, <2>10 DEF x
<1> QED BY <1>5, <1>6 DEF ScriptsAreSound

LEMMA ScriptAlways == ScriptSpec => []ScriptInv
<1>1. ScriptInit => ScriptInv
  BY ScriptStarts
<1>2. ScriptInv /\ [ScriptNext]_scriptVars => ScriptInv'
  BY ScriptKeeps, ScriptStays
<1> QED BY <1>1, <1>2, PTL DEF ScriptSpec

\* A scripted game is one game, for any scripts, however many replicas and actions: the
\* order in which a runtime lists the scripts does not show, and no script outruns its
\* budget, whatever it answers.
THEOREM ScriptsAlwaysSound == ScriptSpec => []ScriptsAreSound
<1>1. ScriptInv => ScriptsAreSound
  BY ScriptInvMeans
<1> QED BY <1>1, ScriptAlways, PTL

\* Every transaction is whole, for any scripts: what it did to the card, the timers and
\* the prompt is what the scripts were called for, and one that fails at any point, the
\* last command of the last script included, leaves the table as it was.
THEOREM TransactionsAlwaysWhole == ScriptSpec => TransactionsAreWhole
<1>1. ScriptInv /\ [ScriptNext]_scriptVars =>
        [\A r \in Replicas : results'[r] # results[r] => Whole(table[r], table'[r], Last(results'[r]))]_scriptVars
  BY ScriptKeeps
<1> QED BY <1>1, ScriptAlways, PTL DEF ScriptSpec, TransactionsAreWhole, Whole
=============================================================================
