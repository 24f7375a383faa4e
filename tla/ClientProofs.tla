---------------------------- MODULE ClientProofs ----------------------------
(***************************************************************************)
(* What holds of a client outside its room for every value of the          *)
(* constants: the predictions it lays over the room's table and the order  *)
(* in which the room answers them, the trial of a draft by the editor, and *)
(* the bundle that goes from its author's browser to the server.  The      *)
(* loops of the code are folds; what a fold comes to is read off the       *)
(* iteration along its places (module Iteration).                          *)
(***************************************************************************)
EXTENDS PredictionLedger, DraftTrial, GameBundles, Iteration

-----------------------------------------------------------------------------
(***************************************************************************)
(* Predictions.  A ledger is sound because what is displayed is a replay,  *)
(* what is left of it is in the order in which it was asked, and the room  *)
(* has not yet judged any of it.                                           *)
(***************************************************************************)
TableStates == [holder : [Entities -> Seated \cup {NoOne}], face : [Entities -> BOOLEAN]]
Predictions == [id : Nat, action : Moves]
Replays == [state : TableStates, kept : Seq(Predictions)]

\* One turn of the loop of replayPredictions.
Judged(acc, p) ==
  IF Accepts(acc.state, Me, p.action)
  THEN [state |-> Applied(acc.state, Me, p.action), kept |-> Append(acc.kept, p)]
  ELSE acc

IsReplay(f, base, ps) ==
  /\ f[0] = [state |-> base, kept |-> << >>]
  /\ \A i \in 1 .. Len(ps) : f[i] = Judged(f[i - 1], ps[i])

LEMMA AppliedType ==
  ASSUME NEW s \in TableStates, NEW x \in Seated, NEW a \in Moves
  PROVE  Applied(s, x, a) \in TableStates
BY DEF Applied, TableStates, Moves, Seated

LEMMA JudgedType ==
  ASSUME NEW acc \in Replays, NEW p \in Predictions
  PROVE  Judged(acc, p) \in Replays
<1>1. p.action \in Moves /\ acc.state \in TableStates /\ acc.kept \in Seq(Predictions) /\ Me \in Seated
  BY DEF Replays, Predictions, Seated
<1>2. Applied(acc.state, Me, p.action) \in TableStates
  BY <1>1, AppliedType
<1>3. Append(acc.kept, p) \in Seq(Predictions)
  BY <1>1
<1> QED BY <1>1, <1>2, <1>3 DEF Judged, Replays

LEMMA ReplayIterates ==
  ASSUME NEW base \in TableStates, NEW ps \in Seq(Predictions)
  PROVE  \E f \in [0 .. Len(ps) -> Replays] : IsReplay(f, base, ps) /\ Replay(base, ps) = f[Len(ps)]
<1> DEFINE n == Len(ps)
           start == [state |-> base, kept |-> << >>]
           h == [x \in Replays \X (1 .. n) |-> Judged(x[1], ps[x[2]])]
           Body(g) == [s \in SUBSET DOMAIN ps |-> IF s = {} THEN start ELSE Judged(g[s \ {Max(s)}], ps[Max(s)])]
           G == CHOOSE g : g = Body(g)
<1>1. n \in Nat /\ DOMAIN ps = 1 .. n /\ start \in Replays /\ \A i \in 1 .. n : ps[i] \in Predictions
  BY DEF Replays
<1>2. h \in [Replays \X (1 .. n) -> Replays]
  <2> SUFFICES ASSUME NEW x \in Replays \X (1 .. n)
               PROVE  Judged(x[1], ps[x[2]]) \in Replays
    OBVIOUS
  <2> QED BY <1>1, JudgedType
<1>3. \A r \in Replays, i \in 1 .. n : h[<<r, i>>] = Judged(r, ps[i])
  OBVIOUS
<1>4. Replay(base, ps) = G[DOMAIN ps]
  BY DEF Replay, FoldLeft, MapThenFoldSet, Judged
<1> HIDE DEF h, n, start
<1>5. ASSUME NEW s \in SUBSET (1 .. n), s # {}
      PROVE  Max(s) \in 1 .. n
  BY <1>1, <1>5, GreatestOf
<1>6. PICK g \in [SUBSET (1 .. n) -> Replays] : IsFoldUp(g, n, start, h)
  BY <1>1, <1>2, FoldUpExists
<1>7. g = Body(g)
  <2>1. ASSUME NEW s \in SUBSET (1 .. n)
        PROVE  g[s] = IF s = {} THEN start ELSE Judged(g[s \ {Max(s)}], ps[Max(s)])
    BY <1>3, <1>5, <1>6 DEF IsFoldUp
  <2> QED BY <1>1, <1>6, <2>1
<1>8. G = Body(G)
  <2> HIDE DEF Body
  <2> QED BY <1>7
<1>9. FoldsUp(G, n, Replays, start, h)
  <2> HIDE DEF G
  <2> QED BY <1>1, <1>3, <1>5, <1>8 DEF FoldsUp
<1>10. PICK f \in [0 .. n -> Replays] : ComesTo(G, f, n, start, h)
  <2> HIDE DEF G
  <2> QED BY <1>1, <1>2, <1>9, FoldUp
<1>11. IsReplay(f, base, ps)
  <2>1. \A i \in 1 .. n : f[i - 1] \in Replays
    BY <1>1, <1>10
  <2> QED BY <1>3, <1>10, <2>1 DEF IsReplay, ComesTo, IsIteration, n, start
<1> QED BY <1>1, <1>4, <1>10, <1>11 DEF ComesTo, n

LEMMA ReplayIs ==
  ASSUME NEW base \in TableStates, NEW ps \in Seq(Predictions),
         NEW f \in [0 .. Len(ps) -> Replays], IsReplay(f, base, ps)
  PROVE  Replay(base, ps) = f[Len(ps)]
<1>1. PICK g \in [0 .. Len(ps) -> Replays] : IsReplay(g, base, ps) /\ Replay(base, ps) = g[Len(ps)]
  BY ReplayIterates
<1>2. \A k \in 0 .. Len(ps) : g[k] = f[k]
  <2>1. g[0] = f[0]
    BY <1>1 DEF IsReplay
  <2>2. \A k \in 1 .. Len(ps) : g[k - 1] = f[k - 1] => g[k] = f[k]
    BY <1>1 DEF IsReplay
  <2>3. Len(ps) \in Nat
    OBVIOUS
  <2> QED BY <2>1, <2>2, <2>3, IterationsAgree, Zenon
<1> QED BY <1>1, <1>2

LEMMA ReplayOfNone ==
  ASSUME NEW base \in TableStates
  PROVE  Replay(base, << >>) = [state |-> base, kept |-> << >>]
<1>1. << >> \in Seq(Predictions) /\ Len(<< >>) = 0
  OBVIOUS
<1>2. PICK f \in [0 .. 0 -> Replays] : IsReplay(f, base, << >>) /\ Replay(base, << >>) = f[0]
  BY <1>1, ReplayIterates
<1> QED BY <1>2 DEF IsReplay

LEMMA ReplayType ==
  ASSUME NEW base \in TableStates, NEW ps \in Seq(Predictions)
  PROVE  Replay(base, ps) \in Replays
BY ReplayIterates

LEMMA ReplayOfOneMore ==
  ASSUME NEW base \in TableStates, NEW ps \in Seq(Predictions), NEW p \in Predictions
  PROVE  Replay(base, Append(ps, p)) = Judged(Replay(base, ps), p)
<1> DEFINE n == Len(ps)
           qs == Append(ps, p)
<1>1. qs \in Seq(Predictions) /\ Len(qs) = n + 1 /\ qs[n + 1] = p /\ n \in Nat /\ \A i \in 1 .. n : qs[i] = ps[i]
  OBVIOUS
<1> HIDE DEF qs
<1>2. PICK f \in [0 .. n + 1 -> Replays] : IsReplay(f, base, qs) /\ Replay(base, qs) = f[n + 1]
  BY <1>1, ReplayIterates
<1> DEFINE g == [i \in 0 .. n |-> f[i]]
<1>3. g \in [0 .. n -> Replays] /\ IsReplay(g, base, ps)
  BY <1>1, <1>2 DEF IsReplay
<1>4. Replay(base, ps) = f[n]
  BY <1>1, <1>3, ReplayIs
<1> QED BY <1>1, <1>2, <1>4 DEF IsReplay, qs

\* What replay has kept once, it keeps again.
LEMMA ReplayOfKept ==
  ASSUME NEW base \in TableStates, NEW ps \in Seq(Predictions)
  PROVE  Replay(base, Replay(base, ps).kept) = Replay(base, ps)
<1> DEFINE n == Len(ps)
<1>1. PICK f \in [0 .. n -> Replays] : IsReplay(f, base, ps) /\ Replay(base, ps) = f[n]
  BY ReplayIterates
<1> DEFINE S == {k \in 0 .. n : Replay(base, f[k].kept) = f[k]}
<1>2. 0 \in S
  BY <1>1, ReplayOfNone DEF IsReplay
<1>3. ASSUME NEW k \in 0 .. n - 1, k \in S
      PROVE  k + 1 \in S
  <2>1. k + 1 \in 1 .. n /\ (k + 1) - 1 = k /\ k + 1 \in 0 .. n /\ ps[k + 1] \in Predictions
    OBVIOUS
  <2>2. f[k + 1] = Judged(f[k], ps[k + 1]) /\ Replay(base, f[k].kept) = f[k]
    BY <1>1, <1>3, <2>1 DEF IsReplay
  <2>3. f[k].kept \in Seq(Predictions)
    BY <1>1, <2>1 DEF Replays
  <2>4. Replay(base, Append(f[k].kept, ps[k + 1])) = f[k + 1]
    BY <2>1, <2>2, <2>3, ReplayOfOneMore
  <2>5. f[k + 1].kept = f[k].kept \/ f[k + 1].kept = Append(f[k].kept, ps[k + 1])
    BY <2>2 DEF Judged
  <2>6. f[k + 1].kept = f[k].kept => f[k + 1] = f[k]
    <3>1. Append(f[k].kept, ps[k + 1]) # f[k].kept
      BY <2>1, <2>3
    <3>2. Judged(f[k], ps[k + 1]).kept = Append(f[k].kept, ps[k + 1]) \/ Judged(f[k], ps[k + 1]) = f[k]
      BY DEF Judged
    <3> QED BY <2>2, <3>1, <3>2
  <2> QED BY <2>1, <2>2, <2>4, <2>5, <2>6
<1> HIDE DEF S
<1>4. \A k \in 0 .. n : k \in S
  <2>1. n \in Nat
    OBVIOUS
  <2> QED BY <1>2, <1>3, <2>1, UpTo, Zenon
<1> QED BY <1>1, <1>4 DEF S
-----------------------------------------------------------------------------
\* Except, by the same recipe.
Spared(left, p, ids) == IF p.id \in ids THEN left ELSE Append(left, p)

IsExcept(f, ps, ids) ==
  /\ f[0] = << >>
  /\ \A i \in 1 .. Len(ps) : f[i] = Spared(f[i - 1], ps[i], ids)

LEMMA SparedType ==
  ASSUME NEW left \in Seq(Predictions), NEW p \in Predictions, NEW ids
  PROVE  Spared(left, p, ids) \in Seq(Predictions)
BY DEF Spared

LEMMA ExceptIterates ==
  ASSUME NEW ids, NEW ps \in Seq(Predictions)
  PROVE  \E f \in [0 .. Len(ps) -> Seq(Predictions)] : IsExcept(f, ps, ids) /\ Except(ps, ids) = f[Len(ps)]
<1> DEFINE n == Len(ps)
           start == << >>
           h == [x \in Seq(Predictions) \X (1 .. n) |-> Spared(x[1], ps[x[2]], ids)]
           Body(g) == [s \in SUBSET DOMAIN ps |-> IF s = {} THEN start ELSE Spared(g[s \ {Max(s)}], ps[Max(s)], ids)]
           G == CHOOSE g : g = Body(g)
<1>1. n \in Nat /\ DOMAIN ps = 1 .. n /\ start \in Seq(Predictions) /\ \A i \in 1 .. n : ps[i] \in Predictions
  OBVIOUS
<1>2. h \in [Seq(Predictions) \X (1 .. n) -> Seq(Predictions)]
  <2> SUFFICES ASSUME NEW x \in Seq(Predictions) \X (1 .. n)
               PROVE  Spared(x[1], ps[x[2]], ids) \in Seq(Predictions)
    OBVIOUS
  <2> QED BY <1>1, SparedType
<1>3. \A r \in Seq(Predictions), i \in 1 .. n : h[<<r, i>>] = Spared(r, ps[i], ids)
  OBVIOUS
<1>4. Except(ps, ids) = G[DOMAIN ps]
  BY DEF Except, Spared, FoldLeft, MapThenFoldSet
<1> HIDE DEF h, n, start
<1>5. ASSUME NEW s \in SUBSET (1 .. n), s # {}
      PROVE  Max(s) \in 1 .. n
  BY <1>1, <1>5, GreatestOf
<1>6. PICK g \in [SUBSET (1 .. n) -> Seq(Predictions)] : IsFoldUp(g, n, start, h)
  BY <1>1, <1>2, FoldUpExists
<1>7. g = Body(g)
  <2>1. ASSUME NEW s \in SUBSET (1 .. n)
        PROVE  g[s] = IF s = {} THEN start ELSE Spared(g[s \ {Max(s)}], ps[Max(s)], ids)
    BY <1>3, <1>5, <1>6 DEF IsFoldUp
  <2> QED BY <1>1, <1>6, <2>1
<1>8. G = Body(G)
  <2> HIDE DEF Body
  <2> QED BY <1>7
<1>9. FoldsUp(G, n, Seq(Predictions), start, h)
  <2> HIDE DEF G
  <2> QED BY <1>1, <1>3, <1>5, <1>8 DEF FoldsUp
<1>10. PICK f \in [0 .. n -> Seq(Predictions)] : ComesTo(G, f, n, start, h)
  <2> HIDE DEF G
  <2> QED BY <1>1, <1>2, <1>9, FoldUp
<1>11. IsExcept(f, ps, ids)
  <2>1. \A i \in 1 .. n : f[i - 1] \in Seq(Predictions)
    BY <1>1, <1>10
  <2> QED BY <1>3, <1>10, <2>1 DEF IsExcept, ComesTo, IsIteration, n, start
<1> QED BY <1>1, <1>4, <1>10, <1>11 DEF ComesTo, n

LEMMA ExceptIs ==
  ASSUME NEW ids, NEW ps \in Seq(Predictions),
         NEW f \in [0 .. Len(ps) -> Seq(Predictions)], IsExcept(f, ps, ids)
  PROVE  Except(ps, ids) = f[Len(ps)]
<1>1. PICK g \in [0 .. Len(ps) -> Seq(Predictions)] : IsExcept(g, ps, ids) /\ Except(ps, ids) = g[Len(ps)]
  BY ExceptIterates
<1>2. \A k \in 0 .. Len(ps) : g[k] = f[k]
  <2>1. g[0] = f[0]
    BY <1>1 DEF IsExcept
  <2>2. \A k \in 1 .. Len(ps) : g[k - 1] = f[k - 1] => g[k] = f[k]
    BY <1>1 DEF IsExcept
  <2>3. Len(ps) \in Nat
    OBVIOUS
  <2> QED BY <2>1, <2>2, <2>3, IterationsAgree, Zenon
<1> QED BY <1>1, <1>2

-----------------------------------------------------------------------------
\* What the room makes of its log, by the same recipe.
Entries == [by : Seated, id : Nat \cup {NoOne}, action : Moves]
Taken(state, entry) == Applied(state, entry.by, entry.action)
Outcome(entries) == FoldLeft(LAMBDA state, entry : Applied(state, entry.by, entry.action), FirstState, entries)

IsOutcome(f, entries) ==
  /\ f[0] = FirstState
  /\ \A i \in 1 .. Len(entries) : f[i] = Taken(f[i - 1], entries[i])

LEMMA FirstStateType == FirstState \in TableStates
BY DEF FirstState, TableStates

LEMMA TakenType ==
  ASSUME NEW s \in TableStates, NEW e \in Entries
  PROVE  Taken(s, e) \in TableStates
BY AppliedType DEF Entries, Taken

LEMMA OutcomeIterates ==
  ASSUME NEW entries \in Seq(Entries)
  PROVE  \E f \in [0 .. Len(entries) -> TableStates] : IsOutcome(f, entries) /\ Outcome(entries) = f[Len(entries)]
<1> DEFINE n == Len(entries)
           start == FirstState
           h == [x \in TableStates \X (1 .. n) |-> Taken(x[1], entries[x[2]])]
           Body(g) == [s \in SUBSET DOMAIN entries |-> IF s = {} THEN start ELSE Taken(g[s \ {Max(s)}], entries[Max(s)])]
           G == CHOOSE g : g = Body(g)
<1>1. n \in Nat /\ DOMAIN entries = 1 .. n /\ start \in TableStates /\ \A i \in 1 .. n : entries[i] \in Entries
  BY FirstStateType
<1>2. h \in [TableStates \X (1 .. n) -> TableStates]
  <2> SUFFICES ASSUME NEW x \in TableStates \X (1 .. n)
               PROVE  Taken(x[1], entries[x[2]]) \in TableStates
    OBVIOUS
  <2> QED BY <1>1, TakenType
<1>3. \A r \in TableStates, i \in 1 .. n : h[<<r, i>>] = Taken(r, entries[i])
  OBVIOUS
<1>4. Outcome(entries) = G[DOMAIN entries]
  BY DEF Outcome, Taken, FoldLeft, MapThenFoldSet
<1> HIDE DEF h, n, start
<1>5. ASSUME NEW s \in SUBSET (1 .. n), s # {}
      PROVE  Max(s) \in 1 .. n
  BY <1>1, <1>5, GreatestOf
<1>6. PICK g \in [SUBSET (1 .. n) -> TableStates] : IsFoldUp(g, n, start, h)
  BY <1>1, <1>2, FoldUpExists
<1>7. g = Body(g)
  <2>1. ASSUME NEW s \in SUBSET (1 .. n)
        PROVE  g[s] = IF s = {} THEN start ELSE Taken(g[s \ {Max(s)}], entries[Max(s)])
    BY <1>3, <1>5, <1>6 DEF IsFoldUp
  <2> QED BY <1>1, <1>6, <2>1
<1>8. G = Body(G)
  <2> HIDE DEF Body
  <2> QED BY <1>7
<1>9. FoldsUp(G, n, TableStates, start, h)
  <2> HIDE DEF G
  <2> QED BY <1>1, <1>3, <1>5, <1>8 DEF FoldsUp
<1>10. PICK f \in [0 .. n -> TableStates] : ComesTo(G, f, n, start, h)
  <2> HIDE DEF G
  <2> QED BY <1>1, <1>2, <1>9, FoldUp
<1>11. IsOutcome(f, entries)
  <2>1. \A i \in 1 .. n : f[i - 1] \in TableStates
    BY <1>1, <1>10
  <2> QED BY <1>3, <1>10, <2>1 DEF IsOutcome, ComesTo, IsIteration, n, start
<1> QED BY <1>1, <1>4, <1>10, <1>11 DEF ComesTo, n

LEMMA OutcomeIs ==
  ASSUME NEW entries \in Seq(Entries),
         NEW f \in [0 .. Len(entries) -> TableStates], IsOutcome(f, entries)
  PROVE  Outcome(entries) = f[Len(entries)]
<1>1. PICK g \in [0 .. Len(entries) -> TableStates] : IsOutcome(g, entries) /\ Outcome(entries) = g[Len(entries)]
  BY OutcomeIterates
<1>2. \A k \in 0 .. Len(entries) : g[k] = f[k]
  <2>1. g[0] = f[0]
    BY <1>1 DEF IsOutcome
  <2>2. \A k \in 1 .. Len(entries) : g[k - 1] = f[k - 1] => g[k] = f[k]
    BY <1>1 DEF IsOutcome
  <2>3. Len(entries) \in Nat
    OBVIOUS
  <2> QED BY <2>1, <2>2, <2>3, IterationsAgree, Zenon
<1> QED BY <1>1, <1>2

-----------------------------------------------------------------------------
LEMMA OutcomeOfNone == Outcome(<< >>) = FirstState
<1>1. << >> \in Seq(Entries) /\ Len(<< >>) = 0
  OBVIOUS
<1>2. PICK f \in [0 .. 0 -> TableStates] : IsOutcome(f, << >>) /\ Outcome(<< >>) = f[0]
  BY <1>1, OutcomeIterates
<1> QED BY <1>2 DEF IsOutcome

LEMMA OutcomeType ==
  ASSUME NEW entries \in Seq(Entries)
  PROVE  Outcome(entries) \in TableStates
BY OutcomeIterates

LEMMA OutcomeOfOneMore ==
  ASSUME NEW entries \in Seq(Entries), NEW e \in Entries
  PROVE  Outcome(Append(entries, e)) = Taken(Outcome(entries), e)
<1> DEFINE n == Len(entries)
           more == Append(entries, e)
<1>1. more \in Seq(Entries) /\ Len(more) = n + 1 /\ more[n + 1] = e /\ n \in Nat /\ \A i \in 1 .. n : more[i] = entries[i]
  OBVIOUS
<1> HIDE DEF more
<1>2. PICK f \in [0 .. n + 1 -> TableStates] : IsOutcome(f, more) /\ Outcome(more) = f[n + 1]
  BY <1>1, OutcomeIterates
<1> DEFINE g == [i \in 0 .. n |-> f[i]]
<1>3. g \in [0 .. n -> TableStates] /\ IsOutcome(g, entries)
  BY <1>1, <1>2 DEF IsOutcome
<1>4. Outcome(entries) = f[n]
  BY <1>1, <1>3, OutcomeIs
<1> QED BY <1>1, <1>2, <1>4 DEF IsOutcome, more

-----------------------------------------------------------------------------
\* qs is made of some of the first k of ps, in their order.
InOrder(ps) == \A i, j \in 1 .. Len(ps) : i < j => ps[i].id < ps[j].id

Thins(qs, ps, k) ==
  /\ qs \in Seq(Predictions) /\ Len(qs) <= k
  /\ \A i \in 1 .. Len(qs) : \E j \in 1 .. k : qs[i] = ps[j]
  /\ InOrder(ps) => InOrder(qs)
  /\ Len(qs) = k => \A i \in 1 .. k : qs[i] = ps[i]

LEMMA ThinsMore ==
  ASSUME NEW ps \in Seq(Predictions), NEW k \in Nat, k < Len(ps), NEW qs, Thins(qs, ps, k)
  PROVE  Thins(qs, ps, k + 1) /\ Thins(Append(qs, ps[k + 1]), ps, k + 1)
<1> DEFINE p == ps[k + 1]
           rs == Append(qs, p)
<1>1. k + 1 \in 1 .. Len(ps) /\ p \in Predictions /\ qs \in Seq(Predictions) /\ Len(qs) \in Nat /\ Len(qs) <= k
  BY DEF Thins
<1>2. rs \in Seq(Predictions) /\ Len(rs) = Len(qs) + 1 /\ rs[Len(qs) + 1] = p /\ \A i \in 1 .. Len(qs) : rs[i] = qs[i]
  BY <1>1
<1>3. Thins(qs, ps, k + 1)
  BY <1>1 DEF Thins
<1> HIDE DEF rs
<1>4. \A i \in 1 .. Len(rs) : \E j \in 1 .. k + 1 : rs[i] = ps[j]
  BY <1>1, <1>2 DEF Thins
<1>5. ASSUME InOrder(ps), NEW i \in 1 .. Len(rs), NEW j \in 1 .. Len(rs), i < j
      PROVE  rs[i].id < rs[j].id
  <2>1. CASE j <= Len(qs)
    <3>1. InOrder(qs)
      BY <1>5 DEF Thins
    <3>2. i \in 1 .. Len(qs) /\ j \in 1 .. Len(qs)
      BY <1>1, <1>2, <1>5, <2>1
    <3>3. qs[i].id < qs[j].id
      BY <1>5, <3>1, <3>2 DEF InOrder
    <3> QED BY <1>2, <3>2, <3>3
  <2>2. CASE j = Len(qs) + 1
    <3>1. PICK l \in 1 .. k : qs[i] = ps[l]
      BY <1>1, <1>2, <1>5, <2>2 DEF Thins
    <3>2. l \in 1 .. Len(ps) /\ l < k + 1
      BY <1>1
    <3>3. ps[l].id < p.id
      BY <1>1, <1>5, <3>2 DEF InOrder
    <3> QED BY <1>1, <1>2, <1>5, <2>2, <3>1, <3>3
  <2> QED BY <1>1, <1>2, <2>1, <2>2
<1>6. Len(rs) = k + 1 => \A i \in 1 .. k + 1 : rs[i] = ps[i]
  BY <1>1, <1>2 DEF Thins
<1>7. InOrder(ps) => InOrder(rs)
  BY <1>5 DEF InOrder
<1>8. Thins(rs, ps, k + 1)
  BY <1>1, <1>2, <1>4, <1>6, <1>7 DEF Thins
<1> QED BY <1>3, <1>8 DEF rs

LEMMA ThinsNone ==
  ASSUME NEW ps
  PROVE  Thins(<< >>, ps, 0)
BY DEF Thins, InOrder

LEMMA ReplayThins ==
  ASSUME NEW base \in TableStates, NEW ps \in Seq(Predictions)
  PROVE  Thins(Replay(base, ps).kept, ps, Len(ps))
<1> DEFINE n == Len(ps)
<1>1. PICK f \in [0 .. n -> Replays] : IsReplay(f, base, ps) /\ Replay(base, ps) = f[n]
  BY ReplayIterates
<1> DEFINE S == {k \in 0 .. n : Thins(f[k].kept, ps, k)}
<1>2. 0 \in S
  BY <1>1, ThinsNone DEF IsReplay
<1>3. ASSUME NEW k \in 0 .. n - 1, k \in S
      PROVE  k + 1 \in S
  <2>1. k + 1 \in 1 .. n /\ (k + 1) - 1 = k /\ k + 1 \in 0 .. n /\ k \in Nat /\ k < n
    OBVIOUS
  <2>2. f[k + 1] = Judged(f[k], ps[k + 1]) /\ Thins(f[k].kept, ps, k)
    BY <1>1, <1>3, <2>1 DEF IsReplay
  <2>3. f[k + 1].kept = f[k].kept \/ f[k + 1].kept = Append(f[k].kept, ps[k + 1])
    BY <2>2 DEF Judged
  <2>4. Thins(f[k].kept, ps, k + 1) /\ Thins(Append(f[k].kept, ps[k + 1]), ps, k + 1)
    BY <2>1, <2>2, ThinsMore
  <2> QED BY <2>1, <2>3, <2>4
<1> HIDE DEF S
<1>4. \A k \in 0 .. n : k \in S
  <2>1. n \in Nat
    OBVIOUS
  <2> QED BY <1>2, <1>3, <2>1, UpTo, Zenon
<1> QED BY <1>1, <1>4 DEF S

LEMMA ExceptThins ==
  ASSUME NEW ids, NEW ps \in Seq(Predictions)
  PROVE  Thins(Except(ps, ids), ps, Len(ps))
<1> DEFINE n == Len(ps)
<1>1. PICK f \in [0 .. n -> Seq(Predictions)] : IsExcept(f, ps, ids) /\ Except(ps, ids) = f[n]
  BY ExceptIterates
<1> DEFINE S == {k \in 0 .. n : Thins(f[k], ps, k)}
<1>2. 0 \in S
  BY <1>1, ThinsNone DEF IsExcept
<1>3. ASSUME NEW k \in 0 .. n - 1, k \in S
      PROVE  k + 1 \in S
  <2>1. k + 1 \in 1 .. n /\ (k + 1) - 1 = k /\ k + 1 \in 0 .. n /\ k \in Nat /\ k < n
    OBVIOUS
  <2>2. f[k + 1] = Spared(f[k], ps[k + 1], ids) /\ Thins(f[k], ps, k)
    BY <1>1, <1>3, <2>1 DEF IsExcept
  <2>3. Thins(f[k], ps, k + 1) /\ Thins(Append(f[k], ps[k + 1]), ps, k + 1)
    BY <2>1, <2>2, ThinsMore
  <2> QED BY <2>1, <2>2, <2>3 DEF Spared
<1> HIDE DEF S
<1>4. \A k \in 0 .. n : k \in S
  <2>1. n \in Nat
    OBVIOUS
  <2> QED BY <1>2, <1>3, <2>1, UpTo, Zenon
<1> QED BY <1>1, <1>4 DEF S

LEMMA ExceptIds ==
  ASSUME NEW ids, NEW ps \in Seq(Predictions)
  PROVE  Ids(Except(ps, ids)) = Ids(ps) \ ids
<1> DEFINE n == Len(ps)
<1>1. PICK f \in [0 .. n -> Seq(Predictions)] : IsExcept(f, ps, ids) /\ Except(ps, ids) = f[n]
  BY ExceptIterates
<1> DEFINE First(k) == {ps[i].id : i \in 1 .. k}
           S == {k \in 0 .. n : Ids(f[k]) = First(k) \ ids}
<1>2. 0 \in S
  BY <1>1 DEF IsExcept, Ids
<1>3. ASSUME NEW k \in 0 .. n - 1, k \in S
      PROVE  k + 1 \in S
  <2>1. k + 1 \in 1 .. n /\ (k + 1) - 1 = k /\ k + 1 \in 0 .. n /\ k \in 0 .. n
    OBVIOUS
  <2>2. f[k + 1] = Spared(f[k], ps[k + 1], ids) /\ Ids(f[k]) = First(k) \ ids
    BY <1>1, <1>3, <2>1 DEF IsExcept
  <2>3. First(k + 1) = First(k) \cup {ps[k + 1].id}
    OBVIOUS
  <2>4. f[k] \in Seq(Predictions)
    BY <1>1, <2>1
  <2>5. Ids(Append(f[k], ps[k + 1])) = Ids(f[k]) \cup {ps[k + 1].id}
    <3> DEFINE s == f[k]
               a == Append(s, ps[k + 1])
    <3>1. DOMAIN s = 1 .. Len(s) /\ DOMAIN a = 1 .. Len(s) + 1 /\ Len(s) \in Nat
          /\ a[Len(s) + 1] = ps[k + 1] /\ \A i \in 1 .. Len(s) : a[i] = s[i]
      BY <2>4
    <3> HIDE DEF s, a
    <3>2. Ids(a) = Ids(s) \cup {ps[k + 1].id}
      BY <3>1 DEF Ids
    <3> QED BY <3>2 DEF s, a
  <2> HIDE DEF First
  <2>6. Ids(f[k + 1]) = First(k + 1) \ ids
    BY <2>2, <2>3, <2>5 DEF Spared
  <2> QED BY <2>1, <2>6
<1>4. Ids(ps) = First(n)
  BY DEF Ids
<1> HIDE DEF S, First
<1>5. \A k \in 0 .. n : k \in S
  <2>1. n \in Nat
    OBVIOUS
  <2> QED BY <1>2, <1>3, <2>1, UpTo, Zenon
<1> QED BY <1>1, <1>4, <1>5 DEF S

\* The answer to the first of several requests leaves the others.
LEMMA ExceptFirst ==
  ASSUME NEW ps \in Seq(Predictions), ps # << >>, InOrder(ps)
  PROVE  Except(ps, {ps[1].id}) = Tail(ps)
<1> DEFINE n == Len(ps)
           f == [i \in 0 .. n |-> IF i = 0 THEN << >> ELSE SubSeq(ps, 2, i)]
<1>1. n \in Nat \ {0} /\ Tail(ps) = SubSeq(ps, 2, n)
  OBVIOUS
<1>2. f \in [0 .. n -> Seq(Predictions)]
  OBVIOUS
<1>3. f[0] = << >>
  OBVIOUS
<1>4. ASSUME NEW i \in 1 .. n
      PROVE  f[i] = Spared(f[i - 1], ps[i], {ps[1].id})
  <2>1. CASE i = 1
    BY <2>1 DEF Spared
  <2>2. CASE i > 1
    <3>1. 1 \in 1 .. n /\ ps[1] \in Predictions /\ ps[i] \in Predictions
      BY <1>1
    <3>2. ps[1].id < ps[i].id /\ ps[1].id \in Nat /\ ps[i].id \in Nat
      BY <2>2, <3>1 DEF InOrder, Predictions
    <3>3. ps[i].id # ps[1].id
      BY <3>2
    <3>4. SubSeq(ps, 2, i) = Append(SubSeq(ps, 2, i - 1), ps[i])
      BY <2>2
    <3>5. i \in 0 .. n /\ i - 1 \in 0 .. n /\ i # 0 /\ i - 1 # 0
      BY <2>2
    <3>6. f[i] = SubSeq(ps, 2, i) /\ f[i - 1] = SubSeq(ps, 2, i - 1)
      BY <3>5
    <3> HIDE DEF f
    <3> QED BY <3>3, <3>4, <3>6 DEF Spared
  <2> QED BY <2>1, <2>2
<1> HIDE DEF f
<1>5. IsExcept(f, ps, {ps[1].id})
  BY <1>3, <1>4 DEF IsExcept
<1>6. Except(ps, {ps[1].id}) = f[n]
  BY <1>2, <1>5, ExceptIs
<1>7. f[n] = SubSeq(ps, 2, n)
  BY <1>1 DEF f
<1> QED BY <1>1, <1>6, <1>7

\* A prediction that is accepted first of all might as well be in the base.
LEMMA ReplayOfFirst ==
  ASSUME NEW base \in TableStates, NEW ps \in Seq(Predictions), ps # << >>, Accepts(base, Me, ps[1].action)
  PROVE  Replay(base, ps).state = Replay(Applied(base, Me, ps[1].action), Tail(ps)).state
<1> DEFINE n == Len(ps)
           qs == Tail(ps)
           next == Applied(base, Me, ps[1].action)
<1>1. n \in Nat \ {0} /\ qs \in Seq(Predictions) /\ Len(qs) = n - 1 /\ \A i \in 1 .. n - 1 : qs[i] = ps[i + 1]
  OBVIOUS
<1>2. ps[1] \in Predictions /\ next \in TableStates
  <2>1. ps[1] \in Predictions
    BY <1>1
  <2>2. ps[1].action \in Moves /\ Me \in Seated
    BY <2>1 DEF Predictions, Seated
  <2> QED BY <2>1, <2>2, AppliedType
<1> HIDE DEF qs, next
<1>3. PICK f \in [0 .. n - 1 -> Replays] : IsReplay(f, next, qs) /\ Replay(next, qs) = f[n - 1]
  BY <1>1, <1>2, ReplayIterates
<1> DEFINE g == [i \in 0 .. n |-> IF i = 0 THEN [state |-> base, kept |-> << >>]
                                  ELSE [state |-> f[i - 1].state, kept |-> <<ps[1]>> \o f[i - 1].kept]]
<1>4. g \in [0 .. n -> Replays]
  <2>1. \A i \in 0 .. n - 1 : f[i].state \in TableStates /\ <<ps[1]>> \o f[i].kept \in Seq(Predictions)
    BY <1>2, <1>3 DEF Replays
  <2>2. [state |-> base, kept |-> << >>] \in Replays
    BY DEF Replays
  <2>3. \A i \in 0 .. n : i # 0 => i - 1 \in 0 .. n - 1
    OBVIOUS
  <2> QED BY <2>1, <2>2, <2>3 DEF Replays
<1>5. g[0] = [state |-> base, kept |-> << >>]
  BY <1>1
<1>6. ASSUME NEW i \in 1 .. n
      PROVE  g[i] = Judged(g[i - 1], ps[i])
  <2>1. CASE i = 1
    <3>1. f[0] = [state |-> next, kept |-> << >>]
      BY <1>3 DEF IsReplay
    <3>2. <<ps[1]>> \o << >> = <<ps[1]>> /\ Append(<< >>, ps[1]) = <<ps[1]>>
      BY <1>2
    <3>3. f[0].state = next /\ f[0].kept = << >> /\ 1 - 1 = 0 /\ 1 \in 0 .. n /\ 1 # 0
      BY <1>1, <3>1
    <3>4. g[1] = [state |-> f[1 - 1].state, kept |-> <<ps[1]>> \o f[1 - 1].kept]
      BY <3>3
    <3>5. g[1] = [state |-> next, kept |-> <<ps[1]>>]
      BY <3>2, <3>3, <3>4
    <3>6. Judged([state |-> base, kept |-> << >>], ps[1]) = [state |-> next, kept |-> <<ps[1]>>]
      BY <3>2 DEF Judged, next
    <3> HIDE DEF g
    <3> QED BY <1>5, <2>1, <3>5, <3>6
  <2>2. CASE i > 1
    <3>1. i - 1 \in 1 .. n - 1 /\ (i - 1) + 1 = i /\ i - 1 \in 0 .. n /\ i - 1 # 0 /\ (i - 1) - 1 = i - 2 /\ i - 2 \in 0 .. n - 1
      BY <1>1, <2>2
    <3>2. f[i - 1] = Judged(f[i - 2], ps[i])
      BY <1>1, <1>3, <3>1 DEF IsReplay
    <3>3. g[i] = [state |-> f[i - 1].state, kept |-> <<ps[1]>> \o f[i - 1].kept]
          /\ g[i - 1] = [state |-> f[i - 2].state, kept |-> <<ps[1]>> \o f[i - 2].kept]
      <4>1. g[i] = [state |-> f[i - 1].state, kept |-> <<ps[1]>> \o f[i - 1].kept]
        BY <2>2
      <4>2. g[i - 1] = [state |-> f[(i - 1) - 1].state, kept |-> <<ps[1]>> \o f[(i - 1) - 1].kept]
        BY <3>1
      <4>3. f[(i - 1) - 1] = f[i - 2]
        BY <3>1
      <4> HIDE DEF g
      <4> QED BY <4>1, <4>2, <4>3
    <3>4. f[i - 2].kept \in Seq(Predictions) /\ ps[i] \in Predictions
      BY <1>3, <3>1 DEF Replays
    <3>5. <<ps[1]>> \o Append(f[i - 2].kept, ps[i]) = Append(<<ps[1]>> \o f[i - 2].kept, ps[i])
      <4>1. <<ps[1]>> \in Seq(Predictions) /\ <<ps[i]>> \in Seq(Predictions) /\ <<ps[1]>> \o f[i - 2].kept \in Seq(Predictions)
        BY <1>2, <3>4
      <4> DEFINE a == <<ps[1]>>
                 k == f[i - 2].kept
                 c == <<ps[i]>>
      <4>2. a \in Seq(Predictions) /\ k \in Seq(Predictions) /\ c \in Seq(Predictions) /\ a \o k \in Seq(Predictions)
        BY <3>4, <4>1
      <4>3. Append(k, ps[i]) = k \o c /\ Append(a \o k, ps[i]) = (a \o k) \o c
        <5> HIDE DEF a, k
        <5> QED BY <3>4, <4>2, AppendIsConcat
      <4> HIDE DEF a, k, c
      <4>4. (a \o k) \o c = a \o (k \o c)
        <5> DEFINE l == (a \o k) \o c
                   r == a \o (k \o c)
        <5>1. l \in Seq(Predictions) /\ r \in Seq(Predictions) /\ Len(l) = Len(r)
          BY <4>2
        <5>2. \A m \in 1 .. Len(l) : l[m] = r[m]
          BY <4>2
        <5> HIDE DEF l, r
        <5>3. l = r
          BY <5>1, <5>2, SeqEqual
        <5> QED BY <5>3 DEF l, r
      <4>5. a \o Append(k, ps[i]) = Append(a \o k, ps[i])
        BY <4>3, <4>4
      <4> QED BY <4>5 DEF a, k
    <3>6. g[i - 1].state = f[i - 2].state /\ g[i - 1].kept = <<ps[1]>> \o f[i - 2].kept
      <4> HIDE DEF g
      <4> QED BY <3>3
    <3>7. f[i - 2] = [state |-> f[i - 2].state, kept |-> f[i - 2].kept]
      BY <1>3, <3>1 DEF Replays
    <3> HIDE DEF g
    <3>8. CASE Accepts(f[i - 2].state, Me, ps[i].action)
      <4>1. f[i - 1].state = Applied(f[i - 2].state, Me, ps[i].action) /\ f[i - 1].kept = Append(f[i - 2].kept, ps[i])
        BY <3>2, <3>8 DEF Judged
      <4>2. Judged(g[i - 1], ps[i]) = [state |-> Applied(f[i - 2].state, Me, ps[i].action), kept |-> Append(<<ps[1]>> \o f[i - 2].kept, ps[i])]
        BY <3>6, <3>8 DEF Judged
      <4> QED BY <3>3, <3>5, <4>1, <4>2
    <3>9. CASE ~ Accepts(f[i - 2].state, Me, ps[i].action)
      BY <3>2, <3>3, <3>6, <3>9 DEF Judged
    <3> QED BY <3>8, <3>9
  <2> QED BY <2>1, <2>2
<1> HIDE DEF g
<1>7. IsReplay(g, base, ps)
  BY <1>5, <1>6 DEF IsReplay
<1>8. Replay(base, ps) = g[n]
  BY <1>4, <1>7, ReplayIs
<1>9. g[n].state = f[n - 1].state
  BY <1>1 DEF g
<1> QED BY <1>3, <1>8, <1>9 DEF qs, next
-----------------------------------------------------------------------------
LedgerTyped ==
  /\ sequenced \in Seq(Entries) /\ outbox \in Seq(Predictions)
  /\ connection \in {"down", "loading", "live", "ended"}
  /\ pos \in 0 .. Len(sequenced)
  /\ confirmed \in TableStates /\ displayed \in TableStates
  /\ ledger \in Seq(Predictions) /\ pending \in SUBSET Nat
  /\ made \in Nat /\ told \in BOOLEAN

\* What this client asks is numbered, and reaches the room in that order.
LogInOrder ==
  /\ \A i \in 1 .. Len(sequenced) :
       IF sequenced[i].by = Me THEN sequenced[i].id \in 1 .. made ELSE sequenced[i].id = NoOne
  /\ \A i, j \in 1 .. Len(sequenced) :
       i < j /\ sequenced[i].by = Me /\ sequenced[j].by = Me => sequenced[i].id < sequenced[j].id
OutboxInOrder ==
  /\ InOrder(outbox) /\ \A j \in 1 .. Len(outbox) : outbox[j].id \in 1 .. made
  /\ \A i \in 1 .. Len(sequenced), j \in 1 .. Len(outbox) :
       sequenced[i].by = Me => sequenced[i].id < outbox[j].id
LedgerInOrder ==
  /\ InOrder(ledger) /\ \A k \in 1 .. Len(ledger) : ledger[k].id \in 1 .. made

\* What it predicts is what it asked.
LedgerIsAsked ==
  \A k \in 1 .. Len(ledger) :
    /\ \A i \in 1 .. Len(sequenced) : sequenced[i].id = ledger[k].id => sequenced[i].action = ledger[k].action
    /\ \A j \in 1 .. Len(outbox) : outbox[j].id = ledger[k].id => outbox[j].action = ledger[k].action

LedgerInv ==
  /\ LedgerTyped /\ DisplayIsReplay /\ PendingWillBeAnswered
  /\ LogInOrder /\ OutboxInOrder /\ LedgerInOrder /\ LedgerIsAsked

-----------------------------------------------------------------------------
LEMMA AppendFacts ==
  ASSUME NEW ps \in Seq(Predictions), NEW p \in Predictions
  PROVE  /\ Append(ps, p) \in Seq(Predictions) /\ Len(Append(ps, p)) = Len(ps) + 1 /\ Len(ps) \in Nat
         /\ Append(ps, p)[Len(ps) + 1] = p /\ \A i \in 1 .. Len(ps) : Append(ps, p)[i] = ps[i]
         /\ Ids(Append(ps, p)) = Ids(ps) \cup {p.id}
         /\ InOrder(ps) /\ (\A i \in 1 .. Len(ps) : ps[i].id < p.id) => InOrder(Append(ps, p))
<1> DEFINE qs == Append(ps, p)
<1>1. qs \in Seq(Predictions) /\ Len(qs) = Len(ps) + 1 /\ Len(ps) \in Nat /\ qs[Len(ps) + 1] = p
      /\ (\A i \in 1 .. Len(ps) : qs[i] = ps[i]) /\ DOMAIN ps = 1 .. Len(ps) /\ DOMAIN qs = 1 .. Len(ps) + 1
  OBVIOUS
<1> HIDE DEF qs
<1>2. Ids(qs) = Ids(ps) \cup {p.id}
  BY <1>1 DEF Ids
<1>3. ASSUME InOrder(ps), \A i \in 1 .. Len(ps) : ps[i].id < p.id
      PROVE  InOrder(qs)
  <2> SUFFICES ASSUME NEW i \in 1 .. Len(qs), NEW j \in 1 .. Len(qs), i < j
               PROVE  qs[i].id < qs[j].id
    BY DEF InOrder
  <2>1. i \in 1 .. Len(ps) /\ (j \in 1 .. Len(ps) \/ j = Len(ps) + 1)
    BY <1>1
  <2>2. CASE j \in 1 .. Len(ps)
    BY <1>1, <1>3, <2>1, <2>2 DEF InOrder
  <2>3. CASE j = Len(ps) + 1
    BY <1>1, <1>3, <2>1, <2>3
  <2> QED BY <2>1, <2>2, <2>3
<1> QED BY <1>1, <1>2, <1>3 DEF qs

LEMMA StateAfterFacts ==
  ASSUME NEW n \in 0 .. Len(sequenced), sequenced \in Seq(Entries)
  PROVE  /\ StateAfter(n) = Outcome(SubSeq(sequenced, 1, n)) /\ StateAfter(n) \in TableStates
         /\ n < Len(sequenced) => StateAfter(n + 1) = Taken(StateAfter(n), sequenced[n + 1])
<1>1. \A m \in 0 .. Len(sequenced) : SubSeq(sequenced, 1, m) \in Seq(Entries)
  OBVIOUS
<1>2. \A m : StateAfter(m) = Outcome(SubSeq(sequenced, 1, m))
  BY DEF StateAfter, Outcome
<1>3. ASSUME n < Len(sequenced)
      PROVE  StateAfter(n + 1) = Taken(StateAfter(n), sequenced[n + 1])
  <2>1. SubSeq(sequenced, 1, n + 1) = Append(SubSeq(sequenced, 1, n), sequenced[n + 1]) /\ sequenced[n + 1] \in Entries
    BY <1>3
  <2> QED BY <1>1, <1>2, <2>1, OutcomeOfOneMore
<1> QED BY <1>1, <1>2, <1>3, OutcomeType

LEMMA StateAfterPrimed ==
  /\ pos' = pos /\ sequenced' = sequenced => StateAfter(pos)' = StateAfter(pos)
  /\ (\A m : StateAfter(m)' = StateAfter(m)) => StateAfter(pos)' = StateAfter(pos')
<1>1. ASSUME pos' = pos, sequenced' = sequenced
      PROVE  StateAfter(pos)' = StateAfter(pos)
  BY <1>1 DEF StateAfter, FoldLeft, MapThenFoldSet
<1>2. ASSUME \A m : StateAfter(m)' = StateAfter(m)
      PROVE  StateAfter(pos)' = StateAfter(pos')
  BY <1>2 DEF StateAfter, FoldLeft, MapThenFoldSet
<1> QED BY <1>1, <1>2

\* What is on display is what replay makes of a ledger that it keeps.
LEMMA ReplayShown ==
  ASSUME NEW base \in TableStates, NEW ps \in Seq(Predictions)
  PROVE  LET r == Replay(base, ps) IN
         /\ r.state \in TableStates /\ r.kept \in Seq(Predictions) /\ Len(r.kept) <= Len(ps)
         /\ Replay(base, r.kept) = [state |-> r.state, kept |-> r.kept]
         /\ Ids(r.kept) \subseteq Ids(ps)
         /\ \A i \in 1 .. Len(r.kept) : \E j \in 1 .. Len(ps) : r.kept[i] = ps[j]
         /\ InOrder(ps) => InOrder(r.kept)
         /\ Len(r.kept) = Len(ps) => r.kept = ps
<1> DEFINE r == Replay(base, ps)
<1>1. r \in Replays
  BY ReplayType
<1>2. r.state \in TableStates /\ r.kept \in Seq(Predictions) /\ r = [state |-> r.state, kept |-> r.kept]
  BY <1>1 DEF Replays
<1>3. Replay(base, r.kept) = r
  BY ReplayOfKept
<1>4. Thins(r.kept, ps, Len(ps))
  BY ReplayThins
<1> HIDE DEF r
<1>5. Len(r.kept) = Len(ps) => r.kept = ps
  BY <1>2, <1>4, SeqEqual DEF Thins
<1>6. Ids(r.kept) \subseteq Ids(ps)
  BY <1>2, <1>4 DEF Thins, Ids
<1>7. Len(r.kept) <= Len(ps) /\ (\A i \in 1 .. Len(r.kept) : \E j \in 1 .. Len(ps) : r.kept[i] = ps[j])
      /\ (InOrder(ps) => InOrder(r.kept))
  BY <1>4 DEF Thins
<1>8. Replay(base, r.kept) = [state |-> r.state, kept |-> r.kept]
  BY <1>2, <1>3
<1> QED BY <1>2, <1>5, <1>6, <1>7, <1>8 DEF r

LEMMA ExceptFacts ==
  ASSUME NEW ids, NEW ps \in Seq(Predictions)
  PROVE  LET e == Except(ps, ids) IN
         /\ e \in Seq(Predictions) /\ Ids(e) = Ids(ps) \ ids
         /\ \A i \in 1 .. Len(e) : \E j \in 1 .. Len(ps) : e[i] = ps[j]
         /\ InOrder(ps) => InOrder(e)
<1>1. Thins(Except(ps, ids), ps, Len(ps))
  BY ExceptThins
<1> QED BY <1>1, ExceptIds DEF Thins

LEMMA LedgerStarts ==
  ASSUME LedgerInit
  PROVE  LedgerInv
<1> USE DEF LedgerInit
<1>1. LedgerTyped
  <2>1. << >> \in Seq(Entries) /\ << >> \in Seq(Predictions) /\ 0 \in 0 .. Len(<< >>)
    OBVIOUS
  <2>2. {} \in SUBSET Nat /\ 0 \in Nat
    OBVIOUS
  <2> QED BY <2>1, <2>2, FirstStateType DEF LedgerTyped
<1>2. DisplayIsReplay
  <2>1. StateAfter(0) = FirstState
    <3>1. << >> \in Seq(Entries) /\ SubSeq(sequenced, 1, 0) = << >>
      OBVIOUS
    <3> QED BY <3>1, OutcomeOfNone DEF StateAfter, Outcome
  <2> QED BY <2>1, FirstStateType, ReplayOfNone DEF DisplayIsReplay
<1> QED BY <1>1, <1>2
        DEF LedgerInv, PendingWillBeAnswered, LogInOrder, OutboxInOrder, LedgerInOrder, LedgerIsAsked, InOrder, Ids

\* A request keeps the invariant.
LEMMA SendKeeps ==
  ASSUME LedgerInv, NEW a \in Moves, SendAction(a)
  PROVE  LedgerInv'
<1> DEFINE id == made + 1
           p == [id |-> id, action |-> a]
           refused == Predictable(a) /\ ~Accepts(displayed, Me, a)
<1>1. /\ made' = id /\ UNCHANGED <<sequenced, connection, pos, confirmed>> /\ told' = refused
      /\ made \in Nat /\ id \in Nat /\ p \in Predictions /\ id \in 1 .. made' /\ 1 .. made \subseteq 1 .. made'
      /\ \A m \in 1 .. made : m < id
  BY DEF LedgerInv, LedgerTyped, SendAction, Predictions
<1>2. /\ outbox \in Seq(Predictions) /\ ledger \in Seq(Predictions) /\ sequenced \in Seq(Entries)
      /\ displayed \in TableStates /\ confirmed \in TableStates /\ pending \in SUBSET Nat /\ told' \in BOOLEAN
  BY <1>1 DEF LedgerInv, LedgerTyped
<1>3. \/ outbox' = outbox /\ displayed' = displayed /\ ledger' = ledger /\ pending' = pending
      \/ outbox' = Append(outbox, p) /\ pending' = pending \cup {id} /\ displayed' = displayed /\ ledger' = ledger
      \/ /\ outbox' = Append(outbox, p) /\ pending' = pending \cup {id} /\ Accepts(displayed, Me, a)
         /\ displayed' = Applied(displayed, Me, a) /\ ledger' = Append(ledger, p)
  BY DEF SendAction
<1> HIDE DEF refused
<1>12. /\ Append(outbox, p) \in Seq(Predictions) /\ Len(Append(outbox, p)) = Len(outbox) + 1 /\ Len(outbox) \in Nat
       /\ Append(outbox, p)[Len(outbox) + 1] = p /\ \A i \in 1 .. Len(outbox) : Append(outbox, p)[i] = outbox[i]
       /\ DOMAIN outbox = 1 .. Len(outbox) /\ DOMAIN Append(outbox, p) = 1 .. Len(outbox) + 1
  BY <1>1, <1>2
<1>13. /\ Append(ledger, p) \in Seq(Predictions) /\ Len(Append(ledger, p)) = Len(ledger) + 1 /\ Len(ledger) \in Nat
       /\ Append(ledger, p)[Len(ledger) + 1] = p /\ \A i \in 1 .. Len(ledger) : Append(ledger, p)[i] = ledger[i]
       /\ Ids(Append(ledger, p)) = Ids(ledger) \cup {id}
  <2>1. p.id = id
    OBVIOUS
  <2> HIDE DEF p
  <2> QED BY <1>1, <1>2, <2>1, AppendFacts
<1>4. Applied(displayed, Me, a) \in TableStates
  BY <1>2, AppliedType DEF Seated
<1>5. LedgerTyped'
  BY <1>1, <1>2, <1>3, <1>4, AppendFacts DEF LedgerInv, LedgerTyped
<1>6. DisplayIsReplay'
  <2>1. confirmed' = StateAfter(pos)'
    <3>1. sequenced' = sequenced /\ pos' = pos
      BY <1>1
    <3>2. StateAfter(pos)' = StateAfter(pos)
      <4>1. StateAfter(pos)' = Outcome(SubSeq(sequenced', 1, pos')) /\ StateAfter(pos) = Outcome(SubSeq(sequenced, 1, pos))
        BY DEF StateAfter, Outcome, FoldLeft, MapThenFoldSet
      <4> QED BY <3>1, <4>1
    <3> QED BY <1>1, <3>2 DEF LedgerInv, DisplayIsReplay
  <2>2. Replay(confirmed, ledger) = [state |-> displayed, kept |-> ledger]
    BY DEF LedgerInv, DisplayIsReplay
  <2>3. Accepts(displayed, Me, a) => Replay(confirmed, Append(ledger, p)) = [state |-> Applied(displayed, Me, a), kept |-> Append(ledger, p)]
    <3>1. Replay(confirmed, Append(ledger, p)) = Judged([state |-> displayed, kept |-> ledger], p)
      BY <1>1, <1>2, <2>2, ReplayOfOneMore
    <3> QED BY <3>1 DEF Judged
  <2>4. Replay(confirmed', ledger') = [state |-> displayed', kept |-> ledger']
    BY <1>1, <1>3, <2>2, <2>3
  <2> QED BY <2>1, <2>4 DEF DisplayIsReplay
<1>7. PendingWillBeAnswered'
  <2>1. Ids(ledger') \subseteq pending'
    <3>1. Ids(ledger) \subseteq pending
      BY DEF LedgerInv, PendingWillBeAnswered
    <3>2. CASE ledger' = ledger
      <4>1. Ids(ledger') = Ids(ledger)
        BY <3>2 DEF Ids
      <4> QED BY <1>3, <3>1, <4>1
    <3>3. CASE ledger' = Append(ledger, p) /\ pending' = pending \cup {id}
      <4>1. Ids(ledger') = Ids(Append(ledger, p))
        BY <3>3 DEF Ids
      <4> HIDE DEF p, id
      <4>2. Ids(Append(ledger, p)) = Ids(ledger) \cup {id} /\ pending' = pending \cup {id}
        BY <1>13, <3>3, Zenon
      <4> QED BY ONLY <3>1, <4>1, <4>2
    <3> QED BY <1>3, <3>2, <3>3
  <2>2. ASSUME NEW m \in pending'
        PROVE  (\E i \in DOMAIN outbox' : outbox'[i].id = m) \/ (\E i \in pos' + 1 .. Len(sequenced') : sequenced'[i].id = m)
    <3>1. CASE m \in pending
      <4>1. (\E i \in DOMAIN outbox : outbox[i].id = m) \/ (\E i \in pos + 1 .. Len(sequenced) : sequenced[i].id = m)
        BY <3>1 DEF LedgerInv, PendingWillBeAnswered
      <4>2. \A i \in DOMAIN outbox : i \in DOMAIN outbox' /\ outbox'[i] = outbox[i]
        <5> HIDE DEF p
        <5> QED BY <1>3, <1>12
      <4> QED BY <1>1, <4>1, <4>2
    <3>2. CASE m \notin pending
      <4>1. m = id /\ outbox' = Append(outbox, p)
        BY <1>3, <2>2, <3>2
      <4>2. Len(outbox) + 1 \in DOMAIN outbox' /\ outbox'[Len(outbox) + 1] = p
        BY <1>1, <1>2, <4>1
      <4> QED BY <4>1, <4>2
    <3> QED BY <3>1, <3>2
  <2>3. (Ids(ledger) \subseteq pending)'
    BY <2>1 DEF Ids
  <2> QED BY <2>2, <2>3 DEF PendingWillBeAnswered
<1>8. LogInOrder'
  BY <1>1, <1>2 DEF LedgerInv, LogInOrder, Entries
<1>9. OutboxInOrder'
  <2>1. CASE outbox' = outbox
    BY <1>1, <2>1 DEF LedgerInv, OutboxInOrder, InOrder
  <2>2. CASE outbox' = Append(outbox, p)
    <3>1. InOrder(Append(outbox, p))
      BY <1>1, <1>2, AppendFacts DEF LedgerInv, OutboxInOrder
    <3>2. \A j \in 1 .. Len(outbox') : (j \in 1 .. Len(outbox) /\ outbox'[j] = outbox[j]) \/ outbox'[j] = p
      BY <1>1, <1>2, <2>2, AppendFacts
    <3>3. \A i \in 1 .. Len(sequenced) : sequenced[i].by = Me => sequenced[i].id < id
      BY <1>1, <1>2 DEF LedgerInv, LogInOrder
    <3> QED BY <1>1, <2>2, <3>1, <3>2, <3>3 DEF LedgerInv, OutboxInOrder, InOrder
  <2> QED BY <1>3, <2>1, <2>2
<1>10. LedgerInOrder'
  <2>1. CASE ledger' = ledger
    BY <1>1, <2>1 DEF LedgerInv, LedgerInOrder, InOrder
  <2>2. CASE ledger' = Append(ledger, p)
    <3>1. InOrder(Append(ledger, p))
      BY <1>1, <1>2, AppendFacts DEF LedgerInv, LedgerInOrder
    <3>2. \A j \in 1 .. Len(ledger') : (j \in 1 .. Len(ledger) /\ ledger'[j] = ledger[j]) \/ ledger'[j] = p
      BY <1>1, <1>2, <2>2, AppendFacts
    <3> QED BY <1>1, <2>2, <3>1, <3>2 DEF LedgerInv, LedgerInOrder, InOrder
  <2> QED BY <1>3, <2>1, <2>2
<1>11. LedgerIsAsked'
  <2>1. \A k \in 1 .. Len(ledger') : (k \in 1 .. Len(ledger) /\ ledger'[k] = ledger[k]) \/ (ledger'[k] = p /\ outbox' = Append(outbox, p))
    <3> HIDE DEF p
    <3>1. CASE ledger' = ledger
      BY <3>1
    <3>2. CASE ledger' = Append(ledger, p) /\ outbox' = Append(outbox, p)
      BY <1>13, <3>2
    <3> QED BY <1>3, <3>1, <3>2
  <2>2. \A j \in 1 .. Len(outbox') : (j \in 1 .. Len(outbox) /\ outbox'[j] = outbox[j]) \/ outbox'[j] = p
    <3> HIDE DEF p
    <3>1. CASE outbox' = outbox
      BY <3>1
    <3>2. CASE outbox' = Append(outbox, p)
      BY <1>12, <3>2
    <3> QED BY <1>3, <3>1, <3>2
  <2>3. /\ \A k \in 1 .. Len(ledger) : ledger[k].id # id
        /\ \A j \in 1 .. Len(outbox) : outbox[j].id # id
        /\ \A i \in 1 .. Len(sequenced) : sequenced[i].id # id
    BY <1>1, LedgerAssumption DEF LedgerInv, LedgerInOrder, OutboxInOrder, LogInOrder
  <2>4. ASSUME NEW k \in 1 .. Len(ledger')
        PROVE  /\ \A i \in 1 .. Len(sequenced') : sequenced'[i].id = ledger'[k].id => sequenced'[i].action = ledger'[k].action
               /\ \A j \in 1 .. Len(outbox') : outbox'[j].id = ledger'[k].id => outbox'[j].action = ledger'[k].action
    <3>1. CASE k \in 1 .. Len(ledger) /\ ledger'[k] = ledger[k]
      BY <1>1, <2>2, <2>3, <3>1 DEF LedgerInv, LedgerIsAsked
    <3>2. CASE ledger'[k] = p
      BY <1>1, <2>2, <2>3, <3>2
    <3> QED BY <2>1, <3>1, <3>2
  <2> QED BY <2>4 DEF LedgerIsAsked
<1> QED BY <1>5, <1>6, <1>7, <1>8, <1>9, <1>10, <1>11 DEF LedgerInv

\* The client's own part of the invariant, once its display shows what replay keeps of
\* predictions ps over a base: after an answer, a loss or a new table.
LEMMA ShownKeeps ==
  ASSUME LedgerInv, UNCHANGED made, NEW ps \in Seq(Predictions), InOrder(ps),
         \A i \in 1 .. Len(ps) : \E j \in 1 .. Len(ledger) : ps[i] = ledger[j],
         confirmed' \in TableStates, displayed' = Replay(confirmed', ps).state, ledger' = Replay(confirmed', ps).kept,
         \A i \in 1 .. Len(sequenced') : i \in 1 .. Len(sequenced) /\ sequenced'[i] = sequenced[i],
         \A i \in 1 .. Len(outbox') : i \in 1 .. Len(outbox) /\ outbox'[i] = outbox[i]
  PROVE  /\ displayed' \in TableStates /\ ledger' \in Seq(Predictions)
         /\ Replay(confirmed', ledger') = [state |-> displayed', kept |-> ledger']
         /\ Ids(ledger') \subseteq Ids(ps) /\ LedgerInOrder' /\ LedgerIsAsked'
<1>1. /\ displayed' \in TableStates /\ ledger' \in Seq(Predictions)
      /\ Replay(confirmed', ledger') = [state |-> displayed', kept |-> ledger']
      /\ Ids(ledger') \subseteq Ids(ps) /\ InOrder(ledger')
      /\ \A i \in 1 .. Len(ledger') : \E j \in 1 .. Len(ps) : ledger'[i] = ps[j]
  BY ReplayShown
<1>2. \A i \in 1 .. Len(ledger') : \E j \in 1 .. Len(ledger) : ledger'[i] = ledger[j]
  BY <1>1
<1>3. LedgerInOrder'
  BY <1>1, <1>2 DEF LedgerInv, LedgerInOrder, InOrder
<1>4. LedgerIsAsked'
  <2> SUFFICES ASSUME NEW k \in 1 .. Len(ledger')
               PROVE  /\ \A i \in 1 .. Len(sequenced') : sequenced'[i].id = ledger'[k].id => sequenced'[i].action = ledger'[k].action
                      /\ \A j \in 1 .. Len(outbox') : outbox'[j].id = ledger'[k].id => outbox'[j].action = ledger'[k].action
    BY DEF LedgerIsAsked
  <2>1. PICK l \in 1 .. Len(ledger) : ledger'[k] = ledger[l]
    BY <1>2
  <2>2. /\ \A i \in 1 .. Len(sequenced) : sequenced[i].id = ledger[l].id => sequenced[i].action = ledger[l].action
        /\ \A j \in 1 .. Len(outbox) : outbox[j].id = ledger[l].id => outbox[j].action = ledger[l].action
    BY DEF LedgerInv, LedgerIsAsked
  <2> QED BY <2>1, <2>2
<1> QED BY <1>1, <1>3, <1>4

\* What is confirmed and what stands in the log stay the same.
LEMMA LogStays ==
  ASSUME LedgerInv, UNCHANGED <<sequenced, made>>, outbox' = outbox \/ outbox' = << >>
  PROVE  /\ LogInOrder' /\ OutboxInOrder' /\ outbox' \in Seq(Predictions)
         /\ \A m : StateAfter(m)' = StateAfter(m)
         /\ \A i \in 1 .. Len(sequenced') : i \in 1 .. Len(sequenced) /\ sequenced'[i] = sequenced[i]
         /\ \A i \in 1 .. Len(outbox') : i \in 1 .. Len(outbox) /\ outbox'[i] = outbox[i]
<1>1. sequenced' = sequenced /\ made' = made /\ outbox \in Seq(Predictions)
  BY DEF LedgerInv, LedgerTyped
<1>2. \A m : StateAfter(m)' = StateAfter(m)
  BY <1>1 DEF StateAfter, FoldLeft, MapThenFoldSet
<1>3. LogInOrder'
  BY <1>1 DEF LedgerInv, LogInOrder
<1>4. OutboxInOrder'
  <2>1. CASE outbox' = outbox
    BY <1>1, <2>1 DEF LedgerInv, OutboxInOrder, InOrder
  <2>2. CASE outbox' = << >>
    BY <1>1, <2>2 DEF OutboxInOrder, InOrder
  <2> QED BY <2>1, <2>2
<1>5. outbox' \in Seq(Predictions) /\ \A i \in 1 .. Len(outbox') : i \in 1 .. Len(outbox) /\ outbox'[i] = outbox[i]
  <2>1. CASE outbox' = outbox
    BY <1>1, <2>1
  <2>2. CASE outbox' = << >>
    BY <1>1, <2>2
  <2> QED BY <2>1, <2>2
<1> QED BY <1>1, <1>2, <1>3, <1>4, <1>5

LEMMA DeliverKeeps ==
  ASSUME LedgerInv, Deliver
  PROVE  LedgerInv'
<1> DEFINE entry == sequenced[pos + 1]
           left == Except(ledger, {entry.id})
<1>1. /\ UNCHANGED <<sequenced, outbox, connection, made>> /\ pos' = pos + 1 /\ pos < Len(sequenced)
      /\ confirmed' = Applied(confirmed, entry.by, entry.action)
      /\ displayed' = Replay(confirmed', left).state /\ ledger' = Replay(confirmed', left).kept
      /\ pending' = pending \ {entry.id} /\ told' \in BOOLEAN
  BY DEF Deliver, Candidates, Tells
<1>2. /\ sequenced \in Seq(Entries) /\ pos \in 0 .. Len(sequenced) /\ ledger \in Seq(Predictions) /\ confirmed \in TableStates
      /\ pending \in SUBSET Nat /\ entry \in Entries /\ InOrder(ledger)
  BY <1>1 DEF LedgerInv, LedgerTyped, LedgerInOrder
<1>3. confirmed = StateAfter(pos)
  BY DEF LedgerInv, DisplayIsReplay
<1>4. confirmed' = StateAfter(pos + 1) /\ confirmed' \in TableStates
  <2>1. confirmed' = Taken(StateAfter(pos), entry)
    BY <1>1, <1>3 DEF Taken
  <2>2. StateAfter(pos + 1) = Taken(StateAfter(pos), entry)
    BY <1>1, <1>2, StateAfterFacts
  <2>3. Taken(confirmed, entry) \in TableStates
    BY <1>2, TakenType
  <2> QED BY <1>3, <2>1, <2>2, <2>3
<1>5. /\ LogInOrder' /\ OutboxInOrder' /\ outbox' \in Seq(Predictions) /\ \A m : StateAfter(m)' = StateAfter(m)
      /\ \A i \in 1 .. Len(sequenced') : i \in 1 .. Len(sequenced) /\ sequenced'[i] = sequenced[i]
      /\ \A i \in 1 .. Len(outbox') : i \in 1 .. Len(outbox) /\ outbox'[i] = outbox[i]
  BY <1>1, LogStays
<1>6. left \in Seq(Predictions) /\ Ids(left) = Ids(ledger) \ {entry.id} /\ InOrder(left)
      /\ \A i \in 1 .. Len(left) : \E j \in 1 .. Len(ledger) : left[i] = ledger[j]
  BY <1>2, ExceptFacts
<1> HIDE DEF left
<1>7. /\ displayed' \in TableStates /\ ledger' \in Seq(Predictions)
      /\ Replay(confirmed', ledger') = [state |-> displayed', kept |-> ledger']
      /\ Ids(ledger') \subseteq Ids(left) /\ LedgerInOrder' /\ LedgerIsAsked'
  BY <1>1, <1>4, <1>5, <1>6, ShownKeeps
<1>8. LedgerTyped'
  BY <1>1, <1>2, <1>4, <1>5, <1>7 DEF LedgerInv, LedgerTyped
<1>9. DisplayIsReplay'
  <2>1. StateAfter(pos)' = confirmed'
    BY <1>1, <1>4, <1>5, StateAfterPrimed
  <2> QED BY <1>7, <2>1 DEF DisplayIsReplay
<1>10. PendingWillBeAnswered'
  <2>1. Ids(ledger') \subseteq pending'
    BY <1>1, <1>6, <1>7 DEF LedgerInv, PendingWillBeAnswered
  <2>2. ASSUME NEW m \in pending'
        PROVE  (\E i \in DOMAIN outbox' : outbox'[i].id = m) \/ (\E i \in pos' + 1 .. Len(sequenced') : sequenced'[i].id = m)
    <3>1. m \in pending /\ m # entry.id
      BY <1>1, <2>2
    <3>2. (\E i \in DOMAIN outbox : outbox[i].id = m) \/ (\E i \in pos + 1 .. Len(sequenced) : sequenced[i].id = m)
      BY <3>1 DEF LedgerInv, PendingWillBeAnswered
    <3>3. \A i \in pos + 1 .. Len(sequenced) : sequenced[i].id = m => i \in pos' + 1 .. Len(sequenced)
      BY <1>1, <1>2, <3>1
    <3> QED BY <1>1, <3>2, <3>3
  <2>3. (Ids(ledger) \subseteq pending)'
    BY <2>1 DEF Ids
  <2> QED BY <2>2, <2>3 DEF PendingWillBeAnswered
<1> QED BY <1>5, <1>7, <1>8, <1>9, <1>10 DEF LedgerInv

LEMMA LoseKeeps ==
  ASSUME LedgerInv, Lose
  PROVE  LedgerInv'
<1> DEFINE left == Except(ledger, pending)
<1>1. /\ UNCHANGED <<sequenced, pos, confirmed, made>> /\ outbox' = << >> /\ connection' = "down" /\ told' \in BOOLEAN /\ pending' = {}
      /\ \/ UNCHANGED <<displayed, ledger>> /\ pending = {}
         \/ displayed' = Replay(confirmed, left).state /\ ledger' = Replay(confirmed, left).kept
  BY DEF Lose
<1>2. /\ ledger \in Seq(Predictions) /\ confirmed \in TableStates /\ displayed \in TableStates /\ InOrder(ledger)
      /\ Replay(confirmed, ledger) = [state |-> displayed, kept |-> ledger]
  BY DEF LedgerInv, LedgerTyped, LedgerInOrder, DisplayIsReplay
<1>3. /\ LogInOrder' /\ OutboxInOrder' /\ outbox' \in Seq(Predictions) /\ \A m : StateAfter(m)' = StateAfter(m)
      /\ \A i \in 1 .. Len(sequenced') : i \in 1 .. Len(sequenced) /\ sequenced'[i] = sequenced[i]
      /\ \A i \in 1 .. Len(outbox') : i \in 1 .. Len(outbox) /\ outbox'[i] = outbox[i]
  BY <1>1, LogStays
<1>4. left \in Seq(Predictions) /\ Ids(left) = Ids(ledger) \ pending /\ InOrder(left)
      /\ \A i \in 1 .. Len(left) : \E j \in 1 .. Len(ledger) : left[i] = ledger[j]
  BY <1>2, ExceptFacts
<1> HIDE DEF left
<1>5. Ids(left) = {} /\ Ids(ledger) \subseteq pending
  BY <1>4 DEF LedgerInv, PendingWillBeAnswered
<1>6. /\ displayed' \in TableStates /\ ledger' \in Seq(Predictions)
      /\ Replay(confirmed', ledger') = [state |-> displayed', kept |-> ledger']
      /\ Ids(ledger') = {} /\ LedgerInOrder' /\ LedgerIsAsked'
  <2>1. CASE UNCHANGED <<displayed, ledger>> /\ pending = {}
    <3>1. LedgerInOrder'
      BY <1>1, <2>1 DEF LedgerInv, LedgerInOrder, InOrder
    <3>2. LedgerIsAsked'
      BY <1>1, <1>3, <2>1 DEF LedgerInv, LedgerIsAsked
    <3> QED BY <1>1, <1>2, <1>5, <2>1, <3>1, <3>2
  <2>2. CASE displayed' = Replay(confirmed, left).state /\ ledger' = Replay(confirmed, left).kept
    <3>1. confirmed' \in TableStates /\ displayed' = Replay(confirmed', left).state /\ ledger' = Replay(confirmed', left).kept /\ UNCHANGED made
      BY <1>1, <1>2, <2>2
    <3> QED BY <1>3, <1>4, <1>5, <3>1, ShownKeeps
  <2> QED BY <1>1, <2>1, <2>2
<1>7. LedgerTyped'
  BY <1>1, <1>2, <1>3, <1>6 DEF LedgerInv, LedgerTyped
<1>8. DisplayIsReplay'
  <2>1. StateAfter(pos)' = confirmed'
    BY <1>1, StateAfterPrimed DEF LedgerInv, DisplayIsReplay
  <2> QED BY <1>6, <2>1 DEF DisplayIsReplay
<1>9. PendingWillBeAnswered'
  BY <1>1, <1>6 DEF PendingWillBeAnswered, Ids
<1> QED BY <1>3, <1>6, <1>7, <1>8, <1>9 DEF LedgerInv

\* A table without predictions and without requests that wait.
LEMMA ClearedKeeps ==
  ASSUME LedgerInv, UNCHANGED <<sequenced, made>>, outbox' = outbox \/ outbox' = << >>,
         connection' \in {"down", "loading", "live", "ended"}, told' \in BOOLEAN, pos' \in 0 .. Len(sequenced),
         confirmed' = StateAfter(pos'), displayed' = confirmed', ledger' = << >>, pending' = {}
  PROVE  LedgerInv'
<1>1. sequenced \in Seq(Entries) /\ sequenced' = sequenced /\ made' = made /\ made \in Nat /\ confirmed' \in TableStates
  <2>1. sequenced \in Seq(Entries) /\ made \in Nat
    BY DEF LedgerInv, LedgerTyped
  <2> QED BY <2>1, StateAfterFacts
<1>2. /\ LogInOrder' /\ OutboxInOrder' /\ outbox' \in Seq(Predictions) /\ \A m : StateAfter(m)' = StateAfter(m)
  BY LogStays
<1>3. LedgerTyped'
  <2>1. << >> \in Seq(Predictions) /\ {} \in SUBSET Nat
    OBVIOUS
  <2> QED BY <1>1, <1>2, <2>1 DEF LedgerTyped
<1>4. DisplayIsReplay'
  <2>1. StateAfter(pos)' = confirmed'
    BY <1>1, <1>2, StateAfterPrimed
  <2>2. Replay(confirmed', ledger') = [state |-> displayed', kept |-> ledger']
    BY <1>1, ReplayOfNone
  <2> QED BY <2>1, <2>2 DEF DisplayIsReplay
<1>5. PendingWillBeAnswered' /\ LedgerInOrder' /\ LedgerIsAsked'
  BY DEF PendingWillBeAnswered, LedgerInOrder, LedgerIsAsked, InOrder, Ids
<1> QED BY <1>2, <1>3, <1>4, <1>5 DEF LedgerInv

LEMMA ReconnectKeeps ==
  ASSUME LedgerInv, ReconnectLedger
  PROVE  LedgerInv'
<1>1. CASE connection' = "live" /\ told' = FALSE /\ UNCHANGED ledgerStore /\ UNCHANGED <<sequenced, outbox, made>>
  <2>1. UNCHANGED <<sequenced, outbox, made, pos, confirmed, displayed, ledger, pending>>
    BY <1>1 DEF ledgerStore
  <2>2. LogInOrder' /\ OutboxInOrder' /\ \A m : StateAfter(m)' = StateAfter(m)
    BY <2>1, LogStays
  <2>3. LedgerTyped'
    BY <1>1, <2>1 DEF LedgerInv, LedgerTyped
  <2>4. DisplayIsReplay'
    <3>1. StateAfter(pos)' = confirmed'
      BY <2>1, StateAfterPrimed DEF LedgerInv, DisplayIsReplay
    <3> QED BY <2>1, <3>1 DEF LedgerInv, DisplayIsReplay
  <2>5. PendingWillBeAnswered' /\ LedgerInOrder' /\ LedgerIsAsked'
    BY <2>1 DEF LedgerInv, PendingWillBeAnswered, LedgerInOrder, LedgerIsAsked, InOrder, Ids
  <2> QED BY <2>2, <2>3, <2>4, <2>5 DEF LedgerInv
<1>2. CASE connection' = "loading" /\ ReplaceSnapshot(0) /\ UNCHANGED <<sequenced, outbox, made>>
  <2>1. /\ pos' = 0 /\ confirmed' = StateAfter(0) /\ displayed' = confirmed' /\ ledger' = << >> /\ pending' = {} /\ told' = FALSE
        /\ 0 \in 0 .. Len(sequenced)
    BY <1>2 DEF ReplaceSnapshot, LedgerInv, LedgerTyped
  <2> QED BY <1>2, <2>1, ClearedKeeps
<1> QED BY <1>1, <1>2 DEF ReconnectLedger

LEMMA BootstrapKeeps ==
  ASSUME LedgerInv, BootstrapLedger
  PROVE  LedgerInv'
<1>1. PICK n \in 0 .. Len(sequenced) : ReplaceSnapshot(n)
  BY DEF BootstrapLedger
<1>2. /\ pos' \in 0 .. Len(sequenced) /\ confirmed' = StateAfter(pos') /\ displayed' = confirmed' /\ ledger' = << >> /\ pending' = {}
      /\ told' \in BOOLEAN
  BY <1>1 DEF ReplaceSnapshot
<1> QED BY <1>2, ClearedKeeps DEF BootstrapLedger

LEMMA EndKeeps ==
  ASSUME LedgerInv, RoomEnded
  PROVE  LedgerInv'
<1>1. pos' = pos /\ pos \in 0 .. Len(sequenced) /\ confirmed' = confirmed /\ confirmed = StateAfter(pos)
  BY DEF RoomEnded, LedgerInv, LedgerTyped, DisplayIsReplay
<1>2. confirmed' = StateAfter(pos') /\ displayed' = confirmed' /\ pos' \in 0 .. Len(sequenced)
  BY <1>1 DEF RoomEnded
<1> QED BY <1>2, ClearedKeeps DEF RoomEnded

LEMMA SequencesKeeps ==
  ASSUME LedgerInv, RoomSequences
  PROVE  LedgerInv'
<1> DEFINE n == Len(sequenced)
<1>1. /\ UNCHANGED <<connection, pos, confirmed, displayed, ledger, pending, made>> /\ told' = FALSE
      /\ sequenced \in Seq(Entries) /\ outbox \in Seq(Predictions) /\ pos \in 0 .. n /\ n \in Nat /\ made \in Nat
      /\ ledger \in Seq(Predictions)
  BY DEF RoomSequences, ledgerStore, LedgerInv, LedgerTyped
<1>2. ASSUME NEW e \in Entries, sequenced' = Append(sequenced, e)
      PROVE  /\ sequenced' \in Seq(Entries) /\ Len(sequenced') = n + 1 /\ sequenced'[n + 1] = e
             /\ (\A i \in 1 .. n : sequenced'[i] = sequenced[i]) /\ StateAfter(pos)' = StateAfter(pos)
  <2>1. /\ sequenced' \in Seq(Entries) /\ Len(sequenced') = n + 1 /\ sequenced'[n + 1] = e
        /\ \A i \in 1 .. n : sequenced'[i] = sequenced[i]
    BY <1>1, <1>2
  <2>2. SubSeq(sequenced', 1, pos) = SubSeq(sequenced, 1, pos)
    BY <1>1, <1>2
  <2>3. StateAfter(pos)' = Outcome(SubSeq(sequenced', 1, pos')) /\ StateAfter(pos) = Outcome(SubSeq(sequenced, 1, pos))
    BY DEF StateAfter, Outcome, FoldLeft, MapThenFoldSet
  <2> QED BY <1>1, <2>1, <2>2, <2>3
<1>3. StateAfter(pos)' = StateAfter(pos) => DisplayIsReplay'
  BY <1>1 DEF LedgerInv, DisplayIsReplay
<1>4. LedgerInOrder'
  BY <1>1 DEF LedgerInv, LedgerInOrder, InOrder
<1>5. CASE outbox # << >> /\ outbox' = Tail(outbox)
           /\ sequenced' = Append(sequenced, [by |-> Me, id |-> Head(outbox).id, action |-> Head(outbox).action])
  <2> DEFINE e == [by |-> Me, id |-> Head(outbox).id, action |-> Head(outbox).action]
  <2>1. /\ outbox' \in Seq(Predictions) /\ Len(outbox') = Len(outbox) - 1 /\ Len(outbox) \in Nat \ {0}
        /\ \A i \in 1 .. Len(outbox') : i + 1 \in 1 .. Len(outbox) /\ outbox'[i] = outbox[i + 1]
    BY <1>1, <1>5
  <2>2. Head(outbox) = outbox[1] /\ outbox[1] \in Predictions /\ 1 \in 1 .. Len(outbox)
    BY <1>1, <2>1
  <2>3. e \in Entries /\ e.by = Me /\ e.id = outbox[1].id /\ e.action = outbox[1].action /\ e.id \in 1 .. made
    BY <2>2 DEF Entries, Predictions, Seated, LedgerInv, OutboxInOrder
  <2>4. /\ sequenced' \in Seq(Entries) /\ Len(sequenced') = n + 1 /\ sequenced'[n + 1] = e
        /\ (\A i \in 1 .. n : sequenced'[i] = sequenced[i]) /\ StateAfter(pos)' = StateAfter(pos)
    BY <1>2, <1>5, <2>3
  <2> HIDE DEF e, n
  <2>5. \A i \in 1 .. Len(sequenced') : i \in 1 .. n \/ i = n + 1
    BY <1>1, <2>4
  <2>6. LedgerTyped'
    <3>1. pos' \in 0 .. Len(sequenced') /\ told' \in BOOLEAN
      <4>1. pos' = pos /\ pos \in 0 .. n /\ n \in Nat /\ told' = FALSE
        BY <1>1 DEF n
      <4>2. Len(sequenced') = n + 1
        BY <2>4
      <4>3. pos \in 0 .. n + 1
        BY <4>1
      <4> QED BY <4>1, <4>2, <4>3
    <3> QED BY <1>1, <2>1, <2>4, <3>1 DEF LedgerInv, LedgerTyped
  <2>7. LogInOrder'
    <3>1. \A i \in 1 .. n : sequenced[i].by = Me => sequenced[i].id < e.id
      BY <2>2, <2>3 DEF LedgerInv, OutboxInOrder, n
    <3>2. \A i \in 1 .. Len(sequenced') :
            IF sequenced'[i].by = Me THEN sequenced'[i].id \in 1 .. made' ELSE sequenced'[i].id = NoOne
      BY <1>1, <2>3, <2>4, <2>5 DEF LedgerInv, LogInOrder, n
    <3>3. ASSUME NEW i \in 1 .. Len(sequenced'), NEW j \in 1 .. Len(sequenced'), i < j, sequenced'[i].by = Me, sequenced'[j].by = Me
          PROVE  sequenced'[i].id < sequenced'[j].id
      <4>1. i \in 1 .. n
        BY <1>1, <2>4, <2>5, <3>3
      <4>2. CASE j \in 1 .. n
        BY <2>4, <3>3, <4>1, <4>2 DEF LedgerInv, LogInOrder, n
      <4>3. CASE j = n + 1
        BY <2>4, <3>1, <3>3, <4>1, <4>3
      <4> QED BY <2>5, <4>2, <4>3
    <3> QED BY <3>2, <3>3 DEF LogInOrder
  <2>8. OutboxInOrder'
    <3>1. InOrder(outbox')
      <4> SUFFICES ASSUME NEW i \in 1 .. Len(outbox'), NEW j \in 1 .. Len(outbox'), i < j
                   PROVE  outbox'[i].id < outbox'[j].id
        BY DEF InOrder
      <4>1. i + 1 \in 1 .. Len(outbox) /\ j + 1 \in 1 .. Len(outbox) /\ i + 1 < j + 1
            /\ outbox'[i] = outbox[i + 1] /\ outbox'[j] = outbox[j + 1]
        BY <2>1
      <4>2. InOrder(outbox)
        BY DEF LedgerInv, OutboxInOrder
      <4>3. outbox[i + 1].id < outbox[j + 1].id
        BY <4>1, <4>2 DEF InOrder
      <4> QED BY <4>1, <4>3
    <3>2. \A j \in 1 .. Len(outbox') : outbox'[j].id \in 1 .. made'
      BY <1>1, <2>1 DEF LedgerInv, OutboxInOrder
    <3>3. ASSUME NEW i \in 1 .. Len(sequenced'), NEW j \in 1 .. Len(outbox'), sequenced'[i].by = Me
          PROVE  sequenced'[i].id < outbox'[j].id
      <4>1. CASE i \in 1 .. n
        BY <2>1, <2>4, <3>3, <4>1 DEF LedgerInv, OutboxInOrder, n
      <4>2. CASE i = n + 1
        <5>1. outbox[1].id < outbox[j + 1].id
          BY <2>1, <2>2 DEF LedgerInv, OutboxInOrder, InOrder
        <5> QED BY <2>1, <2>3, <2>4, <4>2, <5>1
      <4> QED BY <2>5, <4>1, <4>2
    <3>4. InOrder(outbox)'
      BY <3>1 DEF InOrder
    <3> QED BY <3>2, <3>3, <3>4 DEF OutboxInOrder
  <2>9. PendingWillBeAnswered'
    <3>1. (Ids(ledger) \subseteq pending)'
      BY <1>1 DEF LedgerInv, PendingWillBeAnswered, Ids
    <3>2. ASSUME NEW m \in pending'
          PROVE  (\E i \in DOMAIN outbox' : outbox'[i].id = m) \/ (\E i \in pos' + 1 .. Len(sequenced') : sequenced'[i].id = m)
      <4>1. (\E i \in DOMAIN outbox : outbox[i].id = m) \/ (\E i \in pos + 1 .. n : sequenced[i].id = m)
        BY <1>1, <3>2 DEF LedgerInv, PendingWillBeAnswered, n
      <4>2. CASE \E i \in pos + 1 .. n : sequenced[i].id = m
        <5>1. PICK i \in pos + 1 .. n : sequenced[i].id = m
          BY <4>2
        <5>2. i \in pos' + 1 .. Len(sequenced') /\ sequenced'[i].id = m
          BY <1>1, <2>4, <5>1
        <5> QED BY <5>2
      <4>3. CASE \E i \in DOMAIN outbox : outbox[i].id = m
        <5>1. PICK i \in 1 .. Len(outbox) : outbox[i].id = m
          BY <1>1, <4>3
        <5>2. CASE i = 1
          <6>1. n + 1 \in pos' + 1 .. Len(sequenced') /\ sequenced'[n + 1].id = m
            BY <1>1, <2>3, <2>4, <5>1, <5>2
          <6> QED BY <6>1
        <5>3. CASE i # 1
          <6>1. i - 1 \in 1 .. Len(outbox') /\ (i - 1) + 1 = i
            BY <2>1, <5>1, <5>3
          <6>2. outbox'[i - 1].id = m /\ i - 1 \in DOMAIN outbox'
            BY <2>1, <5>1, <6>1
          <6> QED BY <6>2
        <5> QED BY <5>2, <5>3
      <4> QED BY <4>1, <4>2, <4>3
    <3> QED BY <3>1, <3>2 DEF PendingWillBeAnswered
  <2>10. LedgerIsAsked'
    <3> SUFFICES ASSUME NEW k \in 1 .. Len(ledger')
                 PROVE  /\ \A i \in 1 .. Len(sequenced') : sequenced'[i].id = ledger'[k].id => sequenced'[i].action = ledger'[k].action
                        /\ \A j \in 1 .. Len(outbox') : outbox'[j].id = ledger'[k].id => outbox'[j].action = ledger'[k].action
      BY DEF LedgerIsAsked
    <3>1. /\ \A i \in 1 .. n : sequenced[i].id = ledger[k].id => sequenced[i].action = ledger[k].action
          /\ \A j \in 1 .. Len(outbox) : outbox[j].id = ledger[k].id => outbox[j].action = ledger[k].action
          /\ ledger' = ledger
      BY <1>1 DEF LedgerInv, LedgerIsAsked, n
    <3>2. \A i \in 1 .. Len(sequenced') : sequenced'[i].id = ledger[k].id => sequenced'[i].action = ledger[k].action
      BY <2>2, <2>3, <2>4, <2>5, <3>1
    <3>3. \A j \in 1 .. Len(outbox') : outbox'[j].id = ledger[k].id => outbox'[j].action = ledger[k].action
      BY <2>1, <3>1
    <3> QED BY <3>1, <3>2, <3>3
  <2> QED BY <1>3, <1>4, <2>4, <2>6, <2>7, <2>8, <2>9, <2>10 DEF LedgerInv
<1>6. ASSUME NEW x \in Others, NEW a \in Moves, sequenced' = Append(sequenced, [by |-> x, id |-> NoOne, action |-> a]), outbox' = outbox
      PROVE  LedgerInv'
  <2> DEFINE e == [by |-> x, id |-> NoOne, action |-> a]
  <2>1. e \in Entries /\ e.by # Me /\ e.id = NoOne
    BY LedgerAssumption DEF Entries, Seated
  <2>2. /\ sequenced' \in Seq(Entries) /\ Len(sequenced') = n + 1 /\ sequenced'[n + 1] = e
        /\ (\A i \in 1 .. n : sequenced'[i] = sequenced[i]) /\ StateAfter(pos)' = StateAfter(pos)
    BY <1>2, <1>6, <2>1
  <2> HIDE DEF e, n
  <2>3. \A i \in 1 .. Len(sequenced') : i \in 1 .. n \/ i = n + 1
    BY <1>1, <2>2
  <2>4. LedgerTyped'
    <3>1. pos' \in 0 .. Len(sequenced') /\ told' \in BOOLEAN
      <4>1. pos' = pos /\ pos \in 0 .. n /\ n \in Nat /\ told' = FALSE
        BY <1>1 DEF n
      <4>2. Len(sequenced') = n + 1
        BY <2>2
      <4>3. pos \in 0 .. n + 1
        BY <4>1
      <4> QED BY <4>1, <4>2, <4>3
    <3> QED BY <1>1, <1>6, <2>2, <3>1 DEF LedgerInv, LedgerTyped
  <2>5. LogInOrder'
    BY <1>1, <2>1, <2>2, <2>3 DEF LedgerInv, LogInOrder, n
  <2>6. OutboxInOrder'
    BY <1>1, <1>6, <2>1, <2>2, <2>3 DEF LedgerInv, OutboxInOrder, InOrder, n
  <2>7. PendingWillBeAnswered'
    <3>1. (Ids(ledger) \subseteq pending)'
      BY <1>1 DEF LedgerInv, PendingWillBeAnswered, Ids
    <3>2. \A i \in pos + 1 .. n : i \in pos' + 1 .. Len(sequenced') /\ sequenced'[i] = sequenced[i]
      BY <1>1, <2>2
    <3>3. ASSUME NEW m \in pending'
          PROVE  (\E i \in DOMAIN outbox' : outbox'[i].id = m) \/ (\E i \in pos' + 1 .. Len(sequenced') : sequenced'[i].id = m)
      <4>1. (\E i \in DOMAIN outbox : outbox[i].id = m) \/ (\E i \in pos + 1 .. n : sequenced[i].id = m)
        BY <1>1, <3>3 DEF LedgerInv, PendingWillBeAnswered, n
      <4>2. CASE \E i \in DOMAIN outbox : outbox[i].id = m
        BY <1>6, <4>2
      <4>3. CASE \E i \in pos + 1 .. n : sequenced[i].id = m
        BY <3>2, <4>3
      <4> QED BY <4>1, <4>2, <4>3
    <3> QED BY <3>1, <3>3 DEF PendingWillBeAnswered
  <2>8. LedgerIsAsked'
    <3> SUFFICES ASSUME NEW k \in 1 .. Len(ledger')
                 PROVE  /\ \A i \in 1 .. Len(sequenced') : sequenced'[i].id = ledger'[k].id => sequenced'[i].action = ledger'[k].action
                        /\ \A j \in 1 .. Len(outbox') : outbox'[j].id = ledger'[k].id => outbox'[j].action = ledger'[k].action
      BY DEF LedgerIsAsked
    <3>1. /\ \A i \in 1 .. n : sequenced[i].id = ledger[k].id => sequenced[i].action = ledger[k].action
          /\ \A j \in 1 .. Len(outbox) : outbox[j].id = ledger[k].id => outbox[j].action = ledger[k].action
          /\ ledger' = ledger
      BY <1>1 DEF LedgerInv, LedgerIsAsked, n
    <3>2. ledger[k].id # NoOne
      BY <1>1, LedgerAssumption, <3>1 DEF LedgerInv, LedgerInOrder
    <3> QED BY <1>6, <2>1, <2>2, <2>3, <3>1, <3>2
  <2> QED BY <1>3, <1>4, <2>2, <2>4, <2>5, <2>6, <2>7, <2>8 DEF LedgerInv
<1> QED BY <1>5, <1>6 DEF RoomSequences

LEMMA LedgerStutters ==
  ASSUME LedgerInv, UNCHANGED ledgerVars
  PROVE  LedgerInv'
<1>1. UNCHANGED <<sequenced, outbox, connection, pos, confirmed, displayed, ledger, pending, made, told>>
  BY DEF ledgerVars, ledgerStore
<1>2. LogInOrder' /\ OutboxInOrder'
  BY <1>1, LogStays
<1>3. LedgerTyped'
  BY <1>1 DEF LedgerInv, LedgerTyped
<1>4. DisplayIsReplay'
  <2>1. StateAfter(pos)' = confirmed'
    BY <1>1, StateAfterPrimed DEF LedgerInv, DisplayIsReplay
  <2> QED BY <1>1, <2>1 DEF LedgerInv, DisplayIsReplay
<1>5. PendingWillBeAnswered' /\ LedgerInOrder' /\ LedgerIsAsked'
  BY <1>1 DEF LedgerInv, PendingWillBeAnswered, LedgerInOrder, LedgerIsAsked, InOrder, Ids
<1> QED BY <1>2, <1>3, <1>4, <1>5 DEF LedgerInv

LEMMA LedgerInvHolds == LedgerSpec => []LedgerInv
<1>1. LedgerInit => LedgerInv
  BY LedgerStarts
<1>2. LedgerInv /\ [LedgerNext]_ledgerVars => LedgerInv'
  BY SendKeeps, DeliverKeeps, LoseKeeps, ReconnectKeeps, BootstrapKeeps, EndKeeps, SequencesKeeps, LedgerStutters DEF LedgerNext
<1> QED BY <1>1, <1>2, PTL DEF LedgerSpec

\* The player sees the room's table with exactly the predictions of the ledger on top,
\* each of which the room will still judge: whatever is sent, answered, lost or reloaded.
THEOREM LedgerAlwaysSound == LedgerSpec => []LedgerIsSound
<1>1. LedgerInv => LedgerIsSound
  BY DEF LedgerInv, LedgerIsSound
<1> QED BY <1>1, LedgerInvHolds, PTL

-----------------------------------------------------------------------------
\* The room answers the predictions of the ledger in their order.
LEMMA AnsweredFirst ==
  ASSUME LedgerInv, Deliver, sequenced[pos + 1].id \in Ids(ledger)
  PROVE  /\ ledger # << >> /\ ledger[1].id = sequenced[pos + 1].id /\ ledger[1].action = sequenced[pos + 1].action
         /\ sequenced[pos + 1].by = Me
<1> DEFINE entry == sequenced[pos + 1]
<1>1. /\ pos < Len(sequenced) /\ pos \in 0 .. Len(sequenced) /\ pos + 1 \in 1 .. Len(sequenced) /\ ledger \in Seq(Predictions)
  BY DEF LedgerInv, LedgerTyped, Deliver
<1>2. PICK k \in 1 .. Len(ledger) : ledger[k].id = entry.id
  BY <1>1 DEF Ids
<1>3. entry.by = Me /\ entry.id \in 1 .. made /\ made \in Nat
  BY <1>1, <1>2, LedgerAssumption DEF LedgerInv, LedgerTyped, LogInOrder, LedgerInOrder
<1>4. k = 1
  <2> SUFFICES ASSUME k > 1
               PROVE  FALSE
    BY <1>1, <1>2
  <2>1. 1 \in 1 .. Len(ledger) /\ ledger[1].id < entry.id /\ ledger[1].id \in 1 .. made
    BY <1>1, <1>2 DEF LedgerInv, LedgerInOrder, InOrder
  <2>2. ledger[1].id \in pending
    BY <1>1, <2>1 DEF LedgerInv, PendingWillBeAnswered, Ids
  <2>3. CASE \E i \in DOMAIN outbox : outbox[i].id = ledger[1].id
    <3>1. PICK i \in 1 .. Len(outbox) : outbox[i].id = ledger[1].id
      BY <2>3 DEF LedgerInv, LedgerTyped
    <3>2. entry.id < outbox[i].id
      BY <1>1, <1>3 DEF LedgerInv, OutboxInOrder
    <3> QED BY <1>3, <2>1, <3>1, <3>2
  <2>4. CASE \E i \in pos + 1 .. Len(sequenced) : sequenced[i].id = ledger[1].id
    <3>1. PICK i \in pos + 1 .. Len(sequenced) : sequenced[i].id = ledger[1].id
      BY <2>4
    <3>2. i \in 1 .. Len(sequenced) /\ (i = pos + 1 \/ pos + 1 < i)
      BY <1>1, <3>1
    <3>3. sequenced[i].by = Me
      BY <2>1, <3>1, <3>2, LedgerAssumption DEF LedgerInv, LogInOrder
    <3>4. CASE i = pos + 1
      BY <1>3, <2>1, <3>1, <3>4
    <3>5. CASE pos + 1 < i
      <4>1. entry.id < sequenced[i].id
        BY <1>1, <1>3, <3>2, <3>3, <3>5 DEF LedgerInv, LogInOrder
      <4> QED BY <1>3, <2>1, <3>1, <4>1
    <3> QED BY <3>2, <3>4, <3>5
  <2> QED BY <2>2, <2>3, <2>4 DEF LedgerInv, PendingWillBeAnswered
<1>5. ledger # << >>
  BY <1>1, <1>2
<1>6. ledger[1].action = entry.action
  BY <1>1, <1>2, <1>4 DEF LedgerInv, LedgerIsAsked
<1> QED BY <1>2, <1>3, <1>4, <1>5, <1>6

LEMMA AcceptanceShowsNothing ==
  ASSUME LedgerInv, Deliver, sequenced[pos + 1].id \in Ids(ledger), Accepts(confirmed, Me, sequenced[pos + 1].action)
  PROVE  displayed' = displayed
<1> DEFINE entry == sequenced[pos + 1]
<1>1. ledger # << >> /\ ledger[1].id = entry.id /\ ledger[1].action = entry.action /\ entry.by = Me
  BY AnsweredFirst
<1>2. /\ ledger \in Seq(Predictions) /\ InOrder(ledger) /\ confirmed \in TableStates
      /\ Replay(confirmed, ledger) = [state |-> displayed, kept |-> ledger]
  BY DEF LedgerInv, LedgerTyped, LedgerInOrder, DisplayIsReplay
<1>3. Except(ledger, {entry.id}) = Tail(ledger)
  BY <1>1, <1>2, ExceptFirst
<1>4. displayed' = Replay(Applied(confirmed, Me, ledger[1].action), Tail(ledger)).state
  BY <1>1, <1>3 DEF Deliver, Candidates
<1>5. displayed = Replay(Applied(confirmed, Me, ledger[1].action), Tail(ledger)).state
  BY <1>1, <1>2, ReplayOfFirst
<1> QED BY <1>4, <1>5

LEMMA LossesAreTold ==
  ASSUME LedgerInv, Deliver \/ Lose, displayed' # displayed, NEW id \in Ids(ledger) \ Ids(ledger'),
         ~(Deliver /\ sequenced[pos + 1].id = id /\ Accepts(confirmed, Me, sequenced[pos + 1].action))
  PROVE  told'
<1>1. CASE Lose
  <2>1. ledger # << >>
    BY DEF Ids
  <2> QED BY <1>1, <2>1 DEF Lose
<1>2. CASE Deliver
  <2> DEFINE entry == sequenced[pos + 1]
             left == Except(ledger, {entry.id})
             shown == Replay(confirmed', left).kept
  <2>1. /\ ledger' = shown /\ confirmed' \in TableStates /\ ledger \in Seq(Predictions)
    <3>1. confirmed \in TableStates /\ entry \in Entries /\ ledger \in Seq(Predictions)
      BY <1>2 DEF LedgerInv, LedgerTyped, Deliver
    <3>2. confirmed' = Taken(confirmed, entry)
      BY <1>2 DEF Deliver, Taken
    <3> QED BY <1>2, <3>1, <3>2, TakenType DEF Deliver, Candidates
  <2>2. told' = (Len(shown) < Len(left) \/ (~Accepts(confirmed, entry.by, entry.action) /\ entry.id \in Ids(ledger)))
    BY <1>2 DEF Deliver, Tells, Candidates
  <2>3. CASE entry.id = id
    <3>1. entry.by = Me
      BY <1>2, <2>3, AnsweredFirst
    <3> QED BY <1>2, <2>2, <2>3, <3>1
  <2>4. CASE entry.id # id
    <3>1. id \in Ids(left) /\ left \in Seq(Predictions)
      BY <2>1, <2>4, ExceptFacts
    <3>2. shown \in Seq(Predictions) /\ Len(shown) <= Len(left) /\ (Len(shown) = Len(left) => shown = left)
      BY <2>1, <3>1, ReplayShown
    <3>3. Ids(shown) = Ids(ledger')
      BY <2>1
    <3> HIDE DEF left, shown
    <3>4. shown # left
      BY <3>1, <3>3
    <3>5. Len(shown) < Len(left)
      BY <3>1, <3>2, <3>4
    <3> QED BY <2>2, <3>5
  <2> QED BY <2>3, <2>4
<1> QED BY <1>1, <1>2

\* Nothing on display jumps when the room accepts a prediction, and none is taken back
\* without a correction, however the answers of the room and a loss of the connection fall.
THEOREM PredictionsAlwaysHonest == LedgerSpec => PredictionsAreHonest
<1>1. LedgerInv /\ [LedgerNext]_ledgerVars =>
        [Deliver /\ sequenced[pos + 1].id \in Ids(ledger)
           /\ Accepts(confirmed, Me, sequenced[pos + 1].action) => displayed' = displayed]_ledgerVars
  BY AcceptanceShowsNothing
<1>2. LedgerInv /\ [LedgerNext]_ledgerVars =>
        [/\ Deliver \/ Lose
         /\ displayed' # displayed
         /\ \E id \in Ids(ledger) \ Ids(ledger') :
              ~(Deliver /\ sequenced[pos + 1].id = id /\ Accepts(confirmed, Me, sequenced[pos + 1].action))
         => told']_ledgerVars
  BY LossesAreTold
<1> QED BY <1>1, <1>2, LedgerInvHolds, PTL DEF LedgerSpec, PredictionsAreHonest, AcceptanceIsInvisible, NoSilentRollback

-----------------------------------------------------------------------------
(***************************************************************************)
(* The trial of a draft.                                                   *)
(***************************************************************************)
Left(left, x, out) == IF x \in out THEN left ELSE Append(left, x)

IsWithout(f, seq, out) ==
  /\ f[0] = << >>
  /\ \A i \in 1 .. Len(seq) : f[i] = Left(f[i - 1], seq[i], out)

LEMMA LeftType ==
  ASSUME NEW E, NEW left \in Seq(E), NEW x \in E, NEW out
  PROVE  Left(left, x, out) \in Seq(E)
BY DEF Left

LEMMA WithoutIterates ==
  ASSUME NEW E, NEW out, NEW seq \in Seq(E)
  PROVE  \E f \in [0 .. Len(seq) -> Seq(E)] : IsWithout(f, seq, out) /\ Without(seq, out) = f[Len(seq)]
<1> DEFINE n == Len(seq)
           start == << >>
           h == [x \in Seq(E) \X (1 .. n) |-> Left(x[1], seq[x[2]], out)]
           Body(g) == [s \in SUBSET DOMAIN seq |-> IF s = {} THEN start ELSE Left(g[s \ {Max(s)}], seq[Max(s)], out)]
           G == CHOOSE g : g = Body(g)
<1>1. n \in Nat /\ DOMAIN seq = 1 .. n /\ start \in Seq(E) /\ \A i \in 1 .. n : seq[i] \in E
  OBVIOUS
<1>2. h \in [Seq(E) \X (1 .. n) -> Seq(E)]
  <2> SUFFICES ASSUME NEW x \in Seq(E) \X (1 .. n)
               PROVE  Left(x[1], seq[x[2]], out) \in Seq(E)
    OBVIOUS
  <2> QED BY <1>1, LeftType
<1>3. \A r \in Seq(E), i \in 1 .. n : h[<<r, i>>] = Left(r, seq[i], out)
  OBVIOUS
<1>4. Without(seq, out) = G[DOMAIN seq]
  BY DEF Without, Left, FoldLeft, MapThenFoldSet
<1> HIDE DEF h, n, start
<1>5. ASSUME NEW s \in SUBSET (1 .. n), s # {}
      PROVE  Max(s) \in 1 .. n
  BY <1>1, <1>5, GreatestOf
<1>6. PICK g \in [SUBSET (1 .. n) -> Seq(E)] : IsFoldUp(g, n, start, h)
  BY <1>1, <1>2, FoldUpExists
<1>7. g = Body(g)
  <2>1. ASSUME NEW s \in SUBSET (1 .. n)
        PROVE  g[s] = IF s = {} THEN start ELSE Left(g[s \ {Max(s)}], seq[Max(s)], out)
    BY <1>3, <1>5, <1>6 DEF IsFoldUp
  <2> QED BY <1>1, <1>6, <2>1
<1>8. G = Body(G)
  <2> HIDE DEF Body
  <2> QED BY <1>7
<1>9. FoldsUp(G, n, Seq(E), start, h)
  <2> HIDE DEF G
  <2> QED BY <1>1, <1>3, <1>5, <1>8 DEF FoldsUp
<1>10. PICK f \in [0 .. n -> Seq(E)] : ComesTo(G, f, n, start, h)
  <2> HIDE DEF G
  <2> QED BY <1>1, <1>2, <1>9, FoldUp
<1>11. IsWithout(f, seq, out)
  <2>1. \A i \in 1 .. n : f[i - 1] \in Seq(E)
    BY <1>1, <1>10
  <2> QED BY <1>3, <1>10, <2>1 DEF IsWithout, ComesTo, IsIteration, n, start
<1> QED BY <1>1, <1>4, <1>10, <1>11 DEF ComesTo, n

\* What is left is what is not out.
LEMMA WithoutRange ==
  ASSUME NEW E, NEW seq \in Seq(E), NEW out
  PROVE  Without(seq, out) \in Seq(E) /\ Range(Without(seq, out)) = Range(seq) \ out
<1> DEFINE n == Len(seq)
           Kept(k) == {x \in E : x \notin out /\ \E i \in 1 .. k : seq[i] = x}
<1>1. PICK f \in [0 .. n -> Seq(E)] : IsWithout(f, seq, out) /\ Without(seq, out) = f[n]
  BY WithoutIterates
<1>2. n \in Nat /\ \A i \in 1 .. n : seq[i] \in E
  OBVIOUS
<1> DEFINE S == {k \in 0 .. n : Range(f[k]) = Kept(k)}
<1>3. 0 \in S
  <2>1. f[0] = << >> /\ 0 \in 0 .. n
    BY <1>1, <1>2 DEF IsWithout
  <2>2. Range(<< >>) = {} /\ Kept(0) = {}
    BY DEF Range
  <2> QED BY <2>1, <2>2
<1>4. ASSUME NEW k \in 0 .. n - 1, k \in S
      PROVE  k + 1 \in S
  <2>1. k + 1 \in 1 .. n /\ (k + 1) - 1 = k /\ k + 1 \in 0 .. n /\ k \in 0 .. n
    BY <1>2
  <2>2. f[k + 1] = Left(f[k], seq[k + 1], out) /\ f[k] \in Seq(E) /\ seq[k + 1] \in E /\ Range(f[k]) = Kept(k)
    BY <1>1, <1>2, <1>4, <2>1 DEF IsWithout
  <2>3. \A x : (\E i \in 1 .. k + 1 : seq[i] = x) <=> (x = seq[k + 1] \/ \E i \in 1 .. k : seq[i] = x)
    <3>1. \A i : i \in 1 .. k + 1 <=> i = k + 1 \/ i \in 1 .. k
      BY <2>1
    <3> QED BY <3>1, Zenon
  <2>4. CASE seq[k + 1] \in out
    <3>1. Kept(k + 1) = Kept(k) /\ f[k + 1] = f[k]
      BY <2>2, <2>3, <2>4 DEF Left
    <3> QED BY <2>1, <2>2, <3>1
  <2>5. CASE seq[k + 1] \notin out
    <3>1. f[k + 1] = Append(f[k], seq[k + 1])
      BY <2>2, <2>5 DEF Left
    <3>2. Range(f[k + 1]) = Range(f[k]) \cup {seq[k + 1]}
      <4> DEFINE l == f[k]
                 x == seq[k + 1]
      <4>1. l \in Seq(E) /\ x \in E
        BY <2>2
      <4> HIDE DEF l, x
      <4>2. Range(Append(l, x)) = Range(l) \cup {x}
        <5>1. DOMAIN l = 1 .. Len(l) /\ DOMAIN Append(l, x) = 1 .. Len(l) + 1 /\ Len(l) \in Nat
          BY <4>1
        <5>2. Append(l, x)[Len(l) + 1] = x /\ \A i \in 1 .. Len(l) : Append(l, x)[i] = l[i]
          BY <4>1
        <5>3. \A i : i \in 1 .. Len(l) + 1 <=> i = Len(l) + 1 \/ i \in 1 .. Len(l)
          BY <5>1
        <5> QED BY <5>1, <5>2, <5>3, Zenon DEF Range
      <4> QED BY <3>1, <4>2 DEF l, x
    <3>3. Kept(k + 1) = Kept(k) \cup {seq[k + 1]}
      BY <2>2, <2>3, <2>5
    <3> HIDE DEF Kept
    <3> QED BY <2>1, <2>2, <3>2, <3>3
  <2> QED BY <2>4, <2>5
<1> HIDE DEF S
<1>5. \A k \in 0 .. n : k \in S
  BY <1>2, <1>3, <1>4, UpTo
<1>6. Range(f[n]) = Kept(n)
  BY <1>2, <1>5 DEF S
<1>7. Range(seq) \ out = Kept(n)
  BY <1>2 DEF Range
<1> QED BY <1>1, <1>2, <1>6, <1>7

LEMMA FlattenType ==
  ASSUME NEW E, NEW ss \in Seq(Seq(E)), ss # << >>, ss[Len(ss)] # << >>
  PROVE  FlattenSeq(ss) \in Seq(E) /\ FlattenSeq(ss) # << >>
<1> DEFINE n == Len(ss)
           h == [x \in Seq(E) \X (1 .. n) |-> IF x[2] = 1 THEN ss[x[2]] ELSE x[1] \o ss[x[2]]]
           Body(g) == [i \in 1 .. n |-> IF i = 1 THEN ss[i] ELSE g[i - 1] \o ss[i]]
           G == CHOOSE g : g = Body(g)
<1>1. n \in Nat /\ n # 0 /\ n \in 1 .. n /\ << >> \in Seq(E) /\ \A i \in 1 .. n : ss[i] \in Seq(E)
  BY EmptySeq
<1>2. h \in [Seq(E) \X (1 .. n) -> Seq(E)]
  <2>1. \A x \in Seq(E), y \in Seq(E) : x \o y \in Seq(E)
    OBVIOUS
  <2> HIDE DEF n
  <2> QED BY <1>1, <2>1
<1>3. \A x \in Seq(E), i \in 1 .. n : h[<<x, i>>] = IF i = 1 THEN ss[i] ELSE x \o ss[i]
  OBVIOUS
<1>4. FlattenSeq(ss) = G[n]
  BY <1>1 DEF FlattenSeq
<1> HIDE DEF h, n
<1>5. PICK f \in [0 .. n -> Seq(E)] : IsIteration(f, n, << >>, h)
  BY <1>1, <1>2, Iterates
<1> DEFINE g == [i \in 1 .. n |-> f[i]]
<1>6. \A i \in 1 .. n : i - 1 \in 0 .. n /\ (i # 1 => i - 1 \in 1 .. n) /\ i \in 0 .. n
  BY <1>1
<1>7. ASSUME NEW i \in 1 .. n
      PROVE  g[i] = IF i = 1 THEN ss[i] ELSE g[i - 1] \o ss[i]
  <2>1. f[i] = h[<<f[i - 1], i>>] /\ f[i - 1] \in Seq(E)
    BY <1>5, <1>6 DEF IsIteration
  <2>2. f[i] = IF i = 1 THEN ss[i] ELSE f[i - 1] \o ss[i]
    BY <1>3, <2>1
  <2>3. i # 1 => g[i - 1] = f[i - 1]
    BY <1>6
  <2> QED BY <2>2, <2>3
<1>8. g = Body(g)
  <2>1. g \in [1 .. n -> Seq(E)]
    BY <1>5, <1>6
  <2> HIDE DEF g
  <2> QED BY <1>7, <2>1
<1>9. G = Body(G)
  <2> HIDE DEF Body
  <2> QED BY <1>8
<1>10. \A i \in 1 .. n : G[i] = IF i = 1 THEN ss[i] ELSE G[i - 1] \o ss[i]
  <2> HIDE DEF G
  <2> QED BY <1>9
<1> HIDE DEF G
<1> DEFINE S == {k \in 0 .. n : k # 0 => G[k] \in Seq(E)}
<1>11. 0 \in S
  BY <1>1
<1>12. ASSUME NEW k \in 0 .. n - 1, k \in S
       PROVE  k + 1 \in S
  <2>1. k + 1 \in 1 .. n /\ (k + 1) - 1 = k /\ k + 1 \in 0 .. n
    BY <1>1
  <2>2. G[k + 1] = IF k + 1 = 1 THEN ss[k + 1] ELSE G[k] \o ss[k + 1]
    BY <1>10, <2>1
  <2>3. ss[k + 1] \in Seq(E)
    BY <1>1, <2>1
  <2>4. CASE k = 0
    BY <2>1, <2>2, <2>3, <2>4
  <2>5. CASE k # 0
    <3>1. G[k] \in Seq(E) /\ G[k + 1] = G[k] \o ss[k + 1]
      <4>1. k + 1 # 1
        BY <1>1, <2>5
      <4> QED BY <1>12, <2>2, <2>5, <4>1 DEF S
    <3>2. G[k] \o ss[k + 1] \in Seq(E)
      BY <2>3, <3>1
    <3> QED BY <2>1, <3>1, <3>2
  <2> QED BY <2>4, <2>5
<1> HIDE DEF S
<1>13. \A k \in 0 .. n : k \in S
  BY <1>1, <1>11, <1>12, UpTo
<1>14. G[n] \in Seq(E)
  BY <1>1, <1>13 DEF S
<1>15. G[n] # << >>
  <2>1. CASE n = 1
    <3>1. G[1] = ss[1]
      BY <1>1, <1>10, <2>1
    <3> QED BY <2>1, <3>1 DEF n
  <2>2. CASE n # 1
    <3>1. n - 1 \in 0 .. n /\ n - 1 # 0
      BY <1>1, <2>2
    <3>2. G[n - 1] \in Seq(E)
      BY <1>13, <3>1 DEF S
    <3>3. G[n] = G[n - 1] \o ss[n] /\ ss[n] \in Seq(E) /\ ss[n] # << >>
      BY <1>1, <1>10, <2>2 DEF n
    <3>4. \A x \in Seq(E), y \in Seq(E) : y # << >> => x \o y # << >>
      <4> SUFFICES ASSUME NEW x \in Seq(E), NEW y \in Seq(E), y # << >>
                   PROVE  Len(x \o y) # 0
        OBVIOUS
      <4>1. Len(x) \in Nat /\ Len(y) \in Nat /\ Len(y) # 0 /\ Len(x \o y) = Len(x) + Len(y)
        OBVIOUS
      <4> QED BY <4>1
    <3> QED BY <3>2, <3>3, <3>4
  <2> QED BY <2>1, <2>2
<1> QED BY <1>4, <1>14, <1>15

-----------------------------------------------------------------------------
Acts == [by : Nat, act : Range(Things) \cup {"none", "answer", "fire"}, id : Nat]
Maps == UNION {[s -> Nat] : s \in SUBSET Nat}
Boards == [players : Nat, cards : Int, turn : Nat, open : Maps, questions : SUBSET (1 .. MaxQuestions), timers : SUBSET Nat,
           fuses : SUBSET Nat, winner : BOOLEAN]
Times == [whole : Nat, part : 0 .. Parts - 1]
Stamps == UNION {[s -> Times] : s \in SUBSET Nat}
Drivers == [due : Maps, promised : Stamps, clock : Nat, tried : SUBSET Acts, visits : [AllPlays -> Nat], step : Nat, moved : BOOLEAN,
            played : Acts, steady : SUBSET AllPlays]
Trials == [stage : {"checked", "start", "join", "play", "over"}, count : Nat, late : BOOLEAN, last : BOOLEAN,
           progress : BOOLEAN, won : BOOLEAN, failed : BOOLEAN, limited : BOOLEAN,
           stopped : {"action_limit", "script_error", "winner", "no_actions"}]

TrialTyped == board \in Boards /\ driver \in Drivers /\ trial \in Trials

\* The driver d knows each timer of the table b, by the second in which its time falls.
Upward(time) == time.whole + (IF time.part = 0 THEN 0 ELSE 1)
Timed(d, b) ==
  /\ DOMAIN d.due = b.timers /\ DOMAIN d.promised = b.timers
  /\ \A f \in b.timers : d.due[f] = Upward(d.promised[f])

\* The table's own bookkeeping; and the driver knows each timer of the table.
BoardIsSound ==
  /\ board.turn <= board.players /\ board.players <= MaxPlayers
  /\ DOMAIN board.open \subseteq board.questions /\ board.timers \subseteq board.fuses
  /\ Timed(driver, board)

StageIsSound ==
  /\ trial.stage = "checked" =>
       authored \in Drafts /\ verdict = checkDraftQuality(authored) /\ board.players = 0 /\ ~trial.failed
  /\ trial.stage # "checked" => 1 <= board.players /\ board.players <= trial.count /\ trial.count <= MaxPlayers
  /\ trial.stage = "join" => board.players < trial.count
  /\ trial.stopped = "no_actions" => trial.stage = "over"

\* An answer that came to nothing ends the session.
AnswersMove ==
  ~trial.failed /\ ~driver.moved => \A c \in driver.tried : c.act # "answer"

\* What was tried on this table is ahead of what was not.
TriedAreAhead ==
  ~driver.moved =>
    \A c, d \in driver.steady : d \in driver.tried /\ c \notin driver.tried => driver.visits[c] <= driver.visits[d]

TrialInv ==
  /\ TrialTyped /\ BoardIsSound /\ StageIsSound /\ AnswersMove /\ TriedAreAhead
  /\ StallsAreReal /\ NoOptionStarves

-----------------------------------------------------------------------------
ThingNames == {"button", "deck", "die"}

LEMMA PlaysAreActs ==
  /\ AllPlays \subseteq Acts /\ Range(Things) = ThingNames
  /\ \A c \in AllPlays : c.act \in ThingNames /\ c.by \in 1 .. MaxPlayers /\ c.id = 0
  /\ \A p \in 1 .. MaxPlayers, thing \in ThingNames : Play(p, thing) \in AllPlays
<1>1. Range(Things) = ThingNames
  BY DEF Range, Things, ThingNames
<1>2. MaxPlayers \in Nat /\ System = 0
  BY TrialAssumption DEF System
<1>3. AllPlays = {Play(p, thing) : p \in 1 .. MaxPlayers, thing \in ThingNames}
  BY <1>1 DEF AllPlays
<1>4. ASSUME NEW p \in 1 .. MaxPlayers, NEW thing \in ThingNames
      PROVE  /\ Play(p, thing) \in Acts /\ Play(p, thing).act = thing
             /\ Play(p, thing).by = p /\ Play(p, thing).id = 0
  <2>1. p \in Nat /\ 0 \in Nat /\ thing \in Range(Things) \cup {"none", "answer", "fire"}
    BY <1>1, <1>2
  <2> QED BY <2>1 DEF Play, Acts
<1> QED BY <1>1, <1>3, <1>4

\* Whoever may act may press the button.
LEMMA OptionsThereAre ==
  ASSUME NEW b \in Boards, 1 <= b.players, b.players <= MaxPlayers, b.turn <= b.players, NEW last \in BOOLEAN
  PROVE  PlayerOptions(b, last) \in Seq(AllPlays) /\ PlayerOptions(b, last) # << >>
<1> DEFINE out == IF b.cards > 0 THEN {} ELSE {"deck"}
           order == IF last THEN Reverse(Things) ELSE Things
           things == Without(order, out)
           actors == IF b.turn # System THEN <<b.turn>> ELSE [p \in 1 .. b.players |-> p]
           table == [i \in DOMAIN actors |-> [j \in DOMAIN things |-> Play(actors[i], things[j])]]
<1>1. order \in Seq(ThingNames) /\ "button" \in Range(order) /\ "button" \notin out
  <2>1. Things \in Seq(ThingNames) /\ Reverse(Things) \in Seq(ThingNames)
    BY DEF Things, ThingNames, Reverse
  <2>2. Things[1] = "button" /\ Reverse(Things)[3] = "button" /\ DOMAIN Things = 1 .. 3 /\ DOMAIN Reverse(Things) = 1 .. 3
    BY DEF Things, Reverse
  <2>3. "button" \in Range(Things) /\ "button" \in Range(Reverse(Things))
    <3>1. 1 \in 1 .. 3 /\ 3 \in 1 .. 3
      OBVIOUS
    <3> QED BY <2>2, <3>1, Zenon DEF Range
  <2> QED BY <2>1, <2>3
<1> HIDE DEF out, order
<1>2. things \in Seq(ThingNames) /\ "button" \in Range(things)
  <2>1. things \in Seq(ThingNames) /\ Range(things) = Range(order) \ out
    BY <1>1, WithoutRange
  <2> QED BY <1>1, <2>1
<1> HIDE DEF things
<1>3. DOMAIN things = 1 .. Len(things) /\ Len(things) \in Nat /\ Len(things) # 0 /\ \A j \in 1 .. Len(things) : things[j] \in ThingNames
  <2>1. PICK j \in DOMAIN things : things[j] = "button"
    BY <1>2 DEF Range
  <2> QED BY <1>2, <2>1
<1>4. b.players \in Nat /\ b.turn \in Nat /\ MaxPlayers \in Nat
  BY TrialAssumption DEF Boards
<1>5. /\ DOMAIN actors = 1 .. Len(actors) /\ Len(actors) \in Nat /\ Len(actors) # 0
      /\ \A i \in 1 .. Len(actors) : actors[i] \in 1 .. MaxPlayers
  <2>1. CASE b.turn # System
    <3>1. actors = <<b.turn>> /\ b.turn \in 1 .. MaxPlayers
      BY <1>4, <2>1 DEF System
    <3> HIDE DEF actors
    <3> QED BY <3>1
  <2>2. CASE b.turn = System
    <3>1. actors = [p \in 1 .. b.players |-> p]
      BY <2>2
    <3> HIDE DEF actors
    <3>2. Len(actors) = b.players
      BY <1>4, <3>1
    <3>3. \A i \in 1 .. Len(actors) : actors[i] = i
      BY <1>4, <3>1, <3>2
    <3> QED BY <1>4, <3>1, <3>2, <3>3
  <2> QED BY <2>1, <2>2
<1> HIDE DEF actors
<1>6. ASSUME NEW i \in 1 .. Len(actors)
      PROVE  table[i] \in Seq(AllPlays) /\ table[i] # << >>
  <2>1. table[i] = [j \in 1 .. Len(things) |-> Play(actors[i], things[j])]
    BY <1>3, <1>5
  <2>2. \A j \in 1 .. Len(things) : Play(actors[i], things[j]) \in AllPlays
    BY <1>3, <1>5, PlaysAreActs
  <2> HIDE DEF table
  <2>3. table[i] \in [1 .. Len(things) -> AllPlays]
    BY <2>1, <2>2
  <2>4. table[i] \in Seq(AllPlays)
    BY <1>3, <2>3
  <2>5. Len(table[i]) = Len(things)
    BY <1>3, <2>1
  <2> QED BY <1>3, <2>4, <2>5
<1>7. table \in Seq(Seq(AllPlays)) /\ Len(table) = Len(actors)
  <2>1. DOMAIN table = 1 .. Len(actors)
    BY <1>5
  <2>2. table \in [1 .. Len(actors) -> Seq(AllPlays)]
    BY <1>5, <1>6
  <2> HIDE DEF table
  <2> QED BY <1>5, <2>1, <2>2
<1>8. Len(actors) \in 1 .. Len(actors)
  BY <1>5
<1>9. table # << >> /\ table[Len(table)] # << >>
  <2> HIDE DEF table
  <2> QED BY <1>5, <1>6, <1>7, <1>8
<1>10. FlattenSeq(table) \in Seq(AllPlays) /\ FlattenSeq(table) # << >>
  <2> HIDE DEF table
  <2> QED BY <1>7, <1>9, FlattenType
<1> QED BY <1>10 DEF PlayerOptions, table, actors, things, order, out

LEMMA ListedThereAre ==
  ASSUME NEW b \in Boards, 1 <= b.players, b.players <= MaxPlayers, b.turn <= b.players, NEW last \in BOOLEAN
  PROVE  Listed(b, last) \in Seq(AllPlays) /\ Range(Listed(b, last)) # {} /\ Range(Listed(b, last)) \subseteq AllPlays
<1> DEFINE all == PlayerOptions(b, last)
           n == IF Len(all) < CandidateLimit THEN Len(all) ELSE CandidateLimit
<1>1. all \in Seq(AllPlays) /\ all # << >>
  BY OptionsThereAre
<1> HIDE DEF all
<1>2. Len(all) \in Nat /\ Len(all) # 0 /\ CandidateLimit \in Nat /\ CandidateLimit # 0
  BY <1>1, TrialAssumption
<1>3. n \in Nat /\ n # 0 /\ n <= Len(all)
  BY <1>2
<1> HIDE DEF n
<1>4. SubSeq(all, 1, n) \in Seq(AllPlays) /\ Len(SubSeq(all, 1, n)) = n
  BY <1>1, <1>2, <1>3
<1>5. Listed(b, last) = SubSeq(all, 1, n)
  BY DEF Listed, all, n
<1>6. \A s \in Seq(AllPlays) : Len(s) = n => Range(s) # {} /\ Range(s) \subseteq AllPlays
  <2> SUFFICES ASSUME NEW s \in Seq(AllPlays), Len(s) = n
               PROVE  Range(s) # {} /\ Range(s) \subseteq AllPlays
    OBVIOUS
  <2>1. DOMAIN s = 1 .. n /\ 1 \in 1 .. n /\ \A i \in 1 .. n : s[i] \in AllPlays
    BY <1>3
  <2> QED BY <2>1, Zenon DEF Range
<1> QED BY <1>4, <1>5, <1>6

\* The option with the fewest visits, the first of them.
LEMMA LeastVisitedIs ==
  ASSUME NEW options \in Seq(AllPlays), options # << >>, driver \in Drivers
  PROVE  /\ LeastVisited(options) \in Range(options)
         /\ \A c \in Range(options) : driver.visits[LeastVisited(options)] <= driver.visits[c]
<1> DEFINE n == Len(options)
           fewest(i) == \A j \in DOMAIN options : driver.visits[options[i]] <= driver.visits[options[j]]
           All == {i \in DOMAIN options : fewest(i)}
           Counts == {driver.visits[options[i]] : i \in DOMAIN options}
<1>1. DOMAIN options = 1 .. n /\ n \in Nat /\ n # 0 /\ \A i \in 1 .. n : options[i] \in AllPlays
  OBVIOUS
<1>2. \A c \in AllPlays : driver.visits[c] \in Nat
  BY DEF Drivers
<1>3. Counts \subseteq Nat /\ Counts # {}
  BY <1>1, <1>2
<1>4. PICK least \in Counts : \A k \in Counts : least <= k
  <2> HIDE DEF Counts
  <2> QED BY <1>3, Least
<1>5. All # {} /\ All \subseteq Nat
  <2>1. PICK i \in DOMAIN options : least = driver.visits[options[i]]
    BY <1>4
  <2>2. \A j \in DOMAIN options : driver.visits[options[j]] \in Counts
    OBVIOUS
  <2>3. fewest(i)
    <3> HIDE DEF Counts
    <3> QED BY <1>4, <2>1, <2>2
  <2>4. i \in All
    BY <2>3
  <2>5. All \subseteq 1 .. n
    <3> HIDE DEF fewest
    <3> QED BY <1>1
  <2>6. 1 .. n \subseteq Nat
    OBVIOUS
  <2> HIDE DEF All, n
  <2> QED BY <2>4, <2>5, <2>6
<1>6. PICK i \in All : \A k \in All : i <= k
  <2> HIDE DEF All
  <2> QED BY <1>5, Least
<1> DEFINE First(k) == fewest(k) /\ \A j \in 1 .. k - 1 : ~fewest(j)
<1>7. i \in DOMAIN options /\ fewest(i) /\ \A j \in 1 .. i - 1 : ~fewest(j)
  <2>1. i \in 1 .. n /\ fewest(i)
    BY <1>1, <1>6
  <2>2. ASSUME NEW j \in 1 .. i - 1, fewest(j)
        PROVE  FALSE
    <3>1. j \in 1 .. n /\ j < i
      BY <2>1, <1>1
    <3>2. j \in All
      BY <1>1, <2>2, <3>1
    <3> HIDE DEF All
    <3> QED BY <1>6, <3>1, <3>2, <2>1
  <2> QED BY <1>1, <2>1, <2>2
<1> DEFINE m == CHOOSE k \in DOMAIN options : First(k)
<1>8. m \in DOMAIN options /\ First(m)
  <2> HIDE DEF fewest
  <2> QED BY <1>7
<1>9. LeastVisited(options) = options[m]
  BY DEF LeastVisited
<1> HIDE DEF m
<1> QED BY <1>8, <1>9 DEF Range

\* Of the timers that the driver knows, one that is due no later than any other.
LEMMA NextTimerIs ==
  ASSUME NEW scheduled, scheduled \subseteq DOMAIN driver.due, scheduled # {}, driver \in Drivers
  PROVE  /\ NextTimer(scheduled) \in scheduled
         /\ \A f \in scheduled : driver.due[NextTimer(scheduled)] <= driver.due[f]
<1> DEFINE Seconds == {driver.due[f] : f \in scheduled}
<1>1. DOMAIN driver.due \subseteq Nat /\ \A f \in DOMAIN driver.due : driver.due[f] \in Nat
  <2>1. PICK s \in SUBSET Nat : driver.due \in [s -> Nat]
    BY DEF Drivers, Maps
  <2> QED BY <2>1
<1>2. Seconds \subseteq Nat /\ Seconds # {}
  BY <1>1
<1>3. PICK time \in Seconds : \A k \in Seconds : time <= k
  <2> HIDE DEF Seconds
  <2> QED BY <1>2, Least
<1> DEFINE Firsts == {f \in scheduled : driver.due[f] = time}
<1>4. Firsts \subseteq Nat /\ Firsts # {}
  BY <1>1, <1>3
<1>5. PICK f \in Firsts : \A g \in Firsts : f <= g
  <2> HIDE DEF Firsts
  <2> QED BY <1>4, Least
<1> DEFINE Next1(h) == \A g \in scheduled :
                         driver.due[h] < driver.due[g] \/ (driver.due[h] = driver.due[g] /\ h <= g)
<1>6. f \in scheduled /\ Next1(f)
  <2>1. f \in scheduled /\ driver.due[f] = time
    BY <1>5
  <2>2. ASSUME NEW g \in scheduled
        PROVE  driver.due[f] < driver.due[g] \/ (driver.due[f] = driver.due[g] /\ f <= g)
    <3>1. driver.due[g] \in Nat /\ driver.due[f] \in Nat /\ driver.due[f] <= driver.due[g]
      BY <1>1, <1>3, <2>1
    <3>2. driver.due[g] = time => f <= g
      BY <1>5
    <3> QED BY <2>1, <3>1, <3>2
  <2> QED BY <2>1, <2>2
<1> DEFINE m == CHOOSE h \in scheduled : Next1(h)
<1>7. m \in scheduled /\ Next1(m)
  <2> HIDE DEF Next1
  <2> QED BY <1>6
<1>8. NextTimer(scheduled) = m
  BY DEF NextTimer
<1> HIDE DEF m
<1>9. \A g \in scheduled : driver.due[m] <= driver.due[g]
  BY <1>1, <1>7
<1> QED BY <1>7, <1>8, <1>9

-----------------------------------------------------------------------------
\* What a step of a session can be.
Playing == TrialInv /\ trial.stage # "checked"
ListedNow == Range(Listed(board, trial.last))

NothingLeft(c) ==
  /\ c = NoAct /\ Scheduled = {} /\ ListedNow \subseteq Tried
  /\ \A q \in DOMAIN board.open : Respond(q) \in Tried
Answers(c) == \E q \in DOMAIN board.open : c = Respond(q)
FiresNext(c) ==
  /\ c = Fire(NextTimer(Scheduled)) /\ NextTimer(Scheduled) \in board.timers
  /\ \A f \in board.timers : f \in DOMAIN driver.due /\ driver.due[NextTimer(Scheduled)] <= driver.due[f]
PlaysLeast(c) ==
  /\ c \in ListedNow /\ c \notin Tried
  /\ \A d \in ListedNow : d \notin Tried => driver.visits[c] <= driver.visits[d]

LEMMA ActsDiffer ==
  /\ \A f : Fire(f).act = "fire" /\ Fire(f).id = f
  /\ \A q : Respond(q).act = "answer" /\ Respond(q).id = q
  /\ NoAct.act = "none" /\ \A c \in AllPlays : c.act \in ThingNames
BY PlaysAreActs DEF Fire, Respond, NoAct, ThingNames

LEMMA DomainsAreNumbers ==
  ASSUME TrialInv
  PROVE  /\ DOMAIN board.open \subseteq board.questions /\ board.questions \subseteq 1 .. MaxQuestions
         /\ MaxQuestions \in Nat /\ DOMAIN board.open \subseteq Nat
         /\ board.timers \subseteq board.fuses /\ board.timers \subseteq Nat
         /\ DOMAIN driver.due = board.timers /\ Scheduled = board.timers
         /\ DOMAIN driver.promised = board.timers
         /\ \A f \in board.timers : driver.promised[f] \in Times /\ driver.due[f] = Upward(driver.promised[f])
         /\ board \in Boards /\ driver \in Drivers /\ trial \in Trials
         /\ \A q \in DOMAIN board.open : board.open[q] \in Nat
         /\ \A f \in DOMAIN driver.due : driver.due[f] \in Nat
<1>1. board \in Boards /\ driver \in Drivers /\ trial \in Trials
  BY DEF TrialInv, TrialTyped
<1>2. /\ board.open \in Maps /\ driver.due \in Maps /\ driver.promised \in Stamps
      /\ board.questions \subseteq 1 .. MaxQuestions /\ MaxQuestions \in Nat
  BY <1>1, TrialAssumption DEF Boards, Drivers
<1>3. PICK s \in SUBSET Nat : board.open \in [s -> Nat]
  BY <1>2 DEF Maps
<1>4. PICK u \in SUBSET Nat : driver.due \in [u -> Nat]
  BY <1>2 DEF Maps
<1>5. DOMAIN board.open \subseteq board.questions /\ board.timers \subseteq board.fuses
      /\ DOMAIN driver.due = board.timers /\ DOMAIN driver.promised = board.timers
      /\ \A f \in board.timers : driver.due[f] = Upward(driver.promised[f])
  BY DEF TrialInv, BoardIsSound, Timed
<1>6. Scheduled = board.timers
  BY <1>5 DEF Scheduled
<1>7. PICK v \in SUBSET Nat : driver.promised \in [v -> Times]
  BY <1>2 DEF Stamps
<1> QED BY <1>1, <1>2, <1>3, <1>4, <1>5, <1>6, <1>7

LEMMA ListedNowIs ==
  ASSUME Playing
  PROVE  /\ Listed(board, trial.last) \in Seq(AllPlays)
         /\ ListedNow # {} /\ ListedNow \subseteq AllPlays
<1>1. board \in Boards /\ trial.last \in BOOLEAN /\ MaxPlayers \in Nat
  BY TrialAssumption DEF Playing, TrialInv, TrialTyped, Trials
<1>2. 1 <= board.players /\ board.players <= MaxPlayers /\ board.turn <= board.players
  BY DEF Playing, TrialInv, StageIsSound, BoardIsSound
<1> QED BY <1>1, <1>2, ListedThereAre DEF ListedNow

LEMMA ChoiceIs ==
  ASSUME Playing
  PROVE  NothingLeft(Choice) \/ Answers(Choice) \/ FiresNext(Choice) \/ PlaysLeast(Choice)
<1> DEFINE questions == Questions
           options == Without(Listed(board, trial.last), Tried)
           asked == CHOOSE q \in questions : \A r \in questions : IF trial.last THEN r <= q ELSE q <= r
<1>1. TrialInv
  BY DEF Playing
<1>2. options \in Seq(AllPlays) /\ Range(options) = ListedNow \ Tried
  BY ListedNowIs, WithoutRange DEF ListedNow
<1>3. Choice = IF questions # {} THEN Respond(asked)
               ELSE IF Scheduled # {} /\ driver.due[NextTimer(Scheduled)] <= driver.clock THEN Fire(NextTimer(Scheduled))
               ELSE IF options # << >> THEN LeastVisited(options)
               ELSE IF Scheduled # {} THEN Fire(NextTimer(Scheduled)) ELSE NoAct
  BY DEF Choice, TimerIsDue
<1>10. questions \subseteq DOMAIN board.open /\ \A q \in DOMAIN board.open : q \notin questions => Respond(q) \in Tried
  BY DEF Questions
<1>4. questions # {} => asked \in questions
  <2> SUFFICES ASSUME questions # {}
               PROVE  asked \in questions
    OBVIOUS
  <2>1. questions \subseteq Nat /\ questions \subseteq 1 .. MaxQuestions /\ MaxQuestions \in Nat
    BY <1>1, <1>10, DomainsAreNumbers
  <2> HIDE DEF questions
  <2>2. \E q \in questions : \A r \in questions : q <= r
    BY <2>1, Least
  <2>3. \E q \in questions : \A r \in questions : r <= q
    BY <2>1, GreatestOf
  <2>4. \E q \in questions : \A r \in questions : IF trial.last THEN r <= q ELSE q <= r
    BY <2>2, <2>3
  <2> QED BY <2>4
<1> HIDE DEF asked
<1>5. Scheduled # {} => FiresNext(Fire(NextTimer(Scheduled)))
  <2>1. Scheduled = board.timers /\ board.timers = DOMAIN driver.due /\ driver \in Drivers
    BY <1>1, DomainsAreNumbers
  <2> QED BY <2>1, NextTimerIs DEF FiresNext
<1>6. options # << >> => PlaysLeast(LeastVisited(options))
  <2> SUFFICES ASSUME options # << >>
               PROVE  PlaysLeast(LeastVisited(options))
    OBVIOUS
  <2>1. driver \in Drivers
    BY <1>1, DomainsAreNumbers
  <2> HIDE DEF options
  <2>2. /\ LeastVisited(options) \in Range(options)
        /\ \A c \in Range(options) : driver.visits[LeastVisited(options)] <= driver.visits[c]
    BY <1>2, <2>1, LeastVisitedIs
  <2> QED BY <1>2, <2>2 DEF PlaysLeast
<1>7. options = << >> => ListedNow \subseteq Tried
  <2>1. Range(<< >>) = {}
    BY DEF Range
  <2> HIDE DEF options
  <2> QED BY <1>2, <2>1
<1> HIDE DEF questions
<1>8. CASE questions # {}
  <2>1. Choice = Respond(asked) /\ asked \in DOMAIN board.open
    BY <1>3, <1>4, <1>8, <1>10
  <2> QED BY <2>1 DEF Answers
<1>9. CASE questions = {}
  <2>1. \A q \in DOMAIN board.open : Respond(q) \in Tried
    BY <1>9, <1>10
  <2> HIDE DEF options, questions
  <2>2. CASE Scheduled # {} /\ driver.due[NextTimer(Scheduled)] <= driver.clock
    BY <1>3, <1>5, <1>9, <2>2
  <2>3. CASE ~(Scheduled # {} /\ driver.due[NextTimer(Scheduled)] <= driver.clock) /\ options # << >>
    BY <1>3, <1>6, <1>9, <2>3
  <2>4. CASE ~(Scheduled # {} /\ driver.due[NextTimer(Scheduled)] <= driver.clock) /\ options = << >>
    <3>1. CASE Scheduled # {}
      BY <1>3, <1>5, <1>9, <2>4, <3>1
    <3>2. CASE Scheduled = {}
      BY <1>3, <1>7, <1>9, <2>1, <2>4, <3>2 DEF NothingLeft
    <3> QED BY <3>1, <3>2
  <2> QED BY <2>2, <2>3, <2>4
<1> QED BY <1>8, <1>9

-----------------------------------------------------------------------------
\* What a script makes of a table is a table.
SoundBoard(b) ==
  /\ b \in Boards /\ b.turn <= b.players /\ DOMAIN b.open \subseteq b.questions /\ b.timers \subseteq b.fuses

\* r is what came of b: a prompt that is not open stays answered.
Follows(r, b) ==
  /\ r.progress \in BOOLEAN /\ SoundBoard(r.board) /\ r.board.players = b.players
  /\ \A q \in b.questions : q \notin DOMAIN b.open => q \notin DOMAIN r.board.open

LEMMA ReactionsFollow ==
  ASSUME NEW b, SoundBoard(b), NEW r \in Reactions(b)
  PROVE  Follows(r, b)
<1>1. /\ b \in Boards /\ b.turn \in Nat /\ b.players \in Nat /\ b.open \in Maps
      /\ b.turn <= b.players /\ DOMAIN b.open \subseteq b.questions /\ b.timers \subseteq b.fuses
      /\ b.timers \in SUBSET Nat /\ b.fuses \in SUBSET Nat /\ b.questions \in SUBSET (1 .. MaxQuestions)
  BY DEF SoundBoard, Boards
<1>2. CASE r \in {[board |-> b, progress |-> FALSE], [board |-> b, progress |-> TRUE],
                  [board |-> [b EXCEPT !.winner = TRUE], progress |-> TRUE]}
  <2>0. \/ r = [board |-> b, progress |-> FALSE]
        \/ r = [board |-> b, progress |-> TRUE]
        \/ r = [board |-> [b EXCEPT !.winner = TRUE], progress |-> TRUE]
    BY <1>2, Zenon
  <2>1. (r.board = b \/ r.board = [b EXCEPT !.winner = TRUE]) /\ r.progress \in BOOLEAN
    <3>1. CASE r = [board |-> b, progress |-> FALSE]
      BY <3>1
    <3>2. CASE r = [board |-> b, progress |-> TRUE]
      BY <3>2
    <3>3. CASE r = [board |-> [b EXCEPT !.winner = TRUE], progress |-> TRUE]
      <4>1. r.board = [b EXCEPT !.winner = TRUE]
        BY <3>3
      <4>2. r.progress = TRUE
        BY <3>3
      <4> QED BY <4>1, <4>2
    <3> QED BY <2>0, <3>1, <3>2, <3>3
  <2>2. r.progress \in BOOLEAN
    BY <2>1
  <2>3. CASE r.board = b
    BY <2>2, <2>3 DEF Follows, SoundBoard
  <2>4. CASE r.board = [b EXCEPT !.winner = TRUE]
    <3>1. /\ r.board \in Boards /\ r.board.turn = b.turn /\ r.board.players = b.players /\ r.board.open = b.open
          /\ r.board.questions = b.questions /\ r.board.timers = b.timers /\ r.board.fuses = b.fuses
      BY <1>1, <2>4 DEF Boards
    <3> QED BY <1>1, <2>2, <3>1 DEF Follows, SoundBoard
  <2> QED BY <2>1, <2>3, <2>4
<1>3. CASE r \in {[board |-> [b EXCEPT !.turn = p], progress |-> b.turn # p] : p \in 1 .. b.players}
  <2>1. PICK p \in 1 .. b.players : r = [board |-> [b EXCEPT !.turn = p], progress |-> b.turn # p]
    BY <1>3
  <2>2. r.progress \in BOOLEAN
    BY <2>1
  <2>3. r.board = [b EXCEPT !.turn = p] /\ p \in Nat /\ p <= b.players
    BY <1>1, <2>1
  <2>4. /\ r.board \in Boards /\ r.board.turn = p /\ r.board.players = b.players /\ r.board.open = b.open
        /\ r.board.questions = b.questions /\ r.board.timers = b.timers /\ r.board.fuses = b.fuses
    BY <1>1, <2>3 DEF Boards
  <2> QED BY <1>1, <2>2, <2>3, <2>4 DEF Follows, SoundBoard
<1>4. CASE \E p \in 1 .. b.players, n \in (1 .. MaxQuestions) \ b.questions : r = [board |-> Asked(b, p, n), progress |-> FALSE]
  <2>1. PICK p \in 1 .. b.players, n \in (1 .. MaxQuestions) \ b.questions : r = [board |-> Asked(b, p, n), progress |-> FALSE]
    BY <1>4
  <2> DEFINE open == [q \in DOMAIN b.open \cup {n} |-> IF q \in DOMAIN b.open THEN b.open[q] ELSE p]
             questions == b.questions \cup {n}
  <2>2. r.progress \in BOOLEAN /\ r.board = [b EXCEPT !.questions = questions, !.open = open]
    <3>1. Asked(b, p, n) = [b EXCEPT !.questions = questions, !.open = open]
      BY <1>1 DEF Asked, Boards
    <3> QED BY <2>1, <3>1
  <2>3. open \in Maps /\ DOMAIN open \subseteq questions
    <3>1. PICK s \in SUBSET Nat : b.open \in [s -> Nat]
      BY <1>1 DEF Maps
    <3>2. s \cup {n} \in SUBSET Nat
      OBVIOUS
    <3>3. open \in [s \cup {n} -> Nat]
      BY <1>1, <3>1
    <3>4. open \in Maps
      <4> HIDE DEF open
      <4> QED BY <3>2, <3>3 DEF Maps
    <3>5. DOMAIN open = s \cup {n} /\ s \subseteq b.questions
      BY <1>1, <3>1
    <3> HIDE DEF open
    <3> QED BY <3>4, <3>5
  <2>4. DOMAIN open = DOMAIN b.open \cup {n}
    OBVIOUS
  <2>5. questions \in SUBSET (1 .. MaxQuestions) /\ n \notin b.questions /\ b.questions \subseteq questions
    BY <1>1
  <2> HIDE DEF open, questions
  <2>6. /\ r.board \in Boards /\ r.board.turn = b.turn /\ r.board.players = b.players /\ r.board.open = open
        /\ r.board.questions = questions /\ r.board.timers = b.timers /\ r.board.fuses = b.fuses
    BY <1>1, <2>2, <2>3, <2>5 DEF Boards
  <2> QED BY <1>1, <2>2, <2>3, <2>4, <2>5, <2>6 DEF Follows, SoundBoard
<1>5. CASE \E f \in (1 .. MaxFuses) \ b.fuses : r = [board |-> Lit(b, f), progress |-> FALSE]
  <2>1. PICK f \in (1 .. MaxFuses) \ b.fuses : r = [board |-> Lit(b, f), progress |-> FALSE]
    BY <1>5
  <2>2. r.progress \in BOOLEAN /\ r.board = [b EXCEPT !.fuses = b.fuses \cup {f}, !.timers = b.timers \cup {f}]
    <3>1. Lit(b, f) = [b EXCEPT !.fuses = b.fuses \cup {f}, !.timers = b.timers \cup {f}]
      BY <1>1 DEF Lit, Boards
    <3> QED BY <2>1, <3>1
  <2>3. /\ b.timers \cup {f} \subseteq b.fuses \cup {f} /\ b.timers \cup {f} \in SUBSET Nat
        /\ b.fuses \cup {f} \in SUBSET Nat
    BY <1>1
  <2>4. /\ r.board \in Boards /\ r.board.turn = b.turn /\ r.board.players = b.players /\ r.board.open = b.open
        /\ r.board.questions = b.questions /\ r.board.timers = b.timers \cup {f} /\ r.board.fuses = b.fuses \cup {f}
    BY <1>1, <2>2, <2>3 DEF Boards
  <2> QED BY <1>1, <2>2, <2>3, <2>4 DEF Follows, SoundBoard
<1>6. CASE \E f \in b.timers : r = [board |-> [b EXCEPT !.timers = @ \ {f}], progress |-> FALSE]
  <2>1. PICK f \in b.timers : r = [board |-> [b EXCEPT !.timers = @ \ {f}], progress |-> FALSE]
    BY <1>6
  <2>2. r.progress \in BOOLEAN /\ r.board = [b EXCEPT !.timers = b.timers \ {f}]
    BY <2>1
  <2>3. /\ r.board \in Boards /\ r.board.turn = b.turn /\ r.board.players = b.players /\ r.board.open = b.open
        /\ r.board.questions = b.questions /\ r.board.timers = b.timers \ {f} /\ r.board.fuses = b.fuses
    BY <1>1, <2>2 DEF Boards
  <2> QED BY <1>1, <2>2, <2>3 DEF Follows, SoundBoard
<1> QED BY <1>2, <1>3, <1>4, <1>5, <1>6 DEF Reactions

LEMMA ReactionsToFollow ==
  ASSUME NEW b, SoundBoard(b), NEW callback, NEW r \in ReactionsTo(callback, b)
  PROVE  Follows(r, b)
<1>1. CASE r \in Reactions(b)
  BY <1>1, ReactionsFollow
<1>2. CASE r = [board |-> b, progress |-> FALSE]
  BY <1>2 DEF Follows
<1> QED BY <1>1, <1>2 DEF ReactionsTo, Unmoved

\* What a step can be, and what comes of it.
Step(c) == Answers(c) \/ FiresNext(c) \/ PlaysLeast(c)

LEMMA OutcomesFollow ==
  ASSUME Playing, NEW c, Step(c), NEW r \in Outcomes(c)
  PROVE  /\ SoundBoard(r.board) /\ r.progress \in BOOLEAN /\ r.board.players = board.players
         /\ c.act = "answer" => r.board # board
<1>1. TrialInv
  BY DEF Playing
<1>2. board \in Boards /\ SoundBoard(board)
  BY <1>1, DomainsAreNumbers DEF SoundBoard, TrialInv, BoardIsSound
<1>3. ThingNames = {"button", "deck", "die"}
  BY DEF ThingNames
<1>4. CASE Answers(c)
  <2>1. PICK q \in DOMAIN board.open : c = Respond(q)
    BY <1>4 DEF Answers
  <2>2. c.act = "answer" /\ c.id = q
    BY <2>1, ActsDiffer
  <2> DEFINE open == Restrict(board.open, DOMAIN board.open \ {q})
             b == [board EXCEPT !.open = open]
  <2>3. r \in ReactionsTo("on_prompt", b)
    BY <2>2 DEF Outcomes
  <2>4. open \in Maps /\ DOMAIN open = DOMAIN board.open \ {q}
    <3>1. board.open \in Maps
      BY <1>2 DEF Boards
    <3>2. PICK s \in SUBSET Nat : board.open \in [s -> Nat]
      BY <3>1 DEF Maps
    <3>3. open \in [s \ {q} -> Nat] /\ s \ {q} \in SUBSET Nat
      BY <3>2 DEF Restrict
    <3>4. DOMAIN open = DOMAIN board.open \ {q}
      BY <3>2, <3>3
    <3> HIDE DEF open
    <3> QED BY <3>3, <3>4 DEF Maps
  <2> HIDE DEF open
  <2>5. /\ b \in Boards /\ b.turn = board.turn /\ b.players = board.players /\ b.open = open
        /\ b.questions = board.questions /\ b.timers = board.timers /\ b.fuses = board.fuses
    BY <1>2, <2>4 DEF Boards
  <2> HIDE DEF b
  <2>6. SoundBoard(b)
    BY <1>2, <2>4, <2>5 DEF SoundBoard
  <2>7. Follows(r, b)
    BY <2>3, <2>6, ReactionsToFollow
  <2>8. q \in b.questions /\ q \notin DOMAIN b.open
    BY <1>1, <2>1, <2>4, <2>5, DomainsAreNumbers
  <2>9. q \notin DOMAIN r.board.open
    BY <2>7, <2>8 DEF Follows
  <2> QED BY <2>1, <2>5, <2>7, <2>9 DEF Follows
<1>5. CASE FiresNext(c)
  <2>1. c.act = "fire"
    BY <1>5, ActsDiffer DEF FiresNext
  <2> DEFINE b == [board EXCEPT !.timers = @ \ {c.id}]
  <2>2. r \in Reactions(b)
    BY <2>1 DEF Outcomes
  <2>3. /\ b \in Boards /\ b.turn = board.turn /\ b.players = board.players /\ b.open = board.open
        /\ b.questions = board.questions /\ b.timers = board.timers \ {c.id} /\ b.fuses = board.fuses
    BY <1>2 DEF Boards
  <2> HIDE DEF b
  <2>4. SoundBoard(b)
    BY <1>2, <2>3 DEF SoundBoard
  <2>5. Follows(r, b)
    BY <2>2, <2>4, ReactionsFollow
  <2> QED BY <2>1, <2>3, <2>5 DEF Follows
<1>6. CASE PlaysLeast(c)
  <2>1. c.act \in ThingNames
    BY <1>6, ListedNowIs, ActsDiffer DEF PlaysLeast
  <2>2. CASE c.act = "die" \/ c.act = "button"
    <3>1. r \in ReactionsTo("on_roll", board) \/ r \in ReactionsTo("on_press", board)
      BY <2>2 DEF Outcomes
    <3>2. Follows(r, board)
      BY <1>2, <3>1, ReactionsToFollow
    <3> QED BY <2>2, <3>2 DEF Follows
  <2>3. CASE c.act = "deck"
    <3>1. r.board = [board EXCEPT !.cards = @ - 1] /\ r.progress = TRUE
      BY <2>3 DEF Outcomes
    <3>2. /\ r.board \in Boards /\ r.board.turn = board.turn /\ r.board.players = board.players
          /\ r.board.open = board.open /\ r.board.questions = board.questions
          /\ r.board.timers = board.timers /\ r.board.fuses = board.fuses
      BY <1>2, <3>1 DEF Boards
    <3> QED BY <1>2, <2>3, <3>1, <3>2 DEF SoundBoard
  <2> QED BY <1>3, <2>1, <2>2, <2>3
<1> QED BY <1>4, <1>5, <1>6 DEF Step

LEMMA RoundsUp ==
  ASSUME NEW now \in Nat, NEW delay \in Delays
  PROVE  LET time == [whole |-> now + delay.whole, part |-> delay.part] IN
         time \in Times /\ now + Rounded(delay) = Upward(time) /\ now + Rounded(delay) \in Nat
<1> DEFINE w == delay.whole
           q == delay.part
<1>1. delay \in [whole : 0 .. MaxDelay, part : 0 .. Parts - 1] /\ delay # [whole |-> 0, part |-> 0]
  BY DEF Delays
<1>2. w \in Nat /\ q \in 0 .. Parts - 1 /\ Parts \in Nat
  BY <1>1, TrialAssumption
<1>3. ~(w = 0 /\ q = 0)
  BY <1>1
<1>4. Rounded(delay) = IF w + (IF q = 0 THEN 0 ELSE 1) < 1 THEN 1 ELSE w + (IF q = 0 THEN 0 ELSE 1)
  BY DEF Rounded
<1> DEFINE time == [whole |-> now + w, part |-> q]
<1>5. time \in Times /\ time.whole = now + w /\ time.part = q
  BY <1>2 DEF Times
<1> HIDE DEF w, q
<1>6. Rounded(delay) = w + (IF q = 0 THEN 0 ELSE 1)
  BY <1>2, <1>3, <1>4
<1>7. Upward(time) = now + Rounded(delay) /\ now + Rounded(delay) \in Nat
  <2> HIDE DEF time
  <2> QED BY <1>2, <1>5, <1>6 DEF Upward
<1> QED BY <1>5, <1>7 DEF w, q

LEMMA FollowedIs ==
  ASSUME NEW b, NEW known, NEW new, DOMAIN known = board.timers
  PROVE  Followed(known, b, new) = [f \in b.timers |-> IF f \in board.timers THEN known[f] ELSE new]
<1>1. (DOMAIN known \cap b.timers) \cup (b.timers \ board.timers) = b.timers
  OBVIOUS
<1> QED BY <1>1 DEF Followed

\* What the driver keeps of the timers of b, the table that follows.
LEMMA DueIsTimers ==
  ASSUME TrialInv, NEW b, SoundBoard(b), NEW now \in Nat, NEW delay \in Delays
  PROVE  /\ Due(b, now, delay) \in Maps /\ DOMAIN Due(b, now, delay) = b.timers
         /\ Promised(b, now, delay) \in Stamps /\ DOMAIN Promised(b, now, delay) = b.timers
         /\ \A f \in b.timers : Due(b, now, delay)[f] = Upward(Promised(b, now, delay)[f])
<1> DEFINE time == [whole |-> now + delay.whole, part |-> delay.part]
           sharp == now + Rounded(delay)
<1>1. b.timers \in SUBSET Nat
  BY DEF SoundBoard, Boards
<1>2. /\ DOMAIN driver.due = board.timers /\ DOMAIN driver.promised = board.timers
      /\ \A f \in board.timers : driver.due[f] \in Nat /\ driver.promised[f] \in Times
                               /\ driver.due[f] = Upward(driver.promised[f])
  BY DomainsAreNumbers
<1>3. time \in Times /\ sharp \in Nat /\ sharp = Upward(time)
  BY RoundsUp
<1>4. Due(b, now, delay) = Followed(driver.due, b, sharp) /\ Promised(b, now, delay) = Followed(driver.promised, b, time)
  BY DEF Due, Promised
<1> HIDE DEF time, sharp
<1>5. /\ Due(b, now, delay) \in [b.timers -> Nat]
      /\ \A f \in b.timers : Due(b, now, delay)[f] = IF f \in board.timers THEN driver.due[f] ELSE sharp
  <2>1. DOMAIN driver.due = board.timers /\ \A f \in board.timers : driver.due[f] \in Nat
    BY <1>2
  <2>2. Followed(driver.due, b, sharp) = [f \in b.timers |-> IF f \in board.timers THEN driver.due[f] ELSE sharp]
    BY <2>1, FollowedIs
  <2> QED BY <1>3, <1>4, <2>1, <2>2
<1>6. /\ Promised(b, now, delay) \in [b.timers -> Times]
      /\ \A f \in b.timers : Promised(b, now, delay)[f] = IF f \in board.timers THEN driver.promised[f] ELSE time
  <2>1. DOMAIN driver.promised = board.timers /\ \A f \in board.timers : driver.promised[f] \in Times
    BY <1>2
  <2>2. Followed(driver.promised, b, time) = [f \in b.timers |-> IF f \in board.timers THEN driver.promised[f] ELSE time]
    BY <2>1, FollowedIs
  <2> QED BY <1>3, <1>4, <2>1, <2>2
<1>7. \A f \in b.timers : Due(b, now, delay)[f] = Upward(Promised(b, now, delay)[f])
  BY <1>2, <1>3, <1>5, <1>6
<1> QED BY <1>1, <1>5, <1>6, <1>7 DEF Maps, Stamps

-----------------------------------------------------------------------------
\* The step of the loop.
Now(c) == IF c.act = "fire" /\ driver.due[c.id] > driver.clock THEN driver.due[c.id] ELSE driver.clock

\* What every step does with what the driver keeps.
Advances(c) ==
  /\ driver'.tried = Tried \cup {c} /\ driver'.steady = driver.steady \cap ListedNow
  /\ driver'.visits = [d \in AllPlays |-> driver.visits[d] + (IF d = c THEN 1 ELSE 0)]
  /\ driver'.step = driver.step + 1 /\ driver'.played = c /\ driver'.clock = Now(c) + 1

\* What it comes to.
Comes(c) ==
  /\ SoundBoard(board') /\ board'.players = board.players /\ Timed(driver', board')
  /\ driver' \in Drivers /\ trial' \in Trials
  /\ trial'.stage = trial.stage /\ trial'.count = trial.count /\ trial'.stopped = trial.stopped
  /\ trial'.failed \/ driver'.moved \/ c.act # "answer"

LEMMA StepIsAct ==
  ASSUME Playing, NEW c, Step(c)
  PROVE  c \in Acts /\ Now(c) \in Nat
<1>1. TrialInv
  BY DEF Playing
<1>2. DOMAIN board.open \subseteq Nat /\ board.timers \subseteq Nat /\ driver.clock \in Nat
      /\ \A q \in DOMAIN board.open : board.open[q] \in Nat
  BY <1>1, DomainsAreNumbers DEF Drivers
<1>3. c \in Acts
  <2>1. CASE Answers(c)
    <3>1. PICK q \in DOMAIN board.open : c = [by |-> board.open[q], act |-> "answer", id |-> q]
      BY <2>1 DEF Answers, Respond
    <3> QED BY <1>2, <3>1 DEF Acts
  <2>2. CASE FiresNext(c)
    <3>1. PICK f \in board.timers : c = [by |-> 0, act |-> "fire", id |-> f]
      BY <2>2 DEF FiresNext, Fire, System
    <3> QED BY <1>2, <3>1 DEF Acts
  <2>3. CASE PlaysLeast(c)
    BY <2>3, ListedNowIs, PlaysAreActs DEF PlaysLeast
  <2> QED BY <2>1, <2>2, <2>3 DEF Step
<1>4. Now(c) \in Nat
  <2>1. CASE c.act = "fire"
    <3>1. FiresNext(c)
      <4>1. ~Answers(c)
        BY <2>1, ActsDiffer DEF Answers
      <4>2. ~PlaysLeast(c)
        <5>1. PlaysLeast(c) => c.act \in ThingNames
          BY ListedNowIs, ActsDiffer DEF PlaysLeast
        <5> QED BY <2>1, <5>1 DEF ThingNames
      <4> QED BY <4>1, <4>2 DEF Step
    <3>2. c.id \in board.timers
      BY <3>1, ActsDiffer DEF FiresNext
    <3>3. driver.due[c.id] \in Nat
      BY <1>1, <3>2, DomainsAreNumbers
    <3> QED BY <1>2, <3>3 DEF Now
  <2>2. CASE c.act # "fire"
    BY <1>2, <2>2 DEF Now
  <2> QED BY <2>1, <2>2
<1> QED BY <1>3, <1>4

\* The three ways in which a step ends, told apart.
Session(c) == [trial EXCEPT !.limited = Limited]
Stepped(c) ==
  [driver EXCEPT !.clock = Now(c) + 1, !.step = @ + 1, !.played = c, !.moved = FALSE,
     !.tried = Tried \cup {c}, !.visits = [d \in AllPlays |-> @[d] + (IF d = c THEN 1 ELSE 0)],
     !.steady = @ \cap ListedNow]
Applies(c) ==
  \E r \in Outcomes(c), delay \in Delays, face \in BOOLEAN :
    /\ board' = r.board
    /\ trial' = [Session(c) EXCEPT !.won = winnerDeclared(r.board), !.progress = @ \/ r.progress]
    /\ driver' = [Stepped(c) EXCEPT !.moved = r.board # board \/ r.progress \/ face,
                                    !.due = Due(r.board, Now(c), delay), !.promised = Promised(r.board, Now(c), delay)]
Denied(c) == c.act = "button" /\ driver' = Stepped(c) /\ trial' = Session(c) /\ UNCHANGED board
Breaks(c) == trial' = [Session(c) EXCEPT !.failed = TRUE] /\ driver' = Stepped(c) /\ UNCHANGED board

LEMMA StepEnds ==
  ASSUME NEW c, PlayStep(c)
  PROVE  Applies(c) \/ Denied(c) \/ Breaks(c)
<1> DEFINE now == Now(c)
           session == Session(c)
           stepped == Stepped(c)
<1>1. \/ \E r \in Outcomes(c), delay \in Delays, face \in BOOLEAN :
           /\ face => c.act = "die"
           /\ board' = r.board
           /\ trial' = [session EXCEPT !.won = winnerDeclared(r.board), !.progress = @ \/ r.progress]
           /\ driver' = [stepped EXCEPT !.moved = r.board # board \/ r.progress \/ face,
                                        !.due = Due(r.board, now, delay), !.promised = Promised(r.board, now, delay)]
           /\ UNCHANGED verdict
      \/ /\ c.act = "button" /\ "can_press" \in authored.calls
         /\ driver' = stepped /\ trial' = session /\ UNCHANGED <<verdict, board>>
      \/ /\ CallbackOf(c) \in authored.calls \/ c.act = "fire" \/ (c.act = "button" /\ "can_press" \in authored.calls)
         /\ Fails(session, "lua_runtime_error") /\ driver' = stepped
  BY Zenon DEF PlayStep, Stepped, Session, Now, ListedNow
<1> HIDE DEF now, session, stepped
<1>2. CASE \E r \in Outcomes(c), delay \in Delays, face \in BOOLEAN :
           /\ board' = r.board
           /\ trial' = [session EXCEPT !.won = winnerDeclared(r.board), !.progress = @ \/ r.progress]
           /\ driver' = [stepped EXCEPT !.moved = r.board # board \/ r.progress \/ face,
                                        !.due = Due(r.board, now, delay), !.promised = Promised(r.board, now, delay)]
  BY <1>2, Zenon DEF Applies, now, session, stepped
<1>3. CASE c.act = "button" /\ driver' = stepped /\ trial' = session /\ UNCHANGED <<verdict, board>>
  BY <1>3 DEF Denied, session, stepped
<1>4. CASE Fails(session, "lua_runtime_error") /\ driver' = stepped
  BY <1>4 DEF Breaks, Fails, session, stepped
<1> QED BY <1>1, <1>2, <1>3, <1>4

LEMMA SteppedIs ==
  ASSUME Playing, NEW c, Step(c)
  PROVE  /\ Stepped(c) \in Drivers /\ Stepped(c).due = driver.due /\ Stepped(c).promised = driver.promised /\ Stepped(c).moved = FALSE
         /\ Stepped(c).tried = Tried \cup {c} /\ Stepped(c).steady = driver.steady \cap ListedNow
         /\ Stepped(c).visits = [d \in AllPlays |-> driver.visits[d] + (IF d = c THEN 1 ELSE 0)]
         /\ Stepped(c).step = driver.step + 1 /\ Stepped(c).played = c /\ Stepped(c).clock = Now(c) + 1
<1>1. driver \in Drivers /\ c \in Acts /\ Now(c) \in Nat
  BY StepIsAct, DomainsAreNumbers DEF Playing
<1> DEFINE visits == [d \in AllPlays |-> driver.visits[d] + (IF d = c THEN 1 ELSE 0)]
           tried == Tried \cup {c}
           steady == driver.steady \cap ListedNow
<1>2. visits \in [AllPlays -> Nat]
  BY <1>1 DEF Drivers
<1>3. tried \in SUBSET Acts
  BY <1>1 DEF Drivers, Tried
<1>4. steady \in SUBSET AllPlays /\ Now(c) + 1 \in Nat /\ driver.step + 1 \in Nat
  BY <1>1 DEF Drivers
<1>5. Stepped(c) = [driver EXCEPT !.clock = Now(c) + 1, !.step = driver.step + 1, !.played = c, !.moved = FALSE,
                      !.tried = tried, !.visits = visits, !.steady = steady]
  BY <1>1 DEF Stepped, Drivers
<1> HIDE DEF visits, tried, steady
<1>6. /\ Stepped(c).due = driver.due /\ Stepped(c).promised = driver.promised /\ Stepped(c).moved = FALSE
      /\ Stepped(c).tried = tried /\ Stepped(c).steady = steady /\ Stepped(c).visits = visits
      /\ Stepped(c).step = driver.step + 1 /\ Stepped(c).played = c /\ Stepped(c).clock = Now(c) + 1
  BY <1>1, <1>5 DEF Drivers
<1>7. Stepped(c) \in Drivers
  BY <1>1, <1>2, <1>3, <1>4, <1>5 DEF Drivers
<1> QED BY <1>6, <1>7 DEF visits, tried, steady

LEMMA LimitedIs ==
  ASSUME trial \in Trials
  PROVE  Limited \in BOOLEAN
<1> DEFINE more == Questions = {} /\ ~TimerIsDue /\ Len(PlayerOptions(board, trial.last)) > CandidateLimit
<1>1. more \in BOOLEAN /\ trial.limited \in BOOLEAN
  BY DEF Trials
<1>2. Limited = (trial.limited \/ more)
  BY DEF Limited
<1> HIDE DEF more
<1> QED BY <1>1, <1>2

LEMMA SessionIs ==
  ASSUME Playing, NEW c
  PROVE  /\ Session(c) \in Trials /\ Session(c).stage = trial.stage /\ Session(c).count = trial.count
         /\ Session(c).stopped = trial.stopped /\ Session(c).failed = trial.failed
<1>1. trial \in Trials
  BY DomainsAreNumbers DEF Playing
<1> DEFINE limited == Limited
<1>2. limited \in BOOLEAN
  BY <1>1, LimitedIs
<1>3. Session(c) = [trial EXCEPT !.limited = limited]
  BY DEF Session
<1> HIDE DEF limited
<1> QED BY <1>1, <1>2, <1>3 DEF Trials

LEMMA SteppedAdvances ==
  ASSUME Playing, NEW c, Step(c), driver' = Stepped(c)
  PROVE  Advances(c) /\ driver' \in Drivers /\ driver'.due = driver.due /\ driver'.promised = driver.promised
<1> DEFINE stepped == Stepped(c)
<1>1. /\ stepped \in Drivers /\ stepped.due = driver.due /\ stepped.promised = driver.promised
      /\ stepped.tried = Tried \cup {c} /\ stepped.steady = driver.steady \cap ListedNow
      /\ stepped.visits = [d \in AllPlays |-> driver.visits[d] + (IF d = c THEN 1 ELSE 0)]
      /\ stepped.step = driver.step + 1 /\ stepped.played = c /\ stepped.clock = Now(c) + 1
  BY SteppedIs
<1>2. driver' = stepped
  OBVIOUS
<1> HIDE DEF stepped
<1> QED BY <1>1, <1>2, Zenon DEF Advances

LEMMA StepComes ==
  ASSUME Playing, NEW c, Step(c), PlayStep(c)
  PROVE  Advances(c) /\ Comes(c)
<1>1. TrialInv /\ board \in Boards /\ driver \in Drivers /\ trial \in Trials /\ SoundBoard(board)
  BY DomainsAreNumbers DEF Playing, TrialInv, BoardIsSound, SoundBoard
<1>2. Timed(driver, board)
  BY <1>1 DEF TrialInv, BoardIsSound
<1>3. CASE Applies(c)
  <2>1. PICK r \in Outcomes(c), delay \in Delays, face \in BOOLEAN :
               /\ board' = r.board
               /\ trial' = [Session(c) EXCEPT !.won = winnerDeclared(r.board), !.progress = @ \/ r.progress]
               /\ driver' = [Stepped(c) EXCEPT !.moved = r.board # board \/ r.progress \/ face,
                                               !.due = Due(r.board, Now(c), delay),
                                               !.promised = Promised(r.board, Now(c), delay)]
    BY <1>3 DEF Applies
  <2>2. /\ SoundBoard(board') /\ r.progress \in BOOLEAN /\ board'.players = board.players
        /\ c.act = "answer" => board' # board
    BY <2>1, OutcomesFollow
  <2>3. /\ Due(board', Now(c), delay) \in Maps /\ DOMAIN Due(board', Now(c), delay) = board'.timers
        /\ Promised(board', Now(c), delay) \in Stamps /\ DOMAIN Promised(board', Now(c), delay) = board'.timers
        /\ \A f \in board'.timers : Due(board', Now(c), delay)[f] = Upward(Promised(board', Now(c), delay)[f])
    BY <1>1, <2>2, StepIsAct, DueIsTimers
  <2> DEFINE moved == board' # board \/ r.progress \/ face
             due == Due(board', Now(c), delay)
             promised == Promised(board', Now(c), delay)
             won == winnerDeclared(board')
             progress == Session(c).progress \/ r.progress
  <2>4. driver' = [Stepped(c) EXCEPT !.moved = moved, !.due = due, !.promised = promised]
    BY <2>1
  <2>5. moved \in BOOLEAN /\ (c.act = "answer" => moved)
    BY <2>2
  <2>6. won \in BOOLEAN /\ progress \in BOOLEAN
    BY <2>2 DEF winnerDeclared, SoundBoard, Boards
  <2>7. trial' = [Session(c) EXCEPT !.won = won, !.progress = progress]
    BY <2>1
  <2> HIDE DEF moved, due, promised, won, progress
  <2>8. /\ driver'.due = due /\ driver'.promised = promised /\ driver'.moved = moved /\ driver'.tried = Stepped(c).tried
        /\ driver'.steady = Stepped(c).steady /\ driver'.visits = Stepped(c).visits
        /\ driver'.step = Stepped(c).step /\ driver'.played = Stepped(c).played /\ driver'.clock = Stepped(c).clock
        /\ driver' \in Drivers
    <3>1. Stepped(c) \in Drivers /\ due \in Maps /\ promised \in Stamps
      BY <2>3, SteppedIs DEF due, promised
    <3> QED BY <2>4, <2>5, <3>1 DEF Drivers
  <2>9. Advances(c)
    BY <2>8, SteppedIs DEF Advances
  <2>10. /\ trial' \in Trials /\ trial'.stage = Session(c).stage /\ trial'.count = Session(c).count
         /\ trial'.stopped = Session(c).stopped
    <3>1. Session(c) \in Trials
      BY SessionIs
    <3> QED BY <2>6, <2>7, <3>1 DEF Trials
  <2>11. trial'.failed \/ driver'.moved \/ c.act # "answer"
    BY <2>5, <2>8
  <2>12. Timed(driver', board')
    BY <2>3, <2>8 DEF Timed, due, promised
  <2> QED BY <2>2, <2>8, <2>9, <2>10, <2>11, <2>12, SessionIs DEF Comes
<1>4. CASE Denied(c)
  <2>1. driver' = Stepped(c) /\ trial' = Session(c) /\ board' = board /\ c.act # "answer"
    BY <1>4 DEF Denied
  <2>2. Advances(c) /\ driver' \in Drivers /\ driver'.due = driver.due /\ driver'.promised = driver.promised
    BY <2>1, SteppedAdvances
  <2>3. Timed(driver', board')
    BY <1>2, <2>1, <2>2 DEF Timed
  <2>4. /\ trial' \in Trials /\ trial'.stage = trial.stage /\ trial'.count = trial.count
        /\ trial'.stopped = trial.stopped
    BY <2>1, SessionIs
  <2> QED BY <1>1, <2>1, <2>2, <2>3, <2>4, Zenon DEF Comes
<1>5. CASE Breaks(c)
  <2>1. driver' = Stepped(c) /\ trial' = [Session(c) EXCEPT !.failed = TRUE] /\ board' = board
    BY <1>5 DEF Breaks
  <2>2. Advances(c) /\ driver' \in Drivers /\ driver'.due = driver.due /\ driver'.promised = driver.promised
    BY <2>1, SteppedAdvances
  <2>3. /\ trial' \in Trials /\ trial'.stage = Session(c).stage /\ trial'.count = Session(c).count
        /\ trial'.stopped = Session(c).stopped /\ trial'.failed = TRUE
    <3>1. Session(c) \in Trials
      BY SessionIs
    <3> QED BY <2>1, <3>1 DEF Trials
  <2> QED BY <1>1, <1>2, <2>1, <2>2, <2>3, SteppedIs, SessionIs DEF Comes, Timed
<1> QED BY <1>3, <1>4, <1>5, StepEnds

-----------------------------------------------------------------------------
\* A step keeps the counts together.
LEMMA CountsKept ==
  ASSUME Playing, Advances(Choice), Step(Choice), FiresNext(Choice) \/ Answers(Choice) \/ PlaysLeast(Choice)
  PROVE  NoOptionStarves' /\ TriedAreAhead'
<1> DEFINE c == Choice
<1>1. TrialInv /\ driver \in Drivers
  BY DomainsAreNumbers DEF Playing
<1>2. \A d \in AllPlays : driver.visits[d] \in Nat
  BY <1>1 DEF Drivers
<1>3. /\ driver'.tried = Tried \cup {c} /\ driver'.steady = driver.steady \cap ListedNow
      /\ driver'.visits = [d \in AllPlays |-> driver.visits[d] + (IF d = c THEN 1 ELSE 0)]
  BY DEF Advances
<1>4. driver.steady \subseteq AllPlays
  BY <1>1 DEF Drivers
<1>5. \A d \in driver'.steady : d \in AllPlays /\ d \in ListedNow /\ d \in driver.steady
                              /\ driver'.visits[d] = driver.visits[d] + (IF d = c THEN 1 ELSE 0)
  BY <1>3, <1>4
<1>6. c \in AllPlays => PlaysLeast(c)
  <2>1. ~(c \in AllPlays /\ Answers(c)) /\ ~(c \in AllPlays /\ FiresNext(c))
    <3>1. c \in AllPlays => c.act # "answer" /\ c.act # "fire"
      BY ActsDiffer DEF ThingNames
    <3> QED BY <3>1, ActsDiffer DEF Answers, FiresNext
  <2> QED BY <2>1
<1> HIDE DEF c
<1>7. ASSUME NEW d \in driver'.steady, d # c, c \in driver'.steady
      PROVE  driver.visits[c] <= driver.visits[d]
  <2>1. PlaysLeast(c)
    BY <1>5, <1>6, <1>7
  <2>2. CASE d \notin Tried
    BY <1>5, <1>7, <2>1, <2>2 DEF PlaysLeast
  <2>3. CASE d \in Tried
    <3>1. ~driver.moved /\ d \in driver.tried /\ c \notin driver.tried
      BY <2>1, <2>3 DEF PlaysLeast, Tried
    <3>2. TriedAreAhead
      BY <1>1 DEF TrialInv
    <3> QED BY <1>5, <1>7, <3>1, <3>2 DEF TriedAreAhead
  <2> QED BY <2>2, <2>3
<1>8. \A a, d \in driver.steady : driver.visits[a] <= driver.visits[d] + 1
  BY <1>1 DEF TrialInv, NoOptionStarves
<1>9. NoOptionStarves'
  <2> SUFFICES ASSUME NEW a \in driver'.steady, NEW d \in driver'.steady
               PROVE  driver'.visits[a] <= driver'.visits[d] + 1
    BY DEF NoOptionStarves
  <2>1. driver.visits[a] \in Nat /\ driver.visits[d] \in Nat /\ driver.visits[a] <= driver.visits[d] + 1
    BY <1>2, <1>5, <1>8
  <2>2. CASE a = c /\ d # c
    <3>1. driver.visits[a] <= driver.visits[d] /\ driver'.visits[a] = driver.visits[a] + 1 /\ driver'.visits[d] = driver.visits[d]
      BY <1>2, <1>5, <1>7, <2>2
    <3> QED BY <2>1, <3>1
  <2>3. CASE a # c \/ d = c
    <3>1. \/ driver'.visits[a] = driver.visits[a] /\ driver'.visits[d] = driver.visits[d]
          \/ driver'.visits[a] = driver.visits[a] /\ driver'.visits[d] = driver.visits[d] + 1
          \/ driver'.visits[a] = driver.visits[a] + 1 /\ driver'.visits[d] = driver.visits[d] + 1
      BY <1>2, <1>5, <2>3
    <3> QED BY <2>1, <3>1
  <2> QED BY <2>2, <2>3
<1>10. TriedAreAhead'
  <2> SUFFICES ASSUME NEW a \in driver'.steady, NEW d \in driver'.steady, d \in driver'.tried, a \notin driver'.tried
               PROVE  driver'.visits[a] <= driver'.visits[d]
    BY DEF TriedAreAhead
  <2>1. a # c /\ a \notin Tried /\ (d = c \/ d \in Tried)
    BY <1>3
  <2>2. driver.visits[a] \in Nat /\ driver.visits[d] \in Nat /\ driver'.visits[a] = driver.visits[a]
    BY <1>2, <1>5, <2>1
  <2>3. CASE d = c
    <3>1. driver'.visits[d] = driver.visits[d] + 1 /\ driver.visits[a] <= driver.visits[d] + 1
      BY <1>5, <1>8, <2>3
    <3> QED BY <2>2, <3>1
  <2>4. CASE d # c
    <3>1. ~driver.moved /\ d \in driver.tried /\ a \notin driver.tried
      BY <2>1, <2>4 DEF Tried
    <3>2. driver.visits[a] <= driver.visits[d]
      <4>1. TriedAreAhead
        BY <1>1 DEF TrialInv
      <4> QED BY <1>5, <3>1, <4>1 DEF TriedAreAhead
    <3>3. driver'.visits[d] = driver.visits[d]
      BY <1>2, <1>5, <2>4
    <3> QED BY <2>2, <3>2, <3>3
  <2> QED BY <2>3, <2>4
<1> QED BY <1>9, <1>10

LEMMA StepIsAChoice ==
  ASSUME Playing, Choice # NoAct
  PROVE  Step(Choice)
BY ChoiceIs DEF NothingLeft, Step

\* Of an answered prompt the driver says that the table moved.
LEMMA TrialStepKeeps ==
  ASSUME TrialInv, TrialStep
  PROVE  TrialInv'
<1>1. Playing /\ trial.stage = "play" /\ ~trial.failed /\ Choice # NoAct /\ PlayStep(Choice)
  BY DEF TrialStep, PlayOver, Playing
<1>2. Step(Choice)
  BY <1>1, StepIsAChoice
<1>3. Advances(Choice) /\ Comes(Choice)
  BY <1>1, <1>2, StepComes
<1>4. NoOptionStarves' /\ TriedAreAhead'
  BY <1>1, <1>2, <1>3, CountsKept DEF Step
<1>5. TrialTyped'
  BY <1>3 DEF Comes, SoundBoard, TrialTyped
<1>6. BoardIsSound'
  <2>1. board.players <= MaxPlayers
    BY DEF TrialInv, BoardIsSound
  <2> QED BY <1>3, <2>1 DEF Comes, SoundBoard, BoardIsSound
<1>7. StageIsSound' /\ trial'.stopped # "no_actions"
  <2>1. trial'.stage = "play" /\ trial'.count = trial.count /\ trial'.stopped = trial.stopped /\ board'.players = board.players
    BY <1>1, <1>3 DEF Comes
  <2>2. /\ 1 <= board.players /\ board.players <= trial.count /\ trial.count <= MaxPlayers
        /\ trial.stopped # "no_actions"
    BY <1>1 DEF TrialInv, StageIsSound
  <2> QED BY <2>1, <2>2 DEF StageIsSound
<1>8. StallsAreReal'
  BY <1>7 DEF StallsAreReal
<1>9. AnswersMove'
  <2> SUFFICES ASSUME ~trial'.failed, ~driver'.moved, NEW c \in driver'.tried
               PROVE  c.act # "answer"
    BY DEF AnswersMove
  <2>1. c = Choice \/ c \in Tried
    BY <1>3 DEF Advances
  <2>2. CASE c = Choice
    BY <1>3, <2>2 DEF Comes
  <2>3. CASE c \in Tried
    <3>1. ~driver.moved /\ c \in driver.tried
      BY <2>3 DEF Tried
    <3> QED BY <1>1, <3>1 DEF TrialInv, AnswersMove
  <2> QED BY <2>1, <2>2, <2>3
<1> QED BY <1>4, <1>5, <1>6, <1>7, <1>8, <1>9 DEF TrialInv

LEMMA TrialStarts ==
  ASSUME TrialInit
  PROVE  TrialInv
<1>1. /\ board = EmptyBoard /\ authored \in Drafts /\ verdict = checkDraftQuality(authored)
      /\ trial = [stage |-> "checked", count |-> 0, late |-> FALSE, last |-> FALSE, progress |-> FALSE,
                  won |-> FALSE, failed |-> FALSE, limited |-> FALSE, stopped |-> "action_limit"]
      /\ driver = [due |-> << >>, promised |-> << >>, clock |-> 0, tried |-> {}, visits |-> [c \in AllPlays |-> 0], step |-> 0,
                   moved |-> TRUE, played |-> NoAct, steady |-> AllPlays]
  BY DEF TrialInit
<1>2. << >> \in Maps /\ << >> \in Stamps /\ DOMAIN << >> = {}
  <2>1. << >> \in [{} -> Nat] /\ << >> \in [{} -> Times] /\ {} \in SUBSET Nat
    OBVIOUS
  <2> QED BY <2>1 DEF Maps, Stamps
<1>3. board \in Boards
  BY <1>1, <1>2 DEF EmptyBoard, Boards
<1>4. trial \in Trials
  BY <1>1 DEF Trials
<1>5. driver \in Drivers
  <2>1. NoAct \in Acts
    BY PlaysAreActs DEF NoAct, System, Acts
  <2>2. [c \in AllPlays |-> 0] \in [AllPlays -> Nat]
    OBVIOUS
  <2> QED BY <1>1, <1>2, <2>1, <2>2 DEF Drivers
<1>6. BoardIsSound
  <2>1. MaxPlayers \in Nat
    BY TrialAssumption
  <2>2. driver.due = << >> /\ driver.promised = << >> /\ board.open = << >> /\ board.timers = {} /\ board.turn = 0 /\ board.players = 0
    BY <1>1 DEF EmptyBoard
  <2> QED BY <1>2, <2>1, <2>2 DEF BoardIsSound, Timed
<1>7. StageIsSound
  BY <1>1 DEF StageIsSound, EmptyBoard
<1>8. AnswersMove /\ TriedAreAhead /\ StallsAreReal
  BY <1>1 DEF AnswersMove, TriedAreAhead, StallsAreReal
<1>9. NoOptionStarves
  BY <1>1 DEF NoOptionStarves
<1> QED BY <1>3, <1>4, <1>5, <1>6, <1>7, <1>8, <1>9 DEF TrialInv, TrialTyped

\* What is not about the loop leaves what it has counted alone.
LEMMA CountsStay ==
  ASSUME TrialInv, driver'.moved = driver.moved, driver'.tried = driver.tried, driver'.visits = driver.visits,
         driver'.steady = driver.steady
  PROVE  TriedAreAhead' /\ NoOptionStarves' /\ (trial'.failed = trial.failed => AnswersMove')
BY DEF TrialInv, TriedAreAhead, NoOptionStarves, AnswersMove

LEMMA BeginSessionKeeps ==
  ASSUME TrialInv, BeginSession
  PROVE  TrialInv'
<1>1. PICK setup \in Setups, last \in BOOLEAN :
         /\ trial' = [trial EXCEPT !.stage = "start", !.count = setup.count, !.late = setup.late, !.last = last]
         /\ board' = [board EXCEPT !.players = IF setup.late THEN 1 ELSE setup.count]
  BY DEF BeginSession
<1>2. driver' = driver /\ trial.stage = "checked"
  BY DEF BeginSession
<1>3. trial \in Trials /\ board \in Boards /\ driver \in Drivers
  BY DomainsAreNumbers
<1>4. setup.count \in Nat /\ 1 <= setup.count /\ setup.count <= MaxPlayers /\ setup.late \in BOOLEAN
  <2>1. MinPlayers \in 1 .. MaxPlayers /\ MaxPlayers \in Nat
    BY TrialAssumption
  <2>2. CASE setup \in {[count |-> n, late |-> FALSE] : n \in {MinPlayers, MaxPlayers}}
    <3>1. PICK n \in {MinPlayers, MaxPlayers} : setup = [count |-> n, late |-> FALSE]
      BY <2>2
    <3>2. setup.count = n /\ setup.late = FALSE
      BY <3>1
    <3>3. n \in Nat /\ 1 <= n /\ n <= MaxPlayers
      BY <2>1
    <3>4. setup.late \in BOOLEAN
      BY <3>2
    <3> QED BY <3>2, <3>3, <3>4
  <2>3. CASE /\ MaxPlayers > 1
             /\ setup = [count |-> IF MinPlayers < 2 THEN 2 ELSE MinPlayers, late |-> TRUE]
    <3>1. setup.count = (IF MinPlayers < 2 THEN 2 ELSE MinPlayers) /\ setup.late = TRUE
      BY <2>3
    <3> QED BY <2>1, <2>3, <3>1
  <2> QED BY <2>2, <2>3 DEF Setups
<1>5. /\ trial' \in Trials /\ trial'.stage = "start" /\ trial'.count = setup.count /\ trial'.failed = trial.failed
      /\ trial'.stopped = trial.stopped
  BY <1>1, <1>3, <1>4 DEF Trials
<1> DEFINE players == IF setup.late THEN 1 ELSE setup.count
<1>6. players \in Nat /\ 1 <= players /\ players <= setup.count
  BY <1>4
<1>7. board' = [board EXCEPT !.players = players]
  BY <1>1
<1> HIDE DEF players
<1>8. /\ board' \in Boards /\ board'.players = players /\ board'.turn = board.turn /\ board'.open = board.open
      /\ board'.questions = board.questions /\ board'.timers = board.timers /\ board'.fuses = board.fuses
  BY <1>3, <1>6, <1>7 DEF Boards
<1>9. board.turn \in Nat /\ board.turn <= board.players /\ board.players = 0 /\ trial.stopped # "no_actions" /\ MaxPlayers \in Nat
  BY <1>2, <1>3, TrialAssumption DEF TrialInv, BoardIsSound, StageIsSound, Boards
<1>10. BoardIsSound'
  <2>1. board'.turn <= board'.players /\ board'.players <= MaxPlayers
    BY <1>4, <1>6, <1>8, <1>9
  <2> QED BY <1>2, <1>8, <2>1 DEF TrialInv, BoardIsSound, Timed
<1>11. StageIsSound'
  BY <1>4, <1>5, <1>6, <1>8, <1>9 DEF StageIsSound
<1>12. StallsAreReal'
  BY <1>5, <1>9 DEF StallsAreReal
<1>13. TriedAreAhead' /\ NoOptionStarves' /\ AnswersMove'
  BY <1>2, <1>5, CountsStay
<1> QED BY <1>2, <1>3, <1>5, <1>8, <1>10, <1>11, <1>12, <1>13 DEF TrialInv, TrialTyped

LEMMA OpensOrPlays ==
  ASSUME NEW b
  PROVE  Opened(b) \in {"join", "play"} /\ (Opened(b) = "join" => b.players < trial.count)
BY DEF Opened

LEMMA GameStartKeeps ==
  ASSUME TrialInv, GameStart
  PROVE  TrialInv'
<1>1. trial \in Trials /\ board \in Boards /\ driver \in Drivers /\ SoundBoard(board) /\ trial.stage = "start" /\ ~trial.failed
  BY DomainsAreNumbers DEF GameStart, TrialInv, BoardIsSound, SoundBoard
<1>2. /\ 1 <= board.players /\ board.players <= trial.count /\ trial.count <= MaxPlayers /\ trial.stopped # "no_actions"
      /\ board.players <= MaxPlayers
  BY <1>1 DEF TrialInv, StageIsSound, BoardIsSound
<1>3. CASE \E r \in ReactionsTo("on_start", board), delay \in Delays :
             /\ board' = r.board
             /\ trial' = [trial EXCEPT !.stage = Opened(r.board), !.won = winnerDeclared(r.board)]
             /\ driver' = [driver EXCEPT !.due = Due(r.board, 0, delay), !.promised = Promised(r.board, 0, delay)]
  <2>1. PICK r \in ReactionsTo("on_start", board), delay \in Delays :
             /\ board' = r.board
             /\ trial' = [trial EXCEPT !.stage = Opened(r.board), !.won = winnerDeclared(r.board)]
             /\ driver' = [driver EXCEPT !.due = Due(r.board, 0, delay), !.promised = Promised(r.board, 0, delay)]
    BY <1>3
  <2>2. SoundBoard(board') /\ board'.players = board.players
    BY <1>1, <2>1, ReactionsToFollow DEF Follows
  <2> DEFINE due == Due(board', 0, delay)
             promised == Promised(board', 0, delay)
             won == winnerDeclared(board')
             stage == Opened(board')
  <2>3. /\ due \in Maps /\ DOMAIN due = board'.timers /\ promised \in Stamps /\ DOMAIN promised = board'.timers
        /\ \A f \in board'.timers : due[f] = Upward(promised[f])
    BY <2>2, DueIsTimers
  <2>4. won \in BOOLEAN
    BY <2>2 DEF winnerDeclared, SoundBoard, Boards
  <2>5. stage \in {"join", "play"} /\ (stage = "join" => board'.players < trial.count)
    BY OpensOrPlays
  <2>6. driver' = [driver EXCEPT !.due = due, !.promised = promised] /\ trial' = [trial EXCEPT !.stage = stage, !.won = won]
    BY <2>1
  <2> HIDE DEF due, promised, won, stage
  <2>7. /\ driver' \in Drivers /\ driver'.due = due /\ driver'.promised = promised /\ driver'.moved = driver.moved /\ driver'.tried = driver.tried
        /\ driver'.visits = driver.visits /\ driver'.steady = driver.steady
    BY <1>1, <2>3, <2>6 DEF Drivers
  <2>8. /\ trial' \in Trials /\ trial'.stage = stage /\ trial'.count = trial.count /\ trial'.stopped = trial.stopped
        /\ trial'.failed = trial.failed
    BY <1>1, <2>4, <2>5, <2>6 DEF Trials
  <2>9. BoardIsSound'
    BY <1>2, <2>2, <2>3, <2>7 DEF BoardIsSound, SoundBoard, Timed
  <2>10. StageIsSound' /\ StallsAreReal'
    BY <1>2, <2>2, <2>5, <2>8 DEF StageIsSound, StallsAreReal
  <2>11. TriedAreAhead' /\ NoOptionStarves' /\ AnswersMove'
    BY <2>7, <2>8, CountsStay
  <2> QED BY <2>2, <2>7, <2>8, <2>9, <2>10, <2>11 DEF TrialInv, TrialTyped, SoundBoard
<1>4. CASE Fails(trial, "lua_runtime_error") /\ driver' = driver
  <2>1. trial' = [trial EXCEPT !.failed = TRUE] /\ board' = board /\ driver' = driver
    BY <1>4 DEF Fails
  <2>2. /\ trial' \in Trials /\ trial'.stage = trial.stage /\ trial'.count = trial.count /\ trial'.stopped = trial.stopped
        /\ trial'.failed = TRUE
    BY <1>1, <2>1 DEF Trials
  <2>3. BoardIsSound'
    BY <2>1 DEF TrialInv, BoardIsSound, Timed
  <2>4. StageIsSound' /\ StallsAreReal'
    BY <1>1, <1>2, <2>1, <2>2 DEF StageIsSound, StallsAreReal
  <2>5. AnswersMove'
    BY <2>2 DEF AnswersMove
  <2>6. TriedAreAhead' /\ NoOptionStarves'
    BY <2>1, CountsStay
  <2> QED BY <1>1, <2>1, <2>2, <2>3, <2>4, <2>5, <2>6 DEF TrialInv, TrialTyped
<1> QED BY <1>3, <1>4 DEF GameStart

LEMMA PlayerJoinsKeeps ==
  ASSUME TrialInv, PlayerJoins
  PROVE  TrialInv'
<1>1. trial \in Trials /\ board \in Boards /\ driver \in Drivers /\ trial.stage = "join" /\ driver' = driver
  BY DomainsAreNumbers DEF PlayerJoins
<1>2. /\ 1 <= board.players /\ board.players < trial.count /\ trial.count <= MaxPlayers /\ trial.stopped # "no_actions"
      /\ board.players \in Nat /\ trial.count \in Nat /\ MaxPlayers \in Nat /\ board.turn \in Nat /\ board.turn <= board.players
  BY <1>1, TrialAssumption DEF TrialInv, StageIsSound, BoardIsSound, Boards, Trials
<1>3. TriedAreAhead' /\ NoOptionStarves' /\ (trial'.failed = trial.failed => AnswersMove')
  BY <1>1, CountsStay
<1>4. CASE board' = [board EXCEPT !.players = @ + 1] /\ trial' = [trial EXCEPT !.stage = Opened(board')]
  <2> DEFINE stage == Opened(board')
  <2>1. stage \in {"join", "play"} /\ (stage = "join" => board'.players < trial.count)
    BY OpensOrPlays
  <2>2. board' = [board EXCEPT !.players = board.players + 1] /\ trial' = [trial EXCEPT !.stage = stage]
    BY <1>4
  <2> HIDE DEF stage
  <2>3. /\ board' \in Boards /\ board'.players = board.players + 1 /\ board'.turn = board.turn /\ board'.open = board.open
        /\ board'.questions = board.questions /\ board'.timers = board.timers /\ board'.fuses = board.fuses
    BY <1>1, <1>2, <2>2 DEF Boards
  <2>4. /\ trial' \in Trials /\ trial'.stage = stage /\ trial'.count = trial.count /\ trial'.stopped = trial.stopped
        /\ trial'.failed = trial.failed
    BY <1>1, <2>1, <2>2 DEF Trials
  <2>5. /\ board'.turn <= board'.players /\ board'.players <= MaxPlayers /\ 1 <= board'.players
        /\ board'.players <= trial'.count
    BY <1>2, <2>3, <2>4
  <2>6. BoardIsSound'
    BY <1>1, <2>3, <2>5 DEF TrialInv, BoardIsSound, Timed
  <2>7. StageIsSound' /\ StallsAreReal'
    BY <1>2, <2>1, <2>4, <2>5 DEF StageIsSound, StallsAreReal
  <2> QED BY <1>1, <1>3, <2>3, <2>4, <2>6, <2>7 DEF TrialInv, TrialTyped
<1>5. CASE Fails(trial, "game_lifecycle_rejected")
  <2>1. trial' = [trial EXCEPT !.failed = TRUE] /\ board' = board
    BY <1>5 DEF Fails
  <2>2. /\ trial' \in Trials /\ trial'.stage = trial.stage /\ trial'.count = trial.count /\ trial'.stopped = trial.stopped
        /\ trial'.failed = TRUE
    BY <1>1, <2>1 DEF Trials
  <2>3. BoardIsSound'
    BY <1>1, <2>1 DEF TrialInv, BoardIsSound, Timed
  <2>4. StageIsSound' /\ StallsAreReal'
    BY <1>1, <1>2, <2>1, <2>2 DEF StageIsSound, StallsAreReal
  <2>5. AnswersMove'
    BY <2>2 DEF AnswersMove
  <2> QED BY <1>1, <1>3, <2>1, <2>2, <2>3, <2>4, <2>5 DEF TrialInv, TrialTyped
<1> QED BY <1>4, <1>5 DEF PlayerJoins

\* A session that has nothing left to choose has tried it all on this very table.
LEMMA ConcludeKeeps ==
  ASSUME TrialInv, Conclude
  PROVE  TrialInv'
<1> DEFINE stopped == IF trial.failed THEN "script_error" ELSE IF trial.won THEN "winner"
                      ELSE IF PlayOver THEN "action_limit" ELSE "no_actions"
           limited == IF PlayOver THEN trial.limited ELSE Limited
<1>1. /\ trial' = [trial EXCEPT !.stage = "over", !.stopped = stopped, !.limited = limited] /\ trial.stage # "over"
      /\ PlayOver \/ (trial.stage = "play" /\ Choice = NoAct)
      /\ board' = board /\ driver' = driver
  BY DEF Conclude
<1>2. trial \in Trials /\ board \in Boards /\ driver \in Drivers
  BY DomainsAreNumbers
<1>3. stopped \in {"action_limit", "script_error", "winner", "no_actions"} /\ (stopped = "no_actions" => ~PlayOver /\ ~trial.failed)
  OBVIOUS
<1>10. limited \in BOOLEAN
  BY <1>2, LimitedIs DEF Trials
<1> HIDE DEF stopped, limited
<1>4. /\ trial' \in Trials /\ trial'.stage = "over" /\ trial'.count = trial.count /\ trial'.stopped = stopped
      /\ trial'.failed = trial.failed /\ trial'.last = trial.last
  BY <1>1, <1>2, <1>3, <1>10 DEF Trials
<1>5. TriedAreAhead' /\ NoOptionStarves' /\ AnswersMove'
  BY <1>1, <1>4, CountsStay
<1>6. BoardIsSound'
  BY <1>1 DEF TrialInv, BoardIsSound, Timed
<1>7. trial.stage # "checked"
  <2>1. trial.failed => trial.stage # "checked"
    BY DEF TrialInv, StageIsSound
  <2> QED BY <1>1, <2>1 DEF PlayOver
<1>8. StageIsSound'
  BY <1>1, <1>4, <1>7 DEF TrialInv, StageIsSound
<1>9. StallsAreReal'
  <2> SUFFICES ASSUME stopped = "no_actions"
               PROVE  /\ board.timers = {} /\ board.open = << >> /\ ListedNow \subseteq driver.tried /\ ~driver.moved
    BY <1>1, <1>4 DEF StallsAreReal, ListedNow, Listed, PlayerOptions, Play
  <2>1. Playing /\ Choice = NoAct /\ ~trial.failed
    BY <1>1, <1>3, <1>7 DEF Playing
  <2>2. NothingLeft(Choice)
    <3>1. ~Answers(NoAct) /\ ~FiresNext(NoAct)
      BY ActsDiffer DEF Answers, FiresNext
    <3>2. ~PlaysLeast(NoAct)
      BY <2>1, ListedNowIs, ActsDiffer DEF PlaysLeast, ThingNames
    <3> QED BY <2>1, <3>1, <3>2, ChoiceIs
  <2>3. board.timers = {} /\ ListedNow \subseteq Tried
    BY <2>2, DomainsAreNumbers DEF NothingLeft
  <2>4. ~driver.moved
    BY <2>1, <2>3, ListedNowIs DEF Tried
  <2>5. DOMAIN board.open = {}
    <3>1. \A q \in DOMAIN board.open : Respond(q) \in driver.tried
      BY <2>2, <2>4 DEF NothingLeft, Tried
    <3>2. \A c \in driver.tried : c.act # "answer"
      BY <2>1, <2>4 DEF TrialInv, AnswersMove
    <3> QED BY <3>1, <3>2, ActsDiffer
  <2>6. board.open = << >>
    <3>1. board.open \in Maps
      BY <1>2 DEF Boards
    <3>2. PICK s \in SUBSET Nat : board.open \in [s -> Nat]
      BY <3>1 DEF Maps
    <3>3. s = 1 .. 0 /\ 0 \in Nat
      BY <2>5, <3>2
    <3>4. board.open \in [1 .. 0 -> Nat]
      BY <3>2, <3>3
    <3>5. board.open \in Seq(Nat) /\ Len(board.open) = 0
      BY ONLY <3>4, <3>3
    <3> QED BY ONLY <3>5
  <2> QED BY <2>3, <2>4, <2>6 DEF Tried
<1> QED BY <1>1, <1>2, <1>4, <1>5, <1>6, <1>8, <1>9 DEF TrialInv, TrialTyped

LEMMA TrialNextKeeps ==
  ASSUME TrialInv, [TrialNext]_trialVars
  PROVE  TrialInv'
<1>1. CASE UNCHANGED trialVars
  BY <1>1 DEF trialVars, TrialInv, TrialTyped, BoardIsSound, Timed, StageIsSound, AnswersMove, TriedAreAhead, StallsAreReal,
     NoOptionStarves, Listed, PlayerOptions, Play
<1>2. CASE TrialNext
  BY <1>2, BeginSessionKeeps, GameStartKeeps, PlayerJoinsKeeps, TrialStepKeeps, ConcludeKeeps DEF TrialNext
<1> QED BY <1>1, <1>2

\* What is said of the wiring, whatever the draft.
LEMMA WiringOfAll ==
  ASSUME NEW d \in Drafts, d.path = "scripts/", NEW c \in d.calls
  PROVE  LET reported == \E issue \in checkDraftQuality(d) :
                            issue.about = c \/ issue.code \in {"lua_no_bindings", "lua_script_missing"}
         IN  /\ reported => c \notin Hears(d)
             /\ c \notin Hears(d) => reported \/ Overlooked(d, c)
<1>1. /\ d.named \in BOOLEAN /\ d.bound \subseteq {"button", "deck", "die"} /\ d.calls \subseteq Callbacks
      /\ c \in Callbacks /\ c # "draft"
  BY PlaysAreActs DEF Drafts, ThingNames, Callbacks
<1> DEFINE Found(issue) == issue.about = c \/ issue.code \in {"lua_no_bindings", "lua_script_missing"}
           never == {x \in d.calls : /\ d.bound # {} /\ d.named /\ CallbackComponent(x) \notin d.bound \cup {"none"}}
           unknown == {x \in d.calls : x \notin Known}
<1>2. checkDraftQuality(d) =
        {Issue("lua_unknown_callback", x) : x \in unknown} \cup RaiseIf(d.calls = {}, "lua_no_logic")
        \cup RaiseIf(~(d.named /\ d.bound # {}), "lua_script_unbound") \cup RaiseIf(d.bound = {}, "lua_no_bindings")
        \cup RaiseIf(d.bound # {} /\ ~d.named, "lua_script_missing")
        \cup {Issue("lua_callback_never_fires", x) : x \in never}
  BY DEF checkDraftQuality, lintLuaFiles, checkLuaHasLogic, checkScriptWiring
<1> HIDE DEF never, unknown
<1>3. \A x : /\ Issue("lua_unknown_callback", x).about = x /\ Issue("lua_callback_never_fires", x).about = x
             /\ Issue("lua_unknown_callback", x).code \notin {"lua_no_bindings", "lua_script_missing"}
             /\ Issue("lua_callback_never_fires", x).code \notin {"lua_no_bindings", "lua_script_missing"}
  BY DEF Issue
<1>4. \A test \in BOOLEAN : \A code : \A issue \in RaiseIf(test, code) : test /\ issue.about # c /\ issue.code = code
  BY <1>1 DEF RaiseIf, Issue
<1>5. (\E issue \in checkDraftQuality(d) : Found(issue)) <=> c \in unknown \/ c \in never \/ d.bound = {} \/ ~d.named
  <2>1. ASSUME NEW issue \in checkDraftQuality(d), Found(issue)
        PROVE  c \in unknown \/ c \in never \/ d.bound = {} \/ ~d.named
    <3>1. CASE issue \in {Issue("lua_unknown_callback", x) : x \in unknown}
      BY <1>3, <2>1, <3>1
    <3>2. CASE issue \in {Issue("lua_callback_never_fires", x) : x \in never}
      BY <1>3, <2>1, <3>2
    <3>3. CASE issue \in RaiseIf(d.calls = {}, "lua_no_logic")
      <4>1. issue.about # c /\ issue.code = "lua_no_logic"
        BY <1>4, <3>3
      <4> QED BY <2>1, <4>1
    <3>4. CASE issue \in RaiseIf(~(d.named /\ d.bound # {}), "lua_script_unbound")
      <4>1. issue.about # c /\ issue.code = "lua_script_unbound"
        BY <1>4, <3>4
      <4> QED BY <2>1, <4>1
    <3>5. CASE issue \in RaiseIf(d.bound = {}, "lua_no_bindings")
      BY <1>4, <3>5
    <3>6. CASE issue \in RaiseIf(d.bound # {} /\ ~d.named, "lua_script_missing")
      BY <1>4, <3>6
    <3> QED BY <1>2, <3>1, <3>2, <3>3, <3>4, <3>5, <3>6
  <2>2. c \in unknown => \E issue \in checkDraftQuality(d) : Found(issue)
    BY <1>2, <1>3
  <2>3. c \in never => \E issue \in checkDraftQuality(d) : Found(issue)
    BY <1>2, <1>3
  <2>4. d.bound = {} => \E issue \in checkDraftQuality(d) : Found(issue)
    <3> SUFFICES ASSUME d.bound = {}
                 PROVE  \E issue \in checkDraftQuality(d) : Found(issue)
      OBVIOUS
    <3>1. Issue("lua_no_bindings", "draft") \in checkDraftQuality(d)
      BY <1>2 DEF RaiseIf
    <3>2. Found(Issue("lua_no_bindings", "draft"))
      BY DEF Issue
    <3> HIDE DEF Found
    <3> QED BY <3>1, <3>2
  <2>5. d.bound # {} /\ ~d.named => \E issue \in checkDraftQuality(d) : Found(issue)
    <3> SUFFICES ASSUME d.bound # {}, ~d.named
                 PROVE  \E issue \in checkDraftQuality(d) : Found(issue)
      OBVIOUS
    <3>1. Issue("lua_script_missing", "draft") \in checkDraftQuality(d)
      BY <1>2 DEF RaiseIf
    <3>2. Found(Issue("lua_script_missing", "draft"))
      BY DEF Issue
    <3> HIDE DEF Found
    <3> QED BY <3>1, <3>2
  <2> HIDE DEF Found
  <2> QED BY <2>1, <2>2, <2>3, <2>4, <2>5
<1> DEFINE silent == c \notin unknown /\ c \notin never /\ d.bound # {} /\ d.named
<1>6. (~silent => c \notin Hears(d)) /\ (silent /\ c \notin Hears(d) => Overlooked(d, c))
  <2>1. CASE d.bound = {} \/ ~d.named
    BY <2>1 DEF Hears
  <2>2. CASE d.bound # {} /\ d.named
    <3>1. Hears(d) = {x \in d.calls \cap Known : CASE x = "on_roll" -> "die" \in d.bound
                                                   [] x \in {"on_press", "can_press"} -> "button" \in d.bound
                                                   [] x = "on_seat_claimed" -> FALSE
                                                   [] OTHER -> TRUE}
      BY <2>2 DEF Hears
    <3>2. c \in never <=> CallbackComponent(c) \notin d.bound \cup {"none"}
      BY <2>2 DEF never
    <3>3. c \in unknown <=> c \notin Known
      BY DEF unknown
    <3>4. CASE c \notin Known
      BY <3>1, <3>3, <3>4
    <3>5. CASE c \in Known
      <4>1. CASE c = "on_roll"
        BY <2>2, <3>1, <3>2, <3>3, <3>5, <4>1 DEF CallbackComponent
      <4>2. CASE c = "on_press"
        BY <2>2, <3>1, <3>2, <3>3, <3>5, <4>2 DEF CallbackComponent
      <4>3. CASE c = "can_press"
        BY <2>2, <3>1, <3>2, <3>3, <3>5, <4>3 DEF CallbackComponent, Overlooked
      <4>4. CASE c = "on_seat_claimed"
        BY <2>2, <3>1, <3>2, <3>3, <3>5, <4>4 DEF CallbackComponent, Overlooked
      <4>5. CASE c \notin {"on_roll", "on_press", "can_press", "on_seat_claimed"}
        BY <2>2, <3>1, <3>2, <3>3, <3>5, <4>5 DEF CallbackComponent
      <4> QED BY <4>1, <4>2, <4>3, <4>4, <4>5
    <3> QED BY <3>4, <3>5
  <2> QED BY <2>1, <2>2
<1> QED BY <1>5, <1>6

\* The checks of a draft's scripts report no callback that a table would call, and of
\* those that none will call they overlook a claimed seat's and a guard's and no other; a
\* session that is said to be stuck is; and of the options that could be played all along
\* none is left behind.  For every number of players, options and steps.
THEOREM TrialAlwaysSound == TrialSpec => []TrialIsSound
<1>1. TrialInit => TrialInv
  BY TrialStarts
<1>2. TrialInv /\ [TrialNext]_trialVars => TrialInv'
  BY TrialNextKeeps
<1>3. TrialInv => TrialIsSound
  <2> SUFFICES ASSUME TrialInv
               PROVE  TrialIsSound
    OBVIOUS
  <2>1. WiringIsRight
    BY WiringOfAll DEF TrialInv, StageIsSound, WiringIsRight
  <2> QED BY <2>1 DEF TrialInv, TrialIsSound
<1> QED BY <1>1, <1>2, <1>3, PTL DEF TrialSpec

\* Times that are rounded up to the second lie less than one apart if they keep their order.
LEMMA WithinASecond ==
  ASSUME NEW a \in Times, NEW b \in Times, Upward(a) <= Upward(b)
  PROVE  Before(a, SecondAfter(b))
<1>1. /\ a.whole \in Nat /\ b.whole \in Nat /\ a.part \in 0 .. Parts - 1 /\ b.part \in 0 .. Parts - 1
      /\ Parts \in Nat
  BY TrialAssumption DEF Times
<1>2. SecondAfter(b).whole = b.whole + 1 /\ SecondAfter(b).part = b.part
  BY DEF SecondAfter, Times
<1> QED BY <1>1, <1>2 DEF Before, Upward

\* Of the timers of a table one fires when its time has come, and no other should have done
\* so a second or more before it: delays are rounded up to seconds, however short they are.
THEOREM TimersAlwaysFireInOrder == TrialSpec => TimersFireInOrder
<1>1. TrialInit => TrialInv
  BY TrialStarts
<1>2. TrialInv /\ [TrialNext]_trialVars => TrialInv'
  BY TrialNextKeeps
<1> DEFINE InOrderNow ==
             driver'.step # driver.step /\ driver'.played.act = "fire" =>
               LET fired == driver'.played.id
                   now == [whole |-> driver'.clock - 1, part |-> 0]
               IN  /\ fired \in board.timers /\ ~Before(now, driver.promised[fired])
                   /\ \A f \in board.timers :
                        /\ f \in DOMAIN driver.promised
                        /\ Before(driver.promised[fired], SecondAfter(driver.promised[f]))
<1>3. TrialInv /\ [TrialNext]_trialVars => [InOrderNow]_trialVars
  <2> SUFFICES ASSUME TrialInv, TrialNext, driver'.step # driver.step, driver'.played.act = "fire"
               PROVE  InOrderNow
    BY DEF trialVars
  <2>1. TrialStep
    <3>1. (BeginSession \/ PlayerJoins \/ Conclude) => driver' = driver
      BY DEF BeginSession, PlayerJoins, Conclude
    <3>2. GameStart => driver'.step = driver.step
      <4>1. driver \in Drivers
        BY DomainsAreNumbers
      <4> QED BY <4>1 DEF GameStart, Drivers
    <3> QED BY <3>1, <3>2 DEF TrialNext
  <2>2. Playing /\ Step(Choice) /\ PlayStep(Choice)
    BY <2>1, StepIsAChoice DEF TrialStep, Playing
  <2>3. Advances(Choice)
    BY <2>2, StepComes
  <2>4. driver'.played = Choice /\ driver'.clock = Now(Choice) + 1 /\ Choice.act = "fire"
    BY <2>3 DEF Advances
  <2>5. FiresNext(Choice)
    <3>1. ~Answers(Choice)
      BY <2>4, ActsDiffer DEF Answers
    <3>2. ~PlaysLeast(Choice)
      BY <2>2, <2>4, ListedNowIs, ActsDiffer DEF PlaysLeast, ThingNames
    <3> QED BY <2>2, <3>1, <3>2 DEF Step
  <2>6. Choice.id = NextTimer(Scheduled)
    BY <2>5, ActsDiffer DEF FiresNext
  <2>7. driver.due[Choice.id] \in Nat /\ driver.clock \in Nat
    BY <2>5, <2>6, DomainsAreNumbers DEF FiresNext, Drivers
  <2> DEFINE fired == Choice.id
             now == [whole |-> driver'.clock - 1, part |-> 0]
  <2>8. driver'.clock - 1 \in Nat /\ driver.due[fired] <= driver'.clock - 1
    BY <2>4, <2>7 DEF Now
  <2>9. /\ fired \in board.timers
        /\ \A f \in board.timers : /\ driver.promised[f] \in Times /\ driver.due[f] = Upward(driver.promised[f])
                                 /\ f \in DOMAIN driver.promised /\ driver.due[fired] <= driver.due[f]
    BY <2>2, <2>5, <2>6, DomainsAreNumbers DEF FiresNext, Playing
  <2>10. ~Before(now, driver.promised[fired])
    <3>1. /\ driver.promised[fired].whole \in Nat /\ driver.promised[fired].part \in 0 .. Parts - 1 /\ Parts \in Nat
          /\ Upward(driver.promised[fired]) <= driver'.clock - 1
      BY <2>8, <2>9, TrialAssumption DEF Times
    <3>2. now.whole = driver'.clock - 1 /\ now.part = 0
      OBVIOUS
    <3> HIDE DEF now
    <3> QED BY <2>8, <3>1, <3>2 DEF Before, Upward
  <2>11. \A f \in board.timers : Before(driver.promised[fired], SecondAfter(driver.promised[f]))
    BY <2>9, WithinASecond
  <2> HIDE DEF fired
  <2>12. driver'.played.id = fired
    BY <2>4 DEF fired
  <2> QED BY <2>9, <2>10, <2>11, <2>12
<1> QED BY <1>1, <1>2, <1>3, PTL DEF TrialSpec, TimersFireInOrder

-----------------------------------------------------------------------------
(***************************************************************************)
(* The bundle of a game.                                                   *)
(***************************************************************************)
\* A record with the fields of a bundle; what they hold is left open.
IsBundle(b) ==
  /\ b \in [id : {b.id}, stateId : {b.stateId}, title : {b.title}, players : {b.players}, files : {b.files},
            refs : {b.refs}, definitions : {b.definitions}, state : {b.state}, stateHash : {b.stateHash},
            manifestHash : {b.manifestHash}]
  /\ b.state \in [entities : {b.state.entities}, joined : {b.state.joined}]

\* Files with the hashes of their contents, among which the game's own.
WholeFiles(files) ==
  /\ files = [p \in DOMAIN files |-> files[p]] /\ GamePath \in DOMAIN files
  /\ \A p \in DOMAIN files : files[p] = releaseFile(files[p].content)

HashesFit(b) == b.manifestHash = manifestHashInput(b) /\ b.stateHash = b.state /\ StateOK(b.state)

SoundBundle(b) == IsBundle(b) /\ WholeFiles(b.files) /\ HashesFit(b) /\ b.stateId = b.id

IsDraft(d) == d \in [title : {d.title}, players : {d.players}, bundle : {d.bundle}]
SoundDraft(d) == IsDraft(d) /\ SoundBundle(d.bundle) /\ d.title = d.bundle.title /\ d.players = d.bundle.players

\* What a command makes of a draft before its hashes are computed.
RawDraft(d) == IsDraft(d) /\ IsBundle(d.bundle) /\ WholeFiles(d.bundle.files)

\* What was published, as BundlesStayWhole has it.
PublishedOpens ==
  published # Blank =>
    LET b == published.bundle
    IN  /\ validateReleaseBundle(b, published.players) = {} /\ ~b.state.joined
        /\ b.files = published.source.files /\ b.state.entities = published.source.state.entities

BundleInv ==
  /\ SoundDraft(draft) /\ (kept # Blank => SoundDraft(kept)) /\ (exported # Blank => SoundBundle(exported))
  /\ PublishedOpens

-----------------------------------------------------------------------------
LEMMA SameManifest ==
  ASSUME NEW a, NEW b, a.id = b.id, a.players = b.players, a.refs = b.refs, a.files = b.files
  PROVE  manifestHashInput(a) = manifestHashInput(b)
BY DEF manifestHashInput

LEMMA SameBytes ==
  ASSUME NEW a, NEW b, a.files = b.files
  PROVE  Bytes(a) = Bytes(b)
BY DEF Bytes, FoldFunction, FoldFunctionOnSet, MapThenFoldSet

\* The checks that fail are those that should.
LEMMA ChecksAre ==
  ASSUME NEW b, NEW players
  PROVE  LET failed == validateReleaseBundle(b, players)
             shape == releaseBundleShape(b)
         IN  /\ failed \subseteq {"size", "bundle_shape", "content_hashes", "card_designs", "manifest_hash", "state_hash",
                                  "kernel_load", "player_limits"}
             /\ "size" \in failed <=> ~(Bytes(b) <= BodyLimit)
             /\ "bundle_shape" \in failed <=> ~shape
             /\ "content_hashes" \in failed <=> ~(shape /\ \A p \in DOMAIN b.files : b.files[p] = releaseFile(b.files[p].content))
             /\ "card_designs" \in failed <=>
                  ~(shape /\ DesignsPath \in DOMAIN b.files => DesignsOK(b.files[DesignsPath].content.of, b, TRUE))
             /\ "manifest_hash" \in failed <=> ~(shape /\ b.manifestHash = manifestHashInput(b))
             /\ "state_hash" \in failed <=> ~(shape /\ b.stateHash = b.state)
             /\ "kernel_load" \in failed <=> ~(shape /\ StateOK(b.state) /\ b.stateHash = b.state)
             /\ "player_limits" \in failed <=> ~(shape /\ b.players = players)
<1> DEFINE F(check, ok) == IF ok THEN {} ELSE {check}
           shape == releaseBundleShape(b)
           size == Bytes(b) <= BodyLimit
           content == shape /\ \A p \in DOMAIN b.files : b.files[p] = releaseFile(b.files[p].content)
           designs == shape /\ DesignsPath \in DOMAIN b.files => DesignsOK(b.files[DesignsPath].content.of, b, TRUE)
           manifest == shape /\ b.manifestHash = manifestHashInput(b)
           state == shape /\ b.stateHash = b.state
           load == shape /\ StateOK(b.state) /\ b.stateHash = b.state
           limits == shape /\ b.players = players
<1>1. validateReleaseBundle(b, players) =
        F("size", size) \cup F("bundle_shape", shape) \cup F("content_hashes", content) \cup F("card_designs", designs)
        \cup F("manifest_hash", manifest) \cup F("state_hash", state) \cup F("kernel_load", load)
        \cup F("player_limits", limits)
  BY Zenon DEF validateReleaseBundle
<1> HIDE DEF shape, size, content, designs, manifest, state, load, limits
<1>2. LET failed == validateReleaseBundle(b, players)
      IN  /\ failed \subseteq {"size", "bundle_shape", "content_hashes", "card_designs", "manifest_hash", "state_hash",
                                  "kernel_load", "player_limits"}
          /\ "size" \in failed <=> ~size
          /\ "bundle_shape" \in failed <=> ~shape
          /\ "content_hashes" \in failed <=> ~content
          /\ "card_designs" \in failed <=> ~designs
          /\ "manifest_hash" \in failed <=> ~manifest
          /\ "state_hash" \in failed <=> ~state
          /\ "kernel_load" \in failed <=> ~load
          /\ "player_limits" \in failed <=> ~limits
  BY <1>1
<1> QED BY <1>2, Zenon DEF shape, size, content, designs, manifest, state, load, limits

\* rebuildDraftIntegrity makes a draft whole.
LEMMA RebuildMakesWhole ==
  ASSUME NEW d, RawDraft(d), StateOK(d.bundle.state)
  PROVE  SoundDraft(rebuildDraftIntegrity(d))
<1> DEFINE c == d.bundle
           b == [c EXCEPT !.title = d.title, !.players = d.players, !.stateHash = c.state, !.stateId = c.id]
           hash == manifestHashInput(b)
           whole == [b EXCEPT !.manifestHash = hash]
           r == [d EXCEPT !.bundle = whole]
<1>1. rebuildDraftIntegrity(d) = r
  BY DEF rebuildDraftIntegrity
<1>2. IsBundle(c) /\ WholeFiles(c.files) /\ IsDraft(d) /\ StateOK(c.state)
  BY DEF RawDraft
<1> HIDE DEF c
<1>3. /\ IsBundle(b) /\ b.id = c.id /\ b.stateId = c.id /\ b.title = d.title /\ b.players = d.players
      /\ b.files = c.files /\ b.refs = c.refs /\ b.state = c.state /\ b.stateHash = c.state
  BY <1>2 DEF IsBundle
<1> HIDE DEF b, hash
<1>4. /\ IsBundle(whole) /\ whole.id = c.id /\ whole.stateId = c.id /\ whole.title = d.title
      /\ whole.players = d.players /\ whole.files = c.files /\ whole.refs = c.refs /\ whole.state = c.state
      /\ whole.stateHash = c.state /\ whole.manifestHash = hash
  BY <1>3 DEF IsBundle
<1> HIDE DEF whole
<1>5. hash = manifestHashInput(whole)
  BY <1>3, <1>4, SameManifest DEF hash
<1>6. SoundBundle(whole)
  BY <1>2, <1>4, <1>5 DEF SoundBundle, HashesFit
<1>7. IsDraft(r) /\ r.title = d.title /\ r.players = d.players /\ r.bundle = whole
  BY <1>2 DEF IsDraft
<1> QED BY <1>1, <1>4, <1>6, <1>7 DEF SoundDraft

\* A draft that is whole is read back, unless it is of the refused.
LEMMA WholeIsReadBack ==
  ASSUME NEW d, SoundDraft(d)
  PROVE  Reopened(d) = d \/ Refused(d.bundle)
<1> DEFINE b == d.bundle
           failed == validateReleaseBundle(b, b.players)
<1> SUFFICES ASSUME ~Refused(b)
             PROVE  Reopened(d) = d
  OBVIOUS
<1>1. SoundBundle(b) /\ d.title = b.title /\ d.players = b.players
  BY DEF SoundDraft
<1> HIDE DEF b
<1>2. TitleOK(b.title) /\ "scripts/Game.lua" \notin DOMAIN b.files /\ Bytes(b) <= BodyLimit
      /\ (DesignsPath \in DOMAIN b.files => DesignsOK(b.files[DesignsPath].content.of, b, FALSE))
  BY DEF Refused
<1>3. releaseBundleShape(b)
  BY <1>1, <1>2 DEF releaseBundleShape, isReleasePath, SoundBundle, WholeFiles
<1>4. Bytes(b) <= BodyLimit
  BY <1>2
<1>5. failed \subseteq {"card_designs"} /\ ("card_designs" \in failed => DesignsPath \in DOMAIN b.files)
  <2>1. /\ \A p \in DOMAIN b.files : b.files[p] = releaseFile(b.files[p].content)
        /\ b.manifestHash = manifestHashInput(b) /\ b.stateHash = b.state /\ StateOK(b.state)
    BY <1>1 DEF SoundBundle, WholeFiles, HashesFit
  <2>2. /\ failed \subseteq {"size", "bundle_shape", "content_hashes", "card_designs", "manifest_hash", "state_hash",
                             "kernel_load", "player_limits"}
        /\ "size" \notin failed /\ "bundle_shape" \notin failed /\ "content_hashes" \notin failed
        /\ "manifest_hash" \notin failed /\ "state_hash" \notin failed /\ "kernel_load" \notin failed
        /\ "player_limits" \notin failed
        /\ "card_designs" \in failed => DesignsPath \in DOMAIN b.files
    BY <1>3, <1>4, <2>1, ChecksAre, Zenon
  <2> HIDE DEF failed
  <2> QED BY <2>2
<1>6. failed = {} \/ (failed = {"card_designs"} /\ DesignsPath \in DOMAIN b.files)
  <2> HIDE DEF failed
  <2> QED BY <1>5
<1>7. Readable(b)
  BY <1>2, <1>6, Zenon DEF Readable
<1>8. d.title # ""
  BY <1>1, <1>2 DEF TitleOK
<1> QED BY <1>1, <1>7, <1>8, Zenon DEF Reopened, b

-----------------------------------------------------------------------------
\* The drafts that the commands make.
LEMMA ReleaseFileIs ==
  ASSUME NEW content
  PROVE  releaseFile(content) = releaseFile(releaseFile(content).content)
BY DEF releaseFile

LEMMA FilesStayWhole ==
  ASSUME NEW files, WholeFiles(files), NEW p, NEW content
  PROVE  WholeFiles(With(files, p, releaseFile(content)))
<1> DEFINE file == releaseFile(content)
           g == With(files, p, file)
<1>1. file = releaseFile(file.content)
  BY ReleaseFileIs
<1> HIDE DEF file
<1>2. DOMAIN g = DOMAIN files \cup {p} /\ \A q \in DOMAIN g : g[q] = IF q = p THEN file ELSE files[q]
  BY DEF With
<1>3. g = [q \in DOMAIN g |-> g[q]]
  BY DEF With
<1> HIDE DEF g
<1>4. \A q \in DOMAIN g : g[q] = releaseFile(g[q].content)
  BY <1>1, <1>2 DEF WholeFiles
<1>5. GamePath \in DOMAIN g
  BY <1>2 DEF WholeFiles
<1>6. WholeFiles(g)
  BY <1>3, <1>4, <1>5, Zenon DEF WholeFiles
<1> QED BY <1>6 DEF g, file

LEMMA FewerFiles ==
  ASSUME NEW files, WholeFiles(files), NEW p, p # GamePath
  PROVE  WholeFiles(Restrict(files, DOMAIN files \ {p}))
<1> DEFINE g == Restrict(files, DOMAIN files \ {p})
<1>1. DOMAIN g = DOMAIN files \ {p} /\ (\A q \in DOMAIN g : g[q] = files[q]) /\ g = [q \in DOMAIN g |-> g[q]]
  BY DEF Restrict
<1> HIDE DEF g
<1>2. \A q \in DOMAIN g : g[q] = releaseFile(g[q].content)
  BY <1>1 DEF WholeFiles
<1>3. GamePath \in DOMAIN g
  BY <1>1 DEF WholeFiles
<1>4. WholeFiles(g)
  BY <1>1, <1>2, <1>3, Zenon DEF WholeFiles
<1> QED BY <1>4 DEF g

LEMMA ScriptsAreNotTheGame == \A p \in Scripts : p # GamePath
BY DEF Scripts, GamePath

LEMMA RawWithFiles ==
  ASSUME SoundDraft(draft), NEW files, WholeFiles(files)
  PROVE  RawDraft(WithFiles(files)) /\ WithFiles(files).bundle.state = draft.bundle.state
<1> DEFINE c == draft.bundle
           b == [c EXCEPT !.files = files]
           d == [draft EXCEPT !.bundle = b]
<1>1. WithFiles(files) = d
  BY DEF WithFiles
<1>2. IsBundle(c) /\ IsDraft(draft)
  BY DEF SoundDraft, SoundBundle
<1> HIDE DEF c
<1>3. IsBundle(b) /\ b.files = files /\ b.state = c.state
  BY <1>2 DEF IsBundle
<1> HIDE DEF b
<1>4. IsDraft(d) /\ d.bundle = b
  BY <1>2 DEF IsDraft
<1> QED BY <1>1, <1>3, <1>4 DEF RawDraft, c

LEMMA RawWithEntities ==
  ASSUME SoundDraft(draft), NEW entities
  PROVE  RawDraft(WithEntities(entities))
<1> DEFINE c == draft.bundle
           s == [c.state EXCEPT !.entities = entities]
           b == [c EXCEPT !.state = s]
           d == [draft EXCEPT !.bundle = b]
<1>1. WithEntities(entities) = d
  BY DEF WithEntities
<1>2. IsBundle(c) /\ IsDraft(draft) /\ WholeFiles(c.files)
  BY DEF SoundDraft, SoundBundle
<1> HIDE DEF c
<1>3. s \in [entities : {s.entities}, joined : {s.joined}]
  BY <1>2 DEF IsBundle
<1> HIDE DEF s
<1>4. IsBundle(b) /\ b.files = c.files
  BY <1>2, <1>3 DEF IsBundle
<1> HIDE DEF b
<1>5. IsDraft(d) /\ d.bundle = b
  BY <1>2 DEF IsDraft
<1> QED BY <1>1, <1>2, <1>4, <1>5 DEF RawDraft

\* A command leaves a whole draft and all else alone.
Whole == SoundDraft(draft') /\ UNCHANGED <<kept, exported, published>>

LEMMA CommandsKeep ==
  ASSUME NEW next, RawDraft(next), Command(next)
  PROVE  Whole
BY RebuildMakesWhole DEF Command, Whole

LEMMA FileCommandKeeps ==
  ASSUME SoundDraft(draft), NEW files, WholeFiles(files), Command(WithFiles(files))
  PROVE  Whole
BY RawWithFiles, CommandsKeep

LEMMA EntityCommandKeeps ==
  ASSUME SoundDraft(draft), NEW entities, Command(WithEntities(entities))
  PROVE  Whole
BY RawWithEntities, CommandsKeep

LEMMA DraftFilesAreWhole ==
  ASSUME SoundDraft(draft)
  PROVE  WholeFiles(DraftFiles)
BY DEF SoundDraft, SoundBundle, DraftFiles

LEMMA ScriptsKeep ==
  ASSUME SoundDraft(draft), NEW p \in Scripts, NEW q \in Scripts, NEW w,
         createScript(p) \/ deleteScript(p) \/ updateScript(p, w) \/ renameScript(p, q)
  PROVE  Whole
<1> DEFINE files == DraftFiles
<1>1. WholeFiles(files) /\ p # GamePath
  BY DraftFilesAreWhole, ScriptsAreNotTheGame
<1>2. CASE createScript(p)
  BY <1>1, <1>2, FilesStayWhole, FileCommandKeeps DEF createScript
<1>3. CASE deleteScript(p)
  BY <1>1, <1>3, FewerFiles, FileCommandKeeps DEF deleteScript
<1>4. CASE updateScript(p, w)
  <2> DEFINE file == releaseFile(Content("text", w))
             g == [files EXCEPT ![p] = file]
  <2>1. p \in DOMAIN files /\ Command(WithFiles(g))
    BY <1>4 DEF updateScript
  <2>2. WholeFiles(g)
    <3>1. file = releaseFile(file.content)
      BY ReleaseFileIs
    <3> HIDE DEF file, files
    <3>2. DOMAIN g = DOMAIN files /\ (\A x \in DOMAIN g : g[x] = IF x = p THEN file ELSE files[x])
          /\ g = [x \in DOMAIN g |-> g[x]]
      BY <1>1, <2>1 DEF WholeFiles
    <3> HIDE DEF g
    <3>3. \A x \in DOMAIN g : g[x] = releaseFile(g[x].content)
      BY <1>1, <3>1, <3>2 DEF WholeFiles
    <3> QED BY <1>1, <3>2, <3>3 DEF WholeFiles
  <2> QED BY <2>1, <2>2, FileCommandKeeps
<1>5. CASE renameScript(p, q)
  <2> DEFINE file == releaseFile(files[p].content)
             g == [x \in (DOMAIN files \ {p}) \cup {q} |-> IF x = q THEN file ELSE files[x]]
  <2>1. Command(WithFiles(g))
    BY <1>5 DEF renameScript
  <2>2. WholeFiles(g)
    <3>1. file = releaseFile(file.content)
      BY ReleaseFileIs
    <3> HIDE DEF file, files
    <3>2. DOMAIN g = (DOMAIN files \ {p}) \cup {q} /\ (\A x \in DOMAIN g : g[x] = IF x = q THEN file ELSE files[x])
          /\ g = [x \in DOMAIN g |-> g[x]]
      OBVIOUS
    <3> HIDE DEF g
    <3>3. \A x \in DOMAIN g : g[x] = releaseFile(g[x].content)
      BY <1>1, <3>1, <3>2 DEF WholeFiles
    <3>4. GamePath \in DOMAIN g
      BY <1>1, <3>2 DEF WholeFiles
    <3> QED BY <3>2, <3>3, <3>4, Zenon DEF WholeFiles
  <2> QED BY <2>1, <2>2, FileCommandKeeps
<1> QED BY <1>2, <1>3, <1>4, <1>5

LEMMA EntitiesKeep ==
  ASSUME SoundDraft(draft), NEW n, NEW other,
         renameEntity(n, other) \/ duplicateEntity(n, other) \/ deleteEntity(n) \/ addComponent(n) \/ removeComponent(n)
  PROVE  Whole
<1>1. CASE renameEntity(n, other)
  BY <1>1, EntityCommandKeeps, Zenon DEF renameEntity
<1>2. CASE duplicateEntity(n, other)
  BY <1>2, EntityCommandKeeps, Zenon DEF duplicateEntity
<1>3. CASE deleteEntity(n)
  BY <1>3, EntityCommandKeeps, Zenon DEF deleteEntity
<1>4. CASE addComponent(n)
  BY <1>4, EntityCommandKeeps, Zenon DEF addComponent
<1>5. CASE removeComponent(n)
  BY <1>5, EntityCommandKeeps, Zenon DEF removeComponent
<1> QED BY <1>1, <1>2, <1>3, <1>4, <1>5

LEMMA MetadataKeep ==
  ASSUME SoundDraft(draft), NEW title, NEW players, updateDraftMetadata(title, players)
  PROVE  Whole
<1> DEFINE d == [draft EXCEPT !.title = title, !.players = players]
<1>1. Command(d)
  BY DEF updateDraftMetadata
<1>2. IsBundle(draft.bundle) /\ IsDraft(draft) /\ WholeFiles(draft.bundle.files)
  BY DEF SoundDraft, SoundBundle
<1>3. IsDraft(d) /\ d.bundle = draft.bundle
  BY <1>2 DEF IsDraft
<1> HIDE DEF d
<1> QED BY <1>1, <1>2, <1>3, CommandsKeep DEF RawDraft

LEMMA AttachmentsKeep ==
  ASSUME SoundDraft(draft), EditDesigns \/ attachSoundBundle \/ attachCardBack
  PROVE  Whole
<1>1. WholeFiles(DraftFiles)
  BY DraftFilesAreWhole
<1>2. ASSUME NEW p, NEW content, Attach(p, releaseFile(content))
      PROVE  Whole
  BY <1>1, <1>2, FilesStayWhole, FileCommandKeeps DEF Attach, Attached
<1>3. ASSUME NEW designs, attachCardDesigns(designs)
      PROVE  Whole
  BY <1>2, <1>3 DEF attachCardDesigns
<1>4. EditDesigns => Whole
  BY <1>3, Zenon DEF EditDesigns
<1>5. attachSoundBundle => Whole
  BY <1>2 DEF attachSoundBundle
<1>6. attachCardBack => Whole
  <2>1. BackPath # GamePath
    BY DEF BackPath, GamePath
  <2> QED BY <1>1, <1>2, <2>1, FewerFiles, FileCommandKeeps DEF attachCardBack
<1> QED BY <1>4, <1>5, <1>6

-----------------------------------------------------------------------------
\* The drafts that an editor begins with.
LEMMA GameFileIsWhole == WholeFiles(GameFile)
<1>1. DOMAIN GameFile = {GamePath, "scripts/game.lua"} /\ GameFile = [p \in DOMAIN GameFile |-> GameFile[p]]
  BY DEF GameFile
<1>2. ASSUME NEW p \in DOMAIN GameFile
      PROVE  GameFile[p] = releaseFile(GameFile[p].content)
  <2> DEFINE content == Content(IF p = GamePath THEN "game" ELSE "text", 0)
  <2>1. GameFile[p] = releaseFile(content)
    BY DEF GameFile
  <2> QED BY <2>1, ReleaseFileIs
<1> QED BY <1>1, <1>2, Zenon DEF WholeFiles

LEMMA BeginningsAreWhole ==
  ASSUME NEW entities, StateOK(Table(entities))
  PROVE  SoundDraft(Draft(entities))
<1> DEFINE state == Table(entities)
           b == Bundle(GameFile, state)
           d == [title |-> "Title", players |-> 4, bundle |-> b]
<1>1. state \in [entities : {state.entities}, joined : {state.joined}]
  BY DEF Table
<1> HIDE DEF state
<1>2. IsBundle(b) /\ b.files = GameFile /\ b.state = state
  BY <1>1 DEF IsBundle, Bundle
<1> HIDE DEF b
<1>3. IsDraft(d) /\ d.bundle = b
  BY DEF IsDraft
<1>4. Draft(entities) = rebuildDraftIntegrity(d)
  BY DEF Draft, b, state
<1> HIDE DEF d
<1>5. RawDraft(d) /\ StateOK(d.bundle.state)
  BY <1>2, <1>3, GameFileIsWhole DEF RawDraft, state
<1> QED BY <1>4, <1>5, RebuildMakesWhole

LEMMA FirstDraftsAreWhole == SoundDraft(EmptyDraft) /\ SoundDraft(CardDraft)
<1>1. SoundDraft(EmptyDraft)
  <2> DEFINE entities == [n \in {} |-> Blank]
  <2>1. Table(entities).entities = entities /\ DOMAIN entities = {}
    BY DEF Table
  <2>2. StateOK(Table(entities))
    BY <2>1 DEF StateOK
  <2> QED BY <2>2, BeginningsAreWhole DEF EmptyDraft
<1>2. SoundDraft(CardDraft)
  <2> DEFINE entities == [n \in {"deck", "card"} |-> IF n = "deck" THEN Entity(TRUE, {"card"}, "none") ELSE Entity(FALSE, {}, "ace")]
  <2>1. /\ Table(entities).entities = entities /\ DOMAIN entities = {"deck", "card"}
        /\ entities["deck"].items = {"card"} /\ entities["card"].items = {}
    BY DEF Table, Entity
  <2> HIDE DEF entities
  <2>2. StateOK(Table(entities))
    BY <2>1 DEF StateOK
  <2> QED BY <2>2, BeginningsAreWhole DEF CardDraft, entities
<1> QED BY <1>1, <1>2

LEMMA AiBundleKeeps ==
  ASSUME SoundDraft(draft), applyAiBundle
  PROVE  Whole
<1> DEFINE c == EmptyDraft.bundle
           b == [c EXCEPT !.players = 2]
           d == [draft EXCEPT !.bundle = b, !.title = EmptyDraft.title, !.players = 2]
<1>1. Command(d)
  BY DEF applyAiBundle
<1>2. IsBundle(c) /\ WholeFiles(c.files) /\ IsDraft(draft)
  BY FirstDraftsAreWhole DEF SoundDraft, SoundBundle
<1> HIDE DEF c
<1>3. IsBundle(b) /\ b.files = c.files
  BY <1>2 DEF IsBundle
<1> HIDE DEF b
<1>4. IsDraft(d) /\ d.bundle = b
  BY <1>2 DEF IsDraft
<1> HIDE DEF d
<1> QED BY <1>1, <1>2, <1>3, <1>4, CommandsKeep DEF RawDraft

-----------------------------------------------------------------------------
\* Storage, files and the server.

\* Whoever reads a bundle has checked all but its images.
LEMMA ReadIsWhole ==
  ASSUME NEW b, Readable(b)
  PROVE  /\ \A p \in DOMAIN b.files : b.files[p] = releaseFile(b.files[p].content)
         /\ StateOK(b.state)
<1> DEFINE failed == validateReleaseBundle(b, b.players)
<1>1. failed = {} \/ failed = {"card_designs"}
  BY Zenon DEF Readable
<1>2. /\ "content_hashes" \in failed <=>
           ~(releaseBundleShape(b) /\ \A p \in DOMAIN b.files : b.files[p] = releaseFile(b.files[p].content))
      /\ "kernel_load" \in failed <=> ~(releaseBundleShape(b) /\ StateOK(b.state) /\ b.stateHash = b.state)
  BY ChecksAre, Zenon
<1> HIDE DEF failed
<1>3. "content_hashes" \notin failed /\ "kernel_load" \notin failed
  BY <1>1
<1> QED BY <1>2, <1>3

LEMMA OpenEditorKeeps ==
  ASSUME BundleInv, OpenEditor
  PROVE  SoundDraft(draft') /\ SoundDraft(kept')
<1> DEFINE loaded == Reopened(kept)
           opened == IF loaded = Blank THEN EmptyDraft ELSE loaded
<1>1. /\ kept # Blank /\ draft' = rebuildDraftIntegrity(opened)
      /\ kept' = IF loaded = Blank THEN EmptyDraft ELSE kept
  BY DEF OpenEditor
<1>2. loaded = Blank \/ loaded = kept
  BY DEF Reopened
<1>3. SoundDraft(kept) /\ SoundDraft(EmptyDraft)
  BY <1>1, FirstDraftsAreWhole DEF BundleInv
<1> HIDE DEF loaded
<1>4. SoundDraft(opened)
  BY <1>2, <1>3
<1> HIDE DEF opened
<1>5. SoundDraft(rebuildDraftIntegrity(opened))
  BY <1>4, RebuildMakesWhole DEF SoundDraft, SoundBundle, RawDraft, HashesFit
<1> QED BY <1>1, <1>3, <1>5

\* Whatever was done to an exported file, it is a bundle with the game's own file.
LEMMA TamperedIsBundle ==
  ASSUME NEW x, SoundBundle(x), NEW b \in Tampered(x)
  PROVE  /\ IsBundle(b) /\ GamePath \in DOMAIN b.files /\ b.files = [p \in DOMAIN b.files |-> b.files[p]]
<1> DEFINE lua == "scripts/game.lua"
           Fn(files) == files = [p \in DOMAIN files |-> files[p]]
           Good(y) == IsBundle(y) /\ GamePath \in DOMAIN y.files /\ Fn(y.files)
<1>1. Good(x)
  BY DEF SoundBundle, WholeFiles
<1>2. ASSUME NEW path, NEW file
      PROVE  Good([x EXCEPT !.files = [@ EXCEPT ![path] = file]])
  <2> DEFINE files == [x.files EXCEPT ![path] = file]
             y == [x EXCEPT !.files = files]
  <2>1. DOMAIN files = DOMAIN x.files /\ Fn(files)
    BY <1>1
  <2> HIDE DEF files
  <2>2. IsBundle(y) /\ y.files = files
    BY <1>1 DEF IsBundle
  <2> HIDE DEF y
  <2>3. Good(y)
    BY <1>1, <2>1, <2>2
  <2>4. [x EXCEPT !.files = [@ EXCEPT ![path] = file]] = y
    BY DEF y, files
  <2> QED BY <2>3, <2>4, Zenon
<1>3. CASE b = x
  BY <1>1, <1>3
<1>4. CASE b = [x EXCEPT !.files["scripts/game.lua"].content = Content("other", 0)]
  <2> DEFINE file == [x.files[lua] EXCEPT !.content = Content("other", 0)]
  <2>1. b = [x EXCEPT !.files = [@ EXCEPT ![lua] = file]]
    BY <1>4
  <2> HIDE DEF Good, file
  <2> QED BY <1>2, <2>1 DEF Good
<1>5. CASE b = [x EXCEPT !.files["scripts/game.lua"] = releaseFile(Content("other", 0))]
  <2> DEFINE file == releaseFile(Content("other", 0))
  <2>1. b = [x EXCEPT !.files = [@ EXCEPT ![lua] = file]]
    BY <1>5
  <2> HIDE DEF Good, file
  <2> QED BY <1>2, <2>1 DEF Good
<1>6. CASE b = [x EXCEPT !.state.joined = TRUE]
  <2> DEFINE s == [x.state EXCEPT !.joined = TRUE]
  <2>1. b = [x EXCEPT !.state = s]
    BY <1>6
  <2>2. s \in [entities : {s.entities}, joined : {s.joined}]
    BY <1>1 DEF IsBundle
  <2> HIDE DEF s
  <2>3. IsBundle(b) /\ b.files = x.files
    BY <1>1, <2>1, <2>2 DEF IsBundle
  <2> QED BY <1>1, <2>3
<1>7. CASE b = [x EXCEPT !.state.joined = TRUE, !.stateHash.joined = TRUE]
  <2> DEFINE s == [x.state EXCEPT !.joined = TRUE]
             h == [x.stateHash EXCEPT !.joined = TRUE]
  <2>1. b = [x EXCEPT !.state = s, !.stateHash = h]
    BY <1>7
  <2>2. s \in [entities : {s.entities}, joined : {s.joined}]
    BY <1>1 DEF IsBundle
  <2> HIDE DEF s, h
  <2>3. IsBundle(b) /\ b.files = x.files
    BY <1>1, <2>1, <2>2 DEF IsBundle
  <2> QED BY <1>1, <2>3
<1> DEFINE c == x.files[DesignsPath].content
           file == releaseFile([c EXCEPT !.of.images[Family] = "damaged"])
           d == [x EXCEPT !.files[DesignsPath] = file]
<1>8. Good(d)
  <2>1. d = [x EXCEPT !.files = [@ EXCEPT ![DesignsPath] = file]]
    OBVIOUS
  <2> HIDE DEF Good, file, d
  <2> QED BY <1>2, <2>1
<1>9. CASE b = d
  <2> HIDE DEF d
  <2> QED BY <1>8, <1>9
<1>10. CASE b = [d EXCEPT !.manifestHash = manifestHashInput(d)]
  <2> DEFINE h == manifestHashInput(d)
  <2>1. b = [d EXCEPT !.manifestHash = h]
    BY <1>10
  <2> HIDE DEF d, h
  <2>2. IsBundle(b) /\ b.files = d.files
    BY <1>8, <2>1 DEF IsBundle
  <2> QED BY <1>8, <2>2
<1>11. \/ b \in {x, [x EXCEPT !.files["scripts/game.lua"].content = Content("other", 0)],
             [x EXCEPT !.files["scripts/game.lua"] = releaseFile(Content("other", 0))],
             [x EXCEPT !.state.joined = TRUE], [x EXCEPT !.state.joined = TRUE, !.stateHash.joined = TRUE]}
       \/ b \in {d, [d EXCEPT !.manifestHash = manifestHashInput(d)]}
  BY Zenon DEF Tampered
<1> HIDE DEF d
<1>12. \/ b = x
       \/ b = [x EXCEPT !.files["scripts/game.lua"].content = Content("other", 0)]
       \/ b = [x EXCEPT !.files["scripts/game.lua"] = releaseFile(Content("other", 0))]
       \/ b = [x EXCEPT !.state.joined = TRUE]
       \/ b = [x EXCEPT !.state.joined = TRUE, !.stateHash.joined = TRUE]
       \/ b = d \/ b = [d EXCEPT !.manifestHash = manifestHashInput(d)]
  BY <1>11, Zenon
<1> QED BY <1>3, <1>4, <1>5, <1>6, <1>7, <1>9, <1>10, <1>12, Zenon

LEMMA ImportKeeps ==
  ASSUME BundleInv, importBundleAsDraft
  PROVE  SoundDraft(draft')
<1>1. exported # Blank /\ SoundBundle(exported)
  BY DEF importBundleAsDraft, BundleInv
<1>2. PICK b \in Tampered(exported) :
        Readable(b) /\ draft' = rebuildDraftIntegrity([title |-> b.title, players |-> b.players, bundle |-> b])
  BY DEF importBundleAsDraft
<1> DEFINE d == [title |-> b.title, players |-> b.players, bundle |-> b]
<1>3. IsBundle(b) /\ WholeFiles(b.files) /\ StateOK(b.state)
  BY <1>1, <1>2, TamperedIsBundle, ReadIsWhole DEF WholeFiles
<1>4. RawDraft(d) /\ d.bundle = b
  BY <1>3 DEF RawDraft, IsDraft
<1> HIDE DEF d
<1>5. SoundDraft(rebuildDraftIntegrity(d))
  BY <1>3, <1>4, RebuildMakesWhole
<1> QED BY <1>2, <1>5 DEF d

\* What is bound to the server's ids passes the checks again.
LEMMA PublishKeeps ==
  ASSUME BundleInv, Publish
  PROVE  PublishedOpens'
<1>1. kept # Blank /\ SoundDraft(kept)
  BY DEF Publish, BundleInv
<1> DEFINE c == kept.bundle
<1>2. PICK title, players :
        /\ TitleOK(title) /\ validateReleaseBundle(c, players) = {}
        /\ published' = [players |-> players, title |-> title, source |-> c,
                         bundle |-> prepareUploadedBundle(c, "release", title)]
  BY Zenon DEF Publish
<1> DEFINE s == [c.state EXCEPT !.joined = FALSE]
           b == [c EXCEPT !.id = "release", !.title = title, !.stateId = "release", !.state = s, !.stateHash = s]
           hash == manifestHashInput(b)
           whole == [b EXCEPT !.manifestHash = hash]
<1>3. prepareUploadedBundle(c, "release", title) = whole
  BY DEF prepareUploadedBundle
<1>4. IsBundle(c) /\ WholeFiles(c.files)
  BY <1>1 DEF SoundDraft, SoundBundle
<1>5. /\ Bytes(c) <= BodyLimit /\ releaseBundleShape(c) /\ StateOK(c.state) /\ c.players = players
      /\ \A p \in DOMAIN c.files : c.files[p] = releaseFile(c.files[p].content)
      /\ DesignsPath \in DOMAIN c.files => DesignsOK(c.files[DesignsPath].content.of, c, TRUE)
  <2> HIDE DEF c
  <2> QED BY <1>2, ChecksAre, Zenon
<1> HIDE DEF c
<1>6. s.entities = c.state.entities /\ s.joined = FALSE
  BY <1>4 DEF IsBundle
<1> HIDE DEF s
<1>7. /\ b.id = "release" /\ b.stateId = "release" /\ b.title = title /\ b.players = players /\ b.files = c.files
      /\ b.refs = c.refs /\ b.definitions = c.definitions /\ b.state = s /\ b.stateHash = s
      /\ b \in [id : {b.id}, stateId : {b.stateId}, title : {b.title}, players : {b.players}, files : {b.files},
                refs : {b.refs}, definitions : {b.definitions}, state : {b.state}, stateHash : {b.stateHash},
                manifestHash : {b.manifestHash}]
  BY <1>4, <1>5 DEF IsBundle
<1> HIDE DEF b, hash
<1>8. /\ whole.id = "release" /\ whole.stateId = "release" /\ whole.title = title /\ whole.players = players
      /\ whole.files = c.files /\ whole.refs = b.refs /\ whole.definitions = c.definitions /\ whole.state = s
      /\ whole.stateHash = s /\ whole.manifestHash = hash
  BY <1>7
<1> HIDE DEF whole
<1>9. whole.manifestHash = manifestHashInput(whole)
  BY <1>7, <1>8, SameManifest DEF hash
<1>10. Bytes(whole) <= BodyLimit
  BY <1>5, <1>8, SameBytes
<1>11. releaseBundleShape(whole)
  BY <1>2, <1>5, <1>8 DEF releaseBundleShape
<1>12. StateOK(whole.state)
  BY <1>5, <1>6, <1>8 DEF StateOK
<1>13. DesignsPath \in DOMAIN whole.files => DesignsOK(whole.files[DesignsPath].content.of, whole, TRUE)
  BY <1>5, <1>6, <1>8 DEF DesignsOK
<1>14. validateReleaseBundle(whole, players) = {}
  <2> DEFINE failed == validateReleaseBundle(whole, players)
  <2>1. \A p \in DOMAIN whole.files : whole.files[p] = releaseFile(whole.files[p].content)
    BY <1>5, <1>8
  <2>2. /\ failed \subseteq {"size", "bundle_shape", "content_hashes", "card_designs", "manifest_hash", "state_hash",
                             "kernel_load", "player_limits"}
        /\ "size" \notin failed /\ "bundle_shape" \notin failed /\ "content_hashes" \notin failed
        /\ "card_designs" \notin failed /\ "manifest_hash" \notin failed /\ "state_hash" \notin failed
        /\ "kernel_load" \notin failed /\ "player_limits" \notin failed
    <3>1. whole.stateHash = whole.state
      BY <1>8
    <3> QED BY <1>8, <1>9, <1>10, <1>11, <1>12, <1>13, <2>1, <3>1, ChecksAre, Zenon
  <2> HIDE DEF failed
  <2>3. failed = {}
    BY <2>2
  <2> QED BY <2>3 DEF failed
<1>15. /\ published'.bundle = whole /\ published'.players = players /\ published'.source = c
  BY <1>2, <1>3
<1> QED BY <1>6, <1>8, <1>14, <1>15 DEF PublishedOpens

LEMMA BundlesBegin ==
  ASSUME BundleInit
  PROVE  BundleInv
BY FirstDraftsAreWhole DEF BundleInit, BundleInv, PublishedOpens

LEMMA BundleNextKeeps ==
  ASSUME BundleInv, [BundleNext]_bundleVars
  PROVE  BundleInv'
<1>1. SoundDraft(draft)
  BY DEF BundleInv
<1>2. Whole => BundleInv'
  BY DEF Whole, BundleInv, PublishedOpens
<1>3. CASE \E p \in Scripts : createScript(p) \/ deleteScript(p) \/ (\E w \in {0, 2} : updateScript(p, w))
                              \/ (\E q \in Scripts : renameScript(p, q))
  BY <1>1, <1>2, <1>3, ScriptsKeep
<1>4. CASE \E n \in Names : renameEntity(n, "other") \/ duplicateEntity(n, "other") \/ deleteEntity(n)
                            \/ addComponent(n) \/ removeComponent(n)
  BY <1>1, <1>2, <1>4, EntitiesKeep
<1>5. CASE \E title \in {"Title", "A title of more than eighty characters"}, players \in {2, 4} :
             updateDraftMetadata(title, players)
  BY <1>1, <1>2, <1>5, MetadataKeep
<1>6. CASE EditDesigns \/ attachSoundBundle \/ attachCardBack \/ applyAiBundle
  BY <1>1, <1>2, <1>6, AttachmentsKeep, AiBundleKeeps
<1>7. CASE Save
  BY <1>1, <1>7 DEF Save, BundleInv, PublishedOpens
<1>8. CASE OpenEditor
  <2>1. SoundDraft(draft') /\ SoundDraft(kept')
    BY <1>8, OpenEditorKeeps
  <2>2. exported' = exported /\ published' = published
    BY <1>8 DEF OpenEditor
  <2> QED BY <2>1, <2>2 DEF BundleInv, PublishedOpens
<1>9. CASE exportBundleText
  BY <1>1, <1>9 DEF exportBundleText, BundleInv, PublishedOpens, SoundDraft
<1>10. CASE importBundleAsDraft
  <2>1. SoundDraft(draft')
    BY <1>10, ImportKeeps
  <2>2. kept' = kept /\ exported' = exported /\ published' = published
    BY <1>10 DEF importBundleAsDraft
  <2> QED BY <2>1, <2>2 DEF BundleInv, PublishedOpens
<1>11. CASE Publish
  <2>1. PublishedOpens'
    BY <1>11, PublishKeeps
  <2>2. draft' = draft /\ kept' = kept /\ exported' = exported
    BY <1>11 DEF Publish
  <2> QED BY <2>1, <2>2 DEF BundleInv
<1>12. CASE UNCHANGED bundleVars
  BY <1>12 DEF bundleVars, BundleInv, PublishedOpens
<1> QED BY <1>3, <1>4, <1>5, <1>6, <1>7, <1>8, <1>9, <1>10, <1>11, <1>12, Zenon DEF BundleNext

\* Whatever is edited, imported, saved and read back, for as long as the author goes on:
\* the editor holds, keeps and hands out whole bundles, reads back what it kept but for
\* the drafts that are refused, and what was published opens as it was uploaded.
THEOREM BundlesAlwaysWhole == BundleSpec => []BundlesStayWhole
<1>1. BundleInit => BundleInv
  BY BundlesBegin
<1>2. BundleInv /\ [BundleNext]_bundleVars => BundleInv'
  BY BundleNextKeeps
<1>3. BundleInv => BundlesStayWhole
  <2> SUFFICES ASSUME BundleInv
               PROVE  BundlesStayWhole
    OBVIOUS
  <2>1. kept # Blank => Reopened(kept) = kept \/ Refused(kept.bundle)
    BY WholeIsReadBack DEF BundleInv
  <2>2. SoundBundle(draft.bundle) /\ (kept # Blank => SoundBundle(kept.bundle)) /\ (exported # Blank => SoundBundle(exported))
    BY DEF BundleInv, SoundDraft
  <2>3. \A b \in {draft.bundle} \cup (IF kept = Blank THEN {} ELSE {kept.bundle}) \cup (IF exported = Blank THEN {} ELSE {exported}) :
          SoundBundle(b)
    BY <2>2
  <2>4. \A b : SoundBundle(b) =>
          /\ b.manifestHash = manifestHashInput(b) /\ b.stateHash = b.state /\ StateOK(b.state)
          /\ \A p \in DOMAIN b.files : b.files[p] = releaseFile(b.files[p].content)
    BY DEF SoundBundle, HashesFit, WholeFiles
  <2>5. PublishedOpens
    BY DEF BundleInv
  <2> QED BY <2>1, <2>3, <2>4, <2>5, Zenon DEF BundlesStayWhole, PublishedOpens
<1> QED BY <1>1, <1>2, <1>3, PTL DEF BundleSpec

=============================================================================
