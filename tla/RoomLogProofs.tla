---------------------------- MODULE RoomLogProofs ----------------------------
(***************************************************************************)
(* Proofs about RoomLog for every window size, checkpoint interval, batch  *)
(* bound and set of clients that satisfies LogAssumption.                  *)
(***************************************************************************)
EXTENDS RoomLog, FiniteSetTheorems, TLAPS

\* The rows of a log that ends at n once everything up to base - Retention is
\* deleted.
Rows(base, n) == {i \in 1 .. n : i > base - Retention}

\* What is trimmed is measured from the checkpoint in a scripted room and from
\* the head in any other, and a room the worker can replay never lets the
\* checkpoint fall a whole interval behind.
RetentionInv ==
  /\ stored = Rows(IF RoomIsScripted THEN checkpoint ELSE last, last)
  /\ ~RoomIsScripted => last - checkpoint < Interval

\* Every cause in the log is remembered by the state that guards its reuse.
MemoryInv ==
  /\ \A r \in Requests : dedup[r] # 0 => log[dedup[r]] = Cause("request", r)
  /\ \A i \in 1 .. last :
       /\ log[i].kind = "request" => dedup[log[i].of] = i
       /\ log[i].kind \in {"player_joined", "seat_assign", "seat_claim"} => log[i].of \in joined
       /\ log[i].kind = "timer_fire" => log[i].of \in fired
  /\ OneSequencePerCause

LogInv == TypeOK /\ RetentionInv /\ MemoryInv

-----------------------------------------------------------------------------
\* The window of such rows is the last Retention actions, so it is the same
\* whatever the base.
LEMMA WindowOfRows ==
  ASSUME NEW n \in Nat, NEW base \in 0 .. n
  PROVE  /\ Window(Rows(base, n), n) = {i \in 1 .. n : i > n - Retention}
         /\ RetentionFloor(Rows(base, n), n) = IF n > Retention THEN n - Retention + 1 ELSE 1
<1> DEFINE W == {i \in 1 .. n : i > n - Retention}
           f == IF n > Retention THEN n - Retention + 1 ELSE 1
<1>1. Window(Rows(base, n), n) = W
  BY LogAssumption DEF Window, Rows
<1>2. CASE n = 0
  <2>1. W = {}
    BY <1>2
  <2> QED  BY <1>1, <1>2, <2>1, LogAssumption DEF RetentionFloor
<1>3. CASE n # 0
  <2>1. f \in W /\ \A j \in W : f <= j
    BY <1>3, LogAssumption
  <2>2. \A i \in W : (\A j \in W : i <= j) => i = f
    BY <2>1, LogAssumption
  <2>3. (CHOOSE i \in W : \A j \in W : i <= j) = f
    BY <2>1, <2>2
  <2> QED  BY <1>1, <2>1, <2>3 DEF RetentionFloor
<1> QED  BY <1>2, <1>3

\* The rows left by an append are again of that form.
LEMMA PersistedRows ==
  ASSUME TypeOK, RetentionInv, NEW n \in Nat, n >= last
  PROVE  Persist(n) = Rows(IF RoomIsScripted THEN checkpoint ELSE n, n)
<1>1. last \in Nat /\ checkpoint \in 0 .. last
  BY DEF TypeOK, last
<1> HIDE DEF last
<1> QED  BY <1>1, LogAssumption DEF RetentionInv, Persist, Window, Rows

-----------------------------------------------------------------------------
\* What one call of Sequenced does to the log.
LEMMA LogGrows ==
  ASSUME TypeOK, NEW e \in Seq(Causes), log' = log \o e
  PROVE  /\ log' \in Seq(Causes)
         /\ last \in Nat /\ Len(e) \in Nat /\ last' = last + Len(e)
         /\ \A i \in 1 .. last : log'[i] = log[i]
         /\ \A i \in last + 1 .. last' : log'[i] = e[i - last] /\ i - last \in 1 .. Len(e)
BY DEF TypeOK, last

\* The heart of the argument: because the checkpoint was less than an interval
\* behind, the replay after at most MaxBatch more actions still finds its
\* whole tail in the window.
LEMMA CheckpointKeepsUp ==
  ASSUME TypeOK, RetentionInv,
         NEW e \in Seq(Causes), Len(e) \in 1 .. MaxBatch, Sequenced(e),
         UNCHANGED <<scripted, resumed, started>>
  PROVE  /\ stored' \subseteq 1 .. last'
         /\ checkpoint' \in checkpoint .. last'
         /\ RetentionInv'
<1>1. /\ last \in Nat /\ last' = last + Len(e) /\ last' \in Nat
      /\ checkpoint \in 0 .. last
  <2>1. /\ last \in Nat /\ last' = last + Len(e) /\ Len(e) \in Nat
    BY LogGrows DEF Sequenced
  <2>2. checkpoint \in 0 .. last
    BY DEF TypeOK
  <2> QED  BY <2>1, <2>2
<1>2. stored' = Rows(IF RoomIsScripted THEN checkpoint ELSE last', last')
  BY <1>1, PersistedRows, LogAssumption DEF Sequenced, last
<1>3. RoomIsScripted' = RoomIsScripted
  BY DEF RoomIsScripted, HasInitial
<1>4. AdvanceCheckpoint(last', stored')
  BY <1>1 DEF Sequenced, last
<1>5. CASE RoomIsScripted \/ ~CheckpointIsDue(last')
  <2>1. checkpoint' = checkpoint
    BY <1>4, <1>5 DEF AdvanceCheckpoint
  <2> QED  BY <1>1, <1>2, <1>3, <1>5, <2>1, LogAssumption
           DEF RetentionInv, CheckpointIsDue, Rows
<1>6. CASE ~RoomIsScripted /\ CheckpointIsDue(last')
  <2>1. last' <= Retention
    \/ checkpoint # 0
    BY <1>1, <1>6, LogAssumption DEF RetentionInv
  <2>2. CheckpointBaseConnects(0, stored', last') \/ checkpoint # 0
    BY <1>1, <1>2, <1>6, <2>1, WindowOfRows, LogAssumption DEF CheckpointBaseConnects
  <2>3. checkpoint' = last'
    BY <1>4, <1>6, <2>2 DEF AdvanceCheckpoint
  <2> QED  BY <1>1, <1>2, <1>3, <1>6, <2>3, LogAssumption DEF RetentionInv, Rows
<1> QED  BY <1>5, <1>6

\* What the three sequencing operations append.
LEMMA JoinAppends ==
  ASSUME NEW p \in Players, NEW e \in JoinEntries(p)
  PROVE  e \in Seq(Causes) /\ Len(e) \in 1 .. MaxBatch
<1>1. /\ Cause("player_joined", p) \in Causes
      /\ Cause("seat_assign", p) \in Causes
      /\ Cause("seat_claim", p) \in Causes
  BY DEF Causes, Cause
<1>2. \/ e = <<Cause("player_joined", p), Cause("seat_assign", p)>>
      \/ e = <<Cause("seat_claim", p)>>
  BY DEF JoinEntries
<1>3. CASE e = <<Cause("player_joined", p), Cause("seat_assign", p)>>
  <2> DEFINE a == Cause("player_joined", p)
             b == Cause("seat_assign", p)
  <2>1. a \in Causes /\ b \in Causes /\ e = <<a, b>>
    BY <1>1, <1>3
  <2> HIDE DEF a, b
  <2>2. <<a, b>> \in Seq(Causes) /\ Len(<<a, b>>) = 2
    BY <2>1
  <2> QED  BY <2>1, <2>2, LogAssumption
<1>4. CASE e = <<Cause("seat_claim", p)>>
  <2> DEFINE c == Cause("seat_claim", p)
  <2>1. c \in Causes /\ e = <<c>>
    BY <1>1, <1>4
  <2> HIDE DEF c
  <2>2. <<c>> \in Seq(Causes) /\ Len(<<c>>) = 1
    BY <2>1
  <2> QED  BY <2>1, <2>2, LogAssumption
<1> QED  BY <1>2, <1>3, <1>4

LEMMA ActAppends ==
  ASSUME NEW r \in Requests
  PROVE  <<Cause("request", r)>> \in Seq(Causes) /\ Len(<<Cause("request", r)>>) \in 1 .. MaxBatch
BY LogAssumption DEF Causes, Cause

LEMMA BatchAppends ==
  ASSUME NEW due \in Batches
  PROVE  /\ [i \in DOMAIN due |-> Cause("timer_fire", due[i])] \in Seq(Causes)
         /\ Len([i \in DOMAIN due |-> Cause("timer_fire", due[i])]) \in 1 .. MaxBatch
<1>1. PICK k \in 1 .. MaxBatch : due \in [1 .. k -> Timers]
  BY DEF Batches
<1>2. \A i \in 1 .. k : Cause("timer_fire", due[i]) \in Causes
  BY <1>1 DEF Causes, Cause
<1>3. [i \in DOMAIN due |-> Cause("timer_fire", due[i])] \in [1 .. k -> Causes]
  BY <1>1, <1>2
<1>4. k \in Nat
  BY LogAssumption
<1> QED  BY <1>1, <1>3, <1>4, LogAssumption

-----------------------------------------------------------------------------
LEMMA InitLogInv == Init => LogInv
<1> SUFFICES ASSUME Init PROVE LogInv
  OBVIOUS
<1>1. last = 0 /\ last \in Nat
  BY DEF Init, last
<1>2. TypeOK
  <2>1. log \in Seq(Causes)
    BY DEF Init
  <2>2. dedup \in [Requests -> 0 .. last] /\ stored \subseteq 1 .. last /\ checkpoint \in 0 .. last
    BY <1>1 DEF Init
  <2> QED  BY <2>1, <2>2 DEF Init, TypeOK
<1>3. RetentionInv
  BY <1>1, LogAssumption DEF Init, RetentionInv, Rows
<1>4. MemoryInv
  BY <1>1 DEF Init, MemoryInv, OneSequencePerCause
<1> QED  BY <1>2, <1>3, <1>4 DEF LogInv

\* The room's own bookkeeping keeps its type and its retention invariant.
LEMMA NextTypeAndRetention ==
  ASSUME TypeOK, RetentionInv, Next
  PROVE  TypeOK' /\ RetentionInv'
<1>0. /\ last \in Nat /\ last = Len(log) /\ checkpoint \in 0 .. last
      /\ log \in Seq(Causes) /\ stored \subseteq 1 .. last
  BY DEF TypeOK, last
<1>1. ASSUME NEW p \in Players, Join(p)
      PROVE  TypeOK' /\ RetentionInv'
  <2>1. CASE started
    <3>1. PICK e \in JoinEntries(p) : Sequenced(e)
      BY <1>1, <2>1 DEF Join
    <3>2. e \in Seq(Causes) /\ Len(e) \in 1 .. MaxBatch
      BY JoinAppends
    <3>3. UNCHANGED <<scripted, resumed, started, ended, dedup, fired>>
      BY <1>1 DEF Join
    <3>4. /\ stored' \subseteq 1 .. last'
          /\ checkpoint' \in checkpoint .. last'
          /\ RetentionInv'
      BY <3>1, <3>2, <3>3, CheckpointKeepsUp
    <3>5. log' \in Seq(Causes) /\ last' = last + Len(e)
      BY <3>1, <3>2, LogGrows DEF Sequenced
    <3>6. joined' \subseteq Players
      BY <1>1 DEF Join, TypeOK
    <3> QED  BY <1>0, <3>2, <3>3, <3>4, <3>5, <3>6 DEF TypeOK
  <2>2. CASE ~started
    <3>1. UNCHANGED <<log, stored, checkpoint, scripted, resumed, started, ended, dedup, fired>>
          /\ joined' \subseteq Players
      BY <1>1, <2>2 DEF Join, TypeOK
    <3> QED  BY <3>1 DEF TypeOK, RetentionInv, Rows, RoomIsScripted, HasInitial, last
  <2> QED  BY <2>1, <2>2
<1>2. ASSUME Start
      PROVE  TypeOK' /\ RetentionInv'
  <2>1. CASE last = 0
    <3>1. /\ log' = <<Cause(IF resumed THEN "game_resumed" ELSE "game_start", "room")>>
          /\ started' /\ stored' = Persist(1)
          /\ UNCHANGED <<scripted, resumed, ended, joined, dedup, fired, checkpoint>>
      BY <1>2, <2>1 DEF Start
    <3>2. log' \in Seq(Causes) /\ last' = 1
      BY <3>1 DEF Causes, Cause, last
    <3>3. stored = {} /\ checkpoint = 0
      BY <1>0, <2>1
    <3>4. stored' = {1}
      BY <2>1, <3>1, <3>3, LogAssumption DEF Persist, Window
    <3>5. RetentionInv'
      BY <3>1, <3>2, <3>3, <3>4, LogAssumption DEF RetentionInv, Rows
    <3>6. dedup' \in [Requests -> 0 .. last']
      BY <2>1, <3>1, <3>2 DEF TypeOK
    <3> QED  BY <3>1, <3>2, <3>3, <3>4, <3>5, <3>6 DEF TypeOK, Start
  <2>2. CASE last # 0
    <3>1. ended' = TRUE /\ UNCHANGED <<log, stored, checkpoint, scripted, resumed, started, joined, dedup, fired>>
      BY <1>2, <2>2 DEF Start
    <3> QED  BY <3>1 DEF TypeOK, RetentionInv, Rows, RoomIsScripted, HasInitial, last
  <2> QED  BY <2>1, <2>2
<1>3. ASSUME NEW r \in Requests, Act(r)
      PROVE  TypeOK' /\ RetentionInv'
  <2> DEFINE e == <<Cause("request", r)>>
  <2>1. e \in Seq(Causes) /\ Len(e) \in 1 .. MaxBatch /\ Len(e) = 1
    BY ActAppends
  <2>2. Sequenced(e) /\ UNCHANGED <<scripted, resumed, started, ended, joined, fired>>
    BY <1>3 DEF Act
  <2>3. dedup' = [dedup EXCEPT ![r] = last + 1]
    BY <1>3 DEF Act
  <2> HIDE DEF e
  <2>4. /\ stored' \subseteq 1 .. last'
        /\ checkpoint' \in checkpoint .. last'
        /\ RetentionInv'
    BY <2>1, <2>2, CheckpointKeepsUp
  <2>5. log' \in Seq(Causes) /\ last' = last + 1
    BY <2>1, <2>2, LogGrows DEF Sequenced
  <2>6. dedup' \in [Requests -> 0 .. last']
    BY <1>0, <2>3, <2>5 DEF TypeOK
  <2> QED  BY <1>0, <2>2, <2>4, <2>5, <2>6 DEF TypeOK
<1>4. ASSUME NEW due \in Batches, FireTimers(due)
      PROVE  TypeOK' /\ RetentionInv'
  <2> DEFINE e == [i \in DOMAIN due |-> Cause("timer_fire", due[i])]
  <2>1. e \in Seq(Causes) /\ Len(e) \in 1 .. MaxBatch
    BY BatchAppends
  <2>2. Sequenced(e) /\ UNCHANGED <<scripted, resumed, started, ended, joined, dedup>>
    BY <1>4 DEF FireTimers
  <2>3. fired' \subseteq Timers
    BY <1>4 DEF FireTimers, Batches, TypeOK
  <2> HIDE DEF e
  <2>4. /\ stored' \subseteq 1 .. last'
        /\ checkpoint' \in checkpoint .. last'
        /\ RetentionInv'
    BY <2>1, <2>2, CheckpointKeepsUp
  <2>5. log' \in Seq(Causes) /\ last' = last + Len(e)
    BY <2>1, <2>2, LogGrows DEF Sequenced
  <2>6. dedup' \in [Requests -> 0 .. last']
    BY <1>0, <2>1, <2>2, <2>5 DEF TypeOK
  <2> QED  BY <1>0, <2>2, <2>3, <2>4, <2>5, <2>6 DEF TypeOK
<1>5. ASSUME NEW n \in 1 .. last, ConfirmCheckpoint(n)
      PROVE  TypeOK' /\ RetentionInv'
  <2>1. /\ RoomIsScripted /\ RoomIsScripted'
        /\ checkpoint' = n /\ n > checkpoint /\ log' = log /\ last' = last
        /\ stored' = {i \in stored : i > n - Retention}
        /\ UNCHANGED <<scripted, resumed, started, ended, joined, dedup, fired>>
    BY <1>5 DEF ConfirmCheckpoint, KeptRows, RoomIsScripted, HasInitial, last
  <2>2. stored' = Rows(n, last)
    BY <1>0, <2>1, LogAssumption DEF RetentionInv, Rows
  <2> QED  BY <1>0, <2>1, <2>2 DEF TypeOK, RetentionInv, last
<1>6. ASSUME End
      PROVE  TypeOK' /\ RetentionInv'
  BY <1>6 DEF End, TypeOK, RetentionInv, Rows, RoomIsScripted, HasInitial, last
<1> QED  BY <1>1, <1>2, <1>3, <1>4, <1>5, <1>6 DEF Next

\* Appending distinct causes that are new to the log keeps its causes unique.
LEMMA FreshCausesStayUnique ==
  ASSUME TypeOK, OneSequencePerCause,
         NEW e \in Seq(Causes), log' = log \o e,
         \A j, k \in 1 .. Len(e) : e[j] = e[k] => j = k,
         \A i \in 1 .. last, k \in 1 .. Len(e) : log[i] # e[k]
  PROVE  OneSequencePerCause'
<1>1. /\ last \in Nat /\ last' = last + Len(e) /\ Len(e) \in Nat
      /\ \A i \in 1 .. last : log'[i] = log[i]
      /\ \A i \in last + 1 .. last' : log'[i] = e[i - last] /\ i - last \in 1 .. Len(e)
  BY LogGrows
<1>2. SUFFICES ASSUME NEW i \in 1 .. last', NEW j \in 1 .. last', log'[i] = log'[j]
      PROVE  i = j
  BY DEF OneSequencePerCause
<1>3. CASE i \in 1 .. last /\ j \in 1 .. last
  BY <1>1, <1>2, <1>3 DEF OneSequencePerCause
<1>4. CASE i \in last + 1 .. last' /\ j \in last + 1 .. last'
  <2>1. /\ log'[i] = e[i - last] /\ log'[j] = e[j - last]
        /\ i - last \in 1 .. Len(e) /\ j - last \in 1 .. Len(e)
    BY <1>1, <1>4
  <2>2. i - last = j - last
    BY <1>2, <2>1
  <2> QED  BY <1>1, <2>2
<1>5. CASE i \in 1 .. last /\ j \in last + 1 .. last'
  BY <1>1, <1>2, <1>5, ZenonT(40)
<1>6. CASE j \in 1 .. last /\ i \in last + 1 .. last'
  BY <1>1, <1>2, <1>6, ZenonT(40)
<1>7. /\ i \in 1 .. last \/ i \in last + 1 .. last'
      /\ j \in 1 .. last \/ j \in last + 1 .. last'
  BY <1>1
<1> QED  BY <1>3, <1>4, <1>5, <1>6, <1>7

\* What an entry with a given kind is about.
LEMMA CauseFields ==
  ASSUME NEW c \in Causes
  PROVE  /\ c = Cause(c.kind, c.of)
         /\ c.kind = "request" => c.of \in Requests
         /\ c.kind \in {"player_joined", "seat_assign", "seat_claim"} => c.of \in Players
         /\ c.kind = "timer_fire" => c.of \in Timers
BY DEF Causes, Cause

LEMMA NextMemory ==
  ASSUME LogInv, Next
  PROVE  MemoryInv'
<1>0. /\ TypeOK /\ MemoryInv /\ OneSequencePerCause
      /\ last \in Nat /\ last = Len(log) /\ log \in Seq(Causes)
      /\ \A i \in 1 .. last : log[i] \in Causes
  BY DEF LogInv, TypeOK, MemoryInv, last
<1>1. ASSUME NEW p \in Players, Join(p)
      PROVE  MemoryInv'
  <2>1. CASE started
    <3>1. PICK e \in JoinEntries(p) : Sequenced(e)
      BY <1>1, <2>1 DEF Join
    <3>2. e \in Seq(Causes) /\ log' = log \o e
      BY <3>1, JoinAppends DEF Sequenced
    <3>3. /\ joined' = joined \cup {p} /\ p \notin joined
          /\ UNCHANGED <<dedup, fired>>
      BY <1>1 DEF Join
    <3>4. \A k \in 1 .. Len(e) :
             e[k].kind \in {"player_joined", "seat_assign", "seat_claim"} /\ e[k].of = p
      BY DEF JoinEntries, Cause
    <3>5. \A j, k \in 1 .. Len(e) : e[j] = e[k] => j = k
      BY DEF JoinEntries, Cause
    <3>6. \A i \in 1 .. last, k \in 1 .. Len(e) : log[i] # e[k]
      BY <1>0, <3>3, <3>4 DEF MemoryInv
    <3>7. OneSequencePerCause'
      BY <1>0, <3>2, <3>5, <3>6, FreshCausesStayUnique
    <3>8. /\ last' = last + Len(e) /\ Len(e) \in Nat
          /\ \A i \in 1 .. last : log'[i] = log[i]
          /\ \A i \in last + 1 .. last' : log'[i] = e[i - last] /\ i - last \in 1 .. Len(e)
      BY <1>0, <3>2, LogGrows
    <3>9. \A i \in 1 .. last' :
            /\ log'[i].kind = "request" => dedup'[log'[i].of] = i
            /\ log'[i].kind \in {"player_joined", "seat_assign", "seat_claim"}
                 => log'[i].of \in joined'
            /\ log'[i].kind = "timer_fire" => log'[i].of \in fired'
      <4> SUFFICES ASSUME NEW i \in 1 .. last'
          PROVE  /\ log'[i].kind = "request" => dedup'[log'[i].of] = i
                 /\ log'[i].kind \in {"player_joined", "seat_assign", "seat_claim"}
                      => log'[i].of \in joined'
                 /\ log'[i].kind = "timer_fire" => log'[i].of \in fired'
        OBVIOUS
      <4>1. CASE i \in 1 .. last
        BY <1>0, <3>3, <3>8, <4>1 DEF MemoryInv
      <4>2. CASE i \in last + 1 .. last'
        BY <3>3, <3>4, <3>8, <4>2
      <4> QED  BY <1>0, <3>8, <4>1, <4>2
    <3>10. \A r \in Requests : dedup'[r] # 0 => log'[dedup'[r]] = Cause("request", r)
      BY <1>0, <3>3, <3>8 DEF MemoryInv, TypeOK
    <3> QED  BY <3>7, <3>9, <3>10 DEF MemoryInv
  <2>2. CASE ~started
    BY <1>0, <1>1, <2>2 DEF Join, MemoryInv, OneSequencePerCause, last
  <2> QED  BY <2>1, <2>2
<1>2. ASSUME Start
      PROVE  MemoryInv'
  <2>1. CASE last = 0
    <3>1. /\ log' = <<Cause(IF resumed THEN "game_resumed" ELSE "game_start", "room")>>
          /\ UNCHANGED <<dedup, joined, fired>>
      BY <1>2, <2>1 DEF Start
    <3>2. last' = 1 /\ log'[1].kind \in {"game_start", "game_resumed"}
      BY <3>1 DEF last, Cause
    <3>3. \A r \in Requests : dedup'[r] = 0
      BY <1>0, <2>1, <3>1 DEF TypeOK
    <3> QED  BY <3>2, <3>3 DEF MemoryInv, OneSequencePerCause
  <2>2. CASE last # 0
    BY <1>0, <1>2, <2>2 DEF Start, MemoryInv, OneSequencePerCause, last
  <2> QED  BY <2>1, <2>2
<1>3. ASSUME NEW r \in Requests, Act(r)
      PROVE  MemoryInv'
  <2> DEFINE e == <<Cause("request", r)>>
  <2>1. e \in Seq(Causes) /\ Len(e) = 1 /\ e[1] = Cause("request", r)
    BY ActAppends
  <2>2. /\ log' = log \o e /\ dedup[r] = 0
        /\ dedup' = [dedup EXCEPT ![r] = last + 1]
        /\ UNCHANGED <<joined, fired>>
    BY <1>3 DEF Act, Sequenced, IsRetry
  <2> HIDE DEF e
  <2>3. \A i \in 1 .. last : log[i] # Cause("request", r)
    BY <1>0, <2>2 DEF MemoryInv, Cause
  <2>4. OneSequencePerCause'
    <3>1. \A k \in 1 .. Len(e) : k = 1 /\ e[k] = Cause("request", r)
      BY <2>1
    <3> QED  BY <1>0, <2>1, <2>2, <2>3, <3>1, FreshCausesStayUnique
  <2>5. /\ last' = last + 1
        /\ \A i \in 1 .. last : log'[i] = log[i]
        /\ log'[last + 1] = Cause("request", r)
    <3>1. /\ last' = last + Len(e)
          /\ \A i \in 1 .. last : log'[i] = log[i]
          /\ \A i \in last + 1 .. last' : log'[i] = e[i - last]
      BY <1>0, <2>1, <2>2, LogGrows
    <3>2. last + 1 \in last + 1 .. last' /\ (last + 1) - last = 1
      BY <1>0, <2>1, <3>1
    <3> QED  BY <2>1, <3>1, <3>2
  <2>6. \A q \in Requests : dedup'[q] # 0 => log'[dedup'[q]] = Cause("request", q)
    <3> SUFFICES ASSUME NEW q \in Requests, dedup'[q] # 0
        PROVE  log'[dedup'[q]] = Cause("request", q)
      OBVIOUS
    <3>1. CASE q = r
      BY <2>2, <2>5, <3>1 DEF TypeOK, LogInv
    <3>2. CASE q # r
      <4>1. dedup'[q] = dedup[q] /\ dedup[q] \in 1 .. last
        BY <1>0, <2>2, <3>2 DEF TypeOK
      <4> QED  BY <1>0, <2>5, <4>1 DEF MemoryInv
    <3> QED  BY <3>1, <3>2
  <2>7. \A i \in 1 .. last :
            /\ log'[i].kind = "request" => dedup'[log'[i].of] = i
            /\ log'[i].kind \in {"player_joined", "seat_assign", "seat_claim"}
                 => log'[i].of \in joined'
            /\ log'[i].kind = "timer_fire" => log'[i].of \in fired'
    <3>1. \A i \in 1 .. last : log[i].kind = "request" => log[i].of \in Requests /\ log[i].of # r
      BY <1>0, <2>3, CauseFields
    <3> QED  BY <1>0, <2>2, <2>5, <3>1 DEF MemoryInv, TypeOK
  <2>8. /\ log'[last + 1].kind = "request" /\ log'[last + 1].of = r
        /\ dedup'[r] = last + 1
    BY <1>0, <2>2, <2>5 DEF TypeOK, Cause
  <2> QED  BY <1>0, <2>4, <2>5, <2>6, <2>7, <2>8 DEF MemoryInv
<1>4. ASSUME NEW due \in Batches, FireTimers(due)
      PROVE  MemoryInv'
  <2> DEFINE e == [i \in DOMAIN due |-> Cause("timer_fire", due[i])]
  <2>1. PICK k \in 1 .. MaxBatch :
          /\ due \in [1 .. k -> Timers]
          /\ \A i, j \in 1 .. k : due[i] = due[j] => i = j
    BY DEF Batches
  <2>2. /\ e \in Seq(Causes) /\ k \in Nat /\ Len(e) = k
        /\ \A i \in 1 .. k : e[i].kind = "timer_fire" /\ e[i].of = due[i]
    <3>1. e \in Seq(Causes) /\ Len(e) \in Nat
      BY BatchAppends, LogAssumption
    <3>2. DOMAIN e = 1 .. k /\ k \in Nat
      BY <2>1, LogAssumption
    <3>3. Len(e) = k
      BY <3>1, <3>2
    <3>4. \A i \in 1 .. k : e[i].kind = "timer_fire" /\ e[i].of = due[i]
      BY <2>1 DEF Cause
    <3> QED  BY <3>1, <3>2, <3>3, <3>4
  <2>3. /\ log' = log \o e
        /\ fired' = fired \cup {due[i] : i \in 1 .. k}
        /\ \A i \in 1 .. k : due[i] \notin fired
        /\ UNCHANGED <<joined, dedup>>
    BY <1>4, <2>1 DEF FireTimers, Sequenced
  <2> HIDE DEF e
  <2>4. \A i, j \in 1 .. k : e[i] = e[j] => i = j
    BY <2>1, <2>2
  <2>5. \A i \in 1 .. last, j \in 1 .. k : log[i] # e[j]
    BY <1>0, <2>2, <2>3 DEF MemoryInv
  <2>6. OneSequencePerCause'
    BY <1>0, <2>2, <2>3, <2>4, <2>5, FreshCausesStayUnique
  <2>7. /\ last' = last + k
        /\ \A i \in 1 .. last : log'[i] = log[i]
        /\ \A i \in last + 1 .. last' : log'[i] = e[i - last] /\ i - last \in 1 .. k
    BY <1>0, <2>2, <2>3, LogGrows
  <2>8. \A i \in 1 .. last' :
            /\ log'[i].kind = "request" => dedup'[log'[i].of] = i
            /\ log'[i].kind \in {"player_joined", "seat_assign", "seat_claim"}
                 => log'[i].of \in joined'
            /\ log'[i].kind = "timer_fire" => log'[i].of \in fired'
    <3> SUFFICES ASSUME NEW i \in 1 .. last'
        PROVE  /\ log'[i].kind = "request" => dedup'[log'[i].of] = i
               /\ log'[i].kind \in {"player_joined", "seat_assign", "seat_claim"}
                    => log'[i].of \in joined'
               /\ log'[i].kind = "timer_fire" => log'[i].of \in fired'
      OBVIOUS
    <3>1. CASE i \in 1 .. last
      BY <1>0, <2>3, <2>7, <3>1 DEF MemoryInv
    <3>2. CASE i \in last + 1 .. last'
      BY <2>2, <2>3, <2>7, <3>2
    <3> QED  BY <1>0, <2>2, <2>7, <3>1, <3>2
  <2>9. \A r \in Requests : dedup'[r] # 0 => log'[dedup'[r]] = Cause("request", r)
    BY <1>0, <2>3, <2>7 DEF MemoryInv, TypeOK
  <2> QED  BY <2>6, <2>8, <2>9 DEF MemoryInv
<1>5. ASSUME NEW n \in 1 .. last, ConfirmCheckpoint(n)
      PROVE  MemoryInv'
  BY <1>0, <1>5 DEF ConfirmCheckpoint, MemoryInv, OneSequencePerCause, last
<1>6. ASSUME End
      PROVE  MemoryInv'
  BY <1>0, <1>6 DEF End, MemoryInv, OneSequencePerCause, last
<1> QED  BY <1>1, <1>2, <1>3, <1>4, <1>5, <1>6 DEF Next

-----------------------------------------------------------------------------
\* The log invariant holds in every reachable state of the room: RoomDO's
\* tables keep their types, the rows are exactly the ones the checkpoint or the
\* window needs, and request_dedup and the row states know every cause used.
THEOREM LogCorrect == Spec => []LogInv
<1>1. LogInv /\ Next => LogInv'
  BY NextTypeAndRetention, NextMemory DEF LogInv
<1>2. LogInv /\ UNCHANGED vars => LogInv'
  BY DEF vars, LogInv, TypeOK, RetentionInv, MemoryInv, OneSequencePerCause, Rows,
         RoomIsScripted, HasInitial, last
<1>3. LogInv /\ [Next]_vars => LogInv'
  BY <1>1, <1>2
<1> QED  BY InitLogInv, <1>3, PTL DEF Spec

\* Type correctness of the room's tables.
THEOREM TypeCorrect == Spec => []TypeOK
BY LogCorrect, PTL DEF LogInv

\* The retained window, the floor and what they answer, in a reachable state.
LEMMA RetainedWindow ==
  ASSUME LogInv
  PROVE  /\ last \in Nat /\ checkpoint \in 0 .. last
         /\ Window(stored, last) = {i \in 1 .. last : i > last - Retention}
         /\ RetentionFloor(stored, last) = IF last > Retention THEN last - Retention + 1 ELSE 1
         /\ ~RoomIsScripted => last - checkpoint < Interval
         /\ RoomIsScripted => stored = Rows(checkpoint, last)
<1>1. last \in Nat /\ checkpoint \in 0 .. last
  BY DEF LogInv, TypeOK, last
<1>2. PICK base \in 0 .. last : stored = Rows(base, last)
  BY <1>1 DEF LogInv, RetentionInv
<1>3. /\ Window(stored, last) = {i \in 1 .. last : i > last - Retention}
      /\ RetentionFloor(stored, last) = IF last > Retention THEN last - Retention + 1 ELSE 1
  BY <1>1, <1>2, WindowOfRows
<1> QED  BY <1>1, <1>3 DEF LogInv, RetentionInv

\* Whatever was trimmed, RoomCore's assertState accepts the loaded window, so
\* no operation of the room fails for its own history.
THEOREM CoreLoadsAlways == Spec => []CoreAlwaysLoads
<1>1. LogInv => CoreAlwaysLoads
  <2> SUFFICES ASSUME LogInv PROVE CoreLoads
    BY DEF CoreAlwaysLoads
  <2> DEFINE win == Window(stored, last)
             lo == IF last > Retention THEN last - Retention + 1 ELSE 1
  <2>1. last \in Nat /\ win = {i \in 1 .. last : i > last - Retention}
    BY RetainedWindow
  <2>2. win = lo .. last /\ lo \in Int /\ last \in Int
    BY <2>1, LogAssumption
  <2>3. Cardinality(lo .. last) = IF lo > last THEN 0 ELSE last - lo + 1
    <3> HIDE DEF lo
    <3> QED  BY <2>2, FS_Interval
  <2>4. Cardinality(win) <= Retention /\ last - Cardinality(win) + 1 = lo
    <3>1. lo <= last + 1 /\ last - lo + 1 <= Retention
      BY <2>1, LogAssumption
    <3>2. Cardinality(win) = Cardinality(lo .. last)
      BY <2>2
    <3> HIDE DEF win, lo
    <3>3. Cardinality(win) = last - lo + 1
      BY <2>2, <2>3, <3>1, <3>2
    <3> QED  BY <2>2, <3>1, <3>3
  <2>5. \A i, j \in win : log[i] = log[j] => i = j
    BY <2>1 DEF LogInv, MemoryInv, OneSequencePerCause
  <2> QED  BY <2>2, <2>4, <2>5 DEF CoreLoads
<1> QED  BY <1>1, LogCorrect, PTL

\* A request id or a lifecycle cause keeps one sequence for ever, although the
\* window in which RoomCore itself could recognise it moves on.
THEOREM CausesStayUnique == Spec => []OneSequencePerCause
BY LogCorrect, PTL DEF LogInv, MemoryInv

\* A client that missed at most Retention actions gets exactly those.
THEOREM ShortGapAlwaysResumes == Spec => []ShortGapResumes
<1>1. LogInv => ShortGapResumes
  <2> SUFFICES ASSUME LogInv, NEW n \in 0 .. last, n >= last - Retention
      PROVE  ResumeAfter(n) = [type |-> "resume", actions |-> n + 1 .. last]
    BY DEF ShortGapResumes
  <2>1. /\ last \in Nat
        /\ Window(stored, last) = {i \in 1 .. last : i > last - Retention}
        /\ n >= RetentionFloor(stored, last) - 1
    BY RetainedWindow, LogAssumption
  <2>2. {i \in Window(stored, last) : i > n} = n + 1 .. last
    BY <2>1, LogAssumption
  <2>3. ResumeAfter(n) = [type |-> "resume", actions |-> {i \in Window(stored, last) : i > n}]
    <3>1. ~(n < RetentionFloor(stored, last) - 1)
      <4>1. n \in Int /\ RetentionFloor(stored, last) \in Int
        BY <2>1, RetainedWindow, LogAssumption
      <4> QED  BY <2>1, <4>1
    <3> QED  BY <3>1 DEF ResumeAfter
  <2> QED  BY <2>2, <2>3
<1> QED  BY <1>1, LogCorrect, PTL

\* An unscripted table can be saved at any moment of its life.
THEOREM SaveAlwaysReachesHead == Spec => []SaveReachesHead
<1>1. LogInv => SaveReachesHead
  <2> SUFFICES ASSUME LogInv, started, ~scripted PROVE MechanicalSave = last
    BY DEF SaveReachesHead
  <2>1. ~RoomIsScripted
    BY DEF RoomIsScripted
  <2>2. /\ last \in Nat /\ checkpoint \in 0 .. last /\ last - checkpoint < Interval
        /\ Window(stored, last) = {i \in 1 .. last : i > last - Retention}
    BY <2>1, RetainedWindow
  <2>3. {i \in Window(stored, last) : i > checkpoint} = checkpoint + 1 .. last
    BY <2>2, LogAssumption
  <2> QED  BY <2>3 DEF MechanicalSave
<1> QED  BY <1>1, LogCorrect, PTL

\* A fresh client of a started room receives a base and exactly the actions
\* after it, in a scripted and in an unscripted room alike.
THEOREM BootstrapAlwaysReachesHead == Spec => []BootstrapReachesHead
<1>1. LogInv => BootstrapReachesHead
  <2> SUFFICES ASSUME LogInv, started
      PROVE  /\ Bootstrap.type = "bootstrap"
             /\ Bootstrap.actions = Bootstrap.base + 1 .. last
    BY DEF BootstrapReachesHead
  <2>1. /\ last \in Nat /\ checkpoint \in 0 .. last
        /\ Window(stored, last) = {i \in 1 .. last : i > last - Retention}
        /\ RetentionFloor(stored, last) = IF last > Retention THEN last - Retention + 1 ELSE 1
        /\ ~RoomIsScripted => last - checkpoint < Interval
        /\ RoomIsScripted => stored = Rows(checkpoint, last)
    BY RetainedWindow
  <2>2. ResumeAfter(0).type = "resume" <=> last <= Retention
    BY <2>1, LogAssumption DEF ResumeAfter
  <2>3. CASE last <= Retention
    <3>1. {i \in Window(stored, last) : i > 0} = 0 + 1 .. last
      BY <2>1, <2>3, LogAssumption
    <3> QED  BY <2>2, <2>3, <3>1 DEF Bootstrap
  <2>4. CASE last > Retention /\ RoomIsScripted
    <3>1. {i \in stored : i > checkpoint} = checkpoint + 1 .. last
      BY <2>1, <2>4, LogAssumption DEF Rows
    <3>2. ~(ResumeAfter(0).type = "resume")
      BY <2>1, <2>2, <2>4, LogAssumption
    <3>3. Bootstrap = [type |-> "bootstrap", base |-> checkpoint,
                       actions |-> checkpoint + 1 .. last]
      BY <2>4, <3>1, <3>2 DEF Bootstrap
    <3> QED  BY <3>3
  <2>5. CASE last > Retention /\ ~RoomIsScripted
    <3>1. checkpoint # 0 /\ ResumeAfter(checkpoint).type = "resume"
      BY <2>1, <2>5, LogAssumption DEF ResumeAfter
    <3>2. {i \in Window(stored, last) : i > checkpoint} = checkpoint + 1 .. last
      BY <2>1, <2>5, LogAssumption
    <3>3. ~(ResumeAfter(0).type = "resume")
      BY <2>1, <2>2, <2>5, LogAssumption
    <3>4. Bootstrap = [type |-> "bootstrap", base |-> checkpoint,
                       actions |-> checkpoint + 1 .. last]
      BY <2>5, <3>1, <3>2, <3>3 DEF Bootstrap
    <3> QED  BY <3>4
  <2> QED  BY <2>1, <2>3, <2>4, <2>5, LogAssumption
<1> QED  BY <1>1, LogCorrect, PTL

-----------------------------------------------------------------------------
\* Every step extends the log and never moves the checkpoint back.
LEMMA StepGrows ==
  ASSUME LogInv, Next
  PROVE  /\ last \in Nat /\ last' \in Nat /\ last <= last'
         /\ \A i \in 1 .. last : log'[i] = log[i]
         /\ log' \in Seq(Causes)
         /\ checkpoint <= checkpoint'
<1>0. /\ TypeOK /\ RetentionInv /\ last \in Nat /\ last = Len(log)
      /\ log \in Seq(Causes) /\ checkpoint \in 0 .. last
  BY DEF LogInv, TypeOK, last
<1>1. ASSUME NEW e \in Seq(Causes), Len(e) \in 1 .. MaxBatch, Sequenced(e),
             UNCHANGED <<scripted, resumed, started>>
      PROVE  /\ last' \in Nat /\ last <= last'
             /\ \A i \in 1 .. last : log'[i] = log[i]
             /\ log' \in Seq(Causes) /\ checkpoint <= checkpoint'
  <2>1. /\ last' = last + Len(e) /\ Len(e) \in Nat
        /\ \A i \in 1 .. last : log'[i] = log[i]
        /\ log' \in Seq(Causes)
    BY <1>0, <1>1, LogGrows DEF Sequenced
  <2>2. checkpoint' \in checkpoint .. last'
    BY <1>0, <1>1, CheckpointKeepsUp
  <2> QED  BY <1>0, <2>1, <2>2
<1>2. ASSUME UNCHANGED <<log, checkpoint>>
      PROVE  /\ last' \in Nat /\ last <= last'
             /\ \A i \in 1 .. last : log'[i] = log[i]
             /\ log' \in Seq(Causes) /\ checkpoint <= checkpoint'
  BY <1>0, <1>2 DEF last
<1>3. ASSUME NEW p \in Players, Join(p), started
      PROVE  \E e \in JoinEntries(p) : Sequenced(e) /\ UNCHANGED <<scripted, resumed, started>>
  BY <1>3 DEF Join
<1>4. CASE \E p \in Players : Join(p)
  BY <1>0, <1>1, <1>2, <1>3, <1>4, JoinAppends DEF Join
<1>5. CASE Start
  <2>1. CASE last = 0
    <3>1. log' = <<Cause(IF resumed THEN "game_resumed" ELSE "game_start", "room")>>
          /\ checkpoint' = checkpoint
      BY <1>5, <2>1 DEF Start
    <3>2. log' \in Seq(Causes) /\ last' = 1
      BY <3>1 DEF Causes, Cause, last
    <3> QED  BY <1>0, <2>1, <3>1, <3>2
  <2>2. CASE last # 0
    BY <1>0, <1>2, <1>5, <2>2 DEF Start
  <2> QED  BY <2>1, <2>2
<1>6. CASE \E r \in Requests : Act(r)
  BY <1>0, <1>1, <1>6, ActAppends DEF Act
<1>7. CASE \E due \in Batches : FireTimers(due)
  BY <1>0, <1>1, <1>7, BatchAppends DEF FireTimers
<1>8. CASE (\E n \in 1 .. last : ConfirmCheckpoint(n)) \/ End
  BY <1>0, <1>8 DEF ConfirmCheckpoint, End, last
<1> QED  BY <1>0, <1>4, <1>5, <1>6, <1>7, <1>8 DEF Next

\* A sequence number, once given, keeps its action.
THEOREM LogIsAppendOnly == Spec => LogAppendOnly
<1>1. LogInv /\ [Next]_vars =>
        [Len(log) <= Len(log') /\ log = SubSeq(log', 1, Len(log))]_vars
  <2> SUFFICES ASSUME LogInv, Next
      PROVE  Len(log) <= Len(log') /\ log = SubSeq(log', 1, Len(log))
    OBVIOUS
  <2>1. /\ last = Len(log) /\ last' = Len(log') /\ log \in Seq(Causes)
    BY DEF last, LogInv, TypeOK
  <2>2. /\ last \in Nat /\ last' \in Nat /\ last <= last'
        /\ \A i \in 1 .. last : log'[i] = log[i]
        /\ log' \in Seq(Causes)
    BY StepGrows
  <2> QED  BY <2>1, <2>2
<1> QED  BY <1>1, LogCorrect, PTL DEF Spec, LogAppendOnly

\* Rows are deleted only when the checkpoint that replaces them and a whole
\* window of later actions remain.
THEOREM TrimIsAlwaysCovered == Spec => TrimIsCovered
<1>1. LogInv /\ LogInv' /\ [Next]_vars =>
        [/\ checkpoint <= checkpoint'
         /\ started => \A i \in stored \ stored' :
                          i <= checkpoint' /\ i <= Len(log') - Retention]_vars
  <2> SUFFICES ASSUME LogInv, LogInv', Next
      PROVE  /\ checkpoint <= checkpoint'
             /\ \A i \in stored \ stored' :
                  i <= checkpoint' /\ i <= Len(log') - Retention
    OBVIOUS
  <2>1. last \in Nat /\ last' \in Nat /\ last <= last' /\ checkpoint <= checkpoint'
    BY StepGrows
  <2>2. stored \subseteq 1 .. last /\ checkpoint' \in 0 .. last' /\ last' = Len(log')
    BY DEF LogInv, TypeOK, last
  <2>3. /\ stored' = Rows(IF RoomIsScripted' THEN checkpoint' ELSE last', last')
        /\ ~RoomIsScripted' => last' - checkpoint' < Interval
    BY DEF LogInv, RetentionInv, Rows
  <2>4. SUFFICES ASSUME NEW i \in stored \ stored'
        PROVE  i <= checkpoint' /\ i <= last' - Retention
    BY <2>1, <2>2
  <2> DEFINE n == last'
             c == checkpoint'
  <2>5. i \in Nat /\ i <= n /\ n \in Nat /\ c \in Nat /\ c <= n
    BY <2>1, <2>2
  <2>6. CASE RoomIsScripted'
    <3>1. i \notin Rows(c, n) /\ i \in 1 .. n
      BY <2>1, <2>2, <2>3, <2>4, <2>6
    <3>2. i <= c /\ i <= n - Retention
      <4> HIDE DEF n, c
      <4> QED  BY <2>5, <3>1, LogAssumption DEF Rows
    <3> QED  BY <3>2
  <2>7. CASE ~RoomIsScripted'
    <3>1. i \notin Rows(n, n) /\ i \in 1 .. n /\ n - c < Interval
      BY <2>1, <2>2, <2>3, <2>4, <2>7
    <3>2. i <= c /\ i <= n - Retention
      <4> HIDE DEF n, c
      <4> QED  BY <2>5, <3>1, LogAssumption DEF Rows
    <3> QED  BY <3>2
  <2> QED  BY <2>6, <2>7
<1> QED  BY <1>1, LogCorrect, PTL DEF Spec, TrimIsCovered

-----------------------------------------------------------------------------
\* The requests a step adds to the log are the ones it answers.
LEMMA StepIsPromised ==
  ASSUME LogInv, LogInv', Next
  PROVE  Promise!Next \/ UNCHANGED Promise!promise
<1>0. /\ TypeOK /\ log \in Seq(Causes) /\ log' \in Seq(Causes)
      /\ last = Len(log) /\ last \in Nat /\ last' = Len(log') /\ last' \in Nat
      /\ \A i \in 1 .. last : log'[i] = log[i]
  BY StepGrows DEF LogInv, TypeOK, last
<1>1. Promise!Distinct(log')
  BY <1>0 DEF LogInv, MemoryInv, OneSequencePerCause, Promise!Distinct
<1>2. ASSUME NEW e \in Seq(Causes), Len(e) \in 1 .. MaxBatch, Sequenced(e), dedup' = dedup,
             \A i \in 1 .. Len(e) : e[i].kind # "request"
      PROVE  Promise!Lifecycle
  <2>1. /\ last' = last + Len(e) /\ Len(e) \in Nat
        /\ \A i \in last + 1 .. last' : log'[i] = e[i - last] /\ i - last \in 1 .. Len(e)
    BY <1>0, <1>2, LogGrows DEF Sequenced
  <2>2. last < last'
    BY <1>0, <1>2, <2>1
  <2>3. Promise!Grows
    BY <1>0, <1>1, <2>2 DEF Promise!Grows
  <2> QED  BY <1>0, <1>2, <2>1, <2>3 DEF Promise!Lifecycle
<1>3. ASSUME NEW p \in Players, Join(p) PROVE Promise!Lifecycle \/ UNCHANGED Promise!promise
  <2>1. CASE started
    <3>1. PICK e \in JoinEntries(p) : Sequenced(e) /\ dedup' = dedup
      BY <1>3, <2>1 DEF Join
    <3>2. \A i \in 1 .. Len(e) : e[i].kind # "request"
      BY DEF JoinEntries, Cause
    <3> QED  BY <1>2, <3>1, <3>2, JoinAppends
  <2>2. CASE ~started
    BY <1>3, <2>2 DEF Join, Promise!promise
  <2> QED  BY <2>1, <2>2
<1>4. ASSUME Start PROVE Promise!Lifecycle \/ UNCHANGED Promise!promise
  <2>1. CASE last = 0
    <3>1. PICK k \in {"game_resumed", "game_start"} : log' = <<Cause(k, "room")>>
      BY <1>4, <2>1 DEF Start
    <3>2. last' = 1 /\ log'[1].kind # "request"
      BY <1>0, <3>1 DEF Cause
    <3>3. Promise!Grows
      BY <1>0, <1>1, <2>1, <3>2 DEF Promise!Grows
    <3> QED  BY <1>0, <1>4, <2>1, <3>2, <3>3 DEF Start, Promise!Lifecycle
  <2>2. CASE last # 0
    BY <1>4, <2>2 DEF Start, Promise!promise
  <2> QED  BY <2>1, <2>2
<1>5. ASSUME NEW r \in Requests, Act(r) PROVE Promise!Submit(r)
  <2> DEFINE e == <<Cause("request", r)>>
  <2>1. e \in Seq(Causes) /\ Len(e) = 1 /\ e[1] = Cause("request", r)
    BY ActAppends
  <2>2. Sequenced(e) /\ dedup' = [dedup EXCEPT ![r] = last + 1] /\ dedup[r] = 0
    BY <1>5 DEF Act, IsRetry
  <2> HIDE DEF e
  <2>3. last' = last + 1 /\ log'[last + 1] = Cause("request", r)
    <3>1. last' = last + Len(e) /\ \A i \in last + 1 .. last' : log'[i] = e[i - last]
      BY <1>0, <2>1, <2>2, LogGrows DEF Sequenced
    <3>2. last + 1 \in last + 1 .. last' /\ (last + 1) - last = 1
      BY <1>0, <2>1, <3>1
    <3> QED  BY <2>1, <3>1, <3>2
  <2>4. Promise!Grows
    BY <1>0, <1>1, <2>3 DEF Promise!Grows
  <2> QED  BY <1>0, <2>2, <2>3, <2>4 DEF Promise!Submit, Promise!RequestKey, Cause
<1>6. ASSUME NEW due \in Batches, FireTimers(due) PROVE Promise!Lifecycle
  <2> DEFINE e == [i \in DOMAIN due |-> Cause("timer_fire", due[i])]
  <2>1. e \in Seq(Causes) /\ Len(e) \in 1 .. MaxBatch /\ \A i \in 1 .. Len(e) : e[i].kind = "timer_fire"
    BY BatchAppends DEF Cause
  <2>2. Sequenced(e) /\ dedup' = dedup
    BY <1>6 DEF FireTimers
  <2> HIDE DEF e
  <2> QED  BY <1>2, <2>1, <2>2
<1>7. ASSUME (\E n \in 1 .. last : ConfirmCheckpoint(n)) \/ End PROVE UNCHANGED Promise!promise
  BY <1>7 DEF ConfirmCheckpoint, End, Promise!promise
<1> QED  BY <1>3, <1>4, <1>5, <1>6, <1>7 DEF Next, Promise!Next

\* For every window, checkpoint interval and mix of trims, the room implements
\* the log it promises.
THEOREM RoomImplementsActionLog == Spec => ImplementsActionLog
<1>1. Init => Promise!Init
  BY DEF Init, Promise!Init
<1>2. LogInv /\ LogInv' /\ [Next]_vars => [Promise!Next]_(Promise!promise)
  <2>1. LogInv /\ UNCHANGED vars => UNCHANGED Promise!promise
    BY DEF vars, Promise!promise
  <2> QED  BY <2>1, StepIsPromised
<1> QED  BY <1>1, <1>2, LogCorrect, PTL DEF Spec, ImplementsActionLog, Promise!Spec


\* Whatever was trimmed, checkpointed and retried, a fresh client, a client with a
\* short gap and a save all reach the head of the log.
THEOREM EveryoneAlwaysReachesHead == Spec => []EveryoneReachesHead
BY BootstrapAlwaysReachesHead, ShortGapAlwaysResumes, SaveAlwaysReachesHead, PTL
   DEF EveryoneReachesHead
=============================================================================
