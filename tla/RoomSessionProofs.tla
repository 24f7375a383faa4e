-------------------------- MODULE RoomSessionProofs --------------------------
(***************************************************************************)
(* For every number of clients, every window of retained actions, with and *)
(* without scripts: what a client has applied is a prefix of the room's    *)
(* log, and a client that holds the room's snapshot and has nothing left   *)
(* to receive is at its head.                                              *)
(***************************************************************************)
EXTENDS RoomSession, SequenceTheorems, TLAPS

Phases == {"outside", "connecting", "loading", "hello", "connected", "waiting", "failed", "ended"}

Request == [type : {"hello"}, at : Nat \cup {None}] \cup [type : {"action_request"}]

Message ==
  [type : {"bootstrap"}, snapshot : ReplicaState]
    \cup [type : {"resume"}, from : Nat, entries : Seq(LogEntry)]
    \cup [type : {"ordered_action"}, sequence : Nat, entry : LogEntry]
    \cup [type : {"resync_required", "room_ended", "protocol_error"}]

Shape ==
  /\ log \in Seq(LogEntry)
  /\ sock \in [Clients -> {"none", "open", "awaiting", "live"}]
  /\ helloAt \in [Clients -> Nat \cup {None}]
  /\ up \in [Clients -> Seq(Request)]
  /\ down \in [Clients -> Seq(Message)] /\ queue \in [Clients -> Seq(Message)]
  /\ phase \in [Clients -> Phases]
  /\ released \in [Clients -> BOOLEAN]
  /\ store \in [Clients -> ReplicaState \cup {None}]
  /\ inflight \in [Clients -> ReplicaState \cup {None}]

Prefix(s, l) == Len(s) <= Len(l) /\ \A i \in 1 .. Len(s) : s[i] = l[i]

\* What a message says of the log l is so ...
TrueTo(m, l) ==
  /\ m.type = "bootstrap" => Prefix(m.snapshot.applied, l)
  /\ m.type = "ordered_action" => m.sequence \in 1 .. Len(l) /\ m.entry = l[m.sequence]
  /\ m.type = "resume" =>
       /\ m.from >= 1 /\ m.from + Len(m.entries) <= Len(l) + 1
       /\ \A i \in 1 .. Len(m.entries) : m.entries[i] = l[m.from + i - 1]

\* ... and whoever handles it is at the end of l, or has lost its connection.
LeadsTo(m, l) ==
  /\ m.type = "bootstrap" => Len(m.snapshot.applied) = Len(l)
  /\ m.type = "ordered_action" => m.sequence = Len(l)
  /\ m.type = "resume" => m.from + Len(m.entries) = Len(l) + 1

\* Nothing that client c holds or has yet to handle departs from the log.
Truthful(c) ==
  /\ store[c] # None => Prefix(store[c].applied, log)
  /\ \A i \in 1 .. Len(down[c]) : TrueTo(down[c][i], log)
  /\ \A i \in 1 .. Len(queue[c]) : TrueTo(queue[c][i], log)

\* The script application being awaited is of the head of the queue.
Half(c) ==
  /\ ~Scripted => queue[c] = << >>
  /\ inflight[c] # None =>
       /\ queue[c] # << >> /\ IsActions(Head(queue[c]))
       /\ Prefix(inflight[c].applied, log)
       /\ SequenceOf(inflight[c]) = FirstSequence(Head(queue[c]))

\* Where a connection stands at both ends.
Ends(c) ==
  /\ phase[c] \in {"outside", "connecting", "waiting", "failed", "ended"} =>
       sock[c] = "none" /\ up[c] = << >>
  /\ phase[c] = "loading" => sock[c] \in {"none", "open"} /\ up[c] = << >>
  /\ phase[c] \in {"hello", "connected"} => store[c] # None
  /\ sock[c] = "open" /\ phase[c] # "loading" => Len(up[c]) = 1 /\ Head(up[c]).type = "hello"
  /\ released[c] => store[c] # None

\* Before the start there is no log, nobody is connected and nothing but the end of
\* the room is told.
Before(c) ==
  ~started =>
    /\ log = << >> /\ sock[c] # "live" /\ phase[c] # "connected"
    /\ sock[c] = "awaiting" => up[c] = << >>
    /\ \A i \in 1 .. Len(down[c]) : down[c][i].type = "room_ended"
    /\ \A i \in 1 .. Len(queue[c]) : queue[c][i].type = "room_ended"

\* A client with a bootstrapped socket is at the head of the log, or the last it has
\* yet to handle takes it there.
Led(c) ==
  sock[c] = "live" =>
    IF down[c] # << >> THEN LeadsTo(down[c][Len(down[c])], log)
    ELSE IF queue[c] # << >> THEN LeadsTo(queue[c][Len(queue[c])], log)
    ELSE store[c].base = "room" => SequenceOf(store[c]) = last

ClientInv(c) == Truthful(c) /\ Half(c) /\ Ends(c) /\ Before(c) /\ Led(c)

SessionInv == Shape /\ \A c \in Clients : ClientInv(c)

-----------------------------------------------------------------------------
LEMMA MessageFields ==
  ASSUME NEW m \in Message
  PROVE  /\ m.type = "bootstrap" => m.snapshot \in ReplicaState
         /\ m.type = "ordered_action" => m.sequence \in Nat /\ m.entry \in LogEntry
         /\ m.type = "resume" =>
              /\ m.from \in Nat /\ m.entries \in Seq(LogEntry)
              /\ m = [type |-> "resume", from |-> m.from, entries |-> m.entries]
         /\ m.type \in {"bootstrap", "ordered_action", "resume", "resync_required", "room_ended", "protocol_error"}
BY DEF Message

\* The log only grows, and what was true of it stays true.
LEMMA PrefixGrows ==
  ASSUME NEW s \in Seq(LogEntry), NEW l \in Seq(LogEntry), NEW k \in Seq(LogEntry),
         Prefix(s, l), Prefix(l, k)
  PROVE  Prefix(s, k)
BY DEF Prefix

LEMMA TrueGrows ==
  ASSUME NEW m \in Message, NEW l \in Seq(LogEntry), NEW k \in Seq(LogEntry),
         TrueTo(m, l), Prefix(l, k)
  PROVE  TrueTo(m, k)
<1>1. CASE m.type = "bootstrap"
  BY <1>1, MessageFields, PrefixGrows DEF TrueTo, ReplicaState
<1>2. CASE m.type = "ordered_action"
  BY <1>2, MessageFields DEF TrueTo, Prefix
<1>3. CASE m.type = "resume"
  <2>1. m.from \in Nat /\ m.entries \in Seq(LogEntry) /\ Len(m.entries) \in Nat
    BY <1>3, MessageFields
  <2>2. Len(l) \in Nat /\ Len(k) \in Nat
    OBVIOUS
  <2>3. /\ m.from >= 1 /\ m.from + Len(m.entries) <= Len(l) + 1 /\ Len(l) <= Len(k)
        /\ \A i \in 1 .. Len(m.entries) : m.entries[i] = l[m.from + i - 1]
    BY <1>3 DEF TrueTo, Prefix
  <2>4. ASSUME NEW i \in 1 .. Len(m.entries)
        PROVE  m.entries[i] = k[m.from + i - 1]
    <3>1. m.from + i - 1 \in 1 .. Len(l)
      BY <2>1, <2>2, <2>3
    <3> QED
      BY <2>3, <3>1 DEF Prefix
  <2>5. m.from + Len(m.entries) <= Len(k) + 1
    BY <2>1, <2>2, <2>3
  <2> QED
    BY <1>3, <2>3, <2>4, <2>5 DEF TrueTo
<1> QED
  BY <1>1, <1>2, <1>3 DEF TrueTo

\* Appending actions to what a store holds.
LEMMA Applied ==
  ASSUME NEW state \in ReplicaState, NEW entries \in Seq(LogEntry), NEW l \in Seq(LogEntry),
         Prefix(state.applied, l), SequenceOf(state) + Len(entries) <= Len(l),
         \A i \in 1 .. Len(entries) : entries[i] = l[SequenceOf(state) + i]
  PROVE  /\ Apply(state, entries) \in ReplicaState
         /\ Apply(state, entries).base = state.base
         /\ Prefix(Apply(state, entries).applied, l)
         /\ SequenceOf(Apply(state, entries)) = SequenceOf(state) + Len(entries)
<1>1. state.applied \in Seq(LogEntry) /\ Len(state.applied) \in Nat /\ Len(entries) \in Nat
  BY DEF ReplicaState
<1>2. /\ state.applied \o entries \in Seq(LogEntry)
      /\ Len(state.applied \o entries) = Len(state.applied) + Len(entries)
      /\ \A i \in 1 .. Len(state.applied) + Len(entries) :
           (state.applied \o entries)[i] =
             IF i <= Len(state.applied) THEN state.applied[i] ELSE entries[i - Len(state.applied)]
  BY <1>1, ConcatProperties
<1>3. /\ Apply(state, entries) \in ReplicaState /\ Apply(state, entries).base = state.base
      /\ Apply(state, entries).applied = state.applied \o entries
  BY <1>2 DEF Apply, ReplicaState
<1>4. Prefix(state.applied \o entries, l)
  <2> SUFFICES ASSUME NEW i \in 1 .. Len(state.applied) + Len(entries)
               PROVE  (state.applied \o entries)[i] = l[i]
    BY <1>1, <1>2 DEF Prefix, SequenceOf
  <2>1. CASE i <= Len(state.applied)
    BY <1>1, <1>2, <2>1 DEF Prefix
  <2>2. CASE ~(i <= Len(state.applied))
    <3>1. i - Len(state.applied) \in 1 .. Len(entries)
      BY <1>1, <2>2
    <3>2. entries[i - Len(state.applied)] = l[Len(state.applied) + (i - Len(state.applied))]
      BY <3>1 DEF SequenceOf
    <3>3. Len(state.applied) + (i - Len(state.applied)) = i
      BY <1>1
    <3> QED
      BY <1>2, <2>2, <3>2, <3>3
  <2> QED
    BY <2>1, <2>2
<1> QED
  BY <1>2, <1>3, <1>4 DEF ReplicaState, SequenceOf

\* Actions accepted by applyOrdered and applyResume continue the store.
LEMMA FollowingApplies ==
  ASSUME NEW state \in ReplicaState \cup {None}, NEW n \in Nat, NEW entries \in Seq(LogEntry),
         NEW l \in Seq(LogEntry), state # None => Prefix(state.applied, l), Follows(state, n),
         n + Len(entries) <= Len(l) + 1,
         \A i \in 1 .. Len(entries) : entries[i] = l[n + i - 1]
  PROVE  /\ Apply(state, entries) \in ReplicaState
         /\ Prefix(Apply(state, entries).applied, l)
         /\ SequenceOf(Apply(state, entries)) + 1 = n + Len(entries)
<1>1. state \in ReplicaState /\ n = SequenceOf(state) + 1
  BY DEF Follows
<1>2. SequenceOf(state) \in Nat /\ Len(entries) \in Nat /\ Len(l) \in Nat
  BY <1>1 DEF SequenceOf, ReplicaState
<1>3. \A i \in 1 .. Len(entries) : n + i - 1 = SequenceOf(state) + i
  BY <1>1, <1>2
<1>4. SequenceOf(state) + Len(entries) <= Len(l)
  BY <1>1, <1>2
<1>5. \A i \in 1 .. Len(entries) : entries[i] = l[SequenceOf(state) + i]
  BY <1>3
<1>6. Prefix(state.applied, l)
  BY DEF Follows
<1>7. /\ Apply(state, entries) \in ReplicaState /\ Prefix(Apply(state, entries).applied, l)
      /\ SequenceOf(Apply(state, entries)) = SequenceOf(state) + Len(entries)
  BY <1>1, <1>4, <1>5, <1>6, Applied
<1> QED
  BY <1>1, <1>2, <1>7

LEMMA InitSession == SessionInit => SessionInv
<1> SUFFICES ASSUME SessionInit
             PROVE  SessionInv
  OBVIOUS
<1>1. Shape
  BY DEF SessionInit, Shape, Phases
<1>2. ASSUME NEW c \in Clients
      PROVE  ClientInv(c)
  <2>1. started = FALSE /\ log = << >> /\ sock[c] = "none" /\ up[c] = << >> /\ down[c] = << >>
        /\ queue[c] = << >> /\ store[c] = None /\ inflight[c] = None /\ phase[c] = "outside"
        /\ released[c] = FALSE
    BY DEF SessionInit
  <2> QED
    BY <2>1 DEF ClientInv, Truthful, Half, Ends, Before, Led
<1> QED
  BY <1>1, <1>2 DEF SessionInv

-----------------------------------------------------------------------------
\* A step that leaves client d and the log alone.
Same(d) == UNCHANGED <<sock[d], up[d], down[d], queue[d], phase[d], released[d], store[d], inflight[d]>>

LEMMA Untouched ==
  ASSUME NEW d \in Clients, ClientInv(d), Same(d), UNCHANGED <<started, log>>
  PROVE  ClientInv(d)'
<1> USE DEF Same, ClientInv
<1>1. Truthful(d)' /\ Half(d)'
  BY DEF Truthful, Half
<1>2. Ends(d)' /\ Before(d)'
  BY DEF Ends, Before
<1>3. Led(d)'
  BY DEF Led, last
<1> QED
  BY <1>1, <1>2, <1>3

\* Client c ends with its store holding st, wire still to be received and q still to be
\* handled; it may have completed its handshake by that.
Settles(c, st, wire, q) ==
  /\ store' = [store EXCEPT ![c] = st]
  /\ down' = [down EXCEPT ![c] = wire] /\ queue' = [queue EXCEPT ![c] = q]
  /\ inflight' = [inflight EXCEPT ![c] = None]
  /\ UNCHANGED <<started, log, sock, helloAt, up, released>>
  /\ \/ UNCHANGED phase
     \/ phase[c] \in {"hello", "connected"} /\ phase' = [phase EXCEPT ![c] = "connected"]

AllTrue(messages) == \A i \in 1 .. Len(messages) : TrueTo(messages[i], log)

LEMMA SettlingKeeps ==
  ASSUME SessionInv, NEW c \in Clients, NEW st \in ReplicaState,
         NEW wire \in Seq(Message), NEW q \in Seq(Message), Settles(c, st, wire, q),
         started, Prefix(st.applied, log), AllTrue(wire), AllTrue(q), ~Scripted => q = << >>,
         sock[c] = "live" =>
           IF wire # << >> THEN LeadsTo(wire[Len(wire)], log)
           ELSE IF q # << >> THEN LeadsTo(q[Len(q)], log)
           ELSE SequenceOf(st) = last
  PROVE  SessionInv'
<1>1. ClientInv(c) /\ Shape
  BY DEF SessionInv
<1>2. /\ store'[c] = st /\ down'[c] = wire /\ queue'[c] = q /\ inflight'[c] = None
      /\ UNCHANGED <<started, log, sock, helloAt, up, released>>
      /\ phase'[c] = phase[c] \/ (phase[c] \in {"hello", "connected"} /\ phase'[c] = "connected")
  <2>1. store'[c] = st /\ down'[c] = wire /\ queue'[c] = q /\ inflight'[c] = None
    BY <1>1 DEF Settles, Shape
  <2>2. phase'[c] = phase[c] \/ (phase[c] \in {"hello", "connected"} /\ phase'[c] = "connected")
    <3>1. CASE UNCHANGED phase
      BY <3>1
    <3>2. CASE phase[c] \in {"hello", "connected"} /\ phase' = [phase EXCEPT ![c] = "connected"]
      BY <1>1, <3>2 DEF Shape
    <3> QED
      BY <3>1, <3>2 DEF Settles
  <2> QED
    BY <2>1, <2>2 DEF Settles
<1>3. Shape'
  BY <1>1 DEF Settles, Shape, Phases
<1>4. ASSUME NEW d \in Clients \ {c}
      PROVE  ClientInv(d)'
  <2>1. Same(d) /\ UNCHANGED <<started, log>>
    BY <1>1 DEF Settles, Shape, Same
  <2> QED
    BY <2>1, Untouched DEF SessionInv
<1>5. st # None
  BY SessionAssumption
<1>6. Truthful(c)' /\ Half(c)'
  BY <1>2 DEF AllTrue, Truthful, Half
<1>7. Ends(c)'
  BY <1>1, <1>2, <1>5 DEF ClientInv, Ends
<1>8. Before(c)'
  BY <1>2 DEF Before
<1>9. Led(c)'
  BY <1>2 DEF Led, last
<1> QED
  BY <1>3, <1>4, <1>6, <1>7, <1>8, <1>9 DEF SessionInv, ClientInv

\* Client c gives up its connection; what is queued stays, but for its head if that was
\* handled.
Loses(c, q) ==
  /\ sock' = [sock EXCEPT ![c] = "none"] /\ helloAt' = [helloAt EXCEPT ![c] = None]
  /\ up' = [up EXCEPT ![c] = << >>] /\ down' = [down EXCEPT ![c] = << >>]
  /\ queue' = [queue EXCEPT ![c] = q]
  /\ UNCHANGED <<started, log, store, inflight>>
  /\ \E p \in {"waiting", "failed", "ended"} : phase' = [phase EXCEPT ![c] = p]
  /\ \E r \in BOOLEAN : released' = [released EXCEPT ![c] = r] /\ (r => released[c])

LEMMA LosingKeeps ==
  ASSUME SessionInv, NEW c \in Clients, NEW q \in Seq(Message), Loses(c, q),
         q = queue[c] \/ (Scripted /\ inflight[c] = None /\ queue[c] # << >> /\ q = Tail(queue[c]))
  PROVE  SessionInv'
<1>1. ClientInv(c) /\ Shape
  BY DEF SessionInv
<1>2. /\ sock'[c] = "none" /\ up'[c] = << >> /\ down'[c] = << >> /\ queue'[c] = q
      /\ UNCHANGED <<started, log, store, inflight>>
      /\ phase'[c] \in {"waiting", "failed", "ended"} /\ (released'[c] => released[c])
  BY <1>1 DEF Loses, Shape
<1>3. Shape'
  BY <1>1 DEF Loses, Shape, Phases
<1>4. ASSUME NEW d \in Clients \ {c}
      PROVE  ClientInv(d)'
  <2>1. Same(d) /\ UNCHANGED <<started, log>>
    BY <1>1 DEF Loses, Shape, Same
  <2> QED
    BY <2>1, Untouched DEF SessionInv
<1>5. /\ \A i \in 1 .. Len(q) : TrueTo(q[i], log)
      /\ ~started => \A i \in 1 .. Len(q) : q[i].type = "room_ended"
  <2>1. CASE q = queue[c]
    BY <1>1, <2>1 DEF ClientInv, Truthful, Before
  <2>2. CASE queue[c] # << >> /\ q = Tail(queue[c])
    <3>1. \A i \in 1 .. Len(q) : i + 1 \in 1 .. Len(queue[c]) /\ q[i] = queue[c][i + 1]
      BY <1>1, <2>2, HeadTailProperties DEF Shape
    <3> QED
      BY <1>1, <3>1 DEF ClientInv, Truthful, Before
  <2> QED
    BY <2>1, <2>2
<1>6. Truthful(c)'
  BY <1>1, <1>2, <1>5 DEF ClientInv, Truthful
<1>7. Half(c)'
  BY <1>1, <1>2 DEF ClientInv, Half
<1>8. Ends(c)'
  BY <1>1, <1>2 DEF ClientInv, Ends
<1>9. Before(c)'
  BY <1>1, <1>2, <1>5 DEF ClientInv, Before
<1>10. Led(c)'
  BY <1>2 DEF Led
<1> QED
  BY <1>3, <1>4, <1>6, <1>7, <1>8, <1>9, <1>10 DEF SessionInv, ClientInv

\* recoverFromGap and the loss of a connection.
LEMMA RecoveringLoses ==
  ASSUME SessionInv, NEW c \in Clients, NEW fullResync \in BOOLEAN, Recover(c, fullResync)
  PROVE  /\ sock' = [sock EXCEPT ![c] = "none"] /\ helloAt' = [helloAt EXCEPT ![c] = None]
         /\ up' = [up EXCEPT ![c] = << >>] /\ down' = [down EXCEPT ![c] = << >>]
         /\ UNCHANGED <<started, log>>
         /\ \E p \in {"waiting", "failed", "ended"} : phase' = [phase EXCEPT ![c] = p]
         /\ \E r \in BOOLEAN : released' = [released EXCEPT ![c] = r] /\ (r => released[c])
<1>1. \E p \in {"waiting", "failed", "ended"} : phase' = [phase EXCEPT ![c] = p]
  BY DEF Recover, ScheduleReconnect, SessionInv, Shape
<1>2. released' = [released EXCEPT ![c] = released[c] /\ ~fullResync]
  BY DEF Recover
<1>3. (released[c] /\ ~fullResync) \in BOOLEAN
  OBVIOUS
<1> QED
  BY <1>1, <1>2, <1>3 DEF Recover, CloseSocket

\* Handling a message either settles the client at what the message brings, or costs
\* it its connection.
LEMMA HandlingSettles ==
  ASSUME SessionInv, NEW c \in Clients, NEW m \in Message, NEW wire, Handle(c, m, wire),
         TrueTo(m, log), NEW q, queue' = [queue EXCEPT ![c] = q],
         inflight' = inflight, inflight[c] = None
  PROVE  \/ /\ m.type # "room_ended"
            /\ \E st \in ReplicaState :
                 /\ Settles(c, st, wire, q) /\ Prefix(st.applied, log)
                 /\ LeadsTo(m, log) => SequenceOf(st) = last
         \/ Loses(c, q)
<1> DEFINE Goal == \/ /\ m.type # "room_ended"
                      /\ \E st \in ReplicaState :
                           /\ Settles(c, st, wire, q) /\ Prefix(st.applied, log)
                           /\ LeadsTo(m, log) => SequenceOf(st) = last
                   \/ Loses(c, q)
<1>0. inflight' = [inflight EXCEPT ![c] = None] /\ phase \in [Clients -> Phases] /\ log \in Seq(LogEntry)
  BY DEF SessionInv, Shape
<1>a. store[c] \in ReplicaState \cup {None} /\ (store[c] # None => Prefix(store[c].applied, log))
  BY DEF SessionInv, Shape, ClientInv, Truthful
<1>1. ASSUME NEW st \in ReplicaState, Keeps(c, st, wire), Connected(c) \/ UNCHANGED <<phase, attempt>>
      PROVE  Settles(c, st, wire, q)
  BY <1>0, <1>1 DEF Keeps, Connected, Settles, room
<1>2. CASE m.type = "bootstrap" /\ Keeps(c, m.snapshot, wire) /\ Connected(c)
  <2>1. m.snapshot \in ReplicaState /\ Prefix(m.snapshot.applied, log)
    BY <1>2, MessageFields DEF TrueTo
  <2>2. Settles(c, m.snapshot, wire, q)
    BY <1>1, <1>2, <2>1
  <2>3. LeadsTo(m, log) => SequenceOf(m.snapshot) = last
    BY <1>2 DEF LeadsTo, SequenceOf, last
  <2> QED
    BY <1>2, <2>1, <2>2, <2>3
<1>3. CASE /\ m.type = "resume" /\ Follows(store[c], m.from)
           /\ Keeps(c, Apply(store[c], m.entries), wire) /\ Connected(c)
  <2>1. m.from \in Nat /\ m.entries \in Seq(LogEntry)
    BY <1>3, MessageFields
  <2>2. /\ Apply(store[c], m.entries) \in ReplicaState /\ Prefix(Apply(store[c], m.entries).applied, log)
        /\ SequenceOf(Apply(store[c], m.entries)) + 1 = m.from + Len(m.entries)
    <3>1. /\ m.from + Len(m.entries) <= Len(log) + 1
          /\ \A i \in 1 .. Len(m.entries) : m.entries[i] = log[m.from + i - 1]
      BY <1>3 DEF TrueTo
    <3> QED
      BY <1>0, <1>a, <1>3, <2>1, <3>1, FollowingApplies
  <2>3. LeadsTo(m, log) => SequenceOf(Apply(store[c], m.entries)) = last
    <3>1. SequenceOf(Apply(store[c], m.entries)) \in Nat /\ last \in Nat
      BY <1>0, <2>2 DEF SequenceOf, ReplicaState, last
    <3> QED
      BY <1>3, <2>2, <3>1 DEF LeadsTo, last
  <2> QED
    BY <1>1, <1>3, <2>2, <2>3
<1>4. CASE /\ m.type = "ordered_action" /\ Follows(store[c], m.sequence)
           /\ Keeps(c, Apply(store[c], <<m.entry>>), wire) /\ UNCHANGED <<phase, attempt>>
  <2>1. /\ m.sequence \in Nat /\ <<m.entry>> \in Seq(LogEntry) /\ Len(<<m.entry>>) = 1
        /\ \A i \in 1 .. 1 : <<m.entry>>[i] = m.entry /\ m.sequence + i - 1 = m.sequence
    BY <1>4, MessageFields
  <2>2. m.sequence \in 1 .. Len(log) /\ m.entry = log[m.sequence]
    BY <1>4 DEF TrueTo
  <2>3. /\ Apply(store[c], <<m.entry>>) \in ReplicaState /\ Prefix(Apply(store[c], <<m.entry>>).applied, log)
        /\ SequenceOf(Apply(store[c], <<m.entry>>)) + 1 = m.sequence + 1
    <3> DEFINE one == <<m.entry>>
    <3>1. one \in Seq(LogEntry) /\ Len(one) = 1 /\ one[1] = m.entry
      BY <2>1
    <3> HIDE DEF one
    <3>2. m.sequence + Len(one) <= Len(log) + 1 /\ m.sequence + Len(one) = m.sequence + 1
      BY <1>0, <2>1, <2>2, <3>1
    <3>3. \A i \in 1 .. Len(one) : one[i] = log[m.sequence + i - 1]
      BY <2>1, <2>2, <3>1
    <3>4. /\ Apply(store[c], one) \in ReplicaState /\ Prefix(Apply(store[c], one).applied, log)
          /\ SequenceOf(Apply(store[c], one)) + 1 = m.sequence + Len(one)
      BY <1>0, <1>a, <1>4, <2>1, <3>1, <3>2, <3>3, FollowingApplies, ZenonT(40)
    <3> QED
      BY <3>2, <3>4 DEF one
  <2>4. LeadsTo(m, log) => SequenceOf(Apply(store[c], <<m.entry>>)) = last
    <3>1. SequenceOf(Apply(store[c], <<m.entry>>)) \in Nat
      BY <2>3 DEF SequenceOf, ReplicaState
    <3> QED
      BY <1>4, <2>1, <2>3, <3>1 DEF LeadsTo, last
  <2> QED
    BY <1>1, <1>4, <2>3, <2>4
<1>5. ASSUME NEW fullResync \in BOOLEAN, Recover(c, fullResync), UNCHANGED store
      PROVE  Loses(c, q)
  BY <1>5, RecoveringLoses DEF Loses
<1>6. CASE /\ m.type \in {"room_ended", "protocol_error"} /\ CloseSocket(c)
           /\ phase' = [phase EXCEPT ![c] = IF m.type = "room_ended" THEN "ended" ELSE "failed"]
           /\ UNCHANGED <<started, ended, log, attempt, full, resync, released, store, drops>>
  <2>1. released' = [released EXCEPT ![c] = released[c]] /\ released[c] \in BOOLEAN
    BY <1>6 DEF SessionInv, Shape
  <2>2. \E p \in {"waiting", "failed", "ended"} : phase' = [phase EXCEPT ![c] = p]
    BY <1>6
  <2> QED
    BY <1>6, <2>1, <2>2 DEF Loses, CloseSocket
<1> QED
  BY <1>2, <1>3, <1>4, <1>5, <1>6 DEF Handle

-----------------------------------------------------------------------------
LEMMA AllTrueOfTail ==
  ASSUME NEW s \in Seq(Message), s # << >>, AllTrue(s)
  PROVE  /\ Head(s) \in Message /\ TrueTo(Head(s), log)
         /\ Tail(s) \in Seq(Message) /\ AllTrue(Tail(s))
         /\ Tail(s) # << >> => Tail(s)[Len(Tail(s))] = s[Len(s)]
         /\ Tail(s) = << >> => Head(s) = s[Len(s)]
<1>1. /\ Head(s) \in Message /\ Head(s) = s[1] /\ Len(s) \in Nat \ {0}
      /\ Tail(s) \in Seq(Message) /\ Len(Tail(s)) = Len(s) - 1
      /\ \A i \in 1 .. Len(s) - 1 : Tail(s)[i] = s[i + 1]
  BY HeadTailProperties
<1>2. TrueTo(Head(s), log)
  BY <1>1 DEF AllTrue
<1>3. AllTrue(Tail(s))
  <2>1. ASSUME NEW i \in 1 .. Len(s) - 1
        PROVE  TrueTo(Tail(s)[i], log)
    <3>1. i + 1 \in 1 .. Len(s)
      BY <1>1
    <3> QED
      BY <1>1, <3>1 DEF AllTrue
  <2> QED
    BY <1>1, <2>1 DEF AllTrue
<1>4. Tail(s) # << >> => Len(s) - 1 \in 1 .. Len(s) - 1
  BY <1>1
<1>5. Tail(s) # << >> => Tail(s)[Len(Tail(s))] = s[Len(s)]
  BY <1>1, <1>4
<1>6. Tail(s) = << >> => Len(s) = 1
  <2> HAVE Tail(s) = << >>
  <2>1. Len(Tail(s)) = 0
    BY <1>1, EmptySeq
  <2> QED
    BY <1>1, <2>1
<1> QED
  BY <1>1, <1>2, <1>3, <1>5, <1>6

\* A game without scripts handles the first message of the wire.
LEMMA ReceiveKeeps ==
  ASSUME SessionInv, NEW c \in Clients, Receive(c)
  PROVE  SessionInv'
<1> DEFINE m == Head(down[c])
           wire == Tail(down[c])
<1>1. /\ ~Scripted /\ down[c] # << >> /\ Handle(c, m, wire) /\ UNCHANGED <<queue, inflight>>
      /\ down[c] \in Seq(Message) /\ ClientInv(c)
  BY DEF Receive, Listening, SessionInv, Shape
<1>2. queue[c] = << >> /\ inflight[c] = None /\ queue' = [queue EXCEPT ![c] = << >>]
  BY <1>1 DEF ClientInv, Half, SessionInv, Shape
<1>3. AllTrue(down[c])
  BY <1>1 DEF AllTrue, ClientInv, Truthful
<1>4. /\ m \in Message /\ TrueTo(m, log) /\ wire \in Seq(Message) /\ AllTrue(wire)
      /\ wire # << >> => wire[Len(wire)] = down[c][Len(down[c])]
      /\ wire = << >> => m = down[c][Len(down[c])]
  BY <1>1, <1>3, AllTrueOfTail
<1>5. m.type # "room_ended" => started
  BY <1>1 DEF ClientInv, Before
<1> HIDE DEF m, wire
<1>0. << >> \in Seq(Message) /\ AllTrue(<< >>)
  BY DEF AllTrue
<1>6. CASE Loses(c, << >>)
  <2> DEFINE q == << >>
  <2>1. q \in Seq(Message) /\ q = queue[c] /\ Loses(c, q)
    BY <1>0, <1>2, <1>6
  <2> HIDE DEF q
  <2> QED
    BY <2>1, LosingKeeps
<1>7. ASSUME NEW st \in ReplicaState, Settles(c, st, wire, << >>), Prefix(st.applied, log),
             LeadsTo(m, log) => SequenceOf(st) = last, m.type # "room_ended"
      PROVE  SessionInv'
  <2>1. sock[c] = "live" =>
          IF wire # << >> THEN LeadsTo(wire[Len(wire)], log) ELSE SequenceOf(st) = last
    BY <1>1, <1>4, <1>7 DEF ClientInv, Led
  <2> DEFINE q == << >>
  <2>2. q \in Seq(Message) /\ AllTrue(q) /\ Settles(c, st, wire, q) /\ q = << >>
    BY <1>0, <1>7
  <2> HIDE DEF q
  <2> QED
    BY <1>4, <1>5, <1>7, <2>1, <2>2, SettlingKeeps
<1> QED
  BY <1>1, <1>2, <1>4, <1>6, <1>7, HandlingSettles

\* A scripted game handles the head of its queue, which may belong to a connection that
\* is gone, or begins to.
LEMMA HandleQueuedKeeps ==
  ASSUME SessionInv, NEW c \in Clients, HandleQueued(c)
  PROVE  SessionInv'
<1> DEFINE m == Head(queue[c])
           q == Tail(queue[c])
<1>1. /\ Scripted /\ queue[c] # << >> /\ inflight[c] = None
      /\ queue[c] \in Seq(Message) /\ down[c] \in Seq(Message) /\ ClientInv(c)
  BY DEF HandleQueued, Busy, SessionInv, Shape
<1>2. AllTrue(queue[c]) /\ AllTrue(down[c])
  BY <1>1 DEF AllTrue, ClientInv, Truthful
<1>3. /\ m \in Message /\ TrueTo(m, log) /\ q \in Seq(Message) /\ AllTrue(q)
      /\ q # << >> => q[Len(q)] = queue[c][Len(queue[c])]
      /\ q = << >> => m = queue[c][Len(queue[c])]
  BY <1>1, <1>2, AllTrueOfTail
<1>4. m.type # "room_ended" => started
  BY <1>1 DEF ClientInv, Before
<1>5. CASE IsActions(m) /\ Follows(store[c], FirstSequence(m))
  <2>1. /\ inflight' = [inflight EXCEPT ![c] = Apply(store[c], <<FirstEntry(m)>>)]
        /\ UNCHANGED <<started, log, sock, helloAt, up, down, phase, released, store, queue>>
    BY <1>5 DEF HandleQueued, room, net
  <2>2. /\ FirstSequence(m) \in 1 .. Len(log) /\ FirstEntry(m) \in LogEntry
        /\ FirstEntry(m) = log[FirstSequence(m)]
    <3>1. CASE m.type = "ordered_action"
      BY <1>3, <3>1, MessageFields DEF FirstSequence, FirstEntry, TrueTo
    <3>2. CASE m.type = "resume" /\ m.entries # << >>
      <4>1. m.entries \in Seq(LogEntry) /\ m.from \in Nat /\ Len(m.entries) >= 1 /\ Len(log) \in Nat
        BY <1>3, <3>2, MessageFields DEF SessionInv, Shape
      <4>2. m.from >= 1 /\ m.from + Len(m.entries) <= Len(log) + 1 /\ m.entries[1] = log[m.from + 1 - 1]
        BY <1>3, <3>2, <4>1 DEF TrueTo
      <4> QED
        BY <3>2, <4>1, <4>2 DEF FirstSequence, FirstEntry
    <3> QED
      BY <1>5, <3>1, <3>2 DEF IsActions
  <2> DEFINE one == <<FirstEntry(m)>>
             n == FirstSequence(m)
  <2>3. one \in Seq(LogEntry) /\ Len(one) = 1 /\ one[1] = FirstEntry(m) /\ n \in Nat
    BY <2>2
  <2>4. /\ store[c] \in ReplicaState \cup {None} /\ (store[c] # None => Prefix(store[c].applied, log))
        /\ log \in Seq(LogEntry)
    BY <1>1 DEF SessionInv, Shape, ClientInv, Truthful
  <2> HIDE DEF one, m
  <2>5. n + Len(one) <= Len(log) + 1 /\ \A i \in 1 .. Len(one) : one[i] = log[n + i - 1]
    BY <2>2, <2>3, <2>4
  <2> HIDE DEF n
  <2>6. /\ Apply(store[c], one) \in ReplicaState /\ Prefix(Apply(store[c], one).applied, log)
        /\ SequenceOf(Apply(store[c], one)) + 1 = n + Len(one)
    BY <1>5, <2>3, <2>4, <2>5, FollowingApplies DEF n
  <2>7. SequenceOf(Apply(store[c], one)) = n
    <3>1. SequenceOf(Apply(store[c], one)) \in Nat
      BY <2>6 DEF SequenceOf, ReplicaState
    <3> QED
      BY <2>3, <2>6, <3>1
  <2>8. Shape'
    BY <2>1, <2>6 DEF SessionInv, Shape, one
  <2>9. ASSUME NEW d \in Clients \ {c}
        PROVE  ClientInv(d)'
    BY <2>1, Untouched DEF SessionInv, Shape, Same
  <2>10. inflight'[c] = Apply(store[c], one)
    BY <2>1 DEF SessionInv, Shape, one
  <2>11. Half(c)'
    BY <1>1, <1>5, <2>1, <2>6, <2>7, <2>10 DEF Half, n, m
  <2>12. Truthful(c)' /\ Ends(c)' /\ Before(c)' /\ Led(c)'
    BY <1>1, <2>1 DEF ClientInv, Truthful, Ends, Before, Led, last
  <2> QED
    BY <2>8, <2>9, <2>11, <2>12 DEF SessionInv, ClientInv
<1>6. CASE ~(IsActions(m) /\ Follows(store[c], FirstSequence(m)))
  <2>1. Handle(c, m, down[c]) /\ queue' = [queue EXCEPT ![c] = q] /\ inflight' = inflight
    BY <1>6 DEF HandleQueued, Dequeue
  <2> HIDE DEF m, q
  <2>2. CASE Loses(c, q)
    BY <1>1, <1>3, <2>2, LosingKeeps DEF q
  <2>3. ASSUME NEW st \in ReplicaState, Settles(c, st, down[c], q), Prefix(st.applied, log),
               LeadsTo(m, log) => SequenceOf(st) = last, m.type # "room_ended"
        PROVE  SessionInv'
    <3>1. sock[c] = "live" =>
            IF down[c] # << >> THEN LeadsTo(down[c][Len(down[c])], log)
            ELSE IF q # << >> THEN LeadsTo(q[Len(q)], log)
            ELSE SequenceOf(st) = last
      BY <1>1, <1>3, <2>3 DEF ClientInv, Led
    <3> QED
      BY <1>1, <1>2, <1>3, <1>4, <2>3, <3>1, SettlingKeeps
  <2> QED
    BY <1>1, <1>3, <2>1, <2>2, <2>3, HandlingSettles
<1> QED
  BY <1>5, <1>6

\* The scripts of one action are done.
LEMMA CommitQueuedKeeps ==
  ASSUME SessionInv, NEW c \in Clients, CommitQueued(c)
  PROVE  SessionInv'
<1> DEFINE m == Head(queue[c])
           rest == Tail(queue[c])
           st == inflight[c]
<1>1. /\ Scripted /\ queue[c] # << >> /\ st # None /\ Keeps(c, st, down[c])
      /\ inflight' = [inflight EXCEPT ![c] = None]
      /\ queue[c] \in Seq(Message) /\ down[c] \in Seq(Message) /\ ClientInv(c)
      /\ st \in ReplicaState /\ log \in Seq(LogEntry) /\ phase \in [Clients -> Phases]
  BY DEF CommitQueued, Busy, SessionInv, Shape
<1>2. /\ IsActions(m) /\ Prefix(st.applied, log) /\ SequenceOf(st) = FirstSequence(m)
  BY <1>1 DEF ClientInv, Half
<1>3. AllTrue(queue[c]) /\ AllTrue(down[c])
  BY <1>1 DEF AllTrue, ClientInv, Truthful
<1>4. /\ m \in Message /\ TrueTo(m, log) /\ rest \in Seq(Message) /\ AllTrue(rest)
      /\ rest # << >> => rest[Len(rest)] = queue[c][Len(queue[c])]
      /\ rest = << >> => m = queue[c][Len(queue[c])]
  BY <1>1, <1>3, AllTrueOfTail
<1>5. started
  BY <1>1, <1>2, <1>4 DEF ClientInv, Before, IsActions
<1>6. ASSUME NEW q \in Seq(Message), queue' = [queue EXCEPT ![c] = q], AllTrue(q),
             Connected(c) \/ UNCHANGED <<phase, attempt>>,
             sock[c] = "live" => IF down[c] # << >> THEN TRUE
                                 ELSE IF q # << >> THEN LeadsTo(q[Len(q)], log) ELSE SequenceOf(st) = last
      PROVE  SessionInv'
  <2>1. Settles(c, st, down[c], q)
    BY <1>1, <1>6 DEF Keeps, Connected, Settles, room
  <2>2. sock[c] = "live" =>
          IF down[c] # << >> THEN LeadsTo(down[c][Len(down[c])], log)
          ELSE IF q # << >> THEN LeadsTo(q[Len(q)], log)
          ELSE SequenceOf(st) = last
    BY <1>1, <1>6 DEF ClientInv, Led
  <2> QED
    BY <1>1, <1>2, <1>3, <1>5, <1>6, <2>1, <2>2, SettlingKeeps
<1>7. sock[c] = "live" /\ down[c] = << >> =>
        IF rest # << >> THEN LeadsTo(rest[Len(rest)], log) ELSE LeadsTo(m, log)
  BY <1>1, <1>4 DEF ClientInv, Led
<1> HIDE DEF m, rest, st
<1>8. CASE m.type = "ordered_action"
  <2>1. queue' = [queue EXCEPT ![c] = rest] /\ UNCHANGED <<phase, attempt>>
    BY <1>8 DEF CommitQueued, Dequeue, m, rest
  <2>2. LeadsTo(m, log) => SequenceOf(st) = last
    BY <1>2, <1>8 DEF LeadsTo, FirstSequence, last
  <2> QED
    BY <1>4, <1>6, <1>7, <2>1, <2>2
<1>9. CASE m.type # "ordered_action"
  <2>1. m.type = "resume" /\ m.entries # << >>
    BY <1>2, <1>9 DEF IsActions
  <2>2. /\ m.from \in Nat /\ m.entries \in Seq(LogEntry) /\ Len(m.entries) \in Nat \ {0} /\ Len(log) \in Nat
        /\ m = [type |-> "resume", from |-> m.from, entries |-> m.entries]
    BY <1>1, <1>4, <2>1, MessageFields
  <2>3. CASE Len(m.entries) = 1
    <3>1. queue' = [queue EXCEPT ![c] = rest] /\ Connected(c)
      BY <1>9, <2>3 DEF CommitQueued, Dequeue, m, rest
    <3>2. LeadsTo(m, log) => SequenceOf(st) = last
      <4>1. SequenceOf(st) = m.from
        BY <1>2, <2>1 DEF FirstSequence
      <4> QED
        BY <2>1, <2>2, <2>3, <4>1 DEF LeadsTo, last
    <3> QED
      BY <1>4, <1>6, <1>7, <3>1, <3>2
  <2>4. CASE Len(m.entries) # 1
    <3> DEFINE next == RestOf(m)
               q == <<next>> \o rest
    <3>1. queue' = [queue EXCEPT ![c] = q] /\ UNCHANGED <<phase, attempt>>
      BY <1>9, <2>4 DEF CommitQueued, m, rest
    <3>2. /\ next.type = "resume" /\ next.from = m.from + 1 /\ next.entries = Tail(m.entries)
          /\ next \in Message
      <4>1. Tail(m.entries) \in Seq(LogEntry)
        BY <2>1, <2>2, HeadTailProperties
      <4> QED
        BY <2>2, <4>1 DEF RestOf, Message
    <3>3. /\ Tail(m.entries) \in Seq(LogEntry) /\ Len(Tail(m.entries)) = Len(m.entries) - 1
          /\ \A i \in 1 .. Len(m.entries) - 1 : Tail(m.entries)[i] = m.entries[i + 1]
      BY <2>1, <2>2, HeadTailProperties
    <3>4. TrueTo(next, log)
      <4>1. /\ m.from >= 1 /\ m.from + Len(m.entries) <= Len(log) + 1
            /\ \A i \in 1 .. Len(m.entries) : m.entries[i] = log[m.from + i - 1]
        BY <1>4, <2>1 DEF TrueTo
      <4>2. ASSUME NEW i \in 1 .. Len(m.entries) - 1
            PROVE  Tail(m.entries)[i] = log[(m.from + 1) + i - 1]
        <5>1. i + 1 \in 1 .. Len(m.entries) /\ m.from + (i + 1) - 1 = (m.from + 1) + i - 1
          BY <2>2
        <5>2. m.entries[i + 1] = log[m.from + (i + 1) - 1]
          BY <4>1, <5>1
        <5> QED
          BY <3>3, <5>1, <5>2
      <4>3. m.from + 1 >= 1 /\ (m.from + 1) + (Len(m.entries) - 1) <= Len(log) + 1
        BY <2>2, <4>1
      <4> QED
        BY <3>2, <3>3, <4>2, <4>3 DEF TrueTo
    <3>5. LeadsTo(m, log) => LeadsTo(next, log)
      BY <2>1, <2>2, <3>2, <3>3 DEF LeadsTo
    <3> HIDE DEF next
    <3>6. /\ q \in Seq(Message) /\ Len(q) = Len(rest) + 1 /\ Len(rest) \in Nat
          /\ q[1] = next /\ \A i \in 1 .. Len(rest) : q[i + 1] = rest[i]
      BY <1>4, <3>2
    <3>7. AllTrue(q)
      <4>1. ASSUME NEW i \in 1 .. Len(q)
            PROVE  TrueTo(q[i], log)
        <5>1. CASE i = 1
          BY <3>4, <3>6, <5>1
        <5>2. CASE i # 1
          <6>1. i - 1 \in 1 .. Len(rest) /\ (i - 1) + 1 = i
            BY <3>6, <5>2
          <6>2. q[i] = rest[i - 1]
            BY <3>6, <6>1
          <6> QED
            BY <1>4, <6>1, <6>2 DEF AllTrue
        <5> QED
          BY <5>1, <5>2
      <4> QED
        BY <4>1 DEF AllTrue
    <3>8. q # << >> /\ (sock[c] = "live" /\ down[c] = << >> => LeadsTo(q[Len(q)], log))
      <4>1. CASE rest = << >>
        BY <1>7, <3>5, <3>6, <4>1
      <4>2. CASE rest # << >>
        <5>1. Len(rest) \in 1 .. Len(rest) /\ q[Len(rest) + 1] = rest[Len(rest)]
          BY <1>4, <3>6, <4>2
        <5> QED
          BY <1>7, <3>6, <4>2, <5>1
      <4> QED
        BY <4>1, <4>2
    <3> HIDE DEF q
    <3> QED
      BY <1>6, <3>1, <3>6, <3>7, <3>8
  <2> QED
    BY <2>3, <2>4
<1> QED
  BY <1>8, <1>9

-----------------------------------------------------------------------------
LEMMA ConcatElements ==
  ASSUME NEW s \in Seq(Message), NEW t \in Seq(Message)
  PROVE  /\ s \o t \in Seq(Message)
         /\ \A i \in 1 .. Len(s \o t) : \/ \E j \in 1 .. Len(s) : (s \o t)[i] = s[j]
                                        \/ \E j \in 1 .. Len(t) : (s \o t)[i] = t[j]
         /\ t # << >> => s \o t # << >> /\ (s \o t)[Len(s \o t)] = t[Len(t)]
         /\ t = << >> => s \o t = s
<1>1. /\ s \o t \in Seq(Message) /\ Len(s \o t) = Len(s) + Len(t)
      /\ \A i \in 1 .. Len(s) + Len(t) :
           (s \o t)[i] = IF i <= Len(s) THEN s[i] ELSE t[i - Len(s)]
      /\ Len(s) \in Nat /\ Len(t) \in Nat
  BY ConcatProperties
<1>2. ASSUME NEW i \in 1 .. Len(s) + Len(t)
      PROVE  \/ \E j \in 1 .. Len(s) : (s \o t)[i] = s[j]
             \/ \E j \in 1 .. Len(t) : (s \o t)[i] = t[j]
  <2>1. CASE i <= Len(s)
    BY <1>1, <2>1
  <2>2. CASE ~(i <= Len(s))
    <3>1. i - Len(s) \in 1 .. Len(t)
      BY <1>1, <2>2
    <3> QED
      BY <1>1, <2>2, <3>1
  <2> QED
    BY <2>1, <2>2
<1>3. t # << >> => s \o t # << >> /\ (s \o t)[Len(s \o t)] = t[Len(t)]
  <2> HAVE t # << >>
  <2>1. Len(t) \in Nat \ {0}
    BY EmptySeq
  <2>2. Len(s) + Len(t) \in 1 .. Len(s) + Len(t) /\ ~(Len(s) + Len(t) <= Len(s))
        /\ (Len(s) + Len(t)) - Len(s) = Len(t)
    BY <1>1, <2>1
  <2>3. (s \o t)[Len(s) + Len(t)] = t[Len(t)]
    BY <1>1, <2>2
  <2>4. s \o t # << >>
    BY <1>1, <2>1, EmptySeq
  <2> QED
    BY <1>1, <2>3, <2>4
<1> QED
  BY <1>1, <1>2, <1>3, ConcatEmptySeq

LEMMA OrderedFromFacts ==
  ASSUME NEW entries \in Seq(LogEntry), NEW n \in Nat
  PROVE  /\ OrderedFrom(entries, n) \in Seq(Message)
         /\ Len(OrderedFrom(entries, n)) = Len(entries)
         /\ \A i \in 1 .. Len(entries) :
              /\ OrderedFrom(entries, n)[i] = Ordered(n + i, entries[i])
              /\ Ordered(n + i, entries[i]) \in Message
<1>1. Len(entries) \in Nat /\ \A i \in 1 .. Len(entries) : entries[i] \in LogEntry /\ n + i \in Nat
  OBVIOUS
<1>2. \A i \in 1 .. Len(entries) : Ordered(n + i, entries[i]) \in Message
  BY <1>1 DEF Ordered, Message
<1> HIDE DEF Ordered, Message
<1> QED
  BY <1>1, <1>2 DEF OrderedFrom

\* Actions numbered from where the log l has them are true to it, and the last of them
\* leads to its end.
LEMMA OrderedIsTrue ==
  ASSUME NEW entries \in Seq(LogEntry), NEW n \in Nat, NEW l \in Seq(LogEntry),
         n + Len(entries) = Len(l), \A i \in 1 .. Len(entries) : entries[i] = l[n + i]
  PROVE  /\ \A i \in 1 .. Len(OrderedFrom(entries, n)) : TrueTo(OrderedFrom(entries, n)[i], l)
         /\ entries # << >> =>
              /\ OrderedFrom(entries, n) # << >>
              /\ LeadsTo(OrderedFrom(entries, n)[Len(OrderedFrom(entries, n))], l)
<1>1. /\ Len(OrderedFrom(entries, n)) = Len(entries) /\ Len(entries) \in Nat /\ Len(l) \in Nat
      /\ \A i \in 1 .. Len(entries) : OrderedFrom(entries, n)[i] = Ordered(n + i, entries[i])
      /\ OrderedFrom(entries, n) \in Seq(Message)
  BY OrderedFromFacts
<1>2. ASSUME NEW i \in 1 .. Len(entries)
      PROVE  TrueTo(Ordered(n + i, entries[i]), l)
  <2>1. n + i \in 1 .. Len(l) /\ entries[i] = l[n + i]
    BY <1>1
  <2> QED
    BY <2>1 DEF TrueTo, Ordered
<1>3. entries # << >> => Len(entries) \in 1 .. Len(entries)
  BY <1>1, EmptySeq
<1>4. LeadsTo(Ordered(n + Len(entries), entries[Len(entries)]), l)
  BY DEF LeadsTo, Ordered
<1>5. entries # << >> => OrderedFrom(entries, n) # << >>
  BY <1>1, <1>3, EmptySeq
<1> QED
  BY <1>1, <1>2, <1>3, <1>4, <1>5

\* What the room answers a hello with, computed from the log l.
LEMMA ReplyFacts ==
  ASSUME NEW at \in Nat \cup {None}, NEW l \in Seq(LogEntry), NEW reply \in Replies(at, l)
  PROVE  /\ reply \in Seq(Message) /\ reply # << >>
         /\ \A i \in 1 .. Len(reply) : TrueTo(reply[i], l)
         /\ LeadsTo(reply[Len(reply)], l)
         /\ ended => \A i \in 1 .. Len(reply) : reply[i].type = "room_ended"
<1>0. Len(l) \in Nat /\ \A i \in 1 .. Len(l) : l[i] \in LogEntry
  OBVIOUS
<1>1. ASSUME NEW m \in Message, reply = <<m>>, TrueTo(m, l), LeadsTo(m, l), ended => m.type = "room_ended"
      PROVE  /\ reply \in Seq(Message) /\ reply # << >>
             /\ \A i \in 1 .. Len(reply) : TrueTo(reply[i], l)
             /\ LeadsTo(reply[Len(reply)], l)
             /\ ended => \A i \in 1 .. Len(reply) : reply[i].type = "room_ended"
  <2>1. reply \in Seq(Message) /\ Len(reply) = 1 /\ reply[1] = m /\ reply # << >>
    BY <1>1
  <2> QED
    BY <1>1, <2>1
<1>2. ASSUME NEW t \in {"room_ended", "protocol_error", "resync_required"}
      PROVE  [type |-> t] \in Message /\ TrueTo([type |-> t], l) /\ LeadsTo([type |-> t], l)
  BY DEF Message, TrueTo, LeadsTo
<1>3. CASE ended
  <2>1. reply = <<[type |-> "room_ended"]>>
    BY <1>3 DEF Replies
  <2> QED
    BY <1>1, <1>2, <2>1
<1>4. CASE ~ended /\ at = None
  <2>1. PICK base \in Bases(l) : reply = BootstrapFrom(l, base)
    BY <1>4 DEF Replies
  <2>2. base \in 0 .. Len(l)
    BY <1>0, SessionAssumption DEF Bases
  <2> DEFINE entries == SubSeq(l, base + 1, Len(l))
             m == BootstrapMessage(l, base)
             one == <<m>>
             wire == OrderedFrom(entries, base)
  <2>3. /\ SubSeq(l, 1, base) \in Seq(LogEntry) /\ Len(SubSeq(l, 1, base)) = base
        /\ \A i \in 1 .. base : SubSeq(l, 1, base)[i] = l[i]
    <3>1. \A i \in 1 .. base : l[i] \in LogEntry
      BY <1>0, <2>2
    <3>2. base \in Int /\ 1 \in Int /\ (base - 1 + 1 = base) /\ base >= 0
          /\ \A i \in 1 .. base : 1 + i - 1 = i
      BY <2>2
    <3>3. /\ SubSeq(l, 1, base) \in Seq(LogEntry)
          /\ Len(SubSeq(l, 1, base)) = IF 1 <= base THEN base - 1 + 1 ELSE 0
          /\ \A i \in 1 .. base - 1 + 1 : SubSeq(l, 1, base)[i] = l[1 + i - 1]
      BY <3>1, <3>2, SubSeqProperties
    <3> QED
      BY <3>2, <3>3
  <2>4. /\ entries \in Seq(LogEntry) /\ Len(entries) = Len(l) - base
        /\ \A i \in 1 .. Len(entries) : entries[i] = l[base + i]
    <3>1. \A i \in base + 1 .. Len(l) : l[i] \in LogEntry
      BY <1>0, <2>2
    <3>2. base + 1 \in Int /\ Len(l) \in Int /\ Len(l) - (base + 1) + 1 = Len(l) - base
          /\ \A i \in 1 .. Len(l) - base : (base + 1) + i - 1 = base + i
      BY <1>0, <2>2
    <3>3. /\ entries \in Seq(LogEntry)
          /\ Len(entries) = IF base + 1 <= Len(l) THEN Len(l) - (base + 1) + 1 ELSE 0
          /\ \A i \in 1 .. Len(l) - (base + 1) + 1 : entries[i] = l[(base + 1) + i - 1]
      BY <3>1, <3>2, SubSeqProperties
    <3>4. Len(entries) = Len(l) - base
      BY <1>0, <2>2, <3>3
    <3> QED
      BY <3>2, <3>3, <3>4
  <2>5. m \in Message /\ TrueTo(m, l) /\ (base = Len(l) => LeadsTo(m, l))
    <3>1. m \in Message
      BY <2>3 DEF BootstrapMessage, Message, ReplicaState
    <3>2. m.type = "bootstrap" /\ m.snapshot.applied = SubSeq(l, 1, base)
      BY DEF BootstrapMessage
    <3> QED
      BY <2>2, <2>3, <3>1, <3>2 DEF TrueTo, LeadsTo, Prefix
  <2>6. /\ one \in Seq(Message) /\ one # << >> /\ Len(one) = 1 /\ one[1] = m
    BY <2>5
  <2> HIDE DEF entries, m
  <2>7. /\ wire \in Seq(Message) /\ Len(wire) = Len(entries)
        /\ \A i \in 1 .. Len(wire) : TrueTo(wire[i], l)
        /\ entries # << >> => wire # << >> /\ LeadsTo(wire[Len(wire)], l)
    <3>1. base \in Nat /\ base + Len(entries) = Len(l)
      BY <1>0, <2>2, <2>4
    <3> QED
      BY <2>4, <3>1, OrderedFromFacts, OrderedIsTrue
  <2> HIDE DEF one, wire
  <2>8. reply = one \o wire
    BY <2>1 DEF BootstrapFrom, one, wire, m, entries
  <2>9. reply \in Seq(Message) /\ \A i \in 1 .. Len(reply) : TrueTo(reply[i], l)
    BY <2>5, <2>6, <2>7, <2>8, ConcatElements, SMTT(40)
  <2>10. CASE entries = << >>
    <3>1. Len(wire) = 0 /\ base = Len(l)
      BY <1>0, <2>2, <2>4, <2>7, <2>10, EmptySeq
    <3>2. wire = << >>
      BY <2>7, <3>1, EmptySeq
    <3>3. reply = one
      BY <2>6, <2>7, <2>8, <3>2, ConcatElements
    <3> QED
      BY <1>4, <2>5, <2>6, <2>9, <3>1, <3>3
  <2>11. CASE entries # << >>
    BY <1>4, <2>6, <2>7, <2>8, <2>9, <2>11, ConcatElements
  <2> QED
    BY <2>10, <2>11
<1>5. CASE ~ended /\ at # None
  <2>1. at \in Nat
    BY <1>5
  <2>2. CASE at > Len(l)
    <3>1. reply = <<[type |-> "protocol_error"]>>
      BY <1>5, <2>2 DEF Replies
    <3> QED
      BY <1>1, <1>2, <1>5, <3>1
  <2>3. CASE ~(at > Len(l)) /\ at < Len(l) - Retention
    <3>1. reply = <<[type |-> "resync_required"]>>
      BY <1>5, <2>3 DEF Replies
    <3> QED
      BY <1>1, <1>2, <1>5, <3>1
  <2>4. CASE ~(at > Len(l)) /\ ~(at < Len(l) - Retention)
    <3> DEFINE entries == SubSeq(l, at + 1, Len(l))
               m == [type |-> "resume", from |-> at + 1, entries |-> entries]
    <3>1. reply = <<m>>
      BY <1>5, <2>4, SMTT(40) DEF Replies
    <3>2. /\ entries \in Seq(LogEntry) /\ Len(entries) = Len(l) - at
          /\ \A i \in 1 .. Len(entries) : entries[i] = l[at + i]
      <4>1. \A i \in at + 1 .. Len(l) : l[i] \in LogEntry
        BY <1>0, <2>1
      <4>2. at + 1 \in Int /\ Len(l) \in Int /\ Len(l) - (at + 1) + 1 = Len(l) - at
            /\ \A i \in 1 .. Len(l) - at : (at + 1) + i - 1 = at + i
        BY <1>0, <2>1
      <4>3. /\ entries \in Seq(LogEntry)
            /\ Len(entries) = IF at + 1 <= Len(l) THEN Len(l) - (at + 1) + 1 ELSE 0
            /\ \A i \in 1 .. Len(l) - (at + 1) + 1 : entries[i] = l[(at + 1) + i - 1]
        BY <4>1, <4>2, SubSeqProperties
      <4>4. Len(entries) = Len(l) - at
        BY <1>0, <2>1, <2>4, <4>3
      <4> QED
        BY <4>2, <4>3, <4>4
    <3> HIDE DEF entries
    <3>3. m \in Message
      BY <2>1, <3>2 DEF Message
    <3>4. /\ at + 1 >= 1 /\ (at + 1) + Len(entries) = Len(l) + 1
          /\ \A i \in 1 .. Len(entries) : (at + 1) + i - 1 = at + i
      BY <1>0, <2>1, <3>2
    <3>5. TrueTo(m, l) /\ LeadsTo(m, l)
      BY <1>0, <3>2, <3>4 DEF TrueTo, LeadsTo
    <3> HIDE DEF m
    <3> QED
      BY <1>1, <1>5, <3>1, <3>3, <3>5
  <2> QED
    BY <2>2, <2>3, <2>4
<1> QED
  BY <1>3, <1>4, <1>5

-----------------------------------------------------------------------------
\* A step of others in which the log may grow leaves a client's invariant alone ...
LEMMA Growing ==
  ASSUME Shape, NEW d \in Clients, ClientInv(d), Same(d),
         log' \in Seq(LogEntry), Prefix(log, log'),
         started \/ ~started' => UNCHANGED log, started => started'
  PROVE  ClientInv(d)'
<1>1. /\ UNCHANGED <<sock[d], up[d], down[d], queue[d], phase[d], released[d], store[d], inflight[d]>>
      /\ down[d] \in Seq(Message) /\ queue[d] \in Seq(Message) /\ log \in Seq(LogEntry)
      /\ store[d] \in ReplicaState \cup {None} /\ inflight[d] \in ReplicaState \cup {None}
  BY DEF Same, Shape
<1>2. \A i \in 1 .. Len(down[d]) : down[d][i] \in Message
  BY <1>1, ElementOfSeq
<1>3. \A i \in 1 .. Len(queue[d]) : queue[d][i] \in Message
  BY <1>1, ElementOfSeq
<1>4. \A m \in Message : TrueTo(m, log) => TrueTo(m, log')
  BY <1>1, TrueGrows
<1>5. \A st \in ReplicaState : Prefix(st.applied, log) => Prefix(st.applied, log')
  BY <1>1, PrefixGrows DEF ReplicaState
<1>6. Truthful(d)'
  BY <1>1, <1>2, <1>3, <1>4, <1>5 DEF ClientInv, Truthful
<1>7. Half(d)'
  BY <1>1, <1>5 DEF ClientInv, Half
<1>8. Ends(d)'
  BY <1>1 DEF ClientInv, Ends
<1>9. Before(d)'
  BY <1>1 DEF ClientInv, Before
<1>10. Led(d)'
  <2>1. sock[d] = "live" => UNCHANGED log
    BY DEF ClientInv, Before
  <2> QED
    BY <1>1, <2>1 DEF ClientInv, Led, last
<1> QED
  BY <1>6, <1>7, <1>8, <1>9, <1>10 DEF ClientInv

\* ... and so does the broadcast of what the log grew by.
LEMMA Broadcasting ==
  ASSUME Shape, NEW d \in Clients, ClientInv(d), NEW entries \in Seq(LogEntry), entries # << >>,
         started, started', log' = log \o entries, Broadcast(OrderedFrom(entries, last)),
         UNCHANGED <<sock[d], queue[d], store[d], inflight[d]>>
  PROVE  /\ down'[d] \in Seq(Message) /\ log' \in Seq(LogEntry)
         /\ Truthful(d)' /\ Half(d)' /\ Before(d)' /\ Led(d)'
<1> DEFINE wire == OrderedFrom(entries, last)
<1>1. /\ down[d] \in Seq(Message) /\ queue[d] \in Seq(Message) /\ log \in Seq(LogEntry)
      /\ store[d] \in ReplicaState \cup {None} /\ inflight[d] \in ReplicaState \cup {None}
      /\ last \in Nat /\ last = Len(log) /\ Len(entries) \in Nat
  BY DEF Shape, last
<1>2. /\ log' \in Seq(LogEntry) /\ Prefix(log, log') /\ Len(log') = last + Len(entries)
      /\ \A i \in 1 .. Len(entries) : entries[i] = log'[last + i]
  <2>1. /\ log' \in Seq(LogEntry) /\ Len(log') = last + Len(entries)
        /\ \A i \in 1 .. last + Len(entries) :
             log'[i] = IF i <= last THEN log[i] ELSE entries[i - last]
    BY <1>1, ConcatProperties
  <2>2. \A i \in 1 .. last : i \in 1 .. last + Len(entries) /\ i <= last
    BY <1>1
  <2>3. \A i \in 1 .. Len(entries) : last + i \in 1 .. last + Len(entries) /\ ~(last + i <= last)
                                     /\ (last + i) - last = i
    BY <1>1
  <2>4. Prefix(log, log')
    BY <1>1, <2>1, <2>2 DEF Prefix
  <2> QED
    BY <2>1, <2>3, <2>4
<1>3. /\ wire \in Seq(Message) /\ wire # << >>
      /\ \A i \in 1 .. Len(wire) : TrueTo(wire[i], log')
      /\ LeadsTo(wire[Len(wire)], log')
  BY <1>1, <1>2, OrderedFromFacts, OrderedIsTrue
<1>4. down'[d] = IF sock[d] \in {"awaiting", "live"} THEN down[d] \o wire ELSE down[d]
  BY DEF Broadcast
<1> HIDE DEF wire
<1>5. /\ \A i \in 1 .. Len(down[d]) : down[d][i] \in Message
      /\ \A i \in 1 .. Len(queue[d]) : queue[d][i] \in Message
  BY <1>1, ElementOfSeq
<1>6. \A m \in Message : TrueTo(m, log) => TrueTo(m, log')
  BY <1>1, <1>2, TrueGrows
<1>7. \A st \in ReplicaState : Prefix(st.applied, log) => Prefix(st.applied, log')
  BY <1>1, <1>2, PrefixGrows DEF ReplicaState
<1>8. down'[d] \in Seq(Message) /\ \A i \in 1 .. Len(down'[d]) : TrueTo(down'[d][i], log')
  <2>1. \A i \in 1 .. Len(down[d]) : TrueTo(down[d][i], log')
    BY <1>5, <1>6 DEF ClientInv, Truthful
  <2>2. CASE sock[d] \in {"awaiting", "live"}
    <3>1. down'[d] = down[d] \o wire
      BY <1>4, <2>2
    <3>2. /\ down'[d] \in Seq(Message)
          /\ \A i \in 1 .. Len(down'[d]) : \/ \E j \in 1 .. Len(down[d]) : down'[d][i] = down[d][j]
                                           \/ \E j \in 1 .. Len(wire) : down'[d][i] = wire[j]
      <4> DEFINE joined == down[d] \o wire
      <4>1. /\ joined \in Seq(Message)
            /\ \A i \in 1 .. Len(joined) : \/ \E j \in 1 .. Len(down[d]) : joined[i] = down[d][j]
                                           \/ \E j \in 1 .. Len(wire) : joined[i] = wire[j]
        BY <1>1, <1>3, ConcatElements
      <4>2. down'[d] = joined
        BY <3>1
      <4> HIDE DEF joined
      <4> QED
        BY <4>1, <4>2
    <3> QED
      BY <1>3, <2>1, <3>2
  <2>3. CASE sock[d] \notin {"awaiting", "live"}
    BY <1>1, <1>4, <2>1, <2>3
  <2> QED
    BY <2>2, <2>3
<1>9. Truthful(d)'
  BY <1>1, <1>5, <1>6, <1>7, <1>8 DEF ClientInv, Truthful
<1>10. Half(d)'
  BY <1>1, <1>7 DEF ClientInv, Half
<1>11. Before(d)'
  BY DEF Before
<1>12. Led(d)'
  <2>1. sock[d] = "live" => down'[d] # << >> /\ down'[d][Len(down'[d])] = wire[Len(wire)]
    BY <1>1, <1>3, <1>4, ConcatElements
  <2> QED
    BY <1>3, <2>1 DEF Led
<1> QED
  BY <1>2, <1>8, <1>9, <1>10, <1>11, <1>12

\* The room answers client c from its log, which the answer may have started.
LEMMA Answering ==
  ASSUME Shape, NEW c \in Clients, ClientInv(c), NEW at \in Nat \cup {None}, Answer(c, at, log'),
         log' \in Seq(LogEntry), Prefix(log, log'), started' \/ ended, started => started',
         ~started' => log' = log, phase[c] \in {"hello", "connected"}, up'[c] \in Seq(Request),
         ~started /\ sock[c] = "awaiting" => up'[c] = << >>,
         UNCHANGED <<ended, queue[c], store[c], inflight[c], phase[c], released[c]>>
  PROVE  /\ \E wire \in Seq(Message) : down' = [down EXCEPT ![c] = wire]
         /\ \E p \in {"none", "live"} : sock' = [sock EXCEPT ![c] = p]
         /\ ClientInv(c)'
<1>1. PICK reply \in Replies(at, log') : down' = [down EXCEPT ![c] = @ \o reply]
  BY DEF Answer
<1>2. /\ reply \in Seq(Message) /\ reply # << >>
      /\ \A i \in 1 .. Len(reply) : TrueTo(reply[i], log')
      /\ LeadsTo(reply[Len(reply)], log')
      /\ ended => \A i \in 1 .. Len(reply) : reply[i].type = "room_ended"
  BY ReplyFacts
<1>3. /\ down[c] \in Seq(Message) /\ queue[c] \in Seq(Message) /\ log \in Seq(LogEntry)
      /\ store[c] \in ReplicaState \cup {None} /\ inflight[c] \in ReplicaState \cup {None}
  BY DEF Shape
<1>4. down[c] \o reply \in Seq(Message) /\ down' = [down EXCEPT ![c] = down[c] \o reply]
      /\ down'[c] = down[c] \o reply
  BY <1>1, <1>2, <1>3, ConcatElements DEF Shape
<1>5. sock' = [sock EXCEPT ![c] = IF ended THEN "none" ELSE "live"]
      /\ sock'[c] = IF ended THEN "none" ELSE "live"
  BY DEF Answer, Shape
<1>6. /\ \A i \in 1 .. Len(down[c]) : down[c][i] \in Message
      /\ \A i \in 1 .. Len(queue[c]) : queue[c][i] \in Message
  BY <1>3, ElementOfSeq
<1>7. \A m \in Message : TrueTo(m, log) => TrueTo(m, log')
  BY <1>3, TrueGrows
<1>8. \A st \in ReplicaState : Prefix(st.applied, log) => Prefix(st.applied, log')
  BY <1>3, PrefixGrows DEF ReplicaState
<1>9. \A i \in 1 .. Len(down'[c]) : TrueTo(down'[c][i], log')
  <2>1. \A i \in 1 .. Len(down[c]) : TrueTo(down[c][i], log')
    BY <1>6, <1>7 DEF ClientInv, Truthful
  <2> QED
    BY <1>2, <1>3, <1>4, <2>1, ConcatElements
<1>10. Truthful(c)'
  BY <1>3, <1>6, <1>7, <1>8, <1>9 DEF ClientInv, Truthful
<1>11. Half(c)'
  BY <1>3, <1>8 DEF ClientInv, Half
<1>12. Ends(c)'
  BY <1>5 DEF ClientInv, Ends
<1>13. Before(c)'
  <2>1. ~started' => ~started /\ ended
    OBVIOUS
  <2>2. ~started' => \A i \in 1 .. Len(down'[c]) : down'[c][i].type = "room_ended"
    BY <1>2, <1>3, <1>4, <2>1, ConcatElements DEF ClientInv, Before
  <2> QED
    BY <1>5, <2>1, <2>2 DEF ClientInv, Before
<1>14. Led(c)'
  <2>1. down'[c] # << >> /\ down'[c][Len(down'[c])] = reply[Len(reply)]
    BY <1>2, <1>3, <1>4, ConcatElements
  <2> QED
    BY <1>2, <2>1 DEF Led
<1> QED
  BY <1>4, <1>5, <1>10, <1>11, <1>12, <1>13, <1>14 DEF ClientInv

-----------------------------------------------------------------------------
(* The client's connection. *)

LEMMA DropKeeps ==
  ASSUME SessionInv, NEW c \in Clients, Drop(c)
  PROVE  SessionInv'
<1>1. /\ queue[c] \in Seq(Message) /\ queue' = [queue EXCEPT ![c] = queue[c]]
      /\ released' = [released EXCEPT ![c] = released[c]] /\ released[c] \in BOOLEAN
  BY DEF Drop, SessionInv, Shape
<1>2. \E p \in {"waiting", "failed", "ended"} : phase' = [phase EXCEPT ![c] = p]
  BY DEF Drop, ScheduleReconnect, SessionInv, Shape
<1>3. Loses(c, queue[c])
  BY <1>1, <1>2 DEF Drop, CloseSocket, Loses
<1> QED
  BY <1>1, <1>3, LosingKeeps

\* What a client does by itself touches its own wire, phase and store.
LEMMA OwnStep ==
  ASSUME SessionInv, NEW c \in Clients, Shape', ClientInv(c)', UNCHANGED <<started, log>>,
         \A d \in Clients \ {c} : Same(d)
  PROVE  SessionInv'
BY Untouched DEF SessionInv

LEMMA ReconnectKeeps ==
  ASSUME SessionInv, NEW c \in Clients, Reconnect(c)
  PROVE  SessionInv'
<1>1. /\ phase[c] = "waiting" /\ phase' = [phase EXCEPT ![c] = "connecting"]
      /\ UNCHANGED <<started, log, sock, helloAt, up, down, released, store, queue, inflight>>
      /\ Shape /\ ClientInv(c) /\ phase'[c] = "connecting"
  BY DEF Reconnect, room, net, SessionInv, Shape
<1>2. Shape' /\ \A d \in Clients \ {c} : Same(d)
  BY <1>1 DEF Shape, Phases, Same
<1>3. Truthful(c)' /\ Half(c)' /\ Ends(c)' /\ Before(c)' /\ Led(c)'
  BY <1>1 DEF ClientInv, Truthful, Half, Ends, Before, Led, last
<1> QED
  BY <1>1, <1>2, <1>3, OwnStep DEF ClientInv

LEMMA OpenKeeps ==
  ASSUME SessionInv, NEW c \in Clients, Open(c)
  PROVE  SessionInv'
<1>1. /\ phase[c] = "connecting" /\ sock' = [sock EXCEPT ![c] = "open"]
      /\ UNCHANGED <<started, log, helloAt, down, released, store, queue, inflight>>
      /\ Shape /\ ClientInv(c) /\ sock'[c] = "open" /\ up[c] = << >>
  BY DEF Open, room, SessionInv, Shape, ClientInv, Ends
<1>2. CASE phase' = [phase EXCEPT ![c] = "loading"] /\ UNCHANGED up
  <2>1. Shape' /\ \A d \in Clients \ {c} : Same(d)
    BY <1>1, <1>2 DEF Shape, Phases, Same
  <2>2. phase'[c] = "loading" /\ up'[c] = << >>
    BY <1>1, <1>2 DEF Shape
  <2>3. Truthful(c)' /\ Half(c)' /\ Ends(c)' /\ Before(c)' /\ Led(c)'
    BY <1>1, <2>2 DEF ClientInv, Truthful, Half, Ends, Before, Led, last
  <2> QED
    BY <1>1, <2>1, <2>3, OwnStep DEF ClientInv
<1>3. CASE released[c] /\ SendHello(c, store[c])
  <2> DEFINE hello == [type |-> "hello", at |-> LastSequence(c, store[c])]
  <2>1. hello \in Request /\ hello.type = "hello"
    BY <1>1 DEF LastSequence, SequenceOf, Shape, Request, ReplicaState
  <2>2. phase' = [phase EXCEPT ![c] = "hello"] /\ up' = [up EXCEPT ![c] = Append(up[c], hello)]
    BY <1>3 DEF SendHello
  <2> HIDE DEF hello
  <2>3. Append(up[c], hello) = <<hello>> /\ Append(up[c], hello) \in Seq(Request)
    BY <1>1, <2>1 DEF Shape
  <2>4. Shape' /\ \A d \in Clients \ {c} : Same(d)
    BY <1>1, <2>2, <2>3 DEF Shape, Phases, Same
  <2>5. phase'[c] = "hello" /\ up'[c] = <<hello>> /\ store[c] # None
    BY <1>1, <1>3, <2>2, <2>3 DEF Shape, ClientInv, Ends
  <2>6. Truthful(c)' /\ Half(c)' /\ Before(c)' /\ Led(c)'
    BY <1>1, <2>5 DEF ClientInv, Truthful, Half, Before, Led, last
  <2>7. Ends(c)'
    BY <1>1, <2>1, <2>5 DEF ClientInv, Ends
  <2> QED
    BY <1>1, <2>4, <2>6, <2>7, OwnStep DEF ClientInv
<1> QED
  BY <1>2, <1>3 DEF Open

\* The release's state is a prefix of every log.
LEMMA ReleaseFacts ==
  /\ ReleaseState \in ReplicaState /\ ReleaseState # None
  /\ \A l \in Seq(LogEntry) : Prefix(ReleaseState.applied, l)
  /\ ReleaseState.base = "release" /\ SequenceOf(ReleaseState) = 0
<1>1. /\ ReleaseState \in ReplicaState /\ ReleaseState.base = "release"
      /\ ReleaseState.applied = << >>
  BY DEF ReleaseState, ReplicaState
<1>2. ASSUME NEW l \in Seq(LogEntry)
      PROVE  Prefix(<< >>, l)
  <2>1. Len(<< >>) = 0 /\ Len(l) \in Nat
    BY EmptySeq
  <2> QED
    BY <2>1 DEF Prefix
<1>3. ReleaseState # None
  BY <1>1, SessionAssumption
<1>4. Len(<< >>) = 0
  BY EmptySeq
<1> QED
  BY <1>1, <1>2, <1>3, <1>4 DEF SequenceOf

LEMMA LoadedKeeps ==
  ASSUME SessionInv, NEW c \in Clients, Loaded(c)
  PROVE  SessionInv'
<1> DEFINE hello == [type |-> "hello", at |-> LastSequence(c, ReleaseState)]
<1>1. /\ phase[c] = "loading" /\ up[c] = << >> /\ sock[c] \in {"none", "open"}
      /\ store' = [store EXCEPT ![c] = ReleaseState] /\ released' = [released EXCEPT ![c] = TRUE]
      /\ phase' = [phase EXCEPT ![c] = "hello"] /\ up' = [up EXCEPT ![c] = Append(up[c], hello)]
      /\ UNCHANGED <<started, log, sock, helloAt, down, queue, inflight>>
      /\ Shape /\ ClientInv(c)
  BY DEF Loaded, LoadRelease, SendHello, room, SessionInv, ClientInv, Ends
<1>2. hello \in Request /\ hello.type = "hello"
  BY ReleaseFacts DEF LastSequence, Request
<1> HIDE DEF hello
<1>3. Append(up[c], hello) = <<hello>> /\ Append(up[c], hello) \in Seq(Request)
  BY <1>1, <1>2 DEF Shape
<1>4. Shape' /\ \A d \in Clients \ {c} : Same(d)
  BY <1>1, <1>3, ReleaseFacts DEF Shape, Phases, Same
<1>5. phase'[c] = "hello" /\ up'[c] = <<hello>> /\ store'[c] = ReleaseState /\ released'[c] = TRUE
  BY <1>1, <1>3 DEF Shape
<1>6. Truthful(c)'
  BY <1>1, <1>5, ReleaseFacts DEF ClientInv, Truthful, Shape
<1>7. Half(c)' /\ Before(c)' /\ Led(c)'
  BY <1>1, <1>5 DEF ClientInv, Half, Before, Led
<1>8. Ends(c)'
  BY <1>1, <1>2, <1>5, ReleaseFacts DEF ClientInv, Ends
<1> QED
  BY <1>1, <1>4, <1>6, <1>7, <1>8, OwnStep DEF ClientInv

\* A release that arrives late overwrites the store, whose base is then no longer the room's.
LEMMA LoadedLateKeeps ==
  ASSUME SessionInv, NEW c \in Clients, LoadedLate(c)
  PROVE  SessionInv'
<1>1. /\ store' = [store EXCEPT ![c] = ReleaseState] /\ released' = [released EXCEPT ![c] = TRUE]
      /\ UNCHANGED <<started, log, sock, helloAt, up, down, phase, queue, inflight>>
      /\ Shape /\ ClientInv(c)
  BY DEF LoadedLate, LoadRelease, room, net, SessionInv
<1>2. Shape' /\ \A d \in Clients \ {c} : Same(d)
  BY <1>1, ReleaseFacts DEF Shape, Same
<1>3. store'[c] = ReleaseState
  BY <1>1 DEF Shape
<1>4. Truthful(c)' /\ Half(c)' /\ Before(c)'
  BY <1>1, <1>3, ReleaseFacts DEF ClientInv, Truthful, Half, Before, Shape
<1>5. Ends(c)'
  BY <1>1, <1>3, ReleaseFacts DEF ClientInv, Ends
<1>6. Led(c)'
  <2>1. store'[c].base # "room"
    BY <1>3, ReleaseFacts
  <2> QED
    BY <1>1, <2>1 DEF ClientInv, Led
<1> QED
  BY <1>1, <1>2, <1>4, <1>5, <1>6, OwnStep DEF ClientInv

LEMMA ActKeeps ==
  ASSUME SessionInv, NEW c \in Clients, Act(c)
  PROVE  SessionInv'
<1> DEFINE request == [type |-> "action_request"]
<1>1. /\ phase[c] = "connected" /\ up[c] = << >> /\ up' = [up EXCEPT ![c] = Append(up[c], request)]
      /\ UNCHANGED <<started, log, sock, helloAt, down, phase, released, store, queue, inflight>>
      /\ Shape /\ ClientInv(c)
  BY DEF Act, room, client, SessionInv
<1>2. request \in Request
  BY DEF Request
<1> HIDE DEF request
<1>3. Append(up[c], request) \in Seq(Request)
  BY <1>1, <1>2 DEF Shape
<1>4. Shape' /\ \A d \in Clients \ {c} : Same(d)
  BY <1>1, <1>3 DEF Shape, Same
<1>5. sock[c] # "open"
  BY <1>1, EmptySeq DEF ClientInv, Ends
<1>6. Truthful(c)' /\ Half(c)' /\ Before(c)' /\ Led(c)'
  BY <1>1 DEF ClientInv, Truthful, Half, Before, Led, last
<1>7. Ends(c)'
  BY <1>1, <1>5 DEF ClientInv, Ends
<1> QED
  BY <1>1, <1>4, <1>6, <1>7, OwnStep DEF ClientInv

\* A scripted game queues what arrives.
LEMMA EnqueueKeeps ==
  ASSUME SessionInv, NEW c \in Clients, Enqueue(c)
  PROVE  SessionInv'
<1> DEFINE m == Head(down[c])
           wire == Tail(down[c])
           q == Append(queue[c], m)
<1>1. /\ Scripted /\ down[c] # << >> /\ queue' = [queue EXCEPT ![c] = q]
      /\ down' = [down EXCEPT ![c] = wire]
      /\ UNCHANGED <<started, log, sock, helloAt, up, phase, released, store, inflight>>
      /\ Shape /\ ClientInv(c) /\ down[c] \in Seq(Message) /\ queue[c] \in Seq(Message)
  BY DEF Enqueue, Listening, room, SessionInv, Shape
<1>2. AllTrue(down[c])
  BY <1>1 DEF ClientInv, Truthful, AllTrue
<1>3. /\ m \in Message /\ TrueTo(m, log) /\ wire \in Seq(Message) /\ AllTrue(wire)
      /\ wire # << >> => wire[Len(wire)] = down[c][Len(down[c])]
      /\ wire = << >> => m = down[c][Len(down[c])]
  BY <1>1, <1>2, AllTrueOfTail
<1>4. /\ \A i \in 1 .. Len(wire) : i + 1 \in 1 .. Len(down[c]) /\ wire[i] = down[c][i + 1]
      /\ m = down[c][1] /\ 1 \in 1 .. Len(down[c])
  BY <1>1, HeadTailProperties
<1> HIDE DEF m, wire
<1>5. /\ q \in Seq(Message) /\ Len(q) = Len(queue[c]) + 1 /\ q[Len(q)] = m /\ Len(queue[c]) \in Nat
      /\ \A i \in 1 .. Len(queue[c]) : q[i] = queue[c][i]
  BY <1>1, <1>3
<1> HIDE DEF q
<1>6. q # << >> /\ (queue[c] # << >> => Head(q) = Head(queue[c]))
  <2>1. q # << >>
    <3>1. Len(q) > 0
      BY <1>5
    <3> QED
      BY <3>1, EmptySeq
  <2>2. queue[c] # << >> => 1 \in 1 .. Len(queue[c]) /\ Head(queue[c]) = queue[c][1] /\ Head(q) = q[1]
    BY <1>1, <1>5, EmptySeq
  <2> QED
    BY <1>5, <2>1, <2>2
<1>7. Shape' /\ \A d \in Clients \ {c} : Same(d)
  BY <1>1, <1>3, <1>5 DEF Shape, Same
<1>8. queue'[c] = q /\ down'[c] = wire
  BY <1>1 DEF Shape
<1>9. Truthful(c)'
  <2>1. \A i \in 1 .. Len(q) : i \in 1 .. Len(queue[c]) \/ i = Len(q)
    BY <1>5
  <2>2. \A i \in 1 .. Len(q) : TrueTo(q[i], log)
    BY <1>1, <1>3, <1>5, <2>1 DEF ClientInv, Truthful
  <2> QED
    BY <1>1, <1>3, <1>8, <2>2 DEF ClientInv, Truthful, AllTrue
<1>10. Half(c)'
  BY <1>1, <1>6, <1>8 DEF ClientInv, Half
<1>11. Ends(c)'
  BY <1>1 DEF ClientInv, Ends
<1>12. Before(c)'
  <2>1. \A i \in 1 .. Len(q) : i \in 1 .. Len(queue[c]) \/ i = Len(q)
    BY <1>5
  <2>2. ~started => \A i \in 1 .. Len(wire) : wire[i].type = "room_ended"
    BY <1>1, <1>4 DEF ClientInv, Before
  <2>3. ~started => \A i \in 1 .. Len(q) : q[i].type = "room_ended"
    BY <1>1, <1>4, <1>5, <2>1 DEF ClientInv, Before
  <2> QED
    BY <1>1, <1>8, <2>2, <2>3 DEF ClientInv, Before
<1>13. Led(c)'
  BY <1>1, <1>3, <1>5, <1>6, <1>8 DEF ClientInv, Led
<1> QED
  BY <1>1, <1>7, <1>9, <1>10, <1>11, <1>12, <1>13, OwnStep DEF ClientInv

-----------------------------------------------------------------------------
(* The room. *)

LEMMA JoinKeeps ==
  ASSUME SessionInv, NEW c \in Clients, Join(c)
  PROVE  SessionInv'
<1>1. /\ phase[c] = "outside" /\ phase' = [phase EXCEPT ![c] = "connecting"] /\ phase'[c] = "connecting"
      /\ UNCHANGED <<started, sock, helloAt, up, released, store, queue, inflight>>
      /\ Shape /\ ClientInv(c) /\ sock[c] = "none" /\ up[c] = << >>
  BY DEF Join, SessionInv, Shape, ClientInv, Ends
<1>2. ASSUME NEW d \in Clients \ {c}
      PROVE  phase'[d] = phase[d] /\ ClientInv(d)
  BY <1>1 DEF Shape, SessionInv
<1>3. ASSUME NEW d \in Clients
      PROVE  Ends(d)'
  BY <1>1, <1>2 DEF ClientInv, Ends
<1>4. phase' \in [Clients -> Phases]
  BY <1>1 DEF Shape, Phases
<1>5. CASE started
  <2> DEFINE entries == <<[kind |-> "player_joined", by |-> c], [kind |-> "seat_assign", by |-> c]>>
  <2>1. entries \in Seq(LogEntry) /\ entries # << >>
    BY DEF LogEntry
  <2>2. log' = log \o entries /\ Broadcast(OrderedFrom(entries, last))
    BY <1>5 DEF Join
  <2> HIDE DEF entries
  <2>3. ASSUME NEW d \in Clients
        PROVE  /\ down'[d] \in Seq(Message) /\ log' \in Seq(LogEntry)
               /\ Truthful(d)' /\ Half(d)' /\ Before(d)' /\ Led(d)'
    BY <1>1, <1>2, <1>5, <2>1, <2>2, Broadcasting
  <2>4. down' \in [Clients -> Seq(Message)] /\ log' \in Seq(LogEntry)
    <3>1. down' = [d \in Clients |-> down'[d]]
      BY <2>2 DEF Broadcast
    <3> QED
      BY <1>1, <2>1, <2>2, <2>3, <3>1, ConcatProperties DEF Shape
  <2>5. Shape'
    BY <1>1, <1>4, <2>4 DEF Shape
  <2> QED
    BY <1>3, <2>3, <2>5 DEF SessionInv, ClientInv
<1>6. CASE ~started
  <2>1. UNCHANGED <<log, down>>
    BY <1>6 DEF Join
  <2>2. Shape' /\ \A d \in Clients \ {c} : Same(d)
    BY <1>1, <1>2, <1>4, <2>1 DEF Shape, Same
  <2>3. Truthful(c)' /\ Half(c)' /\ Before(c)' /\ Led(c)'
    BY <1>1, <2>1 DEF ClientInv, Truthful, Half, Before, Led
  <2> QED
    BY <1>1, <1>3, <2>1, <2>2, <2>3, OwnStep DEF ClientInv
<1> QED
  BY <1>5, <1>6

\* The log a hello finds or starts.
LEMMA StartedLogFacts ==
  ASSUME SessionInv, NEW c \in Clients
  PROVE  StartedLog \in Seq(LogEntry) /\ Prefix(log, StartedLog) /\ (started => StartedLog = log)
<1>1. CASE started
  BY <1>1 DEF StartedLog, SessionInv, Shape, Prefix
<1>2. CASE ~started
  <2>1. log = << >> /\ StartedLog = <<[kind |-> "game_start", by |-> None]>>
    BY <1>2 DEF StartedLog, SessionInv, ClientInv, Before
  <2>2. StartedLog \in Seq(LogEntry) /\ Len(StartedLog) = 1 /\ Len(log) = 0
    BY <2>1 DEF LogEntry
  <2> QED
    BY <1>2, <2>2 DEF Prefix
<1> QED
  BY <1>1, <1>2

LEMMA ReceiveHelloKeeps ==
  ASSUME SessionInv, NEW c \in Clients, ReceiveHello(c)
  PROVE  SessionInv'
<1>1. /\ sock[c] = "open" /\ up[c] # << >> /\ up' = [up EXCEPT ![c] = Tail(up[c])]
      /\ UNCHANGED <<started, ended, log, phase, released, store, queue, inflight>>
      /\ Shape /\ ClientInv(c) /\ up[c] \in Seq(Request)
  BY DEF ReceiveHello, room, client, SessionInv, Shape
<1>2. phase[c] \in {"hello", "connected"} /\ Len(up[c]) = 1 /\ Head(up[c]).type = "hello"
  BY <1>1 DEF ClientInv, Ends, Shape, Phases
<1>3. Tail(up[c]) = << >> /\ up'[c] = << >> /\ << >> \in Seq(Request)
  <2>1. Tail(up[c]) \in Seq(Request) /\ Len(Tail(up[c])) = 0
    BY <1>1, <1>2, HeadTailProperties
  <2> QED
    BY <1>1, <2>1, EmptySeq DEF Shape
<1>4. Head(up[c]).at \in Nat \cup {None}
  <2>1. Head(up[c]) \in Request
    BY <1>1, HeadTailProperties
  <2> QED
    BY <1>2, <2>1 DEF Request
<1>5. CASE (started \/ ended) /\ Answer(c, Head(up[c]).at, log) /\ UNCHANGED helloAt
  <2>1. Prefix(log, log)
    BY <1>1 DEF Shape, Prefix
  <2>2. /\ \E wire \in Seq(Message) : down' = [down EXCEPT ![c] = wire]
        /\ \E p \in {"none", "live"} : sock' = [sock EXCEPT ![c] = p]
        /\ ClientInv(c)'
    <3> DEFINE at == Head(up[c]).at
    <3>1. Answer(c, at, log') /\ at \in Nat \cup {None} /\ log' \in Seq(LogEntry) /\ Prefix(log, log')
      BY <1>1, <1>4, <1>5, <2>1 DEF Shape
    <3> HIDE DEF at
    <3> QED
      BY <1>1, <1>2, <1>3, <1>5, <3>1, Answering
  <2>3. Shape' /\ \A d \in Clients \ {c} : Same(d)
    BY <1>1, <1>3, <1>5, <2>2 DEF Shape, Same
  <2> QED
    BY <1>1, <2>2, <2>3, OwnStep
<1>6. CASE /\ sock' = [sock EXCEPT ![c] = "awaiting"]
           /\ helloAt' = [helloAt EXCEPT ![c] = Head(up[c]).at] /\ UNCHANGED down
  <2>1. Shape' /\ \A d \in Clients \ {c} : Same(d)
    BY <1>1, <1>3, <1>4, <1>6 DEF Shape, Same
  <2>2. sock'[c] = "awaiting"
    BY <1>1, <1>6 DEF Shape
  <2>3. Truthful(c)' /\ Half(c)' /\ Before(c)' /\ Led(c)'
    BY <1>1, <1>3, <1>6, <2>2 DEF ClientInv, Truthful, Half, Before, Led
  <2>4. Ends(c)'
    BY <1>1, <1>2, <1>3, <2>2 DEF ClientInv, Ends
  <2> QED
    BY <1>1, <2>1, <2>3, <2>4, OwnStep DEF ClientInv
<1> QED
  BY <1>5, <1>6 DEF ReceiveHello

LEMMA AnswerHelloKeeps ==
  ASSUME SessionInv, NEW c \in Clients, AnswerHello(c)
  PROVE  SessionInv'
<1>1. /\ sock[c] = "awaiting" /\ Answer(c, helloAt[c], log')
      /\ helloAt' = [helloAt EXCEPT ![c] = None]
      /\ UNCHANGED <<ended, up, phase, released, store, queue, inflight>>
      /\ Shape /\ ClientInv(c) /\ helloAt[c] \in Nat \cup {None} /\ up[c] \in Seq(Request)
  BY DEF AnswerHello, client, SessionInv, Shape
<1>2. /\ log' \in Seq(LogEntry) /\ Prefix(log, log') /\ (started => log' = log)
      /\ (started' \/ ended) /\ (started => started') /\ (~started' => log' = log)
  <2>1. CASE ended
    BY <1>1, <2>1 DEF AnswerHello, Shape, Prefix
  <2>2. CASE ~ended
    <3>1. started' /\ log' = StartedLog
      BY <2>2 DEF AnswerHello
    <3> QED
      BY <3>1, StartedLogFacts
  <2> QED
    BY <2>1, <2>2
<1>3. phase[c] \in {"hello", "connected"}
  BY <1>1 DEF ClientInv, Ends, Shape, Phases
<1>4. ~started => up[c] = << >>
  BY <1>1 DEF ClientInv, Before
<1>5. /\ \E wire \in Seq(Message) : down' = [down EXCEPT ![c] = wire]
      /\ \E p \in {"none", "live"} : sock' = [sock EXCEPT ![c] = p]
      /\ ClientInv(c)'
  BY <1>1, <1>2, <1>3, <1>4, Answering
<1>6. Shape' /\ \A d \in Clients \ {c} : Same(d)
  BY <1>1, <1>2, <1>5 DEF Shape, Same
<1>7. ASSUME NEW d \in Clients \ {c}
      PROVE  ClientInv(d)'
  BY <1>1, <1>2, <1>6, Growing DEF SessionInv
<1> QED
  BY <1>5, <1>6, <1>7 DEF SessionInv

LEMMA OrphanStartsKeeps ==
  ASSUME SessionInv, OrphanStarts
  PROVE  SessionInv'
<1>1. /\ UNCHANGED <<ended, sock, helloAt, up, down, phase, released, store, queue, inflight>>
      /\ Shape
  BY DEF OrphanStarts, net, client, SessionInv
<1>2. CASE ended
  <2>1. UNCHANGED <<started, log>>
    BY <1>2 DEF OrphanStarts
  <2>2. Shape' /\ \A d \in Clients : Same(d)
    BY <1>1, <2>1 DEF Shape, Same
  <2> QED
    BY <2>1, <2>2, Untouched DEF SessionInv
<1>3. CASE ~ended
  <2>1. started' /\ log' = StartedLog
    BY <1>3 DEF OrphanStarts
  <2>2. ASSUME NEW d \in Clients
        PROVE  ClientInv(d)' /\ log' \in Seq(LogEntry)
    <3>1. log' \in Seq(LogEntry) /\ Prefix(log, log') /\ (started => log' = log)
      BY <2>1, StartedLogFacts
    <3>2. Same(d) /\ ClientInv(d)
      BY <1>1 DEF Same, SessionInv
    <3> QED
      BY <1>1, <2>1, <3>1, <3>2, Growing
  <2>3. log' \in Seq(LogEntry)
    <3>1. StartedLog = log \/ StartedLog = <<[kind |-> "game_start", by |-> None]>>
      BY DEF StartedLog
    <3>2. <<[kind |-> "game_start", by |-> None]>> \in Seq(LogEntry)
      BY DEF LogEntry
    <3> QED
      BY <1>1, <2>1, <3>1, <3>2 DEF Shape
  <2>4. Shape'
    BY <1>1, <2>3 DEF Shape
  <2> QED
    BY <2>2, <2>4 DEF SessionInv
<1> QED
  BY <1>2, <1>3

LEMMA SequenceActionKeeps ==
  ASSUME SessionInv, NEW c \in Clients, SequenceAction(c)
  PROVE  SessionInv'
<1> DEFINE entry == [kind |-> "action", by |-> c]
           entries == <<entry>>
<1>1. /\ sock[c] \in {"awaiting", "live"} /\ up[c] # << >> /\ up' = [up EXCEPT ![c] = Tail(up[c])]
      /\ log' = Append(log, entry) /\ Broadcast(<<Ordered(last + 1, entry)>>)
      /\ UNCHANGED <<started, sock, helloAt, phase, released, store, queue, inflight>>
      /\ Shape /\ ClientInv(c) /\ up[c] \in Seq(Request) /\ log \in Seq(LogEntry)
  BY DEF SequenceAction, client, SessionInv, Shape
<1>2. started
  BY <1>1 DEF ClientInv, Before
<1>3. /\ entry \in LogEntry /\ entries \in Seq(LogEntry) /\ entries # << >>
      /\ Len(entries) = 1 /\ entries[1] = entry /\ last \in Nat
  BY <1>1 DEF LogEntry, last
<1>4. log' = log \o entries
  BY <1>1, <1>3
<1>5. <<Ordered(last + 1, entry)>> = OrderedFrom(entries, last)
  <2> DEFINE s == <<Ordered(last + 1, entry)>>
             t == OrderedFrom(entries, last)
  <2> HIDE DEF entry, entries
  <2>1. t \in Seq(Message) /\ Len(t) = 1 /\ t[1] = Ordered(last + 1, entry) /\ t[1] \in Message
    BY <1>3, OrderedFromFacts
  <2>2. s \in Seq(Message) /\ Len(s) = 1 /\ s[1] = Ordered(last + 1, entry)
    <3>1. Ordered(last + 1, entry) \in Message
      BY <2>1
    <3> QED
      BY <3>1
  <2> HIDE DEF s, t
  <2>3. s = t
    BY <2>1, <2>2, SeqEqual
  <2> QED
    BY <2>3 DEF s, t
<1>6. Broadcast(OrderedFrom(entries, last))
  BY <1>1, <1>5
<1> HIDE DEF entry, entries
<1>7. ASSUME NEW d \in Clients
      PROVE  /\ down'[d] \in Seq(Message) /\ log' \in Seq(LogEntry)
             /\ Truthful(d)' /\ Half(d)' /\ Before(d)' /\ Led(d)'
  <2>1. ClientInv(d)
    BY DEF SessionInv
  <2> QED
    BY <1>1, <1>2, <1>3, <1>4, <1>6, <2>1, Broadcasting
<1>8. Tail(up[c]) \in Seq(Request)
  BY <1>1, HeadTailProperties
<1>9. Shape'
  <2>1. down' = [d \in Clients |-> down'[d]]
    BY <1>6 DEF Broadcast
  <2>2. down' \in [Clients -> Seq(Message)] /\ log' \in Seq(LogEntry)
    BY <1>7, <2>1
  <2> QED
    BY <1>1, <1>8, <2>2 DEF Shape
<1>10. ASSUME NEW d \in Clients
       PROVE  Ends(d)'
  <2>1. CASE d = c
    BY <1>1, <2>1 DEF ClientInv, Ends
  <2>2. CASE d # c
    <3>1. up'[d] = up[d] /\ ClientInv(d)
      BY <1>1, <2>2 DEF Shape, SessionInv
    <3> QED
      BY <1>1, <3>1 DEF ClientInv, Ends
  <2> QED
    BY <2>1, <2>2
<1> QED
  BY <1>7, <1>9, <1>10 DEF SessionInv, ClientInv

LEMMA EndRoomKeeps ==
  ASSUME SessionInv, EndRoom
  PROVE  SessionInv'
<1> DEFINE told == [type |-> "room_ended"]
<1>1. /\ down' = [d \in Clients |-> IF sock[d] = "none" THEN down[d] ELSE Append(down[d], told)]
      /\ sock' = [d \in Clients |-> "none"] /\ helloAt' = [d \in Clients |-> None]
      /\ up' = [d \in Clients |-> << >>]
      /\ UNCHANGED <<started, log, phase, released, store, queue, inflight>> /\ Shape
  BY DEF EndRoom, client, SessionInv
<1>2. told \in Message /\ TrueTo(told, log) /\ told.type = "room_ended"
  BY DEF Message, TrueTo
<1> HIDE DEF told
<1>3. ASSUME NEW d \in Clients
      PROVE  /\ down'[d] \in Seq(Message)
             /\ \A i \in 1 .. Len(down'[d]) :
                  \/ i \in 1 .. Len(down[d]) /\ down'[d][i] = down[d][i]
                  \/ down'[d][i] = told
  BY <1>1, <1>2 DEF Shape
<1>4. Shape'
  <2>1. << >> \in Seq(Request)
    OBVIOUS
  <2> QED
    BY <1>1, <1>2, <2>1 DEF Shape
<1>5. ASSUME NEW d \in Clients
      PROVE  ClientInv(d)'
  <2>1. sock'[d] = "none" /\ up'[d] = << >> /\ ClientInv(d)
    BY <1>1 DEF SessionInv
  <2>2. Truthful(d)'
    BY <1>1, <1>2, <1>3, <2>1 DEF ClientInv, Truthful
  <2>3. Before(d)'
    BY <1>1, <1>2, <1>3, <2>1 DEF ClientInv, Before
  <2>4. Half(d)' /\ Ends(d)' /\ Led(d)'
    BY <1>1, <2>1 DEF ClientInv, Half, Ends, Led
  <2> QED
    BY <2>2, <2>3, <2>4 DEF ClientInv
<1> QED
  BY <1>4, <1>5 DEF SessionInv

-----------------------------------------------------------------------------
LEMMA SessionStepKeeps == SessionInv /\ [SessionNext]_sessionVars => SessionInv'
<1> SUFFICES ASSUME SessionInv, [SessionNext]_sessionVars
             PROVE  SessionInv'
  OBVIOUS
<1>1. CASE UNCHANGED sessionVars
  <2>1. UNCHANGED <<started, log>> /\ \A d \in Clients : Same(d)
    BY <1>1 DEF sessionVars, room, net, client, Same
  <2>2. Shape'
    BY <1>1 DEF SessionInv, Shape, sessionVars, room, net, client
  <2> QED
    BY <2>1, <2>2, Untouched DEF SessionInv
<1>2. ASSUME NEW c \in Clients, RoomStep(c) \/ ClientStep(c) \/ Join(c) \/ Act(c) \/ Drop(c)
      PROVE  SessionInv'
  <2>1. CASE RoomStep(c)
    BY <2>1, ReceiveHelloKeeps, AnswerHelloKeeps, SequenceActionKeeps DEF RoomStep
  <2>2. CASE ClientStep(c)
    BY <2>2, ReconnectKeeps, OpenKeeps, LoadedKeeps, LoadedLateKeeps, ReceiveKeeps DEF ClientStep
  <2> QED
    BY <1>2, <2>1, <2>2, JoinKeeps, ActKeeps, DropKeeps
<1>3. ASSUME NEW c \in Clients, ScriptedStep(c)
      PROVE  SessionInv'
  BY <1>3, EnqueueKeeps, HandleQueuedKeeps, CommitQueuedKeeps DEF ScriptedStep
<1> QED
  BY <1>1, <1>2, <1>3, OrphanStartsKeeps, EndRoomKeeps DEF SessionNext, PlainNext

LEMMA InvFollows == SessionInv => ReplicasFollow
<1> SUFFICES ASSUME SessionInv
             PROVE  ReplicasFollow
  OBVIOUS
<1>1. ReplicasArePrefixes
  <2> SUFFICES ASSUME NEW c \in Clients, store[c] # None
               PROVE  store[c].applied = SubSeq(log, 1, SequenceOf(store[c]))
    BY DEF ReplicasArePrefixes
  <2> DEFINE s == store[c].applied
             n == Len(s)
             t == SubSeq(log, 1, n)
  <2>1. s \in Seq(LogEntry) /\ n \in Nat /\ n <= Len(log) /\ log \in Seq(LogEntry)
        /\ \A i \in 1 .. n : s[i] = log[i]
    BY DEF SessionInv, Shape, ReplicaState, ClientInv, Truthful, Prefix
  <2>2. \A i \in 1 .. n : log[i] \in LogEntry /\ 1 + i - 1 = i
    BY <2>1
  <2>3. /\ t \in Seq(LogEntry) /\ Len(t) = IF 1 <= n THEN n - 1 + 1 ELSE 0
        /\ \A i \in 1 .. n - 1 + 1 : t[i] = log[1 + i - 1]
    BY <2>1, <2>2, SubSeqProperties
  <2>4. Len(t) = n /\ \A i \in 1 .. n : s[i] = t[i]
    BY <2>1, <2>2, <2>3
  <2> HIDE DEF t
  <2>5. s = t
    BY <2>1, <2>3, <2>4, SeqEqual
  <2> QED
    BY <2>5 DEF t, SequenceOf
<1>2. NoMissedUpdate
  BY DEF NoMissedUpdate, Quiet, SessionInv, ClientInv, Led
<1> QED
  BY <1>1, <1>2 DEF ReplicasFollow

-----------------------------------------------------------------------------
\* What a client's store has applied is always a gap-free prefix of the room's log, and a
\* client that holds the room's snapshot and has nothing left to receive has applied all
\* of it: through lost sockets, reconnects, resyncs, releases that arrive late and
\* scripts that finish late.  (RoomClient.handle and KernelStore's sequence checks against
\* RoomDO's hello replies and broadcasts.)
THEOREM ReplicasAlwaysFollow == SessionSpec => []ReplicasFollow
<1>1. SessionInit => SessionInv
  BY InitSession
<1>2. SessionInv /\ [SessionNext]_sessionVars => SessionInv'
  BY SessionStepKeeps
<1>3. SessionInv => ReplicasFollow
  BY InvFollows
<1> QED
  BY <1>1, <1>2, <1>3, PTL DEF SessionSpec
=============================================================================
