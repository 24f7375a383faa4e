----------------------------- MODULE RoomSession -----------------------------
(***************************************************************************)
(* One room and its browser clients over sockets that may be lost at any   *)
(* moment: RoomDO's hello, sequencing and broadcast on one side            *)
(* (apps/worker/src/index.ts, message-handler.ts), RoomClient and          *)
(* KernelStore on the other (apps/web/src/net/roomClient.ts,               *)
(* state/kernelStore.ts).                                                  *)
(*                                                                         *)
(* A replica's state is the snapshot it started from and the actions it    *)
(* has applied since sequence 0.  The room's own sequence-zero snapshot is *)
(* seeded with the roster and differs from the release's, which a client   *)
(* loads before its first hello.                                           *)
(***************************************************************************)
EXTENDS Integers, Sequences, FiniteSets

CONSTANTS
  Clients,        \* players, each with one browser client
  Scripted,       \* the release runs Lua: messages are handled from a queue
  Retention,      \* ACTION_RETENTION
  MaxAttempts,    \* MAX_RECONNECT_ATTEMPTS
  MaxLog,         \* bound: length of the log
  MaxDrops,       \* bound: connections the network loses
  None            \* null

\* An action of the log, and what a KernelStore holds.
LogEntry ==
  [kind : {"player_joined", "seat_assign", "game_start", "action"}, by : Clients \cup {None}]
ReplicaState == [base : {"release", "room"}, applied : Seq(LogEntry)]

ASSUME SessionAssumption ==
  /\ Scripted \in BOOLEAN
  /\ Retention \in Nat \ {0} /\ MaxAttempts \in Nat
  /\ MaxLog \in Nat /\ MaxDrops \in Nat
  /\ None \notin Nat /\ None \notin ReplicaState

VARIABLES
  \* the room
  started, ended,
  log,            \* the ordered actions
  orphan,         \* a hello whose socket is gone is still loading the release
  sock,           \* the server's end of each client's current connection
  helloAt,        \* lastSequence of the hello being answered
  \* the wires of the current connection
  up, down,
  \* the clients
  phase,          \* what RoomClient is doing
  attempt,        \* reconnectAttempt
  full,           \* forceFullResync
  resync,         \* the resync argument of the current connect()
  released,       \* releaseLoaded
  staleLoads,     \* bundle requests whose connection is gone
  store,          \* KernelStore's confirmed state
  queue,          \* scriptedMessageQueue
  inflight,       \* result of the script application being awaited
  drops

room == <<started, ended, log, orphan>>
net == <<sock, helloAt, up, down>>
client == <<phase, attempt, full, resync, released, staleLoads, store, queue, inflight>>
sessionVars == <<room, net, client, drops>>

-----------------------------------------------------------------------------
last == Len(log)

ReleaseState == [base |-> "release", applied |-> << >>]
SequenceOf(state) == Len(state.applied)

Apply(state, entries) == [state EXCEPT !.applied = @ \o entries]

Ordered(n, entry) == [type |-> "ordered_action", sequence |-> n, entry |-> entry]
OrderedFrom(entries, n) == [i \in 1 .. Len(entries) |-> Ordered(n + i, entries[i])]

\* broadcast: to every authenticated socket, bootstrapped or not.
Broadcast(messages) ==
  down' = [c \in Clients |->
             IF sock[c] \in {"awaiting", "live"} THEN down[c] \o messages ELSE down[c]]

-----------------------------------------------------------------------------
SessionInit ==
  /\ started = FALSE /\ ended = FALSE /\ log = << >> /\ orphan = FALSE
  /\ sock = [c \in Clients |-> "none"] /\ helloAt = [c \in Clients |-> None]
  /\ up = [c \in Clients |-> << >>] /\ down = [c \in Clients |-> << >>]
  /\ phase = [c \in Clients |-> "outside"]
  /\ attempt = [c \in Clients |-> 0]
  /\ full = [c \in Clients |-> FALSE] /\ resync = [c \in Clients |-> FALSE]
  /\ released = [c \in Clients |-> FALSE] /\ staleLoads = [c \in Clients |-> 0]
  /\ store = [c \in Clients |-> None]
  /\ queue = [c \in Clients |-> << >>] /\ inflight = [c \in Clients |-> None]
  /\ drops = 0

-----------------------------------------------------------------------------
(* The client's connection. *)

\* Fault: what the lost socket still had to deliver is handled all the same.
CloseSocket_KeepsMessages(c) ==
  /\ sock' = [sock EXCEPT ![c] = "none"]
  /\ helloAt' = [helloAt EXCEPT ![c] = None]
  /\ up' = [up EXCEPT ![c] = << >>] /\ UNCHANGED down
  /\ staleLoads' = [staleLoads EXCEPT ![c] = @ + (IF phase[c] = "loading" THEN 1 ELSE 0)]
  /\ orphan' = (orphan \/ (sock[c] = "awaiting" /\ ~started))

\* The socket of client c is gone, however that happened: nothing in transit
\* arrives any more, a bundle request in progress becomes stale, and a hello the
\* room is still answering goes on without a socket.
CloseSocket(c) ==
  /\ sock' = [sock EXCEPT ![c] = "none"]
  /\ helloAt' = [helloAt EXCEPT ![c] = None]
  /\ up' = [up EXCEPT ![c] = << >>]
  /\ down' = [down EXCEPT ![c] = << >>]
  /\ staleLoads' = [staleLoads EXCEPT ![c] = @ + (IF phase[c] = "loading" THEN 1 ELSE 0)]
  /\ orphan' = (orphan \/ (sock[c] = "awaiting" /\ ~started))

\* scheduleReconnect; a reconnect that is already scheduled stands.
ScheduleReconnect(c) ==
  IF phase[c] \in {"waiting", "failed", "ended"} THEN UNCHANGED <<phase, attempt>>
  ELSE IF attempt[c] >= MaxAttempts
  THEN phase' = [phase EXCEPT ![c] = "failed"] /\ UNCHANGED attempt
  ELSE /\ phase' = [phase EXCEPT ![c] = "waiting"]
       /\ attempt' = [attempt EXCEPT ![c] = @ + 1]

\* recoverFromGap.
Recover(c, fullResync) ==
  /\ CloseSocket(c)
  /\ ScheduleReconnect(c)
  /\ full' = [full EXCEPT ![c] = @ \/ fullResync]
  /\ released' = [released EXCEPT ![c] = @ /\ ~fullResync]
  /\ UNCHANGED <<started, ended, log, resync, drops>>

\* The network loses the connection.
Drop(c) ==
  /\ phase[c] \in {"connecting", "loading", "hello", "connected"}
  /\ drops < MaxDrops
  /\ drops' = drops + 1
  /\ CloseSocket(c)
  /\ ScheduleReconnect(c)
  /\ UNCHANGED <<started, ended, log, full, resync, released, store, queue, inflight>>

\* The reconnect timer fires: connect(forceFullResync).
Reconnect(c) ==
  /\ phase[c] = "waiting"
  /\ phase' = [phase EXCEPT ![c] = "connecting"]
  /\ resync' = [resync EXCEPT ![c] = full[c]]
  /\ full' = [full EXCEPT ![c] = FALSE]
  /\ UNCHANGED <<room, net, attempt, released, staleLoads, store, queue, inflight, drops>>

\* Fault: a resync asks the room for the actions after what the store holds.
LastSequence_IgnoresResync(c, state) ==
  IF attempt[c] = 0 THEN None ELSE SequenceOf(state)

\* The lastSequence of the hello that opened() sends when the store holds state.
LastSequence(c, state) ==
  IF attempt[c] = 0 \/ resync[c] \/ state = None THEN None ELSE SequenceOf(state)

SendHello(c, state) ==
  /\ phase' = [phase EXCEPT ![c] = "hello"]
  /\ up' = [up EXCEPT ![c] = Append(@, [type |-> "hello", at |-> LastSequence(c, state)])]

\* The socket opens; the release is fetched first unless it is already loaded.
Open(c) ==
  /\ phase[c] = "connecting"
  /\ sock' = [sock EXCEPT ![c] = "open"]
  /\ IF ~released[c] \/ resync[c]
     THEN phase' = [phase EXCEPT ![c] = "loading"] /\ UNCHANGED up
     ELSE SendHello(c, store[c])
  /\ UNCHANGED <<room, helloAt, down, attempt, full, resync, released, staleLoads,
                 store, queue, inflight, drops>>

\* The bundle arrives: loadRelease puts the release's snapshot in the store.
LoadRelease(c) ==
  /\ store' = [store EXCEPT ![c] = ReleaseState]
  /\ released' = [released EXCEPT ![c] = TRUE]

Loaded(c) ==
  /\ phase[c] = "loading"
  /\ LoadRelease(c)
  /\ SendHello(c, ReleaseState)
  /\ UNCHANGED <<room, sock, helloAt, down, attempt, full, resync, staleLoads,
                 queue, inflight, drops>>

\* opened() of a connection that is gone resumes after its await: it loads the
\* release all the same and only then notices that its socket was replaced.
LoadedLate(c) ==
  /\ staleLoads[c] > 0
  /\ staleLoads' = [staleLoads EXCEPT ![c] = @ - 1]
  /\ LoadRelease(c)
  /\ UNCHANGED <<room, net, phase, attempt, full, resync, queue, inflight, drops>>

-----------------------------------------------------------------------------
(* The client's handling of one message. *)

\* The handshake is complete: status "connected", reconnectAttempt = 0.
Connected(c) ==
  /\ phase' = [phase EXCEPT ![c] = IF @ \in {"hello", "connected"} THEN "connected" ELSE @]
  /\ attempt' = [attempt EXCEPT ![c] = 0]

\* Fault: a message ahead of the store is applied as if nothing were missing.
Follows_NoGapCheck(state, n) == state # None /\ n > SequenceOf(state)

\* applyOrdered and applyResume accept only the next sequence.
Follows(state, n) == state # None /\ n = SequenceOf(state) + 1

\* Handling ends with the store holding state and the wire what is left of it.
Keeps(c, state, wire) ==
  /\ store' = [store EXCEPT ![c] = state]
  /\ down' = [down EXCEPT ![c] = wire]
  /\ UNCHANGED <<room, sock, helloAt, up, full, resync, released, staleLoads, drops>>

\* RoomClient.handle: the message m, with wire still to be received after it.
Handle(c, m, wire) ==
  \/ /\ m.type = "bootstrap"
     /\ Keeps(c, m.snapshot, wire) /\ Connected(c)
  \/ /\ m.type = "resume"
     /\ IF Follows(store[c], m.from)
        THEN Keeps(c, Apply(store[c], m.entries), wire) /\ Connected(c)
        ELSE Recover(c, FALSE) /\ UNCHANGED store
  \/ /\ m.type = "ordered_action"
     /\ IF Follows(store[c], m.sequence)
        THEN Keeps(c, Apply(store[c], <<m.entry>>), wire) /\ UNCHANGED <<phase, attempt>>
        ELSE Recover(c, FALSE) /\ UNCHANGED store
  \/ /\ m.type = "resync_required"
     /\ Recover(c, TRUE) /\ UNCHANGED store
  \/ /\ m.type \in {"room_ended", "protocol_error"}
     /\ CloseSocket(c)
     /\ phase' = [phase EXCEPT ![c] = IF m.type = "room_ended" THEN "ended" ELSE "failed"]
     /\ UNCHANGED <<started, ended, log, attempt, full, resync, released, store, drops>>

Listening(c) == phase[c] \in {"loading", "hello", "connected"} /\ down[c] # << >>

\* A game without scripts handles a message as it arrives.
Receive(c) ==
  /\ ~Scripted /\ Listening(c)
  /\ Handle(c, Head(down[c]), Tail(down[c]))
  /\ UNCHANGED <<queue, inflight>>

\* A scripted game queues it behind the handling in progress.  The queue does
\* not belong to a connection: it survives reconnects.
Enqueue(c) ==
  /\ Scripted /\ Listening(c)
  /\ queue' = [queue EXCEPT ![c] = Append(@, Head(down[c]))]
  /\ down' = [down EXCEPT ![c] = Tail(@)]
  /\ UNCHANGED <<room, sock, helloAt, up, phase, attempt, full, resync, released,
                 staleLoads, store, inflight, drops>>

\* Each action runs its scripts asynchronously: the result is computed from the
\* state before the await and committed over whatever the store holds after it.
IsActions(m) == m.type = "ordered_action" \/ (m.type = "resume" /\ m.entries # << >>)
FirstEntry(m) == IF m.type = "resume" THEN m.entries[1] ELSE m.entry
FirstSequence(m) == IF m.type = "resume" THEN m.from ELSE m.sequence
RestOf(m) == [type |-> "resume", from |-> m.from + 1, entries |-> Tail(m.entries)]

Busy(c) == Scripted /\ queue[c] # << >>

Dequeue(c) == queue' = [queue EXCEPT ![c] = Tail(@)]

HandleQueued(c) ==
  LET m == Head(queue[c])
  IN  /\ Busy(c) /\ inflight[c] = None
      /\ IF IsActions(m) /\ Follows(store[c], FirstSequence(m))
         THEN /\ inflight' = [inflight EXCEPT ![c] = Apply(store[c], <<FirstEntry(m)>>)]
              /\ UNCHANGED <<room, net, phase, attempt, full, resync, released, staleLoads,
                             store, queue, drops>>
         ELSE /\ Handle(c, m, down[c])
              /\ Dequeue(c) /\ UNCHANGED inflight

\* The rest of a resume goes on with the store as it is then; only its end
\* completes the handshake.
CommitQueued(c) ==
  LET m == Head(queue[c])
  IN  /\ Busy(c) /\ inflight[c] # None
      /\ inflight' = [inflight EXCEPT ![c] = None]
      /\ Keeps(c, inflight[c], down[c])
      /\ IF m.type = "ordered_action" THEN Dequeue(c) /\ UNCHANGED <<phase, attempt>>
         ELSE IF Len(m.entries) = 1 THEN Dequeue(c) /\ Connected(c)
         ELSE /\ queue' = [queue EXCEPT ![c] = <<RestOf(m)>> \o Tail(@)]
              /\ UNCHANGED <<phase, attempt>>

\* A player acts; the controls are live only while the status is connected.
Act(c) ==
  /\ phase[c] = "connected"
  /\ last + Cardinality({d \in Clients : up[d] # << >>}) < MaxLog
  /\ up[c] = << >>
  /\ up' = [up EXCEPT ![c] = Append(@, [type |-> "action_request"])]
  /\ UNCHANGED <<room, sock, helloAt, down, client, drops>>

-----------------------------------------------------------------------------
(* The room. *)

\* The HTTP join: a seat and, in a started room, its two actions.  The client
\* then opens its first connection (RoomClient.start).
Join(c) ==
  LET entries == <<[kind |-> "player_joined", by |-> c], [kind |-> "seat_assign", by |-> c]>>
  IN  /\ phase[c] = "outside" /\ ~ended
      /\ phase' = [phase EXCEPT ![c] = "connecting"]
      /\ IF started
         THEN /\ last + 2 <= MaxLog
              /\ log' = log \o entries
              /\ Broadcast(OrderedFrom(entries, last))
         ELSE UNCHANGED <<log, down>>
      /\ UNCHANGED <<started, ended, orphan, sock, helloAt, up, attempt, full, resync,
                     released, staleLoads, store, queue, inflight, drops>>

\* startIfNeeded, after its await.
StartedLog == IF started THEN log ELSE <<[kind |-> "game_start", by |-> None]>>

\* The reply, computed and sent in one go from a log entries.  When the initial
\* snapshot has left the window a checkpoint in the window is the base.
Bases(entries) ==
  IF Len(entries) <= Retention THEN {0} ELSE Len(entries) - Retention .. Len(entries)

BootstrapMessage(entries, base) ==
  [type |-> "bootstrap", snapshot |-> [base |-> "room", applied |-> SubSeq(entries, 1, base)]]

\* Fault: the snapshot is sent without the actions after it.
BootstrapFrom_NoTail(entries, base) == <<BootstrapMessage(entries, base)>>

BootstrapFrom(entries, base) ==
  <<BootstrapMessage(entries, base)>> \o OrderedFrom(SubSeq(entries, base + 1, Len(entries)), base)

Replies(at, entries) ==
  IF ended THEN {<<[type |-> "room_ended"]>>}
  ELSE IF at = None THEN {BootstrapFrom(entries, base) : base \in Bases(entries)}
  ELSE IF at > Len(entries) THEN {<<[type |-> "protocol_error"]>>}
  ELSE IF at < Len(entries) - Retention THEN {<<[type |-> "resync_required"]>>}
  ELSE {<<[type |-> "resume", from |-> at + 1, entries |-> SubSeq(entries, at + 1, Len(entries))]>>}

\* A socket that was sent resync_required stays open and authenticated.
Answer(c, at, entries) ==
  /\ \E reply \in Replies(at, entries) : down' = [down EXCEPT ![c] = @ \o reply]
  /\ sock' = [sock EXCEPT ![c] = IF ended THEN "none" ELSE "live"]

\* The room reads a hello.  In a room that has started, or ended, nothing comes
\* between the socket's authentication and the reply; otherwise the authenticated
\* socket awaits the snapshot of the uploaded release.
ReceiveHello(c) ==
  /\ sock[c] = "open" /\ up[c] # << >>
  /\ up' = [up EXCEPT ![c] = Tail(@)]
  /\ IF started \/ ended
     THEN Answer(c, Head(up[c]).at, log) /\ UNCHANGED helloAt
     ELSE /\ sock' = [sock EXCEPT ![c] = "awaiting"]
          /\ helloAt' = [helloAt EXCEPT ![c] = Head(up[c]).at]
          /\ UNCHANGED down
  /\ UNCHANGED <<room, client, drops>>

AnswerHello(c) ==
  /\ sock[c] = "awaiting"
  /\ IF ended THEN UNCHANGED <<started, log>> ELSE started' = TRUE /\ log' = StartedLog
  /\ Answer(c, helloAt[c], log')
  /\ helloAt' = [helloAt EXCEPT ![c] = None]
  /\ UNCHANGED <<ended, orphan, up, client, drops>>

\* The await of a hello whose socket closed meanwhile ends too.
OrphanStarts ==
  /\ orphan
  /\ orphan' = FALSE
  /\ IF ended THEN UNCHANGED <<started, log>> ELSE started' = TRUE /\ log' = StartedLog
  /\ UNCHANGED <<ended, net, client, drops>>

\* An action request: sequenced and broadcast.
SequenceAction(c) ==
  LET entry == [kind |-> "action", by |-> c]
  IN  /\ sock[c] \in {"awaiting", "live"} /\ up[c] # << >>
      /\ log' = Append(log, entry)
      /\ up' = [up EXCEPT ![c] = Tail(@)]
      /\ Broadcast(<<Ordered(last + 1, entry)>>)
      /\ UNCHANGED <<started, ended, orphan, sock, helloAt, client, drops>>

\* RoomDO.end: every open socket is told and closed.
EndRoom ==
  /\ ~ended /\ ended' = TRUE
  /\ down' = [c \in Clients |-> IF sock[c] = "none" THEN down[c]
                                ELSE Append(down[c], [type |-> "room_ended"])]
  /\ sock' = [c \in Clients |-> "none"]
  /\ orphan' = (orphan \/ (~started /\ \E c \in Clients : sock[c] = "awaiting"))
  /\ helloAt' = [c \in Clients |-> None]
  /\ up' = [c \in Clients |-> << >>]
  /\ UNCHANGED <<started, log, client, drops>>

-----------------------------------------------------------------------------
RoomStep(c) == ReceiveHello(c) \/ AnswerHello(c) \/ SequenceAction(c)

ClientStep(c) == Reconnect(c) \/ Open(c) \/ Loaded(c) \/ LoadedLate(c) \/ Receive(c)

ScriptedStep(c) == Enqueue(c) \/ HandleQueued(c) \/ CommitQueued(c)

\* Without scripts nothing is queued.
PlainNext ==
  \/ \E c \in Clients : RoomStep(c) \/ ClientStep(c) \/ Join(c) \/ Act(c) \/ Drop(c)
  \/ OrphanStarts
  \/ EndRoom

SessionNext == PlainNext \/ \E c \in Clients : ScriptedStep(c)

SessionSpec == SessionInit /\ [][SessionNext]_sessionVars

-----------------------------------------------------------------------------
\* Nothing is on its way to client c and nothing is being handled.
Quiet(c) ==
  /\ phase[c] = "connected" /\ sock[c] = "live"
  /\ down[c] = << >> /\ queue[c] = << >> /\ inflight[c] = None

\* What a client has applied is a gap-free prefix of the room's log, whatever
\* mix of bootstraps, resumes, broadcasts and half-handled messages produced
\* it.  (Sequence checks of kernelStore.ts against the room's replies.)
ReplicasArePrefixes ==
  \A c \in Clients : store[c] # None =>
    store[c].applied = SubSeq(log, 1, SequenceOf(store[c]))

\* No update is missed around a handshake: a client that holds the room's
\* snapshot and has nothing left to receive is at the head of the log.
\* (hello computed, sent and marked bootstrapped against broadcast.)
NoMissedUpdate ==
  \A c \in Clients : Quiet(c) /\ store[c].base = "room" => SequenceOf(store[c]) = last

\* Replicas neither leave the room's log nor fall behind it unnoticed.
\* (Every path by which a message reaches a KernelStore.)
ReplicasFollow == ReplicasArePrefixes /\ NoMissedUpdate

\* Every client that shows a connected, idle table shows the same table.
\* (README.md: "every healthy client converges to an identical state hash".)
HealthyClientsConverge ==
  \A c, d \in Clients : Quiet(c) /\ Quiet(d) => store[c] = store[d]

\* A client that lost its place gets back to the table, unless the room ends:
\* a single lost connection never uses up the attempts it has left.
\* (scheduleReconnect, connect, opened against hello and resync_required.)
ReconnectSucceeds ==
  \A c \in Clients : phase[c] = "waiting" ~> phase[c] \in {"connected", "ended"}

\* A connected, idle table is at the head of the log.
QuietClientsAreCurrent ==
  \A c \in Clients : Quiet(c) => SequenceOf(store[c]) = last

=============================================================================
