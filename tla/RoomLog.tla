------------------------------- MODULE RoomLog -------------------------------
(***************************************************************************)
(* The ordered action log of one room: the part of the RoomDO Durable      *)
(* Object (apps/worker/src/index.ts) and of its RoomCore helper            *)
(* (apps/worker/src/room-core.ts) that sequences actions, remembers        *)
(* request ids, trims the replay window, keeps a checkpoint and answers a  *)
(* (re)connecting client.                                                  *)
(*                                                                         *)
(* A storage transaction of the Durable Object is one step: it commits as  *)
(* a whole or, when the code inside throws, changes nothing, so a throw is *)
(* a guard here.  A snapshot is represented by the sequence it stands at.  *)
(***************************************************************************)
EXTENDS Integers, Sequences, FiniteSets

CONSTANTS
  Requests,     \* client request ids; an id may be sent again at any time
  Players,      \* players that may join
  Timers,       \* canonical timers that may come due
  Retention,    \* ACTION_RETENTION, 500 in the code
  Interval,     \* CHECKPOINT_INTERVAL, 200 in the code
  MaxBatch,     \* most timers one alarm finds due (the code has no such limit)
  MaxSequence   \* Number.MAX_SAFE_INTEGER, where sequencing throws

\* http.ts requires INTERVAL < RETENTION.  The batch term is what keeps the
\* last checkpoint inside the window when one alarm sequences MaxBatch timers
\* or one join sequences two actions.
ASSUME LogAssumption ==
  /\ Retention \in Nat /\ Interval \in Nat /\ MaxBatch \in Nat /\ MaxSequence \in Nat
  /\ Interval > 1 /\ MaxBatch > 1
  /\ Interval + MaxBatch - 1 <= Retention

VARIABLES
  scripted,     \* the release runs Lua, so the worker cannot replay it
  resumed,      \* the room was created from a saved table
  started,      \* room.started
  ended,        \* room.ended_reason # NULL
  joined,       \* rows of the players table
  log,          \* every action ever sequenced, at its sequence
  stored,       \* sequences with a row in the actions table
  dedup,        \* request_dedup: the sequence a request id got, or 0
  fired,        \* canonical_timers rows with status 'fired'
  checkpoint    \* room.checkpoint_sequence, 0 for NULL

vars == <<scripted, resumed, started, ended, joined, log, stored, dedup,
          fired, checkpoint>>

-----------------------------------------------------------------------------
\* The cause of an ordered action is its idempotency key: the request id of a
\* player action, the lifecycle cause of a system action.
Causes == [kind : {"request"}, of : Requests]
            \cup [kind : {"game_start", "game_resumed"}, of : {"room"}]
            \cup [kind : {"player_joined", "seat_assign", "seat_claim"}, of : Players]
            \cup [kind : {"timer_fire"}, of : Timers]

Cause(kind, of) == [kind |-> kind, of |-> of]

last == Len(log)

\* room.initial_snapshot is written when the room starts, or, for a resumed
\* room, when it is created.
HasInitial == started \/ resumed
RoomIsScripted == HasInitial /\ scripted

-----------------------------------------------------------------------------
\* Fault: the window keeps one row too many.
Window_OneTooMany(rows, n) == {i \in rows : i >= n - Retention}

\* What RoomCore sees of a log that ends at n when the table holds rows s.
Window(rows, n) == {i \in rows : i > n - Retention}
RetentionFloor(rows, n) ==
  IF Window(rows, n) = {} THEN n + 1
  ELSE CHOOSE i \in Window(rows, n) : \A j \in Window(rows, n) : i <= j
CheckpointBaseConnects(base, rows, n) ==
  RetentionFloor(rows, n) - 1 <= base /\ base <= n

\* assertState, run whenever the core is loaded.
CoreLoads ==
  LET win == Window(stored, last)
  IN  /\ Cardinality(win) <= Retention
      /\ win = (last - Cardinality(win) + 1) .. last
      /\ \A i, j \in win : log[i] = log[j] => i = j

\* The answer to a hello that carries lastSequence = n.
ResumeAfter(n) ==
  IF n \notin 0 .. last THEN [type |-> "invalid_sequence", actions |-> {}]
  ELSE IF n < RetentionFloor(stored, last) - 1
       THEN [type |-> "resync_required", actions |-> {}]
       ELSE [type |-> "resume", actions |-> {i \in Window(stored, last) : i > n}]

\* The answer to a hello that carries lastSequence = null: a base snapshot and
\* the tail of actions after it.
Bootstrap ==
  LET tail(base, rows) == [type |-> "bootstrap", base |-> base,
                           actions |-> {i \in rows : i > base}]
      full == tail(checkpoint, stored)
  IN  IF ResumeAfter(0).type = "resume" THEN tail(0, Window(stored, last))
      ELSE IF RoomIsScripted
      THEN IF full.actions = checkpoint + 1 .. last THEN full
           ELSE [type |-> "bootstrap_unavailable", base |-> 0, actions |-> {}]
      ELSE IF checkpoint # 0 /\ ResumeAfter(checkpoint).type = "resume"
      THEN tail(checkpoint, Window(stored, last))
      ELSE [type |-> "throws", base |-> 0, actions |-> {}]

\* saveSnapshot of an unscripted room: replay the retained tail onto the
\* checkpoint (or onto the initial snapshot); -1 is the outcome 'invalid'.
MechanicalSave ==
  IF {i \in Window(stored, last) : i > checkpoint} = checkpoint + 1 .. last
  THEN last ELSE -1

-----------------------------------------------------------------------------
Init ==
  /\ scripted \in BOOLEAN /\ resumed \in BOOLEAN
  /\ started = FALSE /\ ended = FALSE
  /\ joined = {} /\ fired = {}
  /\ log = << >> /\ stored = {}
  /\ dedup = [r \in Requests |-> 0]
  /\ checkpoint = 0

\* Fault: scripted rooms are trimmed like the others.
Persist_TrimsScripted(n) == Window(stored \cup (last + 1 .. n), n)

\* Insert the rows of the actions sequenced at last+1 .. n; unless the room is
\* known to be scripted, delete the rows that left the window.
Persist(n) ==
  LET rows == stored \cup (last + 1 .. n)
  IN  IF RoomIsScripted THEN rows ELSE Window(rows, n)

\* checkpointIsDue.
CheckpointIsDue(n) == n - checkpoint >= Interval

\* advanceCheckpointIfNeeded after the log has grown to n and its rows to rows.
\* The replay throws when there is no initial snapshot or the tail has a gap.
AdvanceCheckpoint(n, rows) ==
  IF RoomIsScripted \/ ~CheckpointIsDue(n) THEN checkpoint' = checkpoint
  ELSE /\ HasInitial
       /\ IF checkpoint = 0 /\ ~CheckpointBaseConnects(0, rows, n)
          THEN checkpoint' = checkpoint
          ELSE /\ {i \in Window(rows, n) : i > checkpoint} = checkpoint + 1 .. n
               /\ checkpoint' = n

Sequenced(entries) ==
  LET n == last + Len(entries)
  IN  /\ CoreLoads
      /\ n <= MaxSequence
      /\ log' = log \o entries
      /\ stored' = Persist(n)
      /\ AdvanceCheckpoint(n, Persist(n))

-----------------------------------------------------------------------------
\* RoomDO.join: a row in players and, once the room has started, either the
\* claim of a saved seat or the pair player_joined, seat_assign.
JoinEntries(p) ==
  {<<Cause("player_joined", p), Cause("seat_assign", p)>>}
    \cup (IF resumed THEN {<<Cause("seat_claim", p)>>} ELSE {})

Join(p) ==
  /\ ~ended
  /\ p \notin joined
  /\ joined' = joined \cup {p}
  /\ IF started THEN \E entries \in JoinEntries(p) : Sequenced(entries)
     ELSE UNCHANGED <<log, stored, checkpoint>>
  /\ UNCHANGED <<scripted, resumed, started, ended, dedup, fired>>

\* RoomDO.startIfNeeded (and expireLegacyRoom), run by every hello: the first
\* action of the log, unless a player action was sequenced before it, which
\* expires the room.
Start ==
  /\ ~started /\ ~ended
  /\ IF last = 0
     THEN /\ started' = TRUE
          /\ log' = <<Cause(IF resumed THEN "game_resumed" ELSE "game_start", "room")>>
          /\ stored' = Persist(1)
          /\ UNCHANGED ended
     ELSE ended' = TRUE /\ UNCHANGED <<started, log, stored>>
  /\ UNCHANGED <<scripted, resumed, joined, dedup, fired, checkpoint>>

\* RoomDO.sequence: one player action.  A known request id is answered from
\* request_dedup, which trimming never touches, or from the window.
InWindow(cause) == \E i \in Window(stored, last) : log[i] = cause

IsRetry(r) == dedup[r] # 0 \/ InWindow(Cause("request", r))

\* Fault: the mapping is written with the sequence before this action's.
Act_MapsPrevious(r) ==
  /\ ~IsRetry(r)
  /\ Sequenced(<<Cause("request", r)>>)
  /\ dedup' = [dedup EXCEPT ![r] = last]
  /\ UNCHANGED <<scripted, resumed, started, ended, joined, fired>>

Act(r) ==
  /\ ~IsRetry(r)
  /\ Sequenced(<<Cause("request", r)>>)
  /\ dedup' = [dedup EXCEPT ![r] = last + 1]
  /\ UNCHANGED <<scripted, resumed, started, ended, joined, fired>>

\* RoomDO.alarm: all timers found due fire in one transaction, each with the
\* cause timer_fire_<id>, followed by one checkpoint step.  A timer row exists
\* only once the room has started: clients report timers of the running game.
FireTimers(due) ==
  /\ started /\ ~ended
  /\ \A i \in DOMAIN due : due[i] \notin fired /\ ~InWindow(Cause("timer_fire", due[i]))
  /\ Sequenced([i \in DOMAIN due |-> Cause("timer_fire", due[i])])
  /\ fired' = fired \cup {due[i] : i \in DOMAIN due}
  /\ UNCHANGED <<scripted, resumed, started, ended, joined, dedup>>

Batches == UNION {{due \in [1 .. k -> Timers] :
                     \A i, j \in 1 .. k : due[i] = due[j] => i = j} : k \in 1 .. MaxBatch}

\* Fault: a confirmed checkpoint deletes every action it includes.
KeptRows_AfterCheckpoint(n) == {i \in stored : i > n}

\* The rows a checkpoint at n keeps: what lies after it and a window before it.
KeptRows(n) == {i \in stored : i > n - Retention}

\* RoomDO.attestCheckpoint when the attestation of sequence n is confirmed.
ConfirmCheckpoint(n) ==
  /\ started /\ ~ended /\ scripted
  /\ n > checkpoint /\ n % Interval = 0
  /\ CoreLoads /\ CheckpointBaseConnects(n, stored, last)
  /\ checkpoint' = n
  /\ stored' = KeptRows(n)
  /\ UNCHANGED <<scripted, resumed, started, ended, joined, log, dedup, fired>>

\* RoomDO.end: host, moderation or the empty-room expiry.
End ==
  /\ ~ended
  /\ ended' = TRUE
  /\ UNCHANGED <<scripted, resumed, started, joined, log, stored, dedup, fired, checkpoint>>

Next ==
  \/ \E p \in Players : Join(p)
  \/ Start
  \/ \E r \in Requests : Act(r)
  \/ \E due \in Batches : FireTimers(due)
  \/ \E n \in 1 .. last : ConfirmCheckpoint(n)
  \/ End

Spec == Init /\ [][Next]_vars

-----------------------------------------------------------------------------
TypeOK ==
  /\ scripted \in BOOLEAN /\ resumed \in BOOLEAN
  /\ started \in BOOLEAN /\ ended \in BOOLEAN
  /\ joined \subseteq Players /\ fired \subseteq Timers
  /\ log \in Seq(Causes)
  /\ stored \subseteq 1 .. last
  /\ dedup \in [Requests -> 0 .. last]
  /\ checkpoint \in 0 .. last

\* Loading the core never throws: the retained rows are a gap-free suffix of
\* the log with distinct ids, whatever mix of trims and checkpoints ran.
\* (RoomCore's assertState, which every operation of the room goes through.)
CoreAlwaysLoads == CoreLoads

\* A request id and a lifecycle cause keep one canonical sequence for the
\* life of the room, also after the action has left the replay window.
\* (RoomDO.sequence and request_dedup; sequenceSystem's dedup key.)
OneSequencePerCause == \A i, j \in 1 .. last : log[i] = log[j] => i = j

\* A fresh client of a started room can always be bootstrapped, and what it
\* receives is a base and exactly the actions after it: no gap, nothing
\* missing at the head.  (RoomDO's hello with bootstrapPlan and
\* roomBootstrapFromSnapshots; the alternative is bootstrap_unavailable.)
BootstrapReachesHead ==
  started => /\ Bootstrap.type = "bootstrap"
             /\ Bootstrap.actions = Bootstrap.base + 1 .. last

\* A client that missed at most Retention actions resumes with exactly what
\* it missed; it is never sent through a full bootstrap.  (resumeAfter.)
ShortGapResumes ==
  \A n \in 0 .. last : n >= last - Retention =>
    ResumeAfter(n) = [type |-> "resume", actions |-> n + 1 .. last]

\* An unscripted table can be saved at any moment: the mechanical replay of
\* the retained tail reaches the head.  (RoomDO.saveSnapshot.)
SaveReachesHead == started /\ ~scripted => MechanicalSave = last

\* Whoever asks is served to the head of the log: a fresh client, one with a short
\* gap, and a player who saves.  (messageContext, resumeAfter, saveSnapshot.)
EveryoneReachesHead == BootstrapReachesHead /\ ShortGapResumes /\ SaveReachesHead

\* The log is append-only: a sequence number, once given, keeps its action.
\* (RoomCore.sequence and sequenceSystem under every operation.)
LogAppendOnly == [][ /\ Len(log) <= Len(log')
                     /\ log = SubSeq(log', 1, Len(log)) ]_vars

\* A row is deleted only when a client can do without it: the checkpoint (or
\* the window) still connects to everything after it, and the checkpoint
\* never moves back.  (trimActionsAfterPersistence, attestCheckpoint.)
TrimIsCovered ==
  [][ /\ checkpoint <= checkpoint'
      /\ started => \A i \in stored \ stored' :
                       i <= checkpoint' /\ i <= Len(log') - Retention ]_vars

\* The room keeps the promise of ActionLog: whatever is trimmed, checkpointed
\* or retried, the order clients see is append-only, without repetitions, and
\* every request is sequenced at most once, at the position it was answered.
\* (sequence, sequenceSystem and request_dedup, which docs/spec/handoff-v2.txt
\* requires as NET-02: a repeated request yields exactly one OrderedAction.)
Promise == INSTANCE ActionLog WITH order <- log, answer <- dedup
ImplementsActionLog == Promise!Spec
=============================================================================
