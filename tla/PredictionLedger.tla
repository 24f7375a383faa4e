-------------------------- MODULE PredictionLedger --------------------------
(***************************************************************************)
(* Local predictions of one client: the confirmed and the displayed state  *)
(* of KernelStore, its ledger of predictions and its set of unanswered     *)
(* requests, under the room's log, lost connections and full resyncs       *)
(* (apps/web/src/state/kernelStore.ts, sendAction of net/roomClient.ts).   *)
(*                                                                         *)
(* A table is reduced to who holds an entity and which side is up, which   *)
(* is what the three predicted actions (entity.grab, entity.drop,          *)
(* entity.flip of packages/kernel) ask and change; any other action is     *)
(* "other" and leaves both alone.                                          *)
(***************************************************************************)
EXTENDS Integers, Sequences, SequencesExt

CONSTANTS
  Entities,
  Me,           \* the local player
  Others,       \* the other players
  MaxRequests,  \* bound: requests this client makes
  MaxSequenced, \* bound: length of the log
  NoOne         \* null

ASSUME LedgerAssumption ==
  /\ MaxRequests \in Nat /\ MaxSequenced \in Nat
  /\ NoOne \notin Others \cup {Me} /\ NoOne \notin Nat /\ Me \notin Others

VARIABLES
  sequenced,    \* the room's log: who, which request of ours, what
  outbox,       \* our requests on their way to the room
  connection,   \* "down", "loading" (a bootstrap is on its way), "live", "ended"
  pos,          \* the confirmed state's sequence
  confirmed,    \* KernelStoreSnapshot.state
  displayed,    \* KernelStoreSnapshot.displayedState
  ledger,       \* predictionLedger
  pending,      \* pendingRequestIds
  made,         \* requests made so far
  told          \* the last step raised a correction

ledgerStore == <<pos, confirmed, displayed, ledger, pending>>
ledgerVars == <<sequenced, outbox, connection, ledgerStore, made, told>>

-----------------------------------------------------------------------------
Moves == [type : {"grab", "drop", "flip", "other"}, entity : Entities]

Predictable(a) == a.type # "other"
Seated == Others \cup {Me}

FirstState == [holder |-> [e \in Entities |-> NoOne], face |-> [e \in Entities |-> TRUE]]

Accepts(state, player, a) ==
  CASE a.type = "grab" -> state.holder[a.entity] = NoOne
    [] a.type = "drop" -> state.holder[a.entity] = player
    [] OTHER -> TRUE

\* applyOrdered: a rejected action only advances the sequence.
Applied(state, player, a) ==
  IF ~Accepts(state, player, a) \/ a.type = "other" THEN state
  ELSE IF a.type = "flip" THEN [state EXCEPT !.face[a.entity] = ~@]
  ELSE [state EXCEPT !.holder[a.entity] = IF a.type = "grab" THEN player ELSE NoOne]

StateAfter(n) ==
  FoldLeft(LAMBDA state, entry : Applied(state, entry.by, entry.action),
           FirstState, SubSeq(sequenced, 1, n))

\* replayPredictions: in submission order, without those that are rejected now.
Replay(base, predictions) ==
  FoldLeft(LAMBDA acc, p :
             IF Accepts(acc.state, Me, p.action)
             THEN [state |-> Applied(acc.state, Me, p.action), kept |-> Append(acc.kept, p)]
             ELSE acc,
           [state |-> base, kept |-> << >>], predictions)

Ids(predictions) == {predictions[i].id : i \in DOMAIN predictions}
Except(predictions, ids) ==
  FoldLeft(LAMBDA left, p : IF p.id \in ids THEN left ELSE Append(left, p), << >>, predictions)

LedgerInit ==
  /\ sequenced = << >> /\ outbox = << >> /\ connection = "live"
  /\ pos = 0 /\ confirmed = FirstState /\ displayed = FirstState
  /\ ledger = << >> /\ pending = {} /\ made = 0 /\ told = FALSE

-----------------------------------------------------------------------------
\* sendAction while the socket is open.  An action that is predicted must be
\* accepted by the displayed state, or it is not sent at all.
SendAction(a) ==
  LET id == made + 1
      refused == Predictable(a) /\ ~Accepts(displayed, Me, a)
  IN  /\ connection \in {"loading", "live"} /\ made < MaxRequests
      /\ made' = id
      /\ told' = refused
      /\ IF refused THEN UNCHANGED <<outbox, displayed, ledger, pending>>
         ELSE /\ outbox' = Append(outbox, [id |-> id, action |-> a])
              /\ pending' = pending \cup {id}
              /\ IF Predictable(a)
                 THEN /\ displayed' = Applied(displayed, Me, a)
                      /\ ledger' = Append(ledger, [id |-> id, action |-> a])
                 ELSE UNCHANGED <<displayed, ledger>>
      /\ UNCHANGED <<sequenced, connection, pos, confirmed>>

\* Fault: what the player has done stays on the display.
Candidates_All(id) == ledger

\* The predictions to replay once request id is answered.
Candidates(id) == Except(ledger, {id})

\* A correction: a prediction is rejected in replay, or by the room.
Tells(id, rejected) ==
  \/ Len(Replay(confirmed', Candidates(id)).kept) < Len(Candidates(id))
  \/ rejected /\ id \in Ids(ledger)

\* commitOrdered of the next ordered action, from a broadcast or a resume.
Deliver ==
  LET entry == sequenced[pos + 1]
      replay == Replay(confirmed', Candidates(entry.id))
  IN  /\ connection = "live" /\ pos < Len(sequenced)
      /\ pos' = pos + 1
      /\ confirmed' = Applied(confirmed, entry.by, entry.action)
      /\ displayed' = replay.state
      /\ ledger' = replay.kept
      /\ pending' = pending \ {entry.id}
      /\ told' = Tells(entry.id, ~Accepts(confirmed, entry.by, entry.action))
      /\ UNCHANGED <<sequenced, outbox, connection, made>>

\* Fault: what is still on the display when the connection is lost stays there.
Lose_KeepsDisplay ==
  /\ connection \in {"loading", "live"} /\ connection' = "down"
  /\ outbox' = << >> /\ ledger' = Except(ledger, pending) /\ pending' = {}
  /\ told' = FALSE
  /\ UNCHANGED <<sequenced, pos, confirmed, displayed, made>>

\* Fault: requests stay pending when their connection is lost.
Lose_KeepsPending ==
  /\ connection \in {"loading", "live"} /\ connection' = "down"
  /\ outbox' = << >> /\ told' = FALSE
  /\ UNCHANGED <<sequenced, ledgerStore, made>>

\* The connection is lost, with the requests that have not reached the room;
\* scheduleReconnect drops every pending request.
Lose ==
  LET replay == Replay(confirmed, Except(ledger, pending))
  IN  /\ connection \in {"loading", "live"} /\ connection' = "down"
      /\ outbox' = << >>
      /\ IF pending = {} THEN UNCHANGED <<displayed, ledger, pending>> /\ told' = FALSE
         ELSE /\ displayed' = replay.state /\ ledger' = replay.kept /\ pending' = {}
              /\ told' = (ledger # << >> /\ displayed # replay.state)
      /\ UNCHANGED <<sequenced, pos, confirmed, made>>

\* replaceSnapshot.
ReplaceSnapshot(n) ==
  /\ pos' = n
  /\ confirmed' = StateAfter(n) /\ displayed' = StateAfter(n)
  /\ ledger' = << >> /\ pending' = {} /\ told' = FALSE

\* Connected again, to resume, or for a full resync, which loads the release.
ReconnectLedger ==
  /\ connection = "down"
  /\ \/ connection' = "live" /\ told' = FALSE /\ UNCHANGED ledgerStore
     \/ connection' = "loading" /\ ReplaceSnapshot(0)
  /\ UNCHANGED <<sequenced, outbox, made>>

BootstrapLedger ==
  /\ connection = "loading" /\ connection' = "live"
  /\ \E n \in 0 .. Len(sequenced) : ReplaceSnapshot(n)
  /\ UNCHANGED <<sequenced, outbox, made>>

\* roomEnded.
RoomEnded ==
  /\ connection \in {"loading", "live"} /\ connection' = "ended"
  /\ displayed' = confirmed /\ ledger' = << >> /\ pending' = {}
  /\ outbox' = << >> /\ told' = FALSE
  /\ UNCHANGED <<sequenced, pos, confirmed, made>>

\* The room sequences our oldest request, or somebody else's action.
RoomSequences ==
  /\ Len(sequenced) < MaxSequenced
  /\ \/ /\ outbox # << >>
        /\ sequenced' = Append(sequenced, [by |-> Me, id |-> Head(outbox).id, action |-> Head(outbox).action])
        /\ outbox' = Tail(outbox)
     \/ /\ \E p \in Others, a \in Moves : sequenced' = Append(sequenced, [by |-> p, id |-> NoOne, action |-> a])
        /\ UNCHANGED outbox
  /\ told' = FALSE
  /\ UNCHANGED <<connection, ledgerStore, made>>

LedgerNext ==
  \/ \E a \in Moves : SendAction(a)
  \/ Deliver \/ Lose \/ ReconnectLedger \/ BootstrapLedger \/ RoomEnded \/ RoomSequences

LedgerSpec == LedgerInit /\ [][LedgerNext]_ledgerVars

-----------------------------------------------------------------------------
\* The display is the confirmed table with exactly the predictions of the ledger
\* on top, and the table confirmed is the room's.
\* (predictLocal, commitOrdered and dropPendingRequests, each on its own part.)
DisplayIsReplay ==
  /\ confirmed = StateAfter(pos)
  /\ Replay(confirmed, ledger) = [state |-> displayed, kept |-> ledger]

\* Every request shown as pending will still be answered over this connection,
\* and every prediction shown is of such a request.
PendingWillBeAnswered ==
  /\ Ids(ledger) \subseteq pending
  /\ \A id \in pending :
       \/ \E i \in DOMAIN outbox : outbox[i].id = id
       \/ \E i \in pos + 1 .. Len(sequenced) : sequenced[i].id = id

\* The player sees the table with the predictions on top, all of which will be judged.
\* (Every step that touches the ledger or the unanswered requests.)
LedgerIsSound == DisplayIsReplay /\ PendingWillBeAnswered

\* The room's acceptance of a predicted action changes nothing on the display,
\* whatever else is predicted on top of it.
AcceptanceIsInvisible ==
  [][Deliver /\ sequenced[pos + 1].id \in Ids(ledger)
       /\ Accepts(confirmed, Me, sequenced[pos + 1].action) => displayed' = displayed]_ledgerVars

\* A prediction is never taken back behind the player's back: when one is lost
\* and the table on display changes, a correction says so.  (A full resync, which
\* replaces the table, is excepted.)
NoSilentRollback ==
  [][/\ Deliver \/ Lose
     /\ displayed' # displayed
     /\ \E id \in Ids(ledger) \ Ids(ledger') :
          ~(Deliver /\ sequenced[pos + 1].id = id /\ Accepts(confirmed, Me, sequenced[pos + 1].action))
     => told']_ledgerVars

\* What a player sees of their own moves is honest: nothing jumps when the room
\* accepts one, and nothing is taken back without a word.
\* (commitOrdered, dropPendingRequests and the corrections they raise.)
PredictionsAreHonest == AcceptanceIsInvisible /\ NoSilentRollback
=============================================================================
