----------------------------- MODULE SavedTables -----------------------------
(***************************************************************************)
(* Saving a table and resuming it: POST /api/rooms/{id}/save, DELETE       *)
(* /api/saves/{id} and POST /api/saves/{id}/resume of                      *)
(* apps/worker/src/platform.ts, saveSnapshot and initFromSave of index.ts, *)
(* saved_tables in D1 and the objects of the bucket.                       *)
(*                                                                         *)
(* Each request is a chain of awaits: the client takes its snapshot, the   *)
(* count is checked, the room answers, the object is put, the row is       *)
(* inserted; meanwhile the table moves on, and other requests run.  A      *)
(* snapshot is its sequence.  One account, one room of one release.        *)
(***************************************************************************)
EXTENDS Integers, FiniteSets

CONSTANTS
  Saves,      \* save requests; the id of a save is its own
  Resumers,   \* requests that resume a save
  SaveLimit,  \* SAVE_COUNT_LIMIT
  MaxTurns,   \* bound: sequences of the room
  NoTurn

SaveRow == [sequence : Nat, deleted : BOOLEAN]

ASSUME SaveAssumption ==
  /\ IsFiniteSet(Saves)
  /\ SaveLimit \in Nat \ {0} /\ MaxTurns \in Nat
  /\ NoTurn \notin Nat \cup Saves /\ NoTurn \notin SaveRow

VARIABLES
  head,      \* last_sequence of the room
  attested,  \* sequence of its attested checkpoint
  luaRoom,   \* roomIsScripted
  closed,    \* ended_reason is set
  saving,    \* the save requests
  rowOf,     \* saved_tables: sequence and deleted, or NoTurn
  objectOf,  \* saves/{id}.json: the sequence of the object, or NoTurn
  resuming   \* the resume requests

saveVars == <<head, attested, luaRoom, closed, saving, rowOf, objectOf, resuming>>

\* raced: the requests between their count and their row as this one was counted.
NoSave == [step |-> "new", asked |-> NoTurn, brought |-> NoTurn, holds |-> NoTurn, raced |-> {}]
NoResume == [step |-> "new", save |-> NoTurn, sequence |-> NoTurn, begun |-> NoTurn]

ActiveSaves == {s \in Saves : rowOf[s] # NoTurn /\ ~rowOf[s].deleted}
Racing == {s \in Saves : saving[s].step \in {"room", "put", "row"}}
SaveAt(s, step) == saving[s].step = step
SaveGoes(s, step) == saving' = [saving EXCEPT ![s].step = step]

SaveInit ==
  /\ head = 1 /\ attested = 0 /\ closed = FALSE
  /\ luaRoom \in BOOLEAN
  /\ saving = [s \in Saves |-> NoSave] /\ resuming = [r \in Resumers |-> NoResume]
  /\ rowOf = [s \in Saves |-> NoTurn] /\ objectOf = [s \in Saves |-> NoTurn]

-----------------------------------------------------------------------------
\* The room: an action is sequenced, a checkpoint attested, the room ended.
TakeTurn ==
  /\ ~closed /\ head < MaxTurns /\ head' = head + 1
  /\ UNCHANGED <<attested, luaRoom, closed, saving, rowOf, objectOf, resuming>>

AttestHead ==
  /\ ~closed /\ luaRoom /\ attested < head /\ attested' = head
  /\ UNCHANGED <<head, luaRoom, closed, saving, rowOf, objectOf, resuming>>

CloseRoom ==
  /\ ~closed /\ closed' = TRUE
  /\ UNCHANGED <<head, attested, luaRoom, saving, rowOf, objectOf, resuming>>

-----------------------------------------------------------------------------
\* The host's client asks, with the snapshot it has confirmed or with none.
AskSave(s, brought) ==
  /\ SaveAt(s, "new")
  /\ saving' = [saving EXCEPT ![s] = [step |-> "count", asked |-> head, brought |-> brought,
                                      holds |-> NoTurn, raced |-> {}]]
  /\ UNCHANGED <<head, attested, luaRoom, closed, rowOf, objectOf, resuming>>

\* countActiveSaves
CountSaves(s) ==
  /\ SaveAt(s, "count")
  /\ saving' = [saving EXCEPT
       ![s].step = IF Cardinality(ActiveSaves) >= SaveLimit THEN "refused" ELSE "room",
       ![s].raced = Racing]
  /\ UNCHANGED <<head, attested, luaRoom, closed, rowOf, objectOf, resuming>>

\* Fault: the attested checkpoint is as good, of whatever turn.
Snapshot_Old(s) ==
  IF ~luaRoom THEN head
  ELSE IF attested > 0 THEN attested ELSE saving[s].brought

\* What RoomDO.saveSnapshot answers: replayed to the head, or the attested checkpoint or
\* the client's snapshot if it is of the head; else NoTurn, stale.
Snapshot(s) ==
  IF ~luaRoom THEN head
  ELSE IF attested = head THEN attested
  ELSE IF saving[s].brought = head THEN head ELSE NoTurn

\* saveSnapshot
AskRoom(s) ==
  /\ SaveAt(s, "room")
  /\ saving' = [saving EXCEPT
       ![s].step = IF closed \/ Snapshot(s) = NoTurn THEN "refused" ELSE "put",
       ![s].holds = IF closed THEN NoTurn ELSE Snapshot(s)]
  /\ UNCHANGED <<head, attested, luaRoom, closed, rowOf, objectOf, resuming>>

\* writeReleaseThenCommit: the object, under an id that is new, and then the row.
PutSave(s) ==
  /\ SaveAt(s, "put")
  /\ objectOf' = [objectOf EXCEPT ![s] = saving[s].holds]
  /\ SaveGoes(s, "row")
  /\ UNCHANGED <<head, attested, luaRoom, closed, rowOf, resuming>>

\* createSavedTable
InsertSave(s) ==
  /\ SaveAt(s, "row")
  /\ rowOf' = [rowOf EXCEPT ![s] = [sequence |-> saving[s].holds, deleted |-> FALSE]]
  /\ SaveGoes(s, "saved")
  /\ UNCHANGED <<head, attested, luaRoom, closed, objectOf, resuming>>

\* The request dies, or an await of it fails.
DropSave(s) ==
  /\ saving[s].step \in {"count", "room", "put", "row"}
  /\ SaveGoes(s, "refused")
  /\ UNCHANGED <<head, attested, luaRoom, closed, rowOf, objectOf, resuming>>

-----------------------------------------------------------------------------
\* DELETE: softDeleteSavedTable, then the object.
DeleteSave(s) ==
  /\ s \in ActiveSaves
  /\ rowOf' = [rowOf EXCEPT ![s].deleted = TRUE]
  /\ UNCHANGED <<head, attested, luaRoom, closed, saving, objectOf, resuming>>

DeleteObject(s) ==
  /\ rowOf[s] # NoTurn /\ rowOf[s].deleted /\ objectOf[s] # NoTurn
  /\ objectOf' = [objectOf EXCEPT ![s] = NoTurn]
  /\ UNCHANGED <<head, attested, luaRoom, closed, saving, rowOf, resuming>>

\* getOwnedSavedTable
FindSave(r, s) ==
  /\ resuming[r].step = "new" /\ s \in ActiveSaves
  /\ resuming' = [resuming EXCEPT ![r] = [step |-> "read", save |-> s,
                                          sequence |-> rowOf[s].sequence, begun |-> NoTurn]]
  /\ UNCHANGED <<head, attested, luaRoom, closed, saving, rowOf, objectOf>>

\* The object: it is gone, it is not what the row says, or a new room begins from it.
ReadSave(r) ==
  /\ resuming[r].step = "read"
  /\ LET found == objectOf[resuming[r].save] IN
     resuming' = [resuming EXCEPT
       ![r].step = IF found = NoTurn THEN "gone" ELSE IF found # resuming[r].sequence THEN "invalid" ELSE "resumed",
       ![r].begun = IF found = resuming[r].sequence THEN found ELSE NoTurn]
  /\ UNCHANGED <<head, attested, luaRoom, closed, saving, rowOf, objectOf>>

SaveNext ==
  \/ TakeTurn \/ AttestHead \/ CloseRoom
  \/ \E s \in Saves :
       \/ \E brought \in {NoTurn, head} : AskSave(s, brought)
       \/ CountSaves(s) \/ AskRoom(s) \/ PutSave(s) \/ InsertSave(s) \/ DropSave(s)
       \/ DeleteSave(s) \/ DeleteObject(s)
       \/ \E r \in Resumers : FindSave(r, s)
  \/ \E r \in Resumers : ReadSave(r)

SaveSpec == SaveInit /\ [][SaveNext]_saveVars

-----------------------------------------------------------------------------
\* Whatever dies in between, a save that is listed can be resumed, to the turn its row
\* names, and it is a turn the table was at while the save was asked for; a resume that
\* is refused raced a deletion; and the limit of saves is exceeded only by requests that
\* were let through while another one was not done.  (Objects are put before their rows and deleted
\* after them, and the room compares the snapshot with its head.)
SavesAreWhole ==
  /\ \A s \in ActiveSaves : /\ objectOf[s] = rowOf[s].sequence
                            /\ rowOf[s].sequence >= saving[s].asked
  /\ \A r \in Resumers :
       /\ resuming[r].step # "invalid"
       /\ resuming[r].step = "gone" => rowOf[resuming[r].save].deleted
  /\ Cardinality({s \in ActiveSaves : saving[s].raced = {}}) <= SaveLimit
=============================================================================
