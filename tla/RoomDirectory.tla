---------------------------- MODULE RoomDirectory ----------------------------
(***************************************************************************)
(* The index of rooms (D1's rooms_index) beside the rooms themselves: how  *)
(* quick play, hosting and joining by code (apps/worker/src/quickplay.ts,  *)
(* platform.ts) find, fill and allocate rooms while the rooms report their *)
(* player counts back (index.ts writeIndexMetadata, end).                  *)
(*                                                                         *)
(* A request is handled by a stateless Worker, one database or room call   *)
(* per step, and may die between any two (Crash).  A report of a room is   *)
(* sent with the values read at that moment and lands later, in any order, *)
(* or is lost (a failed write is only logged); heartbeats wait for theirs. *)
(* One release is offered, so every room is a candidate; its heartbeat may *)
(* be stale at any time.  Join codes never collide.  Rows of players are   *)
(* never deleted, so players are only counted.  Either all is still to come *)
(* and may fail, or one room has a player and nothing fails.                *)
(***************************************************************************)
EXTENDS Integers, FiniteSets

CONSTANTS
  Rooms,        \* room ids
  Requests,     \* requests of the Worker
  Capacity,     \* max_players, capacity
  QuickPlayAttempts, \* QUICKPLAY_MAX_ATTEMPTS
  MaxMoves,     \* bound: connections and departures of players
  MaxFaults,    \* bound: crashed requests, lost answers and lost reports
  NoRow         \* no row in the index

ASSUME DirectoryAssumption ==
  /\ IsFiniteSet(Requests) /\ NoRow \notin Rooms
  /\ {Capacity, QuickPlayAttempts} \subseteq Nat \ {0}
  /\ {MaxMoves, MaxFaults} \subseteq Nat

VARIABLES
  index,    \* rooms_index: player_count, joinable, ended_at
  rooms,    \* the Durable Objects: existence and end, rows of players (before: those
            \* that were there at first), active ones, sockets, quickplay_joinable
  reports,  \* index writes of rooms on their way
  request,  \* the Worker's requests
  moves, faults

directoryVars == <<index, rooms, reports, request, moves, faults>>

-----------------------------------------------------------------------------
NewRow == [count |-> 0, joinable |-> TRUE, ended |-> FALSE]
Listed(r) == index[r] # NoRow /\ ~index[r].ended
Claimable(r) == Listed(r) /\ index[r].joinable /\ index[r].count < Capacity
Occupied(r) == rooms[r].status = "open" /\ rooms[r].connected > 0

\* The row as an UPDATE leaves it: one that matches no row changes nothing.
Updated(r, row) == IF index[r] = NoRow THEN index ELSE [index EXCEPT ![r] = row]

\* scheduleIndexMetadataUpdate, writeIndexMetadata: the values are read now.
Report(r, rm) == [room |-> r, count |-> rm.active, joinable |-> rm.open, ended |-> FALSE]

RequestAt(q, step) == request[q].step = step
RequestGoes(q, step) == request' = [request EXCEPT ![q].step = step]

DirectoryInit ==
  /\ \E old \in {{}, {CHOOSE r \in Rooms : TRUE}} :
       /\ index = [r \in Rooms |-> IF r \in old THEN [NewRow EXCEPT !.count = 1] ELSE NoRow]
       /\ rooms = [r \in Rooms |->
            IF r \in old
            THEN [status |-> "open", players |-> 1, before |-> 1, active |-> 1, connected |-> 1, open |-> TRUE]
            ELSE [status |-> "none", players |-> 0, before |-> 0, active |-> 0, connected |-> 0, open |-> FALSE]]
       /\ faults = IF old = {} THEN 0 ELSE MaxFaults
  /\ reports = {}
  /\ request = [q \in Requests |->
       [step |-> "new", kind |-> "none", room |-> NoRow, tried |-> {},
        outcome |-> "none", count |-> 0]]
  /\ moves = 0

-----------------------------------------------------------------------------
\* POST /api/quickplay, POST /api/rooms, POST /api/rooms/join.
Arrive(q, kind) ==
  /\ RequestAt(q, "new")
  /\ request' = [request EXCEPT ![q].kind = kind,
       ![q].step = CASE kind = "quick" -> "select" [] kind = "host" -> "insert" [] OTHER -> "lookup"]
  /\ UNCHANGED <<index, rooms, reports, moves, faults>>

\* The fullest candidate; those equally full are ordered by age and id, so any.
Best(candidates) == {r \in candidates : \A s \in candidates : index[s].count <= index[r].count}

Select(q) ==
  /\ RequestAt(q, "select")
  /\ \E fresh \in SUBSET Rooms :
       LET candidates == {r \in fresh \ request[q].tried : Claimable(r)} IN
       IF candidates = {} THEN RequestGoes(q, "insert")
       ELSE \E r \in Best(candidates) :
         request' = [request EXCEPT ![q].step = "claim", ![q].room = r, ![q].tried = @ \cup {r}]
  /\ UNCHANGED <<index, rooms, reports, moves, faults>>

quickPlayAttemptDecision(q) == IF Cardinality(request[q].tried) < QuickPlayAttempts THEN "select" ELSE "insert"

\* The conditional UPDATE that takes a place in the index before the room is asked.
Claim(q) ==
  /\ RequestAt(q, "claim")
  /\ LET r == request[q].room IN
       \/ /\ Claimable(r)
          /\ index' = [index EXCEPT ![r].count = @ + 1] /\ RequestGoes(q, "enter")
       \/ RequestGoes(q, quickPlayAttemptDecision(q)) /\ UNCHANGED index
  /\ UNCHANGED <<rooms, reports, moves, faults>>

\* POST /api/rooms/join finds any row of the code, also one that ended.
LookupCode(q) ==
  /\ RequestAt(q, "lookup")
  /\ \E r \in Rooms : index[r] # NoRow /\
       request' = [request EXCEPT ![q].step = "enter", ![q].room = r]
  /\ UNCHANGED <<index, rooms, reports, moves, faults>>

\* Fault: quick play has its place by the claim.
Outcome_TrustsClaim(r, requireQuickPlayJoinable) ==
  IF rooms[r].status = "none" THEN "not_found"
  ELSE IF rooms[r].status = "ended" THEN "ended"
  ELSE IF requireQuickPlayJoinable /\ ~rooms[r].open THEN "ineligible"
  ELSE IF ~requireQuickPlayJoinable /\ rooms[r].players >= Capacity THEN "full" ELSE "ok"

\* RoomDO.join's refusals, in their order.
Outcome(r, requireQuickPlayJoinable) ==
  IF rooms[r].status = "none" THEN "not_found"
  ELSE IF rooms[r].status = "ended" THEN "ended"
  ELSE IF requireQuickPlayJoinable /\ ~rooms[r].open THEN "ineligible"
  ELSE IF rooms[r].players >= Capacity THEN "full" ELSE "ok"

\* What each kind of request does with the room's answer.
AfterEnter(kind, outcome) ==
  IF outcome = "ok" THEN IF kind = "quick" THEN "done" ELSE "count"
  ELSE IF kind = "quick" \/ (kind = "code" /\ outcome = "ended") THEN "reconcile"
  ELSE IF kind = "host" THEN "delete" ELSE "refused"

\* The call of RoomDO.join.  Its answer may be lost, which quick play takes for not_found.
Enter(q) ==
  /\ RequestAt(q, "enter")
  /\ LET r == request[q].room
         kind == request[q].kind
         outcome == Outcome(r, kind = "quick")
         joined == [rooms[r] EXCEPT !.players = @ + 1, !.active = @ + 1]
     IN /\ IF outcome = "ok"
           THEN rooms' = [rooms EXCEPT ![r] = joined] /\ reports' = reports \cup {Report(r, joined)}
           ELSE UNCHANGED <<rooms, reports>>
        /\ \E answer \in {outcome} \cup (IF kind = "quick" /\ faults < MaxFaults THEN {"not_found"} ELSE {}) :
             /\ request' = [request EXCEPT ![q].outcome = answer, ![q].step = AfterEnter(kind, answer),
                                           ![q].count = joined.active]
             /\ faults' = IF answer = outcome THEN faults ELSE faults + 1
  /\ UNCHANGED <<index, moves>>

\* updatePlayerCount with the room's answer, markRoomIneligible, markRoomEnded.
Reconciled(row, outcome) ==
  CASE outcome = "full" -> [row EXCEPT !.count = Capacity]
    [] outcome = "ineligible" -> [row EXCEPT !.joinable = FALSE, !.count = IF @ > 0 THEN @ - 1 ELSE 0]
    [] OTHER -> [row EXCEPT !.ended = TRUE, !.joinable = FALSE]

Reconcile(q) ==
  /\ RequestAt(q, "reconcile")
  /\ LET r == request[q].room IN index' = Updated(r, Reconciled(index[r], request[q].outcome))
  /\ RequestGoes(q, IF request[q].kind = "quick" THEN quickPlayAttemptDecision(q) ELSE "refused")
  /\ UNCHANGED <<rooms, reports, moves, faults>>

-----------------------------------------------------------------------------
\* allocateRoomForPlayer, POST /api/rooms: the row first, then the room, then a seat in it.
InsertRow(q) ==
  /\ RequestAt(q, "insert")
  /\ \E r \in Rooms :
       /\ rooms[r].status = "none" /\ \A p \in Requests : request[p].room # r
       /\ index' = [index EXCEPT ![r] = NewRow]
       /\ request' = [request EXCEPT ![q].step = "init", ![q].kind = "host",
                                     ![q].room = r, ![q].tried = {}]
  /\ UNCHANGED <<rooms, reports, moves, faults>>

InitRoom(q) ==
  /\ RequestAt(q, "init")
  /\ rooms' = [rooms EXCEPT ![request[q].room].status = "open", ![request[q].room].open = TRUE]
  /\ RequestGoes(q, "enter")
  /\ UNCHANGED <<index, reports, moves, faults>>

\* The new room was filled or ended by others before its creator got a seat.
DeleteRow(q) ==
  /\ RequestAt(q, "delete")
  /\ index' = [index EXCEPT ![request[q].room] = NoRow]
  /\ RequestGoes(q, "insert")
  /\ UNCHANGED <<rooms, reports, moves, faults>>

\* updatePlayerCount, with the count the room answered.
ReportCount(q) ==
  /\ RequestAt(q, "count")
  /\ LET r == request[q].room IN
       index' = Updated(r, [index[r] EXCEPT !.count = request[q].count])
  /\ RequestGoes(q, "done")
  /\ UNCHANGED <<rooms, reports, moves, faults>>

CrashRequest(q) ==
  /\ request[q].step \notin {"new", "done", "refused"} /\ faults < MaxFaults
  /\ RequestGoes(q, "refused") /\ faults' = faults + 1
  /\ UNCHANGED <<index, rooms, reports, moves>>

-----------------------------------------------------------------------------
\* A socket's hello is answered: markPlayerActive.
Connect(r) ==
  /\ rooms[r].status = "open" /\ rooms[r].connected < rooms[r].players /\ moves < MaxMoves
  /\ \E wasActive \in BOOLEAN :
       /\ IF wasActive THEN rooms[r].connected < rooms[r].active ELSE rooms[r].active < rooms[r].players
       /\ LET rm == [rooms[r] EXCEPT !.connected = @ + 1, !.active = IF wasActive THEN @ ELSE @ + 1]
          IN rooms' = [rooms EXCEPT ![r] = rm] /\ reports' = reports \cup {Report(r, rm)}
  /\ moves' = moves + 1
  /\ UNCHANGED <<index, request, faults>>

Depart(r) ==
  /\ Occupied(r) /\ moves < MaxMoves
  /\ LET rm == [rooms[r] EXCEPT !.connected = @ - 1, !.active = @ - 1]
     IN rooms' = [rooms EXCEPT ![r] = rm] /\ reports' = reports \cup {Report(r, rm)}
  /\ moves' = moves + 1
  /\ UNCHANGED <<index, request, faults>>

\* The first player action closes the room to quick play.
Play(r) ==
  /\ Occupied(r) /\ rooms[r].open
  /\ LET rm == [rooms[r] EXCEPT !.open = FALSE]
     IN rooms' = [rooms EXCEPT ![r] = rm] /\ reports' = reports \cup {Report(r, rm)}
  /\ UNCHANGED <<index, request, moves, faults>>

RoomEnds(r) ==
  /\ rooms[r].status = "open" /\ rooms[r].players > 0
  /\ rooms' = [rooms EXCEPT ![r].status = "ended", ![r].open = FALSE, ![r].connected = 0]
  /\ reports' = reports \cup {[room |-> r, count |-> 0, joinable |-> FALSE, ended |-> TRUE]}
  /\ UNCHANGED <<index, request, moves, faults>>

\* What a write of a room does to its row: one marked ended takes no metadata any more.
Written(w) ==
  LET old == index[w.room] IN
  IF w.ended THEN Updated(w.room, [old EXCEPT !.ended = TRUE, !.joinable = FALSE, !.count = 0])
  ELSE IF ~Listed(w.room) THEN index
  ELSE [index EXCEPT ![w.room] = [old EXCEPT !.count = w.count, !.joinable = w.joinable]]

\* Fault: the heartbeat writes its time alone.
Heartbeat_TimeOnly(r) ==
  /\ Occupied(r)
  /\ UNCHANGED <<index, rooms, reports, request, moves, faults>>

\* The alarm of an occupied room, every ROOM_HEARTBEAT_INTERVAL_MS, which waits for its write.
Heartbeat(r) ==
  /\ Occupied(r)
  /\ index' = Written(Report(r, rooms[r]))
  /\ UNCHANGED <<rooms, reports, request, moves, faults>>

LandReport(w) ==
  /\ w \in reports
  /\ reports' = reports \ {w} /\ index' = Written(w)
  /\ UNCHANGED <<rooms, request, moves, faults>>

LoseReport(w) ==
  /\ w \in reports /\ faults < MaxFaults
  /\ reports' = reports \ {w} /\ faults' = faults + 1
  /\ UNCHANGED <<index, rooms, request, moves>>

Serve(q) ==
  \/ \E kind \in {"quick", "host", "code"} : Arrive(q, kind)
  \/ Select(q) \/ Claim(q) \/ LookupCode(q) \/ Enter(q) \/ Reconcile(q)
  \/ InsertRow(q) \/ InitRoom(q) \/ DeleteRow(q) \/ ReportCount(q) \/ CrashRequest(q)

DirectoryNext ==
  \/ \E q \in Requests : Serve(q)
  \/ \E r \in Rooms : Connect(r) \/ Depart(r) \/ Play(r) \/ RoomEnds(r) \/ Heartbeat(r)
  \/ \E w \in reports : LandReport(w) \/ LoseReport(w)

\* Alarms are delivered and writes complete; requests, players and faults owe nothing.
DirectoryFairness ==
  /\ \A r \in Rooms : WF_directoryVars(Heartbeat(r))
  /\ WF_directoryVars(\E w \in reports : LandReport(w))

DirectorySpec == DirectoryInit /\ [][DirectoryNext]_directoryVars
FairDirectorySpec == DirectorySpec /\ DirectoryFairness

-----------------------------------------------------------------------------
\* Whatever claims were leaked, answers lost and reports overtaken: as long as
\* somebody is at the table and its row is not marked ended, the row comes to
\* show the players who are there and whether the table still takes quick players.
\* (runQuickPlayMatchmaking's claims against writeIndexMetadata.)
IndexCatchesUp ==
  \A r \in Rooms :
    Occupied(r) ~> \/ ~Occupied(r) \/ ~Listed(r)
                   \/ index[r].count = rooms[r].active /\ index[r].joinable = rooms[r].open

\* Each seat was given to one request, none was given to two, and a finished
\* quick-play or host request has one, in the room it was answered with.
\* (Retries of runQuickPlayMatchmaking and allocateRoomForPlayer; only an answer
\* that was lost leaves a seat that nobody knows of.)
SeatsAreAccountedFor ==
  \A r \in Rooms :
    LET knows == {q \in Requests : request[q].room = r /\ request[q].outcome = "ok"} IN
    /\ rooms[r].before + Cardinality(knows) <= rooms[r].players
    /\ rooms[r].players <= rooms[r].before + Cardinality(knows) + faults
    /\ rooms[r].players <= Capacity

=============================================================================
