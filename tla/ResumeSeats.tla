----------------------------- MODULE ResumeSeats -----------------------------
(***************************************************************************)
(* Who sits where at a table that was saved and resumed.                   *)
(*                                                                         *)
(* The room hands out seats by its player rows and the saved snapshot,     *)
(* without running the game (nextResumedSeatId, resumedRosterFromSave of   *)
(* apps/worker/src/room-core.ts; join, startIfNeeded of index.ts); the     *)
(* kernel seats players by the sequenced game_resumed, seat_claim,         *)
(* player_joined and seat_assign (packages/kernel/src/actions.ts), keeps   *)
(* who has not come back under their seat, and refuses to play until then. *)
(* Neither asks the other.                                                 *)
(*                                                                         *)
(* Seats are numbers in the order of their ids, those the room makes up    *)
(* after the saved ones.  Each saved player owns a hand, which stands for  *)
(* all that is owned by player id: hands, visibility and prompts.  The     *)
(* room's pause of timers is modelled in RoomTimers, hooks of the game     *)
(* that refuse to resume are not.                                          *)
(***************************************************************************)
EXTENDS Integers, Sequences, FiniteSets, FiniteSetsExt, SequencesExt, Functions

CONSTANTS
  Veterans,    \* players of the first save
  Joiners,     \* players of the rooms that resume it
  SavedSeats,  \* how many seats the saved game has
  RoomSize,    \* capacity of the rooms: the most players of the release
  MaxResumes,  \* how often a table is saved and resumed again
  Nobody

\* Ids of players, ids of seats and nobody are told apart.
ASSUME ResumeAssumption ==
  /\ SavedSeats \in Nat
  /\ Nobody \notin Veterans \cup Joiners
  /\ (Veterans \cup Joiners) \cap Nat = {} /\ Nobody \notin Nat

VARIABLES
  base,     \* initial_snapshot of the room: the kernel state that was saved
  rows,     \* players: who joined, in order, and seat_id
  started,  \* the resume has been sequenced
  paused,   \* resume_pending_since is set
  table,    \* the kernel state after the log
  home,     \* the seat each veteran had (not in the code)
  resumes   \* resumed rooms so far

resumeVars == <<base, rows, started, paused, table, home, resumes>>

-----------------------------------------------------------------------------
\* Room side.

Waiters(t) == DOMAIN t.pending
SeatsOf(t) == DOMAIN t.seats
Assigned == {rows[i].seat : i \in DOMAIN rows}
JoinedPlayers == {rows[i].player : i \in DOMAIN rows}

\* savedSeatPlayerId: vacant seats and seats of unknown players save nobody.
SavedSeatPlayer(t, s) ==
  CASE s \in Waiters(t) -> t.pending[s].who
    [] s \notin Waiters(t) /\ s \in SeatsOf(t) /\ t.seats[s] \in t.players -> t.seats[s]
    [] OTHER -> Nobody

Identities(t) == {s \in SeatsOf(t) : SavedSeatPlayer(t, s) # Nobody}

\* The seats of resumedRosterFromSave, by position alone.
RosterSeat(i) == i

\* nextResumedSeatId: the first saved seat without a row, else a new one.
NextSeat(t, taken) ==
  LET free == SeatsOf(t) \ taken IN
  IF free # {} THEN Min(free) ELSE Cardinality(SeatsOf(t) \cup taken) + 1

StillWaiting(taken) == \E s \in Identities(base) \ taken : TRUE

-----------------------------------------------------------------------------
\* Kernel side.

\* validatePendingSeats: who waits is nobody at the table, waits once, under a seat
\* that is free, and for what the seat owns.
ValidPendingSeats(t) ==
  \A s \in Waiters(t) :
    /\ t.seats[s] = Nobody /\ t.pending[s].who \notin t.players
    /\ \A r \in Waiters(t) \ {s} : t.pending[r].who # t.pending[s].who
    /\ \A h \in t.pending[s].hands : t.hands[h] = s

\* An action that would leave an invalid table is rejected.
IfValid(next, t) == IF ValidPendingSeats(next) THEN next ELSE t

\* Fault: hands of the seat are not given back.
RestoreSeat_KeepsHands(t, s, p) ==
  [t EXCEPT !.players = @ \cup {p}, !.seats[s] = p,
            !.pending = Restrict(t.pending, Waiters(t) \ {s})]

\* restorePendingSeat
RestoreSeat(t, s, p) ==
  [t EXCEPT !.players = @ \cup {p}, !.seats[s] = p,
            !.hands = [h \in Veterans |-> IF h \in t.pending[s].hands THEN p ELSE t.hands[h]],
            !.pending = Restrict(t.pending, Waiters(t) \ {s})]

Put(seats, s, p) == [x \in DOMAIN seats \cup {s} |-> IF x = s THEN p ELSE seats[x]]

\* system.seat_claim; a claim that does not fit is rejected.
SeatClaim(t, s, p, previous) ==
  IF /\ s \in Waiters(t) /\ t.pending[s].who = previous
     /\ p \notin t.players /\ t.seats[s] = Nobody
     /\ \A w \in Waiters(t) : t.pending[w].who # p
  THEN IfValid(RestoreSeat(t, s, p), t) ELSE t

PlayerJoined(t, p) == IF p \in t.players THEN t ELSE IfValid([t EXCEPT !.players = @ \cup {p}], t)
SeatAssign(t, s, p) == IF p \in t.players THEN IfValid([t EXCEPT !.seats = Put(t.seats, s, p)], t) ELSE t

\* The entries of a join, one after the other.
JoinAndSit(t, s, p) == SeatAssign(PlayerJoined(t, p), s, p)

\* The validation of system.game_resumed.
ResumeFits(t, roster, preserve) ==
  /\ Waiters(t) # {} => preserve
  /\ roster # <<>>
  /\ \A i, j \in DOMAIN roster : i # j =>
       /\ roster[i].player # roster[j].player /\ roster[i].seat # roster[j].seat
       /\ roster[i].previous = Nobody \/ roster[i].previous # roster[j].previous
  /\ \A i \in DOMAIN roster :
       /\ preserve => /\ roster[i].previous = SavedSeatPlayer(t, roster[i].seat)
                      /\ roster[i].player \notin t.players
                      /\ \A w \in Waiters(t) : t.pending[w].who # roster[i].player
       /\ roster[i].previous # Nobody =>
            \/ roster[i].previous \in t.players
            \/ roster[i].seat \in Waiters(t) /\ t.pending[roster[i].seat].who = roster[i].previous

\* Rows of the roster that come back for somebody, and for whom.
Heirs(roster) == {i \in DOMAIN roster : roster[i].previous # Nobody}
Inherited(roster) == {roster[i].previous : i \in Heirs(roster)}
Heir(roster, v) == roster[CHOOSE i \in Heirs(roster) : roster[i].previous = v].player

\* Seats of the saved players nobody comes back for, if they are to be kept.
AbsentSeats(t, roster, preserve) ==
  IF preserve THEN {s \in SeatsOf(t) : s \notin Waiters(t) /\ t.seats[s] \in t.players \ Inherited(roster)}
  ELSE {}

\* pendingSeats: those that waited, and those that wait from now on with what is theirs.
KeptSeats(t, absent) ==
  [s \in Waiters(t) \cup absent |->
     IF s \in absent THEN [who |-> t.seats[s], hands |-> {h \in Veterans : t.hands[h] = t.seats[s]}]
     ELSE t.pending[s]]

\* hand.owner: the heir of a player, or the seat that keeps them.
Owners(t, roster, absent) ==
  [h \in Veterans |->
     LET o == t.hands[h] IN
     CASE o \notin t.players -> o
       [] o \in t.players /\ o \in Inherited(roster) -> Heir(roster, o)
       [] o \in t.players \ Inherited(roster) /\ (\E s \in absent : t.seats[s] = o)
            -> CHOOSE s \in absent : t.seats[s] = o
       [] OTHER -> o]

Emptied(t, roster, absent) ==
  [players |-> {}, seats |-> [s \in SeatsOf(t) |-> Nobody],
   pending |-> KeptSeats(t, absent), hands |-> Owners(t, roster, absent)]

\* A row of the roster takes its seat, with what was kept under it.
TakeSeat(t, entry) ==
  IF entry.previous # Nobody /\ entry.seat \in Waiters(t) /\ t.pending[entry.seat].who = entry.previous
  THEN RestoreSeat(t, entry.seat, entry.player)
  ELSE [t EXCEPT !.players = @ \cup {entry.player}, !.seats = Put(t.seats, entry.seat, entry.player)]

TakeSeats(t, roster) == FoldLeft(TakeSeat, t, roster)

\* system.game_resumed: absent saved players are kept under their seats, the live
\* ones take over what their predecessors owned.
GameResumed(t, roster, preserve) ==
  IF ResumeFits(t, roster, preserve)
  THEN IfValid(TakeSeats(Emptied(t, roster, AbsentSeats(t, roster, preserve)), roster), t) ELSE t

-----------------------------------------------------------------------------
NewRoom(t) ==
  /\ base' = t /\ table' = t
  /\ rows' = <<>> /\ started' = FALSE /\ paused' = FALSE

ResumeInit ==
  /\ \E sits \in [1..SavedSeats -> Veterans \cup {Nobody}] :
       /\ \A v \in Veterans : \E s \in 1..SavedSeats :
            sits[s] = v /\ \A r \in 1..SavedSeats : sits[r] = v => r = s
       /\ base = [players |-> Veterans, seats |-> sits, pending |-> <<>>,
                  hands |-> [v \in Veterans |-> v]]
       /\ home = [v \in Veterans |-> CHOOSE s \in 1..SavedSeats : sits[s] = v]
  /\ table = base
  /\ rows = <<>> /\ started = FALSE /\ paused = FALSE /\ resumes = 1

\* join
JoinResumed(p) ==
  /\ p \notin JoinedPlayers /\ p \notin base.players
  /\ \A w \in Waiters(base) : base.pending[w].who # p
  /\ Len(rows) < RoomSize
  /\ LET seat == NextSeat(base, Assigned)
         previous == SavedSeatPlayer(base, seat)
     IN /\ rows' = Append(rows, [player |-> p, seat |-> seat])
        /\ table' = IF ~started THEN table
                    ELSE IF paused /\ previous # Nobody THEN SeatClaim(table, seat, p, previous)
                    ELSE JoinAndSit(table, seat, p)
        /\ paused' = (paused /\ StillWaiting(Assigned \cup {seat}))
  /\ UNCHANGED <<base, started, home, resumes>>

\* startIfNeeded, at the first hello: sequenceGameResume.
StartResumed ==
  /\ ~started /\ rows # <<>>
  /\ LET roster == [i \in DOMAIN rows |->
                      [player |-> rows[i].player, seat |-> RosterSeat(i),
                       previous |-> SavedSeatPlayer(base, RosterSeat(i))]]
         taken == {roster[i].seat : i \in DOMAIN roster}
     IN /\ table' = GameResumed(base, roster, Waiters(base) # {} \/ StillWaiting(taken))
        /\ paused' = StillWaiting(taken)
  /\ started' = TRUE
  /\ UNCHANGED <<base, rows, home, resumes>>

\* The host saves the table as it is, paused or not, and resumes it in another room.
SaveAndResume ==
  /\ started /\ resumes < MaxResumes
  /\ resumes' = resumes + 1
  /\ NewRoom(table)
  /\ UNCHANGED home

ResumeNext ==
  \/ \E p \in Joiners : JoinResumed(p)
  \/ StartResumed
  \/ SaveAndResume

ResumeSpec == ResumeInit /\ [][ResumeNext]_resumeVars

-----------------------------------------------------------------------------
\* The room's rows and the kernel's seats agree, whoever joined before or after the
\* start and through whatever chain of resumes: each row's player sits on the row's
\* seat, nobody else is at the table, and the room pauses its timers exactly while
\* the kernel refuses to play.  (No claim the room sequences is ever refused.)
RoomAndTableAgree ==
  started =>
    /\ table.players = JoinedPlayers
    /\ Assigned \subseteq SeatsOf(table)
    /\ \A i \in DOMAIN rows : table.seats[rows[i].seat] = rows[i].player
    /\ \A s \in SeatsOf(table) : table.seats[s] # Nobody => s \in Assigned
    /\ paused <=> Waiters(table) # {}

\* What a saved player owned stays with the seat: it waits under the seat while
\* nobody has claimed it, then belongs to whoever sits there.  (Neither a save while
\* players are missing nor a second resume loses it.)
EstatesStayWithSeats ==
  \A v \in Veterans :
    IF home[v] \in Waiters(table)
    THEN table.hands[v] = home[v] /\ v \in table.pending[home[v]].hands
    ELSE table.hands[v] = table.seats[home[v]] /\ table.hands[v] # Nobody

\* docs/adr/0007-saved-tables.md: "Join order claims the next reserved seat": as many
\* joins as there are saved players let the table play on.  (The room gives a vacant
\* seat that sorts before a saved one first.)
EveryoneBackResumesPlay ==
  started /\ Len(rows) >= Cardinality(Identities(base)) => ~paused

\* A seat is one thing to the room, to the kernel and to what its player owned.
\* (nextResumedSeatId, join and the kernel's seat actions.)
SeatsAreSound == RoomAndTableAgree /\ EstatesStayWithSeats
=============================================================================
