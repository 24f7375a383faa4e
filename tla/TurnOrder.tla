------------------------------ MODULE TurnOrder ------------------------------
(***************************************************************************)
(* Whose turn it is and who has how many points, through saves and resumes:*)
(* the turns and scores of the Lua standard library (STDLIB_V1 of          *)
(* packages/lua/src/creator-runtime.ts), which live in the script state as *)
(* player ids while every resume gives the players new ids.                *)
(*                                                                         *)
(* The library runs before each callback of the game's scripts.  When it is*)
(* told of a resume it renames everybody who is back, keeps the turn and   *)
(* the points of who is not under their seats (pending_resume), and stops  *)
(* the turns until they have claimed them.  The seats are those of         *)
(* ResumeSeats, whose every step this module extends by what the library   *)
(* does in it.  Only the first of several scripts that hear of a resume    *)
(* finds anything to do (last_resume_roster_key).                          *)
(***************************************************************************)
EXTENDS ResumeSeats

CONSTANTS
  MaxTurned  \* bound: what scripts do with turns and scores while playing

VARIABLES
  lib,    \* state.__stdlib: turns (order, index, active), scores, pending_resume
  turned  \* how often they have done so

turnVars == <<resumeVars, lib, turned>>

-----------------------------------------------------------------------------
Everybody == Veterans \cup Joiners
NoPending == [seats |-> {}]
IsPending == lib.pending # NoPending

\* players:by_seat and players:list, in the order of the seats.
BySeat(t, s) == IF s \in SeatsOf(t) /\ t.seats[s] \in t.players THEN t.seats[s] ELSE Nobody
FullSeats(t) == {s \in SeatsOf(t) : BySeat(t, s) # Nobody}

\* The elements of seq that are in S, in their order.
Among(seq, S) == FoldLeft(LAMBDA found, x : IF x \in S THEN Append(found, x) ELSE found, << >>, seq)

TakenSeats(t) == Among([s \in SeatsOf(t) |-> s], FullSeats(t))
SeatedAt(t, seats) == [i \in DOMAIN seats |-> BySeat(t, seats[i])]
SeatOf(t, p) == CHOOSE s \in SeatsOf(t) : t.seats[s] = p

PlaceIn(seq, x) == IF x \in Range(seq) THEN CHOOSE i \in DOMAIN seq : seq[i] = x ELSE 0

\* Whoever is not in the order yet comes after it.
WithNewcomers(order, present) == order \o Among(present, Range(present) \ Range(order))

\* publish_pending_turns
Lined(kept, t) == WithNewcomers(kept.order, TakenSeats(t))
Awaits(kept, t) == \E s \in kept.seats : BySeat(t, s) = Nobody

Publish(d, t) ==
  LET kept == d.pending
      live == Among(Lined(kept, t), FullSeats(t))
  IN  [d EXCEPT !.order = SeatedAt(t, live), !.index = PlaceIn(live, kept.current),
                !.active = kept.active /\ ~Awaits(kept, t) /\ live # << >>,
                !.pending = IF Awaits(kept, t) THEN [kept EXCEPT !.order = Lined(kept, t)] ELSE NoPending]

\* Who had a seat in the table that was saved, and which.
Known(saved) == {SavedSeatPlayer(saved, s) : s \in Identities(saved)}
OldSeat(saved, id) == CHOOSE s \in Identities(saved) : SavedSeatPlayer(saved, s) = id

\* The order and the turn by seats.
BySeats(d, saved) ==
  LET places == Among(d.order, Known(saved))
  IN  [order |-> [i \in DOMAIN places |-> OldSeat(saved, places[i])],
       current |-> IF d.index \in DOMAIN d.order /\ d.order[d.index] \in Known(saved)
                   THEN OldSeat(saved, d.order[d.index]) ELSE 0,
       active |-> d.active]

\* Fault: a second resume forgets what the first has kept.
Carried_Forgotten(d, saved) == BySeats(d, saved)

\* The order and the turn to be kept: those of an earlier resume that is still
\* waiting, or those of the turns.
Carried(d, saved) ==
  IF d.pending # NoPending
  THEN [order |-> d.pending.order, current |-> d.pending.current, active |-> d.pending.active]
  ELSE BySeats(d, saved)

\* The points of a seat that was saved.
Points(d, saved, s) ==
  IF d.pending # NoPending /\ s \in DOMAIN d.pending.scores THEN d.pending.scores[s]
  ELSE d.scores[SavedSeatPlayer(saved, s)]

\* on_game_resumed with resumeSeats: saved is the table that was resumed, t the one
\* that has come of it.
Escrow(d, saved, t) ==
  LET carried == Carried(d, saved)
      order == WithNewcomers(carried.order, TakenSeats(t))
  IN  [seats |-> Identities(saved), order |-> order, active |-> carried.active,
       current |-> IF carried.current = 0 /\ order # << >> THEN order[1] ELSE carried.current,
       scores |-> [s \in Identities(saved) \ FullSeats(t) |-> Points(d, saved, s)]]

LiveScores(d, saved, t) ==
  [p \in Everybody |->
     IF p \in t.players /\ SeatOf(t, p) \in Identities(saved) THEN Points(d, saved, SeatOf(t, p))
     ELSE IF p \in saved.players THEN 0 ELSE d.scores[p]]

KeepSeats(d, saved, t) ==
  Publish([d EXCEPT !.scores = LiveScores(d, saved, t), !.pending = Escrow(d, saved, t)], t)

\* on_seat_claimed
SeatBack(d, t, s) ==
  LET kept == d.pending
  IN  IF kept = NoPending THEN d
      ELSE Publish([d EXCEPT !.scores = IF s \in DOMAIN kept.scores
                                        THEN [d.scores EXCEPT ![t.seats[s]] = kept.scores[s]] ELSE d.scores,
                             !.pending = [kept EXCEPT !.scores = Restrict(kept.scores, DOMAIN kept.scores \ {s})]], t)

\* on_game_resumed when everybody is back at once: ids are renamed, nothing waits.
NewId(roster, id) == IF id \in Inherited(roster) THEN Heir(roster, id) ELSE id
Renamed(d, t, roster) == Among([i \in DOMAIN d.order |-> NewId(roster, d.order[i])], t.players)

Rename(d, saved, t, roster) ==
  LET order == WithNewcomers(Renamed(d, t, roster), SeatedAt(t, TakenSeats(t)))
      place == IF d.index \in DOMAIN d.order THEN PlaceIn(order, NewId(roster, d.order[d.index])) ELSE 0
      Old(p) == {v \in saved.players : NewId(roster, v) = p /\ p \in t.players}
      Now(p) == IF Old(p) # {} THEN d.scores[CHOOSE v \in Old(p) : TRUE]
                ELSE IF p \in saved.players THEN 0 ELSE d.scores[p]
  IN  [d EXCEPT !.order = order, !.active = d.active /\ order # << >>,
                !.index = IF place # 0 THEN place ELSE IF order = << >> THEN 0 ELSE 1,
                !.scores = [p \in Everybody |-> Now(p)]]

-----------------------------------------------------------------------------
\* The table that was saved has begun its turns or not, has stopped them or not; its
\* players have as many points as the number of their seat.
TurnInit ==
  /\ ResumeInit
  /\ \E order \in {<< >>, SeatedAt(base, TakenSeats(base))} :
       \E index \in IF order = << >> THEN {0} ELSE DOMAIN order :
         \E active \in IF order = << >> THEN {FALSE} ELSE BOOLEAN :
           lib = [order |-> order, index |-> index, active |-> active, pending |-> NoPending,
                  scores |-> [p \in Everybody |-> IF p \in Veterans THEN home[p] ELSE 0]]
  /\ turned = 0

\* A join after the start: a claim wakes the library, other joins concern the
\* scripts only.
JoinTurns(p) ==
  /\ JoinResumed(p)
  /\ LET claimed == Waiters(table) \ Waiters(table')
     IN  lib' = IF claimed = {} THEN lib ELSE SeatBack(lib, table', CHOOSE s \in claimed : TRUE)
  /\ UNCHANGED turned

ResumeTurns ==
  /\ StartResumed
  /\ LET roster == [i \in DOMAIN rows |->
                      [player |-> rows[i].player, previous |-> SavedSeatPlayer(base, RosterSeat(i))]]
         \* resumeSeats is part of the event when a seat waits or has waited.
         keeps == Waiters(base) # {} \/ Waiters(table') # {}
     IN  lib' = IF keeps THEN KeepSeats(lib, base, table') ELSE Rename(lib, base, table', roster)
  /\ UNCHANGED turned

SaveTurns == SaveAndResume /\ UNCHANGED <<lib, turned>>

Plays(d) ==
  /\ started /\ turned < MaxTurned /\ turned' = turned + 1
  /\ lib' = d
  /\ UNCHANGED resumeVars

\* turns:start and turns:next from the callbacks of a player's action, which the
\* kernel refuses while a seat waits.
StartTurns(first) ==
  /\ Waiters(table) = {} /\ ~IsPending
  /\ LET order == SeatedAt(table, TakenSeats(table))
     IN  Plays([lib EXCEPT !.order = order, !.active = order # << >>,
                           !.index = IF first \in Range(order) THEN PlaceIn(order, first) ELSE 1])

NextTurn ==
  /\ Waiters(table) = {} /\ lib.active /\ lib.order # << >>
  /\ Plays([lib EXCEPT !.index = (@ % Len(lib.order)) + 1])

\* scores:add
AddScore(p) == Waiters(table) = {} /\ p \in table.players /\ Plays([lib EXCEPT !.scores[p] = @ + 1])

\* turns:stop, also from the callbacks of a join while a seat waits.
StopTurns ==
  Plays([lib EXCEPT !.active = FALSE,
                    !.pending = IF IsPending THEN [lib.pending EXCEPT !.active = FALSE] ELSE @])

TurnNext ==
  \/ \E p \in Joiners : JoinTurns(p) \/ StartTurns(p)
  \/ \E p \in Joiners : AddScore(p)
  \/ ResumeTurns \/ SaveTurns \/ NextTurn \/ StopTurns

TurnSpec == TurnInit /\ [][TurnNext]_turnVars

-----------------------------------------------------------------------------
\* The game as its players see it, by seats: who comes after whom, whose turn it is
\* or will be, whether turns are taken, who has how many points.
ViewOf(d, t) ==
  LET pending == d.pending # NoPending
  IN  [order |-> IF pending THEN d.pending.order ELSE [i \in DOMAIN d.order |-> SeatOf(t, d.order[i])],
       current |-> IF pending THEN d.pending.current
                   ELSE IF d.index = 0 THEN 0 ELSE SeatOf(t, d.order[d.index]),
       active |-> IF pending THEN d.pending.active ELSE d.active,
       points |-> [s \in Identities(t) |->
                     IF pending /\ s \in DOMAIN d.pending.scores THEN d.pending.scores[s]
                     ELSE d.scores[SavedSeatPlayer(t, s)]]]

SeatView == ViewOf(lib, table)

\* Whatever joins, claims, saves and resumes happen, in whatever order: the order of
\* the seats only grows at its end, the turn stays where it was, turns that were
\* stopped stay stopped and those that were not go on once nobody is missing, and no
\* seat gains or loses a point; and while somebody is missing nobody has a turn.
\* (docs/adr/0007-saved-tables.md; the reconciliation of STDLIB_V1.)
TurnsSurvive ==
  /\ [][turned' = turned =>
          /\ IsPrefix(SeatView.order, SeatView'.order)
          /\ SeatView.order # << >> => SeatView'.current = SeatView.current
          /\ SeatView'.active = SeatView.active
          /\ \A s \in DOMAIN SeatView.points : SeatView'.points[s] = SeatView.points[s]]_turnVars
  /\ [](started /\ Waiters(table) # {} => ~lib.active)
=============================================================================
