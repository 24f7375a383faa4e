----------------------------- MODULE PlayCounts -----------------------------
(***************************************************************************)
(* The play counter of a game: each player of a room is counted once, when *)
(* their first bootstrap has been sent, in the room's own storage; batches *)
(* of the uncounted are later added to games.total_plays in D1             *)
(* (apps/worker/src/index.ts recordFirstBootstrap, flushPlayCounts;        *)
(* play-count.ts is the same ledger without storage).                      *)
(*                                                                         *)
(* A flush takes the pending players in one transaction of the room and    *)
(* sends its UPDATE after it; departures, the alarm and the end of the     *)
(* room flush on their own, so flushes overlap.  Players bootstrap again   *)
(* after every reconnect.  total_plays is kept by whom it counts.          *)
(***************************************************************************)
EXTENDS Integers

CONSTANTS
  Guests,   \* players of the room
  Flushers   \* who flushes: the alarm, a departure, the end of the room

VARIABLES
  counted,   \* counted_players
  flushed,   \* those of them with flushed = 1
  sending,   \* the UPDATE of each flusher that is under way: the players it stands for
  plays,     \* games.total_plays: how often each player is part of it
  lost       \* players of UPDATEs that failed

countVars == <<counted, flushed, sending, plays, lost>>

CountInit ==
  /\ counted = {} /\ flushed = {} /\ lost = {}
  /\ sending = [f \in Flushers |-> {}]
  /\ plays = [p \in Guests |-> 0]

\* afterHelloSent of a bootstrap or a resume.
RecordFirstBootstrap(p) ==
  /\ counted' = counted \cup {p}
  /\ UNCHANGED <<flushed, sending, plays, lost>>

\* Fault: the rows are marked only once the write is under way.
Flush_Unmarked(f) ==
  /\ sending[f] = {} /\ counted # flushed
  /\ sending' = [sending EXCEPT ![f] = counted \ flushed]
  /\ UNCHANGED <<counted, flushed, plays, lost>>

\* flushPlayCounts up to its await: nothing is sent when nobody is pending.
Flush(f) ==
  /\ sending[f] = {} /\ counted # flushed
  /\ flushed' = counted
  /\ sending' = [sending EXCEPT ![f] = counted \ flushed]
  /\ UNCHANGED <<counted, plays, lost>>

\* The UPDATE is applied; or it fails, or the room is evicted first, and is not repeated.
AddPlays(f) ==
  /\ sending[f] # {}
  /\ plays' = [p \in Guests |-> IF p \in sending[f] THEN plays[p] + 1 ELSE plays[p]]
  /\ sending' = [sending EXCEPT ![f] = {}]
  /\ UNCHANGED <<counted, flushed, lost>>

LosePlays(f) ==
  /\ sending[f] # {}
  /\ lost' = lost \cup sending[f]
  /\ sending' = [sending EXCEPT ![f] = {}]
  /\ UNCHANGED <<counted, flushed, plays>>

CountNext ==
  \/ \E p \in Guests : RecordFirstBootstrap(p)
  \/ \E f \in Flushers : Flush(f) \/ AddPlays(f) \/ LosePlays(f)

CountSpec == CountInit /\ [][CountNext]_countVars

\* No player is ever counted twice, whatever overlaps and reconnects; and every
\* player whose row is marked is on the way, counted or lost with a failed write.
\* ("A failed batch may be lost (allowed), but it can never be applied twice.")
PlaysCountedOnce ==
  /\ \A p \in Guests :
       /\ plays[p] \in {0, 1}
       /\ plays[p] = 1 => p \in flushed /\ p \notin lost
       /\ \A f \in Flushers : p \in sending[f] => p \in flushed /\ plays[p] = 0 /\ p \notin lost
  /\ \A f, g \in Flushers : f # g => sending[f] \cap sending[g] = {}
  /\ \A p \in flushed : p \in lost \/ plays[p] = 1 \/ \E f \in Flushers : p \in sending[f]
=============================================================================
