------------------------------ MODULE ActionLog ------------------------------
(***************************************************************************)
(* What the sequencer of a room promises its clients, without windows,     *)
(* checkpoints or retries: one total order that only grows, in which an    *)
(* idempotency key occurs at most once, and for every request the position *)
(* its answer names, now and for ever (NET-02 of docs/spec/handoff-v2.txt).  *)
(* RoomLog implements it.                                                  *)
(***************************************************************************)
EXTENDS Integers, Sequences

CONSTANT Requests   \* client request ids

VARIABLES
  order,            \* the keys of the canonical actions, in order
  answer            \* the position each request was answered with, or 0

promise == <<order, answer>>

RequestKey(r) == [kind |-> "request", of |-> r]

Distinct(keys) == \A i, j \in 1 .. Len(keys) : keys[i] = keys[j] => i = j

Init == order = << >> /\ answer = [r \in Requests |-> 0]

\* The order grows and stays free of repetitions.
Grows ==
  /\ Len(order) < Len(order')
  /\ \A i \in 1 .. Len(order) : order'[i] = order[i]
  /\ Distinct(order')

\* A request gets the next position, once.
Submit(r) ==
  /\ answer[r] = 0
  /\ Grows
  /\ Len(order') = Len(order) + 1
  /\ order'[Len(order) + 1] = RequestKey(r)
  /\ answer' = [answer EXCEPT ![r] = Len(order) + 1]

\* The room itself appends: game start, players, seats, timers.
Lifecycle ==
  /\ Grows
  /\ \A i \in Len(order) + 1 .. Len(order') : order'[i].kind # "request"
  /\ UNCHANGED answer

Next == Lifecycle \/ \E r \in Requests : Submit(r)

Spec == Init /\ [][Next]_promise
=============================================================================
