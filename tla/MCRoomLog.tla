------------------------------ MODULE MCRoomLog ------------------------------
\* A small room: a window of four actions, a checkpoint every second one, and
\* an alarm that may fire three timers at once, the largest batch
\* LogAssumption allows for these bounds.
EXTENDS RoomLog, TLC

Symmetry == Permutations(Requests) \cup Permutations(Players) \cup Permutations(Timers)
=============================================================================
