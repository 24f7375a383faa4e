------------------------------ MODULE MCRoomLife ------------------------------
\* Small instances of the life of a room beside its log: who is present and how
\* long the room lives, its timers, its attested checkpoints, the frames of one of its
\* sockets.  They share no state here, so each behaviour is one of a single part, and the rest stays as
\* it is.
EXTENDS RoomPresence, RoomTimers, CheckpointQuorum, WireFrames, TLC

VARIABLE part

LifeInit ==
  /\ part \in {"presence", "timers", "quorum", "wire"}
  /\ PresenceInit /\ TimersInit /\ QuorumInit /\ WireInit

LifeNext ==
  /\ \/ part = "presence" /\ PresenceNext /\ UNCHANGED <<timerVars, quorumVars, wireVars>>
     \/ part = "timers" /\ TimersNext /\ UNCHANGED <<presenceVars, quorumVars, wireVars>>
     \/ part = "quorum" /\ QuorumNext /\ UNCHANGED <<presenceVars, timerVars, wireVars>>
     \/ part = "wire" /\ WireNext /\ UNCHANGED <<presenceVars, timerVars, quorumVars>>
  /\ UNCHANGED part

LifeSpec == LifeInit /\ [][LifeNext]_<<presenceVars, timerVars, quorumVars, wireVars, part>>

\* Players and voters share their names, and so do tabs, timers and hashes, so that
\* a small group of permutations serves all three parts.
Symmetry == Permutations(Players) \cup Permutations(Tabs)
=============================================================================
