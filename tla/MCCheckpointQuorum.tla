-------------------------- MODULE MCCheckpointQuorum --------------------------
\* Small instances of CheckpointQuorum.
EXTENDS CheckpointQuorum, TLC

Symmetry == Permutations(Voters) \cup Permutations(Hashes)
=============================================================================
