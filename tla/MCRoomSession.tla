---------------------------- MODULE MCRoomSession ----------------------------
\* Small instances of RoomSession.
EXTENDS RoomSession, TLC

Symmetry == Permutations(Clients)
=============================================================================
