---------------------------- MODULE MCTableKernel ----------------------------
\* A small table: a deck for every piece and a hand for one, two snap points for
\* one piece each, one of which takes tagged pieces only, and a place that is
\* reached by both and lies inside the zone.
EXTENDS TableKernel

CONSTANTS deck, hand, snap, peg, zone, here, there, c

MCCapacity ==
  [x \in {deck, hand, snap, peg} |-> IF x = deck THEN Cardinality(Pieces) ELSE 1]
MCReach == [n \in {snap, peg} |-> {here}]
MCSnapTakes == [n \in {snap, peg} |-> IF n = snap THEN Pieces \ {c} ELSE Pieces]
MCArea == [z \in {zone} |-> {here}]
MCZoneTakes == [z \in {zone} |-> Pieces]

Symmetry == Permutations(Pieces \ {c}) \cup Permutations(Players)
=============================================================================
