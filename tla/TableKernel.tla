----------------------------- MODULE TableKernel -----------------------------
(***************************************************************************)
(* Where the pieces of a table are, under the kernel's actions             *)
(* (packages/kernel/src/actions.ts): loose in the world, in a box (an      *)
(* entity with a container: a deck or a hand), in a stack, or attached to  *)
(* a snap point; who holds them, and which zones they are members of.      *)
(*                                                                         *)
(* One step is the apply of one action that its validate accepts, by a     *)
(* player, a script or the system; a rejected action changes nothing here. *)
(* The check of the whole state after each action (canonical.ts) is not    *)
(* part of the steps: the invariants say that it never has to reject what  *)
(* validate has accepted.                                                  *)
(*                                                                         *)
(* Positions are a few named places, of which a zone covers some and a     *)
(* snap point reaches some.  Boxes, snap points and zones stay where they  *)
(* are, tags never change.  Where the code breaks a tie by distance or by  *)
(* id, any of the candidates may be taken.  A stack is its items, last on  *)
(* top: its id only names it.                                              *)
(***************************************************************************)
EXTENDS Integers, SequencesExt, TLC

CONSTANTS
  Pieces,      \* entities that can be grabbed
  Stackable,   \* those with stackable.enabled
  Boxes,       \* entities with a container
  Decks,       \* those with an enabled deck
  Lockable,    \* pieces with a lockable component
  SnapPoints,
  Zones,
  Places,
  Players,
  Capacity,    \* container.capacity and snap-point.capacity
  Reach,       \* places within a snap point's radius
  SnapTakes,   \* pieces whose tags a snap point accepts
  Area,        \* places inside a zone
  ZoneTakes,   \* pieces whose tags a zone accepts
  World,       \* null as the end of a transfer
  None         \* null

ASSUME TableAssumption ==
  /\ IsFiniteSet(Pieces)
  /\ Stackable \cup Lockable \subseteq Pieces /\ Decks \subseteq Boxes
  /\ World \notin Boxes /\ None \notin Players
  /\ Capacity \in [Boxes \cup SnapPoints -> Nat]
  /\ Reach \in [SnapPoints -> SUBSET Places] /\ SnapTakes \in [SnapPoints -> SUBSET Pieces]
  /\ Area \in [Zones -> SUBSET Places] /\ ZoneTakes \in [Zones -> SUBSET Pieces]

VARIABLES
  box,       \* container.items of each box, the last on top
  stacks,    \* the stacks, as the sequences of their items
  attached,  \* snap-point.attached
  heldBy,    \* grabbable.heldBy
  locked,    \* lockable.locked
  at,        \* transform.position
  members,   \* zone.members
  present    \* players

tableVars == <<box, stacks, attached, heldBy, locked, at, members, present>>

-----------------------------------------------------------------------------
Boxed(p) == \E b \in Boxes : p \in Range(box[b])
Stacked(p) == \E s \in stacks : p \in Range(s)
Snapped(p) == \E n \in SnapPoints : p \in attached[n]

\* No exclusivePlacement.
Loose(p) == ~Boxed(p) /\ ~Stacked(p) /\ ~Snapped(p)

\* Fault: any piece of a stack may leave it.
CanLeave_Any(p) == TRUE

\* canLeaveCurrentPlacement: only the top leaves a stack.
CanLeave(p) == \A s \in stacks : p \in Range(s) => Last(s) = p

Inside(p, z) == p \in ZoneTakes[z] /\ at[p] \in Area[z] /\ ~Boxed(p)

\* recomputeZoneMembership of the pieces that an action has placed.
Recompute(placed) ==
  members' = [z \in Zones |-> (members[z] \ placed) \cup {p \in placed : Inside(p, z)'}]

Without(s, p) == IF p \in Range(s) THEN RemoveAt(s, CHOOSE i \in DOMAIN s : s[i] = p) ELSE s

\* detachExclusivePlacement.
BoxesWithout(p) == [b \in Boxes |-> Without(box[b], p)]
StacksWithout(p) == {Without(s, p) : s \in stacks} \ {<< >>}
SnapsWithout(p) == [n \in SnapPoints |-> attached[n] \ {p}]

TableInit ==
  /\ \E inside \in SUBSET Pieces : \E order \in SetToSeqs(inside) : \E d \in Decks :
       /\ Len(order) <= Capacity[d]
       /\ box = [b \in Boxes |-> IF b = d THEN order ELSE << >>]
  /\ stacks = {} /\ attached = [n \in SnapPoints |-> {}]
  /\ heldBy = [p \in Pieces |-> None] /\ locked = [p \in Pieces |-> FALSE]
  /\ at \in [Pieces -> Places]
  /\ members = [z \in Zones |-> {}] /\ present = {}

-----------------------------------------------------------------------------
PlayerJoined(player) ==
  /\ player \notin present
  /\ present' = present \cup {player}
  /\ UNCHANGED <<box, stacks, attached, heldBy, locked, at, members>>

\* Fault: a player who leaves keeps hold of what they held.
PlayerLeft_Holds(player) ==
  /\ player \in present
  /\ present' = present \ {player}
  /\ UNCHANGED <<box, stacks, attached, heldBy, locked, at, members>>

PlayerLeft(player) ==
  /\ player \in present
  /\ present' = present \ {player}
  /\ heldBy' = [p \in Pieces |-> IF heldBy[p] = player THEN None ELSE heldBy[p]]
  /\ UNCHANGED <<box, stacks, attached, locked, at, members>>

\* entity.grab.  The piece stays where it is until it is dropped.
Grab(player, p) ==
  /\ player \in present
  /\ heldBy[p] = None /\ ~locked[p] /\ CanLeave(p)
  /\ heldBy' = [heldBy EXCEPT ![p] = player]
  /\ UNCHANGED <<box, stacks, attached, locked, at, members, present>>

\* Fault: a snap point takes a piece although it is full.
HasRoom_Always(p, n) == p \in SnapTakes[n]

\* snapAcceptsEntity, of a piece that is not attached there.
HasRoom(p, n) == p \in SnapTakes[n] /\ Cardinality(attached[n] \ {p}) < Capacity[n]

NearestSnapPoints(p, place) == {n \in SnapPoints : place \in Reach[n] /\ HasRoom(p, n)}

\* stackTarget: the loose pieces and the stacks, by their top, at the place.
StackTargets(p, place) ==
  LET rest == StacksWithout(p)
      loose == {q \in Stackable \ {p} : at[q] = place /\ Loose(q)}
  IN  IF p \notin Stackable THEN {}
      ELSE {<<q>> : q \in loose} \cup {s \in rest : at[Last(s)] = place}

\* entity.drop: a snap point in reach, else a stack at the very place, else
\* the world.
Drop(player, p, place) ==
  LET rest == StacksWithout(p)
  IN  /\ player \in present
      /\ heldBy[p] = player /\ CanLeave(p)
      /\ heldBy' = [heldBy EXCEPT ![p] = None]
      /\ box' = BoxesWithout(p)
      /\ at' = [at EXCEPT ![p] = place]
      /\ \/ \E n \in NearestSnapPoints(p, place) :
              /\ attached' = [SnapsWithout(p) EXCEPT ![n] = @ \cup {p}]
              /\ stacks' = rest
         \/ /\ NearestSnapPoints(p, place) = {}
            /\ attached' = SnapsWithout(p)
            /\ \/ \E s \in StackTargets(p, place) : stacks' = (rest \ {s}) \cup {Append(s, p)}
               \/ StackTargets(p, place) = {} /\ stacks' = rest
      /\ UNCHANGED <<locked, present>>
      /\ Recompute({p})

\* entity.move, by a script or the system.
Move(p, place) ==
  /\ CanLeave(p)
  /\ box' = BoxesWithout(p) /\ stacks' = StacksWithout(p) /\ attached' = SnapsWithout(p)
  /\ at' = [at EXCEPT ![p] = place]
  /\ UNCHANGED <<heldBy, locked, present>>
  /\ Recompute({p})

\* snap.attach.  The piece keeps its position.
SnapAttach(p, n) ==
  /\ p \notin attached[n] /\ CanLeave(p) /\ HasRoom(p, n)
  /\ box' = BoxesWithout(p) /\ stacks' = StacksWithout(p)
  /\ attached' = [SnapsWithout(p) EXCEPT ![n] = @ \cup {p}]
  /\ UNCHANGED <<heldBy, locked, at, present>>
  /\ Recompute({p})

\* entity.set_locked, by a script or, in a sandbox, by a player.
SetLocked(p, value) ==
  /\ p \in Lockable
  /\ locked' = [locked EXCEPT ![p] = value]
  /\ UNCHANGED <<box, stacks, attached, heldBy, at, members, present>>

-----------------------------------------------------------------------------
CanTransfer(p, from, to) ==
  /\ from # to
  /\ IF from = World THEN Loose(p) ELSE p \in Range(box[from])
  /\ to # World => Len(box[to]) < Capacity[to]

Transferred(p, from, to, index) ==
  [b \in Boxes |-> IF b = from THEN Without(box[b], p)
                   ELSE IF b = to THEN InsertAt(box[b], index, p)
                   ELSE box[b]]

\* Fault: zones are not told of a transfer.
ContainerMove_NoRecompute(p, from, to, index) ==
  /\ CanTransfer(p, from, to)
  /\ box' = Transferred(p, from, to, index)
  /\ UNCHANGED <<stacks, attached, heldBy, locked, at, members, present>>

ContainerMove(p, from, to, index) ==
  /\ CanTransfer(p, from, to)
  /\ box' = Transferred(p, from, to, index)
  /\ UNCHANGED <<stacks, attached, heldBy, locked, at, present>>
  /\ Recompute({p})

DeckShuffle(deck) ==
  /\ \E order \in SetToSeqs(Range(box[deck])) : box' = [box EXCEPT ![deck] = order]
  /\ UNCHANGED <<stacks, attached, heldBy, locked, at, members, present>>

\* deck.draw_to_container: one by one off the top, each on top of the last.
\* No zone is recomputed: what was in a box and is in another is in no zone.
DeckDraw(deck, to, count) ==
  LET left == Len(box[deck]) - count
  IN  /\ deck # to /\ left >= 0
      /\ Len(box[to]) + count <= Capacity[to]
      /\ box' = [box EXCEPT ![deck] = SubSeq(@, 1, left),
                            ![to] = @ \o Reverse(SubSeq(box[deck], left + 1, left + count))]
      /\ UNCHANGED <<stacks, attached, heldBy, locked, at, members, present>>

-----------------------------------------------------------------------------
\* Only the stacks change, and zones are recomputed for some pieces.
Restacked(new, placed) ==
  /\ stacks' = new
  /\ UNCHANGED <<box, attached, heldBy, locked, at, present>>
  /\ Recompute(placed)

\* validateStackableEntity.
CanBeStacked(p) == p \in Stackable /\ Loose(p)

StackCreate(items) ==
  /\ Len(items) >= 2 /\ \A p \in Range(items) : CanBeStacked(p)
  /\ Restacked(stacks \cup {items}, Range(items))

StackAdd(s, p) ==
  /\ CanBeStacked(p)
  /\ Restacked((stacks \ {s}) \cup {Append(s, p)}, {p})

\* Whoever holds the top, it is taken off.
StackRemoveTop(s) == Restacked(StacksWithout(Last(s)), {Last(s)})

\* Zones are not recomputed: the pieces stay where they are.
StackMerge(target, source) ==
  /\ target # source
  /\ Restacked((stacks \ {target, source}) \cup {target \o source}, {})

StackDissolve(s) == Restacked(stacks \ {s}, Range(s))

-----------------------------------------------------------------------------
PlayerAction ==
  \/ \E player \in Players : PlayerJoined(player) \/ PlayerLeft(player)
  \/ \E player \in Players, p \in Pieces :
       Grab(player, p) \/ \E place \in Places : Drop(player, p, place)

\* What scripts do; players may do some of it too.
ScriptAction ==
  \/ \E p \in Pieces :
       \/ \E place \in Places : Move(p, place)
       \/ \E n \in SnapPoints : SnapAttach(p, n)
       \/ \E value \in BOOLEAN : SetLocked(p, value)
       \/ \E from, to \in Boxes \cup {World} :
            \E index \in IF to = World THEN {0} ELSE 1 .. Len(box[to]) + 1 :
              ContainerMove(p, from, to, index)
  \/ \E d \in Decks :
       \/ DeckShuffle(d)
       \/ \E b \in Boxes : \E count \in 1 .. Len(box[d]) : DeckDraw(d, b, count)
  \/ \E inside \in SUBSET Pieces : \E items \in SetToSeqs(inside) : StackCreate(items)
  \/ \E s \in stacks :
       \/ \E p \in Pieces : StackAdd(s, p)
       \/ \E t \in stacks : StackMerge(s, t)
       \/ StackRemoveTop(s) \/ StackDissolve(s)

TableNext == PlayerAction \/ ScriptAction

TableSpec == TableInit /\ [][TableNext]_tableVars

-----------------------------------------------------------------------------
\* validateCanonicalGameState, by its parts: what every state must satisfy, or the
\* action that led to it is taken back.

\* Items are known pieces, and no more than fit.
ValidContainers == \A b \in Boxes : box[b] \in Seq(Pieces) /\ Len(box[b]) <= Capacity[b]

\* No stack is empty, and what is stacked may be stacked.
ValidStacks == \A s \in stacks : s \in Seq(Stackable) /\ s # << >>

\* No more pieces than the snap point takes, and none with other tags.
ValidSnapPoints ==
  \A n \in SnapPoints : attached[n] \subseteq SnapTakes[n] /\ Cardinality(attached[n]) <= Capacity[n]

ValidZones == \A z \in Zones : members[z] \subseteq Pieces

ValidEntities ==
  /\ heldBy \in [Pieces -> Players \cup {None}]
  /\ locked \in [Pieces -> BOOLEAN] /\ \A p \in Pieces \ Lockable : ~locked[p]
  /\ at \in [Pieces -> Places]

\* memberships, the record that containers, stacks and snap points share: a piece is
\* in one of them at most, and there once.
ValidPlacements ==
  /\ \A b \in Boxes : IsInjective(box[b])
  /\ \A s \in stacks : IsInjective(s)
  /\ \A b, c \in Boxes : b # c => Range(box[b]) \cap Range(box[c]) = {}
  /\ \A s, t \in stacks : s # t => Range(s) \cap Range(t) = {}
  /\ \A m, n \in SnapPoints : m # n => attached[m] \cap attached[n] = {}
  /\ \A p \in Pieces :
       /\ ~(Boxed(p) /\ Stacked(p))
       /\ ~(Boxed(p) /\ Snapped(p))
       /\ ~(Stacked(p) /\ Snapped(p))

ValidTable ==
  /\ ValidContainers /\ ValidStacks /\ ValidSnapPoints /\ ValidZones /\ ValidEntities
  /\ ValidPlacements

-----------------------------------------------------------------------------
\* Zones follow what happens: with the very step in which a piece gets inside a
\* zone or outside of it, its membership changes accordingly, and membership
\* never changes otherwise.
ZonesFollow ==
  [][\A z \in Zones, p \in Pieces :
       /\ Inside(p, z)' # Inside(p, z) => (p \in members'[z] <=> Inside(p, z)')
       /\ (p \in members'[z]) # (p \in members[z]) => (p \in members'[z] <=> Inside(p, z)')]_tableVars

PartOf(s, u) == \E i \in 0 .. Len(u) - Len(s) : s = SubSeq(u, i + 1, i + Len(s))

\* The pieces below the top of a stack stay together and in their order, in that
\* stack or in the one it is merged into, unless the stack is dissolved: neither
\* a piece that was grabbed while it was on top, nor a script, leaves from below.
StacksStayTogether ==
  [][\A s \in stacks : \/ \E u \in stacks' \cup {<< >>} : PartOf(Front(s), u)
                       \/ \A p \in Range(s) : Loose(p)']_tableVars

\* Whatever mix of drops, transfers, draws, merges and attachments was accepted, the
\* check of the whole state (ValidTable) never has to take an action back: no piece
\* is doubled or one too many, and no stack is left empty; and nobody who has left
\* still holds a piece.  (Three kinds of placement, kept in three places, and a holder.)
PlacesAreSound ==
  ValidTable /\ present \subseteq Players /\ \A p \in Pieces : heldBy[p] \in present \cup {None}
=============================================================================
