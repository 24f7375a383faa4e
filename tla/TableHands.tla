------------------------------- MODULE TableHands -------------------------------
(***************************************************************************)
(* A player's hands on the table: fingers and a mouse, whose events become *)
(* gestures (apps/web/src/scene/useBabylonScene.ts, touchGestures.ts,      *)
(* desktopControls.ts, sceneInteraction.ts) and those the grabs and drops  *)
(* of pieces (liteSceneAdapter.ts, dragActions.ts), while the table goes   *)
(* on under them: picks answer late, other players act, pieces are drawn   *)
(* anew, the connection is lost, the seat is changed.                      *)
(*                                                                         *)
(* Touches are handled one after the other, because a pick is awaited in   *)
(* between; the mouse is handled at once and its picks come in later.      *)
(* Coordinates and times are left out: that a finger moved beyond the      *)
(* slop, or rested beyond a deadline, is a choice.  What pointers do       *)
(* without holding anything (hovering, orbiting, menus) leaves no state.   *)
(***************************************************************************)
EXTENDS Integers, Sequences, FiniteSets, SequencesExt

CONSTANTS
  Pieces, Fingers,
  Mouse, Nothing,
  MaxInputs,    \* bound: what the player does
  MaxChanges    \* bound: what happens on the table meanwhile

ASSUME HandsAssumption ==
  /\ MaxInputs \in Nat /\ MaxChanges \in Nat /\ Mouse \notin Fingers
  /\ Nothing \notin Pieces \cup Fingers \cup {Mouse}

VARIABLES
  table,    \* the adapter and the displayed state: who holds each piece, which are to be
            \* seen, which of them have the bounds to be dragged in, what is being dragged,
            \* and what was let go without a drop
  touch,    \* TouchGestureMachine
  touchQueue,  \* touchQueue
  picking,  \* its first job awaits a pick
  press,    \* DesktopControlMachine: the left button
  picks,    \* the mouse's picks under way
  fingers, button,  \* what is really down
  paused, open,     \* the interactions, and the connection
  seat,     \* seatGeneration
  inputs, changes

handVars == <<table, touch, touchQueue, picking, press, picks, fingers, button, paused, open, seat, inputs, changes>>
mouseVars == <<press, picks, button>>
stageVars == <<paused, open, seat, changes>>

Pointers == Fingers \cup {Mouse}
NoHold == [pointer |-> Nothing, piece |-> Nothing]
NoSingle == [pointer |-> Nothing]
NoTouch == [down |-> {}, single |-> NoSingle, multi |-> FALSE, tap |-> FALSE]
NoPress == [down |-> FALSE]

HandsInit ==
  /\ table = [drag |-> NoHold, holder |-> [e \in Pieces |-> "nobody"], shown |-> Pieces, bounded |-> Pieces, lost |-> {}]
  /\ touch = NoTouch /\ touchQueue = << >> /\ picking = FALSE
  /\ press = NoPress /\ picks = << >> /\ fingers = {} /\ button = FALSE
  /\ paused = FALSE /\ open = TRUE /\ seat = 0 /\ inputs = 0 /\ changes = 0

Input == inputs < MaxInputs /\ inputs' = inputs + 1
Change == changes < MaxChanges /\ changes' = changes + 1

-----------------------------------------------------------------------------
\* The adapter.

Grabbable(e) == e \in table.shown /\ table.holder[e] = "nobody"

\* beginDrag: the grab is sent, and predicted.
Begin(e, pointer) ==
  IF ~paused /\ table.drag = NoHold /\ Grabbable(e) /\ e \in table.bounded
  THEN [table EXCEPT !.drag = [pointer |-> pointer, piece |-> e], !.holder[e] = "me", !.lost = @ \ {e}]
  ELSE table

\* finishDrag: a piece that is not there, or that got no bounds, is not dropped; and the
\* drop is lost without a connection.
FinishDrag(pointer, sent) ==
  LET e == table.drag.piece
      dropped == sent /\ e \in table.shown \cap table.bounded
  IN  IF table.drag.pointer # pointer THEN table
      ELSE [table EXCEPT !.drag = NoHold,
                         !.holder[e] = IF dropped /\ @ = "me" THEN "nobody" ELSE @,
                         !.lost = IF dropped THEN @ ELSE @ \cup {e}]

-----------------------------------------------------------------------------
\* TouchGestureMachine.

\* Fault: a second finger forgets the drag of the first.
CancelsDrag_Never == FALSE

CancelsDrag == touch.single # NoSingle /\ touch.single.dragging

\* abort, and what comes of it.
AbortTouch(sent) ==
  /\ touch' = NoTouch
  /\ table' = IF touch.single # NoSingle /\ touch.single.dragging THEN FinishDrag(touch.single.pointer, sent) ELSE table

\* A tap that waited for a second one may have been told meanwhile.
Tap == {FALSE, touch.tap}

Down(p, e) ==
  LET down == touch.down \cup {p}
  IN  \/ /\ Cardinality(down) = 1
         /\ \E tap \in Tap : touch' = [touch EXCEPT !.down = down, !.tap = tap,
              !.single = [pointer |-> p, piece |-> e, grabbable |-> e # Nothing /\ Grabbable(e),
                          moved |-> FALSE, dragging |-> FALSE, fired |-> FALSE]]
         /\ UNCHANGED table
      \/ /\ Cardinality(down) = 2
         /\ touch' = [down |-> down, single |-> NoSingle, multi |-> TRUE, tap |-> FALSE]
         /\ table' = IF CancelsDrag THEN FinishDrag(touch.single.pointer, TRUE) ELSE table
      \/ /\ Cardinality(down) \notin {1, 2}
         /\ touch' = [touch EXCEPT !.down = down] /\ UNCHANGED table

Move(p) ==
  IF touch.multi \/ touch.single.pointer # p THEN UNCHANGED <<touch, table>>
  ELSE \E moved \in {touch.single.moved, TRUE}, fired \in BOOLEAN, tap \in Tap :
         LET drags == moved /\ touch.single.grabbable
         IN  /\ fired => touch.single.fired \/ (~moved /\ touch.single.piece # Nothing)
             /\ touch.single.fired => fired
             /\ touch' = [touch EXCEPT !.tap = tap, !.single.moved = moved, !.single.fired = fired, !.single.dragging = drags]
             /\ table' = IF drags /\ ~touch.single.dragging THEN Begin(touch.single.piece, p) ELSE table

\* A touch that neither moved nor rested is a tap, or the second one of two.
Up(p) ==
  LET down == touch.down \ {p}
      single == touch.single
  IN  IF touch.multi
      THEN touch' = [touch EXCEPT !.down = down, !.single = NoSingle, !.multi = Cardinality(down) >= 2] /\ UNCHANGED table
      ELSE IF single.pointer # p THEN touch' = [touch EXCEPT !.down = down] /\ UNCHANGED table
      ELSE /\ \E tap \in IF single.moved \/ single.fired THEN Tap ELSE BOOLEAN :
                touch' = [touch EXCEPT !.down = down, !.single = NoSingle, !.tap = tap]
           /\ table' = IF single.dragging THEN FinishDrag(p, TRUE) ELSE table

\* The deadline of a long press or of a tap.
GestureTimer ==
  \/ /\ touch.single # NoSingle /\ ~touch.single.moved /\ ~touch.single.fired /\ touch.single.piece # Nothing
     /\ touch' = [touch EXCEPT !.single.fired = TRUE]
     /\ UNCHANGED <<table, touchQueue, picking, mouseVars, fingers, stageVars, inputs>>
  \/ /\ touch.tap /\ touch' = [touch EXCEPT !.tap = FALSE]
     /\ UNCHANGED <<table, touchQueue, picking, mouseVars, fingers, stageVars, inputs>>

-----------------------------------------------------------------------------
\* Touches.

Queued(type, p) == Append(touchQueue, [type |-> type, pointer |-> p, seat |-> seat])

\* The browser takes the capture back when a finger leaves: another event.
TouchEvent(p) ==
  /\ Input
  /\ \/ p \notin fingers /\ fingers' = fingers \cup {p} /\ touchQueue' = Queued("down", p)
     \/ p \in fingers /\ UNCHANGED fingers /\ touchQueue' = Queued("move", p)
     \/ \E type \in {"up", "cancel"} :
          p \in fingers /\ fingers' = fingers \ {p} /\ touchQueue' = Queued(type, p) \o <<[type |-> "cancel", pointer |-> p, seat |-> seat]>>
  /\ UNCHANGED <<table, touch, picking, mouseVars, stageVars>>

\* A job of the touchQueue; before a touch is handled, its place is picked.
RunTouch ==
  /\ touchQueue # << >> /\ ~picking
  /\ LET job == Head(touchQueue)
         starts == job.seat = seat /\ ~paused /\ job.type = "down"
     IN  /\ picking' = starts
         /\ touchQueue' = IF starts THEN touchQueue ELSE Tail(touchQueue)
         /\ \/ (starts \/ job.seat # seat) /\ UNCHANGED <<touch, table>>
            \/ job.seat = seat /\ paused /\ AbortTouch(open)
            \/ /\ job.seat = seat /\ ~paused /\ job.type # "down"
               /\ \/ job.pointer \notin touch.down /\ UNCHANGED <<touch, table>>
                  \/ /\ job.pointer \in touch.down
                     /\ \/ job.type = "cancel" /\ AbortTouch(open)
                        \/ job.type = "move" /\ Move(job.pointer)
                        \/ job.type = "up" /\ Up(job.pointer)
  /\ UNCHANGED <<mouseVars, fingers, stageVars, inputs>>

\* The pick of a touch: a piece that is to be seen, the table, or a failure.  What was
\* paused, or left for another seat, during the pick is forgotten.
TouchPicked(e) ==
  /\ picking /\ picking' = FALSE /\ touchQueue' = Tail(touchQueue)
  /\ e \in table.shown \cup {Nothing}
  /\ IF Head(touchQueue).seat # seat \/ paused THEN AbortTouch(open) ELSE Down(Head(touchQueue).pointer, e)
  /\ UNCHANGED <<mouseVars, fingers, stageVars, inputs>>

TouchPickFails ==
  /\ picking /\ picking' = FALSE /\ touchQueue' = Tail(touchQueue)
  /\ AbortTouch(open)
  /\ UNCHANGED <<mouseVars, fingers, stageVars, inputs>>

-----------------------------------------------------------------------------
\* The mouse.

MouseDown(e) ==
  /\ Input /\ ~button /\ button' = TRUE
  /\ e \in table.shown \cup {Nothing}
  /\ IF paused THEN UNCHANGED <<press, picks>>
     ELSE press' = [down |-> TRUE, piece |-> Nothing, flip |-> FALSE] /\ picks' = Append(picks, [piece |-> e, seat |-> seat])
  /\ UNCHANGED <<table, touch, touchQueue, picking, fingers, stageVars>>

\* claimObject: whichever press is live when the pick answers.
MousePicked ==
  /\ picks # << >> /\ picks' = Tail(picks)
  /\ LET e == Head(picks).piece
     IN  IF Head(picks).seat = seat /\ ~paused /\ e # Nothing /\ Grabbable(e) /\ press.down /\ press.piece = Nothing
         THEN press' = [press EXCEPT !.piece = e] /\ table' = Begin(e, Mouse)
         ELSE UNCHANGED <<press, table>>
  /\ UNCHANGED <<touch, touchQueue, picking, button, fingers, stageVars, inputs>>

\* A piece is drawn anew when its looks change.
Redrawn(t, e) == [t EXCEPT !.bounded = IF t.holder[e] = "nobody" THEN @ \cup {e} ELSE @ \ {e}]

\* The drop, and the flip that was asked for meanwhile.
MouseUp ==
  /\ Input /\ button /\ button' = FALSE /\ press' = NoPress
  /\ LET after == FinishDrag(Mouse, TRUE)
     IN  table' = IF ~press.down \/ press.piece = Nothing THEN table
                  ELSE IF press.flip /\ press.piece \in table.shown THEN Redrawn(after, press.piece)
                  ELSE after
  /\ UNCHANGED <<touch, touchQueue, picking, picks, fingers, stageVars>>

FlipKey ==
  /\ Input /\ ~paused /\ press.down /\ press.piece # Nothing
  /\ press' = [press EXCEPT !.flip = ~@]
  /\ UNCHANGED <<table, touch, touchQueue, picking, picks, button, fingers, stageVars>>

\* desktop.cancel and desktop.abort
LetGoOfMouse(t) == press' = NoPress /\ table' = IF press.down /\ press.piece # Nothing THEN t ELSE table

\* Escape, or the capture is lost.
MouseCancelled ==
  /\ Input /\ press.down /\ LetGoOfMouse(FinishDrag(Mouse, open))
  /\ \/ ~paused /\ UNCHANGED button
     \/ button' = FALSE
  /\ UNCHANGED <<touch, touchQueue, picking, picks, fingers, stageVars>>

-----------------------------------------------------------------------------
\* What happens meanwhile.

\* Everything that is held is let go: at most one of the two has hold of a piece.
AbortAll ==
  /\ touch' = NoTouch /\ press' = NoPress
  /\ table' = IF (touch.single # NoSingle /\ touch.single.dragging) \/ (press.down /\ press.piece # Nothing)
              THEN FinishDrag(table.drag.pointer, open) ELSE table

\* Fault: a pause leaves the drag to the gesture that began it.
LetGo_Later(sent) == table

\* The adapter cancels its drag before it pauses.
LetGo(sent) == FinishDrag(table.drag.pointer, sent)

\* A pause ends the touches; a press of the mouse goes on.
Pause(sent) ==
  /\ Change /\ ~paused /\ paused' = TRUE /\ open' = sent
  /\ touch' = NoTouch /\ table' = LetGo(sent)
  /\ UNCHANGED <<touchQueue, picking, mouseVars, fingers, seat, inputs>>

Unpause ==
  /\ paused /\ paused' = FALSE /\ open' = TRUE
  /\ UNCHANGED <<table, touch, touchQueue, picking, mouseVars, fingers, seat, inputs, changes>>

ChangeSeat ==
  /\ Change /\ seat' = seat + 1 /\ AbortAll
  /\ UNCHANGED <<touchQueue, picking, picks, button, fingers, paused, open, inputs>>

Hidden ==
  /\ Change /\ AbortAll
  /\ UNCHANGED <<touchQueue, picking, picks, button, fingers, paused, open, seat, inputs>>

\* syncEntities: somebody takes or leaves a piece, or the room takes it from whoever
\* holds it; its looks change; it goes into a container and comes back out.
Synced ==
  /\ Change
  /\ \E e \in Pieces :
       table' \in
         {[table EXCEPT !.holder[e] = h] : h \in {"other", "nobody"}}
         \cup (IF e \in table.shown THEN {Redrawn(table, e), [table EXCEPT !.shown = @ \ {e}]}
               ELSE {[Redrawn(table, e) EXCEPT !.shown = @ \cup {e}]})
  /\ UNCHANGED <<touch, touchQueue, picking, mouseVars, fingers, paused, open, seat, inputs>>

HandsNext ==
  \/ \E p \in Fingers : TouchEvent(p)
  \/ RunTouch \/ TouchPickFails \/ GestureTimer
  \/ \E e \in Pieces \cup {Nothing} : TouchPicked(e) \/ MouseDown(e)
  \/ MousePicked \/ MouseUp \/ FlipKey \/ MouseCancelled
  \/ (\E sent \in BOOLEAN : Pause(sent)) \/ Unpause \/ ChangeSeat \/ Hidden \/ Synced

HandsSpec == HandsInit /\ [][HandsNext]_handVars

-----------------------------------------------------------------------------
\* The gesture that drags, or has just ended, is one of a pointer that is down, or whose
\* leaving is known and still to be handled.
TouchDrags(d) ==
  /\ touch.single # NoSingle /\ touch.single.dragging
  /\ touch.single.pointer = d.pointer /\ touch.single.piece = d.piece
  /\ \/ d.pointer \in fingers
     \/ \E i \in DOMAIN touchQueue : touchQueue[i].pointer = d.pointer /\ touchQueue[i].type \in {"up", "cancel"} /\ touchQueue[i].seat = seat

MouseDrags(d) == d.pointer = Mouse /\ button /\ press.down /\ press.piece = d.piece

\* Nothing is dragged without a hand: a drag is that of the gesture which began it, and
\* its pointer is down or about to be handled as lifted.  What the player holds is what is
\* being dragged, except for a piece whose drop could not be sent when it was let go.
\* (TouchGestureMachine, DesktopControlMachine and the adapter each keep their own idea of
\* who drags what, across picks, pauses and changes of seat.)
HandsHoldWhatTheyDrag ==
  /\ table.drag # NoHold => TouchDrags(table.drag) \/ MouseDrags(table.drag)
  /\ \A e \in Pieces : table.holder[e] = "me" => table.drag.piece = e \/ e \in table.lost
=============================================================================
