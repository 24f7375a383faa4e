----------------------------- MODULE RendererMount -----------------------------
(***************************************************************************)
(* The renderer of a table: one view after the other is opened and left    *)
(* (the effect of apps/web/src/scene/useBabylonScene.ts), each tries the   *)
(* Lite renderer and falls back to WebGL (mountSceneAdapter.ts), and an    *)
(* attempt is a chain of steps nobody can cancel: the renderer's code is   *)
(* loaded (loadSceneAdapter.ts), its engine created, its scene registered, *)
(* its loop started (liteSceneAdapter.ts; WebGL does all that at once),    *)
(* and two frames shown (firstSceneFrames.ts).  What a view has left, or a *)
(* deadline has ended, still comes back later with a live engine in hand.  *)
(***************************************************************************)
EXTENDS Integers, Sequences, SequencesExt

CONSTANT MaxViews   \* bound: how often the table is opened, or loaded again

ASSUME MountAssumption == MaxViews \in Nat

VARIABLES
  view,       \* [number, state]: the last view, and its renderState
  attempts,   \* every initializeWithin: what its adapter has got to, and what it holds
  factories,  \* the renderers whose code is here
  visible     \* the page is to be seen

mountVars == <<view, attempts, factories, visible>>

\* live: it holds an engine; running: setRenderLoop; slow: a software driver, which counts
\* a frame only once its loop has drawn one.
Attempt(renderer) ==
  [renderer |-> renderer, step |-> "load", cancelled |-> FALSE, live |-> FALSE, running |-> FALSE, slow |-> FALSE]

MountInit ==
  /\ view = [number |-> 0, state |-> "left"] /\ attempts = << >>
  /\ factories = {} /\ visible \in BOOLEAN

\* lifetime.abort and dispose; only the wait for frames ends at once.
Cancelled(a) ==
  [a EXCEPT !.cancelled = TRUE, !.live = FALSE, !.running = FALSE, !.step = IF @ = "frames" THEN "over" ELSE @]

Over(a) == [a EXCEPT !.step = "over", !.live = FALSE, !.running = FALSE]

Pending(i) == view.state = "loading" /\ i = Len(attempts) /\ ~attempts[i].cancelled

\* The attempt a, the i-th, is rejected: Lite gives way to WebGL, on a canvas of its own.
Reject(i, a) ==
  LET rejected == [attempts EXCEPT ![i] = a]
  IN  IF ~Pending(i) THEN attempts' = rejected /\ UNCHANGED view
      ELSE IF a.renderer = "lite" THEN attempts' = Append(rejected, Attempt("webgl")) /\ UNCHANGED view
      ELSE attempts' = rejected /\ view' = [view EXCEPT !.state = "failed"]

\* The selection follows from the device and the address.
OpenView(renderer) ==
  /\ view.state = "left" /\ view.number < MaxViews
  /\ view' = [number |-> view.number + 1, state |-> "loading"]
  /\ attempts' = Append(attempts, Attempt(renderer))
  /\ UNCHANGED <<factories, visible>>

\* The cleanup of the effect, when the page is left or the view is loaded again.
LeaveView ==
  /\ view.state # "left" /\ view' = [view EXCEPT !.state = "left"]
  /\ attempts' = [attempts EXCEPT ![Len(attempts)] = IF view.state = "ready" THEN Over(@) ELSE Cancelled(@)]
  /\ UNCHANGED <<factories, visible>>

Deadline(i) ==
  /\ Pending(i) /\ attempts[i].step # "shown"
  /\ Reject(i, Cancelled(attempts[i]))
  /\ UNCHANGED <<factories, visible>>

-----------------------------------------------------------------------------
\* The steps of an attempt.

\* The wrapped mount goes on: the entities are drawn, and the loop follows the page.
Mounted(a) == [a EXCEPT !.step = "frames", !.live = TRUE, !.running = visible]

LoadArrives(i) ==
  LET a == attempts[i]
  IN  /\ a.step = "load" /\ factories' = factories \cup {a.renderer}
      /\ attempts' \in {[attempts EXCEPT ![i] = b] : b \in
           IF a.cancelled THEN {Over(a)}
           ELSE IF a.renderer = "lite" THEN {[a EXCEPT !.step = "create"]}
           ELSE {[Mounted(a) EXCEPT !.slow = slow] : slow \in BOOLEAN}}
      /\ UNCHANGED <<view, visible>>

LoadFails(i) ==
  /\ attempts[i].step = "load" /\ attempts[i].renderer \notin factories
  /\ Reject(i, Over(attempts[i]))
  /\ UNCHANGED <<factories, visible>>

EngineCreated(i) ==
  /\ attempts[i].step = "create"
  /\ attempts' = [attempts EXCEPT ![i] = IF @.cancelled THEN Over(@) ELSE [@ EXCEPT !.step = "register", !.live = TRUE]]
  /\ UNCHANGED <<view, factories, visible>>

\* Shaders and assets registered for a scene that was disposed of meanwhile.
LateResources(i) ==
  /\ attempts[i].step \in {"register", "start"} /\ attempts[i].cancelled /\ ~attempts[i].live
  /\ attempts' = [attempts EXCEPT ![i].live = TRUE]
  /\ UNCHANGED <<view, factories, visible>>

\* Fault: what a cancelled registration made is not retired.
Registered_NotRetired(i) ==
  /\ attempts[i].step = "register"
  /\ attempts' = [attempts EXCEPT ![i].step = IF attempts[i].cancelled THEN "over" ELSE "start"]
  /\ UNCHANGED <<view, factories, visible>>

Registered(i) ==
  /\ attempts[i].step = "register"
  /\ attempts' = [attempts EXCEPT ![i] = IF @.cancelled THEN Over(@) ELSE [@ EXCEPT !.step = "start"]]
  /\ UNCHANGED <<view, factories, visible>>

Started(i) ==
  /\ attempts[i].step = "start"
  /\ attempts' = [attempts EXCEPT ![i] = IF @.cancelled THEN Over(@) ELSE Mounted(@)]
  /\ UNCHANGED <<view, factories, visible>>

\* A step of Lite that is refused by the device; WebGL that the device has not.
StepFails(i) ==
  /\ \/ attempts[i].step \in {"create", "register", "start"}
     \/ attempts[i].step = "load" /\ attempts[i].renderer = "webgl" /\ "webgl" \in factories /\ ~attempts[i].cancelled
  /\ Reject(i, Over(attempts[i]))
  /\ UNCHANGED <<factories, visible>>

\* Animation frames come only while the page is to be seen.
FramesShown(i) ==
  /\ attempts[i].step = "frames" /\ visible /\ (attempts[i].slow => attempts[i].running)
  /\ attempts' = [attempts EXCEPT ![i].step = "shown"]
  /\ UNCHANGED <<view, factories, visible>>

\* mount goes on with the adapter it awaited.
Adopt(i) ==
  /\ attempts[i].step = "shown"
  /\ IF Pending(i)
     THEN /\ attempts' = [attempts EXCEPT ![i].step = "mounted", ![i].running = visible]
          /\ view' = [view EXCEPT !.state = "ready"]
     ELSE attempts' = [attempts EXCEPT ![i] = Over(@)] /\ UNCHANGED view
  /\ UNCHANGED <<factories, visible>>

\* syncRenderLoop listens once the view is ready.
TogglePage ==
  /\ visible' = ~visible
  /\ attempts' = IF view.state = "ready" THEN [attempts EXCEPT ![Len(attempts)].running = ~visible] ELSE attempts
  /\ UNCHANGED <<view, factories>>

MountNext ==
  \/ \E renderer \in {"lite", "webgl"} : OpenView(renderer)
  \/ LeaveView \/ TogglePage
  \/ \E i \in DOMAIN attempts :
       \/ Deadline(i) \/ LoadArrives(i) \/ LoadFails(i) \/ EngineCreated(i) \/ LateResources(i)
       \/ Registered(i) \/ Started(i) \/ StepFails(i) \/ FramesShown(i) \/ Adopt(i)

MountSpec == MountInit /\ [][MountNext]_mountVars

-----------------------------------------------------------------------------
\* However late the steps of earlier attempts come back: no engine outlives its attempt
\* (but what a registration makes while it is still under way), a view that is ready has
\* an engine whose loop runs just while the page is to be seen, and a view that is
\* loading has an attempt whose deadline is ahead, so that it does not load for ever.
\* (initializeWithin's lifetime, the checks after each await of the Lite renderer's mount,
\* and effectDisposed.)
RenderersAreRetired ==
  /\ \A i \in DOMAIN attempts :
       attempts[i].live =>
         \/ i = Len(attempts) /\ view.state \in {"loading", "ready"} /\ ~attempts[i].cancelled
         \/ attempts[i].cancelled /\ attempts[i].step \in {"register", "start"}
  /\ view.state = "ready" => Last(attempts).live /\ Last(attempts).running = visible
  /\ view.state = "loading" => Pending(Len(attempts)) /\ Last(attempts).step # "over"
=============================================================================
