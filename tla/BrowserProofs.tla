---------------------------- MODULE BrowserProofs ----------------------------
(***************************************************************************)
(* The player's and the author's browser, for any number of views, pieces, *)
(* fingers, acts and playtests: a renderer that was left is retired, hands *)
(* hold what they drag, a draft that says it is saved is stored, and a     *)
(* playtest shows nothing of another.                                      *)
(***************************************************************************)
EXTENDS RendererMount, TableHands, DraftEditing, Playtest, FiniteSetTheorems, SequenceTheorems, TLAPS

-----------------------------------------------------------------------------
(* The mounting of a renderer. *)

Attempts ==
  [renderer : {"lite", "webgl"},
   step : {"load", "create", "register", "start", "frames", "shown", "mounted", "over"},
   cancelled : BOOLEAN, live : BOOLEAN, running : BOOLEAN, slow : BOOLEAN]

Settled(a) == a.cancelled \/ a.step = "over"

\* An engine is created and retired where the steps of an attempt say.
Orderly(a) ==
  /\ a \in Attempts
  /\ a.live => a.step \notin {"load", "create", "over"}
  /\ a.live /\ a.cancelled => a.step \in {"register", "start"}
  /\ ~a.cancelled /\ a.step \in {"frames", "shown", "mounted"} => a.live

\* All attempts but the one that is awaited, or played with, are settled.
MountInv ==
  /\ view \in [number : Nat, state : {"left", "loading", "ready", "failed"}]
  /\ attempts \in Seq(Attempts) /\ visible \in BOOLEAN
  /\ \A i \in 1 .. Len(attempts) :
       /\ Orderly(attempts[i])
       /\ Settled(attempts[i]) \/ (i = Len(attempts) /\ view.state \in {"loading", "ready"})
       /\ attempts[i].step = "mounted" => i = Len(attempts) /\ view.state = "ready"
  /\ view.state \in {"loading", "ready"} => attempts # << >> /\ ~Settled(attempts[Len(attempts)])
  /\ view.state = "ready" =>
       attempts[Len(attempts)].step = "mounted" /\ (attempts[Len(attempts)].running <=> visible)

LEMMA InitMounts == MountInit => MountInv
<1> SUFFICES ASSUME MountInit
             PROVE  MountInv
  OBVIOUS
<1>1. attempts \in Seq(Attempts) /\ Len(attempts) = 0
  BY EmptySeq DEF MountInit
<1> QED
  BY <1>1 DEF MountInit, MountInv

LEMMA CancelledAttempt ==
  ASSUME NEW a, Orderly(a)
  PROVE  /\ Orderly(Cancelled(a)) /\ Settled(Cancelled(a))
         /\ a.step # "mounted" => Cancelled(a).step # "mounted"
BY DEF Orderly, Attempts, Cancelled, Settled

LEMMA OverAttempt ==
  ASSUME NEW a, Orderly(a)
  PROVE  Orderly(Over(a)) /\ Settled(Over(a)) /\ Over(a).step = "over"
BY DEF Orderly, Attempts, Over, Settled

\* One attempt goes on, and neither settles nor comes back.
LEMMA OneGoesOn ==
  ASSUME MountInv, NEW i \in DOMAIN attempts, NEW b, Orderly(b),
         attempts' = [attempts EXCEPT ![i] = b], view' = view, visible' = visible,
         Settled(b) <=> Settled(attempts[i]),
         b.step # "mounted", attempts[i].step # "mounted"
  PROVE  MountInv'
<1>1. /\ i \in 1 .. Len(attempts) /\ Len(attempts) \in Nat /\ b \in Attempts
      /\ attempts \in Seq(Attempts)
  BY LenProperties DEF MountInv, Orderly
<1>2. /\ attempts' \in Seq(Attempts) /\ Len(attempts') = Len(attempts)
      /\ \A j \in 1 .. Len(attempts) : attempts'[j] = IF j = i THEN b ELSE attempts[j]
  BY <1>1, ExceptSeq
<1>3. attempts' # << >> <=> attempts # << >>
  BY <1>1, <1>2, EmptySeq
<1>4. view.state = "ready" => i # Len(attempts)
  BY DEF MountInv
<1>5. \A j \in 1 .. Len(attempts)' :
        /\ Orderly(attempts[j])'
        /\ Settled(attempts[j])' \/ (j = Len(attempts)' /\ (view.state \in {"loading", "ready"})')
        /\ (attempts[j].step = "mounted")' => j = Len(attempts)' /\ (view.state = "ready")'
  BY <1>1, <1>2 DEF MountInv, Settled, Orderly
<1>6. (view.state \in {"loading", "ready"})' => (attempts # << >>)' /\ ~Settled(attempts[Len(attempts)])'
  BY <1>1, <1>2, <1>3 DEF MountInv, Settled
<1>7. (view.state = "ready")' =>
         (attempts[Len(attempts)].step = "mounted")' /\ (attempts[Len(attempts)].running <=> visible)'
  BY <1>1, <1>2, <1>4, <1>3, EmptySeq DEF MountInv
<1> QED
  BY <1>2, <1>5, <1>6, <1>7 DEF MountInv

\* An attempt that is rejected leaves the view to the next one, or to an error.
LEMMA OneIsRejected ==
  ASSUME MountInv, NEW i \in DOMAIN attempts, NEW a, Orderly(a), Settled(a), a.step # "mounted",
         attempts[i].step # "mounted", Reject(i, a), visible' = visible
  PROVE  MountInv'
<1>1. /\ i \in 1 .. Len(attempts) /\ Len(attempts) \in Nat /\ a \in Attempts
      /\ attempts \in Seq(Attempts)
  BY LenProperties DEF MountInv, Orderly
<1> DEFINE rejected == [attempts EXCEPT ![i] = a]
<1>2. /\ rejected \in Seq(Attempts) /\ Len(rejected) = Len(attempts)
      /\ \A j \in 1 .. Len(attempts) : rejected[j] = IF j = i THEN a ELSE attempts[j]
  BY <1>1, ExceptSeq
<1>3. CASE ~Pending(i)
  <2>1. attempts' = rejected /\ view' = view
    BY <1>3 DEF Reject
  <2>2. Settled(attempts[i])
    BY <1>1, <1>3 DEF MountInv, Pending, Settled
  <2> QED
    BY <2>1, <2>2, OneGoesOn
<1>4. CASE Pending(i)
  <2> HIDE DEF rejected
  <2>1. i = Len(attempts) /\ view.state = "loading"
    BY <1>4 DEF Pending
  <2>2. \A j \in 1 .. Len(attempts) :
          Orderly(rejected[j]) /\ Settled(rejected[j]) /\ rejected[j].step # "mounted"
    BY <1>1, <1>2, <2>1 DEF MountInv
  <2>3. CASE a.renderer = "lite"
    <3> DEFINE b == Attempt("webgl")
    <3>1. attempts' = Append(rejected, b) /\ view' = view
      BY <1>4, <2>3 DEF Reject, rejected
    <3>2. Orderly(b) /\ b \in Attempts /\ ~Settled(b) /\ b.step # "mounted"
      BY DEF Attempt, Orderly, Attempts, Settled
    <3> HIDE DEF b
    <3>3. /\ attempts' \in Seq(Attempts) /\ attempts' # << >> /\ Len(attempts') = Len(attempts) + 1
          /\ \A j \in 1 .. Len(attempts) : attempts'[j] = rejected[j]
          /\ attempts'[Len(attempts) + 1] = b
      BY <1>1, <1>2, <3>1, <3>2, AppendProperties
    <3>4. \A j \in 1 .. Len(attempts)' :
            /\ Orderly(attempts[j])'
            /\ Settled(attempts[j])' \/ j = Len(attempts)'
            /\ attempts'[j].step # "mounted"
      <4> TAKE j \in 1 .. Len(attempts)'
      <4>1. CASE j = Len(attempts) + 1
        BY <3>2, <3>3, <4>1 DEF Orderly, Settled
      <4>2. CASE j \in 1 .. Len(attempts)
        BY <2>2, <3>3, <4>2 DEF Orderly, Settled
      <4> QED
        BY <1>1, <3>3, <4>1, <4>2
    <3> QED
      BY <1>1, <2>1, <3>1, <3>2, <3>3, <3>4 DEF MountInv, Settled
  <2>4. CASE a.renderer # "lite"
    <3>1. attempts' = rejected /\ view' = [view EXCEPT !.state = "failed"]
      BY <1>4, <2>4 DEF Reject, rejected
    <3>2. view' \in [number : Nat, state : {"left", "loading", "ready", "failed"}] /\ view'.state = "failed"
      BY <3>1 DEF MountInv
    <3> QED
      BY <1>2, <2>2, <3>1, <3>2 DEF MountInv, Settled, Orderly
  <2> QED
    BY <2>3, <2>4
<1> QED
  BY <1>3, <1>4

LEMMA OpenKeepsMounts ==
  ASSUME MountInv, NEW renderer \in {"lite", "webgl"}, OpenView(renderer)
  PROVE  MountInv'
<1> DEFINE b == Attempt(renderer)
<1>1. /\ view.state = "left" /\ view' = [number |-> view.number + 1, state |-> "loading"]
      /\ attempts' = Append(attempts, b) /\ visible' = visible
  BY DEF OpenView
<1>2. Orderly(b) /\ b \in Attempts /\ ~Settled(b) /\ b.step # "mounted"
  BY DEF Attempt, Orderly, Attempts, Settled
<1>3. attempts \in Seq(Attempts) /\ Len(attempts) \in Nat
  BY LenProperties DEF MountInv
<1> HIDE DEF b
<1>4. /\ attempts' \in Seq(Attempts) /\ attempts' # << >> /\ Len(attempts') = Len(attempts) + 1
      /\ \A j \in 1 .. Len(attempts) : attempts'[j] = attempts[j]
      /\ attempts'[Len(attempts) + 1] = b
  BY <1>1, <1>2, <1>3, AppendProperties
<1>5. \A j \in 1 .. Len(attempts)' :
        /\ Orderly(attempts[j])'
        /\ Settled(attempts[j])' \/ j = Len(attempts)'
        /\ attempts'[j].step # "mounted"
  <2> TAKE j \in 1 .. Len(attempts)'
  <2>1. CASE j = Len(attempts) + 1
    BY <1>2, <1>4, <2>1 DEF Orderly, Settled
  <2>2. CASE j \in 1 .. Len(attempts)
    BY <1>1, <1>4, <2>2 DEF MountInv, Orderly, Settled
  <2> QED
    BY <1>3, <1>4, <2>1, <2>2
<1>6. view' \in [number : Nat, state : {"left", "loading", "ready", "failed"}] /\ view'.state = "loading"
  BY <1>1 DEF MountInv
<1>7. (view.state \in {"loading", "ready"})' => (attempts # << >>)' /\ ~Settled(attempts[Len(attempts)])'
  BY <1>2, <1>3, <1>4, SMTT(40) DEF Settled
<1> QED
  BY <1>1, <1>4, <1>5, <1>6, <1>7 DEF MountInv

LEMMA LeaveKeepsMounts == MountInv /\ LeaveView => MountInv'
<1> SUFFICES ASSUME MountInv, LeaveView
             PROVE  MountInv'
  OBVIOUS
<1> DEFINE n == Len(attempts)
           b == IF view.state = "ready" THEN Over(attempts[n]) ELSE Cancelled(attempts[n])
<1>1. attempts \in Seq(Attempts) /\ n \in Nat /\ DOMAIN attempts = 1 .. n
  BY LenProperties DEF MountInv
<1>2. attempts' = [attempts EXCEPT ![n] = b] /\ visible' = visible
  BY DEF LeaveView
<1>3. view' \in [number : Nat, state : {"left", "loading", "ready", "failed"}] /\ view'.state = "left"
  BY DEF LeaveView, MountInv
<1>4. n \in 1 .. n => Orderly(b) /\ Settled(b) /\ b.step # "mounted" /\ b \in Attempts
  <2> HAVE n \in 1 .. n
  <2>1. Orderly(attempts[n]) /\ (view.state # "ready" => attempts[n].step # "mounted")
    BY DEF MountInv
  <2>2. Orderly(b) /\ Settled(b) /\ b.step # "mounted"
    BY <2>1, CancelledAttempt, OverAttempt
  <2> QED
    BY <2>2 DEF Orderly
<1>5. /\ attempts' \in Seq(Attempts) /\ Len(attempts') = n
      /\ \A j \in 1 .. n : attempts'[j] = IF j = n THEN b ELSE attempts[j]
  <2>1. CASE n \in 1 .. n
    <3> HIDE DEF b
    <3> QED
      BY <1>1, <1>2, <1>4, <2>1, ExceptSeq
  <2>2. CASE n = 0
    <3>1. attempts' = attempts
      <4>1. attempts = << >>
        BY <1>1, <2>2, EmptySeq
      <4> QED
        BY <1>2, <2>2, <4>1
    <3> QED
      BY <1>1, <2>2, <3>1
  <2>3. n = 0 \/ n \in 1 .. n
    BY <1>1, SMTT(40)
  <2> HIDE DEF b
  <2> QED
    BY <2>1, <2>2, <2>3
<1>6. \A j \in 1 .. n : Orderly(attempts'[j]) /\ Settled(attempts'[j]) /\ attempts'[j].step # "mounted"
  <2> HIDE DEF b
  <2> QED
    BY <1>1, <1>4, <1>5 DEF MountInv
<1> QED
  BY <1>2, <1>3, <1>5, <1>6 DEF MountInv, Settled, Orderly

LEMMA ToggleKeepsMounts == MountInv /\ TogglePage => MountInv'
<1> SUFFICES ASSUME MountInv, TogglePage
             PROVE  MountInv'
  OBVIOUS
<1> DEFINE n == Len(attempts)
<1>1. attempts \in Seq(Attempts) /\ n \in Nat /\ DOMAIN attempts = 1 .. n
  BY LenProperties DEF MountInv
<1>2. view' = view /\ visible' \in BOOLEAN /\ (visible' <=> ~visible)
  BY DEF TogglePage
<1>3. CASE view.state = "ready"
  <2> DEFINE b == [attempts[n] EXCEPT !.running = ~visible]
  <2>1. attempts # << >> /\ n \in 1 .. n
    <3>1. attempts # << >>
      BY <1>3 DEF MountInv
    <3> QED
      BY <1>1, <3>1, EmptySeq
  <2>2. Orderly(attempts[n]) /\ ~Settled(attempts[n]) /\ attempts[n].step = "mounted"
    BY <1>3, <2>1 DEF MountInv
  <2>3. b \in Attempts /\ b.step = "mounted" /\ b.live = attempts[n].live /\ b.cancelled = attempts[n].cancelled
    BY <2>2 DEF Orderly, Attempts
  <2>4. b.running = ~visible
    BY <2>2 DEF Orderly, Attempts
  <2>5. Orderly(b) /\ ~Settled(b)
    BY <2>2, <2>3 DEF Orderly, Settled
  <2>6. attempts' = [attempts EXCEPT ![n] = b]
    BY <1>3 DEF TogglePage
  <2> HIDE DEF b
  <2>7. /\ attempts' \in Seq(Attempts) /\ Len(attempts') = n
        /\ \A j \in 1 .. n : attempts'[j] = IF j = n THEN b ELSE attempts[j]
    BY <1>1, <2>1, <2>3, <2>6, ExceptSeq
  <2>8. attempts' # << >>
    BY <2>1, <2>7, EmptySeq, SMTT(40)
  <2>9. \A j \in 1 .. Len(attempts)' :
          /\ Orderly(attempts[j])'
          /\ Settled(attempts[j])' \/ (j = Len(attempts)' /\ (view.state \in {"loading", "ready"})')
          /\ (attempts[j].step = "mounted")' => j = Len(attempts)' /\ (view.state = "ready")'
    BY <1>1, <1>2, <1>3, <2>5, <2>7 DEF MountInv, Settled, Orderly
  <2>10. attempts'[Len(attempts')] = b
    BY <2>1, <2>7
  <2>11. b.running <=> visible'
    BY <1>2, <2>4
  <2> QED
    BY <1>2, <2>3, <2>5, <2>7, <2>8, <2>9, <2>10, <2>11 DEF MountInv, Settled
<1>4. CASE view.state # "ready"
  <2>1. attempts' = attempts
    BY <1>4 DEF TogglePage
  <2> QED
    BY <1>2, <1>4, <2>1 DEF MountInv, Settled, Orderly
<1> QED
  BY <1>3, <1>4

LEMMA MountedAttempt ==
  ASSUME NEW a, Orderly(a), ~Settled(a), visible \in BOOLEAN
  PROVE  Orderly(Mounted(a)) /\ ~Settled(Mounted(a)) /\ Mounted(a).step = "frames"
<1> DEFINE b == Mounted(a)
<1>1. b \in Attempts /\ b.step = "frames" /\ b.cancelled = a.cancelled /\ b.live = TRUE
  BY DEF Orderly, Attempts, Mounted
<1> QED
  BY <1>1 DEF Orderly, Settled

LEMMA StepsKeepMounts ==
  ASSUME MountInv, NEW i \in DOMAIN attempts,
         \/ Deadline(i) \/ LoadArrives(i) \/ LoadFails(i) \/ EngineCreated(i) \/ LateResources(i)
         \/ Registered(i) \/ Started(i) \/ StepFails(i) \/ FramesShown(i) \/ Adopt(i)
  PROVE  MountInv'
<1> DEFINE a == attempts[i]
<1>1. i \in 1 .. Len(attempts) /\ Orderly(a) /\ a \in Attempts /\ visible \in BOOLEAN
  BY LenProperties DEF MountInv, Orderly
<1>2. a.step = "mounted" => view.state = "ready" /\ i = Len(attempts)
  BY <1>1 DEF MountInv
<1>3. CASE Deadline(i)
  <2>1. visible' = visible /\ Reject(i, Cancelled(a)) /\ a.step # "mounted"
    BY <1>2, <1>3 DEF Deadline, Pending
  <2> QED
    BY <1>1, <2>1, CancelledAttempt, OneIsRejected
<1>4. CASE LoadFails(i) \/ StepFails(i)
  <2>1. visible' = visible /\ Reject(i, Over(a)) /\ a.step # "mounted"
    BY <1>4 DEF LoadFails, StepFails
  <2> QED
    BY <1>1, <2>1, OverAttempt, OneIsRejected
<1>5. CASE LoadArrives(i)
  <2> DEFINE outcomes == IF a.cancelled THEN {Over(a)}
                         ELSE IF a.renderer = "lite" THEN {[a EXCEPT !.step = "create"]}
                         ELSE {[Mounted(a) EXCEPT !.slow = slow] : slow \in BOOLEAN}
  <2>1. a.step = "load" /\ view' = view /\ visible' = visible
    BY <1>5 DEF LoadArrives
  <2>2. PICK b \in outcomes : attempts' = [attempts EXCEPT ![i] = b]
    BY <1>5 DEF LoadArrives
  <2>3. Orderly(b) /\ b.step # "mounted" /\ (Settled(b) <=> Settled(a))
    <3>1. CASE a.cancelled
      BY <1>1, <3>1, OverAttempt DEF Settled
    <3>2. CASE ~a.cancelled /\ a.renderer = "lite"
      <4>1. b = [a EXCEPT !.step = "create"] /\ ~a.live
        BY <1>1, <2>1, <3>2 DEF Orderly
      <4>2. b \in Attempts /\ b.step = "create" /\ b.live = a.live /\ b.cancelled = a.cancelled
        BY <1>1, <4>1 DEF Attempts
      <4> QED
        BY <2>1, <4>1, <4>2 DEF Orderly, Settled
    <3>3. CASE ~a.cancelled /\ a.renderer # "lite"
      <4>1. PICK slow \in BOOLEAN : b = [Mounted(a) EXCEPT !.slow = slow]
        BY <3>3
      <4>2. Orderly(Mounted(a)) /\ ~Settled(Mounted(a)) /\ Mounted(a).step = "frames" /\ ~Settled(a)
        BY <1>1, <2>1, <3>3, MountedAttempt DEF Settled
      <4>3. /\ b \in Attempts /\ b.step = "frames" /\ b.live = Mounted(a).live
            /\ b.cancelled = Mounted(a).cancelled
        BY <4>1, <4>2 DEF Orderly, Attempts
      <4> QED
        BY <4>2, <4>3 DEF Orderly, Settled
    <3> QED
      BY <3>1, <3>2, <3>3
  <2> QED
    BY <2>1, <2>2, <2>3, OneGoesOn
<1>6. CASE EngineCreated(i)
  <2> DEFINE b == IF a.cancelled THEN Over(a) ELSE [a EXCEPT !.step = "register", !.live = TRUE]
  <2>1. a.step = "create" /\ view' = view /\ visible' = visible /\ attempts' = [attempts EXCEPT ![i] = b]
    BY <1>6 DEF EngineCreated
  <2>2. Orderly(b) /\ b.step # "mounted" /\ (Settled(b) <=> Settled(a))
    BY <1>1, <2>1, OverAttempt DEF Orderly, Attempts, Settled
  <2> HIDE DEF b
  <2> QED
    BY <2>1, <2>2, OneGoesOn
<1>7. CASE LateResources(i)
  <2> DEFINE b == [a EXCEPT !.live = TRUE]
  <2>1. /\ a.step \in {"register", "start"} /\ a.cancelled /\ view' = view /\ visible' = visible
        /\ attempts' = [attempts EXCEPT ![i] = b]
    BY <1>7 DEF LateResources
  <2>2. Orderly(b) /\ b.step # "mounted" /\ (Settled(b) <=> Settled(a))
    BY <1>1, <2>1 DEF Orderly, Attempts, Settled
  <2> HIDE DEF b
  <2> QED
    BY <2>1, <2>2, OneGoesOn
<1>8. CASE Registered(i)
  <2> DEFINE b == IF a.cancelled THEN Over(a) ELSE [a EXCEPT !.step = "start"]
  <2>1. a.step = "register" /\ view' = view /\ visible' = visible /\ attempts' = [attempts EXCEPT ![i] = b]
    BY <1>8 DEF Registered
  <2>2. Orderly(b) /\ b.step # "mounted" /\ (Settled(b) <=> Settled(a))
    BY <1>1, <2>1, OverAttempt DEF Orderly, Attempts, Settled
  <2> HIDE DEF b
  <2> QED
    BY <2>1, <2>2, OneGoesOn
<1>9. CASE Started(i)
  <2> DEFINE b == IF a.cancelled THEN Over(a) ELSE Mounted(a)
  <2>1. a.step = "start" /\ view' = view /\ visible' = visible /\ attempts' = [attempts EXCEPT ![i] = b]
    BY <1>9 DEF Started
  <2>2. Orderly(b) /\ b.step # "mounted" /\ (Settled(b) <=> Settled(a))
    BY <1>1, <2>1, OverAttempt, MountedAttempt DEF Settled
  <2> HIDE DEF b
  <2> QED
    BY <2>1, <2>2, OneGoesOn
<1>10. CASE FramesShown(i)
  <2> DEFINE b == [a EXCEPT !.step = "shown"]
  <2>1. a.step = "frames" /\ view' = view /\ visible' = visible /\ attempts' = [attempts EXCEPT ![i] = b]
    BY <1>10 DEF FramesShown
  <2>2. Orderly(b) /\ b.step # "mounted" /\ (Settled(b) <=> Settled(a))
    BY <1>1, <2>1 DEF Orderly, Attempts, Settled
  <2> HIDE DEF b
  <2> QED
    BY <2>1, <2>2, OneGoesOn
<1>11. CASE Adopt(i) /\ ~Pending(i)
  <2>1. /\ a.step = "shown" /\ view' = view /\ visible' = visible
        /\ attempts' = [attempts EXCEPT ![i] = Over(a)]
    BY <1>11 DEF Adopt
  <2>2. Settled(a)
    BY <1>1, <1>11, <2>1 DEF MountInv, Pending, Settled
  <2> QED
    BY <1>1, <2>1, <2>2, OverAttempt, OneGoesOn
<1>12. CASE Adopt(i) /\ Pending(i)
  <2> DEFINE b == [a EXCEPT !.step = "mounted", !.running = visible]
             n == Len(attempts)
  <2>1. a.step = "shown" /\ view' = [view EXCEPT !.state = "ready"] /\ visible' = visible
    BY <1>12 DEF Adopt
  <2>2. attempts' = [attempts EXCEPT ![i].step = "mounted", ![i].running = visible]
    BY <1>12 DEF Adopt
  <2>3. i = n /\ view.state = "loading" /\ ~a.cancelled
    BY <1>12 DEF Pending
  <2>4. attempts' = [attempts EXCEPT ![n] = b]
    BY <2>2, <2>3
  <2>5. b \in Attempts /\ b.step = "mounted" /\ b.live = a.live /\ b.cancelled = a.cancelled
    BY <1>1 DEF Attempts
  <2>6. b.running = visible
    BY <1>1 DEF Attempts
  <2>7. Orderly(b) /\ ~Settled(b)
    BY <1>1, <2>1, <2>3, <2>5 DEF Orderly, Settled
  <2>8. attempts \in Seq(Attempts) /\ n \in Nat
    BY LenProperties DEF MountInv
  <2> HIDE DEF b
  <2>9. /\ attempts' \in Seq(Attempts) /\ Len(attempts') = n
        /\ \A j \in 1 .. n : attempts'[j] = IF j = n THEN b ELSE attempts[j]
    BY <1>1, <2>3, <2>4, <2>5, <2>8, ExceptSeq
  <2>10. attempts' # << >> /\ attempts'[Len(attempts')] = b
    BY <1>1, <2>3, <2>9, EmptySeq
  <2>11. view' \in [number : Nat, state : {"left", "loading", "ready", "failed"}] /\ view'.state = "ready"
    BY <2>1 DEF MountInv
  <2>12. \A j \in 1 .. Len(attempts)' :
          /\ Orderly(attempts[j])'
          /\ Settled(attempts[j])' \/ (j = Len(attempts)' /\ (view.state \in {"loading", "ready"})')
          /\ (attempts[j].step = "mounted")' => j = Len(attempts)' /\ (view.state = "ready")'
    BY <2>3, <2>7, <2>8, <2>9, <2>11 DEF MountInv, Settled, Orderly
  <2>13. attempts'[Len(attempts')].running <=> visible'
    BY <2>1, <2>6, <2>10
  <2> QED
    BY <1>1, <2>1, <2>5, <2>7, <2>9, <2>10, <2>11, <2>12, <2>13 DEF MountInv, Settled
<1> QED
  BY <1>3, <1>4, <1>5, <1>6, <1>7, <1>8, <1>9, <1>10, <1>11, <1>12

LEMMA StepKeepsMounts == MountInv /\ [MountNext]_mountVars => MountInv'
<1> SUFFICES ASSUME MountInv, [MountNext]_mountVars
             PROVE  MountInv'
  OBVIOUS
<1>1. CASE UNCHANGED mountVars
  <2>1. view' = view /\ attempts' = attempts /\ (visible' <=> visible) /\ visible' \in BOOLEAN
    BY <1>1, SMTT(40) DEF mountVars, MountInv
  <2> QED
    BY <2>1 DEF MountInv, Settled, Orderly
<1> QED
  BY <1>1, OpenKeepsMounts, LeaveKeepsMounts, ToggleKeepsMounts, StepsKeepMounts DEF MountNext

LEMMA MountsAreSound == MountInv => RenderersAreRetired
<1> SUFFICES ASSUME MountInv
             PROVE  RenderersAreRetired
  OBVIOUS
<1> DEFINE n == Len(attempts)
<1>1. attempts \in Seq(Attempts) /\ n \in Nat /\ DOMAIN attempts = 1 .. n
  BY LenProperties DEF MountInv
<1>2. \A i \in 1 .. n :
        attempts[i].live =>
          \/ i = n /\ view.state \in {"loading", "ready"} /\ ~attempts[i].cancelled
          \/ attempts[i].cancelled /\ attempts[i].step \in {"register", "start"}
  BY DEF MountInv, Settled, Orderly
<1>3. view.state \in {"loading", "ready"} => n \in 1 .. n /\ Last(attempts) = attempts[n]
  <2> HAVE view.state \in {"loading", "ready"}
  <2>1. attempts # << >>
    BY DEF MountInv
  <2>2. n # 0
    BY <1>1, <2>1, EmptySeq
  <2> QED
    BY <1>1, <2>2 DEF Last
<1>4. view.state = "loading" => Pending(n) /\ Last(attempts).step # "over"
  BY <1>3 DEF MountInv, Pending, Settled
<1>5. view.state = "ready" => Last(attempts).live
  BY <1>3 DEF MountInv, Settled, Orderly
<1>6. view.state = "ready" => Last(attempts).running = visible
  <2> HAVE view.state = "ready"
  <2>1. attempts[n] \in Attempts
    BY <1>3 DEF MountInv, Orderly
  <2>2. attempts[n].running \in BOOLEAN /\ visible \in BOOLEAN
    BY <2>1 DEF MountInv, Attempts
  <2>3. attempts[n].running <=> visible
    BY DEF MountInv
  <2>4. attempts[n].running = visible
    BY <2>2, <2>3
  <2> QED
    BY <1>3, <2>4
<1> QED
  BY <1>1, <1>2, <1>4, <1>5, <1>6 DEF RenderersAreRetired

\* However often the table is opened and left and however late the steps of an attempt
\* come back: no engine outlives its attempt, a ready view has a running engine just while
\* the page is to be seen, and a loading one has a deadline ahead.
THEOREM RenderersAlwaysRetired == MountSpec => []RenderersAreRetired
<1> QED
  BY InitMounts, StepKeepsMounts, MountsAreSound, PTL DEF MountSpec

-----------------------------------------------------------------------------
(* Hands on the table. *)

Holds == [pointer : Pointers \cup {Nothing}, piece : Pieces \cup {Nothing}]

Tables ==
  [drag : Holds, holder : [Pieces -> {"nobody", "me", "other"}], shown : SUBSET Pieces, bounded : SUBSET Pieces,
   lost : SUBSET (Pieces \cup {Nothing})]

Singles ==
  [pointer : Fingers, piece : Pieces \cup {Nothing}, grabbable : BOOLEAN, moved : BOOLEAN, dragging : BOOLEAN,
   fired : BOOLEAN]

Touches == [down : SUBSET Fingers, single : Singles \cup {NoSingle}, multi : BOOLEAN, tap : BOOLEAN]

Presses == [down : {TRUE}, piece : Pieces \cup {Nothing}, flip : BOOLEAN]

Jobs == [type : {"down", "move", "up", "cancel"}, pointer : Fingers, seat : Nat]

\* What is held is being dragged, or its drop was lost.
TableSound(t) ==
  /\ t \in Tables
  /\ t.drag # NoHold => t.drag.pointer \in Pointers /\ t.drag.piece \in Pieces
  /\ \A e \in Pieces : t.holder[e] = "me" => t.drag.piece = e \/ e \in t.lost

TouchSound(t) ==
  /\ t \in Touches /\ IsFiniteSet(t.down) /\ (t.multi => Cardinality(t.down) >= 2)
  /\ t.single # NoSingle =>
       /\ t.single.pointer \in t.down /\ ~t.multi
       /\ t.single.dragging => t.single.moved /\ t.single.grabbable
       /\ t.single.grabbable => t.single.piece \in Pieces

PressSound(p, b) == p = NoPress \/ (p \in Presses /\ b = TRUE)

ByTouch(t, s) == s # NoSingle /\ s.dragging /\ s.pointer = t.drag.pointer /\ s.piece = t.drag.piece
ByMouse(t, p) == t.drag.pointer = Mouse /\ p.down /\ p.piece = t.drag.piece

\* A drag is that of the gesture which began it.
DragSound(t, s, p) == t.drag # NoHold => ByTouch(t, s) \/ ByMouse(t, p)

Leaves(q, i, p) == q[i].pointer = p /\ q[i].type \in {"up", "cancel"}

\* A finger comes and leaves in turn, as far as the queue and the gestures know, and
\* those that the gestures take for down are, or their leaving is still to be handled.
QueueSound(q, down, fs, s) ==
  /\ q \in Seq(Jobs)
  /\ \A i \in 1 .. Len(q) : q[i].seat <= s
  /\ \A i, j \in 1 .. Len(q) : i < j => q[i].seat <= q[j].seat
  /\ \A i \in 1 .. Len(q) : q[i].type = "down" =>
       q[i].pointer \in fs \/ \E j \in 1 .. Len(q) : i < j /\ Leaves(q, j, q[i].pointer)
  /\ \A i, k \in 1 .. Len(q) : i < k /\ q[i].type = "down" /\ q[k].type = "down" /\ q[i].pointer = q[k].pointer =>
       \E j \in 1 .. Len(q) : i < j /\ j < k /\ Leaves(q, j, q[i].pointer)
  /\ \A i \in 1 .. Len(q) : q[i].type = "down" /\ q[i].pointer \in down /\ q[i].seat = s =>
       \E j \in 1 .. Len(q) : j < i /\ Leaves(q, j, q[i].pointer) /\ q[j].seat = s
  /\ \A p \in down : p \in fs \/ \E j \in 1 .. Len(q) : Leaves(q, j, p) /\ q[j].seat = s

HandsInv ==
  /\ TableSound(table) /\ TouchSound(touch) /\ PressSound(press, button)
  /\ DragSound(table, touch.single, press)
  /\ fingers \in SUBSET Fingers /\ seat \in Nat
  /\ QueueSound(touchQueue, touch.down, fingers, seat)
  /\ picks \in Seq([piece : Pieces \cup {Nothing}, seat : Nat])
  /\ picking => touchQueue # << >> /\ touchQueue[1].type = "down"

LEMMA NoDragWithoutPointer ==
  ASSUME NEW t, TableSound(t)
  PROVE  t.drag.pointer = Nothing <=> t.drag = NoHold
BY HandsAssumption DEF TableSound, Tables, Holds, NoHold, Pointers

\* Letting go.
LEMMA FinishedDrag ==
  ASSUME TableSound(table), NEW p \in Pointers \cup {Nothing}, NEW sent
  PROVE  /\ TableSound(FinishDrag(p, sent))
         /\ FinishDrag(p, sent).drag = IF table.drag.pointer = p THEN NoHold ELSE table.drag
         /\ FinishDrag(p, sent).shown = table.shown /\ FinishDrag(p, sent).bounded = table.bounded
<1> DEFINE e == table.drag.piece
           dropped == sent /\ e \in table.shown \cap table.bounded
           t == [table EXCEPT !.drag = NoHold,
                              !.holder[e] = IF dropped /\ @ = "me" THEN "nobody" ELSE @,
                              !.lost = IF dropped THEN @ ELSE @ \cup {e}]
<1>1. CASE table.drag.pointer # p
  BY <1>1, SMTT(40) DEF FinishDrag
<1>2. CASE table.drag.pointer = p
  <2>1. FinishDrag(p, sent) = t
    BY <1>2 DEF FinishDrag
  <2>2. table \in Tables /\ e \in Pieces \cup {Nothing}
    BY DEF TableSound, Tables, Holds
  <2>3. /\ t.drag = NoHold /\ t.shown = table.shown /\ t.bounded = table.bounded
        /\ t.holder = [table.holder EXCEPT ![e] = IF dropped /\ @ = "me" THEN "nobody" ELSE @]
        /\ t.lost = IF dropped THEN table.lost ELSE table.lost \cup {e}
    BY <2>2 DEF Tables
  <2>4. NoHold \in Holds
    BY DEF NoHold, Holds
  <2>5. t.holder \in [Pieces -> {"nobody", "me", "other"}] /\ t.lost \in SUBSET (Pieces \cup {Nothing})
    BY <2>2, <2>3 DEF Tables
  <2>6. t \in Tables
    BY <2>2, <2>3, <2>4, <2>5 DEF Tables
  <2>7. \A x \in Pieces : t.holder[x] = "me" => x \in t.lost
    <3> SUFFICES ASSUME NEW x \in Pieces, t.holder[x] = "me"
                 PROVE  x \in t.lost
      OBVIOUS
    <3>1. table.holder[x] = "me" /\ (x = e => ~dropped)
      BY <2>2, <2>3 DEF Tables
    <3>2. e = x \/ x \in table.lost
      BY <3>1 DEF TableSound
    <3> QED
      BY <2>3, <3>1, <3>2
  <2> QED
    BY <1>2, <2>1, <2>3, <2>6, <2>7 DEF TableSound
<1> QED
  BY <1>1, <1>2

\* Taking hold.
LEMMA BegunDrag ==
  ASSUME TableSound(table), NEW e \in Pieces, NEW p \in Pointers
  PROVE  /\ TableSound(Begin(e, p))
         /\ \/ Begin(e, p) = table
            \/ Begin(e, p).drag = [pointer |-> p, piece |-> e] /\ table.drag = NoHold
<1> DEFINE t == [table EXCEPT !.drag = [pointer |-> p, piece |-> e], !.holder[e] = "me", !.lost = @ \ {e}]
<1>1. CASE Begin(e, p) = table
  BY <1>1
<1>2. CASE Begin(e, p) # table
  <2>1. Begin(e, p) = t /\ table.drag = NoHold
    BY <1>2 DEF Begin
  <2>2. table \in Tables
    BY DEF TableSound
  <2>3. /\ t.drag = [pointer |-> p, piece |-> e] /\ t.shown = table.shown /\ t.bounded = table.bounded
        /\ t.holder = [table.holder EXCEPT ![e] = "me"] /\ t.lost = table.lost \ {e}
    BY <2>2 DEF Tables
  <2>4. t.drag \in Holds /\ t.drag.pointer = p /\ t.drag.piece = e
    BY <2>3 DEF Holds
  <2>5. t.holder \in [Pieces -> {"nobody", "me", "other"}] /\ t.lost \in SUBSET (Pieces \cup {Nothing})
    BY <2>2, <2>3 DEF Tables
  <2>6. t \in Tables
    BY <2>2, <2>3, <2>4, <2>5 DEF Tables
  <2>7. \A x \in Pieces : t.holder[x] = "me" => t.drag.piece = x \/ x \in t.lost
    <3> SUFFICES ASSUME NEW x \in Pieces, t.holder[x] = "me", x # e
                 PROVE  x \in t.lost
      BY <2>4
    <3>1. table.holder[x] = "me"
      BY <2>2, <2>3 DEF Tables
    <3>2. x \in table.lost
      BY <2>1, <3>1, HandsAssumption DEF TableSound, NoHold
    <3> QED
      BY <2>3, <3>2
  <2> HIDE DEF t
  <2> QED
    BY <2>1, <2>3, <2>4, <2>6, <2>7 DEF TableSound
<1> QED
  BY <1>1, <1>2

\* What the drag of a gesture that ends was, is none; the other's stays.
LEMMA TouchLetsGo ==
  ASSUME TableSound(table), TouchSound(touch), NEW p, DragSound(table, touch.single, p), NEW sent,
         NEW t, t = IF touch.single # NoSingle /\ touch.single.dragging THEN FinishDrag(touch.single.pointer, sent) ELSE table
  PROVE  TableSound(t) /\ \A s : DragSound(t, s, p)
<1>1. CASE touch.single # NoSingle /\ touch.single.dragging
  <2>1. touch.single.pointer \in Fingers /\ touch.single.pointer # Mouse
    BY <1>1, HandsAssumption DEF TouchSound, Touches, Singles
  <2> DEFINE f == FinishDrag(touch.single.pointer, sent)
  <2>2. touch.single.pointer \in Pointers \cup {Nothing}
    BY <2>1 DEF Pointers
  <2>3. /\ TableSound(f)
        /\ f.drag = IF table.drag.pointer = touch.single.pointer THEN NoHold ELSE table.drag
    BY <2>2, FinishedDrag
  <2>4. t = f
    BY <1>1
  <2> HIDE DEF f
  <2>5. t.drag # NoHold => t.drag = table.drag /\ ~ByTouch(table, touch.single)
    BY <2>3, <2>4 DEF ByTouch
  <2> QED
    BY <2>3, <2>4, <2>5 DEF DragSound, ByMouse
<1>2. CASE ~(touch.single # NoSingle /\ touch.single.dragging)
  BY <1>2 DEF DragSound, ByTouch
<1> QED
  BY <1>1, <1>2

\* An event is queued: a finger is put down, moves, or leaves.
LEMMA QueuedEvent ==
  ASSUME NEW q, NEW down, NEW fs, NEW s, QueueSound(q, down, fs, s), NEW j \in Jobs, j.seat = s, s \in Nat,
         NEW gs,
         \/ j.type = "down" /\ j.pointer \notin fs /\ gs = fs \cup {j.pointer}
         \/ j.type = "move" /\ gs = fs
         \/ j.type \in {"up", "cancel"} /\ gs = fs \ {j.pointer}
  PROVE  QueueSound(Append(q, j), down, gs, s)
<1> DEFINE n == Len(q)
           r == Append(q, j)
<1>1. q \in Seq(Jobs) /\ n \in Nat
  BY LenProperties DEF QueueSound
<1>2. r \in Seq(Jobs) /\ Len(r) = n + 1 /\ (\A i \in 1 .. n : r[i] = q[i]) /\ r[n + 1] = j
  BY <1>1, AppendProperties
<1> HIDE DEF r
<1>3. \A i \in 1 .. Len(r) : i \in 1 .. n \/ i = n + 1
  BY <1>1, <1>2
<1>4. 1 .. n \subseteq 1 .. Len(r) /\ n + 1 \in 1 .. Len(r)
  BY <1>1, <1>2
<1>5. \A i \in 1 .. n : \A p : Leaves(r, i, p) <=> Leaves(q, i, p)
  BY <1>2 DEF Leaves
<1>6. \A p : p \in fs /\ p \notin gs => Leaves(r, n + 1, p)
  BY <1>2 DEF Leaves
<1>7. \A i \in 1 .. Len(r) : r[i].seat <= s
  BY <1>2, <1>3 DEF QueueSound
<1>8. \A i, k \in 1 .. Len(r) : i < k => r[i].seat <= r[k].seat
  <2> SUFFICES ASSUME NEW i \in 1 .. Len(r), NEW k \in 1 .. Len(r), i < k
               PROVE  r[i].seat <= r[k].seat
    OBVIOUS
  <2>1. i \in 1 .. n
    BY <1>1, <1>2, <1>3
  <2> QED
    BY <1>2, <1>3, <2>1 DEF QueueSound
<1>9. \A i \in 1 .. Len(r) : r[i].type = "down" =>
        r[i].pointer \in gs \/ \E k \in 1 .. Len(r) : i < k /\ Leaves(r, k, r[i].pointer)
  <2> SUFFICES ASSUME NEW i \in 1 .. Len(r), r[i].type = "down", r[i].pointer \notin gs
               PROVE  \E k \in 1 .. Len(r) : i < k /\ Leaves(r, k, r[i].pointer)
    OBVIOUS
  <2>1. i \in 1 .. n
    BY <1>2, <1>3
  <2>2. i < n + 1
    BY <1>1, <2>1
  <2> QED
    BY <1>2, <1>4, <1>5, <1>6, <2>1, <2>2 DEF QueueSound
<1>10. \A i, k \in 1 .. Len(r) :
         i < k /\ r[i].type = "down" /\ r[k].type = "down" /\ r[i].pointer = r[k].pointer =>
           \E l \in 1 .. Len(r) : i < l /\ l < k /\ Leaves(r, l, r[i].pointer)
  <2> SUFFICES ASSUME NEW i \in 1 .. Len(r), NEW k \in 1 .. Len(r), i < k,
                      r[i].type = "down", r[k].type = "down", r[i].pointer = r[k].pointer
               PROVE  \E l \in 1 .. Len(r) : i < l /\ l < k /\ Leaves(r, l, r[i].pointer)
    OBVIOUS
  <2>1. i \in 1 .. n
    BY <1>1, <1>2, <1>3
  <2>2. CASE k \in 1 .. n
    BY <1>2, <1>4, <1>5, <2>1, <2>2 DEF QueueSound
  <2>3. CASE k = n + 1
    <3>1. r[i].pointer \notin fs /\ r[i] = q[i]
      BY <1>2, <2>1, <2>3
    <3>2. PICK l \in 1 .. n : i < l /\ Leaves(q, l, q[i].pointer)
      BY <2>1, <3>1 DEF QueueSound
    <3>3. l < k
      BY <1>1, <2>3
    <3> QED
      BY <1>4, <1>5, <3>1, <3>2, <3>3
  <2> QED
    BY <1>3, <2>2, <2>3
<1>11. \A i \in 1 .. Len(r) : r[i].type = "down" /\ r[i].pointer \in down /\ r[i].seat = s =>
         \E k \in 1 .. Len(r) : k < i /\ Leaves(r, k, r[i].pointer) /\ r[k].seat = s
  <2> SUFFICES ASSUME NEW i \in 1 .. Len(r), r[i].type = "down", r[i].pointer \in down, r[i].seat = s
               PROVE  \E k \in 1 .. Len(r) : k < i /\ Leaves(r, k, r[i].pointer) /\ r[k].seat = s
    OBVIOUS
  <2>1. CASE i \in 1 .. n
    BY <1>2, <1>4, <1>5, <2>1 DEF QueueSound
  <2>2. CASE i = n + 1
    <3>1. r[i].pointer \notin fs
      BY <1>2, <2>2
    <3>2. PICK k \in 1 .. n : Leaves(q, k, r[i].pointer) /\ q[k].seat = s
      BY <3>1 DEF QueueSound
    <3>3. k < i
      BY <1>1, <2>2
    <3> QED
      BY <1>2, <1>4, <1>5, <3>2, <3>3
  <2> QED
    BY <1>3, <2>1, <2>2
<1>12. \A p \in down : p \in gs \/ \E k \in 1 .. Len(r) : Leaves(r, k, p) /\ r[k].seat = s
  <2> SUFFICES ASSUME NEW p \in down, p \notin gs
               PROVE  \E k \in 1 .. Len(r) : Leaves(r, k, p) /\ r[k].seat = s
    OBVIOUS
  <2> QED
    BY <1>2, <1>4, <1>5, <1>6 DEF QueueSound
<1> QED
  BY <1>2, <1>7, <1>8, <1>9, <1>10, <1>11, <1>12 DEF QueueSound, r

\* The first event is handled: a finger that left is not down, and one that came may be.
LEMMA HandledEvent ==
  ASSUME NEW q, NEW down, NEW fs, NEW s, QueueSound(q, down, fs, s), q # << >>, NEW up,
         \A p \in up : \/ p \in down /\ ~(Leaves(q, 1, p) /\ q[1].seat = s)
                       \/ q[1].pointer = p /\ q[1].type = "down" /\ q[1].seat = s
  PROVE  QueueSound(Tail(q), up, fs, s)
<1> DEFINE n == Len(q)
           r == Tail(q)
<1>1. q \in Seq(Jobs) /\ n \in Nat /\ n > 0
  BY LenProperties, EmptySeq DEF QueueSound
<1>2. r \in Seq(Jobs) /\ Len(r) = n - 1 /\ \A i \in 1 .. n - 1 : r[i] = q[i + 1]
  BY <1>1, HeadTailProperties
<1> HIDE DEF r
<1>3. \A i \in 1 .. Len(r) : i \in Nat /\ i + 1 \in 1 .. n /\ r[i] = q[i + 1] /\ 1 < i + 1
  BY <1>1, <1>2
<1>4. \A i \in 1 .. Len(r) : \A p : Leaves(r, i, p) <=> Leaves(q, i + 1, p)
  BY <1>3 DEF Leaves
<1>5. \A k \in 1 .. n : 1 < k => k - 1 \in 1 .. Len(r) /\ r[k - 1] = q[k] /\ \A p : Leaves(q, k, p) => Leaves(r, k - 1, p)
  BY <1>1, <1>2 DEF Leaves
<1>6. \A i \in 1 .. Len(r) : r[i].seat <= s
  BY <1>3 DEF QueueSound
<1>7. \A i, k \in 1 .. Len(r) : i < k => r[i].seat <= r[k].seat
  <2> SUFFICES ASSUME NEW i \in 1 .. Len(r), NEW k \in 1 .. Len(r), i < k
               PROVE  r[i].seat <= r[k].seat
    OBVIOUS
  <2>1. i + 1 < k + 1
    BY <1>3
  <2> QED
    BY <1>3, <2>1 DEF QueueSound
<1>8. \A i \in 1 .. Len(r) : r[i].type = "down" =>
        r[i].pointer \in fs \/ \E k \in 1 .. Len(r) : i < k /\ Leaves(r, k, r[i].pointer)
  <2> SUFFICES ASSUME NEW i \in 1 .. Len(r), r[i].type = "down", r[i].pointer \notin fs
               PROVE  \E k \in 1 .. Len(r) : i < k /\ Leaves(r, k, r[i].pointer)
    OBVIOUS
  <2>1. PICK k \in 1 .. n : i + 1 < k /\ Leaves(q, k, r[i].pointer)
    BY <1>3 DEF QueueSound
  <2>2. 1 < k /\ i < k - 1
    BY <1>3, <2>1
  <2> QED
    BY <1>5, <2>1, <2>2
<1>9. \A i, k \in 1 .. Len(r) :
        i < k /\ r[i].type = "down" /\ r[k].type = "down" /\ r[i].pointer = r[k].pointer =>
          \E l \in 1 .. Len(r) : i < l /\ l < k /\ Leaves(r, l, r[i].pointer)
  <2> SUFFICES ASSUME NEW i \in 1 .. Len(r), NEW k \in 1 .. Len(r), i < k,
                      r[i].type = "down", r[k].type = "down", r[i].pointer = r[k].pointer
               PROVE  \E l \in 1 .. Len(r) : i < l /\ l < k /\ Leaves(r, l, r[i].pointer)
    OBVIOUS
  <2>1. i + 1 < k + 1
    BY <1>3
  <2>2. PICK l \in 1 .. n : i + 1 < l /\ l < k + 1 /\ Leaves(q, l, r[i].pointer)
    BY <1>3, <2>1 DEF QueueSound
  <2>3. 1 < l /\ i < l - 1 /\ l - 1 < k
    BY <1>3, <2>2
  <2> QED
    BY <1>5, <2>2, <2>3
<1>10. \A i \in 1 .. Len(r) : r[i].type = "down" /\ r[i].pointer \in up /\ r[i].seat = s =>
         \E k \in 1 .. Len(r) : k < i /\ Leaves(r, k, r[i].pointer) /\ r[k].seat = s
  <2> SUFFICES ASSUME NEW i \in 1 .. Len(r), r[i].type = "down", r[i].pointer \in up, r[i].seat = s
               PROVE  \E k \in 1 .. Len(r) : k < i /\ Leaves(r, k, r[i].pointer) /\ r[k].seat = s
    OBVIOUS
  <2>1. 1 \in 1 .. n
    BY <1>1
  <2>2. PICK k \in 1 .. n : 1 < k /\ k < i + 1 /\ Leaves(q, k, r[i].pointer) /\ q[k].seat = s
    <3>1. CASE r[i].pointer \in down /\ ~(Leaves(q, 1, r[i].pointer) /\ q[1].seat = s)
      <4>1. PICK k \in 1 .. n : k < i + 1 /\ Leaves(q, k, r[i].pointer) /\ q[k].seat = s
        BY <1>3, <3>1 DEF QueueSound
      <4>2. k # 1
        BY <3>1, <4>1
      <4> QED
        BY <1>1, <4>1, <4>2
    <3>2. CASE q[1].pointer = r[i].pointer /\ q[1].type = "down" /\ q[1].seat = s
      <4>1. PICK k \in 1 .. n : 1 < k /\ k < i + 1 /\ Leaves(q, k, q[1].pointer)
        BY <1>3, <2>1, <3>2 DEF QueueSound
      <4>2. q[1].seat <= q[k].seat /\ q[k].seat <= s /\ q[k].seat \in Nat /\ s \in Int
        <5>1. q[k] \in Jobs /\ q[1] \in Jobs
          BY <1>1, <2>1, ElementOfSeq
        <5> QED
          BY <2>1, <3>2, <4>1, <5>1 DEF QueueSound, Jobs
      <4> QED
        BY <3>2, <4>1, <4>2
    <3> QED
      BY <3>1, <3>2
  <2>3. k - 1 < i
    BY <1>3, <2>2
  <2> QED
    BY <1>5, <2>2, <2>3
<1>11. \A p \in up : p \in fs \/ \E k \in 1 .. Len(r) : Leaves(r, k, p) /\ r[k].seat = s
  <2> SUFFICES ASSUME NEW p \in up, p \notin fs
               PROVE  \E k \in 1 .. Len(r) : Leaves(r, k, p) /\ r[k].seat = s
    OBVIOUS
  <2>1. 1 \in 1 .. n
    BY <1>1
  <2>2. PICK k \in 1 .. n : 1 < k /\ Leaves(q, k, p) /\ q[k].seat = s
    <3>1. CASE p \in down /\ ~(Leaves(q, 1, p) /\ q[1].seat = s)
      <4>1. PICK k \in 1 .. n : Leaves(q, k, p) /\ q[k].seat = s
        BY <3>1 DEF QueueSound
      <4>2. k # 1
        BY <3>1, <4>1
      <4> QED
        BY <1>1, <4>1, <4>2
    <3>2. CASE q[1].pointer = p /\ q[1].type = "down" /\ q[1].seat = s
      <4>1. PICK k \in 1 .. n : 1 < k /\ Leaves(q, k, p)
        BY <2>1, <3>2 DEF QueueSound
      <4>2. q[1].seat <= q[k].seat /\ q[k].seat <= s /\ q[k].seat \in Nat /\ s \in Int
        <5>1. q[k] \in Jobs /\ q[1] \in Jobs
          BY <1>1, <2>1, ElementOfSeq
        <5> QED
          BY <2>1, <3>2, <4>1, <5>1 DEF QueueSound, Jobs
      <4> QED
        BY <3>2, <4>1, <4>2
    <3> QED
      BY <3>1, <3>2
  <2> QED
    BY <1>5, <2>2
<1> QED
  BY <1>2, <1>6, <1>7, <1>8, <1>9, <1>10, <1>11 DEF QueueSound, r

\* All touches are forgotten, in a seat that may be another one.
LEMMA ForgottenTouches ==
  ASSUME NEW q, NEW down, NEW fs, NEW s \in Nat, QueueSound(q, down, fs, s), NEW t \in {s, s + 1}
  PROVE  QueueSound(q, {}, fs, t)
<1>1. \A i \in 1 .. Len(q) : q[i].seat <= t
  <2> TAKE i \in 1 .. Len(q)
  <2>1. q[i] \in Jobs /\ q[i].seat <= s
    BY ElementOfSeq DEF QueueSound
  <2> QED
    BY <2>1 DEF Jobs
<1> QED
  BY <1>1 DEF QueueSound

LEMMA NoTouchIsSound == TouchSound(NoTouch) /\ NoTouch.down = {} /\ NoTouch.single = NoSingle
BY FS_EmptySet DEF TouchSound, Touches, NoTouch

LEMMA AbortedTouch ==
  ASSUME TableSound(table), TouchSound(touch), DragSound(table, touch.single, press), NEW sent, AbortTouch(sent)
  PROVE  /\ TouchSound(touch') /\ touch' = NoTouch /\ touch'.down = {}
         /\ TableSound(table') /\ DragSound(table', touch'.single, press)
<1>1. touch' = NoTouch
  BY DEF AbortTouch
<1>2. table' = IF touch.single # NoSingle /\ touch.single.dragging THEN FinishDrag(touch.single.pointer, sent) ELSE table
  BY DEF AbortTouch
<1>3. TableSound(table') /\ DragSound(table', touch'.single, press)
  BY <1>2, TouchLetsGo
<1> QED
  BY <1>1, <1>3, NoTouchIsSound

LEMMA SingleIsTyped ==
  ASSUME TouchSound(touch), touch.single # NoSingle
  PROVE  touch.single \in Singles
BY DEF TouchSound, Touches

LEMMA FingerDown ==
  ASSUME TableSound(table), TouchSound(touch), DragSound(table, touch.single, press),
         NEW p \in Fingers, p \notin touch.down, NEW e \in table.shown \cup {Nothing}, Down(p, e)
  PROVE  /\ TouchSound(touch') /\ touch'.down = touch.down \cup {p}
         /\ TableSound(table') /\ DragSound(table', touch'.single, press)
<1> DEFINE down == touch.down \cup {p}
<1>1. /\ touch \in Touches /\ IsFiniteSet(down) /\ down \in SUBSET Fingers
      /\ Cardinality(down) = Cardinality(touch.down) + 1 /\ Cardinality(touch.down) \in Nat
  BY FS_AddElement, FS_CardinalityType DEF TouchSound, Touches
<1>2. Cardinality(touch.down) = 0 => touch.down = {}
  BY FS_EmptySet DEF TouchSound
<1> HIDE DEF down
<1>3. CASE Cardinality(down) = 1
  <2> DEFINE s == [pointer |-> p, piece |-> e, grabbable |-> e # Nothing /\ Grabbable(e),
                   moved |-> FALSE, dragging |-> FALSE, fired |-> FALSE]
  <2>1. touch.single = NoSingle
    BY <1>1, <1>2, <1>3 DEF TouchSound
  <2>0. Cardinality(down) # 2 /\ Cardinality(down) \in {1, 2}
    BY <1>3
  <2>2. PICK tap \in Tap : touch' = [touch EXCEPT !.down = down, !.tap = tap, !.single = s]
    BY <2>0, Zenon DEF Down, down
  <2>3. table' = table
    BY <2>0, Zenon DEF Down, down
  <2>4. e \in Pieces \cup {Nothing} /\ (s.grabbable => s.piece \in Pieces)
    BY DEF TableSound, Tables
  <2>5. s \in Singles /\ s.pointer = p /\ ~s.dragging
    BY <2>4 DEF Singles
  <2>6. tap \in BOOLEAN
    BY <1>1, <2>2 DEF Tap, Touches
  <2> HIDE DEF s
  <2>7. touch' \in Touches /\ touch'.down = down /\ touch'.single = s /\ touch'.multi = touch.multi
    BY <1>1, <2>2, <2>5, <2>6 DEF Touches
  <2>8. ~touch.multi
    BY <1>3, <1>1, <1>2 DEF TouchSound
  <2> QED
    BY <1>1, <2>1, <2>3, <2>4, <2>5, <2>7, <2>8 DEF TouchSound, DragSound, ByTouch, down
<1>4. CASE Cardinality(down) = 2
  <2>0. Cardinality(down) # 1 /\ Cardinality(down) \in {1, 2}
    BY <1>4
  <2>1. touch' = [down |-> down, single |-> NoSingle, multi |-> TRUE, tap |-> FALSE]
    BY <2>0, Zenon DEF Down, down
  <2>2. table' = IF touch.single # NoSingle /\ touch.single.dragging THEN FinishDrag(touch.single.pointer, TRUE) ELSE table
    BY <2>0, Zenon DEF Down, down, CancelsDrag
  <2>3. TouchSound(touch') /\ touch'.down = down
    BY <1>1, <1>4, <2>1 DEF TouchSound, Touches
  <2> QED
    BY <2>2, <2>3, TouchLetsGo DEF down
<1>5. CASE Cardinality(down) \notin {1, 2}
  <2>1. touch' = [touch EXCEPT !.down = down] /\ table' = table
    BY <1>5 DEF Down, down
  <2>2. touch' \in Touches /\ touch'.down = down /\ touch'.single = touch.single /\ touch'.multi = touch.multi
    BY <1>1, <2>1 DEF Touches
  <2> QED
    BY <1>1, <2>1, <2>2 DEF TouchSound, DragSound, ByTouch, down
<1> QED
  BY <1>3, <1>4, <1>5

LEMMA FingerMoves ==
  ASSUME TableSound(table), TouchSound(touch), DragSound(table, touch.single, press), NEW p \in touch.down, Move(p)
  PROVE  /\ TouchSound(touch') /\ touch'.down = touch.down
         /\ TableSound(table') /\ DragSound(table', touch'.single, press)
<1>1. CASE touch.multi \/ touch.single.pointer # p
  BY <1>1 DEF Move
<1>2. CASE ~(touch.multi \/ touch.single.pointer # p)
  <2> DEFINE single == touch.single
  <2>1. p \in Fingers /\ touch \in Touches
    BY DEF TouchSound, Touches
  <2>2. single # NoSingle /\ single.pointer = p
    BY <1>2, <2>1, HandsAssumption DEF NoSingle
  <2>3. single \in Singles
    BY <2>2, SingleIsTyped
  <2>4. PICK moved \in {single.moved, TRUE}, fired \in BOOLEAN, tap \in Tap :
          /\ touch' = [touch EXCEPT !.tap = tap, !.single.moved = moved, !.single.fired = fired,
                                    !.single.dragging = moved /\ single.grabbable]
          /\ table' = IF (moved /\ single.grabbable) /\ ~single.dragging THEN Begin(single.piece, p) ELSE table
    <3>1. \E moved \in {single.moved, TRUE}, fired \in BOOLEAN, tap \in Tap :
            LET drags == moved /\ touch.single.grabbable
            IN  /\ fired => touch.single.fired \/ (~moved /\ touch.single.piece # Nothing)
                /\ touch.single.fired => fired
                /\ touch' = [touch EXCEPT !.tap = tap, !.single.moved = moved, !.single.fired = fired,
                                          !.single.dragging = drags]
                /\ table' = IF drags /\ ~touch.single.dragging THEN Begin(touch.single.piece, p) ELSE table
      BY <1>2, Zenon DEF Move
    <3> QED
      BY <3>1, ZenonT(120)
  <2>5. moved \in BOOLEAN /\ tap \in BOOLEAN
    BY <2>1, <2>3, <2>4 DEF Singles, Tap, Touches
  <2>6. PICK drags \in BOOLEAN : drags = (moved /\ single.grabbable)
    OBVIOUS
  <2> DEFINE s == [single EXCEPT !.moved = moved, !.fired = fired, !.dragging = drags]
  <2>7. touch' = [touch EXCEPT !.tap = tap, !.single = s]
    BY <2>1, <2>4, <2>6 DEF Touches
  <2>8. /\ s \in Singles /\ s.pointer = p /\ s.piece = single.piece /\ s.grabbable = single.grabbable
        /\ s.moved = moved /\ s.dragging = drags
    BY <2>2, <2>3, <2>5, <2>6 DEF Singles
  <2> HIDE DEF s
  <2>9. touch' \in Touches /\ touch'.down = touch.down /\ touch'.single = s /\ touch'.multi = touch.multi
    BY <2>1, <2>5, <2>7, <2>8 DEF Touches
  <2>10. ~touch.multi /\ (single.grabbable => single.piece \in Pieces) /\ (single.dragging => single.moved /\ single.grabbable)
    BY <2>2 DEF TouchSound
  <2>11. TouchSound(touch')
    <3>1. s.dragging => s.moved /\ s.grabbable
      BY <2>6, <2>8
    <3>2. s.grabbable => s.piece \in Pieces
      BY <2>8, <2>10
    <3>3. IsFiniteSet(touch'.down) /\ s.pointer \in touch'.down /\ ~touch'.multi
      BY <2>8, <2>9, <2>10 DEF TouchSound
    <3> QED
      BY <2>9, <3>1, <3>2, <3>3 DEF TouchSound
  <2>12. s # NoSingle
    BY <2>1, <2>8, HandsAssumption DEF NoSingle
  <2>13. p \in Pointers
    BY <2>1 DEF Pointers
  <2>14. CASE drags /\ ~single.dragging
    <3>1. table' = Begin(single.piece, p) /\ single.piece \in Pieces
      BY <2>4, <2>6, <2>10, <2>14
    <3>2. /\ TableSound(table')
          /\ table' = table \/ (table'.drag = [pointer |-> p, piece |-> single.piece] /\ table.drag = NoHold)
      BY <2>13, <3>1, BegunDrag
    <3>3. CASE table' = table
      <4>1. ~ByTouch(table, touch.single)
        BY <2>14 DEF ByTouch
      <4> QED
        BY <2>9, <2>11, <3>2, <3>3, <4>1 DEF DragSound
    <3>4. CASE table'.drag = [pointer |-> p, piece |-> single.piece]
      <4>1. ByTouch(table', s)
        BY <2>8, <2>12, <2>14, <3>4 DEF ByTouch
      <4> QED
        BY <2>9, <2>11, <3>2, <4>1 DEF DragSound
    <3> QED
      BY <3>2, <3>3, <3>4
  <2>15. CASE ~(drags /\ ~single.dragging)
    <3>1. table' = table
      BY <2>4, <2>6, <2>15
    <3>2. single.dragging => s.dragging
      BY <2>4, <2>6, <2>8, <2>10
    <3>3. ByTouch(table, single) => ByTouch(table, s)
      BY <2>2, <2>8, <2>12, <3>2 DEF ByTouch
    <3> QED
      BY <2>9, <2>11, <3>1, <3>3 DEF DragSound
  <2> QED
    BY <2>14, <2>15
<1> QED
  BY <1>1, <1>2, SMTT(40)

LEMMA FingerUp ==
  ASSUME TableSound(table), TouchSound(touch), DragSound(table, touch.single, press), NEW p \in touch.down, Up(p)
  PROVE  /\ TouchSound(touch') /\ touch'.down = touch.down \ {p}
         /\ TableSound(table') /\ DragSound(table', touch'.single, press)
<1> DEFINE down == touch.down \ {p}
           single == touch.single
<1>1. touch \in Touches /\ IsFiniteSet(down) /\ down \in SUBSET Fingers /\ p \in Fingers
  BY FS_RemoveElement DEF TouchSound, Touches
<1> HIDE DEF down
<1>2. CASE touch.multi
  <2>1. PICK more \in BOOLEAN : more = (Cardinality(down) >= 2)
    <3>1. (Cardinality(down) >= 2) \in BOOLEAN
      BY FS_CardinalityType
    <3> QED
      BY <3>1
  <2>2. touch' = [touch EXCEPT !.down = down, !.single = NoSingle, !.multi = more] /\ table' = table
    BY <1>2, <2>1 DEF Up, down
  <2>3. touch' \in Touches /\ touch'.down = down /\ touch'.single = NoSingle /\ touch'.multi = more
    BY <1>1, <2>2 DEF Touches
  <2>4. touch.single = NoSingle
    BY <1>2 DEF TouchSound
  <2> QED
    BY <1>1, <2>1, <2>2, <2>3, <2>4 DEF TouchSound, DragSound, ByTouch, down
<1>3. CASE ~touch.multi /\ single.pointer # p
  <2>1. touch' = [touch EXCEPT !.down = down] /\ table' = table
    BY <1>3 DEF Up, down
  <2>2. touch' \in Touches /\ touch'.down = down /\ touch'.single = touch.single /\ touch'.multi = touch.multi
    BY <1>1, <2>1 DEF Touches
  <2>3. touch.single # NoSingle => touch.single.pointer \in down
    BY <1>3 DEF TouchSound, down
  <2> QED
    BY <1>1, <1>3, <2>1, <2>2, <2>3 DEF TouchSound, DragSound, ByTouch, down
<1>4. CASE ~touch.multi /\ single.pointer = p
  <2>1. single # NoSingle
    BY <1>1, <1>4, HandsAssumption DEF NoSingle
  <2>2. PICK tap \in IF single.moved \/ single.fired THEN Tap ELSE BOOLEAN :
          touch' = [touch EXCEPT !.down = down, !.single = NoSingle, !.tap = tap]
    BY <1>4 DEF Up, down
  <2>3. table' = IF touch.single # NoSingle /\ touch.single.dragging THEN FinishDrag(touch.single.pointer, TRUE) ELSE table
    BY <1>4, <2>1 DEF Up
  <2>4. tap \in BOOLEAN
    BY <1>1, <2>2 DEF Tap, Touches
  <2>5. touch' \in Touches /\ touch'.down = down /\ touch'.single = NoSingle /\ touch'.multi = touch.multi
    BY <1>1, <2>2, <2>4 DEF Touches
  <2>6. TouchSound(touch')
    BY <1>1, <1>4, <2>5 DEF TouchSound
  <2> QED
    BY <2>3, <2>5, <2>6, TouchLetsGo DEF down
<1> QED
  BY <1>2, <1>3, <1>4

LEMMA InitHands == HandsInit => HandsInv
<1> SUFFICES ASSUME HandsInit
             PROVE  HandsInv
  OBVIOUS
<1>1. touchQueue = << >> /\ << >> \in Seq(Jobs) /\ Len(<< >>) = 0 /\ picks \in Seq([piece : Pieces \cup {Nothing}, seat : Nat])
  BY EmptySeq DEF HandsInit
<1>2. /\ NoHold \in Holds
      /\ table = [drag |-> NoHold, holder |-> [e \in Pieces |-> "nobody"], shown |-> Pieces, bounded |-> Pieces, lost |-> {}]
  BY DEF HandsInit, NoHold, Holds
<1>3. table \in Tables /\ table.drag = NoHold /\ table.holder = [e \in Pieces |-> "nobody"]
  BY <1>2 DEF Tables
<1>4. TableSound(table)
  BY <1>3 DEF TableSound
<1>5. touch = NoTouch /\ press = NoPress /\ fingers = {} /\ seat = 0 /\ picking = FALSE
  BY DEF HandsInit
<1>6. QueueSound(touchQueue, touch.down, fingers, seat)
  BY <1>1, <1>5, NoTouchIsSound DEF QueueSound
<1> QED
  BY <1>1, <1>3, <1>4, <1>5, <1>6, NoTouchIsSound DEF HandsInv, PressSound, DragSound

LEMMA EventKeepsHands ==
  ASSUME HandsInv, NEW p \in Fingers, TouchEvent(p)
  PROVE  HandsInv'
<1> DEFINE Job(type) == [type |-> type, pointer |-> p, seat |-> seat]
<1>1. /\ UNCHANGED <<table, touch, press, picks, button, seat, picking>>
      /\ seat \in Nat /\ touchQueue \in Seq(Jobs)
  BY DEF TouchEvent, mouseVars, stageVars, HandsInv, QueueSound
<1>2. \A type \in {"down", "move", "up", "cancel"} :
        Job(type) \in Jobs /\ Job(type).seat = seat /\ Job(type).type = type /\ Job(type).pointer = p
  BY <1>1 DEF Jobs
<1>3. \A type : Queued(type, p) = Append(touchQueue, Job(type))
  BY DEF Queued
<1> HIDE DEF Job
<1>4. /\ QueueSound(touchQueue', touch.down, fingers', seat) /\ fingers' \in SUBSET Fingers
      /\ picking => touchQueue' # << >> /\ touchQueue'[1] = touchQueue[1]
  <2>1. QueueSound(touchQueue, touch.down, fingers, seat) /\ fingers \in SUBSET Fingers
    BY DEF HandsInv
  <2>2. CASE p \notin fingers /\ fingers' = fingers \cup {p} /\ touchQueue' = Queued("down", p)
    <3>1. touchQueue' = Append(touchQueue, Job("down"))
      BY <1>3, <2>2
    <3> DEFINE j == Job("down")
    <3>4. j \in Jobs /\ j.seat = seat /\ j.type = "down" /\ j.pointer \notin fingers /\ fingers' = fingers \cup {j.pointer}
      BY <1>2, <2>2
    <3> HIDE DEF j
    <3>5. QueueSound(Append(touchQueue, j), touch.down, fingers', seat)
      BY <1>1, <2>1, <3>4, QueuedEvent
    <3>2. QueueSound(touchQueue', touch.down, fingers', seat)
      BY <3>1, <3>5 DEF j
    <3>3. picking => touchQueue' # << >> /\ touchQueue'[1] = touchQueue[1]
      <4> HAVE picking
      <4>1. touchQueue # << >> /\ Len(touchQueue) \in Nat /\ Len(touchQueue) # 0
        BY <1>1, LenProperties, EmptySeq DEF HandsInv
      <4> QED
        BY <1>1, <1>2, <3>1, <4>1, AppendProperties
    <3> QED
      BY <2>1, <2>2, <3>2, <3>3
  <2>3. CASE fingers' = fingers /\ touchQueue' = Queued("move", p)
    <3>1. touchQueue' = Append(touchQueue, Job("move"))
      BY <1>3, <2>3
    <3>2. QueueSound(touchQueue', touch.down, fingers', seat)
      BY <1>1, <1>2, <2>1, <2>3, <3>1, QueuedEvent
    <3>3. picking => touchQueue' # << >> /\ touchQueue'[1] = touchQueue[1]
      <4> HAVE picking
      <4>1. touchQueue # << >> /\ Len(touchQueue) \in Nat /\ Len(touchQueue) # 0
        BY <1>1, LenProperties, EmptySeq DEF HandsInv
      <4> QED
        BY <1>1, <1>2, <3>1, <4>1, AppendProperties
    <3> QED
      BY <2>1, <2>3, <3>2, <3>3
  <2>4. ASSUME NEW type \in {"up", "cancel"}, fingers' = fingers \ {p},
               touchQueue' = Queued(type, p) \o <<[type |-> "cancel", pointer |-> p, seat |-> seat]>>
        PROVE  /\ QueueSound(touchQueue', touch.down, fingers', seat) /\ fingers' \in SUBSET Fingers
               /\ picking => touchQueue' # << >> /\ touchQueue'[1] = touchQueue[1]
    <3> DEFINE q == Append(touchQueue, Job(type))
    <3>1. q \in Seq(Jobs) /\ q # << >> /\ Len(q) = Len(touchQueue) + 1 /\ \A i \in 1 .. Len(touchQueue) : q[i] = touchQueue[i]
      BY <1>1, <1>2, AppendProperties
    <3>2. QueueSound(q, touch.down, fingers', seat)
      BY <1>1, <1>2, <2>1, <2>4, QueuedEvent
    <3>3. touchQueue' = Append(q, Job("cancel"))
      <4>1. touchQueue' = q \o <<Job("cancel")>>
        BY <1>3, <2>4 DEF Job
      <4> QED
        BY <1>2, <3>1, <4>1, AppendIsConcat
    <3>4. fingers' = fingers' \ {p}
      BY <2>4
    <3> HIDE DEF q
    <3>5. QueueSound(touchQueue', touch.down, fingers', seat)
      BY <1>1, <1>2, <3>2, <3>3, <3>4, QueuedEvent
    <3>6. picking => touchQueue' # << >> /\ touchQueue'[1] = touchQueue[1]
      <4> HAVE picking
      <4>1. touchQueue # << >> /\ Len(touchQueue) \in Nat /\ Len(touchQueue) # 0
        BY <1>1, LenProperties, EmptySeq DEF HandsInv
      <4>2. touchQueue' # << >> /\ \A i \in 1 .. Len(q) : touchQueue'[i] = q[i]
        BY <1>2, <3>1, <3>3, AppendProperties
      <4>3. 1 \in 1 .. Len(q) /\ 1 \in 1 .. Len(touchQueue)
        BY <3>1, <4>1
      <4> QED
        BY <3>1, <4>2, <4>3
    <3> QED
      BY <2>1, <2>4, <3>5, <3>6
  <2> QED
    BY <2>2, <2>3, <2>4 DEF TouchEvent
<1> QED
  BY <1>1, <1>4 DEF HandsInv, DragSound, ByTouch, ByMouse, PressSound


LEMMA HandledFirst ==
  ASSUME HandsInv, touchQueue # << >>, NEW p, p = touchQueue[1].pointer
  PROVE  /\ p \in Fingers /\ touchQueue[1] \in Jobs /\ Head(touchQueue) = touchQueue[1]
         /\ QueueSound(Tail(touchQueue), touch.down \ {p}, fingers, seat)
         /\ QueueSound(Tail(touchQueue), {}, fingers, seat)
         /\ (~(Leaves(touchQueue, 1, p) /\ touchQueue[1].seat = seat) \/ p \notin touch.down) =>
              QueueSound(Tail(touchQueue), touch.down, fingers, seat)
         /\ touchQueue[1].type = "down" /\ touchQueue[1].seat = seat =>
              p \notin touch.down /\ QueueSound(Tail(touchQueue), touch.down \cup {p}, fingers, seat)
<1>1. QueueSound(touchQueue, touch.down, fingers, seat) /\ touchQueue \in Seq(Jobs)
  BY DEF HandsInv, QueueSound
<1>2. 1 \in 1 .. Len(touchQueue) /\ Head(touchQueue) = touchQueue[1] /\ touchQueue[1] \in Jobs
  BY <1>1, EmptySeq, HeadTailProperties, ElementOfSeq
<1>3. p \in Fingers
  BY <1>2 DEF Jobs
<1>4. QueueSound(Tail(touchQueue), touch.down \ {p}, fingers, seat)
  <2>1. \A r \in touch.down \ {p} : r \in touch.down /\ ~(Leaves(touchQueue, 1, r) /\ touchQueue[1].seat = seat)
    BY DEF Leaves
  <2> QED
    BY <1>1, <2>1, HandledEvent
<1>5. QueueSound(Tail(touchQueue), {}, fingers, seat)
  BY <1>1, HandledEvent
<1>6. (~(Leaves(touchQueue, 1, p) /\ touchQueue[1].seat = seat) \/ p \notin touch.down) =>
        QueueSound(Tail(touchQueue), touch.down, fingers, seat)
  <2> HAVE ~(Leaves(touchQueue, 1, p) /\ touchQueue[1].seat = seat) \/ p \notin touch.down
  <2>1. \A r \in touch.down : r \in touch.down /\ ~(Leaves(touchQueue, 1, r) /\ touchQueue[1].seat = seat)
    BY DEF Leaves
  <2> QED
    BY <1>1, <2>1, HandledEvent
<1>7. touchQueue[1].type = "down" /\ touchQueue[1].seat = seat =>
        p \notin touch.down /\ QueueSound(Tail(touchQueue), touch.down \cup {p}, fingers, seat)
  <2> HAVE touchQueue[1].type = "down" /\ touchQueue[1].seat = seat
  <2>1. \A r \in touch.down \cup {p} :
           \/ r \in touch.down /\ ~(Leaves(touchQueue, 1, r) /\ touchQueue[1].seat = seat)
           \/ touchQueue[1].pointer = r /\ touchQueue[1].type = "down" /\ touchQueue[1].seat = seat
    BY DEF Leaves
  <2>2. QueueSound(Tail(touchQueue), touch.down \cup {p}, fingers, seat)
    BY <1>1, <2>1, HandledEvent
  <2>3. p \notin touch.down
    <3> SUFFICES ASSUME p \in touch.down
                 PROVE  FALSE
      OBVIOUS
    <3>1. \E j \in 1 .. Len(touchQueue) : j < 1
      BY <1>1, <1>2 DEF QueueSound
    <3> QED
      BY <3>1
  <2> QED
    BY <2>2, <2>3
<1> QED
  BY <1>2, <1>3, <1>4, <1>5, <1>6, <1>7

LEMMA RunKeepsHands == HandsInv /\ RunTouch => HandsInv'
<1> SUFFICES ASSUME HandsInv, RunTouch
             PROVE  HandsInv'
  OBVIOUS
<1> DEFINE job == touchQueue[1]
           starts == job.seat = seat /\ ~paused /\ job.type = "down"
<1>1. touchQueue # << >> /\ UNCHANGED <<press, picks, button, fingers, seat>>
  BY DEF RunTouch, mouseVars, stageVars
<1>2. /\ job \in Jobs /\ job.pointer \in Fingers /\ Head(touchQueue) = job
      /\ QueueSound(Tail(touchQueue), touch.down \ {job.pointer}, fingers, seat)
      /\ QueueSound(Tail(touchQueue), {}, fingers, seat)
      /\ (~(Leaves(touchQueue, 1, job.pointer) /\ job.seat = seat) \/ job.pointer \notin touch.down) =>
           QueueSound(Tail(touchQueue), touch.down, fingers, seat)
  BY <1>1, HandledFirst
<1>3. /\ picking' = starts /\ touchQueue' = (IF starts THEN touchQueue ELSE Tail(touchQueue))
      /\ \/ (starts \/ job.seat # seat) /\ UNCHANGED <<touch, table>>
         \/ ~starts /\ paused /\ AbortTouch(open)
         \/ /\ job.seat = seat /\ ~starts /\ job.type # "down"
            /\ \/ job.pointer \notin touch.down /\ UNCHANGED <<touch, table>>
               \/ /\ job.pointer \in touch.down
                  /\ \/ job.type = "cancel" /\ AbortTouch(open)
                     \/ job.type = "move" /\ Move(job.pointer)
                     \/ job.type = "up" /\ Up(job.pointer)
  BY <1>2 DEF RunTouch
<1>4. TableSound(table) /\ TouchSound(touch) /\ DragSound(table, touch.single, press)
  BY DEF HandsInv
<1>5. TouchSound(touch') /\ TableSound(table') /\ DragSound(table', touch'.single, press)
  BY <1>3, <1>4, AbortedTouch, FingerMoves, FingerUp
<1>6. QueueSound(touchQueue', touch'.down, fingers, seat) /\ (picking' => touchQueue' # << >> /\ touchQueue'[1].type = "down")
  <2>1. CASE starts
    <3>1. touch' = touch
      BY <1>3, <2>1
    <3> QED
      BY <1>1, <1>3, <2>1, <3>1 DEF HandsInv
  <2>2. CASE ~starts
    <3>1. touchQueue' = Tail(touchQueue) /\ ~picking'
      BY <1>3, <2>2
    <3>2. \/ touch'.down = touch.down /\ (job.seat # seat \/ job.pointer \notin touch.down \/ job.type = "move")
          \/ touch'.down = {}
          \/ touch'.down = touch.down \ {job.pointer}
      BY <1>3, <1>4, <2>2, AbortedTouch, FingerMoves, FingerUp
    <3>3. job.type = "move" => ~Leaves(touchQueue, 1, job.pointer)
      BY DEF Leaves
    <3> HIDE DEF job
    <3> QED
      BY <1>2, <3>1, <3>2, <3>3
  <2> QED
    BY <2>1, <2>2
<1> QED
  BY <1>1, <1>5, <1>6 DEF HandsInv

LEMMA PickKeepsHands ==
  ASSUME HandsInv, TouchPickFails \/ \E e \in Pieces \cup {Nothing} : TouchPicked(e)
  PROVE  HandsInv'
<1> DEFINE job == touchQueue[1]
<1>1. touchQueue # << >> /\ job.type = "down" /\ touchQueue' = Tail(touchQueue) /\ ~picking'
      /\ UNCHANGED <<press, picks, button, fingers, seat>>
  BY DEF TouchPickFails, TouchPicked, mouseVars, stageVars, HandsInv
<1>2. /\ job \in Jobs /\ job.pointer \in Fingers /\ Head(touchQueue) = job
      /\ QueueSound(Tail(touchQueue), {}, fingers, seat)
      /\ job.seat = seat =>
           job.pointer \notin touch.down /\ QueueSound(Tail(touchQueue), touch.down \cup {job.pointer}, fingers, seat)
  BY <1>1, HandledFirst
<1>3. TableSound(table) /\ TouchSound(touch) /\ DragSound(table, touch.single, press)
  BY DEF HandsInv
<1>4. CASE AbortTouch(open)
  BY <1>1, <1>2, <1>3, <1>4, AbortedTouch DEF HandsInv
<1>5. CASE ~AbortTouch(open)
  <2>1. PICK e \in table.shown \cup {Nothing} : Down(job.pointer, e) /\ job.seat = seat
    BY <1>2, <1>5 DEF TouchPickFails, TouchPicked
  <2>2. /\ TouchSound(touch') /\ touch'.down = touch.down \cup {job.pointer}
        /\ TableSound(table') /\ DragSound(table', touch'.single, press)
    BY <1>2, <1>3, <2>1, FingerDown
  <2> QED
    BY <1>1, <1>2, <2>1, <2>2 DEF HandsInv
<1> QED
  BY <1>4, <1>5

\* Whoever drags is among the gestures that end, and nothing is dragged after.
LEMMA AllLetGo ==
  ASSUME TableSound(table), DragSound(table, touch.single, press), NEW sent, NEW t,
         t = IF (touch.single # NoSingle /\ touch.single.dragging) \/ (press.down /\ press.piece # Nothing)
             THEN FinishDrag(table.drag.pointer, sent) ELSE table
  PROVE  TableSound(t) /\ t.drag = NoHold
<1>1. table.drag.pointer \in Pointers \cup {Nothing}
  BY DEF TableSound, Tables, Holds
<1>2. CASE (touch.single # NoSingle /\ touch.single.dragging) \/ (press.down /\ press.piece # Nothing)
  BY <1>1, <1>2, FinishedDrag
<1>3. CASE ~((touch.single # NoSingle /\ touch.single.dragging) \/ (press.down /\ press.piece # Nothing))
  <2>1. t = table
    BY <1>3
  <2>2. table.drag = NoHold
    BY <1>3, HandsAssumption DEF DragSound, ByTouch, ByMouse, TableSound
  <2> QED
    BY <2>1, <2>2
<1> QED
  BY <1>2, <1>3

\* The mouse lets go, in a table that may show a piece anew.
LEMMA MouseLetsGo ==
  ASSUME TableSound(table), DragSound(table, touch.single, press), NEW sent, NEW t,
         IF press.down /\ press.piece # Nothing
         THEN t = FinishDrag(Mouse, sent) \/ \E e \in Pieces : t = Redrawn(FinishDrag(Mouse, sent), e)
         ELSE t = table
  PROVE  TableSound(t) /\ DragSound(t, touch.single, NoPress)
<1>1. CASE press.down /\ press.piece # Nothing
  <2> DEFINE f == FinishDrag(Mouse, sent)
  <2>1. TableSound(f) /\ f.drag = IF table.drag.pointer = Mouse THEN NoHold ELSE table.drag
    BY FinishedDrag DEF Pointers
  <2> HIDE DEF f
  <2>2. TableSound(t) /\ t.drag = f.drag
    <3>1. CASE t = f
      BY <2>1, <3>1
    <3>2. ASSUME NEW e \in Pieces, t = Redrawn(f, e)
          PROVE  TableSound(t) /\ t.drag = f.drag
      <4>1. f \in Tables
        BY <2>1 DEF TableSound
      <4>2. t \in Tables /\ t.drag = f.drag /\ t.holder = f.holder /\ t.lost = f.lost
        BY <3>2, <4>1 DEF Redrawn, Tables
      <4> QED
        BY <2>1, <4>2 DEF TableSound
    <3> QED
      BY <1>1, <3>1, <3>2 DEF f
  <2>3. t.drag # NoHold => t.drag = table.drag /\ ~ByMouse(table, press)
    BY <2>1, <2>2 DEF ByMouse
  <2> QED
    BY <2>2, <2>3 DEF DragSound, ByTouch
<1>2. CASE ~(press.down /\ press.piece # Nothing)
  BY <1>2, HandsAssumption DEF DragSound, ByMouse, TableSound
<1> QED
  BY <1>1, <1>2

LEMMA MouseKeepsHands ==
  ASSUME HandsInv,
         \/ \E e \in Pieces \cup {Nothing} : MouseDown(e)
         \/ MousePicked \/ MouseUp \/ FlipKey \/ MouseCancelled
  PROVE  HandsInv'
<1>1. UNCHANGED <<touch, touchQueue, picking, fingers, seat>>
  BY DEF MouseDown, MousePicked, MouseUp, FlipKey, MouseCancelled, stageVars
<1>2. /\ TableSound(table) /\ TouchSound(touch) /\ DragSound(table, touch.single, press) /\ PressSound(press, button)
      /\ seat \in Nat /\ picks \in Seq([piece : Pieces \cup {Nothing}, seat : Nat])
  BY DEF HandsInv
<1>3. SUFFICES /\ TableSound(table') /\ DragSound(table', touch.single, press') /\ PressSound(press', button')
               /\ picks' \in Seq([piece : Pieces \cup {Nothing}, seat : Nat])
  BY <1>1 DEF HandsInv
<1>4. press = NoPress \/ (press \in Presses /\ press.down /\ button = TRUE)
  BY <1>2 DEF PressSound, Presses
<1>5. ASSUME NEW e \in Pieces \cup {Nothing}, MouseDown(e)
      PROVE  /\ TableSound(table') /\ DragSound(table', touch.single, press') /\ PressSound(press', button')
             /\ picks' \in Seq([piece : Pieces \cup {Nothing}, seat : Nat])
  <2>1. table' = table /\ button' = TRUE /\ ~button
    BY <1>5 DEF MouseDown
  <2>2. press = NoPress /\ ~press.down
    BY <1>4, <2>1 DEF NoPress
  <2>3. CASE paused
    BY <1>2, <1>5, <2>1, <2>2, <2>3 DEF MouseDown, PressSound
  <2>4. CASE ~paused
    <3>1. /\ press' = [down |-> TRUE, piece |-> Nothing, flip |-> FALSE]
          /\ picks' = Append(picks, [piece |-> e, seat |-> seat])
      BY <1>5, <2>4 DEF MouseDown
    <3>2. picks' \in Seq([piece : Pieces \cup {Nothing}, seat : Nat])
      BY <1>2, <3>1, AppendProperties
    <3>3. PressSound(press', button')
      BY <2>1, <3>1 DEF PressSound, Presses
    <3> QED
      BY <1>2, <2>1, <2>2, <3>2, <3>3 DEF DragSound, ByMouse
  <2> QED
    BY <2>3, <2>4
<1>6. CASE MousePicked
  <2> DEFINE e == Head(picks).piece
  <2>1. picks' \in Seq([piece : Pieces \cup {Nothing}, seat : Nat]) /\ e \in Pieces \cup {Nothing}
    <3> DEFINE Picks == [piece : Pieces \cup {Nothing}, seat : Nat]
    <3>1. picks \in Seq(Picks) /\ picks # << >> /\ picks' = Tail(picks)
      BY <1>2, <1>6 DEF MousePicked
    <3> HIDE DEF Picks
    <3>2. picks' \in Seq(Picks) /\ Head(picks) \in Picks
      BY <3>1, HeadTailProperties
    <3> QED
      BY <3>2 DEF Picks
  <2>2. button' = button
    BY <1>6 DEF MousePicked
  <2>3. CASE UNCHANGED <<press, table>>
    BY <1>2, <2>1, <2>2, <2>3
  <2>4. CASE ~UNCHANGED <<press, table>>
    <3>1. e \in Pieces /\ press.down /\ press.piece = Nothing /\ press' = [press EXCEPT !.piece = e] /\ table' = Begin(e, Mouse)
      BY <1>6, <2>1, <2>4 DEF MousePicked
    <3>2. press \in Presses /\ button = TRUE
      BY <1>4, <3>1 DEF NoPress
    <3>3. press' \in Presses /\ press'.piece = e /\ press'.down
      BY <3>1, <3>2 DEF Presses
    <3>4. /\ TableSound(table')
          /\ table' = table \/ (table'.drag = [pointer |-> Mouse, piece |-> e] /\ table.drag = NoHold)
      BY <1>2, <3>1, BegunDrag DEF Pointers
    <3>5. DragSound(table', touch.single, press')
      <4>1. CASE table' = table
        <5>1. table.drag # NoHold => ~ByMouse(table, press)
          BY <1>2, <3>1, HandsAssumption DEF ByMouse, TableSound
        <5> QED
          BY <1>2, <4>1, <5>1 DEF DragSound
      <4>2. CASE table'.drag = [pointer |-> Mouse, piece |-> e]
        BY <3>3, <4>2 DEF DragSound, ByMouse
      <4> QED
        BY <3>4, <4>1, <4>2
    <3> QED
      BY <2>1, <2>2, <3>2, <3>3, <3>4, <3>5 DEF PressSound
  <2> QED
    BY <2>3, <2>4
<1>7. CASE MouseUp
  <2>1. press' = NoPress /\ picks' = picks
    BY <1>7 DEF MouseUp
  <2>2. IF press.down /\ press.piece # Nothing
        THEN table' = FinishDrag(Mouse, TRUE) \/ \E e \in Pieces : table' = Redrawn(FinishDrag(Mouse, TRUE), e)
        ELSE table' = table
    <3>1. press.down => press.piece \in Pieces \cup {Nothing}
      <4>1. ~NoPress.down
        BY DEF NoPress
      <4>2. press \in Presses => press.piece \in Pieces \cup {Nothing}
        BY DEF Presses
      <4> QED
        BY <1>4, <4>1, <4>2
    <3>2. table' = IF ~press.down \/ press.piece = Nothing THEN table
                   ELSE IF press.flip /\ press.piece \in table.shown THEN Redrawn(FinishDrag(Mouse, TRUE), press.piece)
                   ELSE FinishDrag(Mouse, TRUE)
      BY <1>7 DEF MouseUp
    <3> QED
      BY <3>1, <3>2
  <2> QED
    BY <1>2, <2>1, <2>2, MouseLetsGo DEF PressSound
<1>8. CASE FlipKey
  <2>1. PICK flip \in BOOLEAN : flip = ~press.flip
    OBVIOUS
  <2>2. press \in Presses /\ button' = button /\ button = TRUE /\ picks' = picks /\ table' = table
    BY <1>4, <1>8 DEF FlipKey, NoPress
  <2>3. press' = [press EXCEPT !.flip = flip]
    BY <1>8, <2>1 DEF FlipKey
  <2>4. press' \in Presses /\ press'.piece = press.piece /\ press'.down /\ press.down
    BY <2>2, <2>3 DEF Presses
  <2> QED
    BY <1>2, <2>2, <2>4 DEF PressSound, DragSound, ByMouse
<1>9. CASE MouseCancelled
  <2>1. press' = NoPress /\ picks' = picks /\ table' = IF press.down /\ press.piece # Nothing THEN FinishDrag(Mouse, open) ELSE table
    BY <1>9 DEF MouseCancelled, LetGoOfMouse
  <2> QED
    BY <1>2, <2>1, MouseLetsGo DEF PressSound
<1> QED
  BY <1>5, <1>6, <1>7, <1>8, <1>9

LEMMA ChangeKeepsHands ==
  ASSUME HandsInv, (\E sent \in BOOLEAN : Pause(sent)) \/ ChangeSeat \/ Hidden
  PROVE  HandsInv'
<1>1. /\ TableSound(table) /\ TouchSound(touch) /\ DragSound(table, touch.single, press) /\ PressSound(press, button)
      /\ seat \in Nat /\ QueueSound(touchQueue, touch.down, fingers, seat)
  BY DEF HandsInv
<1>2. UNCHANGED <<touchQueue, picking, picks, button, fingers>> /\ touch' = NoTouch /\ seat' \in {seat, seat + 1}
  BY DEF Pause, ChangeSeat, Hidden, AbortAll, mouseVars
<1>3. TableSound(table') /\ table'.drag = NoHold
  <2>1. ASSUME NEW sent \in BOOLEAN, Pause(sent)
        PROVE  TableSound(table') /\ table'.drag = NoHold
    <3>1. table' = FinishDrag(table.drag.pointer, sent) /\ table.drag.pointer \in Pointers \cup {Nothing}
      BY <1>1, <2>1 DEF Pause, LetGo, TableSound, Tables, Holds
    <3> QED
      BY <1>1, <3>1, FinishedDrag
  <2>2. CASE ChangeSeat \/ Hidden
    BY <1>1, <2>2, AllLetGo DEF ChangeSeat, Hidden, AbortAll
  <2> QED
    BY <2>1, <2>2
<1>4. PressSound(press', button')
  BY <1>1, <1>2 DEF Pause, ChangeSeat, Hidden, AbortAll, mouseVars, PressSound
<1>5. QueueSound(touchQueue', touch'.down, fingers', seat')
  BY <1>1, <1>2, ForgottenTouches, NoTouchIsSound
<1>6. seat' \in Nat
  BY <1>1, <1>2
<1> QED
  BY <1>2, <1>3, <1>4, <1>5, <1>6, NoTouchIsSound DEF HandsInv, DragSound

LEMMA SyncKeepsHands == HandsInv /\ Synced => HandsInv'
<1> SUFFICES ASSUME HandsInv, Synced
             PROVE  HandsInv'
  OBVIOUS
<1>1. UNCHANGED <<touch, touchQueue, picking, press, picks, button, fingers, seat>>
  BY DEF Synced, mouseVars
<1>2. TableSound(table) /\ table \in Tables
  BY DEF HandsInv, TableSound
<1>3. PICK e \in Pieces :
        \/ \E h \in {"other", "nobody"} : table' = [table EXCEPT !.holder[e] = h]
        \/ table' = Redrawn(table, e)
        \/ table' = [table EXCEPT !.shown = @ \ {e}]
        \/ table' = [Redrawn(table, e) EXCEPT !.shown = @ \cup {e}]
  BY DEF Synced
<1>4. /\ table' \in Tables /\ table'.drag = table.drag /\ table'.lost = table.lost
      /\ \A x \in Pieces : table'.holder[x] = "me" => table.holder[x] = "me"
  <2>1. ASSUME NEW h \in {"other", "nobody"}, table' = [table EXCEPT !.holder[e] = h]
        PROVE  /\ table' \in Tables /\ table'.drag = table.drag /\ table'.lost = table.lost
               /\ \A x \in Pieces : table'.holder[x] = "me" => table.holder[x] = "me"
    BY <1>2, <2>1 DEF Tables
  <2>2. CASE table' = Redrawn(table, e)
    BY <1>2, <2>2 DEF Tables, Redrawn
  <2>3. CASE table' = [table EXCEPT !.shown = @ \ {e}]
    BY <1>2, <2>3 DEF Tables
  <2>4. CASE table' = [Redrawn(table, e) EXCEPT !.shown = @ \cup {e}]
    BY <1>2, <2>4 DEF Tables, Redrawn
  <2> QED
    BY <1>3, <2>1, <2>2, <2>3, <2>4
<1>5. TableSound(table')
  BY <1>2, <1>4 DEF TableSound
<1> QED
  BY <1>1, <1>4, <1>5 DEF HandsInv, DragSound, ByTouch, ByMouse, PressSound

LEMMA TimerKeepsHands == HandsInv /\ (GestureTimer \/ Unpause) => HandsInv'
<1> SUFFICES ASSUME HandsInv, GestureTimer \/ Unpause
             PROVE  HandsInv'
  OBVIOUS
<1>1. UNCHANGED <<table, touchQueue, picking, press, picks, button, fingers, seat>>
  BY DEF GestureTimer, Unpause, mouseVars, stageVars
<1>2. TouchSound(touch) /\ DragSound(table, touch.single, press)
  BY DEF HandsInv
<1>3. TouchSound(touch') /\ touch'.down = touch.down /\ DragSound(table, touch'.single, press)
  <2>1. CASE touch' = touch
    BY <1>2, <2>1
  <2>2. CASE touch' = [touch EXCEPT !.tap = FALSE]
    <3>1. touch' \in Touches /\ touch'.down = touch.down /\ touch'.single = touch.single /\ touch'.multi = touch.multi
      BY <1>2, <2>2 DEF TouchSound, Touches
    <3> QED
      BY <1>2, <3>1 DEF TouchSound
  <2>3. CASE touch.single # NoSingle /\ touch' = [touch EXCEPT !.single.fired = TRUE]
    <3> DEFINE s == [touch.single EXCEPT !.fired = TRUE]
    <3>1. touch.single \in Singles /\ touch \in Touches
      BY <1>2, <2>3, SingleIsTyped DEF TouchSound
    <3>2. /\ s \in Singles /\ s.pointer = touch.single.pointer /\ s.piece = touch.single.piece
          /\ s.grabbable = touch.single.grabbable /\ s.moved = touch.single.moved /\ s.dragging = touch.single.dragging
      BY <3>1 DEF Singles
    <3>3. touch' = [touch EXCEPT !.single = s]
      BY <2>3, <3>1 DEF Touches
    <3> HIDE DEF s
    <3>4. touch' \in Touches /\ touch'.down = touch.down /\ touch'.single = s /\ touch'.multi = touch.multi
      BY <3>1, <3>2, <3>3 DEF Touches
    <3>5. s # NoSingle
      BY <3>1, <3>2, HandsAssumption DEF Singles, NoSingle
    <3> QED
      BY <1>2, <2>3, <3>2, <3>4, <3>5 DEF TouchSound, DragSound, ByTouch
  <2> QED
    BY <2>1, <2>2, <2>3 DEF GestureTimer, Unpause
<1> QED
  BY <1>1, <1>3 DEF HandsInv, PressSound

LEMMA StepKeepsHands == HandsInv /\ [HandsNext]_handVars => HandsInv'
<1> SUFFICES ASSUME HandsInv, [HandsNext]_handVars
             PROVE  HandsInv'
  OBVIOUS
<1>1. CASE UNCHANGED handVars
  BY <1>1 DEF handVars, HandsInv, PressSound
<1> QED
  BY <1>1, EventKeepsHands, RunKeepsHands, PickKeepsHands, MouseKeepsHands, ChangeKeepsHands, SyncKeepsHands,
     TimerKeepsHands DEF HandsNext

LEMMA HandsAreSound == HandsInv => HandsHoldWhatTheyDrag
<1> SUFFICES ASSUME HandsInv
             PROVE  HandsHoldWhatTheyDrag
  OBVIOUS
<1>1. touchQueue \in Seq(Jobs) /\ DOMAIN touchQueue = 1 .. Len(touchQueue)
  BY LenProperties DEF HandsInv, QueueSound
<1>2. ByTouch(table, touch.single) => TouchDrags(table.drag)
  <2> HAVE ByTouch(table, touch.single)
  <2>1. touch.single.pointer \in touch.down
    BY DEF ByTouch, HandsInv, TouchSound
  <2>2. table.drag.pointer \in fingers \/ \E i \in 1 .. Len(touchQueue) : Leaves(touchQueue, i, table.drag.pointer) /\ touchQueue[i].seat = seat
    BY <2>1 DEF ByTouch, HandsInv, QueueSound
  <2> QED
    BY <1>1, <2>2 DEF ByTouch, TouchDrags, Leaves
<1>3. ByMouse(table, press) => MouseDrags(table.drag)
  BY DEF ByMouse, MouseDrags, HandsInv, PressSound, NoPress
<1> QED
  BY <1>2, <1>3 DEF HandsHoldWhatTheyDrag, HandsInv, DragSound, TableSound

\* However touches, picks, pauses, changes of seat and other players interleave, for any
\* fingers and pieces: a drag is that of a gesture whose pointer is down or about to be
\* handled as lifted, and what the player holds is being dragged, or its drop was lost.
THEOREM HandsAlwaysHold == HandsSpec => []HandsHoldWhatTheyDrag
<1> QED
  BY InitHands, StepKeepsHands, HandsAreSound, PTL DEF HandsSpec

-----------------------------------------------------------------------------
(* Drafts in the editor. *)

Images == ({"none", "own"} \cup Styles) \X Nat
Jobstates == [status : {"pending", "running", "ready", "failed", "unsaved"}, revision : Nat, made : Images]
DraftRecords == [rules : Nat, style : Styles, image : Images, job : Jobstates]

\* A draft whose image is ready shows the one that was made.
SoundDrafts == {d \in DraftRecords : d.job.status = "ready" => d.image = d.job.made}

Drags == [on : {TRUE}, frame : SoundDrafts, mutated : BOOLEAN]
Requests == [phase : {"sent", "decoding"}, key : Styles \X Nat]

EditingInv ==
  /\ draft \in SoundDrafts /\ stored \in SoundDrafts
  /\ past \in Seq(SoundDrafts) /\ future \in Seq(SoundDrafts)
  /\ drag = NoDrag \/ drag \in Drags
  /\ acts \in Nat /\ prepared \in SUBSET Images
  /\ request = NoRequest \/ request \in Requests
  /\ saveStatus = "saved" /\ mounted => stored = draft
  /\ mounted /\ stored # draft => timer \/ saveStatus = "error" \/ (drag.on /\ drag.mutated)

LEMMA ImagesThere == NoImage \in Images /\ OwnImage \in Images
BY DEF NoImage, OwnImage, Images

LEMMA SmallerOfTwo ==
  ASSUME NEW a \in Nat, NEW b \in Nat
  PROVE  Min({a, b}) \in Nat /\ Min({a, b}) <= a
<1>1. \E x \in {a, b} : \A y \in {a, b} : x <= y
  <2>1. CASE a <= b
    BY <2>1
  <2>2. CASE b <= a
    BY <2>2
  <2> QED
    BY <2>1, <2>2
<1> QED
  BY <1>1 DEF Min

\* The newest of a history, a part of it, the other way round.
LEMMA NewestFrames ==
  ASSUME NEW S, NEW f \in Seq(S)
  PROVE  Newest(f) \in Seq(S)
<1> DEFINE n == Min({Len(f), MaxHistory})
<1>1. Len(f) \in Nat /\ n \in Nat /\ n <= Len(f)
  BY LenProperties, SmallerOfTwo, EditingAssumption
<1> HIDE DEF n
<1>2. Len(f) - n + 1 \in Int /\ \A i \in Len(f) - n + 1 .. Len(f) : f[i] \in S
  <2>1. Len(f) - n + 1 \in Int /\ Len(f) - n + 1 >= 1
    BY <1>1
  <2>2. \A i \in Len(f) - n + 1 .. Len(f) : i \in 1 .. Len(f)
    BY <1>1, <2>1
  <2> QED
    BY <2>1, <2>2, ElementOfSeq
<1>3. SubSeq(f, Len(f) - n + 1, Len(f)) \in Seq(S)
  BY <1>1, <1>2, SubSeqProperties
<1> QED
  BY <1>3 DEF Newest, n

LEMMA PartOfFrames ==
  ASSUME NEW S, NEW f \in Seq(S), NEW m \in Nat \ {0}, NEW n \in Int, n <= Len(f)
  PROVE  SubSeq(f, m, n) \in Seq(S)
<1>1. Len(f) \in Nat
  BY LenProperties
<1>2. \A i \in m .. n : i \in 1 .. Len(f)
  BY <1>1
<1>3. \A i \in m .. n : f[i] \in S
  BY <1>2, ElementOfSeq
<1> QED
  BY <1>3, SubSeqProperties

LEMMA ReversedFrames ==
  ASSUME NEW S, NEW f \in Seq(S)
  PROVE  Reverse(f) \in Seq(S)
<1>1. Len(f) \in Nat
  BY LenProperties
<1>2. \A i \in 1 .. Len(f) : (Len(f) - i) + 1 \in 1 .. Len(f)
  BY <1>1
<1>3. \A i \in 1 .. Len(f) : f[(Len(f) - i) + 1] \in S
  BY <1>2, ElementOfSeq
<1> QED
  BY <1>1, <1>3 DEF Reverse

LEMMA PastOfDrags == EditingInv => PastAfterDrag \in Seq(SoundDrafts) /\ FutureAfterDrag \in Seq(SoundDrafts)
<1> SUFFICES ASSUME EditingInv
             PROVE  PastAfterDrag \in Seq(SoundDrafts) /\ FutureAfterDrag \in Seq(SoundDrafts)
  OBVIOUS
<1>1. past \in Seq(SoundDrafts) /\ future \in Seq(SoundDrafts) /\ << >> \in Seq(SoundDrafts)
  BY EmptySeq DEF EditingInv
<1>2. CASE drag.on /\ drag.mutated
  <2>1. drag.frame \in SoundDrafts
    <3>1. ~NoDrag.on
      BY DEF NoDrag
    <3>2. drag \in Drags
      BY <1>2, <3>1 DEF EditingInv
    <3> QED
      BY <3>2 DEF Drags
  <2>2. Append(past, drag.frame) \in Seq(SoundDrafts)
    BY <1>1, <2>1, AppendProperties
  <2> QED
    BY <1>1, <1>2, <2>2, NewestFrames DEF PastAfterDrag, FutureAfterDrag
<1>3. CASE ~(drag.on /\ drag.mutated)
  BY <1>1, <1>3 DEF PastAfterDrag, FutureAfterDrag
<1> QED
  BY <1>2, <1>3

\* A draft that is about to be saved is in no danger.
LEMMA SavingKeepsDrafts ==
  ASSUME Saving, draft' \in SoundDrafts, stored' \in SoundDrafts,
         past' \in Seq(SoundDrafts), future' \in Seq(SoundDrafts), drag' = NoDrag \/ drag' \in Drags,
         acts' \in Nat, prepared' \in SUBSET Images, request' = NoRequest \/ request' \in Requests
  PROVE  EditingInv'
BY DEF Saving, EditingInv

LEMMA Commanded ==
  ASSUME EditingInv, NEW next \in SoundDrafts, Command(next)
  PROVE  /\ Saving /\ draft' = next /\ drag' = NoDrag
         /\ past' \in Seq(SoundDrafts) /\ future' \in Seq(SoundDrafts)
<1>1. Append(PastAfterDrag, draft) \in Seq(SoundDrafts)
  BY PastOfDrags, AppendProperties DEF EditingInv
<1> QED
  BY <1>1, NewestFrames, EmptySeq DEF Command

\* The outcome of a job is written into what shows the same, and only there.
LEMMA Committing ==
  ASSUME EditingInv, NEW next \in SoundDrafts, NEW kept \in BOOLEAN, NEW unsaved \in Jobstates,
         unsaved = next.job \/ unsaved.status # "ready", Commit(next, kept, unsaved)
  PROVE  /\ Saving /\ draft' \in SoundDrafts /\ stored' \in SoundDrafts /\ (drag' = NoDrag \/ drag' \in Drags)
         /\ past' \in Seq(SoundDrafts) /\ future' \in Seq(SoundDrafts)
<1> DEFINE job == IF kept THEN next.job ELSE unsaved
<1>1. /\ draft \in SoundDrafts /\ stored \in SoundDrafts /\ past \in Seq(SoundDrafts) /\ future \in Seq(SoundDrafts)
  BY DEF EditingInv
<1>2. job \in Jobstates /\ (job.status = "ready" => next.image = job.made)
  BY DEF SoundDrafts, DraftRecords
<1>3. stored' = IF kept THEN draft' ELSE stored
  BY DEF Commit
<1>4. CASE SameImages(next)
  <2>1. next.image = draft.image /\ (job.status = "ready" => draft.image = job.made)
    BY <1>2, <1>4 DEF SameImages
  <2>2. /\ draft' = [draft EXCEPT !.job = job]
        /\ past' = [i \in DOMAIN past |-> WithReceipts(past[i], job)]
        /\ future' = [i \in DOMAIN future |-> WithReceipts(future[i], job)]
        /\ drag' = IF drag.on THEN [drag EXCEPT !.frame = WithReceipts(@, job)] ELSE drag
        /\ Saving
    BY <1>4, Zenon DEF Commit
  <2> HIDE DEF job
  <2>3. ASSUME NEW d \in SoundDrafts
        PROVE  WithReceipts(d, job) \in SoundDrafts
    <3>1. CASE SameImages(d)
      <4>1. WithReceipts(d, job) = [d EXCEPT !.job = job] /\ d \in DraftRecords
        BY <3>1 DEF WithReceipts, SoundDrafts
      <4>2. /\ WithReceipts(d, job) \in DraftRecords /\ WithReceipts(d, job).job = job
            /\ WithReceipts(d, job).image = d.image
        BY <1>2, <4>1 DEF DraftRecords
      <4> QED
        BY <2>1, <3>1, <4>2 DEF SoundDrafts, SameImages
    <3>2. CASE ~SameImages(d)
      BY <3>2 DEF WithReceipts
    <3> QED
      BY <3>1, <3>2
  <2>4. draft' \in SoundDrafts
    <3>1. SameImages(draft)
      BY DEF SameImages
    <3> QED
      BY <1>1, <2>2, <2>3, <3>1 DEF WithReceipts
  <2>5. ASSUME NEW f \in Seq(SoundDrafts)
        PROVE  [i \in DOMAIN f |-> WithReceipts(f[i], job)] \in Seq(SoundDrafts)
    <3>1. Len(f) \in Nat /\ DOMAIN f = 1 .. Len(f)
      BY LenProperties
    <3>2. \A i \in 1 .. Len(f) : WithReceipts(f[i], job) \in SoundDrafts
      BY <2>3, ElementOfSeq
    <3> QED
      BY <3>1, <3>2
  <2>6. drag' = NoDrag \/ drag' \in Drags
    <3>1. CASE drag = NoDrag
      BY <2>2, <3>1 DEF NoDrag
    <3>2. CASE drag \in Drags
      <4>1. drag.frame \in SoundDrafts /\ drag.on
        BY <3>2 DEF Drags
      <4>2. WithReceipts(drag.frame, job) \in SoundDrafts
        BY <2>3, <4>1
      <4>3. drag' = [drag EXCEPT !.frame = WithReceipts(drag.frame, job)]
        BY <2>2, <4>1
      <4> QED
        BY <3>2, <4>2, <4>3 DEF Drags
    <3> QED
      BY <3>1, <3>2 DEF EditingInv
  <2> QED
    BY <1>1, <1>3, <2>2, <2>4, <2>5, <2>6
<1>5. CASE ~SameImages(next)
  <2> DEFINE d == [draft EXCEPT !.style = next.style, !.image = next.image, !.job = job]
  <2>1. Command(d)
    BY <1>5, Zenon DEF Commit
  <2> HIDE DEF job
  <2>2. draft \in DraftRecords /\ next \in DraftRecords
    BY DEF SoundDrafts, EditingInv
  <2>3. d \in DraftRecords /\ d.job = job /\ d.image = next.image
    BY <1>2, <2>2 DEF DraftRecords
  <2>4. d \in SoundDrafts
    BY <1>2, <2>3 DEF SoundDrafts
  <2> HIDE DEF d
  <2>5. /\ Saving /\ draft' = d /\ drag' = NoDrag
        /\ past' \in Seq(SoundDrafts) /\ future' \in Seq(SoundDrafts)
    BY <2>1, <2>4, Commanded
  <2> QED
    BY <1>1, <1>3, <2>4, <2>5
<1> QED
  BY <1>4, <1>5

LEMMA InitDrafts == EditingInit => EditingInv
<1> SUFFICES ASSUME EditingInit
             PROVE  EditingInv
  OBVIOUS
<1>1. PICK style \in Styles : draft = [rules |-> 0, style |-> style, image |-> NoImage, job |-> PendingJob(1)]
  BY DEF EditingInit
<1>2. PendingJob(1) \in Jobstates /\ PendingJob(1).status = "pending"
  BY ImagesThere DEF PendingJob, Jobstates
<1>3. draft \in SoundDrafts
  BY <1>1, <1>2, ImagesThere DEF SoundDrafts, DraftRecords
<1> QED
  BY <1>3, EmptySeq DEF EditingInit, EditingInv

\* A draft that differs in its rules only, or is the same with another outcome.
LEMMA OtherRules ==
  ASSUME NEW d \in SoundDrafts, NEW n \in Nat
  PROVE  [d EXCEPT !.rules = n] \in SoundDrafts
<1>1. d \in DraftRecords
  BY DEF SoundDrafts
<1>2. [d EXCEPT !.rules = n] \in DraftRecords /\ [d EXCEPT !.rules = n].job = d.job /\ [d EXCEPT !.rules = n].image = d.image
  BY <1>1 DEF DraftRecords
<1> QED
  BY <1>2 DEF SoundDrafts

LEMMA OtherJob ==
  ASSUME NEW d \in SoundDrafts, NEW job \in Jobstates, NEW image \in Images, NEW style \in Styles,
         job.status = "ready" => image = job.made
  PROVE  /\ [d EXCEPT !.job = job] \in DraftRecords /\ [d EXCEPT !.job = job].job = job
         /\ job.status # "ready" => [d EXCEPT !.job = job] \in SoundDrafts
         /\ [d EXCEPT !.image = image, !.job = job] \in SoundDrafts
         /\ [d EXCEPT !.style = style, !.job = job] \in DraftRecords
         /\ job.status # "ready" => [d EXCEPT !.style = style, !.job = job] \in SoundDrafts
<1>1. d \in DraftRecords
  BY DEF SoundDrafts
<1>2. [d EXCEPT !.job = job] \in DraftRecords /\ [d EXCEPT !.job = job].job = job
  BY <1>1 DEF DraftRecords
<1> DEFINE e == [d EXCEPT !.image = image, !.job = job]
           f == [d EXCEPT !.style = style, !.job = job]
<1>3. e \in DraftRecords /\ e.job = job /\ e.image = image
  BY <1>1 DEF DraftRecords
<1>4. f \in DraftRecords /\ f.job = job
  BY <1>1 DEF DraftRecords
<1> HIDE DEF e, f
<1>5. e \in SoundDrafts /\ (job.status # "ready" => f \in SoundDrafts)
  BY <1>3, <1>4 DEF SoundDrafts
<1> QED
  BY <1>2, <1>3, <1>4, <1>5 DEF SoundDrafts, e, f

\* The editor's own operations.
LEMMA EditsKeepDrafts ==
  ASSUME EditingInv,
         \/ Edit \/ BeginDrag \/ Preview \/ EndDrag \/ Redo \/ ReplaceDraft
         \/ \E n \in 0 .. MaxHistory : JumpToHistory(n)
  PROVE  EditingInv'
<1>1. /\ draft \in SoundDrafts /\ stored \in SoundDrafts /\ past \in Seq(SoundDrafts) /\ future \in Seq(SoundDrafts)
      /\ draft \in DraftRecords /\ acts \in Nat
  BY DEF EditingInv, SoundDrafts
<1>2. UNCHANGED <<stored, mounted, request, attempted, prepared>>
  BY DEF Edit, BeginDrag, Preview, EndDrag, Redo, ReplaceDraft, JumpToHistory, artVars
<1>3. UserActs => acts' = acts + 1 /\ acts' \in Nat
  BY <1>1 DEF UserActs
<1>4. CASE Edit
  <2>1. Command([draft EXCEPT !.rules = acts']) /\ acts' \in Nat
    BY <1>3, <1>4 DEF Edit
  <2>2. [draft EXCEPT !.rules = acts'] \in SoundDrafts
    BY <1>1, <2>1, OtherRules
  <2> QED
    BY <1>1, <1>2, <2>1, <2>2, Commanded, SavingKeepsDrafts DEF EditingInv
<1>5. CASE BeginDrag
  <2>1. /\ ~drag.on /\ drag' = [on |-> TRUE, frame |-> draft, mutated |-> FALSE] /\ acts' \in Nat
        /\ UNCHANGED <<draft, past, future, saveStatus, timer>>
    BY <1>3, <1>5 DEF BeginDrag
  <2>2. drag' \in Drags
    BY <1>1, <2>1 DEF Drags
  <2> QED
    BY <1>2, <2>1, <2>2 DEF EditingInv
<1>6. CASE Preview
  <2>1. /\ drag.on /\ draft' = [draft EXCEPT !.rules = acts'] /\ drag' = [drag EXCEPT !.mutated = TRUE]
        /\ saveStatus' = "saving" /\ acts' \in Nat /\ UNCHANGED <<past, future, timer>>
    BY <1>3, <1>6 DEF Preview
  <2>2. draft' \in SoundDrafts
    BY <1>1, <2>1, OtherRules
  <2>3. drag \in Drags
    <3>1. ~NoDrag.on
      BY DEF NoDrag
    <3> QED
      BY <2>1, <3>1 DEF EditingInv
  <2>4. drag' \in Drags /\ drag'.on /\ drag'.mutated
    BY <2>1, <2>3 DEF Drags
  <2> QED
    BY <1>2, <2>1, <2>2, <2>4 DEF EditingInv
<1>7. CASE EndDrag
  <2>1. /\ drag.on /\ past' = PastAfterDrag /\ future' = FutureAfterDrag /\ drag' = NoDrag
        /\ timer' = (timer \/ drag.mutated) /\ UNCHANGED <<draft, acts, saveStatus>>
    BY <1>7 DEF EndDrag
  <2>2. stored # draft /\ mounted => timer' \/ saveStatus = "error"
    BY <2>1 DEF EditingInv
  <2> QED
    BY <1>2, <2>1, <2>2, PastOfDrags DEF EditingInv
<1>8. CASE Redo
  <2>1. future # << >> /\ Saving /\ acts' \in Nat /\ drag' = drag
    BY <1>3, <1>8 DEF Redo
  <2>2. Len(future) \in 1 .. Len(future) /\ Len(future) \in Nat
    BY <1>1, <2>1, LenProperties, EmptySeq
  <2>3. draft' = future[Len(future)] /\ future' = SubSeq(future, 1, Len(future) - 1) /\ past' = Newest(Append(past, draft))
    BY <1>8 DEF Redo, Last, Front
  <2>4. draft' \in SoundDrafts
    BY <1>1, <2>2, <2>3, ElementOfSeq
  <2>5. future' \in Seq(SoundDrafts)
    BY <1>1, <2>2, <2>3, PartOfFrames
  <2>6. past' \in Seq(SoundDrafts)
    BY <1>1, <2>3, AppendProperties, NewestFrames
  <2> QED
    BY <1>1, <1>2, <2>1, <2>4, <2>5, <2>6, SavingKeepsDrafts DEF EditingInv
<1>9. CASE ReplaceDraft
  <2> DEFINE job == [status |-> "ready", revision |-> 0, made |-> OwnImage]
             d == [draft EXCEPT !.rules = acts', !.image = OwnImage, !.job = job]
  <2>1. draft' = d /\ past' = << >> /\ future' = << >> /\ Saving /\ drag' = drag /\ acts' \in Nat
    BY <1>3, <1>9 DEF ReplaceDraft
  <2>2. job \in Jobstates /\ job.made = OwnImage
    BY ImagesThere DEF Jobstates
  <2>3. d \in DraftRecords /\ d.image = OwnImage /\ d.job.made = OwnImage
    BY <1>1, <2>1, <2>2, ImagesThere DEF DraftRecords
  <2>4. d \in SoundDrafts
    BY <2>3 DEF SoundDrafts
  <2> HIDE DEF d
  <2> QED
    BY <1>1, <1>2, <2>1, <2>4, EmptySeq, SavingKeepsDrafts DEF EditingInv
<1>10. ASSUME NEW n \in 0 .. MaxHistory, JumpToHistory(n)
       PROVE  EditingInv'
  <2>1. n \in 0 .. Len(past) - 1 /\ Saving /\ drag' = drag /\ acts' \in Nat
    BY <1>3, <1>10 DEF JumpToHistory
  <2>2. Len(past) \in Nat /\ n + 1 \in 1 .. Len(past) /\ n \in Nat /\ n + 2 \in Nat \ {0} /\ n <= Len(past)
    BY <1>1, <2>1, LenProperties
  <2>3. /\ draft' = past[n + 1] /\ past' = SubSeq(past, 1, n)
        /\ future' = Newest(future \o <<draft>> \o Reverse(SubSeq(past, n + 2, Len(past))))
    BY <1>10 DEF JumpToHistory
  <2>4. draft' \in SoundDrafts /\ past' \in Seq(SoundDrafts)
    BY <1>1, <2>2, <2>3, ElementOfSeq, PartOfFrames
  <2>5. future' \in Seq(SoundDrafts)
    <3>1. SubSeq(past, n + 2, Len(past)) \in Seq(SoundDrafts)
      BY <1>1, <2>2, PartOfFrames
    <3>2. future \o <<draft>> \in Seq(SoundDrafts)
      BY <1>1
    <3> QED
      BY <2>3, <3>1, <3>2, ReversedFrames, ConcatProperties, NewestFrames
  <2> QED
    BY <1>1, <1>2, <2>1, <2>4, <2>5, SavingKeepsDrafts DEF EditingInv
<1> QED
  BY <1>4, <1>5, <1>6, <1>7, <1>8, <1>9, <1>10

\* Saving, leaving and coming back.
LEMMA SavesKeepDrafts ==
  ASSUME EditingInv, AutoSave \/ Leave \/ Return
  PROVE  EditingInv'
<1>1. CASE AutoSave
  BY <1>1 DEF AutoSave, EditingInv, artVars
<1>2. CASE Leave
  BY <1>2 DEF Leave, EditingInv, UserActs
<1>3. CASE Return
  BY <1>3, EmptySeq DEF Return, EditingInv, artVars
<1> QED
  BY <1>1, <1>2, <1>3

\* The image.
LEMMA KeyOfDraft ==
  ASSUME NEW d \in SoundDrafts
  PROVE  Key(d) \in Styles \X Nat /\ Key(d) \in Images
BY DEF Key, Images, SoundDrafts, DraftRecords, Jobstates

LEMMA RunsJob ==
  ASSUME EditingInv, NEW next \in DraftRecords, RunJob(next), acts' \in Nat, prepared' \in SUBSET Images
  PROVE  EditingInv'
<1> DEFINE job == [next.job EXCEPT !.status = "running"]
           d == [next EXCEPT !.job.status = "running"]
<1>1. next.job \in Jobstates
  BY DEF DraftRecords
<1>2. job \in Jobstates /\ job.status = "running"
  BY <1>1 DEF Jobstates
<1>3. d = [next EXCEPT !.job = job]
  BY DEF DraftRecords
<1> HIDE DEF job
<1>4. d \in DraftRecords /\ d.job = job
  BY <1>2, <1>3 DEF DraftRecords
<1>5. d \in SoundDrafts /\ d.job \in Jobstates
  BY <1>2, <1>4 DEF SoundDrafts
<1>6. request' = [phase |-> "sent", key |-> Key(next)] /\ Key(next) \in Styles \X Nat
  BY <1>1 DEF RunJob, Key, DraftRecords, Jobstates
<1>7. request' \in Requests
  BY <1>6 DEF Requests
<1>8. PICK kept \in BOOLEAN : Commit(d, kept, d.job)
  BY DEF RunJob, Committed
<1> HIDE DEF d
<1> QED
  BY <1>5, <1>7, <1>8, Committing, SavingKeepsDrafts

LEMMA Selecting ==
  ASSUME EditingInv, NEW image \in Images, Select(image), acts' \in Nat, request' = NoRequest \/ request' \in Requests
  PROVE  EditingInv'
<1> DEFINE job == [draft.job EXCEPT !.status = "ready", !.made = image]
           unsaved == [job EXCEPT !.status = "unsaved"]
           ready == [draft EXCEPT !.image = image, !.job.status = "ready", !.job.made = image]
<1>1. draft \in SoundDrafts /\ draft \in DraftRecords /\ draft.job \in Jobstates /\ draft.style \in Styles
  BY DEF EditingInv, SoundDrafts, DraftRecords
<1>2. job \in Jobstates /\ job.made = image /\ unsaved \in Jobstates /\ unsaved.status = "unsaved"
  BY <1>1 DEF Jobstates
<1>3. ready = [draft EXCEPT !.image = image, !.job = job]
  BY <1>1 DEF DraftRecords
<1>4. ready \in SoundDrafts /\ ready.job = job
  <2> HIDE DEF job
  <2>1. [draft EXCEPT !.image = image, !.job = job] \in SoundDrafts
    BY <1>1, <1>2, OtherJob
  <2>2. [draft EXCEPT !.image = image, !.job = job].job = job
    BY <1>1 DEF DraftRecords
  <2> HIDE DEF ready
  <2> QED
    BY <1>3, <2>1, <2>2
<1>5. prepared' = {image} /\ \E kept \in BOOLEAN : Commit(ready, kept, [ready.job EXCEPT !.status = "unsaved"])
  BY DEF Select
<1> HIDE DEF ready
<1>6. PICK kept \in BOOLEAN : Commit(ready, kept, unsaved)
  BY <1>4, <1>5
<1> HIDE DEF unsaved, job
<1> QED
  BY <1>2, <1>4, <1>5, <1>6, Committing, SavingKeepsDrafts

LEMMA ImagesKeepDrafts ==
  ASSUME EditingInv,
         \/ Resume \/ ImageAnswer \/ NoAnswer \/ Arrive \/ SaveAgain
         \/ \E another \in BOOLEAN : Retry(another)
         \/ \E image \in {OwnImage, NoImage} : ReplaceImage(image)
         \/ \E style \in Styles : SaveDirection(style)
  PROVE  EditingInv'
<1>1. /\ draft \in SoundDrafts /\ draft \in DraftRecords /\ draft.job \in Jobstates /\ acts \in Nat
      /\ prepared \in SUBSET Images /\ (request = NoRequest \/ request \in Requests)
  BY DEF EditingInv, SoundDrafts, DraftRecords
<1>2. UserActs => acts' \in Nat
  BY <1>1 DEF UserActs
<1>3. NoRequest.phase = "none" /\ \A r \in Requests : r.key \in Styles \X Nat /\ r.key \in Images
  BY DEF NoRequest, Requests, Images
<1>4. CASE Resume
  BY <1>1, <1>4, RunsJob DEF Resume
<1>5. CASE ImageAnswer
  <2>1. request \in Requests /\ request' = [request EXCEPT !.phase = "decoding"]
    BY <1>1, <1>3, <1>5 DEF ImageAnswer
  <2>2. request' \in Requests
    BY <2>1 DEF Requests
  <2> QED
    BY <1>5, <2>2 DEF ImageAnswer, EditingInv, storeVars
<1>6. CASE NoAnswer
  <2>1. request' = NoRequest /\ acts' = acts /\ prepared' = prepared /\ mounted' = mounted
    BY <1>6 DEF NoAnswer
  <2>2. CASE StillCurrent
    <3> DEFINE job == [draft.job EXCEPT !.status = "failed"]
               d == WithJob("failed")
    <3>1. d = [draft EXCEPT !.job = job] /\ job \in Jobstates /\ job.status = "failed"
      BY <1>1 DEF WithJob, DraftRecords, Jobstates
    <3>2. PICK kept \in BOOLEAN : Commit(d, kept, d.job)
      BY <1>6, <2>2 DEF NoAnswer, Committed
    <3> HIDE DEF job, d
    <3>3. d \in SoundDrafts /\ d.job \in Jobstates
      BY <1>1, <3>1, ImagesThere, OtherJob DEF SoundDrafts, DraftRecords
    <3> QED
      BY <1>1, <2>1, <3>2, <3>3, Committing, SavingKeepsDrafts
  <2>3. CASE ~StillCurrent
    BY <1>6, <2>1, <2>3 DEF NoAnswer, EditingInv, storeVars
  <2> QED
    BY <2>2, <2>3
<1>7. CASE Arrive
  <2>1. request' = NoRequest /\ acts' = acts /\ mounted' = mounted /\ request \in Requests
    BY <1>1, <1>3, <1>7 DEF Arrive
  <2>2. CASE StillCurrent
    BY <1>1, <1>3, <1>7, <2>1, <2>2, Selecting DEF Arrive
  <2>3. CASE ~StillCurrent
    BY <1>7, <2>1, <2>3 DEF Arrive, EditingInv, storeVars
  <2> QED
    BY <2>2, <2>3
<1>8. CASE SaveAgain
  <2>1. PICK image \in prepared : Select(image)
    BY <1>8 DEF SaveAgain
  <2>2. acts' \in Nat /\ request' = request /\ image \in Images
    BY <1>1, <1>2, <1>8, <2>1 DEF SaveAgain
  <2> QED
    BY <1>1, <2>1, <2>2, Selecting
<1>9. ASSUME NEW another \in BOOLEAN, Retry(another)
      PROVE  EditingInv'
  <2> DEFINE revision == draft.job.revision + (IF another THEN 1 ELSE 0)
             job == [draft.job EXCEPT !.revision = revision]
             d == [draft EXCEPT !.job.revision = revision]
  <2>1. RunJob(d) /\ acts' \in Nat /\ prepared' = IF another THEN {} ELSE prepared
    BY <1>2, <1>9 DEF Retry
  <2>2. revision \in Nat
    BY <1>1 DEF Jobstates
  <2> HIDE DEF revision
  <2>3. job \in Jobstates
    BY <1>1, <2>2 DEF Jobstates
  <2>4. d = [draft EXCEPT !.job = job]
    BY <1>1 DEF DraftRecords
  <2> HIDE DEF job
  <2>5. d \in DraftRecords
    BY <1>1, <2>3, <2>4 DEF DraftRecords
  <2> HIDE DEF d
  <2> QED
    BY <1>1, <2>1, <2>5, RunsJob
<1>10. ASSUME NEW image \in {OwnImage, NoImage}, ReplaceImage(image)
       PROVE  EditingInv'
  <2> DEFINE job == [status |-> IF image = OwnImage THEN "ready" ELSE "failed", revision |-> draft.job.revision + 1, made |-> image]
             d == [draft EXCEPT !.image = image, !.job = job]
  <2>1. job \in Jobstates /\ job.made = image /\ image \in Images
    BY <1>1, ImagesThere DEF Jobstates
  <2>2. prepared' = {} /\ acts' \in Nat /\ request' = request
    BY <1>2, <1>10 DEF ReplaceImage
  <2>3. PICK kept \in BOOLEAN : Commit(d, kept, d.job)
    BY <1>10 DEF ReplaceImage, Committed
  <2> HIDE DEF job
  <2>4. d.job = job
    BY <1>1 DEF DraftRecords
  <2>5. d \in SoundDrafts
    BY <1>1, <2>1, OtherJob DEF DraftRecords
  <2> HIDE DEF d
  <2> QED
    BY <1>1, <2>1, <2>2, <2>3, <2>4, <2>5, Committing, SavingKeepsDrafts
<1>11. ASSUME NEW style \in Styles, SaveDirection(style)
       PROVE  EditingInv'
  <2> DEFINE job == [PendingJob(draft.job.revision + 1) EXCEPT !.made = draft.job.made]
             d == [draft EXCEPT !.style = style, !.job = job]
  <2>1. job \in Jobstates /\ job.status = "pending"
    BY <1>1 DEF Jobstates, PendingJob
  <2>2. prepared' = {} /\ acts' \in Nat /\ request' = request
    BY <1>2, <1>11 DEF SaveDirection
  <2>3. PICK kept \in BOOLEAN : Commit(d, kept, d.job)
    BY <1>11 DEF SaveDirection, Committed
  <2> HIDE DEF job
  <2>4. d.job = job
    BY <1>1 DEF DraftRecords
  <2>5. d \in SoundDrafts
    BY <1>1, <2>1, ImagesThere, OtherJob
  <2> HIDE DEF d
  <2> QED
    BY <1>1, <2>1, <2>2, <2>3, <2>4, <2>5, Committing, SavingKeepsDrafts
<1> QED
  BY <1>4, <1>5, <1>6, <1>7, <1>8, <1>9, <1>10, <1>11

LEMMA StepKeepsDrafts == EditingInv /\ [EditingNext]_editingVars => EditingInv'
<1> SUFFICES ASSUME EditingInv, [EditingNext]_editingVars
             PROVE  EditingInv'
  OBVIOUS
<1>1. CASE UNCHANGED editingVars
  BY <1>1 DEF editingVars, EditingInv
<1> QED
  BY <1>1, EditsKeepDrafts, SavesKeepDrafts, ImagesKeepDrafts DEF EditingNext

LEMMA DraftsFollow == EditingInv => DraftsAreSound
<1> SUFFICES ASSUME EditingInv
             PROVE  DraftsAreSound
  OBVIOUS
<1>1. \A f \in Seq(SoundDrafts) : ToSet(f) \subseteq SoundDrafts
  BY DEF ToSet
<1>2. drag.on => drag.frame \in SoundDrafts
  <2>1. ~NoDrag.on
    BY DEF NoDrag
  <2>2. drag \in Drags => drag.frame \in SoundDrafts
    BY DEF Drags
  <2> QED
    BY <2>1, <2>2 DEF EditingInv
<1>3. Drafts \subseteq SoundDrafts
  BY <1>1, <1>2 DEF Drafts, EditingInv
<1>4. \A d \in Drafts : d.job.status = "ready" => d.image = d.job.made
  BY <1>3 DEF SoundDrafts
<1> QED
  BY <1>4 DEF DraftsAreSound, EditingInv

\* However edits, drags, undo, saves and the images of other drafts interleave, for any
\* length of the history: a draft that says it is saved is stored, one that is not will
\* be or says so, and no image is taken for the one a job made when it is another.
THEOREM DraftsAlwaysSound == EditingSpec => []DraftsAreSound
<1> QED
  BY InitDrafts, StepKeepsDrafts, DraftsFollow, PTL DEF EditingSpec

-----------------------------------------------------------------------------
(* Playtests. *)

Steps == {Step(kind) : kind \in {"setup", "join", "seat", "action"}} \cup {Fire(t) : t \in 1 .. MaxTimers}
Entries == [id : Nat, step : Steps, ok : BOOLEAN]
PlayTables == [done : Seq(Entries), timers : SUBSET (1 .. MaxTimers)]
Dues == UNION {[D -> Nat] : D \in SUBSET (1 .. MaxTimers)}
RuntimeRecords ==
  [phase : {"none", "sandbox", "boot", "failing", "created", "used", "over"}, open : BOOLEAN, table : PlayTables,
   ticks : Nat, due : Dues, registered : Nat]
Operations == [of : Generations, id : Nat, todo : Seq(Steps), base : PlayTables]
Asked == [id : Nat, is : {"action", "tick"}]

\* A timer of the table is waited for, was rejected, or is just being fired.
TimersSound(r, ops) ==
  /\ DOMAIN r.due \subseteq r.table.timers
  /\ r.table.timers \subseteq 1 .. r.registered
  /\ \A t \in r.table.timers \ DOMAIN r.due :
       \/ \E i \in 1 .. Len(r.table.done) : r.table.done[i].step = Fire(t) /\ ~r.table.done[i].ok
       \/ \E op \in ops : op.todo # << >> /\ op.todo[1] = Fire(t)

\* What was done is in the order it was asked for; before a playtest begins, it is setup.
OrderSound(r, ops) ==
  /\ \A i, j \in 1 .. Len(r.table.done) : i < j => r.table.done[i].id <= r.table.done[j].id
  /\ \A i \in 1 .. Len(r.table.done) : \A op \in ops : r.table.done[i].id <= op.id
  /\ r.phase # "used" => \A i \in 1 .. Len(r.table.done) : r.table.done[i].id = 0

\* An operation, which is that of a runtime being booted or played with.
OperationSound(r, op) ==
  /\ op \in Operations /\ op.base = r.table /\ r.phase \in {"boot", "used"}
  /\ op.id = 0 <=> r.phase = "boot"
  /\ r.phase = "boot" => op.todo # << >>
  /\ r.phase = "used" => \A k \in 1 .. Len(op.todo) : op.todo[k].is # "setup"

\* The runtime r of the generation g with its operations under way, of which there is at
\* most one; the one played with is rt, and gen is the last.
RuntimeSound(g, r, ops, rt, gen) ==
  /\ r \in RuntimeRecords
  /\ \A a, b \in ops : a = b
  /\ \A op \in ops : OperationSound(r, op)
  /\ r.phase = "none" => r = NoRuntime
  /\ g > gen => r.phase = "none"
  /\ r.phase = "sandbox" => r.table = Release /\ r.due = << >> /\ r.registered \in Nat
  /\ r.open <=> r.phase \in {"boot", "failing", "created"} \/ (r.phase = "used" /\ g = rt)
  /\ r.open => TimersSound(r, ops) /\ OrderSound(r, ops)

OpsOf(rs, g) == {op \in rs : op.of = g}

RuntimesSound ==
  /\ runtimes \in [Generations -> RuntimeRecords]
  /\ \A op \in running : op.of \in Generations
  /\ \A g \in Generations : RuntimeSound(g, runtimes[g], OpsOf(running, g), runtime, generation)

\* What is shown is the table, or the table before the operation that is under way.
ShownSound(r, ops) ==
  /\ ops = {} => shown = r.table
  /\ \A op \in ops :
       /\ IsPrefix(shown.done, r.table.done)
       /\ \A i \in 1 .. Len(r.table.done) : r.table.done[i].id = op.id <=> i > Len(shown.done)

\* What is asked for comes after what was done.
TaskSound(r, ops) ==
  /\ \A k \in 1 .. Len(task) :
       /\ task[k].id > 0 /\ task[k].id <= asked
       /\ \A i \in 1 .. Len(r.table.done) : r.table.done[i].id < task[k].id
       /\ \A op \in ops : op.id < task[k].id
  /\ \A k, l \in 1 .. Len(task) : k < l => task[k].id < task[l].id
  /\ \A i \in 1 .. Len(r.table.done) : r.table.done[i].id <= asked
  /\ \A op \in ops : op.id <= asked

ControlSound ==
  /\ generation \in 0 .. MaxGeneration /\ runtime \in {0, generation}
  /\ status \in {"stopped", "starting", "playing"}
  /\ status = "playing" <=> runtime # 0
  /\ runtime # 0 => runtimes[runtime].phase = "used"
  /\ status = "starting" <=>
       generation # 0 /\ runtimes[generation].phase \in {"sandbox", "boot", "failing", "created"}
  /\ status = "starting" => shown = Release
  /\ shown \in PlayTables /\ task \in Seq(Asked) /\ asked \in Nat
  /\ runtime = 0 => task = << >>

LogsSound ==
  status # "stopped" => \A entry \in logs :
    /\ entry.of = generation
    /\ entry.is = "applied" =>
         \E i \in 1 .. Len(runtimes[generation].table.done) : runtimes[generation].table.done[i].id = entry.id

PlayInv ==
  /\ RuntimesSound /\ ControlSound /\ LogsSound
  /\ runtime # 0 =>
       /\ ShownSound(runtimes[runtime], OpsOf(running, runtime))
       /\ TaskSound(runtimes[runtime], OpsOf(running, runtime))

LEMMA NoTable == Release \in PlayTables /\ Release.done = << >> /\ Len(Release.done) = 0 /\ Release.timers = {}
<1>1. << >> \in Seq(Entries) /\ Len(<< >>) = 0
  BY EmptySeq
<1> QED
  BY <1>1 DEF Release, PlayTables

LEMMA NoDue == << >> \in Dues /\ DOMAIN << >> = {}
<1>1. << >> \in [{} -> Nat] /\ DOMAIN << >> = {}
  OBVIOUS
<1> QED
  BY <1>1 DEF Dues

LEMMA NoRuntimes ==
  /\ NoRuntime \in RuntimeRecords /\ NoRuntime.phase = "none" /\ ~NoRuntime.open /\ NoRuntime.table = Release
  /\ NoRuntime.due = << >>
  /\ Forgotten \in RuntimeRecords /\ Forgotten.phase = "over" /\ ~Forgotten.open
BY NoTable, NoDue DEF NoRuntime, Forgotten, RuntimeRecords

LEMMA NoneOpen ==
  ASSUME NEW g \in Generations, NEW rt, NEW gen \in Int
  PROVE  /\ RuntimeSound(g, NoRuntime, {}, rt, gen)
         /\ g <= gen => RuntimeSound(g, Forgotten, {}, rt, gen)
<1>1. g \in Int
  BY DEF Generations
<1>2. RuntimeSound(g, NoRuntime, {}, rt, gen)
  BY NoRuntimes DEF RuntimeSound
<1>3. ASSUME g <= gen
      PROVE  RuntimeSound(g, Forgotten, {}, rt, gen)
  <2>1. ~(g > gen)
    BY <1>1, <1>3
  <2> QED
    BY <2>1, NoRuntimes DEF RuntimeSound
<1> QED
  BY <1>2, <1>3

\* A step of one runtime leaves the others as they are.
LEMMA OneRuntime ==
  ASSUME RuntimesSound, NEW g \in Generations, NEW new,
         runtimes' = [runtimes EXCEPT ![g] = new],
         \A op \in running' : op.of \in Generations,
         \A h \in Generations \ {g} : OpsOf(running', h) = OpsOf(running, h),
         \A h \in Generations \ {g} : h = runtime <=> h = runtime',
         generation' \in Int, generation \in Int, generation <= generation',
         RuntimeSound(g, new, OpsOf(running', g), runtime', generation')
  PROVE  RuntimesSound' /\ runtimes'[g] = new /\ \A h \in Generations \ {g} : runtimes'[h] = runtimes[h]
<1>1. /\ runtimes \in [Generations -> RuntimeRecords] /\ new \in RuntimeRecords
      /\ \A h \in Generations : h \in Int
  BY DEF RuntimesSound, RuntimeSound, Generations
<1>2. /\ runtimes' \in [Generations -> RuntimeRecords] /\ runtimes'[g] = new
      /\ \A h \in Generations \ {g} : runtimes'[h] = runtimes[h]
  BY <1>1
<1>3. ASSUME NEW h \in Generations \ {g}
      PROVE  RuntimeSound(h, runtimes'[h], OpsOf(running', h), runtime', generation')
  <2>1. RuntimeSound(h, runtimes[h], OpsOf(running, h), runtime, generation)
    BY DEF RuntimesSound
  <2>2. h > generation' => h > generation
    BY <1>1, <1>3
  <2> QED
    BY <1>2, <1>3, <2>1, <2>2 DEF RuntimeSound
<1>4. \A h \in Generations : RuntimeSound(h, runtimes'[h], OpsOf(running', h), runtime', generation')
  BY <1>2, <1>3
<1> QED
  BY <1>2, <1>4 DEF RuntimesSound

\* Only what is booted or played with has an operation.
LEMMA Idle ==
  ASSUME PlayInv, NEW g \in Generations, runtimes[g].phase \notin {"boot", "used"}
  PROVE  OpsOf(running, g) = {} /\ g # runtime
<1>1. RuntimeSound(g, runtimes[g], OpsOf(running, g), runtime, generation)
  BY DEF PlayInv, RuntimesSound
<1>2. \A op \in OpsOf(running, g) : FALSE
  BY <1>1 DEF RuntimeSound, OperationSound
<1>3. g # 0
  BY DEF Generations
<1> QED
  BY <1>2, <1>3 DEF PlayInv, ControlSound

LEMMA OfOperation ==
  ASSUME PlayInv, NEW op \in running
  PROVE  /\ op.of \in Generations /\ OpsOf(running, op.of) = {op}
         /\ OperationSound(runtimes[op.of], op)
         /\ RuntimeSound(op.of, runtimes[op.of], {op}, runtime, generation)
         /\ runtimes[op.of] \in RuntimeRecords
<1>1. op.of \in Generations /\ op \in OpsOf(running, op.of)
  BY DEF PlayInv, RuntimesSound, OpsOf
<1>2. RuntimeSound(op.of, runtimes[op.of], OpsOf(running, op.of), runtime, generation)
  BY <1>1 DEF PlayInv, RuntimesSound
<1>3. OpsOf(running, op.of) = {op}
  BY <1>1, <1>2 DEF RuntimeSound
<1> QED
  BY <1>1, <1>2, <1>3 DEF RuntimeSound

LEMMA Played ==
  ASSUME PlayInv, PlaytestAssumption, runtime # 0
  PROVE  /\ runtime = generation /\ runtime \in Generations /\ status = "playing"
         /\ runtimes[runtime].phase = "used" /\ runtimes[runtime].open
         /\ runtimes[runtime] \in RuntimeRecords
         /\ RuntimeSound(runtime, runtimes[runtime], OpsOf(running, runtime), runtime, generation)
         /\ TimersSound(runtimes[runtime], OpsOf(running, runtime))
         /\ OrderSound(runtimes[runtime], OpsOf(running, runtime))
         /\ ShownSound(runtimes[runtime], OpsOf(running, runtime))
         /\ TaskSound(runtimes[runtime], OpsOf(running, runtime))
<1>1. runtime = generation /\ runtime \in Generations /\ status = "playing" /\ runtimes[runtime].phase = "used"
  BY DEF PlayInv, ControlSound, Generations, PlaytestAssumption
<1>2. RuntimeSound(runtime, runtimes[runtime], OpsOf(running, runtime), runtime, generation)
  BY <1>1 DEF PlayInv, RuntimesSound
<1>3. /\ runtimes[runtime].open /\ runtimes[runtime] \in RuntimeRecords
      /\ TimersSound(runtimes[runtime], OpsOf(running, runtime))
      /\ OrderSound(runtimes[runtime], OpsOf(running, runtime))
  BY <1>1, <1>2 DEF RuntimeSound
<1> QED
  BY <1>1, <1>2, <1>3 DEF PlayInv

\* A runtime that was started is not one of a later generation.
LEMMA WasStarted ==
  ASSUME PlayInv, NEW g \in Generations, runtimes[g].phase # "none"
  PROVE  g <= generation /\ generation \in Int /\ runtimes[g] \in RuntimeRecords
<1>1. g \in Int /\ generation \in Int
  BY DEF Generations, PlayInv, ControlSound
<1>2. RuntimeSound(g, runtimes[g], OpsOf(running, g), runtime, generation)
  BY DEF PlayInv, RuntimesSound
<1> QED
  BY <1>1, <1>2 DEF RuntimeSound

\* A step of a runtime that is not the one played with leaves what that one does.
LEMMA PlayedIsLeft ==
  ASSUME PlayInv, PlaytestAssumption, UNCHANGED <<runtime, shown, task, asked>>, NEW g \in Generations, g # runtime,
         \A h \in Generations \ {g} : OpsOf(running', h) = OpsOf(running, h),
         \A h \in Generations \ {g} : runtimes'[h] = runtimes[h]
  PROVE  runtime' # 0 =>
           /\ runtimes'[runtime'].phase = "used"
           /\ ShownSound(runtimes[runtime], OpsOf(running, runtime))'
           /\ TaskSound(runtimes[runtime], OpsOf(running, runtime))'
<1> SUFFICES ASSUME runtime # 0
             PROVE  /\ runtimes'[runtime'].phase = "used"
                    /\ ShownSound(runtimes[runtime], OpsOf(running, runtime))'
                    /\ TaskSound(runtimes[runtime], OpsOf(running, runtime))'
  OBVIOUS
<1>1. runtime \in Generations \ {g}
  BY Played
<1>2. runtimes'[runtime'] = runtimes[runtime] /\ OpsOf(running', runtime') = OpsOf(running, runtime)
  BY <1>1
<1> QED
  BY <1>2, Played DEF ShownSound, TaskSound

LEMMA InitPlaytests == PlaytestAssumption /\ PlaytestInit => PlayInv
<1> SUFFICES ASSUME PlaytestAssumption, PlaytestInit PROVE PlayInv
  OBVIOUS
<1>1. \A g \in Generations : runtimes[g] = NoRuntime
  BY DEF PlaytestInit
<1>2. \A g \in Generations : OpsOf(running, g) = {}
  BY DEF PlaytestInit, OpsOf
<1>3. generation = 0 /\ runtime = 0 /\ status = "stopped" /\ running = {}
  BY DEF PlaytestInit
<1>4. RuntimesSound
  <2>1. \A g \in Generations : RuntimeSound(g, NoRuntime, {}, runtime, generation)
    BY <1>3, NoneOpen
  <2>2. runtimes \in [Generations -> RuntimeRecords]
    BY NoRuntimes DEF PlaytestInit
  <2> QED
    BY <1>1, <1>2, <1>3, <2>1, <2>2 DEF RuntimesSound
<1>5. ControlSound
  <2>1. << >> \in Seq(Asked)
    BY EmptySeq
  <2>2. shown \in PlayTables /\ task \in Seq(Asked) /\ task = << >> /\ asked \in Nat
    BY <2>1, NoTable DEF PlaytestInit
  <2> QED
    BY <1>3, <2>2 DEF ControlSound, PlaytestAssumption
<1>6. LogsSound
  BY <1>3 DEF LogsSound
<1> QED
  BY <1>3, <1>4, <1>5, <1>6 DEF PlayInv

\* A new generation, with all runtimes as they are.
LEMMA NewGeneration ==
  ASSUME PlayInv, generation' = generation + 1, UNCHANGED <<runtimes, running, runtime>>
  PROVE  RuntimesSound' /\ generation \in Int /\ generation' \in Int
<1>1. generation \in Int /\ \A g \in Generations : g \in Int
  BY DEF PlayInv, ControlSound, Generations
<1>2. \A g \in Generations : RuntimeSound(g, runtimes[g], OpsOf(running, g), runtime, generation)
  BY DEF PlayInv, RuntimesSound
<1>3. \A g \in Generations : RuntimeSound(g, runtimes[g], OpsOf(running, g), runtime, generation + 1)
  <2> SUFFICES ASSUME NEW g \in Generations
               PROVE  RuntimeSound(g, runtimes[g], OpsOf(running, g), runtime, generation + 1)
    OBVIOUS
  <2>1. g > generation + 1 => g > generation
    BY <1>1
  <2> QED
    BY <1>2, <2>1 DEF RuntimeSound
<1> QED
  BY <1>1, <1>3 DEF PlayInv, RuntimesSound

\* The next generation has no runtime yet.
LEMMA NextGeneration ==
  ASSUME PlayInv, PlaytestAssumption, generation < MaxGeneration
  PROVE  /\ generation + 1 \in Generations /\ generation + 1 \in 0 .. MaxGeneration /\ generation \in Int
         /\ runtimes[generation + 1] = NoRuntime /\ OpsOf(running, generation + 1) = {}
         /\ generation + 1 # runtime
<1>1. generation + 1 \in Generations /\ generation + 1 \in 0 .. MaxGeneration /\ generation \in Int
      /\ generation + 1 > generation
  BY DEF PlayInv, ControlSound, Generations, PlaytestAssumption
<1>2. RuntimeSound(generation + 1, runtimes[generation + 1], OpsOf(running, generation + 1), runtime, generation)
  BY <1>1 DEF PlayInv, RuntimesSound
<1>3. runtimes[generation + 1].phase = "none" /\ runtimes[generation + 1] = NoRuntime
  BY <1>1, <1>2 DEF RuntimeSound
<1> QED
  BY <1>1, <1>3, Idle

LEMMA StartKeeps == PlayInv /\ PlaytestAssumption /\ Start => PlayInv'
<1> SUFFICES ASSUME PlayInv, PlaytestAssumption, Start PROVE PlayInv'
  OBVIOUS
<1>1. /\ status = "stopped" /\ generation < MaxGeneration /\ generation' = generation + 1
      /\ UNCHANGED <<runtime, task, asked, running>>
  BY DEF Start
<1>2. runtime = 0 /\ runtime' = 0
  BY <1>1 DEF PlayInv, ControlSound
<1>3. CASE UNCHANGED <<status, shown, runtimes>>
  <2>1. RuntimesSound'
    BY <1>1, <1>3, NewGeneration
  <2>2. runtimes'[generation'].phase = "none"
    BY <1>1, <1>3, NextGeneration, NoRuntimes
  <2>3. ControlSound'
    BY <1>1, <1>2, <1>3, <2>2, NextGeneration DEF PlayInv, ControlSound
  <2>4. LogsSound'
    BY <1>1, <1>3 DEF LogsSound
  <2> QED
    BY <1>2, <2>1, <2>3, <2>4 DEF PlayInv
<1>4. CASE /\ status' = "starting" /\ shown' = Release /\ logs' = {}
           /\ runtimes' = [runtimes EXCEPT ![generation'].phase = "sandbox"]
  <2> DEFINE g == generation + 1
             new == [NoRuntime EXCEPT !.phase = "sandbox"]
  <2>1. /\ g \in Generations /\ g \in 0 .. MaxGeneration /\ g \in Int /\ generation \in Int /\ generation <= g
        /\ runtimes[g] = NoRuntime /\ OpsOf(running, g) = {} /\ g # runtime
    BY <1>1, NextGeneration
  <2>2. runtimes' = [runtimes EXCEPT ![g] = new]
    BY <1>1, <1>4, <2>1
  <2>3. /\ new \in RuntimeRecords /\ new.phase = "sandbox" /\ ~new.open /\ new.table = Release /\ new.due = << >>
        /\ new.registered \in Nat
    BY NoRuntimes DEF RuntimeRecords, NoRuntime
  <2>4. ~(g > g)
    BY <2>1
  <2> HIDE DEF new
  <2>5. RuntimeSound(g, new, {}, runtime, g)
    BY <2>1, <2>3, <2>4 DEF RuntimeSound
  <2> HIDE DEF g
  <2>6. generation' = g
    BY <1>1 DEF g
  <2>7. RuntimesSound' /\ runtimes'[g] = new
    <3>1. RuntimesSound /\ \A op \in running : op.of \in Generations
      BY DEF PlayInv, RuntimesSound
    <3> QED
      BY <1>1, <2>1, <2>2, <2>5, <2>6, <3>1, OneRuntime, ZenonT(60)
  <2>8. g # 0
    BY <2>1 DEF Generations
  <2>9. ControlSound'
    BY <1>1, <1>2, <1>4, <2>1, <2>3, <2>6, <2>7, <2>8, NoTable DEF PlayInv, ControlSound
  <2>10. LogsSound'
    BY <1>4 DEF LogsSound
  <2> QED
    BY <1>2, <2>7, <2>9, <2>10 DEF PlayInv
<1> QED
  BY <1>3, <1>4 DEF Start

LEMMA AskKeeps == ASSUME PlayInv, PlaytestAssumption, NEW kind \in {"action", "tick"}, Ask(kind) PROVE PlayInv'
<1>1. /\ runtime # 0 /\ asked' = asked + 1 /\ task' = Append(task, [id |-> asked + 1, is |-> kind])
      /\ UNCHANGED <<generation, status, runtime, shown, logs, runtimes, running>>
  BY DEF Ask
<1> DEFINE new == [id |-> asked + 1, is |-> kind]
<1>2. asked \in Nat /\ task \in Seq(Asked)
  BY DEF PlayInv, ControlSound
<1>3. new \in Asked /\ new.id = asked + 1
  BY <1>2 DEF Asked
<1> HIDE DEF new
<1>4. /\ task' \in Seq(Asked) /\ Len(task') = Len(task) + 1 /\ Len(task) \in Nat
      /\ \A k \in 1 .. Len(task) : task'[k] = task[k]
      /\ task'[Len(task) + 1] = new
  <2>1. task' = Append(task, new)
    BY <1>1 DEF new
  <2> QED
    BY <1>2, <1>3, <2>1, AppendProperties
<1>5. RuntimesSound'
  BY <1>1 DEF PlayInv, RuntimesSound
<1>6. ControlSound'
  BY <1>1, <1>2, <1>4 DEF PlayInv, ControlSound
<1>7. LogsSound'
  BY <1>1 DEF PlayInv, LogsSound
<1>8. ShownSound(runtimes[runtime], OpsOf(running, runtime))'
  BY <1>1 DEF PlayInv, ShownSound
<1>9. TaskSound(runtimes[runtime], OpsOf(running, runtime))'
  <2> DEFINE r == runtimes[runtime]
             ops == OpsOf(running, runtime)
  <2>1. TaskSound(r, ops) /\ r \in RuntimeRecords /\ RuntimeSound(runtime, r, ops, runtime, generation)
    BY <1>1, Played
  <2> HIDE DEF r, ops
  <2>10. \A op \in ops : op.id \in Nat
    <3> SUFFICES ASSUME NEW op \in ops PROVE op.id \in Nat
      OBVIOUS
    <3>1. op \in Operations
      BY <2>1 DEF RuntimeSound, OperationSound
    <3> QED
      BY <3>1 DEF Operations
  <2>2. \A i \in 1 .. Len(r.table.done) : r.table.done[i].id \in Nat
    <3>1. r.table.done \in Seq(Entries)
      BY <2>1 DEF RuntimeRecords, PlayTables
    <3>2. \A i \in 1 .. Len(r.table.done) : r.table.done[i] \in Entries
      BY <3>1
    <3> QED
      BY <3>2 DEF Entries
  <2>3. /\ \A k \in 1 .. Len(task) : task[k].id > 0 /\ task[k].id <= asked /\ task[k].id \in Nat
        /\ \A i \in 1 .. Len(r.table.done) : r.table.done[i].id <= asked
        /\ \A op \in ops : op.id <= asked
    <3>1. \A k \in 1 .. Len(task) : task[k] \in Asked
      BY <1>2
    <3>2. \A k \in 1 .. Len(task) : task[k].id \in Nat
      BY <3>1 DEF Asked
    <3> QED
      BY <2>1, <3>2 DEF TaskSound
  <2>4. \A k \in 1 .. Len(task') : k \in 1 .. Len(task) \/ k = Len(task) + 1
    BY <1>4
  <2>5. \A k \in 1 .. Len(task') :
          /\ task'[k].id > 0 /\ task'[k].id <= asked'
          /\ \A i \in 1 .. Len(r.table.done) : r.table.done[i].id < task'[k].id
          /\ \A op \in ops : op.id < task'[k].id
    <3> SUFFICES ASSUME NEW k \in 1 .. Len(task')
                 PROVE  /\ task'[k].id > 0 /\ task'[k].id <= asked'
                        /\ \A i \in 1 .. Len(r.table.done) : r.table.done[i].id < task'[k].id
                        /\ \A op \in ops : op.id < task'[k].id
      OBVIOUS
    <3>1. CASE k \in 1 .. Len(task)
      BY <1>1, <1>2, <1>4, <2>1, <2>3, <3>1 DEF TaskSound
    <3>2. CASE k = Len(task) + 1
      BY <1>1, <1>2, <1>3, <1>4, <2>1, <2>10, <2>2, <2>3, <3>2
    <3> QED
      BY <2>4, <3>1, <3>2
  <2>6. \A k, l \in 1 .. Len(task') : k < l => task'[k].id < task'[l].id
    <3> SUFFICES ASSUME NEW k \in 1 .. Len(task'), NEW l \in 1 .. Len(task'), k < l
                 PROVE  task'[k].id < task'[l].id
      OBVIOUS
    <3>1. k \in 1 .. Len(task)
      BY <1>4
    <3>2. CASE l \in 1 .. Len(task)
      BY <1>4, <2>1, <3>1, <3>2 DEF TaskSound
    <3>3. CASE l = Len(task) + 1
      BY <1>2, <1>3, <1>4, <2>3, <3>1, <3>3, SMTT(40)
    <3> QED
      BY <2>4, <3>2, <3>3
  <2>7. /\ \A i \in 1 .. Len(r.table.done) : r.table.done[i].id <= asked'
        /\ \A op \in ops : op.id <= asked'
    BY <1>1, <1>2, <2>10, <2>2, <2>3
  <2>8. r' = r /\ ops' = ops
    BY <1>1 DEF r, ops
  <2>9. TaskSound(r, ops)'
    BY <2>5, <2>6, <2>7, <2>8 DEF TaskSound
  <2> QED
    BY <2>9 DEF r, ops
<1> QED
  BY <1>1, <1>5, <1>6, <1>7, <1>8, <1>9 DEF PlayInv

\* What happens to a runtime that is not the one played with.
LEMMA LeavesPlayed ==
  ASSUME PlayInv, PlaytestAssumption, UNCHANGED <<generation, runtime, shown, task, asked>>,
         NEW g \in Generations, g # runtime, NEW new, runtimes' = [runtimes EXCEPT ![g] = new],
         \A op \in running' : op.of \in Generations,
         \A h \in Generations \ {g} : OpsOf(running', h) = OpsOf(running, h),
         RuntimeSound(g, new, OpsOf(running', g), runtime, generation),
         \/ status' = status /\ (g = generation =>
              (new.phase \in {"sandbox", "boot", "failing", "created"}
                 <=> runtimes[g].phase \in {"sandbox", "boot", "failing", "created"}))
         \/ g = generation /\ status' = "stopped" /\ runtime = 0 /\ new.phase \notin {"sandbox", "boot", "failing", "created"},
         LogsSound'
  PROVE  PlayInv'
<1>1. generation \in Int /\ generation <= generation
  BY DEF PlayInv, ControlSound
<1>2. /\ RuntimesSound' /\ runtimes'[g] = new
      /\ \A h \in Generations \ {g} : runtimes'[h] = runtimes[h]
  BY <1>1, OneRuntime DEF PlayInv
<1>3. generation # 0 => generation \in Generations
  BY DEF PlayInv, ControlSound, Generations, PlaytestAssumption
<1>4. runtime' # 0 =>
        /\ runtimes'[runtime'].phase = "used"
        /\ ShownSound(runtimes[runtime], OpsOf(running, runtime))'
        /\ TaskSound(runtimes[runtime], OpsOf(running, runtime))'
  BY <1>2, PlayedIsLeft
<1>5. g # 0
  BY DEF Generations
<1>6. status' = "starting" <=>
        generation # 0 /\ runtimes'[generation].phase \in {"sandbox", "boot", "failing", "created"}
  <2>1. status = "starting" <=>
          generation # 0 /\ runtimes[generation].phase \in {"sandbox", "boot", "failing", "created"}
    BY DEF PlayInv, ControlSound
  <2>2. CASE g = generation
    BY <1>2, <1>5, <2>1, <2>2
  <2>3. CASE g # generation
    BY <1>2, <1>3, <2>1, <2>3
  <2> QED
    BY <2>2, <2>3
<1>7. /\ status' \in {"stopped", "starting", "playing"} /\ (status' = "playing" <=> runtime' # 0)
      /\ status' = "starting" => shown' = Release
  BY DEF PlayInv, ControlSound
<1>8. ControlSound'
  BY <1>4, <1>6, <1>7 DEF PlayInv, ControlSound
<1> QED
  BY <1>2, <1>4, <1>8 DEF PlayInv

\* Logs that are kept, or get an entry that is not about an operation.
LEMMA LogsAreLeft ==
  ASSUME PlayInv, NEW g \in Generations, NEW about, about # "applied", NEW id,
         logs' \in {logs, Log(g, about, id)}, generation' = generation,
         status' # "stopped" => status # "stopped" /\ runtimes'[generation].table = runtimes[generation].table
  PROVE  LogsSound'
<1> DEFINE new == [of |-> g, is |-> about, id |-> id]
<1>1. new.of = g /\ new.is # "applied"
  OBVIOUS
<1>2. logs' = logs \/ (g = generation /\ logs' = logs \cup {new})
  BY DEF Log
<1> HIDE DEF new
<1>3. SUFFICES ASSUME status' # "stopped", NEW entry \in logs'
               PROVE  /\ entry.of = generation
                      /\ entry.is = "applied" =>
                           \E i \in 1 .. Len(runtimes'[generation].table.done) :
                             runtimes'[generation].table.done[i].id = entry.id
  BY DEF LogsSound
<1>4. CASE entry \in logs
  BY <1>3, <1>4 DEF PlayInv, LogsSound
<1>5. CASE entry = new /\ g = generation
  BY <1>1, <1>5
<1> QED
  BY <1>2, <1>4, <1>5

LEMMA SandboxKeeps ==
  ASSUME PlayInv, PlaytestAssumption, NEW g \in Generations, SandboxCreated(g) PROVE PlayInv'
<1>1. PICK joins \in {<< >>, <<Step("join"), Step("seat")>>} :
        running' = running \cup {Under(g, 0, <<Step("setup")>> \o joins)}
  BY DEF SandboxCreated
<1>2. /\ runtimes[g].phase = "sandbox"
      /\ runtimes' = [runtimes EXCEPT ![g].phase = "boot", ![g].open = TRUE]
      /\ UNCHANGED <<generation, status, runtime, shown, logs, task, asked>>
  BY DEF SandboxCreated
<1> DEFINE r == runtimes[g]
           new == [r EXCEPT !.phase = "boot", !.open = TRUE]
           op == Under(g, 0, <<Step("setup")>> \o joins)
<1>3. /\ OpsOf(running, g) = {} /\ g # runtime /\ g <= generation /\ generation \in Int /\ g \in Int
      /\ r \in RuntimeRecords
      /\ RuntimeSound(g, r, OpsOf(running, g), runtime, generation)
  BY <1>2, Idle, WasStarted DEF PlayInv, RuntimesSound, Generations
<1>4. r.table = Release /\ r.due = << >> /\ r.registered \in Nat
  BY <1>2, <1>3 DEF RuntimeSound
<1>5. /\ new \in RuntimeRecords /\ new.phase = "boot" /\ new.open /\ new.table = Release /\ new.due = << >>
      /\ new.registered \in Nat
  BY <1>3, <1>4 DEF RuntimeRecords
<1>6. <<Step("setup")>> \o joins \in Seq(Steps) /\ <<Step("setup")>> \o joins # << >>
  <2>1. Step("setup") \in Steps /\ Step("join") \in Steps /\ Step("seat") \in Steps
    BY DEF Steps
  <2>2. <<Step("setup")>> \in Seq(Steps) /\ << >> \in Seq(Steps) /\ <<Step("join"), Step("seat")>> \in Seq(Steps)
    BY <2>1
  <2>3. joins \in Seq(Steps)
    BY <2>2
  <2> QED
    BY <2>2, <2>3
<1>7. op \in Operations /\ op.of = g /\ op.id = 0 /\ op.base = Release /\ op.todo # << >>
  BY <1>4, <1>6, NoTable DEF Under, Operations
<1>8. runtimes' = [runtimes EXCEPT ![g] = new]
  BY <1>2
<1> HIDE DEF new, op
<1>9. RuntimeSound(g, new, {op}, runtime, generation)
  <2>1. OperationSound(new, op)
    BY <1>5, <1>7 DEF OperationSound
  <2>2. TimersSound(new, {op})
    BY <1>5, NoTable, NoDue DEF TimersSound
  <2>3. OrderSound(new, {op})
    BY <1>5, NoTable DEF OrderSound
  <2>4. ~(g > generation)
    BY <1>3
  <2> QED
    BY <1>5, <2>1, <2>2, <2>3, <2>4 DEF RuntimeSound
<1>10. /\ OpsOf(running', g) = {op}
       /\ \A h \in Generations \ {g} : OpsOf(running', h) = OpsOf(running, h)
       /\ \A o \in running' : o.of \in Generations
  BY <1>1, <1>3, <1>7 DEF OpsOf, op, PlayInv, RuntimesSound
<1>11. RuntimeSound(g, new, OpsOf(running', g), runtime, generation)
  BY <1>9, <1>10
<1>12. LogsSound'
  <2>1. generation # 0 => generation \in Generations
    BY DEF PlayInv, ControlSound, Generations, PlaytestAssumption
  <2>2. status # "stopped" => generation # 0
    BY DEF PlayInv, ControlSound
  <2>3. status # "stopped" => runtimes'[generation].table = runtimes[generation].table
    BY <1>4, <1>5, <1>8, <2>1, <2>2 DEF PlayInv, RuntimesSound
  <2> QED
    BY <1>2, <2>3 DEF PlayInv, LogsSound
<1> QED
  BY <1>2, <1>3, <1>5, <1>8, <1>10, <1>11, <1>12, LeavesPlayed

LEMMA CreateFailsKeeps ==
  ASSUME PlayInv, PlaytestAssumption, NEW g \in Generations, CreateFails(g) PROVE PlayInv'
<1>1. /\ runtimes[g].phase \in {"sandbox", "failing"} /\ runtimes' = [runtimes EXCEPT ![g] = Forgotten]
      /\ logs' = Log(g, "status", 0) /\ status' = IF g = generation THEN "stopped" ELSE status
      /\ UNCHANGED <<generation, runtime, shown, task, asked, running>>
  BY DEF CreateFails
<1>2. OpsOf(running, g) = {} /\ g # runtime /\ g <= generation /\ generation \in Int
  BY <1>1, Idle, WasStarted
<1>3. RuntimeSound(g, Forgotten, OpsOf(running', g), runtime, generation)
  BY <1>1, <1>2, NoneOpen
<1>4. /\ \A h \in Generations \ {g} : OpsOf(running', h) = OpsOf(running, h)
      /\ \A o \in running' : o.of \in Generations
  BY <1>1 DEF PlayInv, RuntimesSound
<1>5. generation # 0 => generation \in Generations
  BY DEF PlayInv, ControlSound, Generations, PlaytestAssumption
<1>6. g # generation /\ status # "stopped" => runtimes'[generation].table = runtimes[generation].table
  BY <1>1, <1>5 DEF PlayInv, ControlSound, RuntimesSound
<1>7. LogsSound'
  BY <1>1, <1>6, LogsAreLeft
<1>8. g = generation => runtime = 0
  BY <1>2 DEF PlayInv, ControlSound
<1>9. \/ status' = status /\ g # generation
      \/ g = generation /\ status' = "stopped" /\ runtime = 0 /\ Forgotten.phase \notin {"sandbox", "boot", "failing", "created"}
  BY <1>1, <1>8, NoRuntimes
<1> QED
  BY <1>1, <1>2, <1>3, <1>4, <1>7, <1>9, LeavesPlayed

LEMMA CreatedKeeps ==
  ASSUME PlayInv, PlaytestAssumption, NEW g \in Generations, Created(g) PROVE PlayInv'
<1>1. /\ runtimes[g].phase = "created" /\ logs' = Log(g, "status", 0)
      /\ UNCHANGED <<generation, task, asked, running>>
  BY DEF Created
<1>2. OpsOf(running, g) = {} /\ g # runtime /\ g <= generation /\ generation \in Int /\ g # 0
  BY <1>1, Idle, WasStarted DEF Generations
<1>3. /\ \A h \in Generations \ {g} : OpsOf(running', h) = OpsOf(running, h)
      /\ \A o \in running' : o.of \in Generations
  BY <1>1 DEF PlayInv, RuntimesSound
<1>4. generation # 0 => generation \in Generations
  BY DEF PlayInv, ControlSound, Generations, PlaytestAssumption
<1>5. CASE g = generation
  <2> DEFINE r == runtimes[g]
             new == [r EXCEPT !.phase = "used"]
  <2>1. /\ runtime' = g /\ shown' = r.table /\ status' = "playing" /\ runtimes' = [runtimes EXCEPT ![g] = new]
    BY <1>1, <1>5 DEF Created, IsWanted
  <2>2. status = "starting" /\ runtime = 0 /\ task = << >>
    BY <1>1, <1>2, <1>5 DEF PlayInv, ControlSound
  <2>3. r \in RuntimeRecords /\ RuntimeSound(g, r, {}, runtime, generation)
    BY <1>2 DEF PlayInv, RuntimesSound
  <2>4. r.open /\ TimersSound(r, {}) /\ OrderSound(r, {})
    BY <1>1, <2>3 DEF RuntimeSound
  <2>5. /\ new \in RuntimeRecords /\ new.phase = "used" /\ new.open /\ new.table = r.table /\ new.due = r.due
        /\ new.registered = r.registered
    BY <2>3, <2>4 DEF RuntimeRecords
  <2>6. \A i \in 1 .. Len(r.table.done) : r.table.done[i].id = 0
    BY <1>1, <2>4 DEF OrderSound
  <2>7. r.table \in PlayTables
    BY <2>3 DEF RuntimeRecords
  <2> HIDE DEF new, r
  <2>8. TimersSound(new, {}) /\ OrderSound(new, {})
    BY <2>4, <2>5 DEF TimersSound, OrderSound
  <2>9. RuntimeSound(g, new, {}, g, generation)
    <3>1. ~(g > generation)
      BY <1>2, <1>5
    <3> QED
      BY <2>5, <2>8, <3>1 DEF RuntimeSound
  <2>10. /\ RuntimesSound' /\ runtimes'[g] = new
         /\ \A h \in Generations \ {g} : runtimes'[h] = runtimes[h]
    <3>1. \A h \in Generations \ {g} : h = runtime <=> h = runtime'
      BY <2>1, <2>2 DEF Generations
    <3>2. RuntimeSound(g, new, OpsOf(running', g), runtime', generation') /\ RuntimesSound
      BY <1>1, <1>2, <2>1, <2>9 DEF PlayInv
    <3>3. generation' \in Int /\ generation <= generation'
      BY <1>1, <1>2
    <3> QED
      BY <1>2, <1>3, <2>1, <3>1, <3>2, <3>3, OneRuntime
  <2>11. ControlSound'
    BY <1>1, <1>2, <1>5, <2>1, <2>5, <2>7, <2>10 DEF PlayInv, ControlSound
  <2>12. LogsSound'
    <3>1. runtimes'[generation].table = runtimes[generation].table
      BY <1>5, <2>5, <2>10 DEF r
    <3> QED
      BY <1>1, <2>2, <3>1, LogsAreLeft
  <2>13. ShownSound(runtimes[runtime], OpsOf(running, runtime))'
    <3>1. OpsOf(running', runtime') = {} /\ runtimes'[runtime'] = new /\ shown' = new.table
      BY <1>1, <1>2, <2>1, <2>5, <2>10
    <3> QED
      BY <3>1 DEF ShownSound
  <2>14. TaskSound(runtimes[runtime], OpsOf(running, runtime))'
    <3>1. OpsOf(running', runtime') = {} /\ runtimes'[runtime'] = new /\ task' = << >> /\ asked' = asked
          /\ asked \in Nat
      BY <1>1, <1>2, <2>1, <2>2, <2>10 DEF PlayInv, ControlSound
    <3>2. /\ \A i \in 1 .. Len(new.table.done) : new.table.done[i].id <= asked
          /\ Len(task') = 0
      BY <2>5, <2>6, <3>1, EmptySeq
    <3> QED
      BY <3>1, <3>2 DEF TaskSound
  <2> QED
    BY <2>10, <2>11, <2>12, <2>13, <2>14 DEF PlayInv
<1>6. CASE g # generation
  <2>1. runtimes' = [runtimes EXCEPT ![g] = Forgotten] /\ UNCHANGED <<runtime, shown, status>>
    BY <1>6 DEF Created, IsWanted
  <2>2. RuntimeSound(g, Forgotten, OpsOf(running', g), runtime, generation)
    BY <1>1, <1>2, NoneOpen
  <2>3. status # "stopped" => runtimes'[generation].table = runtimes[generation].table
    BY <1>4, <1>6, <2>1 DEF PlayInv, ControlSound, RuntimesSound
  <2>4. LogsSound'
    BY <1>1, <2>1, <2>3, LogsAreLeft
  <2> QED
    BY <1>1, <1>2, <1>3, <1>6, <2>1, <2>2, <2>4, LeavesPlayed
<1> QED
  BY <1>5, <1>6

\* A runtime that is closed while an operation is under way.
LEMMA ClosedSound ==
  ASSUME NEW g \in Generations, NEW r, NEW ops, NEW gen, RuntimeSound(g, r, ops, g, gen), r.phase = "used",
         NEW later, later \in Int, gen \in Int, gen <= later
  PROVE  RuntimeSound(g, [r EXCEPT !.open = FALSE, !.due = << >>], ops, 0, later)
<1> DEFINE new == [r EXCEPT !.open = FALSE, !.due = << >>]
<1>1. r \in RuntimeRecords /\ g \in Int /\ g # 0
  BY DEF RuntimeSound, Generations
<1>2. /\ new \in RuntimeRecords /\ new.phase = "used" /\ ~new.open /\ new.table = r.table
  BY <1>1, NoDue DEF RuntimeRecords
<1> HIDE DEF new
<1>3. \A op \in ops : OperationSound(new, op)
  BY <1>2 DEF RuntimeSound, OperationSound
<1>4. ~(g > later)
  BY <1>1 DEF RuntimeSound
<1>5. RuntimeSound(g, new, ops, 0, later)
  BY <1>1, <1>2, <1>3, <1>4 DEF RuntimeSound
<1> QED
  BY <1>5 DEF new

LEMMA StopKeeps == PlayInv /\ PlaytestAssumption /\ Stop => PlayInv'
<1> SUFFICES ASSUME PlayInv, PlaytestAssumption, Stop PROVE PlayInv'
  OBVIOUS
<1>1. /\ generation < MaxGeneration /\ generation' = generation + 1
      /\ runtime' = 0 /\ task' = << >> /\ status' = "stopped"
      /\ UNCHANGED <<shown, asked, running>>
  BY DEF Stop
<1>2. /\ generation + 1 \in Generations /\ generation + 1 \in 0 .. MaxGeneration /\ generation \in Int
      /\ runtimes[generation + 1] = NoRuntime /\ generation + 1 # runtime
  BY <1>1, NextGeneration
<1>3. RuntimesSound' /\ runtimes'[generation + 1].phase = "none"
  <2>1. CASE runtime = 0
    <3>1. runtimes' = runtimes
      BY <2>1 DEF Stop
    <3> QED
      BY <1>1, <1>2, <2>1, <3>1, NewGeneration, NoRuntimes
  <2>2. CASE runtime # 0
    <3> DEFINE r == runtimes[runtime]
               stopped == \E op \in running : op.of = runtime
               closed == [r EXCEPT !.open = FALSE, !.due = << >>]
               new == IF stopped THEN closed ELSE Forgotten
    <3>1. runtimes' = [runtimes EXCEPT ![runtime] = new]
      BY <2>2 DEF Stop
    <3>2. /\ runtime \in Generations /\ runtime = generation /\ r.phase = "used"
          /\ RuntimeSound(runtime, r, OpsOf(running, runtime), runtime, generation)
      BY <2>2, Played
    <3>3. generation <= generation + 1 /\ generation + 1 \in Int
      BY <1>2
    <3> HIDE DEF r
    <3>6. RuntimeSound(runtime, closed, OpsOf(running, runtime), 0, generation + 1)
      BY <1>2, <3>2, <3>3, ClosedSound
    <3> HIDE DEF closed
    <3>7. ~stopped => OpsOf(running, runtime) = {}
      BY DEF OpsOf
    <3>8. RuntimeSound(runtime, Forgotten, {}, 0, generation + 1)
      BY <1>2, <3>2, <3>3, NoneOpen
    <3> HIDE DEF stopped
    <3>4. RuntimeSound(runtime, new, OpsOf(running, runtime), 0, generation + 1)
      <4>1. CASE stopped
        BY <3>6, <4>1
      <4>2. CASE ~stopped
        BY <3>7, <3>8, <4>2
      <4> QED
        BY <4>1, <4>2
    <3> HIDE DEF new
    <3>5. RuntimesSound' /\ \A h \in Generations \ {runtime} : runtimes'[h] = runtimes[h]
      <4>1. \A h \in Generations \ {runtime} : h = runtime <=> h = runtime'
        BY <1>1 DEF Generations
      <4>2. RuntimeSound(runtime, new, OpsOf(running', runtime), runtime', generation')
        BY <1>1, <3>4
      <4>3. RuntimesSound /\ \A op \in running' : op.of \in Generations
        BY <1>1 DEF PlayInv, RuntimesSound
      <4> QED
        BY <1>1, <1>2, <3>1, <3>2, <3>3, <4>1, <4>2, <4>3, OneRuntime
    <3> QED
      BY <1>2, <3>5, NoRuntimes
  <2> QED
    BY <2>1, <2>2
<1>4. ControlSound'
  <2>1. << >> \in Seq(Asked)
    BY EmptySeq
  <2> QED
    BY <1>1, <1>2, <1>3, <2>1 DEF PlayInv, ControlSound
<1>5. LogsSound'
  BY <1>1 DEF LogsSound
<1> QED
  BY <1>1, <1>3, <1>4, <1>5 DEF PlayInv

LEMMA DoneIs ==
  ASSUME NEW r \in RuntimeRecords
  PROVE  /\ r.table \in PlayTables /\ r.table.done \in Seq(Entries) /\ Len(r.table.done) \in Nat
         /\ \A i \in 1 .. Len(r.table.done) : r.table.done[i].id \in Nat
<1>1. r.table \in PlayTables /\ r.table.done \in Seq(Entries)
  BY DEF RuntimeRecords, PlayTables
<1>2. \A i \in 1 .. Len(r.table.done) : r.table.done[i] \in Entries
  BY <1>1
<1>3. Len(r.table.done) \in Nat
  BY <1>1, LenProperties
<1> QED
  BY <1>1, <1>2, <1>3 DEF Entries

LEMMA DueIs == \A due \in Dues : DOMAIN due \subseteq 1 .. MaxTimers /\ due \in [DOMAIN due -> Nat]
BY DEF Dues

LEMMA StillDueIs ==
  ASSUME NEW due \in Dues, NEW todo
  PROVE  /\ StillDue(due, todo) \in Dues
         /\ DOMAIN StillDue(due, todo) = {t \in DOMAIN due : todo = << >> \/ todo[1] # Fire(t)}
<1> DEFINE D == {t \in DOMAIN due : todo = << >> \/ todo[1] # Fire(t)}
<1>1. D \in SUBSET (1 .. MaxTimers) /\ D \subseteq DOMAIN due
  BY DueIs
<1>2. StillDue(due, todo) = [t \in D |-> due[t]]
  BY DEF StillDue, Restrict
<1>3. \A t \in D : due[t] \in Nat
  BY DueIs
<1> HIDE DEF D
<1>4. StillDue(due, todo) \in [D -> Nat] /\ DOMAIN StillDue(due, todo) = D
  BY <1>2, <1>3
<1> QED
  BY <1>1, <1>4 DEF Dues, D

\* What is fired is of its kind.
LEMMA FiringIs ==
  ASSUME PlaytestAssumption, NEW r \in RuntimeRecords, NEW todo \in Firing(r)
  PROVE  todo \in Seq(Steps) /\ \A k \in 1 .. Len(todo) : todo[k].is # "setup"
<1> DEFINE due == {t \in DOMAIN r.due : r.due[t] <= r.ticks + 1}
<1>1. r.due \in Dues /\ DOMAIN r.due \subseteq 1 .. MaxTimers
  BY DueIs DEF RuntimeRecords
<1>2. due \subseteq 1 .. MaxTimers /\ IsFiniteSet(1 .. MaxTimers)
  BY <1>1, FS_Interval DEF PlaytestAssumption
<1>3. IsFiniteSet(due)
  BY <1>2, FS_Subset
<1>4. Cardinality(due) \in Nat
  BY <1>3, FS_CardinalityType
<1>5. PICK order \in [1 .. Cardinality(due) -> due] : todo = [i \in DOMAIN order |-> Fire(order[i])]
  BY DEF Firing
<1> HIDE DEF due
<1>6. todo = [i \in 1 .. Cardinality(due) |-> Fire(order[i])] /\ \A i \in 1 .. Cardinality(due) : order[i] \in 1 .. MaxTimers
  BY <1>2, <1>5
<1>7. \A t \in 1 .. MaxTimers : Fire(t) \in Steps /\ Fire(t).is # "setup"
  BY DEF Steps, Fire
<1>8. todo \in [1 .. Cardinality(due) -> Steps] /\ \A i \in 1 .. Cardinality(due) : todo[i].is # "setup"
  BY <1>6, <1>7
<1>9. todo \in Seq(Steps)
  BY <1>4, <1>8
<1>10. Len(todo) = Cardinality(due)
  BY <1>4, <1>8, <1>9
<1> QED
  BY <1>8, <1>9, <1>10

\* The runtime played with, and an operation that begins in it.
LEMMA BeginsSound ==
  ASSUME NEW g \in Generations, NEW r, NEW gen, RuntimeSound(g, r, {}, g, gen), r.phase = "used",
         NEW todo \in Seq(Steps), \A k \in 1 .. Len(todo) : todo[k].is # "setup",
         NEW op, op \in Operations, op.id > 0, op.todo = todo, op.base = r.table,
         \A i \in 1 .. Len(r.table.done) : r.table.done[i].id < op.id,
         NEW ticks \in Nat
  PROVE  RuntimeSound(g, [r EXCEPT !.ticks = ticks, !.due = StillDue(r.due, todo)], {op}, g, gen)
<1> DEFINE due == StillDue(r.due, todo)
           new == [r EXCEPT !.ticks = ticks, !.due = due]
<1>1. r \in RuntimeRecords /\ r.due \in Dues /\ r.open /\ TimersSound(r, {}) /\ OrderSound(r, {})
  BY DEF RuntimeSound, RuntimeRecords
<1>2. due \in Dues /\ DOMAIN due = {t \in DOMAIN r.due : todo = << >> \/ todo[1] # Fire(t)}
  BY <1>1, StillDueIs
<1> HIDE DEF due
<1>3. /\ new \in RuntimeRecords /\ new.phase = "used" /\ new.open /\ new.table = r.table /\ new.due = due
      /\ new.registered = r.registered
  BY <1>1, <1>2 DEF RuntimeRecords
<1> HIDE DEF new
<1>4. op.id \in Nat
  BY DEF Operations
<1>5. OperationSound(new, op)
  <2>1. op.id # 0
    BY <1>4
  <2> QED
    BY <1>3, <2>1 DEF OperationSound
<1>6. TimersSound(new, {op})
  <2>1. DOMAIN due \subseteq new.table.timers /\ new.table.timers \subseteq 1 .. new.registered
    BY <1>1, <1>2, <1>3 DEF TimersSound
  <2>2. ASSUME NEW t \in new.table.timers \ DOMAIN due
        PROVE  \/ \E i \in 1 .. Len(new.table.done) : new.table.done[i].step = Fire(t) /\ ~new.table.done[i].ok
               \/ op.todo # << >> /\ op.todo[1] = Fire(t)
    <3>1. CASE t \in DOMAIN r.due
      BY <1>2, <2>2, <3>1
    <3>2. CASE t \notin DOMAIN r.due
      BY <1>1, <1>3, <2>2, <3>2 DEF TimersSound
    <3> QED
      BY <3>1, <3>2
  <2> QED
    BY <1>3, <2>1, <2>2 DEF TimersSound
<1>7. OrderSound(new, {op})
  <2>1. \A i \in 1 .. Len(r.table.done) : r.table.done[i].id <= op.id
    BY <1>1, <1>4, DoneIs
  <2> QED
    BY <1>1, <1>3, <2>1 DEF OrderSound
<1>8. g > gen => r.phase = "none"
  BY DEF RuntimeSound
<1>9. RuntimeSound(g, new, {op}, g, gen)
  BY <1>3, <1>5, <1>6, <1>7, <1>8 DEF RuntimeSound
<1> QED
  BY <1>9 DEF new, due

\* Of what is asked for the first is taken, and comes before what is left.
LEMMA TakesFirst ==
  ASSUME PlayInv, PlaytestAssumption, runtime # 0, task # << >>, OpsOf(running, runtime) = {},
         task' = Tail(task), UNCHANGED asked, NEW r, r.table.done = runtimes[runtime].table.done,
         NEW ops, \A o \in ops : o.id = task[1].id
  PROVE  /\ task' \in Seq(Asked) /\ task[1] \in Asked /\ task[1].id > 0 /\ task[1].id <= asked
         /\ \A i \in 1 .. Len(r.table.done) : r.table.done[i].id < task[1].id
         /\ \A k \in 1 .. Len(task') :
              /\ task'[k].id > 0 /\ task'[k].id <= asked
              /\ \A i \in 1 .. Len(r.table.done) : r.table.done[i].id < task'[k].id
              /\ \A op \in ops : op.id < task'[k].id
         /\ \A k, l \in 1 .. Len(task') : k < l => task'[k].id < task'[l].id
         /\ \A i \in 1 .. Len(r.table.done) : r.table.done[i].id <= asked
         /\ \A op \in ops : op.id <= asked
<1> DEFINE p == runtimes[runtime]
<1>1. TaskSound(p, {}) /\ p \in RuntimeRecords /\ task \in Seq(Asked) /\ asked \in Nat
  BY Played DEF PlayInv, ControlSound
<1>2. /\ Len(task) \in Nat /\ Len(task) # 0 /\ Tail(task) \in Seq(Asked) /\ Len(Tail(task)) = Len(task) - 1
      /\ \A k \in 1 .. Len(Tail(task)) : Tail(task)[k] = task[k + 1]
  BY <1>1
<1>3. 1 \in 1 .. Len(task) /\ \A k \in 1 .. Len(task') : k + 1 \in 1 .. Len(task) /\ task'[k] = task[k + 1] /\ 1 < k + 1
  BY <1>2
<1>4. /\ task[1] \in Asked /\ task[1].id > 0 /\ task[1].id <= asked
      /\ \A i \in 1 .. Len(r.table.done) : r.table.done[i].id < task[1].id
  BY <1>1, <1>3 DEF TaskSound
<1>5. /\ \A i \in 1 .. Len(r.table.done) : r.table.done[i].id \in Nat /\ r.table.done[i].id <= asked
      /\ task[1].id \in Nat
  BY <1>1, <1>4, DoneIs DEF Asked, TaskSound
<1>6. \A k \in 1 .. Len(task') :
        /\ task'[k].id > 0 /\ task'[k].id <= asked
        /\ \A i \in 1 .. Len(r.table.done) : r.table.done[i].id < task'[k].id
        /\ task[1].id < task'[k].id
  BY <1>1, <1>3 DEF TaskSound
<1>7. \A k, l \in 1 .. Len(task') : k < l => task'[k].id < task'[l].id
  <2> SUFFICES ASSUME NEW k \in 1 .. Len(task'), NEW l \in 1 .. Len(task'), k < l
               PROVE  task'[k].id < task'[l].id
    OBVIOUS
  <2>1. k + 1 \in 1 .. Len(task) /\ l + 1 \in 1 .. Len(task) /\ k + 1 < l + 1
    BY <1>3
  <2>2. task[k + 1].id < task[l + 1].id
    BY <1>1, <2>1 DEF TaskSound
  <2> QED
    BY <1>3, <2>2
<1> QED
  BY <1>2, <1>4, <1>5, <1>6, <1>7

LEMMA RunKeeps == PlayInv /\ PlaytestAssumption /\ Run => PlayInv'
<1> SUFFICES ASSUME PlayInv, PlaytestAssumption, Run PROVE PlayInv'
  OBVIOUS
<1> DEFINE g == runtime
           r == runtimes[g]
           op == task[1]
<1>1. /\ g # 0 /\ task # << >> /\ task' = Tail(task) /\ UNCHANGED <<generation, status, runtime, shown, asked>>
      /\ \A o \in running : o.of # g
  BY DEF Run, MayRun
<1>2. OpsOf(running, g) = {}
  BY <1>1 DEF OpsOf
<1>3. /\ g = generation /\ g \in Generations /\ status = "playing" /\ r.phase = "used" /\ r \in RuntimeRecords
      /\ RuntimeSound(g, r, {}, g, generation) /\ ShownSound(r, {})
  BY <1>1, <1>2, Played
<1>4. generation \in Int /\ generation <= generation /\ asked \in Nat
  BY DEF PlayInv, ControlSound
<1>5. /\ task' \in Seq(Asked) /\ op \in Asked /\ op.id > 0 /\ op.id <= asked
      /\ \A i \in 1 .. Len(r.table.done) : r.table.done[i].id < op.id
  BY <1>1, <1>2, TakesFirst
<1>6. CASE UNCHANGED <<runtimes, running>> /\ logs' = Log(g, "error", op.id)
  <2>1. RuntimesSound'
    BY <1>1, <1>6 DEF PlayInv, RuntimesSound
  <2>2. ControlSound'
    BY <1>1, <1>5, <1>6 DEF PlayInv, ControlSound
  <2>3. LogsSound'
    BY <1>1, <1>3, <1>6, LogsAreLeft
  <2>4. ShownSound(runtimes[runtime], OpsOf(running, runtime))'
    BY <1>1, <1>6 DEF PlayInv, ShownSound
  <2>5. TaskSound(runtimes[runtime], OpsOf(running, runtime))'
    <3>1. runtimes'[runtime'] = r /\ OpsOf(running', runtime') = {}
      BY <1>1, <1>2, <1>6
    <3>2. \A o \in {} : o.id = task[1].id
      OBVIOUS
    <3> QED
      BY <1>1, <1>2, <3>1, <3>2, TakesFirst DEF TaskSound
  <2> QED
    BY <2>1, <2>2, <2>3, <2>4, <2>5 DEF PlayInv
<1>7. ASSUME NEW todo \in IF op.is = "tick" THEN Firing(r) ELSE {<<Step("action")>>},
             running' = running \cup {Under(g, op.id, todo)},
             runtimes' = [runtimes EXCEPT ![g].ticks = IF op.is = "tick" THEN @ + 1 ELSE @,
                                          ![g].due = StillDue(@, todo)],
             logs' = logs
      PROVE  PlayInv'
  <2> DEFINE under == Under(g, op.id, todo)
             ticks == IF op.is = "tick" THEN r.ticks + 1 ELSE r.ticks
             new == [r EXCEPT !.ticks = ticks, !.due = StillDue(r.due, todo)]
  <2>1. todo \in Seq(Steps) /\ \A k \in 1 .. Len(todo) : todo[k].is # "setup"
    <3>1. CASE op.is = "tick"
      BY <1>3, <1>7, <3>1, FiringIs
    <3>2. CASE op.is # "tick"
      <4>1. todo = <<Step("action")>> /\ Step("action") \in Steps /\ Step("action").is # "setup"
        BY <1>7, <3>2 DEF Steps, Step
      <4> QED
        BY <4>1
    <3> QED
      BY <3>1, <3>2
  <2>2. op.id \in Nat /\ ticks \in Nat
    BY <1>3, <1>5 DEF Asked, RuntimeRecords
  <2>3. /\ under \in Operations /\ under.of = g /\ under.id = op.id /\ under.todo = todo /\ under.base = r.table
    BY <1>3, <2>1, <2>2, DoneIs DEF Under, Operations
  <2>4. runtimes' = [runtimes EXCEPT ![g] = new]
    BY <1>3, <1>7 DEF PlayInv, RuntimesSound
  <2>5. new.table = r.table /\ new.phase = r.phase
    BY <1>3 DEF RuntimeRecords
  <2> HIDE DEF under, ticks, new
  <2>6. running' = running \cup {under}
    BY <1>7 DEF under
  <2>7. RuntimeSound(g, new, {under}, g, generation)
    <3> HIDE DEF op, r
    <3> QED
      BY <1>3, <1>5, <2>1, <2>2, <2>3, BeginsSound DEF new
  <2>8. /\ OpsOf(running', g) = {under}
        /\ \A h \in Generations \ {g} : OpsOf(running', h) = OpsOf(running, h)
        /\ \A o \in running' : o.of \in Generations
    BY <1>2, <1>3, <2>3, <2>6 DEF OpsOf, PlayInv, RuntimesSound
  <2>9. RuntimesSound' /\ runtimes'[g] = new /\ \A h \in Generations \ {g} : runtimes'[h] = runtimes[h]
    <3>1. RuntimeSound(g, new, OpsOf(running', g), runtime', generation')
      BY <1>1, <2>7, <2>8
    <3>2. \A h \in Generations \ {g} : h = runtime <=> h = runtime'
      BY <1>1
    <3> QED
      BY <1>1, <1>3, <1>4, <2>4, <2>8, <3>1, <3>2, OneRuntime, ZenonT(60) DEF PlayInv
  <2>10. ControlSound'
    BY <1>1, <1>3, <1>5, <2>5, <2>9 DEF PlayInv, ControlSound
  <2>11. LogsSound'
    BY <1>1, <1>3, <1>7, <2>5, <2>9 DEF PlayInv, LogsSound
  <2>12. runtimes'[runtime'] = new /\ OpsOf(running', runtime') = {under} /\ new.table.done = runtimes[runtime].table.done
    BY <1>1, <2>5, <2>8, <2>9
  <2>13. ShownSound(runtimes[runtime], OpsOf(running, runtime))'
    <3>1. shown = r.table /\ r.table.done \in Seq(Entries) /\ Len(r.table.done) \in Nat
          /\ \A i \in 1 .. Len(r.table.done) : r.table.done[i].id \in Nat
      BY <1>3, DoneIs DEF ShownSound
    <3>2. IsPrefix(r.table.done, r.table.done)
      BY <3>1 DEF IsPrefix
    <3>3. \A i \in 1 .. Len(r.table.done) : r.table.done[i].id = under.id <=> i > Len(r.table.done)
      BY <1>5, <2>2, <2>3, <3>1
    <3> QED
      BY <1>1, <2>12, <3>1, <3>2, <3>3 DEF ShownSound
  <2>14. TaskSound(runtimes[runtime], OpsOf(running, runtime))'
    <3>1. \A o \in {under} : o.id = task[1].id
      BY <2>3
    <3> QED
      BY <1>1, <1>2, <2>12, <3>1, TakesFirst DEF TaskSound
  <2> QED
    BY <2>9, <2>10, <2>11, <2>13, <2>14 DEF PlayInv
<1>8. \/ UNCHANGED <<runtimes, running>> /\ logs' = Log(g, "error", op.id)
      \/ \E todo \in IF op.is = "tick" THEN Firing(r) ELSE {<<Step("action")>>} :
           /\ running' = running \cup {Under(g, op.id, todo)}
           /\ runtimes' = [runtimes EXCEPT ![g].ticks = IF op.is = "tick" THEN @ + 1 ELSE @,
                                           ![g].due = StillDue(@, todo)]
           /\ logs' = logs
  BY DEF Run
<1> QED
  BY <1>6, <1>7, <1>8

LEMMA RecordedIs ==
  ASSUME NEW r \in RuntimeRecords, NEW before, NEW after \in SUBSET (1 .. MaxTimers), NEW delay \in Nat
  PROVE  /\ Recorded(r, before, after, delay) \in Dues
         /\ DOMAIN Recorded(r, before, after, delay) = (DOMAIN r.due \ (before \ after)) \cup (after \ before)
<1> DEFINE D == (DOMAIN r.due \ (before \ after)) \cup (after \ before)
<1>1. r.due \in Dues /\ r.ticks \in Nat
  BY DEF RuntimeRecords
<1>2. DOMAIN r.due \subseteq 1 .. MaxTimers /\ r.due \in [DOMAIN r.due -> Nat]
  BY <1>1, DueIs
<1>3. D \in SUBSET (1 .. MaxTimers)
  BY <1>2
<1>4. Recorded(r, before, after, delay) = [t \in D |-> IF t \in after \ before THEN r.ticks + delay ELSE r.due[t]]
  BY DEF Recorded
<1>5. \A t \in D : (IF t \in after \ before THEN r.ticks + delay ELSE r.due[t]) \in Nat
  BY <1>1, <1>2
<1> HIDE DEF D
<1>6. Recorded(r, before, after, delay) \in [D -> Nat] /\ DOMAIN Recorded(r, before, after, delay) = D
  BY <1>4, <1>5
<1> QED
  BY <1>3, <1>6 DEF Dues, D

\* A script that comes back: the runtime r, whose operation op it was of, has the table
\* board and the phase that are named, and the operations that are next.
Returning(r, op, ok, timers, delay, n, board, due, rest, phase, new, next) ==
  LET failed == op.todo[1].is = "setup" /\ ~ok
      booted == op.id = 0 /\ rest = << >>
      left == IF rest # << >> /\ ~r.open THEN << >> ELSE rest
  IN  /\ ok \in BOOLEAN /\ timers \in SUBSET (1 .. MaxTimers) /\ delay \in Nat /\ n \in Nat /\ op.todo # << >>
      /\ timers \ op.base.timers = {} \/ (timers \ op.base.timers = {r.registered + 1} /\ n = 1)
      /\ ~ok => timers = op.base.timers
      /\ ok /\ r.open => op.todo[1].timer \notin timers \cap op.base.timers
      /\ board = [done |-> Append(op.base.done, [id |-> op.id, step |-> op.todo[1], ok |-> ok]), timers |-> timers]
      /\ rest = IF failed THEN << >> ELSE Tail(op.todo)
      /\ phase = IF failed THEN "failing" ELSE IF booted THEN "created" ELSE r.phase
      /\ due = StillDue(Recorded(r, op.base.timers, timers, delay), rest)
      /\ new = [r EXCEPT !.table = board, !.registered = r.registered + n, !.due = due, !.phase = phase]
      /\ next = IF booted THEN {} ELSE {[op EXCEPT !.todo = left, !.base = board]}

LEMMA ReturnsSound ==
  ASSUME PlaytestAssumption, NEW g \in Generations, NEW r, NEW op, NEW rt, NEW gen,
         RuntimeSound(g, r, {op}, rt, gen), NEW ok, NEW timers, NEW delay, NEW n, NEW board, NEW due, NEW rest,
         NEW phase, NEW new, NEW next, Returning(r, op, ok, timers, delay, n, board, due, rest, phase, new, next)
  PROVE  /\ RuntimeSound(g, new, next, rt, gen) /\ new.table = board /\ new.phase = phase
         /\ r.phase = "used" => phase = "used"
         /\ r.phase = "boot" => phase \in {"failing", "created", "boot"}
         /\ r.phase \in {"boot", "used"}
         /\ \A o \in next : o.of = op.of /\ o.id = op.id
         /\ op.id # 0 => next # {}
<1> DEFINE recorded == Recorded(r, op.base.timers, timers, delay)
           entry == [id |-> op.id, step |-> op.todo[1], ok |-> ok]
           failed == op.todo[1].is = "setup" /\ ~ok
           booted == op.id = 0 /\ rest = << >>
           left == IF rest # << >> /\ ~r.open THEN << >> ELSE rest
           after == [op EXCEPT !.todo = left, !.base = board]
<1>0. ok \in BOOLEAN /\ timers \in SUBSET (1 .. MaxTimers) /\ delay \in Nat /\ n \in Nat /\ op.todo # << >>
  BY DEF Returning
<1>1. /\ r \in RuntimeRecords /\ OperationSound(r, op) /\ op \in Operations /\ op.base = r.table
      /\ op.todo \in Seq(Steps) /\ op.id \in Nat /\ r.registered \in Nat
  BY SMTT(40) DEF RuntimeSound, OperationSound, Operations, RuntimeRecords
<1>20. /\ new = [r EXCEPT !.table = board, !.registered = r.registered + n, !.due = due, !.phase = phase]
       /\ due = StillDue(recorded, rest)
       /\ timers \ op.base.timers = {} \/ (timers \ op.base.timers = {r.registered + 1} /\ n = 1)
       /\ ~ok => timers = op.base.timers
       /\ ok /\ r.open => op.todo[1].timer \notin timers \cap op.base.timers
       /\ board = [done |-> Append(op.base.done, entry), timers |-> timers]
       /\ next = IF booted THEN {} ELSE {after}
  BY ZenonT(60) DEF Returning
<1>21. /\ failed => rest = << >> /\ phase = "failing"
       /\ ~failed => rest = Tail(op.todo)
       /\ ~failed /\ booted => phase = "created"
       /\ ~failed /\ ~booted => phase = r.phase
  BY DEF Returning
<1>22. left = << >> \/ left = Tail(op.todo)
  BY <1>21
<1>23. left # rest => ~r.open
  OBVIOUS
<1> HIDE DEF left
<1>2. /\ r.table.done \in Seq(Entries) /\ Len(r.table.done) \in Nat /\ r.table \in PlayTables
      /\ \A i \in 1 .. Len(r.table.done) : r.table.done[i].id \in Nat
  BY <1>1, DoneIs
<1>3. op.todo[1] \in Steps /\ Tail(op.todo) \in Seq(Steps) /\ Len(op.todo) \in Nat /\ Len(op.todo) # 0
      /\ Len(Tail(op.todo)) = Len(op.todo) - 1
      /\ \A k \in 1 .. Len(Tail(op.todo)) : Tail(op.todo)[k] = op.todo[k + 1]
  <2> DEFINE todo == op.todo
  <2>1. todo \in Seq(Steps) /\ todo # << >>
    BY <1>0, <1>1
  <2> HIDE DEF todo
  <2>2. Len(todo) \in Nat /\ Len(todo) # 0
    BY <2>1
  <2>3. todo[1] \in Steps
    BY <2>1, <2>2
  <2>4. Tail(todo) \in Seq(Steps) /\ Len(Tail(todo)) = Len(todo) - 1
        /\ \A k \in 1 .. Len(Tail(todo)) : Tail(todo)[k] = todo[k + 1]
    BY <2>1, <2>2
  <2> QED
    BY <2>2, <2>3, <2>4 DEF todo
<1>4. entry \in Entries /\ entry.id = op.id /\ entry.step = op.todo[1] /\ entry.ok = ok
  BY <1>0, <1>1, <1>3 DEF Entries
<1> HIDE DEF entry
<1>5. board.done = Append(r.table.done, entry) /\ board.timers = timers
  BY <1>1, <1>20
<1>6. /\ board.done \in Seq(Entries) /\ Len(board.done) = Len(r.table.done) + 1
      /\ \A i \in 1 .. Len(r.table.done) : board.done[i] = r.table.done[i]
      /\ board.done[Len(r.table.done) + 1] = entry
  BY <1>2, <1>4, <1>5, AppendProperties
<1>7. board \in PlayTables
  BY <1>0, <1>6, <1>20 DEF PlayTables
<1>8. recorded \in Dues
      /\ DOMAIN recorded = (DOMAIN r.due \ (op.base.timers \ timers)) \cup (timers \ op.base.timers)
  <2> DEFINE before == op.base.timers
  <2> HIDE DEF before
  <2>1. /\ Recorded(r, before, timers, delay) \in Dues
        /\ DOMAIN Recorded(r, before, timers, delay) = (DOMAIN r.due \ (before \ timers)) \cup (timers \ before)
    BY <1>0, <1>1, RecordedIs
  <2> QED
    BY <2>1 DEF before
<1> HIDE DEF recorded
<1>9. due \in Dues /\ DOMAIN due = {t \in DOMAIN recorded : rest = << >> \/ rest[1] # Fire(t)}
  BY <1>8, <1>20, StillDueIs
<1>10. /\ phase \in {"failing", "created", "boot", "used"}
       /\ r.phase = "used" => phase = "used" /\ op.id # 0 /\ ~failed
       /\ r.phase = "boot" => op.id = 0 /\ phase \in {"failing", "created", "boot"}
       /\ r.phase \in {"boot", "used"}
       /\ phase \in {"failing", "created"} <=> booted
  <2>1. 1 \in 1 .. Len(op.todo)
    BY <1>3
  <2>2. r.phase = "used" => op.todo[1].is # "setup" /\ op.id # 0
    BY <1>1, <2>1 DEF OperationSound
  <2>3. r.phase \in {"boot", "used"} /\ (op.id = 0 <=> r.phase = "boot")
    BY <1>1 DEF OperationSound
  <2> QED
    BY <1>21, <2>2, <2>3
<1>11. /\ new \in RuntimeRecords /\ new.phase = phase /\ new.open = r.open /\ new.table = board /\ new.due = due
       /\ new.registered = r.registered + n
  <2>1. phase \in {"failing", "created", "boot", "used"} /\ r.registered + n \in Nat
    BY <1>0, <1>1, <1>10
  <2> DEFINE registered == r.registered + n
  <2> HIDE DEF registered
  <2>2. registered \in Nat
    BY <2>1 DEF registered
  <2>3. LET set == [r EXCEPT !.table = board, !.registered = registered, !.due = due, !.phase = phase]
        IN  /\ set \in RuntimeRecords /\ set.phase = phase /\ set.open = r.open /\ set.table = board /\ set.due = due
            /\ set.registered = registered
    BY <1>1, <1>7, <1>9, <2>1, <2>2 DEF RuntimeRecords
  <2> QED
    BY <1>20, <2>3 DEF registered
<1>12. r.open <=> r.phase \in {"boot", "failing", "created"} \/ (r.phase = "used" /\ g = rt)
  BY DEF RuntimeSound
<1>13. /\ << >> \in Seq(Steps) /\ rest \in Seq(Steps) /\ left \in Seq(Steps)
       /\ \A k \in 1 .. Len(left) : k + 1 \in 1 .. Len(op.todo) /\ left[k] = op.todo[k + 1]
  <2>1. << >> \in Seq(Steps) /\ Len(<< >>) = 0
    BY EmptySeq
  <2>2. left = << >> \/ left = Tail(op.todo)
    BY <1>22
  <2>3. rest = << >> \/ rest = Tail(op.todo)
    BY <1>21
  <2>4. << >> \in Seq(Steps) /\ rest \in Seq(Steps) /\ left \in Seq(Steps)
    BY <1>3, <2>1, <2>2, <2>3
  <2>5. ASSUME NEW k \in 1 .. Len(left)
        PROVE  k + 1 \in 1 .. Len(op.todo) /\ left[k] = op.todo[k + 1]
    <3>1. left = Tail(op.todo)
      BY <2>1, <2>2, <2>5
    <3> QED
      BY <1>3, <2>5, <3>1
  <2> QED
    BY <2>4, <2>5
<1>14. ASSUME ~booted
       PROVE  OperationSound(new, after) /\ after.of = op.of /\ after.id = op.id /\ after.todo = left
  <2>1. /\ after \in Operations /\ after.of = op.of /\ after.id = op.id /\ after.todo = left /\ after.base = board
    BY <1>1, <1>7, <1>13 DEF Operations
  <2> HIDE DEF after
  <2>2. phase \in {"boot", "used"} /\ (op.id = 0 <=> phase = "boot")
    BY <1>10, <1>14
  <2>3. phase = "boot" => left # << >>
    BY <1>10, <1>12, <1>14, <1>23, <2>2
  <2>4. phase = "used" => \A k \in 1 .. Len(left) : left[k].is # "setup"
    BY <1>1, <1>10, <1>13 DEF OperationSound
  <2> QED
    BY <1>11, <2>1, <2>2, <2>3, <2>4 DEF OperationSound
<1>15. \A o \in next : o = after /\ OperationSound(new, o) /\ o.of = op.of /\ o.id = op.id /\ o.todo = left
  BY <1>14, <1>20
<1> HIDE DEF after
<1>16. r.open => TimersSound(new, next)
  <2> SUFFICES ASSUME r.open PROVE TimersSound(new, next)
    OBVIOUS
  <2>1. TimersSound(r, {op}) /\ r.table.timers = op.base.timers
    BY <1>1 DEF RuntimeSound
  <2>2. DOMAIN recorded \subseteq timers
    BY <1>8, <2>1 DEF TimersSound
  <2>3. DOMAIN due \subseteq timers
    BY <1>9, <2>2
  <2>4. timers \subseteq 1 .. (r.registered + n)
    <3> SUFFICES ASSUME NEW t \in timers PROVE t \in 1 .. (r.registered + n)
      OBVIOUS
    <3>1. CASE t \in op.base.timers
      BY <1>0, <1>1, <2>1, <3>1 DEF TimersSound
    <3>2. CASE t \notin op.base.timers
      BY <1>0, <1>1, <1>20, <3>2, SMTT(40)
    <3> QED
      BY <3>1, <3>2
  <2>5. ASSUME NEW t \in timers \ DOMAIN due
        PROVE  \/ \E i \in 1 .. Len(board.done) : board.done[i].step = Fire(t) /\ ~board.done[i].ok
               \/ \E o \in next : o.todo # << >> /\ o.todo[1] = Fire(t)
    <3>1. CASE t \in DOMAIN recorded
      <4>1. rest # << >> /\ rest[1] = Fire(t)
        BY <1>9, <2>5, <3>1
      <4>2. left = rest /\ ~booted
        BY <1>23, <4>1
      <4>3. next = {after} /\ after \in next
        BY <1>20, <4>2
      <4> QED
        BY <1>15, <4>1, <4>2, <4>3
    <3>2. CASE t \notin DOMAIN recorded
      <4>1. t \in op.base.timers /\ t \notin DOMAIN r.due
        BY <1>8, <2>5, <3>2
      <4>2. \/ \E i \in 1 .. Len(r.table.done) : r.table.done[i].step = Fire(t) /\ ~r.table.done[i].ok
            \/ op.todo[1] = Fire(t)
        BY <2>1, <4>1 DEF TimersSound
      <4>3. CASE \E i \in 1 .. Len(r.table.done) : r.table.done[i].step = Fire(t) /\ ~r.table.done[i].ok
        <5>1. PICK i \in 1 .. Len(r.table.done) : r.table.done[i].step = Fire(t) /\ ~r.table.done[i].ok
          BY <4>3
        <5>2. i \in 1 .. Len(board.done) /\ board.done[i] = r.table.done[i]
          BY <1>2, <1>6
        <5> QED
          BY <5>1, <5>2
      <4>4. CASE op.todo[1] = Fire(t)
        <5>1. op.todo[1].timer = t
          BY <4>4 DEF Fire
        <5>2. ~ok
          BY <1>0, <1>20, <2>5, <4>1, <5>1
        <5>3. Len(r.table.done) + 1 \in 1 .. Len(board.done)
          BY <1>2, <1>6
        <5> QED
          BY <1>4, <1>6, <4>4, <5>2, <5>3
      <4> QED
        BY <4>2, <4>3, <4>4
    <3> QED
      BY <3>1, <3>2
  <2> QED
    BY <1>5, <1>11, <2>3, <2>4, <2>5 DEF TimersSound
<1>17. r.open => OrderSound(new, next)
  <2> SUFFICES ASSUME r.open PROVE OrderSound(new, next)
    OBVIOUS
  <2>1. OrderSound(r, {op})
    BY DEF RuntimeSound
  <2>2. \A i \in 1 .. Len(board.done) : i \in 1 .. Len(r.table.done) \/ i = Len(r.table.done) + 1
    BY <1>2, <1>6
  <2>3. \A i \in 1 .. Len(board.done) : board.done[i].id <= op.id
    <3> SUFFICES ASSUME NEW i \in 1 .. Len(board.done) PROVE board.done[i].id <= op.id
      OBVIOUS
    <3>1. CASE i \in 1 .. Len(r.table.done)
      BY <1>6, <2>1, <3>1 DEF OrderSound
    <3>2. CASE i = Len(r.table.done) + 1
      BY <1>1, <1>4, <1>6, <3>2
    <3> QED
      BY <2>2, <3>1, <3>2
  <2>4. \A i, j \in 1 .. Len(board.done) : i < j => board.done[i].id <= board.done[j].id
    <3> SUFFICES ASSUME NEW i \in 1 .. Len(board.done), NEW j \in 1 .. Len(board.done), i < j
                 PROVE  board.done[i].id <= board.done[j].id
      OBVIOUS
    <3>1. i \in 1 .. Len(r.table.done)
      BY <1>2, <1>6
    <3>2. CASE j \in 1 .. Len(r.table.done)
      BY <1>6, <2>1, <3>1, <3>2 DEF OrderSound
    <3>3. CASE j = Len(r.table.done) + 1
      BY <1>4, <1>6, <2>3, <3>3
    <3> QED
      BY <2>2, <3>2, <3>3
  <2>5. phase # "used" => \A i \in 1 .. Len(board.done) : board.done[i].id = 0
    <3> SUFFICES ASSUME phase # "used", NEW i \in 1 .. Len(board.done) PROVE board.done[i].id = 0
      OBVIOUS
    <3>1. r.phase # "used" /\ op.id = 0
      BY <1>10
    <3>2. CASE i \in 1 .. Len(r.table.done)
      BY <1>6, <2>1, <3>1, <3>2 DEF OrderSound
    <3>3. CASE i = Len(r.table.done) + 1
      BY <1>4, <1>6, <3>1, <3>3
    <3> QED
      BY <2>2, <3>2, <3>3
  <2> QED
    BY <1>11, <1>15, <2>3, <2>4, <2>5 DEF OrderSound
<1>18. RuntimeSound(g, new, next, rt, gen)
  <2>1. \A a, b \in next : a = b
    BY <1>15
  <2>2. phase \notin {"none", "sandbox"}
    BY <1>10
  <2>3. ~(g > gen)
    BY <1>10 DEF RuntimeSound
  <2>4. new.open <=> phase \in {"boot", "failing", "created"} \/ (phase = "used" /\ g = rt)
    BY <1>10, <1>11, <1>12
  <2> QED
    BY <1>11, <1>15, <1>16, <1>17, <2>1, <2>2, <2>3, <2>4 DEF RuntimeSound
<1>24. /\ r.phase = "used" => phase = "used"
       /\ r.phase = "boot" => phase \in {"failing", "created", "boot"}
       /\ r.phase \in {"boot", "used"}
       /\ \A o \in next : o.of = op.of /\ o.id = op.id
       /\ op.id # 0 => next # {}
  BY <1>10, <1>15, <1>20
<1> QED
  BY <1>11, <1>18, <1>24, SMTT(40)

\* What an action leaves of the timers: at most one is new, and what was fired is gone.
LEMMA TimersAfterAre ==
  ASSUME PlaytestAssumption, NEW r \in RuntimeRecords, NEW op \in Operations, op.base = r.table,
         r.open => r.table.timers \subseteq 1 .. r.registered,
         NEW timers \in TimersAfter(r, op)
  PROVE  /\ timers \in SUBSET (1 .. MaxTimers)
         /\ Cardinality(timers \ op.base.timers) \in Nat
         /\ \/ timers \ op.base.timers = {}
            \/ timers \ op.base.timers = {r.registered + 1} /\ Cardinality(timers \ op.base.timers) = 1
         /\ r.open => op.todo[1].timer \notin timers \cap op.base.timers
<1> DEFINE base == op.base.timers
           left == base \ {op.todo[1].timer}
<1>1. base \subseteq 1 .. MaxTimers
  BY DEF RuntimeRecords, PlayTables
<1>2. \/ timers = left
      \/ \E t \in left : timers = left \ {t}
      \/ \E t \in {r.registered + 1} \cap (1 .. MaxTimers) : timers = left \cup {t}
  BY DEF TimersAfter
<1>3. Cardinality({}) = 0 /\ Cardinality({r.registered + 1}) = 1
  BY FS_EmptySet, FS_Singleton
<1> HIDE DEF base
<1>4. CASE timers \subseteq left
  <2>1. timers \ base = {}
    BY <1>4
  <2>2. Cardinality(timers \ base) = 0
    BY <1>3, <2>1
  <2>3. timers \in SUBSET (1 .. MaxTimers) /\ op.todo[1].timer \notin timers \cap base
    BY <1>1, <1>4
  <2> QED
    BY <2>1, <2>2, <2>3 DEF base
<1>5. CASE timers = left \cup {r.registered + 1} /\ r.registered + 1 \in 1 .. MaxTimers
  <2>1. timers \ base = {} \/ timers \ base = {r.registered + 1}
    BY <1>5
  <2>2. timers \in SUBSET (1 .. MaxTimers)
    BY <1>1, <1>5
  <2>3. ASSUME r.open PROVE op.todo[1].timer \notin timers \cap base
    <3>1. op.todo[1].timer \in base => op.todo[1].timer \in 1 .. r.registered
      BY <2>3 DEF base
    <3>2. op.todo[1].timer \in timers /\ op.todo[1].timer \in base => op.todo[1].timer = r.registered + 1
      BY <1>5
    <3>3. r.registered \in Nat
      BY DEF RuntimeRecords
    <3> QED
      BY <3>1, <3>2, <3>3
  <2>4. CASE timers \ base = {}
    <3>1. Cardinality(timers \ base) = 0
      BY <1>3, <2>4
    <3> QED
      BY <2>2, <2>3, <2>4, <3>1 DEF base
  <2>5. CASE timers \ base = {r.registered + 1}
    <3>1. Cardinality(timers \ base) = 1
      BY <1>3, <2>5
    <3> QED
      BY <2>2, <2>3, <2>5, <3>1 DEF base
  <2> QED
    BY <2>1, <2>4, <2>5
<1> QED
  BY <1>2, <1>4, <1>5

\* What returns is logged if it is from the last generation.
LEMMA ReturnIsLogged ==
  ASSUME PlayInv, PlaytestAssumption, NEW op \in running, status' = status, generation' = generation,
         logs' = Log(op.of, "applied", op.id),
         \A h \in Generations \ {op.of} : runtimes'[h] = runtimes[h],
         NEW entry, entry.id = op.id, runtimes'[op.of].table.done = Append(runtimes[op.of].table.done, entry)
  PROVE  LogsSound'
<1> DEFINE g == generation
           done == runtimes[g].table.done
           logged == [of |-> op.of, is |-> "applied", id |-> op.id]
<1> SUFFICES ASSUME status # "stopped", NEW e \in logs'
             PROVE  /\ e.of = g
                    /\ e.is = "applied" =>
                         \E i \in 1 .. Len(runtimes'[g].table.done) : runtimes'[g].table.done[i].id = e.id
  BY DEF LogsSound
<1>1. /\ g \in Generations /\ done \in Seq(Entries) /\ Len(done) \in Nat
  <2>1. g \in Generations
    BY DEF PlayInv, ControlSound, Generations, PlaytestAssumption
  <2>2. runtimes[g] \in RuntimeRecords
    BY <2>1 DEF PlayInv, RuntimesSound
  <2> QED
    BY <2>1, <2>2, DoneIs
<1>2. logged.of = op.of /\ logged.id = op.id
  OBVIOUS
<1>3. op.of \in Generations
  BY OfOperation
<1>4. e \in logs \/ (op.of = g /\ e = logged)
  BY DEF Log
<1> HIDE DEF logged
<1>5. CASE op.of # g
  BY <1>1, <1>3, <1>4, <1>5 DEF PlayInv, LogsSound
<1>6. CASE op.of = g
  <2>1. runtimes'[g].table.done = Append(done, entry)
    BY <1>6
  <2>2. /\ Len(Append(done, entry)) = Len(done) + 1 /\ Append(done, entry)[Len(done) + 1] = entry
        /\ \A i \in 1 .. Len(done) : Append(done, entry)[i] = done[i]
    BY <1>1
  <2>3. CASE e \in logs
    <3>1. e.of = g /\ (e.is = "applied" => \E i \in 1 .. Len(done) : done[i].id = e.id)
      BY <2>3 DEF PlayInv, LogsSound
    <3> HIDE DEF done
    <3>2. \A i \in 1 .. Len(done) : i \in 1 .. Len(Append(done, entry)) /\ Append(done, entry)[i].id = done[i].id
      BY <1>1, <2>2 DEF done
    <3> QED
      BY <2>1, <3>1, <3>2
  <2>4. CASE e = logged
    <3>1. Len(done) + 1 \in 1 .. Len(Append(done, entry))
      BY <1>1, <2>2
    <3> QED
      BY <1>2, <1>6, <2>1, <2>2, <2>4, <3>1, SMTT(40)
  <2> QED
    BY <1>4, <2>3, <2>4
<1> QED
  BY <1>5, <1>6

LEMMA ReturnedKeeps ==
  ASSUME PlayInv, PlaytestAssumption, NEW op \in running,
         UNCHANGED <<generation, status, runtime, shown, task, asked>>,
         NEW ok, NEW timers, NEW delay, NEW n, NEW board, NEW due, NEW rest, NEW phase, NEW new, NEW next,
         Returning(runtimes[op.of], op, ok, timers, delay, n, board, due, rest, phase, new, next),
         NEW entry, entry.id = op.id, board.done = Append(op.base.done, entry),
         running' = (running \ {op}) \cup next, runtimes' = [runtimes EXCEPT ![op.of] = new],
         logs' = Log(op.of, "applied", op.id)
  PROVE  PlayInv'
<1> DEFINE g == op.of
           r == runtimes[g]
<1>1. /\ g \in Generations /\ OpsOf(running, g) = {op} /\ r \in RuntimeRecords /\ op.base = r.table
      /\ RuntimeSound(g, r, {op}, runtime, generation) /\ op.id \in Nat
  BY OfOperation DEF OperationSound, Operations
<1>2. /\ running' = (running \ {op}) \cup next /\ logs' = Log(g, "applied", op.id)
  OBVIOUS
<1>3. runtimes' = [runtimes EXCEPT ![g] = new]
  OBVIOUS
<1>4. /\ RuntimeSound(g, new, next, runtime, generation) /\ new.table = board /\ new.phase = phase
      /\ r.phase = "used" => phase = "used"
      /\ r.phase = "boot" => phase \in {"failing", "created", "boot"}
      /\ r.phase \in {"boot", "used"}
      /\ \A o \in next : o.of = g /\ o.id = op.id
      /\ op.id # 0 => next # {}
  BY <1>1, ReturnsSound
<1>5. new.table = board /\ new.phase = phase
  BY <1>4
<1>6. board.done = Append(r.table.done, entry) /\ entry.id = op.id
  BY <1>1
<1>7. /\ RuntimeSound(g, new, next, runtime, generation)
      /\ r.phase = "used" => phase = "used"
      /\ r.phase = "boot" => phase \in {"failing", "created", "boot"}
      /\ r.phase \in {"boot", "used"}
      /\ \A o \in next : o.of = g /\ o.id = op.id
  BY <1>4
<1>8. /\ OpsOf(running', g) = next
      /\ \A h \in Generations \ {g} : OpsOf(running', h) = OpsOf(running, h)
      /\ \A o \in running' : o.of \in Generations
  BY <1>1, <1>2, <1>7 DEF OpsOf, PlayInv, RuntimesSound
<1>9. generation \in Int /\ generation <= generation
  BY DEF PlayInv, ControlSound
<1>10. RuntimesSound' /\ runtimes'[g] = new /\ \A h \in Generations \ {g} : runtimes'[h] = runtimes[h]
  <2>1. RuntimeSound(g, new, OpsOf(running', g), runtime', generation')
    BY <1>7, <1>8
  <2>2. \A h \in Generations \ {g} : h = runtime <=> h = runtime'
    BY SMTT(40)
  <2> QED
    BY <1>1, <1>3, <1>8, <1>9, <2>1, <2>2, OneRuntime DEF PlayInv
<1>11. LogsSound'
  BY <1>2, <1>5, <1>6, <1>10, ReturnIsLogged
<1>12. CASE g # runtime
  <2>1. RuntimeSound(g, new, OpsOf(running', g), runtime, generation)
    BY <1>7, <1>8
  <2>2. new.phase \in {"sandbox", "boot", "failing", "created"}
          <=> runtimes[g].phase \in {"sandbox", "boot", "failing", "created"}
    BY <1>5, <1>7
  <2> QED
    BY <1>1, <1>3, <1>8, <1>11, <1>12, <2>1, <2>2, LeavesPlayed
<1>13. CASE g = runtime
  <2>1. /\ runtime # 0 /\ r.phase = "used" /\ generation = g /\ status = "playing"
        /\ ShownSound(r, {op}) /\ TaskSound(r, {op})
    <3>1. runtime # 0
      BY <1>1, <1>13 DEF Generations
    <3>2. /\ runtime = generation /\ runtimes[runtime].phase = "used" /\ status = "playing"
          /\ ShownSound(runtimes[runtime], OpsOf(running, runtime))
          /\ TaskSound(runtimes[runtime], OpsOf(running, runtime))
      BY <3>1, Played
    <3>3. OpsOf(running, runtime) = {op} /\ r = runtimes[runtime]
      BY <1>1, <1>13
    <3> QED
      BY <1>13, <3>1, <3>2, <3>3
  <2>2. runtimes'[runtime'] = new /\ OpsOf(running', runtime') = next /\ new.phase = "used"
    BY <1>5, <1>7, <1>8, <1>10, <1>13, <2>1
  <2>3. ControlSound'
    BY <2>1, <2>2 DEF PlayInv, ControlSound
  <2> DEFINE done == r.table.done
  <2>4. done \in Seq(Entries) /\ Len(done) \in Nat /\ \A i \in 1 .. Len(done) : done[i].id \in Nat
    BY <1>1, DoneIs
  <2> HIDE DEF done
  <2>5. new.table.done = Append(done, entry)
    BY <1>5, <1>6 DEF done
  <2>6. /\ Len(Append(done, entry)) = Len(done) + 1 /\ Append(done, entry)[Len(done) + 1] = entry
        /\ \A i \in 1 .. Len(done) : Append(done, entry)[i] = done[i]
        /\ \A i \in 1 .. Len(Append(done, entry)) : i \in 1 .. Len(done) \/ i = Len(done) + 1
    BY <2>4
  <2>7. IsPrefix(shown.done, done) /\ \A i \in 1 .. Len(done) : done[i].id = op.id <=> i > Len(shown.done)
    BY <2>1 DEF ShownSound, done
  <2>8. shown.done \in Seq(Entries) /\ Len(shown.done) \in Nat
    <3>1. shown.done \in Seq(Entries)
      BY DEF PlayInv, ControlSound, PlayTables
    <3> QED
      BY <3>1, LenProperties
  <2>9. IsPrefix(shown.done, Append(done, entry)) /\ Len(shown.done) <= Len(done)
    <3>1. Len(shown.done) <= Len(done) /\ \A i \in 1 .. Len(shown.done) : shown.done[i] = done[i]
      BY <2>4, <2>7, <2>8 DEF IsPrefix
    <3>2. Append(done, entry) \in Seq(Entries \cup {entry})
      BY <2>4
    <3> QED
      BY <2>4, <2>6, <2>8, <3>1, <3>2 DEF IsPrefix
  <2>10. \A i \in 1 .. Len(Append(done, entry)) : Append(done, entry)[i].id = op.id <=> i > Len(shown.done)
    <3> SUFFICES ASSUME NEW i \in 1 .. Len(Append(done, entry))
                 PROVE  Append(done, entry)[i].id = op.id <=> i > Len(shown.done)
      OBVIOUS
    <3>1. CASE i \in 1 .. Len(done)
      BY <2>6, <2>7, <3>1
    <3>2. CASE i = Len(done) + 1
      BY <1>6, <2>4, <2>6, <2>8, <2>9, <3>2
    <3> QED
      BY <2>6, <3>1, <3>2
  <2>11. ShownSound(runtimes[runtime], OpsOf(running, runtime))'
    <3>1. \A o \in next : o.id = op.id
      BY <1>7
    <3>2. next # {}
      <4>1. op.id # 0
        BY <1>1, <2>1 DEF RuntimeSound, OperationSound
      <4> QED
        BY <1>4, <4>1
    <3> QED
      BY <2>2, <2>5, <2>9, <2>10, <3>1, <3>2 DEF ShownSound
  <2>12. TaskSound(runtimes[runtime], OpsOf(running, runtime))'
    <3>1. /\ \A k \in 1 .. Len(task) :
               /\ task[k].id > 0 /\ task[k].id <= asked
               /\ \A i \in 1 .. Len(done) : done[i].id < task[k].id
               /\ op.id < task[k].id
          /\ \A k, l \in 1 .. Len(task) : k < l => task[k].id < task[l].id
          /\ \A i \in 1 .. Len(done) : done[i].id <= asked
          /\ op.id <= asked
      BY <2>1 DEF TaskSound, done
    <3>2. \A k \in 1 .. Len(task) : \A i \in 1 .. Len(Append(done, entry)) : Append(done, entry)[i].id < task[k].id
      BY <1>6, <2>6, <3>1
    <3>3. \A i \in 1 .. Len(Append(done, entry)) : Append(done, entry)[i].id <= asked
      BY <1>6, <2>6, <3>1
    <3>4. \A o \in next : o.id = op.id
      BY <1>7
    <3> QED
      BY <2>2, <2>5, <3>1, <3>2, <3>3, <3>4 DEF TaskSound
  <2> QED
    BY <1>10, <1>11, <2>3, <2>11, <2>12 DEF PlayInv
<1> QED
  BY <1>12, <1>13

LEMMA ReturnKeeps ==
  ASSUME PlayInv, PlaytestAssumption, NEW op \in running, op.todo # << >>,
         UNCHANGED <<generation, status, runtime, shown, task, asked>>,
         NEW ok \in BOOLEAN, NEW timers \in SUBSET (1 .. MaxTimers), NEW delay \in Nat,
         ScriptReturns(op, ok, timers, delay),
         Cardinality(timers \ op.base.timers) \in Nat,
         \/ timers \ op.base.timers = {}
         \/ timers \ op.base.timers = {runtimes[op.of].registered + 1} /\ Cardinality(timers \ op.base.timers) = 1,
         ~ok => timers = op.base.timers,
         ok /\ runtimes[op.of].open => op.todo[1].timer \notin timers \cap op.base.timers
  PROVE  PlayInv'
<1> DEFINE g == op.of
           r == runtimes[g]
           n == Cardinality(timers \ op.base.timers)
           entry == [id |-> op.id, step |-> op.todo[1], ok |-> ok]
           board == [done |-> Append(op.base.done, entry), timers |-> timers]
           failed == op.todo[1].is = "setup" /\ ~ok
           rest == IF failed THEN << >> ELSE Tail(op.todo)
           thrown == rest # << >> /\ ~r.open
           booted == op.id = 0 /\ rest = << >>
           phase == IF failed THEN "failing" ELSE IF booted THEN "created" ELSE r.phase
           next == IF booted THEN {} ELSE {[op EXCEPT !.todo = IF thrown THEN << >> ELSE rest, !.base = board]}
           due == StillDue(Recorded(r, op.base.timers, timers, delay), rest)
           new == [r EXCEPT !.table = board, !.registered = r.registered + n, !.due = due, !.phase = phase]
<1>1. g \in Generations /\ r \in RuntimeRecords /\ op.base = r.table
  BY OfOperation, ZenonT(60) DEF OperationSound
<1>2. running' = (running \ {op}) \cup next /\ logs' = Log(g, "applied", op.id)
  BY DEF ScriptReturns
<1>3. runtimes' = [runtimes EXCEPT ![g] = new]
  BY <1>1 DEF ScriptReturns, PlayInv, RuntimesSound
<1>4. Returning(r, op, ok, timers, delay, n, board, due, rest, phase, new, next)
  BY DEF Returning
<1>5. board.done = Append(op.base.done, entry) /\ entry.id = op.id
  OBVIOUS
<1> HIDE DEF n, new, entry, board, due, failed, rest, thrown, booted, phase, next
<1> QED
  BY <1>2, <1>3, <1>4, <1>5, ReturnedKeeps

LEMMA PerformKeeps == ASSUME PlayInv, PlaytestAssumption, NEW op \in running, Perform(op) PROVE PlayInv'
<1> DEFINE r == runtimes[op.of]
<1>1. /\ op.todo # << >> /\ UNCHANGED <<generation, status, runtime, shown, task, asked>>
      /\ r \in RuntimeRecords /\ op \in Operations /\ op.base = r.table
      /\ r.open => r.table.timers \subseteq 1 .. r.registered
  <2>1. /\ OperationSound(r, op) /\ RuntimeSound(op.of, r, {op}, runtime, generation) /\ r \in RuntimeRecords
    BY OfOperation
  <2>2. r.open => TimersSound(r, {op})
    BY <2>1 DEF RuntimeSound
  <2> QED
    BY <2>1, <2>2 DEF OperationSound, TimersSound, Perform
<1>2. CASE ScriptReturns(op, FALSE, op.base.timers, 0)
  <2>1. op.base.timers \in SUBSET (1 .. MaxTimers)
    BY <1>1 DEF RuntimeRecords, PlayTables
  <2>2. op.base.timers \ op.base.timers = {} /\ Cardinality(op.base.timers \ op.base.timers) \in Nat
    BY FS_EmptySet
  <2> QED
    BY <1>1, <1>2, <2>1, <2>2, ReturnKeeps
<1>3. CASE \E timers \in TimersAfter(r, op), delay \in 1 .. 2 : ScriptReturns(op, TRUE, timers, delay)
  <2>1. PICK timers \in TimersAfter(r, op), delay \in 1 .. 2 : ScriptReturns(op, TRUE, timers, delay)
    BY <1>3
  <2>2. delay \in Nat
    OBVIOUS
  <2>3. /\ timers \in SUBSET (1 .. MaxTimers)
        /\ Cardinality(timers \ op.base.timers) \in Nat
        /\ \/ timers \ op.base.timers = {}
           \/ timers \ op.base.timers = {r.registered + 1} /\ Cardinality(timers \ op.base.timers) = 1
        /\ r.open => op.todo[1].timer \notin timers \cap op.base.timers
    BY <1>1, TimersAfterAre
  <2> QED
    BY <1>1, <2>1, <2>2, <2>3, ReturnKeeps
<1> QED
  BY <1>2, <1>3 DEF Perform

LEMMA FinishKeeps == ASSUME PlayInv, PlaytestAssumption, NEW op \in running, FinishOperation(op) PROVE PlayInv'
<1> DEFINE g == op.of
           r == runtimes[g]
<1>1. /\ op.todo = << >> /\ running' = running \ {op}
      /\ UNCHANGED <<generation, status, runtime, logs, task, asked>>
  BY DEF FinishOperation
<1>2. /\ g \in Generations /\ OpsOf(running, g) = {op} /\ OperationSound(r, op) /\ r \in RuntimeRecords
      /\ RuntimeSound(g, r, {op}, runtime, generation)
  BY OfOperation
<1>3. r.phase = "used"
  BY <1>1, <1>2 DEF OperationSound
<1>4. /\ OpsOf(running', g) = {}
      /\ \A h \in Generations \ {g} : OpsOf(running', h) = OpsOf(running, h)
      /\ \A o \in running' : o.of \in Generations
  BY <1>1, <1>2 DEF OpsOf, PlayInv, RuntimesSound
<1>5. g <= generation /\ generation \in Int /\ generation <= generation
  BY <1>2, <1>3, WasStarted
<1>6. CASE g # runtime
  <2>1. runtimes' = [runtimes EXCEPT ![g] = Forgotten] /\ UNCHANGED shown
    BY <1>6 DEF FinishOperation
  <2>2. RuntimeSound(g, Forgotten, OpsOf(running', g), runtime, generation)
    BY <1>2, <1>4, <1>5, NoneOpen
  <2>3. status # "stopped" => g # generation
    BY <1>3, <1>6 DEF PlayInv, ControlSound
  <2>4. status # "stopped" => runtimes'[generation].table = runtimes[generation].table
    <3>1. generation # 0 => generation \in Generations
      BY DEF PlayInv, ControlSound, Generations, PlaytestAssumption
    <3>2. status # "stopped" => generation # 0
      BY DEF PlayInv, ControlSound
    <3> QED
      BY <2>1, <2>3, <3>1, <3>2 DEF PlayInv, RuntimesSound
  <2>5. LogsSound'
    BY <1>1, <2>4 DEF PlayInv, LogsSound
  <2>6. Forgotten.phase \in {"sandbox", "boot", "failing", "created"}
          <=> runtimes[g].phase \in {"sandbox", "boot", "failing", "created"}
    BY <1>3, NoRuntimes
  <2> QED
    BY <1>1, <1>2, <1>4, <1>6, <2>1, <2>2, <2>5, <2>6, LeavesPlayed
<1>7. CASE g = runtime
  <2>1. shown' = r.table /\ UNCHANGED runtimes
    BY <1>7 DEF FinishOperation
  <2>2. runtime # 0 /\ status = "playing" /\ TaskSound(r, {op})
    <3>1. runtime # 0
      BY <1>2, <1>7 DEF Generations
    <3> QED
      BY <1>2, <1>7, <3>1, Played
  <2>3. RuntimeSound(g, r, {}, runtime, generation)
    <3>1. r.open => TimersSound(r, {})
      BY <1>1, <1>2 DEF RuntimeSound, TimersSound
    <3>2. r.open => OrderSound(r, {})
      BY <1>2 DEF RuntimeSound, OrderSound
    <3> QED
      BY <1>2, <3>1, <3>2, SMTT(40) DEF RuntimeSound
  <2>4. RuntimesSound'
    <3> SUFFICES ASSUME NEW h \in Generations
                 PROVE  RuntimeSound(h, runtimes[h], OpsOf(running', h), runtime, generation)
      BY <1>1, <1>4, <2>1 DEF PlayInv, RuntimesSound
    <3>1. CASE h = g
      BY <1>4, <2>3, <3>1
    <3>2. CASE h # g
      BY <1>4, <3>2 DEF PlayInv, RuntimesSound
    <3> QED
      BY <3>1, <3>2
  <2>5. r.table \in PlayTables
    BY <1>2, DoneIs
  <2>6. ControlSound'
    BY <1>1, <2>1, <2>2, <2>5 DEF PlayInv, ControlSound
  <2>7. LogsSound'
    BY <1>1, <2>1 DEF PlayInv, LogsSound
  <2>8. runtimes'[runtime'] = r /\ OpsOf(running', runtime') = {}
    BY <1>1, <1>4, <1>7, <2>1
  <2>9. ShownSound(runtimes[runtime], OpsOf(running, runtime))'
    BY <2>1, <2>8 DEF ShownSound
  <2>10. TaskSound(runtimes[runtime], OpsOf(running, runtime))'
    BY <1>1, <2>2, <2>8 DEF TaskSound
  <2> QED
    BY <2>4, <2>6, <2>7, <2>9, <2>10 DEF PlayInv
<1> QED
  BY <1>6, <1>7

LEMMA StepKeepsPlaytests == PlaytestAssumption /\ PlayInv /\ [PlaytestNext]_playtestVars => PlayInv'
<1> SUFFICES ASSUME PlaytestAssumption, PlayInv, [PlaytestNext]_playtestVars PROVE PlayInv'
  OBVIOUS
<1>1. CASE UNCHANGED playtestVars
  <2>1. UNCHANGED <<generation, status, runtime, shown, logs, task, asked, runtimes, running>>
    BY <1>1 DEF playtestVars
  <2>2. RuntimesSound'
    BY <2>1 DEF PlayInv, RuntimesSound
  <2>3. ControlSound' /\ LogsSound'
    BY <2>1 DEF PlayInv, ControlSound, LogsSound
  <2>4. runtime' # 0 => ShownSound(runtimes[runtime], OpsOf(running, runtime))'
    BY <2>1 DEF PlayInv, ShownSound
  <2>5. runtime' # 0 => TaskSound(runtimes[runtime], OpsOf(running, runtime))'
    BY <2>1 DEF PlayInv, TaskSound
  <2> QED
    BY <2>2, <2>3, <2>4, <2>5 DEF PlayInv
<1>2. CASE Start
  BY <1>2, StartKeeps
<1>3. CASE Stop
  BY <1>3, StopKeeps
<1>4. CASE Run
  BY <1>4, RunKeeps
<1>5. ASSUME NEW kind \in {"action", "tick"}, Ask(kind) PROVE PlayInv'
  BY <1>5, AskKeeps
<1>6. ASSUME NEW g \in Generations, SandboxCreated(g) \/ CreateFails(g) \/ Created(g) PROVE PlayInv'
  BY <1>6, SandboxKeeps, CreateFailsKeeps, CreatedKeeps
<1>7. ASSUME NEW op \in running, Perform(op) \/ FinishOperation(op) PROVE PlayInv'
  BY <1>7, PerformKeeps, FinishKeeps
<1> QED
  BY <1>1, <1>2, <1>3, <1>4, <1>5, <1>6, <1>7 DEF PlaytestNext

LEMMA IsolatedByInv == PlaytestAssumption /\ PlayInv => PlaytestIsolated
<1> SUFFICES ASSUME PlaytestAssumption, PlayInv PROVE PlaytestIsolated
  OBVIOUS
<1> DEFINE r == runtimes[runtime]
           under == {op \in running : op.of = runtime}
           done == r.table.done
<1>1. /\ (status = "playing") = (runtime # 0)
      /\ runtime \in {0, generation}
      /\ status = "starting" => shown = Release
  BY DEF PlayInv, ControlSound
<1>2. status # "stopped" => \A entry \in logs : entry.of = generation
  BY DEF PlayInv, LogsSound
<1>3. \A g \in Generations : runtimes[g].open =>
        g = runtime \/ runtimes[g].phase \in {"boot", "failing", "created"}
  BY DEF PlayInv, RuntimesSound, RuntimeSound
<1>4. ASSUME runtime # 0
      PROVE  /\ under = {} => shown = r.table
             /\ \A op \in under :
                  /\ IsPrefix(shown.done, done)
                  /\ \A i \in DOMAIN done : done[i].id = op.id <=> i > Len(shown.done)
             /\ \A entry \in logs : entry.is = "applied" => \E i \in DOMAIN done : done[i].id = entry.id
             /\ \A i, j \in DOMAIN done : i < j => done[i].id <= done[j].id
             /\ DOMAIN r.due \subseteq r.table.timers
             /\ \A t \in r.table.timers \ DOMAIN r.due :
                  \/ \E i \in DOMAIN done : done[i].step = Fire(t) /\ ~done[i].ok
                  \/ \E op \in under : op.todo # << >> /\ op.todo[1] = Fire(t)
  <2>1. /\ runtime = generation /\ status = "playing" /\ r \in RuntimeRecords
        /\ TimersSound(r, under) /\ OrderSound(r, under) /\ ShownSound(r, under)
    BY <1>4, Played DEF OpsOf
  <2>2. done \in Seq(Entries)
    BY <2>1, DoneIs
  <2>3. DOMAIN done = 1 .. Len(done)
    BY <2>2
  <2> HIDE DEF under, r
  <2>4. /\ under = {} => shown = r.table
        /\ \A op \in under :
             /\ IsPrefix(shown.done, done)
             /\ \A i \in DOMAIN done : done[i].id = op.id <=> i > Len(shown.done)
    BY <2>1, <2>3 DEF ShownSound
  <2>5. \A entry \in logs : entry.is = "applied" => \E i \in DOMAIN done : done[i].id = entry.id
    BY <2>1, <2>3 DEF PlayInv, LogsSound, r
  <2>6. \A i, j \in DOMAIN done : i < j => done[i].id <= done[j].id
    BY <2>1, <2>3 DEF OrderSound
  <2>7. /\ DOMAIN r.due \subseteq r.table.timers
        /\ \A t \in r.table.timers \ DOMAIN r.due :
             \/ \E i \in DOMAIN done : done[i].step = Fire(t) /\ ~done[i].ok
             \/ \E op \in under : op.todo # << >> /\ op.todo[1] = Fire(t)
    BY <2>1, <2>3 DEF TimersSound
  <2> QED
    BY <2>4, <2>5, <2>6, <2>7
<1> HIDE DEF under, r, done
<1> QED
  BY <1>1, <1>2, <1>3, <1>4 DEF PlaytestIsolated, under, r, done

\* PlaytestIsolated holds of every playtest, however many are started and stopped: what
\* one does reaches no other, only whole operations are shown, and no timer is forgotten
\* (PlaytestController and PlaytestRuntime).
THEOREM PlaytestsAlwaysIsolated == PlaytestSpec => []PlaytestIsolated
<1>1. PlaytestInit => PlayInv
  BY PlaytestAssumption, InitPlaytests
<1>2. PlayInv /\ [PlaytestNext]_playtestVars => PlayInv'
  BY PlaytestAssumption, StepKeepsPlaytests
<1>3. PlayInv => PlaytestIsolated
  BY PlaytestAssumption, IsolatedByInv
<1> QED
  BY <1>1, <1>2, <1>3, PTL DEF PlaytestSpec
=============================================================================
