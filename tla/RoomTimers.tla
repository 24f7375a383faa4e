----------------------------- MODULE RoomTimers -----------------------------
(***************************************************************************)
(* Canonical timers of a room: the canonical_timers rows of RoomDO, the    *)
(* pause of a resumed room whose saved seats are not all claimed, and the  *)
(* one alarm that fires them (apps/worker/src/index.ts, room-liveness.ts). *)
(*                                                                         *)
(* The alarm is shared with the room's heartbeat and expiry (RoomPresence),*)
(* so it may also come when no timer asked for it, and it may come late;   *)
(* variable alarm holds the part of it that timers ask for.                *)
(***************************************************************************)
EXTENDS Integers

CONSTANTS
  Timers,      \* timer ids; the kernel never uses one twice
  Delays,      \* delays clients report, saved timers included
  Grace,       \* TIMER_CANCEL_GRACE_MS
  MaxWaiting,  \* bound: most saved seats unclaimed when the room starts
  MaxTime,     \* bound: the clock
  NoTime       \* null

ASSUME TimersAssumption ==
  /\ Delays \subseteq Nat \ {0} /\ Grace \in Nat \ {0}
  /\ MaxWaiting \in Nat /\ MaxTime \in Nat /\ NoTime \notin Int

VARIABLES
  now,         \* Date.now()
  started,     \* room.started
  waiting,     \* saved seats nobody has claimed
  pausedAt,    \* room.resume_pending_since
  lastActionAt, \* room.last_action_at
  status,      \* canonical_timers.status, "unknown" for no row
  due,         \* canonical_timers.due_at
  deferred,    \* canonical_timers.deferred_once
  occupied,    \* getWebSockets is not empty
  alarm,       \* earliest time at which a timer wants the alarm
  handling,    \* the alarm handler awaits the index database
  \* history, read by the properties only:
  left         \* play time that must still pass before a timer may fire

room == <<started, waiting, pausedAt>>
rows == <<status, due, deferred>>
platform == <<occupied, alarm, handling>>
timerVars == <<now, room, lastActionAt, rows, platform, left>>

-----------------------------------------------------------------------------
Scheduled == {t \in Timers : status[t] = "scheduled"}
Paused == pausedAt # NoTime

\* rescheduleAlarm: nextRoomAlarmAt of the earliest scheduled timer.
Planned(statuses, dues, paused, present) ==
  LET wanted == {t \in Timers : statuses[t] = "scheduled"}
  IN  IF wanted = {} \/ paused \/ ~present THEN NoTime
      ELSE dues[CHOOSE t \in wanted : \A u \in wanted : dues[t] <= dues[u]]

TimersInit ==
  /\ now = 0 /\ started = FALSE /\ waiting = 0 /\ pausedAt = NoTime /\ lastActionAt = NoTime
  /\ status = [t \in Timers |-> "unknown"] /\ due = [t \in Timers |-> 0]
  /\ deferred = [t \in Timers |-> FALSE]
  /\ occupied = FALSE /\ alarm = NoTime /\ handling = FALSE
  /\ left = [t \in Timers |-> 0]

\* New rows for the timers of set new, with the delays given by delay and the
\* clock they are stored against.
Insert(new, delay, origin) ==
  /\ status' = [t \in Timers |-> IF t \in new THEN "scheduled" ELSE status[t]]
  /\ due' = [t \in Timers |-> IF t \in new THEN origin + delay[t] ELSE due[t]]
  /\ left' = [t \in Timers |-> IF t \in new THEN delay[t] ELSE left[t]]
  /\ UNCHANGED deferred

-----------------------------------------------------------------------------
\* startIfNeeded: a resumed room arms the saved timers that were scheduled and,
\* while a saved seat is unclaimed, pauses.  The alarm is planned again only
\* when there are such timers.
Start(saved, delay, unclaimed) ==
  /\ ~started /\ started' = TRUE
  /\ waiting' = unclaimed
  /\ pausedAt' = IF unclaimed > 0 THEN now ELSE NoTime
  /\ lastActionAt' = now
  /\ Insert({t \in saved : status[t] = "unknown"}, delay, now)
  /\ alarm' = IF saved = {} THEN alarm ELSE Planned(status', due', unclaimed > 0, occupied)
  /\ UNCHANGED <<now, occupied, handling>>

PauseEnds == waiting = 1

\* Fault: the deadlines are left as they are when play resumes.
Resumed_Unshifted(t) == due[t]

\* The deadline of a timer when the pause ends.
Resumed(t) == IF status[t] = "scheduled" THEN due[t] + (now - pausedAt) ELSE due[t]

\* Fault: the alarm is not planned again after a claim.
PlansAfterClaim_Never == alarm

PlansAfterClaim == Planned(status, due', pausedAt' # NoTime, occupied)

\* RoomDO.join of a saved seat; the last one ends the pause.
Claim ==
  /\ started /\ Paused
  /\ waiting' = waiting - 1
  /\ lastActionAt' = now
  /\ IF PauseEnds THEN pausedAt' = NoTime /\ due' = [t \in Timers |-> Resumed(t)]
     ELSE UNCHANGED <<pausedAt, due>>
  /\ alarm' = PlansAfterClaim
  /\ UNCHANGED <<now, started, status, deferred, occupied, handling, left>>

\* Any other action is sequenced.
Act ==
  /\ lastActionAt' = now
  /\ UNCHANGED <<now, room, rows, platform, left>>

\* During the pause a deadline is stored against the start of the pause.
Origin == IF Paused THEN pausedAt ELSE now

\* registerCanonicalTimer: the first report of a timer counts.
Register(t, d) ==
  /\ Insert(IF status[t] = "unknown" THEN {t} ELSE {}, [u \in Timers |-> d], Origin)
  /\ alarm' = Planned(status', due', Paused, occupied)
  /\ UNCHANGED <<now, room, lastActionAt, occupied, handling>>

\* cancelCanonicalTimer; the report of an unknown timer is refused.
Cancel(t) ==
  /\ status[t] # "unknown"
  /\ status' = [status EXCEPT ![t] = IF @ = "scheduled" THEN "canceled" ELSE @]
  /\ alarm' = Planned(status', due, Paused, occupied)
  /\ UNCHANGED <<now, room, lastActionAt, due, deferred, occupied, handling, left>>

\* fetch and handleSocketDeparture, when the first socket opens or the last closes.
Occupy ==
  /\ occupied' = ~occupied
  /\ alarm' = Planned(status, due, Paused, occupied')
  /\ UNCHANGED <<now, room, lastActionAt, rows, handling, left>>

-----------------------------------------------------------------------------
\* Fault: a deferred timer is put off again.
Defers_Always(t) == lastActionAt # NoTime /\ now - lastActionAt < Grace

\* planCanonicalTimerAlarm: a fire soon after an action is put off, once, so that
\* a cancel report caused by that action can arrive.
Defers(t) == ~deferred[t] /\ lastActionAt # NoTime /\ now - lastActionAt < Grace

Firing == {t \in Scheduled : occupied /\ ~Paused /\ due[t] <= now}

\* RoomDO.alarm up to its first await; the rows are one transaction.
TimerAlarm ==
  LET put == {t \in Firing : Defers(t)}
      fire == Firing \ put
  IN  /\ ~handling /\ handling' = TRUE
      /\ status' = [t \in Timers |-> IF t \in fire THEN "fired" ELSE status[t]]
      /\ due' = [t \in Timers |-> IF t \in put THEN now + Grace ELSE due[t]]
      /\ deferred' = [t \in Timers |-> deferred[t] \/ t \in put]
      /\ lastActionAt' = IF fire = {} THEN lastActionAt ELSE now
      /\ alarm' = NoTime
      /\ UNCHANGED <<now, room, occupied, left>>

\* Its last step plans the alarm again from what is stored by then.
TimerAlarmReplans ==
  /\ handling /\ handling' = FALSE
  /\ alarm' = Planned(status, due, Paused, occupied)
  /\ UNCHANGED <<now, room, lastActionAt, rows, occupied, left>>

\* The service restarts while the handler waits: the alarm is delivered again.
TimerRestart ==
  /\ handling /\ handling' = FALSE
  /\ alarm' = now
  /\ UNCHANGED <<now, room, lastActionAt, rows, occupied, left>>

Elapse(rest, t) == IF status[t] = "scheduled" /\ rest[t] > 0 THEN rest[t] - 1 ELSE rest[t]

TimerTick ==
  /\ now < MaxTime /\ now' = now + 1
  /\ IF Paused THEN UNCHANGED left
     ELSE left' = [t \in Timers |-> Elapse(left, t)]
  /\ UNCHANGED <<room, lastActionAt, rows, platform>>

TimersNext ==
  \/ \E saved \in SUBSET Timers, delay \in [Timers -> Delays], n \in 0 .. MaxWaiting :
       Start(saved, delay, n)
  \/ \E t \in Timers : Cancel(t) \/ \E d \in Delays : Register(t, d)
  \/ Claim \/ Act \/ Occupy \/ TimerAlarm \/ TimerAlarmReplans \/ TimerRestart \/ TimerTick

TimersSpec == TimersInit /\ [][TimersNext]_timerVars

-----------------------------------------------------------------------------
TimersTypeOK ==
  /\ now \in Nat /\ started \in BOOLEAN /\ waiting \in 0 .. MaxWaiting
  /\ pausedAt \in 0 .. now \cup {NoTime} /\ lastActionAt \in 0 .. now \cup {NoTime}
  /\ status \in [Timers -> {"unknown", "scheduled", "fired", "canceled"}]
  /\ due \in [Timers -> Nat] /\ deferred \in [Timers -> BOOLEAN]
  /\ occupied \in BOOLEAN /\ alarm \in Nat \cup {NoTime} /\ handling \in BOOLEAN
  /\ left \in [Timers -> Nat]

\* The clock that deadlines are stored against.
PlayClock == IF Paused THEN pausedAt ELSE now

\* The stored deadline of a timer is always what is left of its delay in play
\* time, through any order of reports, claims and alarms: "Reload/hibernation
\* therefore cannot consume a paused timer" (ADR 0007).
PauseConsumesNothing ==
  \A t \in Scheduled :
    IF deferred[t] THEN left[t] = 0
    ELSE IF due[t] > PlayClock THEN left[t] = due[t] - PlayClock ELSE left[t] = 0

\* No timer fires before its delay of play time has passed, in a pause, or in an
\* empty room.  (registerCanonicalTimer, join, startIfNeeded against the alarm.)
NeverFiresEarly ==
  [][\A t \in Timers : status[t] # "fired" /\ status'[t] = "fired" =>
       left[t] = 0 /\ ~Paused /\ occupied]_timerVars

\* Whenever play goes on an alarm is set no later than the earliest deadline, or
\* due already, unless its handler is at work and about to plan it again.
\* (rescheduleAlarm after every report, claim, connection and alarm.)
AlarmCoversTimers ==
  occupied /\ ~Paused /\ ~handling =>
    \A t \in Scheduled : alarm # NoTime /\ (alarm <= due[t] \/ alarm <= now)

\* A timer in an occupied room in play fires at the latest at the second alarm
\* after its deadline, however busy the table is.
DeferredOnce ==
  [][TimerAlarm => \A t \in Scheduled :
       occupied /\ ~Paused /\ deferred[t] /\ due[t] <= now => status'[t] = "fired"]_timerVars

\* Timers fire when play allows it: never early, and put off at most once.
\* (planCanonicalTimerAlarm against every way a deadline is stored.)
TimersKeepTheirTime == NeverFiresEarly /\ DeferredOnce
=============================================================================
