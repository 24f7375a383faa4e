---------------------------- MODULE RoomPresence ----------------------------
(***************************************************************************)
(* Who is at a room's table and how long the room lives: the sockets of    *)
(* RoomDO, the host and active_players rows they move, and the single      *)
(* alarm that beats while somebody is connected and ends the room once it  *)
(* has been empty for EMPTY_ROOM_TTL_MS (apps/worker/src/index.ts,         *)
(* room-liveness.ts, nextHost of room-core.ts).                            *)
(*                                                                         *)
(* Time is relative: a stored instant is kept as its age and the alarm as  *)
(* the time left until it is due, both cut off where nothing depends on    *)
(* them any more, so that the clock needs no bound.  An alarm may be       *)
(* delivered late.                                                         *)
(***************************************************************************)
EXTENDS Integers, Sequences, FiniteSets

CONSTANTS
  Players,      \* holders of a room token, once joined
  Tabs,         \* sockets a player may have open at once
  Ttl,          \* EMPTY_ROOM_TTL_MS
  Heartbeat,    \* ROOM_HEARTBEAT_INTERVAL_MS
  None          \* null

ASSUME PresenceAssumption ==
  /\ IsFiniteSet(Players) /\ IsFiniteSet(Tabs)
  /\ Heartbeat \in Nat \ {0} /\ Ttl \in Nat /\ Heartbeat <= Ttl
  /\ None \notin Nat \cup Players

VARIABLES
  ended,        \* room.ended_reason # NULL
  seats,        \* the players rows in join order
  host,         \* room.host_player_id
  active,       \* active_players
  sockets,      \* state of each web socket
  late,         \* players of hellos whose socket closed while they were answered
  emptyFor,     \* now - room.empty_since_at
  beatAge,      \* now - room.last_heartbeat_at
  alarmIn,      \* time until the alarm is due
  alarmAge,     \* age of the instant read by the alarm handler being awaited
  \* history, read by the properties only
  vacantFor,    \* how long no socket has been open
  visited,      \* a socket has been open
  excused       \* the host has not come yet, or left an otherwise empty table

membership == <<seats, host, active>>
liveness == <<emptyFor, beatAge, alarmIn, alarmAge>>
history == <<vacantFor, visited, excused>>
presenceVars == <<ended, membership, sockets, late, liveness, history>>

-----------------------------------------------------------------------------
SocketSet == Players \X Tabs
Joined == {seats[i] : i \in DOMAIN seats}

Open(socks) == {s \in SocketSet : socks[s] # "closed"}
Authenticated(socks) == {s \in SocketSet : socks[s] \in {"authenticated", "live"}}
PlayersOf(socks) == {s[1] : s \in socks}

Smaller(a, b) == IF a < b THEN a ELSE b
Older(age, limit) == IF age = None THEN None ELSE Smaller(age + 1, limit)

\* planRoomAlarm and rescheduleAlarm, for an instant read age ago, when the
\* room's row holds empty and getWebSockets has the given length.
ExpiryDue(empty, age) == empty # None /\ empty - age >= Ttl
\* Fault: expiry is counted from the next heartbeat on.
NextAlarm_AfterBeat(count, empty, age) ==
  IF ended THEN None
  ELSE IF count > 0 THEN IF age >= Heartbeat THEN 0 ELSE Heartbeat - age
  ELSE IF ExpiryDue(empty, age) THEN None
  ELSE Heartbeat + (IF empty = None THEN Ttl - age ELSE Ttl - empty)

NextAlarm(count, empty, age) ==
  IF ended THEN None
  ELSE IF count > 0 THEN IF age >= Heartbeat THEN 0 ELSE Heartbeat - age
  ELSE IF ExpiryDue(empty, age) THEN None
  ELSE IF empty = None THEN Ttl - age ELSE Ttl - empty

PresenceInit ==
  /\ ended = FALSE /\ seats = << >> /\ host = None /\ active = {}
  /\ sockets = [s \in SocketSet |-> "closed"] /\ late = {}
  /\ emptyFor = None /\ beatAge = None /\ alarmIn = None /\ alarmAge = None
  /\ vacantFor = 0 /\ visited = FALSE /\ excused = TRUE

-----------------------------------------------------------------------------
\* RoomDO.join: the first player becomes host; a player counts as active from
\* here on, before any socket is open.
Join(p) ==
  /\ ~ended /\ p \notin Joined
  /\ seats' = Append(seats, p)
  /\ host' = IF host = None THEN p ELSE host
  /\ active' = active \cup {p}
  /\ UNCHANGED <<ended, sockets, late, liveness, history>>

\* Fault: a new socket leaves empty_since_at to the hello.
Connect_KeepsEmptySince(s) ==
  /\ s[1] \in Joined /\ sockets[s] = "closed"
  /\ sockets' = [sockets EXCEPT ![s] = "open"]
  /\ beatAge' = 0 /\ alarmIn' = NextAlarm(1, None, 0)
  /\ vacantFor' = 0 /\ visited' = TRUE
  /\ UNCHANGED <<ended, membership, late, emptyFor, alarmAge, excused>>

\* RoomDO.fetch: accepted before it is known who it is, also after the end.
Connect(s) ==
  /\ s[1] \in Joined /\ sockets[s] = "closed"
  /\ sockets' = [sockets EXCEPT ![s] = "open"]
  /\ emptyFor' = None /\ beatAge' = 0
  /\ alarmIn' = NextAlarm(1, None, 0)
  /\ vacantFor' = 0 /\ visited' = TRUE
  /\ UNCHANGED <<ended, membership, late, alarmAge, excused>>

\* A hello: first authenticateRoomToken is awaited, then, in a room that has not
\* started, the release's snapshot.
Hello(s) ==
  /\ sockets[s] = "open"
  /\ sockets' = [sockets EXCEPT ![s] = "authenticating"]
  /\ UNCHANGED <<ended, membership, late, liveness, history>>

Authenticate(s) ==
  /\ sockets[s] = "authenticating" /\ ~ended
  /\ sockets' = [sockets EXCEPT ![s] = "authenticated"]
  /\ excused' = (excused /\ host # s[1])
  /\ UNCHANGED <<ended, membership, late, liveness, vacantFor, visited>>

\* markPlayerActive, from afterHelloSent.
MarkActive(p) ==
  /\ active' = active \cup {p}
  /\ emptyFor' = None /\ beatAge' = 0
  /\ UNCHANGED <<seats, host, alarmIn, alarmAge>>

\* The reply is a bootstrap or a resume.
Welcome(s) ==
  /\ sockets[s] = "authenticated" /\ ~ended
  /\ sockets' = [sockets EXCEPT ![s] = "live"]
  /\ MarkActive(s[1])
  /\ UNCHANGED <<ended, late, history>>

\* The same for a hello whose socket has closed meanwhile: sending to it is
\* silently ignored, or throws and the handler ends there.
WelcomeLate(p) ==
  /\ p \in late
  /\ late' = late \ {p}
  /\ \/ ~ended /\ MarkActive(p)
     \/ UNCHANGED <<membership, liveness>>
  /\ UNCHANGED <<ended, sockets, history>>

-----------------------------------------------------------------------------
\* Fault: the oldest player succeeds, connected or not.
NextHost_Oldest(connected) == seats[1]

\* nextHost: the oldest connected player, or the present host.
NextHost(connected) ==
  LET rank == {i \in DOMAIN seats : seats[i] \in connected}
  IN  IF rank = {} THEN host ELSE seats[CHOOSE i \in rank : \A j \in rank : i <= j]

\* The player of s has no other authenticated socket.
Gone(s, peers) == \A q \in peers : q[1] = s[1] => sockets[q] \notin {"authenticated", "live"}

\* COALESCE(empty_since_at, now).
EmptiedAt == IF emptyFor = None THEN 0 ELSE emptyFor

\* handleSocketDeparture.  getWebSockets may or may not still list the closing
\* socket when the alarm is planned.
Depart(s) ==
  LET peers == Open(sockets) \ {s}
      connected == PlayersOf(peers \cap Authenticated(sockets))
      leaves == sockets[s] \in {"authenticated", "live"} /\ Gone(s, peers)
  IN  /\ sockets[s] # "closed"
      /\ sockets' = [sockets EXCEPT ![s] = "closed"]
      /\ late' = late \cup (IF sockets[s] \in {"authenticating", "authenticated"} THEN {s[1]} ELSE {})
      /\ IF ended THEN UNCHANGED <<membership, liveness, excused>>
         ELSE /\ active' = active \ (IF leaves THEN {s[1]} ELSE {})
              /\ host' = IF leaves /\ host = s[1] THEN NextHost(connected) ELSE host
              /\ excused' = (excused \/ (leaves /\ host = s[1] /\ connected = {}))
              /\ emptyFor' = IF peers = {} THEN EmptiedAt ELSE None
              /\ beatAge' = 0
              /\ \E count \in {Cardinality(peers), Cardinality(peers) + 1} :
                   alarmIn' = NextAlarm(count, emptyFor', 0)
              /\ UNCHANGED <<seats, alarmAge>>
      /\ vacantFor' = 0
      /\ UNCHANGED <<ended, visited>>

-----------------------------------------------------------------------------
\* A timer report over HTTP replans the alarm, whoever is connected; when the
\* expiry is due already, there is no alarm after it.
TimerReport ==
  /\ seats # << >>
  /\ alarmIn' = NextAlarm(Cardinality(Open(sockets)), emptyFor, 0)
  /\ UNCHANGED <<ended, membership, sockets, late, emptyFor, beatAge, alarmAge, history>>

\* RoomDO.end: every socket is told and closed.
EndRoom ==
  /\ ended' = TRUE
  /\ sockets' = [s \in SocketSet |-> "closed"]

End ==
  /\ ~ended
  /\ EndRoom
  /\ vacantFor' = 0
  /\ UNCHANGED <<membership, late, liveness, visited, excused>>

Expires == Open(sockets) = {} /\ ExpiryDue(emptyFor, 0)

\* RoomDO.alarm up to its first await: expiry, or the heartbeat.
Alarm ==
  /\ alarmIn = 0 /\ alarmAge = None
  /\ alarmIn' = None
  /\ IF ended THEN UNCHANGED <<ended, sockets, beatAge, alarmAge>>
     ELSE IF Expires THEN EndRoom /\ UNCHANGED <<beatAge, alarmAge>>
     ELSE /\ beatAge' = IF Open(sockets) # {} /\ (beatAge = None \/ beatAge >= Heartbeat)
                        THEN 0 ELSE beatAge
          /\ alarmAge' = 0
          /\ UNCHANGED <<ended, sockets>>
  /\ UNCHANGED <<membership, late, emptyFor, history>>

\* The index and play-count writes came back: the alarm is replanned from the
\* instant at which the handler began.
AlarmReplans ==
  /\ alarmAge # None
  /\ alarmAge' = None
  /\ alarmIn' = NextAlarm(Cardinality(Open(sockets)), emptyFor, alarmAge)
  /\ UNCHANGED <<ended, membership, sockets, late, emptyFor, beatAge, history>>

\* The service is restarted while the handler waits: the platform runs the
\* alarm again.
Restart ==
  /\ alarmAge # None
  /\ alarmAge' = None /\ alarmIn' = 0
  /\ UNCHANGED <<ended, membership, sockets, late, emptyFor, beatAge, history>>

Tick ==
  /\ emptyFor' = Older(emptyFor, Ttl)
  /\ beatAge' = Older(beatAge, Heartbeat)
  /\ alarmIn' = IF alarmIn \in {None, 0} THEN alarmIn ELSE alarmIn - 1
  /\ alarmAge' = Older(alarmAge, Ttl)
  /\ vacantFor' = IF Open(sockets) = {} THEN Smaller(vacantFor + 1, Ttl) ELSE 0
  /\ UNCHANGED <<ended, membership, sockets, late, visited, excused>>

-----------------------------------------------------------------------------
Scheduler == Alarm \/ AlarmReplans

PresenceNext ==
  \/ \E p \in Players : Join(p) \/ WelcomeLate(p)
  \/ \E s \in SocketSet : Connect(s) \/ Hello(s) \/ Authenticate(s) \/ Welcome(s) \/ Depart(s)
  \/ TimerReport \/ End \/ Restart \/ Scheduler \/ Tick

PresenceSpec == PresenceInit /\ [][PresenceNext]_presenceVars

\* The clock advances and the platform delivers alarms and completes what the
\* handlers wait for.
FairPresenceSpec ==
  /\ PresenceSpec
  /\ WF_presenceVars(Tick) /\ SF_presenceVars(Alarm) /\ SF_presenceVars(AlarmReplans)
  /\ \A p \in Players : WF_presenceVars(WelcomeLate(p))

-----------------------------------------------------------------------------
Connected == PlayersOf(Authenticated(sockets))

\* The administrative host is somebody at the table, unless the host has not
\* come yet or was the last to leave; and nobody loses the office while present
\* in any tab.  (handleSocketDeparture and nextHost.)
HostIsPresent == ~ended /\ Connected # {} => host \in Connected \/ excused
HostKeepsOffice == [][host' # host /\ host # None => host \notin Connected']_presenceVars

\* Every player whose game is on the screen is counted as active, whatever other
\* tabs came and went.  (markPlayerActive against handleSocketDeparture.)
LivePlayersAreActive ==
  ~ended => \A s \in SocketSet : sockets[s] = "live" => s[1] \in active

\* The alarm ends a room only after Ttl without a single open socket.
\* (empty_since_at against fetch, departures and the alarm.)
NeverExpiresOccupied == [][ended' /\ ~ended /\ Alarm => vacantFor >= Ttl]_presenceVars

\* While somebody is connected the alarm goes on beating, whatever was
\* interleaved with its handler.  (rescheduleAlarm after every change.)
OccupiedRoomBeats ==
  ~ended /\ Open(sockets) # {} => alarmAge # None \/ (alarmIn # None /\ alarmIn <= Heartbeat)

\* While nobody is connected and the room knows since when, whatever alarm it
\* has comes no later than its expiry.  (rescheduleAlarm, which planned from the
\* instant at which its caller began.)
AlarmCoversExpiry ==
  ~ended /\ Open(sockets) = {} /\ emptyFor # None /\ alarmIn # None =>
    alarmIn <= Ttl - emptyFor

\* Host and active players follow the sockets through every interleaving of
\* hellos and departures.  (markPlayerActive, nextHost, handleSocketDeparture.)
RosterFollowsSockets == HostIsPresent /\ LivePlayersAreActive

\* The one alarm serves both: it beats while somebody is there and otherwise
\* comes in time for the expiry.  (rescheduleAlarm, planRoomAlarm.)
AlarmFollowsSockets == OccupiedRoomBeats /\ AlarmCoversExpiry

\* What the room stores of its players and its alarm is true of its sockets, however
\* their handlers are interleaved with the alarm's.  (room-core.ts and index.ts.)
PresenceIsSound == RosterFollowsSockets /\ AlarmFollowsSockets

\* No step takes from those present: not the host's office, not the room.
\* (handleSocketDeparture and the alarm's expiry.)
PresentLoseNothing == HostKeepsOffice /\ NeverExpiresOccupied

\* "Rooms do not remain active forever after everyone leaves. After sustained
\* inactivity, an empty room expires."  (docs/playing.md.)  Stated for a room that
\* keeps an alarm, or is handling one: a timer report may delete it, see TimerReport.
Deserted == visited /\ Open(sockets) = {} /\ (alarmIn # None \/ alarmAge # None)
EmptyRoomExpires == <>[]Deserted => <>ended
=============================================================================
