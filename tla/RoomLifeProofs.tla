---------------------------- MODULE RoomLifeProofs ----------------------------
(***************************************************************************)
(* The life of a room outside its log: who is there and when it expires,   *)
(* what its timers are due, and which checkpoints its clients confirm.     *)
(***************************************************************************)
EXTENDS RoomPresence, RoomTimers, CheckpointQuorum, FiniteSetTheorems, WellFoundedInduction, TLAPS

-----------------------------------------------------------------------------
(***************************************************************************)
(* For every finite set of players and tabs, every heartbeat interval and  *)
(* every time an empty room is kept: the host, the active players and the  *)
(* alarm of a room stay true of its sockets, and a room that is occupied   *)
(* never expires.                                                          *)
(***************************************************************************)
States == {"closed", "open", "authenticating", "authenticated", "live"}

PresenceShape ==
  /\ ended \in BOOLEAN
  /\ seats \in Seq(Players) /\ host \in Players \cup {None}
  /\ sockets \in [SocketSet -> States] /\ late \in SUBSET Players
  /\ emptyFor \in 0 .. Ttl \cup {None} /\ alarmIn \in Nat \cup {None}
  /\ alarmAge \in 0 .. Ttl \cup {None} /\ vacantFor \in 0 .. Ttl

\* Only those who joined are host or have a socket, and somebody is host as soon
\* as anybody has joined.
Members ==
  /\ \A s \in Open(sockets) : s[1] \in Joined
  /\ host = None => Joined = {}

\* The office is held by somebody at the table, or its holder is excused: also while
\* nobody is there, so that the next to come does not find a host who is not.
Office == ~ended => host \in Connected \/ excused

\* A room that is noted empty is empty, and has been at least as long as noted.
EmptinessNoted ==
  ~ended /\ emptyFor # None => Open(sockets) = {} /\ emptyFor <= vacantFor

PresenceInv ==
  PresenceShape /\ Members /\ Office /\ LivePlayersAreActive /\ EmptinessNoted
    /\ OccupiedRoomBeats /\ AlarmCoversExpiry

-----------------------------------------------------------------------------
\* getWebSockets lists something exactly when a socket is open.
LEMMA OpenIsFinite ==
  ASSUME NEW socks
  PROVE  /\ IsFiniteSet(Open(socks)) /\ Cardinality(Open(socks)) \in Nat
         /\ Cardinality(Open(socks)) > 0 <=> Open(socks) # {}
<1>1. Open(socks) \in SUBSET SocketSet
  BY DEF Open
<1>2. IsFiniteSet(SocketSet)
  BY PresenceAssumption, FS_Product DEF SocketSet
<1>3. IsFiniteSet(Open(socks))
  BY <1>1, <1>2, FS_Subset
<1> QED
  BY <1>3, FS_CardinalityType, FS_EmptySet

\* The alarm that planRoomAlarm asks for: a heartbeat when somebody is there,
\* otherwise no later than the expiry.
LEMMA AlarmIsPlanned ==
  ASSUME NEW count \in Nat, NEW empty \in 0 .. Ttl \cup {None}, NEW age \in 0 .. Ttl
  PROVE  /\ NextAlarm(count, empty, age) \in Nat \cup {None}
         /\ ~ended /\ count > 0 =>
              NextAlarm(count, empty, age) \in Nat /\ NextAlarm(count, empty, age) <= Heartbeat
         /\ count = 0 /\ empty # None /\ NextAlarm(count, empty, age) # None =>
              NextAlarm(count, empty, age) = Ttl - empty
BY PresenceAssumption DEF NextAlarm, ExpiryDue

LEMMA InitPresence == PresenceInit => PresenceInv
<1> SUFFICES ASSUME PresenceInit
             PROVE  PresenceInv
  OBVIOUS
<1>1. Open(sockets) = {} /\ Joined = {}
  BY DEF PresenceInit, Open, Joined
<1>2. ended = FALSE /\ excused = TRUE /\ ended \in BOOLEAN
  BY Zenon DEF PresenceInit
<1>3. PresenceShape
  BY <1>2, PresenceAssumption DEF PresenceInit, PresenceShape, States
<1>4. Members
  BY <1>1 DEF Members
<1>5. Office
  BY <1>2 DEF Office
<1>6. LivePlayersAreActive
  BY DEF PresenceInit, LivePlayersAreActive
<1>7. EmptinessNoted /\ OccupiedRoomBeats /\ AlarmCoversExpiry
  BY <1>1 DEF PresenceInit, EmptinessNoted, OccupiedRoomBeats, AlarmCoversExpiry
<1> QED
  BY <1>3, <1>4, <1>5, <1>6, <1>7 DEF PresenceInv

\* The successor is the first to have joined of those at the table; when nobody is,
\* the office stays where it is.
LEMMA SuccessorIsConnected ==
  ASSUME PresenceShape, NEW connected
  PROVE  /\ connected \cap Joined # {} => NextHost(connected) \in connected \cap Joined
         /\ connected \cap Joined = {} => NextHost(connected) = host
<1> DEFINE rank == {i \in DOMAIN seats : seats[i] \in connected}
<1>1. rank \subseteq Nat /\ (rank = {} <=> connected \cap Joined = {})
  BY DEF PresenceShape, Joined
<1>2. CASE rank = {}
  BY <1>1, <1>2 DEF NextHost
<1>3. CASE rank # {}
  <2>1. \E i \in rank : \A j \in rank : i <= j
    <3> HIDE DEF rank
    <3>1. PICK i \in rank : \A j \in rank : ~ (<<j, i>> \in OpToRel(<, Nat))
      BY <1>1, <1>3, NatLessThanWellFounded, WFMin
    <3>2. ASSUME NEW j \in rank
          PROVE  i <= j
      <4>1. i \in Nat /\ j \in Nat /\ ~(j < i)
        BY <1>1, <3>1 DEF OpToRel
      <4> QED
        BY <4>1
    <3> QED
      BY <3>2
  <2>2. PICK i \in rank : NextHost(connected) = seats[i]
    BY <1>3, <2>1 DEF NextHost
  <2> QED
    BY <1>1, <1>3, <2>2 DEF Joined
<1> QED
  BY <1>2, <1>3

\* What a departure leaves open and who is connected after it.
LEMMA AfterDeparture ==
  ASSUME PresenceShape, NEW s \in SocketSet, Depart(s)
  PROVE  /\ s \in Open(sockets)
         /\ Open(sockets') = Open(sockets) \ {s}
         /\ Authenticated(sockets') = Authenticated(sockets) \ {s}
         /\ \A q \in SocketSet \ {s} : sockets'[q] = sockets[q]
         /\ sockets'[s] = "closed"
<1>1. sockets' = [sockets EXCEPT ![s] = "closed"] /\ sockets[s] # "closed"
  BY DEF Depart
<1>2. sockets'[s] = "closed" /\ \A q \in SocketSet \ {s} : sockets'[q] = sockets[q]
  BY <1>1 DEF PresenceShape
<1> QED
  BY <1>1, <1>2 DEF Open, Authenticated

-----------------------------------------------------------------------------
\* The shape of the room's rows, one action after the other.
LEMMA StepKeepsShape ==
  ASSUME PresenceInv, [PresenceNext]_presenceVars
  PROVE  PresenceShape'
<1> USE DEF PresenceInv, PresenceShape
<1>0. /\ 0 \in 0 .. Ttl /\ Heartbeat \in Nat /\ Ttl \in Nat
      /\ \A age \in 0 .. Ttl \cup {None} : Older(age, Ttl) \in 0 .. Ttl \cup {None}
  BY PresenceAssumption DEF Older, Smaller
<1>1. ASSUME NEW p \in Players, Join(p)
      PROVE  PresenceShape'
  BY <1>1 DEF Join, liveness, history
<1>2. ASSUME NEW p \in Players, WelcomeLate(p)
      PROVE  PresenceShape'
  BY <1>0, <1>2 DEF WelcomeLate, MarkActive, membership, liveness, history
<1>3. ASSUME NEW s \in SocketSet, Connect(s)
      PROVE  PresenceShape'
  <2>1. NextAlarm(1, None, 0) \in Nat \cup {None}
    BY <1>0, AlarmIsPlanned
  <2> QED
    BY <1>0, <1>3, <2>1 DEF Connect, membership, States
<1>4. ASSUME NEW s \in SocketSet, Hello(s) \/ Authenticate(s)
      PROVE  PresenceShape'
  BY <1>4 DEF Hello, Authenticate, membership, liveness, history, States
<1>5. ASSUME NEW s \in SocketSet, Welcome(s)
      PROVE  PresenceShape'
  BY <1>0, <1>5 DEF Welcome, MarkActive, history, States
<1>6. ASSUME NEW s \in SocketSet, Depart(s)
      PROVE  PresenceShape'
  <2> DEFINE peers == Open(sockets) \ {s}
             connected == PlayersOf(peers \cap Authenticated(sockets))
  <2>1. NextHost(connected) \in Players \cup {None}
    <3> HIDE DEF connected
    <3>1. Joined \subseteq Players
      BY DEF Joined
    <3> QED
      BY <3>1, SuccessorIsConnected
  <2>2. Cardinality(peers) \in Nat
    BY <1>6, AfterDeparture, OpenIsFinite
  <2>3. /\ ended' = ended /\ seats' = seats /\ late' \in SUBSET Players /\ vacantFor' = 0
        /\ sockets' \in [SocketSet -> States] /\ UNCHANGED alarmAge
    BY <1>6 DEF Depart, SocketSet, States, membership, liveness
  <2>4. host' \in Players \cup {None} /\ emptyFor' \in 0 .. Ttl \cup {None}
    BY <1>0, <1>6, <2>1 DEF Depart, membership, liveness, EmptiedAt
  <2>5. alarmIn' \in Nat \cup {None}
    <3>1. CASE ended
      BY <1>6, <3>1 DEF Depart, liveness
    <3>2. CASE ~ended
      <4>1. PICK count \in {Cardinality(peers), Cardinality(peers) + 1} :
                   alarmIn' = NextAlarm(count, emptyFor', 0)
        BY <1>6, <3>2 DEF Depart
      <4> HIDE DEF peers
      <4>2. count \in Nat
        BY <2>2, <4>1
      <4> QED
        BY <1>0, <2>4, <4>1, <4>2, AlarmIsPlanned
    <3> QED
      BY <3>1, <3>2
  <2> QED
    BY <1>0, <2>3, <2>4, <2>5
<1>7. CASE TimerReport
  BY <1>0, <1>7, OpenIsFinite, AlarmIsPlanned DEF TimerReport, membership, history
<1>8. CASE End
  BY <1>0, <1>8 DEF End, EndRoom, membership, liveness, States
<1>9. CASE Restart
  BY <1>0, <1>9 DEF Restart, membership, history
<1>10. CASE Alarm
  <2>1. ended' \in BOOLEAN /\ sockets' \in [SocketSet -> States]
    BY <1>10 DEF Alarm, EndRoom, States
  <2> QED
    BY <1>0, <1>10, <2>1 DEF Alarm, membership, history
<1>11. CASE AlarmReplans
  <2>1. NextAlarm(Cardinality(Open(sockets)), emptyFor, alarmAge) \in Nat \cup {None}
    BY <1>11, OpenIsFinite, AlarmIsPlanned DEF AlarmReplans
  <2> QED
    BY <1>0, <1>11, <2>1 DEF AlarmReplans, membership, history
<1>12. CASE Tick
  <2>1. vacantFor' \in 0 .. Ttl /\ alarmIn' \in Nat \cup {None}
    BY <1>0, <1>12 DEF Tick, Smaller
  <2> QED
    BY <1>0, <1>12, <2>1 DEF Tick, membership
<1>13. CASE UNCHANGED presenceVars
  BY <1>13 DEF presenceVars, membership, liveness, history
<1> QED
  BY <1>1, <1>2, <1>3, <1>4, <1>5, <1>6, <1>7, <1>8, <1>9, <1>10, <1>11, <1>12, <1>13
     DEF PresenceNext, Scheduler

-----------------------------------------------------------------------------
\* Host and active players follow the sockets.
LEMMA StepKeepsRoster ==
  ASSUME PresenceInv, [PresenceNext]_presenceVars
  PROVE  Members' /\ Office' /\ LivePlayersAreActive'
<1> USE DEF PresenceInv
<1>1. ASSUME NEW p \in Players, Join(p)
      PROVE  Members' /\ Office' /\ LivePlayersAreActive'
  <2>1. Joined' = Joined \cup {p}
    BY <1>1 DEF Join, Joined, PresenceShape
  <2>2. /\ UNCHANGED <<ended, sockets, excused>> /\ host' = (IF host = None THEN p ELSE host)
        /\ active' = active \cup {p}
    BY <1>1 DEF Join, history
  <2>3. Members'
    BY <2>1, <2>2, PresenceAssumption DEF Members
  <2>4. Office'
    BY <2>2, PresenceAssumption DEF Office, Connected, PlayersOf, Authenticated, SocketSet
  <2>5. LivePlayersAreActive'
    BY <2>2 DEF LivePlayersAreActive
  <2> QED
    BY <2>3, <2>4, <2>5
<1>2. ASSUME NEW p \in Players, WelcomeLate(p)
      PROVE  Members' /\ Office' /\ LivePlayersAreActive'
  <2>1. UNCHANGED <<ended, sockets, excused, seats, host>> /\ active \subseteq active'
    BY <1>2 DEF WelcomeLate, MarkActive, membership, history
  <2> QED
    BY <2>1 DEF Members, Office, LivePlayersAreActive, Connected, Joined
<1>3. ASSUME NEW s \in SocketSet, Connect(s)
      PROVE  Members' /\ Office' /\ LivePlayersAreActive'
  <2>1. /\ UNCHANGED <<ended, seats, host, active, excused>> /\ s[1] \in Joined
        /\ sockets' = [sockets EXCEPT ![s] = "open"]
    BY <1>3 DEF Connect, membership
  <2>2. Open(sockets') = Open(sockets) \cup {s} /\ Authenticated(sockets') = Authenticated(sockets)
    BY <1>3, <2>1 DEF Connect, Open, Authenticated, PresenceShape
  <2> QED
    BY <2>1, <2>2 DEF Members, Office, LivePlayersAreActive, Connected, Joined, PresenceShape
<1>4. ASSUME NEW s \in SocketSet, Hello(s)
      PROVE  Members' /\ Office' /\ LivePlayersAreActive'
  <2>1. Open(sockets') = Open(sockets) /\ Authenticated(sockets') = Authenticated(sockets)
    BY <1>4 DEF Hello, Open, Authenticated, PresenceShape
  <2>2. \A q \in SocketSet : sockets'[q] = "live" => sockets[q] = "live"
    BY <1>4 DEF Hello, PresenceShape
  <2> QED
    BY <1>4, <2>1, <2>2 DEF Hello, membership, history, Members, Office, LivePlayersAreActive, Connected, Joined
<1>5. ASSUME NEW s \in SocketSet, Authenticate(s)
      PROVE  Members' /\ Office' /\ LivePlayersAreActive'
  <2>1. /\ Open(sockets') = Open(sockets) /\ Authenticated(sockets') = Authenticated(sockets) \cup {s}
        /\ \A q \in SocketSet : sockets'[q] = "live" => sockets[q] = "live"
    BY <1>5 DEF Authenticate, Open, Authenticated, PresenceShape
  <2>2. /\ UNCHANGED <<ended, seats, host, active>> /\ ~ended
        /\ excused' = (excused /\ host # s[1])
    BY <1>5 DEF Authenticate, membership
  <2>3. Office'
    BY <2>1, <2>2 DEF Office, Connected, PlayersOf
  <2> QED
    BY <2>1, <2>2, <2>3 DEF Members, LivePlayersAreActive, Joined
<1>6. ASSUME NEW s \in SocketSet, Welcome(s)
      PROVE  Members' /\ Office' /\ LivePlayersAreActive'
  <2>1. /\ Open(sockets') = Open(sockets) /\ Authenticated(sockets') = Authenticated(sockets)
        /\ \A q \in SocketSet : sockets'[q] = "live" => q = s \/ sockets[q] = "live"
    BY <1>6 DEF Welcome, Open, Authenticated, PresenceShape
  <2>2. UNCHANGED <<ended, seats, host, excused>> /\ active' = active \cup {s[1]}
    BY <1>6 DEF Welcome, MarkActive, history
  <2> QED
    BY <2>1, <2>2 DEF Members, Office, LivePlayersAreActive, Connected, Joined
<1>7. ASSUME NEW s \in SocketSet, Depart(s)
      PROVE  Members' /\ Office' /\ LivePlayersAreActive'
  <2> DEFINE peers == Open(sockets) \ {s}
             connected == PlayersOf(peers \cap Authenticated(sockets))
             leaves == sockets[s] \in {"authenticated", "live"} /\ Gone(s, peers)
  <2>1. /\ Open(sockets') = peers /\ Authenticated(sockets') = peers \cap Authenticated(sockets)
        /\ \A q \in SocketSet \ {s} : sockets'[q] = sockets[q]
        /\ sockets'[s] = "closed"
    BY <1>7, AfterDeparture DEF Open, Authenticated
  <2>2. Connected' = connected /\ connected \subseteq Connected /\ connected \subseteq Joined
    BY <2>1 DEF Connected, PlayersOf, Members
  <2>3. ended' = ended /\ seats' = seats /\ Joined' = Joined
    BY <1>7 DEF Depart, membership, Joined
  <2>4. CASE ended
    <3>1. UNCHANGED <<host, active>>
      BY <1>7, <2>4 DEF Depart, membership
    <3> QED
      BY <2>1, <2>3, <2>4, <3>1 DEF Members, Office, LivePlayersAreActive
  <2>5. CASE ~ended
    <3>1. /\ active' = active \ (IF leaves THEN {s[1]} ELSE {})
          /\ host' = (IF leaves /\ host = s[1] THEN NextHost(connected) ELSE host)
          /\ excused' = (excused \/ (leaves /\ host = s[1] /\ connected = {}))
      BY <1>7, <2>5 DEF Depart
    <3>2. /\ connected # {} => NextHost(connected) \in connected
          /\ connected = {} => NextHost(connected) = host
      BY <2>2, SuccessorIsConnected
    <3>3. Members'
      <4>1. host' = None => host = None
        <5>1. None \notin connected
          <6>1. Joined \subseteq Players
            BY DEF PresenceShape, Joined
          <6> HIDE DEF connected
          <6> QED
            BY <2>2, <6>1, PresenceAssumption
        <5> QED
          BY <3>1, <3>2, <5>1
      <4> QED
        BY <2>1, <2>3, <4>1 DEF Members
    <3>4. Office'
      <4>1. CASE leaves /\ host = s[1]
        BY <2>2, <3>1, <3>2, <4>1 DEF Office
      <4>2. CASE ~leaves
        <5>1. Connected \subseteq connected
          BY <4>2, <2>1 DEF Connected, PlayersOf, Gone, Open, Authenticated
        <5> QED
          BY <2>2, <2>3, <3>1, <4>2, <5>1 DEF Office
      <4>3. CASE host # s[1]
        <5>1. host \in Connected => host \in connected
          BY <4>3, <2>1 DEF Connected, PlayersOf, Open, Authenticated
        <5> QED
          BY <2>2, <2>3, <3>1, <4>3, <5>1 DEF Office
      <4> QED
        BY <4>1, <4>2, <4>3
    <3>5. LivePlayersAreActive'
      <4>1. ASSUME NEW q \in SocketSet, sockets'[q] = "live"
            PROVE  q[1] \in active'
        <5>1. q # s /\ sockets[q] = "live" /\ q \in peers
          BY <2>1, <4>1 DEF Open
        <5>2. q[1] \in active /\ (leaves => q[1] # s[1])
          BY <2>5, <5>1 DEF LivePlayersAreActive, Gone
        <5> QED
          BY <3>1, <5>2
      <4> QED
        BY <4>1 DEF LivePlayersAreActive
    <3> QED
      BY <3>3, <3>4, <3>5
  <2> QED
    BY <2>4, <2>5
<1>8. CASE End \/ Alarm
  <2>1. /\ UNCHANGED <<seats, host, active, excused>>
        /\ \/ UNCHANGED <<ended, sockets>>
           \/ ended' /\ sockets' = [s \in SocketSet |-> "closed"]
    BY <1>8 DEF End, Alarm, EndRoom, membership, history
  <2>2. CASE UNCHANGED <<ended, sockets>>
    BY <2>1, <2>2 DEF Members, Office, LivePlayersAreActive, Connected, Joined
  <2>3. CASE ended' /\ sockets' = [s \in SocketSet |-> "closed"]
    BY <2>1, <2>3 DEF Members, Office, LivePlayersAreActive, Open, Joined
  <2> QED
    BY <2>1, <2>2, <2>3
<1>9. CASE TimerReport \/ Restart \/ AlarmReplans \/ Tick \/ UNCHANGED presenceVars
  <2>1. UNCHANGED <<ended, sockets, excused, seats, host, active>>
    BY <1>9 DEF TimerReport, Restart, AlarmReplans, Tick, presenceVars, membership, history
  <2> QED
    BY <2>1 DEF Members, Office, LivePlayersAreActive, Connected, Joined
<1> QED
  BY <1>1, <1>2, <1>3, <1>4, <1>5, <1>6, <1>7, <1>8, <1>9 DEF PresenceNext, Scheduler

-----------------------------------------------------------------------------
\* The alarm follows the sockets and the time the room was noted empty.
AlarmsSound == EmptinessNoted /\ OccupiedRoomBeats /\ AlarmCoversExpiry

LEMMA StepKeepsAlarms ==
  ASSUME PresenceInv, [PresenceNext]_presenceVars
  PROVE  AlarmsSound'
<1> USE DEF PresenceInv
<1>0. /\ Heartbeat \in Nat \ {0} /\ Ttl \in Nat /\ Heartbeat <= Ttl /\ None \notin Nat
      /\ 0 \in 0 .. Ttl
  BY PresenceAssumption
<1>1. ASSUME UNCHANGED <<ended, sockets, emptyFor, alarmIn, alarmAge, vacantFor>>
      PROVE  AlarmsSound'
  BY <1>1 DEF AlarmsSound, EmptinessNoted, OccupiedRoomBeats, AlarmCoversExpiry
<1>2. ASSUME UNCHANGED <<ended, alarmIn, alarmAge, vacantFor>>, Open(sockets') = Open(sockets),
             emptyFor' = emptyFor \/ emptyFor' = None
      PROVE  AlarmsSound'
  BY <1>2 DEF AlarmsSound, EmptinessNoted, OccupiedRoomBeats, AlarmCoversExpiry
<1>3. ASSUME NEW p \in Players, Join(p) \/ WelcomeLate(p)
      PROVE  AlarmsSound'
  <2>1. /\ UNCHANGED <<ended, sockets, alarmIn, alarmAge, vacantFor>>
        /\ emptyFor' = emptyFor \/ emptyFor' = None
    BY <1>3 DEF Join, WelcomeLate, MarkActive, membership, liveness, history
  <2> QED
    BY <1>2, <2>1
<1>4. ASSUME NEW s \in SocketSet, Hello(s) \/ Authenticate(s) \/ Welcome(s)
      PROVE  AlarmsSound'
  <2>1. /\ UNCHANGED <<ended, alarmIn, alarmAge, vacantFor>>
        /\ emptyFor' = emptyFor \/ emptyFor' = None
    BY <1>4 DEF Hello, Authenticate, Welcome, MarkActive, membership, liveness, history
  <2>2. Open(sockets') = Open(sockets)
    BY <1>4 DEF Hello, Authenticate, Welcome, Open, PresenceShape
  <2> QED
    BY <1>2, <2>1, <2>2
<1>5. ASSUME NEW s \in SocketSet, Connect(s)
      PROVE  AlarmsSound'
  <2>1. /\ emptyFor' = None /\ alarmIn' = NextAlarm(1, None, 0) /\ UNCHANGED <<ended, alarmAge>>
        /\ s \in Open(sockets')
    BY <1>5 DEF Connect, Open, PresenceShape
  <2>2. ~ended => alarmIn' \in Nat /\ alarmIn' <= Heartbeat
    <3>1. ~ended => NextAlarm(1, None, 0) \in Nat /\ NextAlarm(1, None, 0) <= Heartbeat
      <4>1. 1 \in Nat /\ 1 > 0 /\ None \in 0 .. Ttl \cup {None}
        OBVIOUS
      <4> QED
        BY <1>0, <4>1, AlarmIsPlanned
    <3> QED
      BY <2>1, <3>1
  <2> QED
    BY <1>0, <2>1, <2>2 DEF AlarmsSound, EmptinessNoted, OccupiedRoomBeats, AlarmCoversExpiry
<1>6. ASSUME NEW s \in SocketSet, Depart(s)
      PROVE  AlarmsSound'
  <2> DEFINE peers == Open(sockets) \ {s}
  <2>1. s \in Open(sockets) /\ Open(sockets') = peers /\ ended' = ended
    BY <1>6, AfterDeparture DEF Depart
  <2>2. CASE ended
    BY <2>1, <2>2 DEF AlarmsSound, EmptinessNoted, OccupiedRoomBeats, AlarmCoversExpiry
  <2>3. CASE ~ended
    <3>1. /\ emptyFor' = (IF peers = {} THEN EmptiedAt ELSE None) /\ vacantFor' = 0
          /\ \E count \in {Cardinality(peers), Cardinality(peers) + 1} :
               alarmIn' = NextAlarm(count, emptyFor', 0)
      BY <1>6, <2>3 DEF Depart
    <3>2. emptyFor = None /\ EmptiedAt = 0
      BY <2>1, <2>3 DEF EmptinessNoted, EmptiedAt
    <3>3. PICK count \in {Cardinality(peers), Cardinality(peers) + 1} :
                 alarmIn' = NextAlarm(count, emptyFor', 0)
      BY <3>1
    <3>4. count \in Nat /\ (peers # {} => count > 0)
      <4>1. Cardinality(peers) \in Nat /\ (Cardinality(peers) > 0 <=> peers # {})
        BY <2>1, OpenIsFinite
      <4> HIDE DEF peers
      <4> QED
        BY <4>1
    <3>5. EmptinessNoted'
      BY <1>0, <2>1, <3>1, <3>2 DEF EmptinessNoted
    <3>6. OccupiedRoomBeats'
      <4>1. emptyFor' \in 0 .. Ttl \cup {None}
        BY <1>0, <3>1, <3>2
      <4> HIDE DEF peers
      <4>2. peers # {} => alarmIn' \in Nat /\ alarmIn' <= Heartbeat
        BY <1>0, <2>3, <3>3, <3>4, <4>1, AlarmIsPlanned
      <4> QED
        BY <1>0, <2>1, <4>2 DEF OccupiedRoomBeats
    <3>7. AlarmCoversExpiry'
      <4>1. ASSUME peers = {}, alarmIn' # None
            PROVE  alarmIn' <= Ttl - emptyFor'
        <5>1. emptyFor' = 0
          BY <3>1, <3>2, <4>1
        <5>2. count > 0 => alarmIn' \in Nat /\ alarmIn' <= Heartbeat
          BY <1>0, <2>3, <3>3, <3>4, <5>1, AlarmIsPlanned
        <5>3. count = 0 => alarmIn' = Ttl
          BY <1>0, <3>3, <3>4, <4>1, <5>1, AlarmIsPlanned
        <5> HIDE DEF peers
        <5> QED
          BY <1>0, <3>4, <5>1, <5>2, <5>3
      <4> QED
        BY <2>1, <4>1 DEF AlarmCoversExpiry
    <3> QED
      BY <3>5, <3>6, <3>7 DEF AlarmsSound
  <2> QED
    BY <2>2, <2>3
<1>7. ASSUME NEW age \in 0 .. Ttl, UNCHANGED <<ended, sockets, emptyFor, vacantFor>>,
             alarmIn' = NextAlarm(Cardinality(Open(sockets)), emptyFor, age)
      PROVE  AlarmsSound'
  <2> DEFINE count == Cardinality(Open(sockets))
  <2>1. count \in Nat /\ (count > 0 <=> Open(sockets) # {}) /\ emptyFor \in 0 .. Ttl \cup {None}
    BY OpenIsFinite DEF PresenceShape
  <2> HIDE DEF count
  <2>2. ~ended /\ Open(sockets) # {} => alarmIn' \in Nat /\ alarmIn' <= Heartbeat
    BY <1>7, <2>1, AlarmIsPlanned DEF count
  <2>3. Open(sockets) = {} /\ emptyFor # None /\ alarmIn' # None => alarmIn' = Ttl - emptyFor
    <3>1. Open(sockets) = {} => count = 0
      BY <2>1
    <3> QED
      BY <1>7, <2>1, <3>1, AlarmIsPlanned DEF count
  <2> QED
    BY <1>0, <1>7, <2>1, <2>2, <2>3 DEF AlarmsSound, EmptinessNoted, OccupiedRoomBeats, AlarmCoversExpiry
<1>8. CASE TimerReport
  BY <1>0, <1>7, <1>8 DEF TimerReport, history
<1>9. CASE AlarmReplans
  BY <1>7, <1>9 DEF AlarmReplans, membership, history, PresenceShape
<1>10. CASE End
  BY <1>10 DEF End, EndRoom, AlarmsSound, EmptinessNoted, OccupiedRoomBeats, AlarmCoversExpiry
<1>11. CASE Alarm
  <2>1. /\ UNCHANGED <<emptyFor, vacantFor>> /\ alarmIn' = None
        /\ \/ ended' /\ (ended \/ Open(sockets) = {})
           \/ ~ended' /\ alarmAge' = 0 /\ UNCHANGED <<ended, sockets>>
    BY <1>11 DEF Alarm, EndRoom, Expires, history, PresenceShape
  <2> QED
    BY <1>0, <2>1 DEF AlarmsSound, EmptinessNoted, OccupiedRoomBeats, AlarmCoversExpiry
<1>12. CASE Restart
  <2>1. UNCHANGED <<ended, sockets, emptyFor, vacantFor>> /\ alarmIn' = 0
    BY <1>12 DEF Restart, history
  <2> QED
    BY <1>0, <2>1 DEF AlarmsSound, EmptinessNoted, OccupiedRoomBeats, AlarmCoversExpiry, PresenceShape
<1>13. CASE Tick
  <2>1. /\ UNCHANGED <<ended, sockets>> /\ emptyFor' = Older(emptyFor, Ttl) /\ alarmAge' = Older(alarmAge, Ttl)
        /\ alarmIn' = (IF alarmIn \in {None, 0} THEN alarmIn ELSE alarmIn - 1)
        /\ vacantFor' = (IF Open(sockets) = {} THEN Smaller(vacantFor + 1, Ttl) ELSE 0)
    BY <1>13 DEF Tick
  <2>2. EmptinessNoted'
    BY <1>0, <2>1 DEF EmptinessNoted, Older, Smaller, PresenceShape
  <2>3. OccupiedRoomBeats'
    BY <1>0, <2>1 DEF OccupiedRoomBeats, Older, Smaller, PresenceShape
  <2>4. AlarmCoversExpiry'
    BY <1>0, <2>1 DEF AlarmCoversExpiry, Older, Smaller, PresenceShape
  <2> QED
    BY <2>2, <2>3, <2>4 DEF AlarmsSound
<1>14. CASE UNCHANGED presenceVars
  BY <1>1, <1>14 DEF presenceVars, liveness, history
<1> QED
  BY <1>3, <1>4, <1>5, <1>6, <1>8, <1>9, <1>10, <1>11, <1>12, <1>13, <1>14 DEF PresenceNext, Scheduler

LEMMA PresenceStepKeeps == PresenceInv /\ [PresenceNext]_presenceVars => PresenceInv'
BY StepKeepsShape, StepKeepsRoster, StepKeepsAlarms DEF PresenceInv, AlarmsSound

-----------------------------------------------------------------------------
\* What the room stores of its players and its alarm is true of its sockets, through
\* every interleaving of hellos, departures, alarms and restarts.
THEOREM PresenceAlwaysSound == PresenceSpec => []PresenceIsSound
<1>1. PresenceInv => PresenceIsSound
  BY DEF PresenceInv, Office, PresenceIsSound, RosterFollowsSockets, AlarmFollowsSockets, HostIsPresent
<1> QED
  BY <1>1, InitPresence, PresenceStepKeeps, PTL DEF PresenceSpec

\* The office changes hands only when its holder has left in every tab.
THEOREM HostsKeepOffice == PresenceSpec => HostKeepsOffice
<1>1. ASSUME PresenceInv, [PresenceNext]_presenceVars, host' # host, host # None
      PROVE  host \notin Connected'
  <2>1. PICK s \in SocketSet : Depart(s)
    BY <1>1 DEF PresenceNext, Scheduler, Join, WelcomeLate, MarkActive, Connect, Hello, Authenticate, Welcome,
                TimerReport, End, Restart, Alarm, AlarmReplans, Tick, presenceVars, membership, history
  <2> DEFINE peers == Open(sockets) \ {s}
  <2>2. host = s[1] /\ Gone(s, peers)
    BY <1>1, <2>1 DEF Depart, membership
  <2>3. Authenticated(sockets') \subseteq peers \cap Authenticated(sockets)
    BY <1>1, <2>1, AfterDeparture DEF PresenceInv, Open, Authenticated
  <2> QED
    BY <2>2, <2>3 DEF Connected, PlayersOf, Gone, Authenticated
<1>2. PresenceInv /\ [PresenceNext]_presenceVars =>
        [host' # host /\ host # None => host \notin Connected']_presenceVars
  BY <1>1
<1> QED
  BY <1>2, InitPresence, PresenceStepKeeps, PTL DEF PresenceSpec, HostKeepsOffice

\* The alarm ends a room only after its whole time without a socket.
THEOREM OccupiedNeverExpires == PresenceSpec => NeverExpiresOccupied
<1>1. ASSUME PresenceInv, ended' /\ ~ended, Alarm
      PROVE  vacantFor >= Ttl
  <2>0. Expires
    BY <1>1 DEF Alarm
  <2>1. emptyFor # None /\ emptyFor >= Ttl /\ emptyFor \in Nat /\ vacantFor \in Nat
    <3>1. emptyFor # None /\ emptyFor - 0 >= Ttl
      BY <2>0 DEF Expires, ExpiryDue
    <3>2. emptyFor \in 0 .. Ttl \cup {None} /\ vacantFor \in 0 .. Ttl
      BY <1>1 DEF PresenceInv, PresenceShape
    <3> QED
      BY <3>1, <3>2, PresenceAssumption
  <2>2. emptyFor <= vacantFor
    BY <1>1, <2>1 DEF PresenceInv, EmptinessNoted
  <2> QED
    BY <2>1, <2>2, PresenceAssumption
<1>2. PresenceInv /\ [PresenceNext]_presenceVars =>
        [ended' /\ ~ended /\ Alarm => vacantFor >= Ttl]_presenceVars
  BY <1>1
<1> QED
  BY <1>2, InitPresence, PresenceStepKeeps, PTL DEF PresenceSpec, NeverExpiresOccupied

\* No step takes from those present, for every number of players, tabs and ticks.
THEOREM PresentAlwaysKeep == PresenceSpec => PresentLoseNothing
BY HostsKeepOffice, OccupiedNeverExpires DEF PresentLoseNothing

-----------------------------------------------------------------------------
(***************************************************************************)
(* For every set of timers, every delay, every number of saved seats and   *)
(* every length of the clock: a stored deadline stands for exactly the     *)
(* play time that is left, so no timer fires early, whatever the order of  *)
(* reports, claims, alarms and restarts.                                   *)
(***************************************************************************)
\* The types the argument needs; a pause began in the past, in a started room,
\* and a timer without a row was never put off.
Ground ==
  /\ now \in Nat
  /\ pausedAt \in Nat \cup {NoTime}
  /\ Paused => started /\ pausedAt <= now
  /\ status \in [Timers -> {"unknown", "scheduled", "fired", "canceled"}]
  /\ due \in [Timers -> Nat] /\ left \in [Timers -> Nat]
  /\ deferred \in [Timers -> BOOLEAN]
  /\ \A t \in Timers : status[t] = "unknown" => ~deferred[t]

TimersInv == Ground /\ PauseConsumesNothing

\* No row, no pause: the invariant holds of a new room.
LEMMA InitTimers == TimersInit => TimersInv
BY TimersAssumption DEF TimersInit, TimersInv, Ground, PauseConsumesNothing, Scheduled, Paused

\* Rows stored against the play clock keep the invariant, whether the room is
\* paused from now on or not, as long as the clock stands still.
LEMMA InsertKeeps ==
  ASSUME TimersInv, NEW new, \A t \in new \cap Timers : status[t] = "unknown",
         NEW delay \in [Timers -> Delays], NEW origin \in Nat,
         Insert(new, delay, origin), now' = now,
         pausedAt' \in Nat \cup {NoTime}, Paused' => started' /\ pausedAt' <= now,
         PlayClock' = PlayClock, origin = PlayClock
  PROVE  TimersInv'
<1>1. /\ status' \in [Timers -> {"unknown", "scheduled", "fired", "canceled"}]
      /\ due' \in [Timers -> Nat] /\ left' \in [Timers -> Nat]
      /\ deferred' \in [Timers -> BOOLEAN]
  <2>1. ASSUME NEW t \in Timers
        PROVE  delay[t] \in Nat /\ origin + delay[t] \in Nat
    <3>1. delay[t] \in Delays
      OBVIOUS
    <3>2. delay[t] \in Nat
      BY <3>1, TimersAssumption
    <3> QED
      BY <3>2
  <2>2. due' \in [Timers -> Nat] /\ left' \in [Timers -> Nat]
    BY <2>1 DEF Insert, TimersInv, Ground
  <2>3. /\ status' \in [Timers -> {"unknown", "scheduled", "fired", "canceled"}]
        /\ deferred' \in [Timers -> BOOLEAN]
    BY DEF Insert, TimersInv, Ground
  <2> QED
    BY <2>2, <2>3
<1>2. \A t \in Timers : status'[t] = "unknown" => ~deferred'[t]
  BY DEF Insert, TimersInv, Ground
<1>3. ASSUME NEW t \in Timers, status'[t] = "scheduled"
      PROVE  IF deferred'[t] THEN left'[t] = 0
             ELSE IF due'[t] > PlayClock' THEN left'[t] = due'[t] - PlayClock' ELSE left'[t] = 0
  <2>1. CASE t \in new
    <3>1. ~deferred'[t]
      BY <2>1 DEF Insert, TimersInv, Ground
    <3>2. due'[t] = origin + delay[t] /\ left'[t] = delay[t] /\ delay[t] \in Nat \ {0}
      BY <2>1, TimersAssumption DEF Insert
    <3> QED
      BY <3>1, <3>2
  <2>2. CASE t \notin new
    <3>1. status[t] = "scheduled" /\ due'[t] = due[t] /\ left'[t] = left[t] /\ deferred'[t] = deferred[t]
      BY <2>2, <1>3 DEF Insert
    <3> QED
      BY <3>1 DEF TimersInv, PauseConsumesNothing, Scheduled
  <2> QED
    BY <2>1, <2>2
<1> QED
  BY <1>1, <1>2, <1>3 DEF TimersInv, Ground, PauseConsumesNothing, Scheduled

\* A start pauses at the present instant, so the play clock reads as before.
LEMMA StartKeeps ==
  ASSUME TimersInv, NEW saved \in SUBSET Timers, NEW delay \in [Timers -> Delays],
         NEW n \in 0 .. MaxWaiting, Start(saved, delay, n)
  PROVE  TimersInv'
<1>1. pausedAt = NoTime
  BY DEF Start, TimersInv, Ground, Paused
<1>2. /\ pausedAt' \in Nat \cup {NoTime} /\ (Paused' => started' /\ pausedAt' <= now) /\ now' = now
      /\ PlayClock' = now /\ PlayClock = now /\ now \in Nat
  BY <1>1, TimersAssumption DEF Start, TimersInv, Ground, Paused, PlayClock
<1> DEFINE new == {t \in saved : status[t] = "unknown"}
<1>3. Insert(new, delay, now)
  BY DEF Start
<1>4. \A t \in new \cap Timers : status[t] = "unknown"
  OBVIOUS
<1> HIDE DEF new
<1> QED
  BY <1>2, <1>3, <1>4, InsertKeeps

LEMMA RegisterKeeps ==
  ASSUME TimersInv, NEW t \in Timers, NEW d \in Delays, Register(t, d)
  PROVE  TimersInv'
<1> DEFINE new == IF status[t] = "unknown" THEN {t} ELSE {}
           delay == [u \in Timers |-> d]
<1>1. Insert(new, delay, Origin)
  BY DEF Register
<1>2. delay \in [Timers -> Delays] /\ \A u \in new \cap Timers : status[u] = "unknown"
  OBVIOUS
<1>3. /\ pausedAt' = pausedAt /\ now' = now /\ started' = started
      /\ pausedAt' \in Nat \cup {NoTime} /\ (Paused' => started' /\ pausedAt' <= now)
      /\ PlayClock' = PlayClock /\ Origin = PlayClock /\ Origin \in Nat
  BY DEF Register, room, TimersInv, Ground, Paused, PlayClock, Origin
<1> HIDE DEF new, delay
<1> QED
  BY <1>1, <1>2, <1>3, InsertKeeps

\* The last claim moves every deadline by what the play clock jumps.
LEMMA ClaimKeeps ==
  ASSUME TimersInv, Claim
  PROVE  TimersInv'
<1>1. /\ now' = now /\ started' = started /\ status' = status /\ deferred' = deferred
      /\ left' = left /\ started /\ now \in Nat /\ pausedAt \in Nat /\ pausedAt <= now
      /\ PlayClock = pausedAt
  BY DEF Claim, TimersInv, Ground, Paused, PlayClock
<1>2. CASE ~PauseEnds
  <2>1. pausedAt' = pausedAt /\ due' = due
    BY <1>2 DEF Claim
  <2> QED
    BY <1>1, <2>1 DEF TimersInv, Ground, PauseConsumesNothing, Scheduled, Paused, PlayClock
<1>3. CASE PauseEnds
  <2>1. pausedAt' = NoTime /\ due' = [t \in Timers |-> Resumed(t)]
    BY <1>3 DEF Claim
  <2>2. \A t \in Timers : due[t] \in Nat /\ Resumed(t) \in Nat
    BY <1>1 DEF Resumed, TimersInv, Ground
  <2>3. Ground'
    BY <1>1, <2>1, <2>2 DEF TimersInv, Ground, Paused
  <2>4. PlayClock' = now
    BY <1>1, <2>1 DEF PlayClock, Paused
  <2>5. ASSUME NEW t \in Timers, status[t] = "scheduled"
        PROVE  IF deferred[t] THEN left[t] = 0
               ELSE IF due'[t] > now THEN left[t] = due'[t] - now ELSE left[t] = 0
    <3>1. due'[t] = due[t] + (now - pausedAt) /\ due[t] \in Nat
      BY <2>1, <2>2, <2>5 DEF Resumed
    <3>2. IF deferred[t] THEN left[t] = 0
          ELSE IF due[t] > pausedAt THEN left[t] = due[t] - pausedAt ELSE left[t] = 0
      BY <1>1, <2>5 DEF TimersInv, PauseConsumesNothing, Scheduled
    <3> QED
      BY <1>1, <3>1, <3>2
  <2> QED
    BY <1>1, <2>3, <2>4, <2>5 DEF TimersInv, PauseConsumesNothing, Scheduled
<1> QED
  BY <1>2, <1>3

LEMMA CancelKeeps ==
  ASSUME TimersInv, NEW t \in Timers, Cancel(t)
  PROVE  TimersInv'
<1>1. /\ now' = now /\ pausedAt' = pausedAt /\ started' = started
      /\ due' = due /\ deferred' = deferred /\ left' = left
  BY DEF Cancel, room
<1>2. /\ status' \in [Timers -> {"unknown", "scheduled", "fired", "canceled"}]
      /\ \A u \in Timers : status'[u] \in {"scheduled", "unknown"} => status'[u] = status[u]
  BY DEF Cancel, TimersInv, Ground
<1> QED
  BY <1>1, <1>2 DEF TimersInv, Ground, PauseConsumesNothing, Scheduled, Paused, PlayClock

\* A timer is due when nothing is left of its delay; putting it off keeps that.
LEMMA DueIsSpent ==
  ASSUME TimersInv, NEW t \in Firing
  PROVE  left[t] = 0 /\ ~Paused /\ occupied /\ t \in Scheduled
<1>1. t \in Scheduled /\ occupied /\ ~Paused /\ due[t] <= now /\ PlayClock = now
  BY DEF Firing, PlayClock
<1>2. due[t] \in Nat /\ now \in Nat
  BY <1>1 DEF Scheduled, TimersInv, Ground
<1> QED
  BY <1>1, <1>2 DEF TimersInv, PauseConsumesNothing

LEMMA AlarmKeeps ==
  ASSUME TimersInv, TimerAlarm
  PROVE  TimersInv'
<1> DEFINE put == {t \in Firing : Defers(t)}
           fire == Firing \ put
<1>1. /\ now' = now /\ pausedAt' = pausedAt /\ started' = started /\ left' = left
      /\ status' = [t \in Timers |-> IF t \in fire THEN "fired" ELSE status[t]]
      /\ due' = [t \in Timers |-> IF t \in put THEN now + Grace ELSE due[t]]
      /\ deferred' = [t \in Timers |-> deferred[t] \/ t \in put]
  BY DEF TimerAlarm, room
<1>2. \A t \in put : t \in Firing
  OBVIOUS
<1> HIDE DEF put, fire
<1>3. \A t \in put : left[t] = 0 /\ status[t] = "scheduled"
  BY <1>2, DueIsSpent DEF Scheduled
<1>4. Ground'
  BY <1>1, <1>3, TimersAssumption DEF TimersInv, Ground, Paused
<1>5. PlayClock' = PlayClock
  BY <1>1 DEF PlayClock, Paused
<1>6. ASSUME NEW t \in Timers, status'[t] = "scheduled"
      PROVE  IF deferred'[t] THEN left'[t] = 0
             ELSE IF due'[t] > PlayClock' THEN left'[t] = due'[t] - PlayClock' ELSE left'[t] = 0
  <2>1. CASE t \in put
    BY <2>1, <1>1, <1>3
  <2>2. CASE t \notin put
    <3>1. /\ status[t] = "scheduled" /\ due'[t] = due[t] /\ left'[t] = left[t]
          /\ deferred'[t] = (deferred[t] \/ FALSE)
      BY <2>2, <1>1, <1>6
    <3> QED
      BY <3>1, <1>5 DEF TimersInv, PauseConsumesNothing, Scheduled
  <2> QED
    BY <2>1, <2>2
<1> QED
  BY <1>4, <1>6 DEF TimersInv, PauseConsumesNothing, Scheduled

LEMMA TickKeeps ==
  ASSUME TimersInv, TimerTick
  PROVE  TimersInv'
<1>1. /\ now' = now + 1 /\ now \in Nat /\ pausedAt' = pausedAt /\ started' = started
      /\ status' = status /\ due' = due /\ deferred' = deferred
      /\ (Paused' <=> Paused)
  BY DEF TimerTick, room, rows, TimersInv, Ground, Paused
<1>2. CASE Paused
  <2>1. left' = left /\ PlayClock' = PlayClock
    BY <1>1, <1>2 DEF TimerTick, PlayClock
  <2>2. Ground'
    BY <1>1, <1>2, <2>1, TimersAssumption DEF TimersInv, Ground, Paused
  <2> QED
    BY <1>1, <2>1, <2>2 DEF TimersInv, PauseConsumesNothing, Scheduled
<1>3. CASE ~Paused
  <2>1. left' = [t \in Timers |-> Elapse(left, t)] /\ PlayClock' = now + 1 /\ PlayClock = now
    BY <1>1, <1>3 DEF TimerTick, PlayClock
  <2>2. \A t \in Timers : left[t] \in Nat /\ Elapse(left, t) \in Nat
    <3> SUFFICES ASSUME NEW t \in Timers
                 PROVE  left[t] \in Nat /\ Elapse(left, t) \in Nat
      OBVIOUS
    <3>1. left[t] \in Nat
      BY DEF TimersInv, Ground
    <3>2. CASE status[t] = "scheduled" /\ left[t] > 0
      <4>1. Elapse(left, t) = left[t] - 1
        BY <3>2 DEF Elapse
      <4> QED
        BY <3>1, <3>2, <4>1
    <3>3. CASE ~(status[t] = "scheduled" /\ left[t] > 0)
      <4>1. Elapse(left, t) = left[t]
        BY <3>3 DEF Elapse
      <4> QED
        BY <3>1, <4>1
    <3> QED
      BY <3>2, <3>3
  <2>3. Ground'
    BY <1>1, <1>3, <2>1, <2>2 DEF TimersInv, Ground, Paused
  <2>4. ASSUME NEW t \in Timers, status[t] = "scheduled"
        PROVE  IF deferred[t] THEN left'[t] = 0
               ELSE IF due[t] > now + 1 THEN left'[t] = due[t] - (now + 1) ELSE left'[t] = 0
    <3>1. left'[t] = IF left[t] > 0 THEN left[t] - 1 ELSE left[t]
      BY <2>1, <2>4 DEF Elapse
    <3>2. IF deferred[t] THEN left[t] = 0
          ELSE IF due[t] > now THEN left[t] = due[t] - now ELSE left[t] = 0
      BY <2>1, <2>4 DEF TimersInv, PauseConsumesNothing, Scheduled
    <3>3. due[t] \in Nat /\ left[t] \in Nat /\ now \in Nat
      BY <1>1 DEF TimersInv, Ground
    <3> QED
      BY <3>1, <3>2, <3>3
  <2> QED
    BY <1>1, <2>1, <2>3, <2>4 DEF TimersInv, PauseConsumesNothing, Scheduled
<1> QED
  BY <1>2, <1>3

LEMMA TimersStepKeeps == TimersInv /\ [TimersNext]_timerVars => TimersInv'
<1> SUFFICES ASSUME TimersInv, [TimersNext]_timerVars
             PROVE  TimersInv'
  OBVIOUS
<1>1. ASSUME NEW saved \in SUBSET Timers, NEW delay \in [Timers -> Delays],
             NEW n \in 0 .. MaxWaiting, Start(saved, delay, n)
      PROVE  TimersInv'
  BY <1>1, StartKeeps
<1>2. ASSUME NEW t \in Timers, Cancel(t)
      PROVE  TimersInv'
  BY <1>2, CancelKeeps
<1>3. ASSUME NEW t \in Timers, NEW d \in Delays, Register(t, d)
      PROVE  TimersInv'
  BY <1>3, RegisterKeeps
<1>4. CASE Claim
  BY <1>4, ClaimKeeps
<1>5. CASE TimerAlarm
  BY <1>5, AlarmKeeps
<1>6. CASE TimerTick
  BY <1>6, TickKeeps
<1>7. CASE Act \/ Occupy \/ TimerAlarmReplans \/ TimerRestart \/ UNCHANGED timerVars
  <2>1. UNCHANGED <<now, started, pausedAt, status, due, deferred, left>>
    BY <1>7 DEF Act, Occupy, TimerAlarmReplans, TimerRestart, timerVars, room, rows
  <2> QED
    BY <2>1 DEF TimersInv, Ground, PauseConsumesNothing, Scheduled, Paused, PlayClock
<1> QED
  BY <1>1, <1>2, <1>3, <1>4, <1>5, <1>6, <1>7 DEF TimersNext

\* In every reachable state a stored deadline is what is left of its delay in
\* play time: time spent waiting for saved seats is never charged to a timer.
THEOREM PauseNeverConsumes == TimersSpec => []PauseConsumesNothing
<1>1. TimersInv => PauseConsumesNothing
  BY DEF TimersInv
<1> QED
  BY <1>1, InitTimers, TimersStepKeeps, PTL DEF TimersSpec

\* No timer is fired before its play time has passed, while saved seats are
\* unclaimed, or for an empty room.
THEOREM TimersNeverEarly == TimersSpec => NeverFiresEarly
<1> DEFINE OnTime == \A t \in Timers : status[t] # "fired" /\ status'[t] = "fired" =>
                       left[t] = 0 /\ ~Paused /\ occupied
<1>1. TimersInv /\ [TimersNext]_timerVars => [OnTime]_timerVars
  <2> SUFFICES ASSUME TimersInv, [TimersNext]_timerVars, NEW t \in Timers,
                      status[t] # "fired", status'[t] = "fired"
               PROVE  left[t] = 0 /\ ~Paused /\ occupied
    OBVIOUS
  <2>1. ASSUME NEW saved \in SUBSET Timers, NEW delay \in [Timers -> Delays],
               NEW n \in 0 .. MaxWaiting, Start(saved, delay, n)
        PROVE  FALSE
    BY <2>1 DEF Start, Insert
  <2>2. ASSUME NEW u \in Timers, Cancel(u)
        PROVE  FALSE
    BY <2>2 DEF Cancel, TimersInv, Ground
  <2>3. ASSUME NEW u \in Timers, NEW d \in Delays, Register(u, d)
        PROVE  FALSE
    BY <2>3 DEF Register, Insert
  <2>4. CASE TimerAlarm
    <3>1. t \in Firing
      BY <2>4 DEF TimerAlarm
    <3> QED
      BY <3>1, DueIsSpent
  <2>5. CASE Claim \/ Act \/ Occupy \/ TimerAlarmReplans \/ TimerRestart \/ TimerTick \/ UNCHANGED timerVars
    BY <2>5 DEF Claim, Act, Occupy, TimerAlarmReplans, TimerRestart, TimerTick, timerVars, rows
  <2> QED
    BY <2>1, <2>2, <2>3, <2>4, <2>5 DEF TimersNext
<1> QED
  BY <1>1, InitTimers, TimersStepKeeps, PTL DEF TimersSpec, NeverFiresEarly

\* A timer that was put off once and whose second deadline has passed is fired by
\* the next alarm of an occupied room in play.
THEOREM TimersDeferOnce == TimersSpec => DeferredOnce
<1> DEFINE Fires == TimerAlarm => \A t \in Scheduled :
              occupied /\ ~Paused /\ deferred[t] /\ due[t] <= now => status'[t] = "fired"
<1>1. [TimersNext]_timerVars => [Fires]_timerVars
  <2> SUFFICES ASSUME TimerAlarm, NEW t \in Scheduled, occupied, ~Paused, deferred[t], due[t] <= now
               PROVE  status'[t] = "fired"
    OBVIOUS
  <2>1. t \in Firing /\ ~Defers(t) /\ t \in Timers
    BY DEF Firing, Defers, Scheduled
  <2> QED
    BY <2>1 DEF TimerAlarm
<1> QED
  BY <1>1, PTL DEF TimersSpec, DeferredOnce

\* Timers fire neither early nor, in an occupied room in play, later than the
\* second alarm after their deadline.
THEOREM TimersAlwaysKeepTime == TimersSpec => TimersKeepTheirTime
BY TimersNeverEarly, TimersDeferOnce DEF TimersKeepTheirTime

-----------------------------------------------------------------------------
\* Of timers with whole deadlines some timer has the earliest.
LEMMA EarliestExists ==
  ASSUME NEW du \in [Timers -> Nat], NEW wanted \in SUBSET Timers, wanted # {}
  PROVE  \E t \in wanted : \A u \in wanted : du[t] <= du[u]
<1> DEFINE times == {du[t] : t \in wanted}
<1>1. times \subseteq Nat /\ times # {}
  OBVIOUS
<1>2. \E x \in times : \A y \in times : ~ (<<y, x>> \in OpToRel(<, Nat))
  <2> HIDE DEF times
  <2> QED
    BY <1>1, NatLessThanWellFounded, WFMin
<1>3. PICK x \in times : \A y \in times : ~ (<<y, x>> \in OpToRel(<, Nat))
  BY <1>2
<1>4. \A y \in times : x <= y
  <2> SUFFICES ASSUME NEW y \in times
               PROVE  x <= y
    OBVIOUS
  <2>1. x \in Nat /\ y \in Nat
    BY <1>1
  <2>2. ~ (y < x)
    BY <1>3, <2>1 DEF OpToRel
  <2> QED
    BY <2>1, <2>2
<1>5. PICK t \in wanted : x = du[t]
  OBVIOUS
<1> QED
  BY <1>4, <1>5

\* rescheduleAlarm plans for the earliest scheduled timer.
LEMMA PlannedCovers ==
  ASSUME NEW st, NEW du \in [Timers -> Nat], NEW paused, NEW here
  PROVE  /\ Planned(st, du, paused, here) \in Nat \cup {NoTime}
         /\ ~paused /\ here => \A t \in Timers : st[t] = "scheduled" =>
              Planned(st, du, paused, here) # NoTime /\ Planned(st, du, paused, here) <= du[t]
<1> DEFINE wanted == {t \in Timers : st[t] = "scheduled"}
           first == CHOOSE t \in wanted : \A u \in wanted : du[t] <= du[u]
<1>1. Planned(st, du, paused, here) = IF wanted = {} \/ paused \/ ~here THEN NoTime ELSE du[first]
  BY DEF Planned
<1>2. CASE wanted = {} \/ paused \/ ~here
  BY <1>1, <1>2
<1>3. CASE ~(wanted = {} \/ paused \/ ~here)
  <2>1. first \in wanted /\ \A u \in wanted : du[first] <= du[u]
    BY <1>3, EarliestExists
  <2>2. du[first] \in Nat
    BY <2>1
  <2> HIDE DEF first
  <2> QED
    BY <1>1, <1>3, <2>1, <2>2, TimersAssumption
<1> QED
  BY <1>2, <1>3

AlarmInv == TimersInv /\ alarm \in Nat \cup {NoTime} /\ AlarmCoversTimers

\* Whatever is stored, planning anew covers it.
LEMMA ReplanCovers ==
  ASSUME TimersInv', alarm' = Planned(status', due', Paused', occupied')
  PROVE  AlarmInv'
<1>1. due' \in [Timers -> Nat]
  BY DEF TimersInv, Ground
<1>2. /\ alarm' \in Nat \cup {NoTime}
      /\ ~Paused' /\ occupied' => \A t \in Timers : status'[t] = "scheduled" =>
           alarm' # NoTime /\ alarm' <= due'[t]
  BY <1>1, PlannedCovers
<1> QED
  BY <1>2 DEF AlarmInv, AlarmCoversTimers, Scheduled

LEMMA StepCovers == AlarmInv /\ [TimersNext]_timerVars => AlarmInv'
<1> SUFFICES ASSUME AlarmInv, [TimersNext]_timerVars
             PROVE  AlarmInv'
  OBVIOUS
<1> USE DEF AlarmInv
<1>0. TimersInv'
  BY TimersStepKeeps
<1>1. ASSUME NEW saved \in SUBSET Timers, NEW delay \in [Timers -> Delays],
             NEW n \in 0 .. MaxWaiting, Start(saved, delay, n)
      PROVE  AlarmInv'
  <2>1. /\ pausedAt = NoTime /\ now \in Nat /\ (Paused' <=> n > 0)
        /\ occupied' = occupied /\ handling' = handling /\ now' = now
    BY <1>1, TimersAssumption DEF Start, TimersInv, Ground, Paused
  <2>2. CASE saved = {}
    <3>1. alarm' = alarm /\ \A t \in Timers : status'[t] = status[t] /\ due'[t] = due[t]
      BY <1>1, <2>2 DEF Start, Insert
    <3> QED
      BY <1>0, <2>1, <3>1 DEF AlarmCoversTimers, Scheduled, Paused
  <2>3. CASE saved # {}
    <3>1. alarm' = Planned(status', due', n > 0, occupied)
      BY <1>1, <2>3 DEF Start
    <3> QED
      BY <1>0, <2>1, <3>1, ReplanCovers DEF Planned
  <2> QED
    BY <2>2, <2>3
<1>2. ASSUME NEW t \in Timers, NEW d \in Delays, Register(t, d)
      PROVE  AlarmInv'
  <2>1. alarm' = Planned(status', due', Paused', occupied')
    BY <1>2 DEF Register, room, Paused
  <2> QED
    BY <1>0, <2>1, ReplanCovers
<1>3. ASSUME NEW t \in Timers, Cancel(t)
      PROVE  AlarmInv'
  <2>1. alarm' = Planned(status', due', Paused', occupied')
    BY <1>3 DEF Cancel, room, Paused
  <2> QED
    BY <1>0, <2>1, ReplanCovers
<1>4. CASE Claim
  <2>1. alarm' = Planned(status', due', Paused', occupied')
    BY <1>4 DEF Claim, PlansAfterClaim, Paused
  <2> QED
    BY <1>0, <2>1, ReplanCovers
<1>5. CASE Occupy
  <2>1. alarm' = Planned(status', due', Paused', occupied')
    BY <1>5 DEF Occupy, room, rows, Paused
  <2> QED
    BY <1>0, <2>1, ReplanCovers
<1>6. CASE TimerAlarm
  BY <1>0, <1>6 DEF TimerAlarm, AlarmCoversTimers
<1>7. CASE TimerAlarmReplans
  <2>1. alarm' = Planned(status', due', Paused', occupied')
    BY <1>7 DEF TimerAlarmReplans, room, rows, Paused
  <2> QED
    BY <1>0, <2>1, ReplanCovers
<1>8. CASE TimerRestart
  <2>1. alarm' = now /\ now' = now /\ now \in Nat
    BY <1>8 DEF TimerRestart, TimersInv, Ground
  <2> QED
    BY <1>0, <2>1, TimersAssumption DEF AlarmCoversTimers
<1>9. CASE Act \/ TimerTick \/ UNCHANGED timerVars
  <2>1. /\ UNCHANGED <<pausedAt, status, due, occupied, alarm, handling>>
        /\ now \in Nat /\ now' \in Nat /\ now <= now'
    BY <1>9 DEF Act, TimerTick, timerVars, room, rows, platform, TimersInv, Ground
  <2>2. ASSUME NEW t \in Scheduled, alarm # NoTime, alarm <= due[t] \/ alarm <= now
        PROVE  alarm <= due[t] \/ alarm <= now'
    BY <2>1, <2>2
  <2> QED
    BY <1>0, <2>1, <2>2 DEF AlarmCoversTimers, Scheduled, Paused
<1> QED
  BY <1>1, <1>2, <1>3, <1>4, <1>5, <1>6, <1>7, <1>8, <1>9 DEF TimersNext

\* Whenever play goes on, the room's alarm is set no later than the earliest deadline,
\* through reports, claims, connections, alarms and restarts in any order.
THEOREM AlarmAlwaysCovers == TimersSpec => []AlarmCoversTimers
<1>1. TimersInit => AlarmInv
  BY InitTimers DEF TimersInit, AlarmInv, AlarmCoversTimers, Scheduled
<1>2. AlarmInv => AlarmCoversTimers
  BY DEF AlarmInv
<1> QED
  BY <1>1, <1>2, StepCovers, PTL DEF TimersSpec

\* While the room is paused a saved seat is still unclaimed.
Clocks ==
  /\ started \in BOOLEAN /\ waiting \in 0 .. MaxWaiting /\ (Paused => waiting >= 1)
  /\ lastActionAt \in 0 .. now \cup {NoTime}
  /\ occupied \in BOOLEAN /\ handling \in BOOLEAN

LEMMA StepKeepsClocks ==
  ASSUME AlarmInv, Clocks, [TimersNext]_timerVars
  PROVE  Clocks'
<1>1. now \in Nat /\ pausedAt \in Nat \cup {NoTime}
  BY DEF AlarmInv, TimersInv, Ground
<1>2. ASSUME NEW saved \in SUBSET Timers, NEW delay \in [Timers -> Delays],
             NEW n \in 0 .. MaxWaiting, Start(saved, delay, n)
      PROVE  Clocks'
  BY <1>1, <1>2, TimersAssumption DEF Start, Clocks, Paused
<1>3. ASSUME NEW t \in Timers, NEW d \in Delays, Register(t, d)
      PROVE  Clocks'
  BY <1>3 DEF Register, room, Clocks, Paused
<1>4. ASSUME NEW t \in Timers, Cancel(t)
      PROVE  Clocks'
  BY <1>4 DEF Cancel, room, Clocks, Paused
<1>5. CASE Claim
  <2>1. waiting' = waiting - 1 /\ waiting \in 1 .. MaxWaiting /\ waiting' \in 0 .. MaxWaiting
    BY <1>5, TimersAssumption DEF Claim, Clocks
  <2>2. Paused' => waiting' >= 1
    BY <1>5, <2>1 DEF Claim, PauseEnds, Paused
  <2> QED
    BY <1>1, <1>5, <2>1, <2>2 DEF Claim, Clocks
<1>6. CASE TimerAlarm
  BY <1>1, <1>6 DEF TimerAlarm, room, Clocks, Paused
<1>7. CASE Occupy
  <2>1. occupied' \in BOOLEAN
    BY <1>7 DEF Occupy, Clocks
  <2> QED
    BY <1>7, <2>1 DEF Occupy, room, Clocks, Paused
<1>8. CASE Act
  BY <1>1, <1>8 DEF Act, room, platform, Clocks, Paused
<1>9. CASE TimerAlarmReplans \/ TimerRestart
  BY <1>9 DEF TimerAlarmReplans, TimerRestart, room, Clocks, Paused
<1>10. CASE TimerTick
  BY <1>1, <1>10 DEF TimerTick, room, platform, Clocks, Paused
<1>11. CASE UNCHANGED timerVars
  BY <1>11 DEF timerVars, room, platform, Clocks, Paused
<1> QED
  BY <1>2, <1>3, <1>4, <1>5, <1>6, <1>7, <1>8, <1>9, <1>10, <1>11 DEF TimersNext

\* Every variable keeps its type: in particular no count of unclaimed seats falls
\* below zero, and no instant that is stored lies ahead of the clock.
THEOREM TimersTyped == TimersSpec => []TimersTypeOK
<1>1. TimersInit => AlarmInv /\ Clocks
  <2>1. TimersInit => AlarmInv
    BY InitTimers DEF TimersInit, AlarmInv, AlarmCoversTimers, Scheduled
  <2>2. ASSUME TimersInit
        PROVE  Clocks
    <3>1. started \in BOOLEAN /\ occupied \in BOOLEAN /\ handling \in BOOLEAN
      BY <2>2, Zenon DEF TimersInit
    <3>2. waiting \in 0 .. MaxWaiting /\ ~Paused
      BY <2>2, TimersAssumption DEF TimersInit, Paused
    <3>3. lastActionAt \in 0 .. now \cup {NoTime}
      BY <2>2 DEF TimersInit
    <3> QED
      BY <3>1, <3>2, <3>3 DEF Clocks
  <2> QED
    BY <2>1, <2>2
<1>2. AlarmInv /\ Clocks /\ [TimersNext]_timerVars => (AlarmInv /\ Clocks)'
  BY StepCovers, StepKeepsClocks
<1>3. AlarmInv /\ Clocks => TimersTypeOK
  BY TimersAssumption DEF AlarmInv, TimersInv, Ground, Clocks, TimersTypeOK, Paused
<1> QED
  BY <1>1, <1>2, <1>3, PTL DEF TimersSpec

-----------------------------------------------------------------------------
(***************************************************************************)
(* For every number of players, tabs and hashes, every retention, cadence, *)
(* grace period and length of log and clock: who may confirm a checkpoint, *)
(* and that a disagreement seen inside the window is never confirmed.      *)
(***************************************************************************)
QuorumShape ==
  /\ last \in Nat
  /\ links \in [Voters \X VoterTabs -> {"closed", "handshaking", "bootstrapped"}]
  /\ checkpoint \in [sequence : Nat, hash : Hashes \cup {Null}]
  /\ candidates \in [Cadences -> Candidate \cup {Null}]

\* The room's note of when two players were last there is right whenever it is
\* consulted.
Noted == Cardinality(BootstrappedPlayers) < 2 => lastMulti = together

\* Every attester of a candidate submitted its hash.
Vouched(s, candidate, posts) ==
  \A q \in candidate.attesters : <<s, q, candidate.hash>> \in posts

\* A candidate that is not marked has seen one hash only.
Agrees(s, candidate, posts) ==
  candidate.conflicted \/ \A post \in posts : post[1] = s => post[3] = candidate.hash

\* Inside the window every submission past the checkpoint left a candidate.
Remembered ==
  \A s \in Cadences : s >= RetentionFloor /\ s > checkpoint.sequence =>
    IF candidates[s] = Null THEN \A post \in posted : post[1] # s
    ELSE Agrees(s, candidates[s], posted)

QuorumInv == QuorumShape /\ Noted /\ AttestersVouch /\ Remembered

-----------------------------------------------------------------------------
LEMMA CadencesAreNumbers == Cadences \subseteq Nat
BY QuorumAssumption DEF Cadences

LEMMA InitQuorum == QuorumInit => QuorumInv
<1> SUFFICES ASSUME QuorumInit
             PROVE  QuorumInv
  OBVIOUS
<1>1. QuorumShape /\ Noted
  BY DEF QuorumInit, QuorumShape, Noted
<1>2. AttestersVouch /\ Remembered
  BY DEF QuorumInit, AttestersVouch, Remembered
<1> QED
  BY <1>1, <1>2 DEF QuorumInv

\* What attestCheckpointCandidate returns is a candidate ...
LEMMA ConsideredIsCandidate ==
  ASSUME NEW existing \in Candidate \cup {Null}, NEW p \in Voters, NEW h \in Hashes
  PROVE  Considered(existing, p, h) \in Candidate
BY DEF Considered, Candidate

\* ... whose attesters vouch for its hash ...
LEMMA ConsideredVouches ==
  ASSUME NEW existing \in Candidate \cup {Null}, NEW p \in Voters, NEW h \in Hashes,
         NEW s, NEW posts, existing # Null => Vouched(s, existing, posts)
  PROVE  Vouched(s, Considered(existing, p, h), posts \cup {<<s, p, h>>})
<1>1. CASE existing = Null
  BY <1>1 DEF Considered, Vouched
<1>2. CASE existing # Null /\ existing.hash # h
  BY <1>2 DEF Considered, Vouched, Candidate
<1>3. CASE existing # Null /\ existing.hash = h /\ existing.conflicted
  BY <1>3 DEF Considered, Vouched, Candidate
<1>4. CASE existing # Null /\ existing.hash = h /\ ~existing.conflicted
  <2>1. /\ Considered(existing, p, h).hash = h
        /\ Considered(existing, p, h).attesters = existing.attesters \cup {p}
    BY <1>4 DEF Considered, Candidate
  <2> QED
    BY <1>4, <2>1 DEF Vouched
<1> QED
  BY <1>1, <1>2, <1>3, <1>4

\* ... and which is marked if it has seen two hashes.
LEMMA ConsideredAgrees ==
  ASSUME NEW existing \in Candidate \cup {Null}, NEW p \in Voters, NEW h \in Hashes,
         NEW s, NEW posts,
         IF existing = Null THEN \A post \in posts : post[1] # s ELSE Agrees(s, existing, posts)
  PROVE  Agrees(s, Considered(existing, p, h), posts \cup {<<s, p, h>>})
<1>1. CASE existing = Null
  <2>1. Considered(existing, p, h).hash = h
    BY <1>1 DEF Considered
  <2> QED
    BY <1>1, <2>1 DEF Agrees
<1>2. CASE existing # Null /\ existing.hash # h
  BY <1>2 DEF Considered, Agrees, Candidate
<1>3. CASE existing # Null /\ existing.hash = h /\ existing.conflicted
  BY <1>3 DEF Considered, Agrees, Candidate
<1>4. CASE existing # Null /\ existing.hash = h /\ ~existing.conflicted
  <2>1. Considered(existing, p, h).hash = h
    BY <1>4 DEF Considered, Candidate
  <2>2. \A post \in posts : post[1] = s => post[3] = h
    BY <1>4 DEF Agrees
  <2> QED
    BY <2>1, <2>2 DEF Agrees
<1> QED
  BY <1>1, <1>2, <1>3, <1>4

\* Candidates outside the window are dropped, the others kept.
LEMMA KeptIsSome ==
  ASSUME QuorumInv, NEW c \in Cadences
  PROVE  /\ Kept[c] \in Candidate \cup {Null}
         /\ Kept[c] \in {candidates[c], Null}
         /\ c >= RetentionFloor => Kept[c] = candidates[c]
<1>1. Kept[c] = IF c < RetentionFloor THEN Null ELSE candidates[c]
  BY DEF Kept
<1>2. c \in Nat /\ RetentionFloor \in Nat
  BY CadencesAreNumbers, QuorumAssumption DEF QuorumInv, QuorumShape, RetentionFloor
<1> QED
  BY <1>1, <1>2 DEF QuorumInv, QuorumShape

-----------------------------------------------------------------------------
LEMMA BootstrappedIsFinite ==
  /\ IsFiniteSet(BootstrappedPlayers) /\ IsFiniteSet(BootstrappedPlayers')
  /\ Cardinality(BootstrappedPlayers) \in Nat /\ Cardinality(BootstrappedPlayers') \in Nat
<1>1. BootstrappedPlayers \in SUBSET Voters /\ BootstrappedPlayers' \in SUBSET Voters
  BY DEF BootstrappedPlayers
<1>2. IsFiniteSet(Voters)
  BY QuorumAssumption
<1>3. IsFiniteSet(BootstrappedPlayers) /\ IsFiniteSet(BootstrappedPlayers')
  BY <1>1, <1>2, FS_Subset
<1> QED
  BY <1>3, FS_CardinalityType

\* Nobody leaves but by a departure.
LEMMA OnlyDeparturesLeave ==
  ASSUME QuorumShape, QuorumStep, ~ \E p \in Voters, t \in VoterTabs : DepartTab(p, t)
  PROVE  Cardinality(BootstrappedPlayers) <= Cardinality(BootstrappedPlayers')
<1>1. BootstrappedPlayers \in SUBSET BootstrappedPlayers'
  <2>1. ASSUME NEW p \in Voters, NEW t \in VoterTabs, AuthenticateTab(p, t) \/ BootstrapTab(p, t)
        PROVE  BootstrappedPlayers \in SUBSET BootstrappedPlayers'
    <3>1. \A s \in Voters \X VoterTabs :
            links[s] = "bootstrapped" => links'[s] = "bootstrapped"
      BY <2>1 DEF AuthenticateTab, BootstrapTab, QuorumShape
    <3>2. ASSUME NEW q \in Voters, NEW u \in VoterTabs, links[<<q, u>>] = "bootstrapped"
          PROVE  links'[<<q, u>>] = "bootstrapped"
      <4>1. <<q, u>> \in Voters \X VoterTabs
        OBVIOUS
      <4> QED
        BY <3>1, <3>2, <4>1
    <3> QED
      BY <3>2 DEF BootstrappedPlayers
  <2>2. CASE links' = links
    BY <2>2 DEF BootstrappedPlayers
  <2> QED
    BY <2>1, <2>2 DEF QuorumStep, Sequence, QuorumTick, Refuse, Attest
<1> QED
  BY <1>1, BootstrappedIsFinite, FS_Subset

\* The note is kept by every step: the second player's arrival and the departure
\* of one of two are noted when they happen.
LEMMA NotedKeeps ==
  ASSUME QuorumShape, Noted, QuorumNext
  PROVE  Noted'
<1> SUFFICES ASSUME Cardinality(BootstrappedPlayers') < 2
             PROVE  lastMulti' = together'
  BY DEF Noted
<1>0. /\ Cardinality(BootstrappedPlayers) \in Nat /\ Cardinality(BootstrappedPlayers') \in Nat
      /\ together' = (IF Cardinality(BootstrappedPlayers) >= 2 THEN clock ELSE together)
      /\ QuorumStep
  BY BootstrappedIsFinite DEF QuorumNext
<1>1. ASSUME NEW p \in Voters, NEW t \in VoterTabs, DepartTab(p, t)
      PROVE  lastMulti' = together'
  <2>1. lastMulti' = IF Cardinality(BootstrappedPlayers) >= 2 THEN clock ELSE lastMulti
    BY <1>1 DEF DepartTab
  <2> QED
    BY <1>0, <2>1 DEF Noted
<1>2. CASE ~ \E p \in Voters, t \in VoterTabs : DepartTab(p, t)
  <2>1. ~(Cardinality(BootstrappedPlayers) >= 2) /\ together' = together /\ lastMulti = together
    BY <1>0, <1>2, OnlyDeparturesLeave DEF Noted
  <2>2. lastMulti' = lastMulti
    <3>1. MultiNow = lastMulti
      BY <2>1 DEF MultiNow
    <3>2. ASSUME NEW p \in Voters, NEW t \in VoterTabs, BootstrapTab(p, t)
          PROVE  lastMulti' = lastMulti
      <4>1. lastMulti' = IF Cardinality(BootstrappedPlayers') >= 2 THEN clock ELSE lastMulti
        BY <3>2 DEF BootstrapTab
      <4> QED
        BY <1>0, <4>1
    <3>3. ASSUME NEW p \in Voters, NEW s \in Cadences, NEW h \in Hashes, Attest(p, s, h)
          PROVE  lastMulti' = lastMulti
      BY <3>1, <3>3 DEF Attest
    <3>4. ASSUME NEW p \in Voters, Refuse(p)
          PROVE  lastMulti' = lastMulti
      BY <3>1, <3>4 DEF Refuse
    <3>5. ASSUME NEW p \in Voters, NEW t \in VoterTabs, AuthenticateTab(p, t)
          PROVE  lastMulti' = lastMulti
      BY <3>5 DEF AuthenticateTab
    <3>6. CASE Sequence \/ QuorumTick
      BY <3>6 DEF Sequence, QuorumTick
    <3> QED
      BY <1>0, <1>2, <3>2, <3>3, <3>4, <3>5, <3>6 DEF QuorumStep
  <2> QED
    BY <2>1, <2>2
<1> QED
  BY <1>1, <1>2

-----------------------------------------------------------------------------
\* A submission that is not confirmed, or is, leaves the tables in order.
LEMMA AttestKeeps ==
  ASSUME QuorumInv, NEW p \in Voters, NEW s \in Cadences, NEW h \in Hashes, Attest(p, s, h)
  PROVE  QuorumShape' /\ AttestersVouch' /\ Remembered'
<1>0. links' = links
  BY DEF Attest
<1> DEFINE candidate == Considered(Kept[s], p, h)
           posts == posted \cup {<<s, p, h>>}
<1>1. /\ posted' = posts /\ last' = last /\ RetentionFloor' = RetentionFloor
      /\ s > checkpoint.sequence /\ s \in Nat /\ checkpoint.sequence \in Nat
  BY CadencesAreNumbers DEF Attest, Attestable, RetentionFloor, QuorumInv, QuorumShape
<1>2. \A c \in Cadences : /\ Kept[c] \in Candidate \cup {Null}
                          /\ Kept[c] \in {candidates[c], Null}
                          /\ c >= RetentionFloor => Kept[c] = candidates[c]
  BY KeptIsSome
<1>3. candidate \in Candidate /\ candidate # Null
  BY <1>2, ConsideredIsCandidate, QuorumAssumption
<1>4. Vouched(s, candidate, posts)
  <2>1. Kept[s] # Null => Vouched(s, Kept[s], posted)
    BY <1>2 DEF QuorumInv, AttestersVouch, Vouched
  <2> QED
    BY <1>2, <2>1, ConsideredVouches
<1>5. s >= RetentionFloor => Agrees(s, candidate, posts)
  <2>1. s >= RetentionFloor =>
          IF Kept[s] = Null THEN \A post \in posted : post[1] # s ELSE Agrees(s, Kept[s], posted)
    BY <1>1, <1>2 DEF QuorumInv, Remembered
  <2> QED
    BY <1>2, <2>1, ConsideredAgrees
<1>6. CASE Confirms(candidate, h)
  <2>1. /\ checkpoint' = [sequence |-> s, hash |-> h]
        /\ candidates' = [c \in Cadences |-> IF c <= s THEN Null ELSE Kept[c]]
    BY <1>6 DEF Attest
  <2>2. QuorumShape'
    BY <1>0, <1>1, <1>2, <2>1 DEF QuorumInv, QuorumShape
  <2>3. ASSUME NEW c \in Cadences, candidates'[c] # Null
        PROVE  /\ c > checkpoint'.sequence
               /\ \A q \in candidates'[c].attesters : <<c, q, candidates'[c].hash>> \in posted'
    <3>1. c \in Nat /\ ~(c <= s) /\ candidates'[c] = candidates[c]
      BY <2>1, <2>3, <1>2, CadencesAreNumbers
    <3> QED
      BY <1>1, <2>1, <2>3, <3>1 DEF QuorumInv, AttestersVouch
  <2>4. ASSUME NEW c \in Cadences, c >= RetentionFloor', c > checkpoint'.sequence
        PROVE  IF candidates'[c] = Null THEN \A post \in posted' : post[1] # c
               ELSE Agrees(c, candidates'[c], posted')
    <3>1. c \in Nat /\ c > s /\ c > checkpoint.sequence /\ c >= RetentionFloor
      BY <1>1, <2>1, <2>4, CadencesAreNumbers
    <3>2. candidates'[c] = candidates[c]
      BY <1>1, <1>2, <2>1, <3>1
    <3>3. \A post \in posted' : post[1] = c => post \in posted
      BY <1>1, <3>1
    <3> QED
      BY <3>1, <3>2, <3>3 DEF QuorumInv, Remembered, Agrees
  <2> QED
    BY <2>2, <2>3, <2>4 DEF AttestersVouch, Remembered
<1>7. CASE ~Confirms(candidate, h)
  <2>1. checkpoint' = checkpoint /\ candidates' = [Kept EXCEPT ![s] = candidate]
    BY <1>7 DEF Attest
  <2>2. \A c \in Cadences : candidates'[c] = IF c = s THEN candidate ELSE Kept[c]
    BY <2>1 DEF Kept
  <2>3. candidates' \in [Cadences -> Candidate \cup {Null}]
    BY <1>2, <1>3, <2>1 DEF Kept
  <2>4. QuorumShape'
    BY <1>0, <1>1, <2>1, <2>3 DEF QuorumInv, QuorumShape
  <2>5. ASSUME NEW c \in Cadences, candidates'[c] # Null
        PROVE  /\ c > checkpoint'.sequence
               /\ \A q \in candidates'[c].attesters : <<c, q, candidates'[c].hash>> \in posted'
    <3>1. CASE c = s
      BY <1>1, <1>4, <2>1, <2>2, <3>1 DEF Vouched
    <3>2. CASE c # s
      <4>1. candidates'[c] = candidates[c] /\ checkpoint' = checkpoint
        BY <1>2, <2>1, <2>2, <2>5, <3>2
      <4>2. posted \subseteq posted'
        BY <1>1
      <4>3. /\ c > checkpoint.sequence
            /\ \A q \in candidates[c].attesters : <<c, q, candidates[c].hash>> \in posted
        BY <2>5, <4>1 DEF QuorumInv, AttestersVouch
      <4> QED
        BY <4>1, <4>2, <4>3
    <3> QED
      BY <3>1, <3>2
  <2>6. ASSUME NEW c \in Cadences, c >= RetentionFloor', c > checkpoint'.sequence
        PROVE  IF candidates'[c] = Null THEN \A post \in posted' : post[1] # c
               ELSE Agrees(c, candidates'[c], posted')
    <3>1. CASE c = s
      BY <1>1, <1>3, <1>5, <2>2, <2>6, <3>1
    <3>2. CASE c # s
      <4>1. candidates'[c] = candidates[c] /\ c >= RetentionFloor /\ c > checkpoint.sequence
        BY <1>1, <1>2, <2>1, <2>2, <2>6, <3>2
      <4>2. \A post \in posted' : post[1] = c => post \in posted
        BY <1>1, <3>2
      <4> QED
        BY <4>1, <4>2 DEF QuorumInv, Remembered, Agrees
    <3> QED
      BY <3>1, <3>2
  <2> QED
    BY <2>4, <2>5, <2>6 DEF AttestersVouch, Remembered
<1> QED
  BY <1>6, <1>7

\* When the log grows the window moves on and asks for less.
LEMMA SequenceKeeps ==
  ASSUME QuorumInv, Sequence
  PROVE  QuorumShape' /\ AttestersVouch' /\ Remembered'
<1>1. /\ last' = last + 1 /\ last \in Nat /\ checkpoint' = checkpoint
      /\ candidates' = candidates /\ posted' = posted /\ links' = links
  BY DEF Sequence, QuorumInv, QuorumShape
<1>2. RetentionFloor' >= RetentionFloor /\ RetentionFloor \in Nat /\ RetentionFloor' \in Nat
  BY <1>1, QuorumAssumption DEF RetentionFloor
<1>3. \A c \in Cadences : c >= RetentionFloor' => c >= RetentionFloor
  BY <1>2, CadencesAreNumbers
<1> QED
  BY <1>1, <1>3 DEF QuorumInv, QuorumShape, AttestersVouch, Remembered

LEMMA QuorumStepKeeps == QuorumInv /\ [QuorumNext]_quorumVars => QuorumInv'
<1> SUFFICES ASSUME QuorumInv, [QuorumNext]_quorumVars
             PROVE  QuorumInv'
  OBVIOUS
<1>1. CASE UNCHANGED quorumVars
  BY <1>1 DEF quorumVars, QuorumInv, QuorumShape, Noted, AttestersVouch, Remembered, Agrees, RetentionFloor,
              BootstrappedPlayers
<1>2. CASE QuorumNext
  <2>1. Noted'
    BY <1>2, NotedKeeps DEF QuorumInv
  <2>2. QuorumShape' /\ AttestersVouch' /\ Remembered'
    <3>1. ASSUME NEW p \in Voters, NEW s \in Cadences, NEW h \in Hashes, Attest(p, s, h)
          PROVE  QuorumShape' /\ AttestersVouch' /\ Remembered'
      BY <3>1, AttestKeeps
    <3>2. CASE Sequence
      BY <3>2, SequenceKeeps
    <3>3. CASE /\ UNCHANGED <<last, checkpoint, candidates, posted>>
               /\ links' \in [Voters \X VoterTabs -> {"closed", "handshaking", "bootstrapped"}]
      BY <3>3 DEF QuorumInv, QuorumShape, AttestersVouch, Remembered, Agrees, RetentionFloor
    <3>4. ASSUME NEW p \in Voters, NEW t \in VoterTabs,
                 AuthenticateTab(p, t) \/ BootstrapTab(p, t) \/ DepartTab(p, t)
          PROVE  QuorumShape' /\ AttestersVouch' /\ Remembered'
      <4>1. UNCHANGED <<last, checkpoint, candidates, posted>>
        BY <3>4 DEF AuthenticateTab, BootstrapTab, DepartTab
      <4>2. links' \in [Voters \X VoterTabs -> {"closed", "handshaking", "bootstrapped"}]
        BY <3>4 DEF AuthenticateTab, BootstrapTab, DepartTab, QuorumInv, QuorumShape
      <4> QED
        BY <3>3, <4>1, <4>2
    <3>5. ASSUME QuorumTick \/ \E p \in Voters : Refuse(p)
          PROVE  QuorumShape' /\ AttestersVouch' /\ Remembered'
      <4>1. UNCHANGED <<last, checkpoint, candidates, posted, links>>
        BY <3>5 DEF QuorumTick, Refuse
      <4> QED
        BY <3>3, <4>1 DEF QuorumInv, QuorumShape
    <3> QED
      BY <1>2, <3>1, <3>2, <3>4, <3>5 DEF QuorumNext, QuorumStep
  <2> QED
    BY <2>1, <2>2 DEF QuorumInv
<1> QED
  BY <1>1, <1>2

-----------------------------------------------------------------------------
\* Every stored attester has submitted the hash it is counted for.
THEOREM AttestersAlwaysVouch == QuorumSpec => []AttestersVouch
<1>1. QuorumInv => AttestersVouch
  BY DEF QuorumInv
<1> QED
  BY <1>1, InitQuorum, QuorumStepKeeps, PTL DEF QuorumSpec

\* Only a submission changes the checkpoint, and only when it is confirmed.
LEMMA OnlyConfirmed ==
  ASSUME QuorumInv, [QuorumNext]_quorumVars, checkpoint' # checkpoint
  PROVE  \E p \in BootstrappedPlayers, s \in Cadences, h \in Hashes :
           /\ Attest(p, s, h)
           /\ Confirms(Considered(Kept[s], p, h), h)
           /\ checkpoint' = [sequence |-> s, hash |-> h]
           /\ posted' = posted \cup {<<s, p, h>>}
<1>1. PICK p \in Voters, s \in Cadences, h \in Hashes : Attest(p, s, h)
  BY DEF QuorumNext, QuorumStep, Sequence, QuorumTick, AuthenticateTab, BootstrapTab, DepartTab, Refuse, quorumVars
<1>2. p \in BootstrappedPlayers /\ posted' = posted \cup {<<s, p, h>>}
  BY <1>1 DEF Attest
<1>3. Confirms(Considered(Kept[s], p, h), h) /\ checkpoint' = [sequence |-> s, hash |-> h]
  BY <1>1 DEF Attest
<1> QED
  BY <1>1, <1>2, <1>3

\* A checkpoint is confirmed by two present players with the same hash, or by the
\* only present one when no two have been there for the grace period.
THEOREM CheckpointsNeedQuorum == QuorumSpec => ConfirmedByQuorum
<1> DEFINE vouches(q) == <<checkpoint'.sequence, q, checkpoint'.hash>> \in posted'
           Quorum == \/ \E p, q \in BootstrappedPlayers : p # q /\ vouches(p) /\ vouches(q)
                     \/ \E p \in BootstrappedPlayers :
                          /\ BootstrappedPlayers = {p} /\ vouches(p)
                          /\ together = Null \/ clock - together >= SoloGrace
<1>1. ASSUME QuorumInv, [QuorumNext]_quorumVars, checkpoint' # checkpoint
      PROVE  Quorum
  <2>1. PICK p \in BootstrappedPlayers, s \in Cadences, h \in Hashes :
               /\ Attest(p, s, h)
               /\ Confirms(Considered(Kept[s], p, h), h)
               /\ checkpoint' = [sequence |-> s, hash |-> h]
               /\ posted' = posted \cup {<<s, p, h>>}
    BY <1>1, OnlyConfirmed
  <2> DEFINE candidate == Considered(Kept[s], p, h)
             voters == candidate.attesters \cap BootstrappedPlayers
  <2>2. Kept[s] \in Candidate \cup {Null} /\ Kept[s] \in {candidates[s], Null}
    BY <1>1, KeptIsSome
  <2>3. Vouched(s, candidate, posted') /\ p \in Voters
    <3>1. Kept[s] # Null => Vouched(s, Kept[s], posted)
      BY <1>1, <2>2 DEF QuorumInv, AttestersVouch, Vouched
    <3>2. p \in Voters
      BY DEF BootstrappedPlayers
    <3> QED
      BY <2>1, <2>2, <3>1, <3>2, ConsideredVouches
  <2>4. candidate.hash = h /\ Cardinality(voters) >= Required
    BY <2>1 DEF Confirms
  <2>5. \A q \in voters : q \in BootstrappedPlayers /\ vouches(q)
    BY <2>1, <2>3, <2>4 DEF Vouched
  <2> HIDE DEF candidate
  <2>6. IsFiniteSet(voters) /\ Cardinality(voters) \in Nat
    <3>1. voters \in SUBSET BootstrappedPlayers
      OBVIOUS
    <3>2. IsFiniteSet(voters)
      BY <3>1, BootstrappedIsFinite, FS_Subset
    <3> QED
      BY <3>2, FS_CardinalityType
  <2> HIDE DEF voters, vouches
  <2>7. voters # {}
    BY <2>4, <2>6, FS_EmptySet DEF Required
  <2>8. PICK q \in voters : TRUE
    BY <2>7
  <2>9. CASE \E r \in voters : r # q
    BY <2>9, <2>8, <2>5
  <2>10. CASE ~ \E r \in voters : r # q
    <3>1. voters = {q}
      BY <2>8, <2>10
    <3>2. Required # 2
      <4>1. Cardinality(voters) = 1
        BY <3>1, FS_Singleton
      <4> QED
        BY <2>4, <4>1
    <3>3. /\ Cardinality(BootstrappedPlayers) = 1
          /\ MultiNow = Null \/ clock - MultiNow >= SoloGrace
      BY <3>2 DEF Required
    <3>4. BootstrappedPlayers = {q}
      BY <3>3, <2>5, <2>8, BootstrappedIsFinite, FS_Singleton
    <3>5. MultiNow = together
      BY <1>1, <3>3 DEF QuorumInv, Noted, MultiNow
    <3> QED
      BY <2>5, <2>8, <3>3, <3>4, <3>5
  <2> QED
    BY <2>9, <2>10
<1>2. QuorumInv /\ [QuorumNext]_quorumVars => [checkpoint' # checkpoint => Quorum]_quorumVars
  BY <1>1
<1> QED
  BY <1>2, InitQuorum, QuorumStepKeeps, PTL DEF QuorumSpec, ConfirmedByQuorum

\* A sequence about which two submissions disagreed is not confirmed while it is
\* inside the retained window.
THEOREM DisputesHoldInWindow == QuorumSpec => ConflictHoldsInWindow
<1>1. ASSUME QuorumInv, [QuorumNext]_quorumVars, checkpoint' # checkpoint,
             checkpoint'.sequence >= RetentionFloor
      PROVE  ~Disputed(checkpoint'.sequence, posted')
  <2>1. PICK p \in BootstrappedPlayers, s \in Cadences, h \in Hashes :
               /\ Attest(p, s, h)
               /\ Confirms(Considered(Kept[s], p, h), h)
               /\ checkpoint' = [sequence |-> s, hash |-> h]
               /\ posted' = posted \cup {<<s, p, h>>}
    BY <1>1, OnlyConfirmed
  <2>2. s >= RetentionFloor /\ s > checkpoint.sequence /\ p \in Voters
    BY <1>1, <2>1 DEF Attest, Attestable, BootstrappedPlayers
  <2>3. /\ Kept[s] \in Candidate \cup {Null}
        /\ IF Kept[s] = Null THEN \A post \in posted : post[1] # s ELSE Agrees(s, Kept[s], posted)
    BY <1>1, <2>2, KeptIsSome DEF QuorumInv, Remembered
  <2>4. Agrees(s, Considered(Kept[s], p, h), posted')
    BY <2>1, <2>2, <2>3, ConsideredAgrees
  <2>5. \A post \in posted' : post[1] = s => post[3] = h
    BY <2>1, <2>4 DEF Agrees, Confirms
  <2> QED
    BY <2>1, <2>5 DEF Disputed
<1>2. QuorumInv /\ [QuorumNext]_quorumVars =>
        [checkpoint' # checkpoint /\ checkpoint'.sequence >= RetentionFloor =>
           ~Disputed(checkpoint'.sequence, posted')]_quorumVars
  BY <1>1
<1> QED
  BY <1>2, InitQuorum, QuorumStepKeeps, PTL DEF QuorumSpec, ConflictHoldsInWindow

\* Every checkpoint a scripted room confirms was earned, for every set of players,
\* tabs and hashes, every retention, cadence and grace period.
THEOREM CheckpointsAlwaysEarned == QuorumSpec => CheckpointsAreEarned
BY CheckpointsNeedQuorum, DisputesHoldInWindow DEF CheckpointsAreEarned

-----------------------------------------------------------------------------
\* The window, the clock and the submissions: nothing is attested ahead of the log,
\* and no note of two players lies ahead of the clock.
InWindow ==
  /\ last \in 0 .. MaxLast /\ clock \in 0 .. MaxClock
  /\ checkpoint.sequence \in 0 .. last
  /\ lastMulti \in 0 .. clock \cup {Null} /\ together \in 0 .. clock \cup {Null}
  /\ posted \subseteq Cadences \X Voters \X Hashes

LEMMA StepKeepsWindow ==
  ASSUME QuorumInv, InWindow, [QuorumNext]_quorumVars
  PROVE  InWindow'
<1>1. CASE UNCHANGED quorumVars
  BY <1>1 DEF quorumVars, InWindow
<1>2. CASE QuorumNext
  <2>1. QuorumStep /\ together' \in {clock, together}
    BY <1>2 DEF QuorumNext
  <2>2. last \in Nat /\ clock \in Nat /\ checkpoint.sequence \in Nat /\ MultiNow \in {clock, lastMulti}
    BY DEF InWindow, MultiNow
  <2>3. CASE Sequence
    BY <2>1, <2>2, <2>3, QuorumAssumption DEF Sequence, InWindow
  <2>4. CASE QuorumTick
    BY <2>1, <2>2, <2>4, QuorumAssumption DEF QuorumTick, InWindow
  <2>5. ASSUME NEW p \in Voters, NEW t \in VoterTabs,
               AuthenticateTab(p, t) \/ BootstrapTab(p, t) \/ DepartTab(p, t)
        PROVE  InWindow'
    <3>1. UNCHANGED <<last, checkpoint, clock, posted>> /\ lastMulti' \in {clock, lastMulti}
      BY <2>5 DEF AuthenticateTab, BootstrapTab, DepartTab
    <3> QED
      BY <2>1, <2>2, <3>1 DEF InWindow
  <2>6. ASSUME NEW p \in Voters, Refuse(p)
        PROVE  InWindow'
    BY <2>1, <2>2, <2>6 DEF Refuse, InWindow
  <2>7. ASSUME NEW p \in Voters, NEW s \in Cadences, NEW h \in Hashes, Attest(p, s, h)
        PROVE  InWindow'
    <3>1. s \in Nat /\ s <= last
      BY <2>7, CadencesAreNumbers DEF Attest, Attestable
    <3>2. checkpoint' = checkpoint \/ checkpoint'.sequence = s
      BY <2>7 DEF Attest
    <3>3. /\ last' = last /\ clock' = clock /\ lastMulti' = MultiNow
          /\ posted' = posted \cup {<<s, p, h>>}
      BY <2>7 DEF Attest
    <3> QED
      BY <2>1, <2>2, <3>1, <3>2, <3>3 DEF InWindow
  <2> QED
    BY <2>1, <2>3, <2>4, <2>5, <2>6, <2>7 DEF QuorumStep
<1> QED
  BY <1>1, <1>2

\* Every variable keeps its type; in particular the checkpoint never runs ahead of
\* the log, and a room never notes two players at a time still to come.
THEOREM QuorumTyped == QuorumSpec => []QuorumTypeOK
<1>1. QuorumInit => InWindow
  BY QuorumAssumption DEF QuorumInit, InWindow
<1>2. QuorumInv /\ InWindow /\ [QuorumNext]_quorumVars => (QuorumInv /\ InWindow)'
  BY QuorumStepKeeps, StepKeepsWindow
<1>3. QuorumInv /\ InWindow => QuorumTypeOK
  BY DEF QuorumInv, QuorumShape, InWindow, QuorumTypeOK
<1> QED
  BY <1>1, <1>2, <1>3, InitQuorum, PTL DEF QuorumSpec
===============================================================================
