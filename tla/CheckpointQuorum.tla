--------------------------- MODULE CheckpointQuorum ---------------------------
(***************************************************************************)
(* Client-attested checkpoints of a scripted room: RoomDO.attestCheckpoint *)
(* and attestCheckpointCandidate (apps/worker/src/index.ts, room-core.ts), *)
(* with the sockets whose bootstrap completed and the clock they depend  *)
(* on.  RoomLog shows what a confirmed checkpoint does to the log; this    *)
(* module shows who may confirm one.                                       *)
(*                                                                         *)
(* A submission the room refuses before it reads the candidate (too old,   *)
(* rate limited, malformed) leaves the attestation tables alone.           *)
(***************************************************************************)
EXTENDS Integers, FiniteSets

CONSTANTS
  Voters,      \* holders of a room token
  VoterTabs,   \* sockets a player may have open at once
  Hashes,      \* state hashes clients compute; they differ when clients diverge
  Retention,   \* ACTION_RETENTION
  Interval,    \* CHECKPOINT_INTERVAL
  SoloGrace,   \* CHECKPOINT_SOLO_GRACE_MS
  MaxLast,     \* bound: length of the log
  MaxClock,    \* bound: the clock
  Null         \* null

\* A row of checkpoint_candidates with its rows of checkpoint_attesters.
Candidate == [hash : Hashes, attesters : SUBSET Voters, conflicted : BOOLEAN]

ASSUME QuorumAssumption ==
  /\ Retention \in Nat \ {0} /\ Interval \in Nat \ {0} /\ SoloGrace \in Nat \ {0}
  /\ MaxLast \in Nat /\ MaxClock \in Nat /\ IsFiniteSet(Voters)
  /\ Null \notin Nat /\ Null \notin Candidate

VARIABLES
  last,        \* room.last_sequence
  checkpoint,  \* the attested checkpoint: its sequence, 0 for none, and hash
  candidates,  \* checkpoint_candidates and checkpoint_attesters by sequence
  links,       \* the room's web sockets: "closed", "handshaking", "bootstrapped"
  lastMulti,   \* room.last_multi_bootstrap_at
  clock,       \* Date.now()
  \* history, read by the properties only
  posted,      \* <<sequence, player, hash>> of every submission considered
  together     \* when two players were last bootstrapped at the same time

quorumVars == <<last, checkpoint, candidates, links, lastMulti, clock, posted, together>>

-----------------------------------------------------------------------------
Cadences == {s \in 1 .. MaxLast : s % Interval = 0}

\* bootstrappedPlayerIds.
BootstrappedPlayers == {p \in Voters : \E t \in VoterTabs : links[<<p, t>>] = "bootstrapped"}

\* retentionFloor of the window that loadCore reads.
RetentionFloor == IF last > Retention THEN last - Retention + 1 ELSE 1

QuorumInit ==
  /\ last = 0 /\ checkpoint = [sequence |-> 0, hash |-> Null]
  /\ candidates = [s \in Cadences |-> Null]
  /\ links = [s \in Voters \X VoterTabs |-> "closed"]
  /\ lastMulti = Null /\ clock = 0
  /\ posted = {} /\ together = Null

-----------------------------------------------------------------------------
\* Anything sequences an action; its rows are the window seen above.
Sequence ==
  /\ last < MaxLast
  /\ last' = last + 1
  /\ UNCHANGED <<checkpoint, candidates, links, lastMulti, clock, posted>>

QuorumTick ==
  /\ clock < MaxClock
  /\ clock' = clock + 1
  /\ UNCHANGED <<last, checkpoint, candidates, links, lastMulti, posted>>

AuthenticateTab(p, t) ==
  /\ links[<<p, t>>] = "closed"
  /\ links' = [links EXCEPT ![<<p, t>>] = "handshaking"]
  /\ UNCHANGED <<last, checkpoint, candidates, lastMulti, clock, posted>>

\* afterHelloSent: the reply is out; recordMultiBootstrapPresence.
BootstrapTab(p, t) ==
  /\ links[<<p, t>>] = "handshaking"
  /\ links' = [links EXCEPT ![<<p, t>>] = "bootstrapped"]
  /\ lastMulti' = IF Cardinality(BootstrappedPlayers') >= 2 THEN clock ELSE lastMulti
  /\ UNCHANGED <<last, checkpoint, candidates, clock, posted>>

\* handleSocketDeparture: with the departing socket two players were there.
DepartTab(p, t) ==
  /\ links[<<p, t>>] # "closed"
  /\ links' = [links EXCEPT ![<<p, t>>] = "closed"]
  /\ lastMulti' = IF Cardinality(BootstrappedPlayers) >= 2 THEN clock ELSE lastMulti
  /\ UNCHANGED <<last, checkpoint, candidates, clock, posted>>

-----------------------------------------------------------------------------
\* What attestCheckpoint records before it looks at the submission.
MultiNow == IF Cardinality(BootstrappedPlayers) >= 2 THEN clock ELSE lastMulti

Required ==
  IF /\ Cardinality(BootstrappedPlayers) = 1
     /\ MultiNow = Null \/ clock - MultiNow >= SoloGrace
  THEN 1 ELSE 2

\* Candidates below the retention floor are deleted first.
Kept == [c \in Cadences |-> IF c < RetentionFloor THEN Null ELSE candidates[c]]

\* Fault: a disagreement is reported but not remembered.
Considered_ForgetsConflict(existing, p, h) ==
  IF existing = Null THEN [hash |-> h, attesters |-> {p}, conflicted |-> FALSE]
  ELSE IF existing.hash # h \/ existing.conflicted THEN existing
  ELSE [existing EXCEPT !.attesters = @ \cup {p}]

\* attestCheckpointCandidate: the candidate after p submits hash h.
Considered(existing, p, h) ==
  IF existing = Null THEN [hash |-> h, attesters |-> {p}, conflicted |-> FALSE]
  ELSE IF existing.hash # h THEN [existing EXCEPT !.conflicted = TRUE]
  ELSE IF existing.conflicted THEN existing
  ELSE [existing EXCEPT !.attesters = @ \cup {p}]

Confirms(candidate, h) ==
  /\ candidate.hash = h /\ ~candidate.conflicted
  /\ Cardinality(candidate.attesters \cap BootstrappedPlayers) >= Required

Attestable(s) == RetentionFloor - 1 <= s /\ s <= last /\ s > checkpoint.sequence

\* attestCheckpoint, from a bootstrapped player, for a sequence in the window
\* and past the checkpoint.
Attest(p, s, h) ==
  LET candidate == Considered(Kept[s], p, h)
  IN  /\ p \in BootstrappedPlayers
      /\ Attestable(s)
      /\ lastMulti' = MultiNow
      /\ posted' = posted \cup {<<s, p, h>>}
      /\ IF Confirms(candidate, h)
         THEN /\ checkpoint' = [sequence |-> s, hash |-> h]
              /\ candidates' = [c \in Cadences |-> IF c <= s THEN Null ELSE Kept[c]]
         ELSE /\ candidates' = [Kept EXCEPT ![s] = candidate]
              /\ UNCHANGED checkpoint
      /\ UNCHANGED <<last, links, clock>>

\* A submission refused for its sequence or its rate still notes who is there.
Refuse(p) ==
  /\ p \in BootstrappedPlayers
  /\ lastMulti' = MultiNow
  /\ UNCHANGED <<last, checkpoint, candidates, links, clock, posted>>

QuorumStep ==
  \/ Sequence \/ QuorumTick
  \/ \E p \in Voters, t \in VoterTabs : AuthenticateTab(p, t) \/ BootstrapTab(p, t) \/ DepartTab(p, t)
  \/ \E p \in Voters : Refuse(p) \/ \E s \in Cadences, h \in Hashes : Attest(p, s, h)

QuorumNext ==
  /\ QuorumStep
  /\ together' = IF Cardinality(BootstrappedPlayers) >= 2 THEN clock ELSE together

QuorumSpec == QuorumInit /\ [][QuorumNext]_quorumVars

-----------------------------------------------------------------------------
QuorumTypeOK ==
  /\ last \in 0 .. MaxLast /\ clock \in 0 .. MaxClock
  /\ checkpoint.sequence \in 0 .. last /\ checkpoint.hash \in Hashes \cup {Null}
  /\ candidates \in [Cadences -> Candidate \cup {Null}]
  /\ links \in [Voters \X VoterTabs -> {"closed", "handshaking", "bootstrapped"}]
  /\ lastMulti \in 0 .. clock \cup {Null} /\ together \in 0 .. clock \cup {Null}
  /\ posted \subseteq Cadences \X Voters \X Hashes

\* Two considered submissions for s disagree.
Disputed(s, posts) == \E a, b \in posts : a[1] = s /\ b[1] = s /\ a[3] # b[3]

\* A stored attester has submitted exactly the hash it is counted for, and what
\* is stored lies past the checkpoint.  (The candidate and attester rows are
\* written, purged and deleted by separate statements of attestCheckpoint.)
AttestersVouch ==
  \A s \in Cadences : candidates[s] # Null =>
    /\ s > checkpoint.sequence
    /\ \A p \in candidates[s].attesters : <<s, p, candidates[s].hash>> \in posted

\* A checkpoint is confirmed by two players who are bootstrapped at that moment
\* and submitted the same hash, or by the only bootstrapped player when no two
\* were there at any time in the last SoloGrace.  (ADR 0006, points 5, 8, 10.)
ConfirmedByQuorum ==
  [][checkpoint' # checkpoint =>
       LET vouches(p) == <<checkpoint'.sequence, p, checkpoint'.hash>> \in posted'
       IN  \/ \E p, q \in BootstrappedPlayers : p # q /\ vouches(p) /\ vouches(q)
           \/ \E p \in BootstrappedPlayers :
                /\ BootstrappedPlayers = {p} /\ vouches(p)
                /\ together = Null \/ clock - together >= SoloGrace]_quorumVars

\* While a sequence is inside the retained window a disagreement about it is
\* final: it is never confirmed.  (The conflicted flag of its candidate.)
ConflictHoldsInWindow ==
  [][checkpoint' # checkpoint /\ checkpoint'.sequence >= RetentionFloor =>
       ~Disputed(checkpoint'.sequence, posted')]_quorumVars

\* A checkpoint is earned: the players vouch for it and nobody in the window has
\* contradicted it.  (attestCheckpointCandidate over the stored candidates.)
CheckpointsAreEarned == ConfirmedByQuorum /\ ConflictHoldsInWindow

\* "A conflicting hash permanently marks that sequence divergent and it cannot
\* be confirmed."  (ADR 0006, point 5.)
ConflictIsPermanent ==
  [][checkpoint' # checkpoint => ~Disputed(checkpoint'.sequence, posted')]_quorumVars
=============================================================================
