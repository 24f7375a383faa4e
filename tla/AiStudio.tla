------------------------------ MODULE AiStudio ------------------------------
(***************************************************************************)
(* Games, covers and pictures made by a model: POST /api/ai/... of         *)
(* apps/worker/src/ai-games.ts, ai-game-refine.ts, cover-generation.ts and *)
(* draft-artwork.ts, over runStructuredTask and runIterativeRefinement of  *)
(* packages/ai.                                                            *)
(*                                                                         *)
(* Every call of the model first reads the day's usage, and is billed when *)
(* its response arrives, so requests of one account overtake each other.   *)
(* What the model answers is open: nothing, a payload that is refused, or  *)
(* a draft in which the playtest finds some errors.  A draft is a number   *)
(* that is new with every change.  A picture is stored under the hash of   *)
(* its request; requests for the same one share a promise in their isolate.*)
(***************************************************************************)
EXTENDS Integers, FiniteSets, Functions

CONSTANTS
  Jobs,       \* requests of one account on one day
  Isolates,   \* workers that run them, each with its inFlight
  Cap,        \* dailyCap
  Attempts,   \* maxAttempts of generation
  Rounds,     \* maxRounds of refinement
  Tries,      \* refinementAttempts of a round
  MaxErrors,  \* bound: errors found by the playtest
  NoPicture

ASSUME StudioAssumption ==
  /\ IsFiniteSet(Jobs) /\ NoPicture \notin Jobs
  /\ Cap \in Nat /\ MaxErrors \in Nat
  /\ {Attempts, Rounds, Tries} \subseteq Nat \ {0}

VARIABLES
  usage,    \* ai_usage.requests
  jobs,     \* the requests
  sharing,  \* inFlight of each isolate: the job that acquires the picture
  picture,  \* the stored picture: the job that made it
  billed,   \* what was billed to each job (not in the code)
  used      \* answers of the model that each job has looked at (not in the code)

studioVars == <<usage, jobs, sharing, picture, billed, used>>

-----------------------------------------------------------------------------
NoDraft == [id |-> 0, errors |-> 0]
NoJob == [step |-> "new", attempt |-> 0, round |-> 0, made |-> 0,
          best |-> NoDraft, current |-> NoDraft, shown |-> NoDraft,
          reached |-> FALSE, isolate |-> NoPicture, got |-> NoPicture]

StudioInit ==
  /\ usage = 0
  /\ jobs = [j \in Jobs |-> NoJob]
  /\ sharing = [i \in Isolates |-> NoPicture]
  /\ picture = NoPicture
  /\ billed = [j \in Jobs |-> 0] /\ used = [j \in Jobs |-> 0]

StepOf(j, step) == jobs[j].step = step
Becomes(j, job) == jobs' = [jobs EXCEPT ![j] = job]
Uses(j) == used' = [used EXCEPT ![j] = @ + 1]

\* handleAiGameRequest: refused at the cap, by the rate or for the request.
OpenGame(j) ==
  /\ StepOf(j, "new")
  /\ \/ usage >= Cap /\ Becomes(j, [jobs[j] EXCEPT !.step = "capped"])
     \/ usage < Cap /\ Becomes(j, [jobs[j] EXCEPT !.step = "generate", !.attempt = 1])
     \/ Becomes(j, [jobs[j] EXCEPT !.step = "refused"])
  /\ UNCHANGED <<usage, sharing, picture, billed, used>>

\* After a call that yielded nothing in generation: the next attempt, or the end.
AfterAttempt(job) ==
  IF job.attempt < Attempts THEN [job EXCEPT !.step = "generate", !.attempt = @ + 1]
  ELSE [job EXCEPT !.step = IF job.reached THEN "capped" ELSE "failed"]

\* The end of refinement: the draft is answered only without errors.
Conclude(job) ==
  [job EXCEPT !.step = IF job.reached THEN "capped"
                       ELSE IF job.best.errors = 0 THEN "drafted" ELSE "failed"]

\* The next try of the round, with the request of the round; or the next round, whose
\* request shows the current draft; or the end.
NextTry(job) ==
  IF job.attempt < Tries THEN [job EXCEPT !.step = "refine", !.attempt = @ + 1]
  ELSE IF job.round < Rounds
       THEN [job EXCEPT !.step = "refine", !.attempt = 1, !.round = @ + 1, !.shown = job.current]
       ELSE Conclude(job)

Nothing(job) == IF job.round = 0 THEN AfterAttempt(job) ELSE NextTry(job)

Calling(j) == jobs[j].step \in {"generate", "refine"}

\* createMeteredModelFetch, before the call: the cap, once reached, is final.
CheckUsage(j) ==
  /\ Calling(j)
  /\ Becomes(j, IF jobs[j].reached \/ usage >= Cap
                THEN Nothing([jobs[j] EXCEPT !.reached = TRUE])
                ELSE [jobs[j] EXCEPT !.step = "model"])
  /\ UNCHANGED <<usage, sharing, picture, billed, used>>

\* The call times out or fails: nothing is billed.
NoAnswer(j) ==
  /\ StepOf(j, "model")
  /\ Becomes(j, Nothing(jobs[j]))
  /\ UNCHANGED <<usage, sharing, picture, billed, used>>

\* Fault: a response without a payload is not billed.
Bill_Payloads(j) ==
  /\ StepOf(j, "model")
  /\ \E n \in 0..1 : usage' = usage + n /\ billed' = [billed EXCEPT ![j] = @ + n]
  /\ Becomes(j, [jobs[j] EXCEPT !.step = "judge"])
  /\ UNCHANGED <<sharing, picture, used>>

\* recordUsage, before the response is looked at: whatever it is, it counts as one
\* (responseRequests).
Bill(j) ==
  /\ StepOf(j, "model")
  /\ usage' = usage + 1 /\ billed' = [billed EXCEPT ![j] = @ + 1]
  /\ Becomes(j, [jobs[j] EXCEPT !.step = "judge"])
  /\ UNCHANGED <<sharing, picture, used>>

\* The response holds no payload, or one that is refused (its violations are fed back).
Refuse(j) ==
  /\ StepOf(j, "judge")
  /\ Becomes(j, Nothing(jobs[j]))
  /\ Uses(j) /\ UNCHANGED <<usage, sharing, picture, billed>>

\* The quality check throws: the request is answered 503.
CheckFails(j) ==
  /\ StepOf(j, "judge")
  /\ Becomes(j, [jobs[j] EXCEPT !.step = "unavailable"])
  /\ Uses(j) /\ UNCHANGED <<usage, sharing, picture, billed>>

\* Fault: the newest draft is taken for the best.
AfterCheck_TakesNewest(job, d) ==
  IF job.round = 0
  THEN IF d.errors = 0 THEN [job EXCEPT !.best = d, !.current = d, !.step = "drafted"]
       ELSE [job EXCEPT !.step = "refine", !.best = d, !.current = d, !.shown = d,
                        !.round = 1, !.attempt = 1]
  ELSE IF d.errors # 0 THEN NextTry([job EXCEPT !.best = d, !.current = d])
       ELSE [job EXCEPT !.best = d, !.current = d, !.step = IF job.reached THEN "capped" ELSE "drafted"]

\* What follows the quality check of draft d: the first draft is the
\* best so far; a patched one becomes the current draft, and the best if it has fewer.
AfterCheck(job, d) ==
  IF job.round = 0
  THEN IF d.errors = 0 THEN [job EXCEPT !.best = d, !.current = d, !.step = "drafted"]
       ELSE [job EXCEPT !.step = "refine", !.best = d, !.current = d, !.shown = d,
                        !.round = 1, !.attempt = 1]
  ELSE LET better == d.errors < job.best.errors
           next == [job EXCEPT !.current = d, !.best = IF better THEN d ELSE @]
       IN IF d.errors = 0 THEN [next EXCEPT !.step = IF job.reached THEN "capped" ELSE "drafted"]
          ELSE NextTry(IF better THEN [next EXCEPT !.attempt = Tries] ELSE next)

\* A valid draft, or the current draft with the patch, is playtested.
Check(j) ==
  /\ StepOf(j, "judge")
  /\ \E e \in 0..MaxErrors :
       LET job == [jobs[j] EXCEPT !.made = @ + 1]
       IN Becomes(j, AfterCheck(job, [id |-> job.made, errors |-> e]))
  /\ Uses(j) /\ UNCHANGED <<usage, sharing, picture, billed>>

-----------------------------------------------------------------------------
\* handleDraftArtwork: a request for the picture joins the acquisition of its isolate.
OpenPicture(j, i) ==
  /\ StepOf(j, "new")
  /\ Becomes(j, [jobs[j] EXCEPT !.isolate = i,
                   !.step = IF sharing[i] = NoPicture THEN "cache" ELSE "share"])
  /\ sharing' = IF sharing[i] = NoPicture THEN [sharing EXCEPT ![i] = j] ELSE sharing
  /\ UNCHANGED <<usage, picture, billed, used>>

\* The promise settles for all who share it and leaves the map.
Settle(j, step, image) ==
  LET i == jobs[j].isolate IN
  /\ sharing' = [sharing EXCEPT ![i] = NoPicture]
  /\ jobs' = [k \in Jobs |->
       IF k = j \/ (jobs[k].step = "share" /\ jobs[k].isolate = i)
       THEN [jobs[k] EXCEPT !.step = step, !.got = image] ELSE jobs[k]]

\* acquire: what the bucket has is answered; else the cap is checked (admitUsage).
ReadPicture(j) ==
  /\ StepOf(j, "cache")
  /\ IF picture # NoPicture THEN Settle(j, "pictured", picture)
     ELSE IF usage >= Cap THEN Settle(j, "capped", NoPicture)
     ELSE Becomes(j, [jobs[j] EXCEPT !.step = "paint"]) /\ UNCHANGED sharing
  /\ UNCHANGED <<usage, picture, billed, used>>

\* The provider answers and is billed, whatever it answers.
BillPicture(j) ==
  /\ StepOf(j, "paint")
  /\ usage' = usage + 1 /\ billed' = [billed EXCEPT ![j] = @ + 1]
  /\ Becomes(j, [jobs[j] EXCEPT !.step = "store"])
  /\ UNCHANGED <<sharing, picture, used>>

\* It fails to answer, answers no usable picture, or the bucket does not take it.
LosePicture(j) ==
  /\ jobs[j].step \in {"cache", "paint", "store"}
  /\ Settle(j, "failed", NoPicture)
  /\ IF StepOf(j, "store") THEN Uses(j) ELSE UNCHANGED used
  /\ UNCHANGED <<usage, picture, billed>>

StorePicture(j) ==
  /\ StepOf(j, "store")
  /\ picture' = j
  /\ Settle(j, "pictured", j)
  /\ Uses(j) /\ UNCHANGED <<usage, billed>>

StudioNext ==
  \E j \in Jobs :
    \/ OpenGame(j) \/ CheckUsage(j) \/ NoAnswer(j) \/ Bill(j) \/ Refuse(j) \/ CheckFails(j) \/ Check(j)
    \/ \E i \in Isolates : OpenPicture(j, i)
    \/ ReadPicture(j) \/ BillPicture(j) \/ LosePicture(j) \/ StorePicture(j)

StudioSpec == StudioInit /\ [][StudioNext]_studioVars

-----------------------------------------------------------------------------
\* Only a draft without errors is answered, after at most Attempts + Rounds * Tries
\* calls; refinement never lets go of the best draft it has seen, and a patch is
\* applied to the draft the model was shown.  ("the loop can never return something
\* worse than its starting point"; the last holds for one try a round, as the
\* application configures it, and not for the library's default of two.)
BestDraftIsKept ==
  [][\A j \in Jobs :
       LET was == jobs[j]
           job == jobs'[j] IN
       /\ was.best # NoDraft => job.best.errors <= was.best.errors
       /\ job.best.errors <= job.current.errors
       /\ job.step = "drafted" => job.best.errors = 0 /\ job.best # NoDraft /\ ~job.reached
       /\ job.step \in {"refine", "model", "judge"} /\ job.round > 0 => job.shown = job.current
       /\ billed'[j] <= Attempts + Rounds * Tries
    ]_studioVars

\* The day's usage is what the requests were billed, and each was billed just the
\* answers that it looked at, drafts and pictures that were refused or lost included.
\* Requests that run side by side exceed the cap by no more than the one call each had
\* under way, and whoever met the cap has not called the model since.
UsageIsBilled ==
  /\ usage = SumFunction(billed)
  /\ \A j \in Jobs : billed[j] = used[j] + IF jobs[j].step \in {"judge", "store"} THEN 1 ELSE 0
  /\ usage <= IF Cap = 0 THEN 0 ELSE Cap - 1 + Cardinality(Jobs)
  /\ \A j \in Jobs : jobs[j].reached => usage >= Cap /\ jobs[j].step \notin {"model", "judge", "drafted"}

\* Who was answered the picture that it made itself.
Made(j) == jobs[j].step = "pictured" /\ jobs[j].got = j

\* Whoever was answered a picture was answered one that was paid for, and that its maker
\* was answered as well; no isolate makes and stores it twice; and nobody in an isolate
\* waits for a picture that nobody there acquires.  (Two isolates may each make the
\* picture: the second then takes the place of the first in the bucket, and those who
\* asked in the first isolate keep what they were answered.)
PicturesAreShared ==
  /\ \A j \in Jobs : jobs[j].step = "pictured" =>
       picture # NoPicture /\ \E maker \in Jobs : jobs[j].got = maker /\ Made(maker) /\ billed[maker] >= 1
  /\ picture # NoPicture => Made(picture)
  /\ \A j, k \in Jobs : Made(j) /\ Made(k) /\ jobs[j].isolate = jobs[k].isolate => j = k
  /\ \A j \in Jobs : jobs[j].step = "share" =>
       LET maker == sharing[jobs[j].isolate]
       IN maker # NoPicture /\ jobs[maker].step \in {"cache", "paint", "store"} /\ jobs[maker].isolate = jobs[j].isolate

\* Requests that overtake each other at the cap and at the same picture leave both as
\* each was answered.  (handleAiGameRequest, inFlight.)
StudioIsSound == UsageIsBilled /\ PicturesAreShared
=============================================================================
