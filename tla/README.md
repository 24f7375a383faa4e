# Digipology in TLA+

Digipology is a platform for tabletop games played together in the browser.
Its central claim (README.md) is that a table is an initial snapshot plus an
ordered list of actions, which every healthy client replays to the same state.
The modules here model the parts of the code that keep this claim true while
clients come and go, connections are lost, logs are trimmed, timers fire,
scripts run and players act ahead of the server, and the parts of the platform
around the rooms whose requests race each other. TLC checks them on small
instances; TLAPS proves the most important properties for every value of the
constants.

## 1. The system

A browser client talks to its room over one web socket (hello, action requests,
ordered actions, presence) and over HTTP (join, timer reports, checkpoint
attestations, saves, end). A room is a Durable Object: one thread, whose storage
transactions are atomic, but whose handlers interleave at every `await`; its
alarm is a single slot shared by heartbeat, expiry and timers. A scripted game's
rules run on the clients only, so the room cannot replay it and relies on the
clients to report timers and attest checkpoints. Stateless Workers serve the
rest: accounts, games, releases, covers, saved tables, the index of rooms, AI
authoring; they keep rows in D1 and objects in R2 and may die between any two
calls. A game is made in the editor, kept in the browser's storage, tried there
and uploaded as a bundle.

| component | state | operations | modelled in |
|---|---|---|---|
| room action log (`apps/worker/src/index.ts`, `room-core.ts`) | tables `room`, `actions`, `request_dedup`, checkpoint columns | sequence, join, start, fire timers, trim, checkpoint, bootstrap, resume, save, end | `RoomLog`, `ActionLog` |
| room session (`index.ts`, `message-handler.ts`; `apps/web/src/net/roomClient.ts`, `state/kernelStore.ts`) | sockets and their attachments; the client's status, attempts, queue and store | hello, bootstrap, resume, broadcast, gap recovery, reconnect, script await | `RoomSession` |
| frames of a socket (`packages/protocol/src/index.ts`, `message-handler.ts`) | what the socket has authenticated, what was sent | peek, limit, parse, validate, answer | `WireFrames` |
| checkpoint attestation (`index.ts`, `room-core.ts`) | `checkpoint_candidates`, `checkpoint_attesters`, `last_multi_bootstrap_at` | attest, confirm, purge, record presence | `CheckpointQuorum` |
| presence and lifetime (`index.ts`, `room-liveness.ts`) | `players`, `active_players`, host, `empty_since_at`, the alarm | connect, hello, depart, heartbeat, expire, end | `RoomPresence` |
| canonical timers (`index.ts`, `room-liveness.ts`) | `canonical_timers`, `resume_pending_since`, `last_action_at`, the alarm | register, cancel, claim, pause, fire, defer | `RoomTimers` |
| seats of a resumed table (`room-core.ts`, `index.ts`, kernel's seat actions) | player rows, saved seats, the kernel's roster and what waits for it | resume, claim, join, save again | `ResumeSeats`, `TurnOrder` (turns and scores of the Lua library) |
| quick play and the room index (`quickplay.ts`, `platform.ts`, `index.ts`) | `rooms_index`, the rooms, requests under way | select, claim, enter, reconcile, allocate, report, heartbeat | `RoomDirectory` |
| play counts (`index.ts`, `play-count.ts`) | `counted_players`, `games.total_plays` | record, flush | `PlayCounts` |
| prediction ledger (`kernelStore.ts`) | confirmed and displayed state, ledger, pending requests | predict, commit, replay, correct, drop | `PredictionLedger` |
| kernel (`packages/kernel`) | the table: entities, stacks, seats, prompts, timers, rng | registered actions, script transactions | `TableKernel` (placing, holding, locking, zones), `ScriptTransaction` (an action with its scripts), `ResumeSeats` (roster) |
| Lua runtime (`packages/lua`) | script state, values going in and out | callbacks, guards, standard library | `ScriptTransaction`, `ScriptValues`, `TurnOrder` |
| accounts (`auth.ts`) | links, sessions | request, verify, refresh, log out | `Accounts` |
| catalogue (`platform.ts`, `cover-storage.ts`, `d1-repositories.ts`) | games, releases, covers, bucket | upload, commit, cover, visibility | `Publishing` |
| saved tables (`platform.ts`, `index.ts`) | `saved_tables`, objects | save, delete, resume | `SavedTables` |
| AI authoring (`ai-*.ts`, `packages/ai`) | usage, jobs, pictures; drafts | bill, paint, retry; extract, assemble, patch; trial of a draft | `AiStudio`, `DraftAssembly`, `DraftTrial` |
| editor (`apps/web/src/editor`) | draft, history, storage, playtests | edit, drag, undo, autosave, export, upload, playtest | `DraftEditing`, `GameBundles`, `Playtest`; the bundle's format and checks are `Bundles` |
| table scene (`apps/web/src/scene`) | fingers, mouse, drags; renderers | pick, grab, drop; load, mount, adopt, retire | `TableHands`, `RendererMount` |
| prng, canonical-json, initial table, covers, demo games, docs site, scripts | none, or content | pure functions | not modelled (section 7) |

### What is hard

* Interleaving at awaits: a hello that awaits a token digest or the release while
  its socket closes, an alarm handler that awaits the index database while
  sockets open and close, a script whose result is committed over a store that
  has been replaced, a pick that answers after its finger has left.
* Lost connections: what was in transit is gone, requests are not resent,
  reconnects resume, resync or give up.
* Trimming: the window, the checkpoint, request deduplication and resumes rest on
  different rows of the same log and are trimmed by different statements.
* Time: deadlines against a pausable clock, a deferral for late cancellations, a
  grace period for a player who is alone, an expiry, all on one alarm that may
  come late or twice.
* Requests of stateless Workers that read, then write: links, sessions, release
  numbers, the limit of saves, the AI cap, places in a listed room.
* Steps nobody can cancel: renderers, playtests, generated images and saves come
  back after they were given up.
* One thing kept in several places: the seats of the room and of the kernel, the
  placement of a piece, the drag in gesture and adapter, hashes in a bundle.

PROJECT.json lists each hazard at its line with the properties aimed at it.

## 2. Modules

Every module states its abstractions in its head. Throughout, one step is what
the code does without giving up its thread: a transaction, or the code between
two awaits. A throw inside a transaction changes nothing, so it is a guard.
Definitions named in `X_Fault` style (`Window_OneTooMany`, `Lose_KeepsPending`, ...)
are not part of a specification: each is a plausible mistake in `X`, kept beside it
to show that the properties would notice.

### The room

`RoomLog`: the log of one room. `log` is every action ever sequenced, represented by
its cause (a request id, or the lifecycle cause that is its idempotency key);
`stored` are the sequences that still have a row; `dedup` is `request_dedup`;
`checkpoint` its sequence. `Join`, `Start`, `Act`, `FireTimers`,
`ConfirmCheckpoint` and `End` are the transactions of `RoomDO`; `Window`,
`ResumeAfter`, `Bootstrap` and `MechanicalSave` what it answers from the rows.
`ActionLog` is the promise made to the rest of the system: an append-only order
without repetitions, in which a request is sequenced once and answered with that
position. `RoomLog` implements it with `order <- log` and `answer <- dedup`.

`RoomSession`: a room and its clients, each with one connection. The room's handlers
are split at the await of an uploaded release (`ReceiveHello`, `AnswerHello`,
`OrphanStarts` when the socket has gone); a client's at the bundle request
(`Open`, `Loaded`, `LoadedLate`) and, in a scripted game, at each script
application (`HandleQueued`, `CommitQueued`). `up` and `down` are the wires;
`Drop` loses a connection with all that is on them. A replica is the snapshot it
began with (the release's or the room's) and the actions applied since.
Simplified: the release is an uploaded one; one request per client is in
transit; the room's end of a connection goes when the client's does; presence
messages, pongs, a failing bundle or script runtime and the catch-up attestation
are left out. Of `RoomLog` it keeps the window (`Retention`) and that some
checkpoint in the window serves as a base.

`WireFrames`: the frames of a socket as JSON values with at most one fault, the
two looks at their text (`peekTopLevelType`, `findDuplicateObjectKey`), the
validators, and how the room answers them (`handleTextFrame`).

`CheckpointQuorum`: who may confirm a checkpoint of a scripted room: sockets per
player and tab, the candidates with their attesters and conflicts, the time two
players were last bootstrapped together. `Attest` is `attestCheckpoint` from the purge
to the confirmation; `Refuse` one that is turned away but still records who is there.
`posted` and `together` are history for the properties.

`RoomPresence`: sockets of several tabs per player, the host, active players and the
alarm as heartbeat and expiry. Instants are kept as ages, cut off where nothing
depends on them, so the clock needs no bound. The alarm handler is split at its await
(`Alarm`, `AlarmReplans`); `Restart` is a second delivery after a restart;
`WelcomeLate` completes a hello whose socket has closed.

`RoomTimers`: the rows of `canonical_timers` and the pause of a resumed room. `left`
counts the play time that still has to pass before a timer may fire, as the properties
read it. The alarm may come at any time, because it is shared and may be late.

`ResumeSeats`, `TurnOrder`: a table is saved and resumed in a chain; the room gives
seats by its rows, the kernel by the sequenced claims, and neither asks the other.
`TurnOrder` extends every step by what the Lua library does with turns and points.
`PlayCounts` and `RoomDirectory` are described in their heads; in the latter a report
of a room carries the values read when it was sent and may land at any time, or never.

### The kernel and its scripts

`TableKernel`: where the pieces of a table are: boxes (entities with a container),
stacks and attachments, who holds and locks them, and the members of zones. One step
is the `apply` of one action its `validate` accepts; a rejected action changes nothing
but the sequence, which is left out. `BoxesWithout`, `StacksWithout` and
`SnapsWithout` are `detachExclusivePlacement`; `Recompute` is
`recomputeZoneMembership`. The kernel checks the whole state after each action
(`canonical.ts`) and takes back what breaks it; the steps leave this net away, so that
the invariants say that it never has to catch anything. Abstracted: positions are
a few places; ties by distance or id may be broken in any way; the guards of
scripts only remove steps. Boxes, snap points and zones neither move nor are put into
one another: the kernel does not move the members of a zone with it, nor forbid a box
inside itself, and no document says what it should do.

`ScriptTransaction`: one ordered action with the events, callbacks and commands that
follow from it, as `applyOrderedWithScripts` applies them on several replicas; what the
scripts do is a constant (`program`). `ScriptValues`: the conversion of values into a
Lua state and out of it, with UTF-8 and UTF-16 and whole numbers. `Playtest`: the
editor's playtest controller and its runtimes.

### The browser

`PredictionLedger`: one client's `KernelStore` under the room's log. A table is who
holds each entity and which side is up, which is what the three predicted actions ask
and change. Abstracted: a predicted drop names the stack it creates after the
prediction, so the id on the display changes on confirmation; the model has no stack
ids. `TableHands`: fingers, mouse and picks, and the drags and messages that come of
them. `RendererMount`: attempts to mount a renderer, with deadlines, fallback and
retirement. `DraftEditing`: a draft's history, drags, saving and generated image.
`Bundles`: a bundle, its hashes and the checks of `validateReleaseBundle`, as pure
operators; `GameBundles`: a draft as such a bundle, stored, exported, imported,
uploaded and opened. `DraftTrial`: what the server reads out of a draft's wiring, and
the sessions its simulation plays. A delay is any positive time, and `Rounded` is what
the driver makes of it (`Math.max(1, Math.ceil(delay))`, `ai-game-simulation.ts:176`);
`promised` keeps the time the script asked for, which the driver does not. The callbacks
are one of each kind that is called differently: by what is bound, by everybody, by the
standard library only (`on_seat_claimed`), a guard (`can_press`) and one that is not known.

### The platform

`Accounts`, `Publishing`, `SavedTables`, `AiStudio`: each request is a chain of steps
between its awaits, which interleave and may stop anywhere. In `AiStudio` a response counts
as one request of the day (`responseRequests`, `packages/ai/src/pricing.ts:6`), a
`recordUsage` that fails is the same as no answer to the job, and pictures are acquired on
any of several isolates, each with its own `inFlight`. `billed` and `used` are not in the code:
what each job was billed, and how many answers it has looked at.

`DraftAssembly` follows the content of one author's requests to a model, also over
`Bundles`. `Ask` reads the latest release; `Generate` is one attempt: `Received` is what
`extractToolPayload` finds in a response that carries the payload whole, tagged, fenced,
in prose, split over two calls or cut; `assembleAiGameDraft` checks it
(`normalizeAuthoring`) and builds the bundle, with the pictures of the edited release
(`ContextOf`, `preserveCardDesignAssets`). `Repair` is a round of patches:
`applyGamePatch` takes the draft apart (`authoringFromBundle`) and assembles it again.
`Paint` and `PublishDraft` may come in between. What is checked of one field alone is the
flag `sound`; what a model may write is one change of the game it was shown, with or
without a card plan, and one of eleven patches.

### Composition in the runs

Components that share state are one module, or extend one another (`TurnOrder`
extends `ResumeSeats`). Modules without common state are checked in one run where
that is cheaper: `MCRoomLife`, `MCPlatform`, `MCKernel`, `MCClient` and `MCBrowser`
have a variable `part`, chosen at the start, which says which module's steps are
taken; the others stay in their initial state. Such a run is the sum of its parts'
state spaces, not their product, and shows exactly what the runs of the parts would.

## 3. What TLC checks

| run | instance | what it shows |
|---|---|---|
| `room_log` | 5 requests, 2 players, 3 timers, window 4, interval 2, batches up to 3, log 8, rooms of both kinds | the core loads (`CoreAlwaysLoads`), every bootstrap, short gap and mechanical save reaches the head (`EveryoneReachesHead`), trimming never outruns the checkpoint (`TrimIsCovered`), and `RoomLog` implements `ActionLog` |
| `session` (`MCBrowser`) | 2 clients of an unscripted game, window 2, log 4, one lost connection, 4 attempts, fair; a draft with 2 styles, history 2, 3 acts; 3 calls of a model and 2 releases (`MaxCalls`, `MaxReleases`) | `ReplicasFollow`, `ReconnectSucceeds`; `DraftsAreSound`; `DraftsKeepTheGame` |
| `client` (`MCClient`) | 2 clients of a scripted game (window 1, log 2, 1 lost connection); 3 requests on a log of 3; 2 fingers and a mouse on 2 pieces, 4 inputs, 2 changes; 2 views; 3 edits of a bundle; drafts for 1 or 2 players, 4 actions a session, delays of half a second to a second and a half | `ReplicasFollow` with the queue and the script await; `LedgerIsSound`, `PredictionsAreHonest`; `HandsHoldWhatTheyDrag`; `RenderersAreRetired`; `BundlesStayWhole`; `TrialIsSound`, `TimersFireInOrder` |
| `room_life` (`MCRoomLife`) | presence of 2 players with 2 tabs, expiry 2, heartbeat 1; 2 timers with delays 1 and 3, grace 1, 2 unclaimed seats, clock 4; a quorum of 2 players with 2 tabs, 2 hashes, window 2, interval 2, log 4, clock 2; every frame with at most one fault | `PresenceIsSound`, `PresentLoseNothing`; `PauseConsumesNothing`, `AlarmCoversTimers`, `TimersKeepTheirTime`; `CheckpointsAreEarned`; `FramesAreSound` |
| `kernel` (`MCKernel`) | 3 pieces (one without the tag a snap point wants), a deck, a hand for 1, 2 snap points for 1, a zone, 2 places, 2 players; 5 script programs on 2 replicas, log 4; values of every kind, integers up to 9; 3 playtests with 2 operations and 2 timers | `PlacesAreSound`, `ZonesFollow`, `StacksStayTogether`; `ScriptsAreSound`, `TransactionsAreWhole`; `ValuesSurvive`; `PlaytestIsolated` |
| `directory` (`RoomDirectory`) | 2 rooms for 2, 2 requests, 2 attempts, 1 move, 1 fault, fair | `SeatsAreAccountedFor`, `IndexCatchesUp` |
| `platform` (`MCPlatform`) | 1 link and 2 visits; 3 guests and 2 flushers; 1 game, 4 uploads, 2 covers; 2 saves with a limit of 1; 2 veterans, 4 joiners, 3 saved seats, 3 resumes; 3 AI jobs on 2 isolates, cap 3, 2 attempts, 2 rounds | `SessionsAreSound`; `PlaysCountedOnce`; `CatalogIsSound`; `SavesAreWhole`; `SeatsAreSound`, `TurnsSurvive`; `StudioIsSound`, `BestDraftIsKept` |
| `session_diverge`, `session_stale` | 2 clients, window 2 and 3, log 3, one lost connection, 2 attempts | violated: see Findings |
| `quorum_conflict` | 2 players with 1 tab, 2 hashes, window 3, interval 2, grace 2, log 5, clock 3 | violated: see Findings |
| `presence_expiry` | 1 player with 1 tab, fair | violated: see Findings |
| `resume_blocked` | 2 veterans, 5 joiners, 3 saved seats, 3 resumes | violated: see Findings |

Bounds. They are the smallest at which each case happens: the log outgrows the
window, a checkpoint falls due twice, a batch of timers and the pair of a join
are sequenced at once; a client is behind by more than the window; two hellos, a
lost connection and an action overlap; a candidate drops out of the window while
it can still be attested; a player closes one of two tabs; a piece is grabbed, covered
and let go of; a timer is deferred, paused and resumed; a save is taken while a seat of
an earlier one is unclaimed; two uploads take the same release number and a third
arrives between them; a drag outlives its finger; an attempt of the first view comes
back in the second; a game is generated, painted, published, edited and patched. With
one lost connection per run every message of a handshake can be the one that is lost. Symmetry is used for identities that the model only compares,
and not in runs with liveness. In `session` the limit on attempts is lower than the
code's 8 but above what one lost connection can use up; with 2 or 3 `ReconnectSucceeds`
does not hold, because a resync that is lost while the release loads has forgotten
that it must be a full one and takes another round. Deadlock is not checked: rooms end,
clients give up, requests are answered, clocks and logs are bounded.

Fairness. `MCBrowser!FairBrowserSpec`: what was received is handled, timers of the
browser fire and requests return, for the room and each client; nobody has to join or
act. `RoomPresence!FairPresenceSpec`: time passes and alarms are delivered and complete
(strongly fair, since a restart may repeat one any number of times, but not for ever).
`RoomDirectory!FairDirectorySpec`: alarms beat and writes that were sent land, or are
lost. These are what the event loop and the Durable Object platform provide; no
fairness is assumed of users, of requests or of the network.

Faults. PROJECT.json names, for every property of every passing run, a fault of
the code with which the run fails.

## 4. Findings

Five runs expect a violation of what the repository says of itself.

* **A reconnect before the first bootstrap diverges** (`session_diverge`).
  `opened()` sends the sequence of whatever the store holds. A client that lost
  its first connection holds the release's snapshot, sends 0 and gets a resume
  over a snapshot that was never seeded with the roster.
* **A late bundle resets a live table** (`session_stale`). `opened()` loads the
  release before it notices that its socket was replaced.
* **A disputed checkpoint is confirmed** (`quorum_conflict`). Candidates below
  the window are purged, but the sequence just below it may still be attested.
* **An empty room lives for ever** (`presence_expiry`). A hello that completes
  after its socket closed clears `empty_since_at`, and the alarm plans itself
  anew from then on. There is a second way, which the property leaves out: a timer
  report between the expiry's due time and the alarm's delivery deletes the alarm.
* **A resumed table stays blocked with everybody back** (`resume_blocked`). The room
  gives a joining player the first free saved seat, also one that waits for nobody.

Other behaviour met while modelling. Where a property would be false of it, the
property names the exception, so that it says all the rest:

* A stored draft that `validateReleaseBundle` refuses is read as none, and `EditorPage`
  then opens an empty draft and stores it over the refused one: a title of more than 80
  characters, a script name with a capital, card designs whose deck was renamed or
  deleted, scripts of more than 1 MiB (`BundlesStayWhole` excepts these as `Refused`).
* `checkDraftQuality` says that scripts must live under `scripts/` only of scripts nobody is
  bound to: a bound script under `runtime/`, which the generator's own example uses,
  gets no issue although no table ever runs it (`WiringIsRight` is about `scripts/`).
* `on_seat_claimed` is among the `KNOWN_CALLBACKS` (`ai-game-quality.ts:319`) and gets no
  issue, although a creator's function of that name is never invoked
  (`creator-runtime.ts:669`, `docs/adr/0007` lines 132-135); and a guard `can_*` has no entry in
  `CALLBACK_COMPONENT` (384-394), so that one which is bound to nothing it could guard gets none
  either. `WiringIsRight` excepts both as `Overlooked`, and only in one direction.
* The simulation rounds delays up to seconds, so of two timers due within the same second
  the one whose name is first goes off first, whichever was to come first in a room
  (`TimersFireInOrder` speaks of differences of a second or more).
* A drop that cannot be sent, since the loss of the connection is what ended the drag,
  leaves the piece held (`HandsHoldWhatTheyDrag` excepts `table.lost`).
* A table opened in a hidden tab is given up: no frames are shown, so both renderers'
  deadlines pass.
* An empty room withholds the alarm but does not pause its timers
  (`docs/spec/handoff-v2.txt` line 645), and the room never sequences
  `system.player_left`, so a piece held by somebody who left for good stays held
  (line 242).
* An edit by a model starts from the release that was the latest when it began: pictures
  that are published meanwhile are not in its draft, and publishing that loses them.
* A model cannot turn a card game into one without cards: the preserved
  `runtime/presentation/cards.json` still names the decks, so that the assembly fails in
  every attempt.
* A cut answer may leave half of a script, which is accepted as a script; only the
  playtest judges it.
* Saves that are asked for at the same time may exceed `SAVE_COUNT_LIMIT`, and two
  isolates may pay twice for one generated picture; both by as many as race.

## 5. What is proved

`TLAPS` proves the following for every value of the constants that satisfies the named
assumptions of the modules, which TLC evaluates in every run. All safety proofs have
the same shape: an inductive invariant, checked by TLC on a small instance before it
was proved; a lemma that the initial states have it; a lemma per action that it is
kept; and a last step that puts them together with the temporal rules.

* `RoomLogProofs`, from `LogAssumption` (`Interval + MaxBatch - 1 <= Retention`).
  `LogInv` adds to the properties which rows are stored (those of the window; in a
  scripted room those back to the checkpoint's window), that the distance from the
  checkpoint to the head stays below the interval whenever the room is not scripted,
  and that causes are tied to the variables that admit them (joined players, fired
  timers, request ids). The checkpoint is the crux: it has to be taken before the
  window loses an action its replay needs, which is what the assumption on batches is
  for. Proved: `CoreAlwaysLoads`, `EveryoneReachesHead` and its parts,
  `OneSequencePerCause`, `LogAppendOnly`, `TrimIsCovered`, and that every step of
  `RoomLog` is a step of `ActionLog` or changes nothing it sees
  (`ImplementsActionLog`). A remark: the code does not limit how many timers one alarm
  fires. With more than `ACTION_RETENTION - CHECKPOINT_INTERVAL + 1` = 301 due at once
  the assumption fails, and with it the argument that a checkpoint can be replayed.
* `RoomLifeProofs`, in three parts for the three modules of a room's life.
  `CheckpointsAreEarned`, from `AttestersVouch`, `ConfirmedByQuorum` and
  `ConflictHoldsInWindow`: `QuorumInv` says besides that, with fewer than two players
  present, `last_multi_bootstrap_at` is exactly the last time two were, and that a
  dispute in the retained window is remembered by a conflicted candidate or lies behind
  the checkpoint. `PauseConsumesNothing`, inductive with the types; `TimersKeepTheirTime`
  from it; and `AlarmCoversTimers`, which needs that the alarm is never forgotten while
  play goes on and a socket is open, whoever replans it. `PresenceIsSound` and
  `PresentLoseNothing`: `PresenceInv` adds that only members have sockets, that the host
  is present or excused in every state and not only when somebody looks, that every
  welcomed player is stored as active, that a room noted empty is empty and has been for
  at least as long, and that the alarm of a room is set for the heartbeat while it is
  occupied and for the expiry while it is not. The alarm is the minimum of what it
  serves; that a finite set of instants has one is taken from the well-founded order of
  the naturals.
* `RoomSessionProofs`: `ReplicasFollow`, with and without scripts. Being a prefix of the
  log is not inductive: `SessionInv` says the same of everything on its way to the
  client, in the wire, in the script queue and in the half-done script application
  (`Truthful`, `Half`), and for `NoMissedUpdate` that the last message an admitted
  client has yet to handle leads it to the head of the log, wherever that message is
  (`Led`). The lemmas: what was true of a log stays true when it grows
  (`Growing`), what a broadcast appends is true and leads to the head
  (`Broadcasting`), so does every reply to a hello (`ReplyFacts`), and handling a
  message either settles the client at what it says or costs it its connection
  (`HandlingSettles`).
* `PlatformProofs`, the platform around the rooms. `PlaysCountedOnce`: overlapping
  flushes of one room are kept apart by the mark that precedes the request.
  `SessionsAreSound`: at most one session per link, and none after a sign-out. The
  invariant ties each request to what the tables said when it read them.
  `SavesAreWhole`: an object is put before the row that names it and dropped only when
  its row is gone, and at most `SaveLimit` saves of an account were counted while no other
  was on its way. Whatever is above the limit raced another save: the count and
  the row are two statements. `CatalogIsSound`: `CatalogInv` says that the numbers of a
  game's releases are 1, 2, ... without a gap and that an upload's number, read before
  its object was put, is at most one more than the last; so a number that is still free
  when the row is written is the next one, and the upload that wins is the latest.
  `StudioIsSound` and `BestDraftIsKept`, a model's work for an author: `StudioInv`
  counts the calls a job can have made by its attempt and its round, and adds to the
  day's usage what each call under way may still be billed; the sum stays below
  `Cap - 1 + |Jobs|`, and so does the usage when each check of the cap overtakes
  the others' bills. In the other direction no answer goes unbilled: `AnswerInv` says that
  each job was billed exactly the answers it looked at and the one it is looking at, and
  `UsageIsBilled` that the day's usage is the sum of that over the jobs (`SumMoves` in
  `Iteration`: a sum over a set moves with what one member adds). Whoever acquires a
  picture is the one its isolate names, so that nobody waits for nothing; and `PictureInv`,
  for any number of isolates, says that who acquires a picture and has looked for it in vain
  is in an isolate where nobody has made it. Two isolates may each pay for it, and then
  the second picture takes the place of the first.
  One hypothesis is said where it is needed, and without it
  `BestDraftIsKept` fails: one try for a
  round (`Tries = 1`, as `ai-games.ts:313` has it: a second try still sends the first
  one's draft). `SeatsAreAccountedFor`: a request knows of a seat only once it is
  through with its room (`SeatInv`), so no retry takes a second seat while it has one, and
  each seat nobody knows of costs a fault. `SeatsAreSound`: the room numbers its player
  rows by the saved seats whatever the kernel does, and the kernel applies what is
  sequenced whatever the rows are. `ResumeInv` says that every table there is, saved or
  live, is sound (nobody sits twice, who waits is not there, each estate is where its
  seat is), and that the live table is what has come of the saved one: its first
  seats are the rows, and the saved seats beyond them wait with what is theirs. The
  roster of `system.game_resumed` is a fold over its rows; `Entered` gives every stage of
  it in closed form. `ResumeAssumption` only tells ids of players, seats and nobody apart.
  `TurnsSurvive`, on top of it: the library's orders are lines, sequences with
  nothing in them twice, of the players who are on seats or, while somebody is missing,
  of the saved seats, one of which has the turn (`TurnsHold`). Filters are folds (`Among`) and
  a line with newcomers after it begins as it did (`NewcomersExtend`), so what
  `publish_pending_turns` shows is what was kept (`PublishKeeps`), whether a claim
  (`ClaimStays`), a resume that keeps seats (`KeepStays`) or one that only renames
  (`RenameStays`) comes before it. `turns.start` needs that somebody sits: only a room with
  a player starts.
* `TableKernelProofs`, the kernel's actions on the table: `PlacesAreSound`, `ZonesFollow`
  and `StacksStayTogether`. `TableInv` says what the check of the whole state cannot:
  boxes, stacks and anchors each hold a piece once (`TidyBoxes`, `TidyStacks`,
  `TidySnaps`) and no two of the three hold the same one (`Apart`). An action that puts
  a piece somewhere first takes it out of wherever it was (`Detached`: afterwards it is
  free and everything else is where it was), and then the new place is one of a
  few (`NewStack`, `NewBoxes`, `PutOnSnap`). For the stacks the lemmas follow a slice of a
  sequence through a merge, a draw and a removal; for the zones, every action
  that moves a piece refreshes its membership in the same step. The proof needs that a
  table has finitely many pieces (`TableAssumption`).
  `ScriptsAreSound` and `TransactionsAreWhole`, an action with its scripts: a transaction
  relates the table it left to the table before it and to the calls it decided on, those
  made and those still to be made (`Owed`), and every one of its steps is a function of the
  release, the action and the table it has come to (`Turn`), whichever order a runtime
  lists its scripts in; so the runs of two replicas over the same log come to one end,
  within the budget. `ScriptAssumption` says what a script may answer.
* `BrowserProofs`, the browser of a player and of an author, four components that share
  no state. `RenderersAreRetired`: `MountInv` says that every attempt but the last is
  settled, cancelled or over, whatever step it is suspended in. `HandsHoldWhatTheyDrag`:
  the drag, the gesture and the queue have to agree (`DragSound`), and since events are
  handled later than they happen, `QueueSound` says that a finger comes and leaves in
  turn in what is still queued: one that is taken for down is down, or its leaving is
  still to be handled. `DraftsAreSound`: an undo may bring back any draft of the
  history, so that `EditingInv` asks of all of them what the property asks of
  the one shown (`SoundDrafts`), and an outcome is written only into a draft that shows what
  the job began with. `PlaytestIsolated`: `PlayInv` follows each runtime through its
  phases (`RuntimeSound`): it has at most one operation, which began with the table
  as it is; it is open exactly while it is booted, waits to be taken over, or is the one
  played with; what is asked for comes after what was done (`TaskSound`), and a timer
  of the table is waited for, was rejected or is just being fired (`TimersSound`).
* `ClientProofs`, what a client shows and what an author keeps. `LedgerIsSound` and
  `PredictionsAreHonest`: `LedgerInv` says that the display is a replay of the ledger over
  the confirmed table, that whatever is numbered by the client is in that order in the log, on
  its way and in the ledger, and that the ledger predicts what was asked; a replay is a
  fold, and replaying what remains after its first prediction is confirmed gives the
  same display. `BundlesStayWhole`: `BundleInv`
  says it of the draft, of each stored and exported text and of each release at once,
  whatever the order of edits, uploads and openings. `TrialIsSound`: what is
  reported of the wiring is never called, and what is never called is reported, but for the
  callbacks that the checks overlook, by cases over the callbacks; while
  the table has not moved, the options already tried have been taken at least as often as
  those that were not (`TriedAreAhead`), and an answer that came to nothing ends the session,
  so a stall is real and no option starves. `TimersFireInOrder`: the driver keeps of each
  timer of the table a deadline that is less than a second after what the script asked for,
  and fires one whose deadline is earliest; so timers go off in order to the second.
* `Iteration`, what the others use for results computed over data. The induction theorems
  of the library take a predicate as parameter, which the provers here cannot
  instantiate; a set can stand for it: a set of numbers that holds 0 and with each number
  the next holds all up to any bound (`UpTo`, from the least element of what is missing).
  With it the folds of the community modules are read as iterations: a fold over a
  sequence is the last value of a function on `0 .. Len(seq)` whose every value comes of
  the one before. The modules that are proved about avoid `SelectSeq`, `@@`, `:>`,
  `SortSeq` and `FlattenSeq`, which the prover cannot expand.

`LogAppendOnly` and some parts of conjunctions are proved and not checked by a run of
their own: TLC checks the conjunction, or the implementation of `ActionLog`.


## 6. Only model-checked

* Liveness under fairness (`ReconnectSucceeds`, `IndexCatchesUp`): the prover knows
  neither fairness nor ENABLED.
* Recursive operators, which the prover does not accept: `FramesAreSound` (`WireFrames`) and
  `ValuesSurvive` (`ScriptValues`). The frames of `WireFrames` are a fixed finite set and
  its constants only bound how many are exchanged, so TLC's check leaves little to prove;
  for values TLC's check covers those of the depth and width of the instance.
* `DraftsKeepTheGame` (`DraftAssembly`): the lists an author writes are taken apart and
  merged by nested filters and orders of sequences, with no closed form to reason about.

## 7. Not modelled

* `packages/prng` and `packages/canonical-json`: functions of one value without state.
  Where the order of draws or the equality of states matters, the models keep the
  number of draws made and the value itself.
* The construction of a first table from a release, and `packages/kernel`'s texts and
  game settings; no registered action creates or destroys entities.
* Likes, listings and cursors of the platform, and the rate limiter: single statements
  or pure queries. HTTP bodies other than bundles: pure validation.
* Prompts and scoring heuristics of the AI authoring; the patterns it searches for in Lua
  text.
* Meshes, cameras, highlights, menus, audio and pages; covers, demo games, the
  documentation site, and build and smoke scripts.
