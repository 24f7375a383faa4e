------------------------------ MODULE DraftTrial ------------------------------
(***************************************************************************)
(* The trial of a draft before its author sees it: what is read out of its *)
(* scripts and their wiring (apps/worker/src/ai-game-quality.ts), and the  *)
(* sessions that are played with it (ai-game-simulation.ts) by players who *)
(* come together or late and choose the first or the last of what there is.*)
(*                                                                         *)
(* A draft has a button, a deck and a die, of which some are bound to its  *)
(* one script, and a setting that looks like a target.  What the script    *)
(* does when it hears of something is open: any one effect, or an error.   *)
(* Of the driver's own choices nothing is open.                            *)
(***************************************************************************)
EXTENDS Integers, FiniteSets, Sequences, SequencesExt, Functions

CONSTANTS
  MinPlayers, MaxPlayers, \* the draft's
  ActionLimit,            \* actionLimit: steps of a session
  CandidateLimit,         \* options listed in a step (256)
  Parts,                  \* of a second: a delay is any number of them
  MaxDelay,               \* bound: whole seconds of a delay
  MaxQuestions, MaxFuses  \* bounds: prompts and timers that the script creates

ASSUME TrialAssumption ==
  /\ MinPlayers \in 1 .. 64 /\ MaxPlayers \in MinPlayers .. 64
  /\ ActionLimit \in 1 .. 96 /\ CandidateLimit \in Nat \ {0}
  /\ Parts \in Nat \ {0} /\ MaxDelay \in Nat \ {0}
  /\ MaxQuestions \in Nat /\ MaxFuses \in Nat

VARIABLES
  authored, \* the draft: where its script lies, what is bound to it, what it defines
  verdict,  \* the issues found
  trial,    \* SimulationSession
  board,    \* the table
  driver    \* what the loop keeps from step to step

trialVars == <<authored, verdict, trial, board, driver>>

\* In the order of their ids.
Things == <<"button", "deck", "die">>
Callbacks == {"on_start", "on_seat_claimed", "on_roll", "on_press", "on_prompt", "can_press", "on_win"}

\* KNOWN_CALLBACKS, the one that no creator's script is asked for among them.
Known == Callbacks \ {"on_win"}

Without(seq, out) == FoldLeft(LAMBDA left, x : IF x \in out THEN left ELSE Append(left, x), << >>, seq)

-----------------------------------------------------------------------------
\* What is read out of the draft.

Issue(code, about) == [code |-> code, about |-> about]
RaiseIf(test, code) == IF test THEN {Issue(code, "draft")} ELSE {}

\* CALLBACK_COMPONENT, which has no guard.
CallbackComponent(c) == CASE c = "on_roll" -> "die" [] c = "on_press" -> "button" [] OTHER -> "none"

\* Nothing is said of a binding whose script is not there.
checkScriptWiring(d) ==
  RaiseIf(d.path = "scripts/" /\ ~(d.named /\ d.bound # {}), "lua_script_unbound")
  \cup RaiseIf(d.path = "scripts/" /\ d.bound = {}, "lua_no_bindings")
  \cup RaiseIf(d.bound # {} /\ ~d.named, "lua_script_missing")
  \cup {Issue("lua_callback_never_fires", c) :
          c \in {c \in d.calls : /\ d.bound # {} /\ d.named
                                 /\ CallbackComponent(c) \notin d.bound \cup {"none"}}}

checkLuaHasLogic(d) == RaiseIf(d.calls = {}, "lua_no_logic")

lintLuaFiles(d) == {Issue("lua_unknown_callback", c) : c \in d.calls \ Known}

checkDraftQuality(d) == lintLuaFiles(d) \cup checkLuaHasLogic(d) \cup checkScriptWiring(d)

\* scriptsFromReleaseFiles, runtimeBindings, eventDeliveries and guardForAction: the
\* callbacks that a table of this draft will ever call.  A claimed seat is the standard
\* library's (creator-runtime.ts); a guard is asked of what an action names, and what is
\* pressed is a button.
Hears(d) ==
  IF d.path # "scripts/" \/ ~d.named \/ d.bound = {} THEN {}
  ELSE {c \in d.calls \cap Known : CASE c = "on_roll" -> "die" \in d.bound
                                     [] c \in {"on_press", "can_press"} -> "button" \in d.bound
                                     [] c = "on_seat_claimed" -> FALSE
                                     [] OTHER -> TRUE}

Drafts ==
  [path : {"scripts/", "runtime/"}, named : BOOLEAN, bound : SUBSET Range(Things), calls : SUBSET Callbacks]

NoScripts == [path |-> "runtime/", named |-> FALSE, bound |-> {}, calls |-> {}]

\* A draft under trial is known by what it hears.
InTrial(heard) == [path |-> "trial", named |-> TRUE, bound |-> {}, calls |-> heard]

-----------------------------------------------------------------------------
\* The table, and what may be done at it.

\* Prompts and timers have names, of which those already given are kept; names are
\* compared as texts, so that a new one may come before an old one.
EmptyBoard == [players |-> 0, cards |-> 1, turn |-> 0, open |-> << >>, questions |-> {},
               timers |-> {}, fuses |-> {}, winner |-> FALSE]
System == 0
NoAct == [by |-> System, act |-> "none", id |-> 0]
Play(p, thing) == [by |-> p, act |-> thing, id |-> 0]
Respond(q) == [by |-> board.open[q], act |-> "answer", id |-> q]
Fire(f) == [by |-> System, act |-> "fire", id |-> f]

\* candidates: the player whose turn it is, or everybody, with each thing in order.
PlayerOptions(b, last) ==
  LET things == Without(IF last THEN Reverse(Things) ELSE Things, IF b.cards > 0 THEN {} ELSE {"deck"})
      actors == IF b.turn # System THEN <<b.turn>> ELSE [p \in 1 .. b.players |-> p]
  IN  FlattenSeq([i \in DOMAIN actors |-> [j \in DOMAIN things |-> Play(actors[i], things[j])]])

Listed(b, last) ==
  LET all == PlayerOptions(b, last) IN SubSeq(all, 1, IF Len(all) < CandidateLimit THEN Len(all) ELSE CandidateLimit)

AllPlays == {Play(p, thing) : p \in 1 .. MaxPlayers, thing \in Range(Things)}

\* Fault: the first that is left, however often it was chosen.
LeastVisited_First(options) == options[1]

\* The sort is stable.
LeastVisited(options) ==
  LET fewest(i) == \A j \in DOMAIN options : driver.visits[options[i]] <= driver.visits[options[j]]
  IN  options[CHOOSE i \in DOMAIN options : fewest(i) /\ \A j \in 1 .. i - 1 : ~fewest(j)]

NextTimer(scheduled) ==
  CHOOSE f \in scheduled : \A g \in scheduled :
    driver.due[f] < driver.due[g] \/ (driver.due[f] = driver.due[g] /\ f <= g)

Tried == IF driver.moved THEN {} ELSE driver.tried

Scheduled == {f \in DOMAIN driver.due : f \in board.timers}

Questions == {q \in DOMAIN board.open : Respond(q) \notin Tried}
TimerIsDue == Scheduled # {} /\ driver.due[NextTimer(Scheduled)] <= driver.clock

\* Options are listed if nothing else is to be done; then it shows that there are too many.
Limited ==
  trial.limited \/ (Questions = {} /\ ~TimerIsDue /\ Len(PlayerOptions(board, trial.last)) > CandidateLimit)

\* The choice of a step: a prompt, a timer that is due, a player's option, or a timer
\* that is waited for.
Choice ==
  LET options == Without(Listed(board, trial.last), Tried)
  IN  IF Questions # {}
      THEN Respond(CHOOSE q \in Questions : \A r \in Questions : IF trial.last THEN r <= q ELSE q <= r)
      ELSE IF TimerIsDue THEN Fire(NextTimer(Scheduled))
      ELSE IF options # << >> THEN LeastVisited(options)
      ELSE IF Scheduled # {} THEN Fire(NextTimer(Scheduled))
      ELSE NoAct

-----------------------------------------------------------------------------
\* A prompt, and a timer, with a name that was not given yet.
Asked(b, p, n) ==
  [b EXCEPT !.questions = @ \cup {n},
            !.open = [q \in DOMAIN @ \cup {n} |-> IF q \in DOMAIN @ THEN @[q] ELSE p]]
Lit(b, f) == [b EXCEPT !.fuses = @ \cup {f}, !.timers = @ \cup {f}]

\* What the script may do, once it hears of something: one effect.
Reactions(b) ==
  {[board |-> b, progress |-> FALSE], [board |-> b, progress |-> TRUE],
   [board |-> [b EXCEPT !.winner = TRUE], progress |-> TRUE]}
  \cup {[board |-> [b EXCEPT !.turn = p], progress |-> b.turn # p] : p \in 1 .. b.players}
  \cup {[board |-> Asked(b, p, n), progress |-> FALSE] : p \in 1 .. b.players, n \in (1 .. MaxQuestions) \ b.questions}
  \cup {[board |-> Lit(b, f), progress |-> FALSE] : f \in (1 .. MaxFuses) \ b.fuses}
  \cup {[board |-> [b EXCEPT !.timers = @ \ {f}], progress |-> FALSE] : f \in b.timers}

winnerDeclared(b) == b.winner

Unmoved(b) == {[board |-> b, progress |-> FALSE]}

ReactionsTo(callback, b) == IF callback \in authored.calls THEN Reactions(b) ELSE Unmoved(b)

\* The table after an action and what the script made of it.  A face that turns up again
\* is no change.
Outcomes(c) ==
  CASE c.act = "die" -> ReactionsTo("on_roll", board)
    [] c.act = "button" -> ReactionsTo("on_press", board)
    [] c.act = "deck" -> {[board |-> [board EXCEPT !.cards = @ - 1], progress |-> TRUE]}
    [] c.act = "answer" ->
         ReactionsTo("on_prompt", [board EXCEPT !.open = Restrict(@, DOMAIN @ \ {c.id})])
    [] c.act = "fire" -> Reactions([board EXCEPT !.timers = @ \ {c.id}])

\* A delay is any positive time.
Delays == [whole : 0 .. MaxDelay, part : 0 .. Parts - 1] \ {[whole |-> 0, part |-> 0]}

\* Fault: what is left of a second is dropped.
Rounded_Down(delay) == IF delay.whole < 1 THEN 1 ELSE delay.whole

\* Math.max(1, Math.ceil(delay)): the clock of a session goes by whole seconds.
Rounded(delay) ==
  LET up == delay.whole + (IF delay.part = 0 THEN 0 ELSE 1) IN IF up < 1 THEN 1 ELSE up

\* The driver follows the table's timers by their events: what it keeps of each, and the
\* new one's.
Followed(known, b, new) ==
  [f \in (DOMAIN known \cap b.timers) \cup (b.timers \ board.timers) |-> IF f \in board.timers THEN known[f] ELSE new]

Due(b, now, delay) == Followed(driver.due, b, now + Rounded(delay))

\* Not in the code: the time that the script asked for.
Promised(b, now, delay) == Followed(driver.promised, b, [whole |-> now + delay.whole, part |-> delay.part])

\* A transaction that is rolled back leaves the table as it was, and ends the session.
Fails(session, code) ==
  /\ trial' = [session EXCEPT !.failed = TRUE]
  /\ verdict' = verdict \cup {Issue(code, "session")}
  /\ UNCHANGED board

-----------------------------------------------------------------------------
TrialInit ==
  /\ authored \in Drafts
  /\ verdict = checkDraftQuality(authored)
  /\ trial = [stage |-> "checked", count |-> 0, late |-> FALSE, last |-> FALSE, progress |-> FALSE,
              won |-> FALSE, failed |-> FALSE, limited |-> FALSE, stopped |-> "action_limit"]
  /\ board = EmptyBoard
  /\ driver = [due |-> << >>, promised |-> << >>, clock |-> 0, tried |-> {}, visits |-> [c \in AllPlays |-> 0],
               step |-> 0, moved |-> TRUE, played |-> NoAct, steady |-> AllPlays]

\* The setups: as few and as many players as the game takes, and two of whom one is late.
Setups ==
  {[count |-> n, late |-> FALSE] : n \in {MinPlayers, MaxPlayers}}
  \cup {[count |-> IF MinPlayers < 2 THEN 2 ELSE MinPlayers, late |-> TRUE] : n \in {n \in {MaxPlayers} : n > 1}}

\* A draft without scripts under scripts/ is not played.
BeginSession ==
  /\ trial.stage = "checked" /\ authored.path = "scripts/"
  /\ authored' = InTrial(Hears(authored)) /\ verdict' = {}
  /\ \E setup \in Setups, last \in BOOLEAN :
       /\ trial' = [trial EXCEPT !.stage = "start", !.count = setup.count, !.late = setup.late, !.last = last]
       /\ board' = [board EXCEPT !.players = IF setup.late THEN 1 ELSE setup.count]
  /\ UNCHANGED driver

\* system.game_start, system.player_joined and system.seat_assign; either of the last is
\* refused if it does not fit the draft's table.
Opened(b) == IF b.players < trial.count THEN "join" ELSE "play"

GameStart ==
  /\ trial.stage = "start" /\ ~trial.failed
  /\ \/ \E r \in ReactionsTo("on_start", board), delay \in Delays :
          /\ board' = r.board
          /\ trial' = [trial EXCEPT !.stage = Opened(r.board), !.won = winnerDeclared(r.board)]
          /\ driver' = [driver EXCEPT !.due = Due(r.board, 0, delay), !.promised = Promised(r.board, 0, delay)]
          /\ UNCHANGED verdict
     \/ "on_start" \in authored.calls /\ Fails(trial, "lua_runtime_error") /\ UNCHANGED driver
  /\ UNCHANGED authored

PlayerJoins ==
  /\ trial.stage = "join" /\ ~trial.failed
  /\ \/ /\ board' = [board EXCEPT !.players = @ + 1]
        /\ trial' = [trial EXCEPT !.stage = Opened(board')]
        /\ UNCHANGED verdict
     \/ Fails(trial, "game_lifecycle_rejected")
  /\ UNCHANGED <<authored, driver>>

\* Over: an error, a winner, or the last step.
PlayOver == trial.failed \/ (trial.stage = "play" /\ (trial.won \/ driver.step = ActionLimit))

CallbackOf(c) ==
  CASE c.act = "die" -> "on_roll" [] c.act = "button" -> "on_press" [] c.act = "answer" -> "on_prompt"
    [] OTHER -> "none"

\* A step of the loop: the clock goes on to the timer that is waited for; the action is
\* applied, or denied by the button's guard, or its script fails.
PlayStep(c) ==
  LET now == IF c.act = "fire" /\ driver.due[c.id] > driver.clock THEN driver.due[c.id] ELSE driver.clock
      session == [trial EXCEPT !.limited = Limited]
      stepped == [driver EXCEPT !.clock = now + 1, !.step = @ + 1, !.played = c, !.moved = FALSE,
                    !.tried = Tried \cup {c},
                    !.visits = [d \in AllPlays |-> @[d] + (IF d = c THEN 1 ELSE 0)],
                    !.steady = @ \cap Range(Listed(board, trial.last))]
  IN  \/ \E r \in Outcomes(c), delay \in Delays, face \in BOOLEAN :
           /\ face => c.act = "die"
           /\ board' = r.board
           /\ trial' = [session EXCEPT !.won = winnerDeclared(r.board), !.progress = @ \/ r.progress]
           /\ driver' = [stepped EXCEPT !.moved = r.board # board \/ r.progress \/ face,
                                        !.due = Due(r.board, now, delay), !.promised = Promised(r.board, now, delay)]
           /\ UNCHANGED verdict
      \/ /\ c.act = "button" /\ "can_press" \in authored.calls
         /\ driver' = stepped /\ trial' = session /\ UNCHANGED <<verdict, board>>
      \/ /\ CallbackOf(c) \in authored.calls \/ c.act = "fire" \/ (c.act = "button" /\ "can_press" \in authored.calls)
         /\ Fails(session, "lua_runtime_error") /\ driver' = stepped

TrialStep ==
  /\ trial.stage = "play" /\ ~PlayOver
  /\ Choice # NoAct /\ PlayStep(Choice)
  /\ UNCHANGED authored

\* The end of a session, with what is said of it.
Conclude ==
  LET stopped == IF trial.failed THEN "script_error" ELSE IF trial.won THEN "winner"
                 ELSE IF PlayOver THEN "action_limit" ELSE "no_actions"
      quiet == ~trial.failed /\ ~trial.won
      limited == IF PlayOver THEN trial.limited ELSE Limited
  IN  /\ trial.stage # "over" /\ (PlayOver \/ (trial.stage = "play" /\ Choice = NoAct))
      /\ trial' = [trial EXCEPT !.stage = "over", !.stopped = stopped, !.limited = limited]
      /\ verdict' = verdict
           \cup RaiseIf(limited, "game_playtest_coverage_limited")
           \cup RaiseIf(quiet /\ stopped = "no_actions", "game_playtest_stalled")
           \cup RaiseIf(quiet /\ ~trial.progress, "game_no_progress")
           \cup RaiseIf(quiet, "game_win_unobserved")
      /\ UNCHANGED <<authored, board, driver>>

TrialNext == BeginSession \/ GameStart \/ PlayerJoins \/ TrialStep \/ Conclude

TrialSpec == TrialInit /\ [][TrialNext]_trialVars
-----------------------------------------------------------------------------
\* What the checks do not say: they count the callback of a claimed seat among those that
\* a creator's script may have, and they know of no guard what it has to be bound to.
Overlooked(d, c) == c = "on_seat_claimed" \/ (c = "can_press" /\ "button" \notin d.bound)

\* What is said of a script's wiring is what the kernel does: nothing is reported that a
\* table would call, and of what no table will ever call nothing stays unreported but
\* those two.  (KNOWN_CALLBACKS and CALLBACK_COMPONENT of ai-game-quality.ts beside
\* runtimeBindings, eventDeliveries, guardForAction and the reserved claim of
\* creator-runtime.ts.)  Of a script under runtime/ nothing is said, though no table runs it.
WiringIsRight ==
  trial.stage = "checked" /\ authored.path = "scripts/" =>
    \A c \in authored.calls :
      LET reported == \E issue \in verdict : issue.about = c \/ issue.code \in {"lua_no_bindings", "lua_script_missing"}
      IN  /\ reported => c \notin Hears(authored)
          /\ c \notin Hears(authored) => reported \/ Overlooked(authored, c)

\* A session that is said to be stuck is: every option it lists has been tried on this
\* very table and came to nothing, no prompt is open, and no timer is to come.
StallsAreReal ==
  trial.stopped = "no_actions" =>
    /\ board.timers = {} /\ board.open = << >>
    /\ Range(Listed(board, trial.last)) \subseteq driver.tried
    /\ ~driver.moved

\* Nothing that could be played all along is left out: of two options that every step of
\* a session listed, one is tried at most once more than the other.  (visits, tried.)
NoOptionStarves ==
  \A c, d \in driver.steady : driver.visits[c] <= driver.visits[d] + 1

TrialIsSound == WiringIsRight /\ StallsAreReal /\ NoOptionStarves

Before(a, b) == a.whole < b.whole \/ (a.whole = b.whole /\ a.part < b.part)
SecondAfter(a) == [a EXCEPT !.whole = @ + 1]

\* Timers go off in the order that the script asked for, to the second: none before its
\* time, none while one that should have gone off a second or more before it is still to
\* come, and none that was canceled.  Within a second the order is that of the names and
\* not of the delays, for delays are rounded up.  (The map of timers that the driver keeps
\* by the events of the kernel.)
TimersFireInOrder ==
  [][driver'.step # driver.step /\ driver'.played.act = "fire" =>
       LET fired == driver'.played.id
           now == [whole |-> driver'.clock - 1, part |-> 0]
       IN  /\ fired \in board.timers /\ ~Before(now, driver.promised[fired])
           /\ \A f \in board.timers :
                /\ f \in DOMAIN driver.promised
                /\ Before(driver.promised[fired], SecondAfter(driver.promised[f]))]_trialVars
=============================================================================
