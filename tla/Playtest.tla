------------------------------- MODULE Playtest -------------------------------
(***************************************************************************)
(* Playing a draft in the editor (apps/web/src/editor/playtest): the       *)
(* controller starts and stops playtests at any time, while the one before *)
(* is still being created or has an operation under way; the runtime keeps *)
(* the table and applies actions and ticks to it, one after the other, in  *)
(* scripts that it awaits; the sandbox (packages/lua/src/index.ts) may be  *)
(* closed during such an await.                                            *)
(*                                                                         *)
(* A runtime is named by the generation that started it.  A table is what  *)
(* was done on it and the timers scheduled in it.                          *)
(***************************************************************************)
EXTENDS Integers, Sequences, FiniteSets, SequencesExt, Functions

CONSTANTS
  MaxGeneration,  \* bound: starts and stops
  MaxOperations,  \* bound: actions and ticks asked for
  MaxTimers       \* bound: timers that one table registers

ASSUME PlaytestAssumption == MaxGeneration \in Nat \ {0} /\ MaxOperations \in Nat /\ MaxTimers \in Nat

VARIABLES
  generation, status,  \* the controller's
  runtime,             \* the runtime it plays with; 0 if none
  shown,               \* the table that the projection shows
  logs,                \* what is logged: the runtime it is from and what it is about
  task,                \* operations queued behind the one under way
  asked,               \* operations asked for so far: 1 .. asked
  runtimes,            \* per runtime: how far it is created, its sandbox, table and timers
  running              \* operations under way, of any runtime

playtestVars == <<generation, status, runtime, shown, logs, task, asked, runtimes, running>>

Generations == 1 .. MaxGeneration
Release == [done |-> << >>, timers |-> {}]
NoRuntime == [phase |-> "none", open |-> FALSE, table |-> Release, ticks |-> 0, due |-> << >>, registered |-> 0]

\* A runtime that nothing refers to any more.
Forgotten == [NoRuntime EXCEPT !.phase = "over"]

PlaytestInit ==
  /\ generation = 0 /\ status = "stopped" /\ runtime = 0 /\ shown = Release /\ logs = {}
  /\ task = << >> /\ asked = 0 /\ running = {}
  /\ runtimes = [g \in Generations |-> NoRuntime]

-----------------------------------------------------------------------------
\* Starting and stopping.

Log(g, about, id) == IF g = generation THEN logs \cup {[of |-> g, is |-> about, id |-> id]} ELSE logs

\* The draft is compiled at once, the runtime created in the background.
Start ==
  /\ status = "stopped" /\ generation < MaxGeneration
  /\ generation' = generation + 1
  /\ \/ /\ status' = "starting" /\ shown' = Release /\ logs' = {}
        /\ runtimes' = [runtimes EXCEPT ![generation'].phase = "sandbox"]
     \/ /\ logs' = {[of |-> generation', is |-> "status", id |-> 0]}
        /\ UNCHANGED <<status, shown, runtimes>>
  /\ UNCHANGED <<runtime, task, asked, running>>

Step(kind) == [is |-> kind, timer |-> 0]
Fire(t) == [is |-> "fire", timer |-> t]

\* An operation under way: what is left to do, and the table it is being done to.
Under(g, id, todo) == [of |-> g, id |-> id, todo |-> todo, base |-> runtimes[g].table]

\* The sandbox is there, and the setup of the game is run; a table without players gets
\* one, with a seat.
SandboxCreated(g) ==
  /\ runtimes[g].phase = "sandbox"
  /\ \E joins \in {<< >>, <<Step("join"), Step("seat")>>} :
       running' = running \cup {Under(g, 0, <<Step("setup")>> \o joins)}
  /\ runtimes' = [runtimes EXCEPT ![g].phase = "boot", ![g].open = TRUE]
  /\ UNCHANGED <<generation, status, runtime, shown, logs, task, asked>>

\* No sandbox, a number of players the game does not take, or setup rules that fail.
CreateFails(g) ==
  /\ runtimes[g].phase \in {"sandbox", "failing"}
  /\ runtimes' = [runtimes EXCEPT ![g] = Forgotten]
  /\ logs' = Log(g, "status", 0)
  /\ status' = IF g = generation THEN "stopped" ELSE status
  /\ UNCHANGED <<generation, runtime, shown, task, asked, running>>

\* Fault: what was created is played with, whoever started it.
IsWanted_Always(g) == TRUE

\* The playtest has not been stopped meanwhile.
IsWanted(g) == g = generation

Created(g) ==
  /\ runtimes[g].phase = "created"
  /\ IF IsWanted(g)
     THEN /\ runtime' = g /\ shown' = runtimes[g].table /\ status' = "playing"
          /\ runtimes' = [runtimes EXCEPT ![g].phase = "used"]
     ELSE /\ runtimes' = [runtimes EXCEPT ![g] = Forgotten]
          /\ UNCHANGED <<runtime, shown, status>>
  /\ logs' = Log(g, "status", 0)
  /\ UNCHANGED <<generation, task, asked, running>>

\* What is under way goes on and finds its runtime closed; what is queued does nothing.
Stop ==
  /\ generation < MaxGeneration
  /\ generation' = generation + 1
  /\ runtimes' = IF runtime = 0 THEN runtimes
                 ELSE [runtimes EXCEPT ![runtime] =
                         IF \E op \in running : op.of = runtime THEN [@ EXCEPT !.open = FALSE, !.due = << >>]
                         ELSE Forgotten]
  /\ runtime' = 0 /\ task' = << >> /\ status' = "stopped"
  /\ logs' = logs \cup {[of |-> generation', is |-> "status", id |-> 0]}
  /\ UNCHANGED <<shown, asked, running>>

-----------------------------------------------------------------------------
\* Operations.

\* An action of the selected player, or a tick of the clock.
Ask(kind) ==
  /\ runtime # 0 /\ asked < MaxOperations
  /\ asked' = asked + 1
  /\ task' = Append(task, [id |-> asked', is |-> kind])
  /\ UNCHANGED <<generation, status, runtime, shown, logs, runtimes, running>>

\* Fault: an operation does not wait for the one before.
MayRun_Always == TRUE

MayRun == \A op \in running : op.of # runtime

\* Timers that are due fire in the order of their names; each is taken off as its turn comes.
Firing(r) ==
  LET due == {t \in DOMAIN r.due : r.due[t] <= r.ticks + 1}
  IN  {[i \in DOMAIN order |-> Fire(order[i])] :
         order \in {f \in [1 .. Cardinality(due) -> due] : \A i, j \in DOMAIN f : i < j => f[i] < f[j]}}

StillDue(due, todo) == Restrict(due, {t \in DOMAIN due : todo = << >> \/ todo[1] # Fire(t)})

\* An interaction that no table has, or of nobody at this one, is an error.
Run ==
  LET r == runtimes[runtime]
      op == task[1]
  IN  /\ runtime # 0 /\ task # << >> /\ MayRun
      /\ task' = Tail(task)
      /\ \/ \E todo \in IF op.is = "tick" THEN Firing(r) ELSE {<<Step("action")>>} :
              /\ running' = running \cup {Under(runtime, op.id, todo)}
              /\ runtimes' = [runtimes EXCEPT ![runtime].ticks = IF op.is = "tick" THEN @ + 1 ELSE @,
                                              ![runtime].due = StillDue(@, todo)]
              /\ UNCHANGED logs
         \/ op.is = "action" /\ logs' = Log(runtime, "error", op.id) /\ UNCHANGED <<runtimes, running>>
      /\ UNCHANGED <<generation, status, runtime, shown, asked>>

\* The timers of the table after an action: it may cancel one, or register another.
TimersAfter(r, op) ==
  LET left == op.base.timers \ {op.todo[1].timer}
  IN  {left} \cup {left \ {t} : t \in left}
        \cup {left \cup {t} : t \in {r.registered + 1} \cap (1 .. MaxTimers)}

\* The timers that are waited for after an action that left these in the table.
Recorded(r, before, after, delay) ==
  [t \in (DOMAIN r.due \ (before \ after)) \cup (after \ before) |->
     IF t \in after \ before THEN r.ticks + delay ELSE r.due[t]]

\* The script has come back: what it did to the table as it was is the table now.  An
\* action that is rejected leaves only its trace; a setup that is rejected ends it.
ScriptReturns(op, ok, timers, delay) ==
  LET r == runtimes[op.of]
      step == op.todo[1]
      table == [done |-> Append(op.base.done, [id |-> op.id, step |-> step, ok |-> ok]), timers |-> timers]
      failed == step.is = "setup" /\ ~ok
      rest == IF failed THEN << >> ELSE Tail(op.todo)
      thrown == rest # << >> /\ ~r.open
      booted == op.id = 0 /\ rest = << >>
  IN  /\ running' = (running \ {op}) \cup
                      (IF booted THEN {} ELSE {[op EXCEPT !.todo = IF thrown THEN << >> ELSE rest, !.base = table]})
      /\ runtimes' = [runtimes EXCEPT ![op.of].table = table,
           ![op.of].registered = @ + Cardinality(timers \ op.base.timers),
           ![op.of].due = StillDue(Recorded(r, op.base.timers, timers, delay), rest),
           ![op.of].phase = IF failed THEN "failing" ELSE IF booted THEN "created" ELSE @]
      /\ logs' = Log(op.of, "applied", op.id)

\* Of a timer that another one has canceled the action is rejected, and in a sandbox that
\* was closed meanwhile whatever has a script.
Perform(op) ==
  /\ op.todo # << >>
  /\ \/ ScriptReturns(op, FALSE, op.base.timers, 0)
     \/ /\ op.todo[1].is = "fire" => op.todo[1].timer \in op.base.timers
        /\ \E timers \in TimersAfter(runtimes[op.of], op), delay \in 1 .. 2 : ScriptReturns(op, TRUE, timers, delay)
  /\ UNCHANGED <<generation, status, runtime, shown, task, asked>>

\* The operation is over, and its table is shown if it is still played with.
FinishOperation(op) ==
  /\ op.todo = << >>
  /\ running' = running \ {op}
  /\ IF op.of = runtime
     THEN shown' = runtimes[op.of].table /\ UNCHANGED runtimes
     ELSE runtimes' = [runtimes EXCEPT ![op.of] = Forgotten] /\ UNCHANGED shown
  /\ UNCHANGED <<generation, status, runtime, logs, task, asked>>

PlaytestNext ==
  \/ Start \/ Stop \/ Run \/ Ask("action") \/ Ask("tick")
  \/ \E g \in Generations : SandboxCreated(g) \/ CreateFails(g) \/ Created(g)
  \/ \E op \in running : Perform(op) \/ FinishOperation(op)

PlaytestSpec == PlaytestInit /\ [][PlaytestNext]_playtestVars

-----------------------------------------------------------------------------
\* What one playtest does reaches no other, and what is shown is a table of the one that
\* is played, after whole operations: nothing of an operation that was stopped, or that
\* overlaps another, is shown, lost or logged, and no sandbox is left open behind it.
\* Every timer of the table is waited for, unless its own action was rejected.
\* (PlaytestController and PlaytestRuntime, whose operations read the table before an
\* await and write it after.)
PlaytestIsolated ==
  LET r == runtimes[runtime]
      under == {op \in running : op.of = runtime}
      done == r.table.done
  IN  /\ (status = "playing") = (runtime # 0)
      /\ runtime \in {0, generation}
      /\ status = "starting" => shown = Release
      /\ status # "stopped" => \A entry \in logs : entry.of = generation
      /\ \A g \in Generations : runtimes[g].open =>
           g = runtime \/ runtimes[g].phase \in {"boot", "failing", "created"}
      /\ runtime # 0 =>
           /\ under = {} => shown = r.table
           /\ \A op \in under :
                /\ IsPrefix(shown.done, done)
                /\ \A i \in DOMAIN done : done[i].id = op.id <=> i > Len(shown.done)
           /\ \A entry \in logs : entry.is = "applied" => \E i \in DOMAIN done : done[i].id = entry.id
           /\ \A i, j \in DOMAIN done : i < j => done[i].id <= done[j].id
           /\ DOMAIN r.due \subseteq r.table.timers
           /\ \A t \in r.table.timers \ DOMAIN r.due :
                \/ \E i \in DOMAIN done : done[i].step = Fire(t) /\ ~done[i].ok
                \/ \E op \in under : op.todo # << >> /\ op.todo[1] = Fire(t)
=============================================================================
