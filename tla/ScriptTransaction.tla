-------------------------- MODULE ScriptTransaction --------------------------
(***************************************************************************)
(* One ordered action and all the work its scripts ask for, applied as one *)
(* transaction (applyOrderedWithScripts, packages/kernel/src/registry.ts), *)
(* by several replicas that follow the same log.                           *)
(*                                                                         *)
(* Every invocation runs in a Lua state of its own, so what a script does  *)
(* is a function of the table it is shown: program says what.  It may fail,*)
(* deny (a guard), draw random numbers, remember something in the script   *)
(* state and queue commands, which are applied after it has returned       *)
(* (packages/lua/src/creator-runtime.ts).                                  *)
(*                                                                         *)
(* The table has a card, the entity of the first binding; a die with a     *)
(* button, the entity of the second; one counter, one prompt and timers.   *)
(* The random numbers are those drawn so far.  Only one replica is in a    *)
(* transaction at a time: they share nothing but the log, which only grows.*)
(***************************************************************************)
EXTENDS Integers, FiniteSets, Sequences, SequencesExt, FiniteSetsExt, Functions

CONSTANTS
  Replicas,    \* clients of the room
  Programs,    \* what the scripts of the releases do: release |-> binding, callback
               \* and whether the card is face up |-> response
  MaxCommands, \* options.maxCommands
  MaxCount,    \* counter.max
  MaxLog       \* bound: ordered actions

\* The binding ids, in the order of their text.
Bindings == {1, 2}
Card == 1
Die == 2

\* What a script may be called for, and what it may ask of the table.
Callbacks == {"can_flip", "can_press", "on_start", "on_flip", "on_press", "on_roll", "on_prompt", "tick"}
Requests == {"flip", "show", "roll", "count", "ask", "respond", "withdraw", "after", "forget"}

Responses ==
  [fails : BOOLEAN, allows : BOOLEAN, draws : Nat, remembers : BOOLEAN, commands : Seq(Requests)]

ASSUME ScriptAssumption ==
  /\ MaxCommands \in Nat \ {0} /\ MaxCount \in Nat /\ MaxLog \in Nat
  /\ \A release \in DOMAIN Programs : \A b \in Bindings, callback \in Callbacks, faceUp \in BOOLEAN :
       Programs[release][b, callback, faceUp] \in Responses

VARIABLES
  program, \* the release
  actions, \* the ordered actions
  table,   \* CanonicalGameState of each replica
  tx,      \* its transaction
  results  \* what came of each action at each replica, and what the scripts heard

scriptVars == <<program, actions, table, tx, results>>

-----------------------------------------------------------------------------
EmptyTable ==
  [sequence |-> 0, faceUp |-> FALSE, value |-> 0, count |-> 0, prompt |-> "none", timers |-> << >>,
   drawn |-> 0, memory |-> << >>]

Idle == [step |-> "idle"]

ScriptInit ==
  /\ program \in DOMAIN Programs
  /\ actions = << >>
  /\ table = [r \in Replicas |-> EmptyTable]
  /\ tx = [r \in Replicas |-> Idle]
  /\ results = [r \in Replicas |-> << >>]

Action(r) == actions[table[r].sequence + 1]

\* The room sequences whatever is asked of it, the first action starts the game;
\* timers are those some replica has reported.
Sequence ==
  /\ Len(actions) < MaxLog
  /\ IF actions = << >> THEN actions' = <<[type |-> "start"]>>
     ELSE \/ \E type \in {"flip", "press", "roll", "respond"} :
               actions' = Append(actions, [type |-> type])
          \/ \E r \in Replicas : \E id \in DOMAIN table[r].timers :
               actions' = Append(actions, [type |-> "fire", timer |-> id])
  /\ UNCHANGED <<program, table, tx, results>>

-----------------------------------------------------------------------------
\* Actions and commands: validate, apply and the event they emit.

PromptTypes == {"ask", "respond", "withdraw"}
TimerTypes == {"register", "fire", "cancel"}

\* A prompt is created once, and answered or withdrawn while it is open.
PromptFits(t, c) == IF c.type = "ask" THEN t.prompt = "none" ELSE t.prompt = "open"

HasTimer(t, id, status) == id \in DOMAIN t.timers /\ t.timers[id].status = status

\* A timer's id is used once; it is fired or canceled while it is scheduled.
TimerFits(t, c) ==
  IF c.type = "register" THEN c.timer \notin DOMAIN t.timers ELSE HasTimer(t, c.timer, "scheduled")

Valid(t, c) ==
  CASE c.type = "start" -> t.sequence = 0
    [] c.type \in PromptTypes -> PromptFits(t, c)
    [] c.type \in TimerTypes -> TimerFits(t, c)
    [] OTHER -> TRUE

\* die.roll draws the face.
Rolled(t) == [t EXCEPT !.drawn = @ + 1, !.value = t.drawn]

\* counter.add, up to the counter's limit.
Counted(t) == [t EXCEPT !.count = IF @ < MaxCount THEN @ + 1 ELSE @]

Prompted(t, c) ==
  [t EXCEPT !.prompt = CASE c.type = "ask" -> "open"
                         [] c.type = "respond" -> "resolved"
                         [] c.type = "withdraw" -> "canceled"]

Timed(t, c) ==
  CASE c.type = "register" ->
         [t EXCEPT !.timers = [id \in DOMAIN @ \cup {c.timer} |->
                                 IF id = c.timer THEN [status |-> "scheduled", by |-> c.by] ELSE @[id]]]
    [] c.type = "fire" -> [t EXCEPT !.timers[c.timer].status = "fired"]
    [] c.type = "cancel" -> [t EXCEPT !.timers[c.timer].status = "canceled"]

Applied(t, c) ==
  CASE c.type = "flip" -> [t EXCEPT !.faceUp = ~@]
    [] c.type = "roll" -> Rolled(t)
    [] c.type = "count" -> Counted(t)
    [] c.type \in PromptTypes -> Prompted(t, c)
    [] c.type \in TimerTypes -> Timed(t, c)
    [] OTHER -> t

\* What canonical.ts demands of counters, prompts and timers, after each command and
\* at the end of the transaction.
ValidCounter(t) == t.count \in 0 .. MaxCount
ValidPrompts(t) == t.prompt \in {"none", "open", "resolved", "canceled"}
ValidTimers(t) ==
  \A id \in DOMAIN t.timers :
    t.timers[id].by \in Bindings /\ t.timers[id].status \in {"scheduled", "fired", "canceled"}
ValidState(t) == ValidCounter(t) /\ ValidPrompts(t) /\ ValidTimers(t)

\* eventDeliveries: the callback an event is delivered to, and the bindings that
\* hear of it; the other events are only shown.
Delivery(t, c) ==
  CASE c.type = "start" -> [callback |-> "on_start", to |-> Bindings]
    [] c.type = "flip" -> [callback |-> "on_flip", to |-> {Card}]
    [] c.type = "press" -> [callback |-> "on_press", to |-> {Die}]
    [] c.type = "roll" -> [callback |-> "on_roll", to |-> {Die}]
    [] c.type = "respond" -> [callback |-> "on_prompt", to |-> Bindings]
    [] c.type = "fire" -> [callback |-> "tick", to |-> {t.timers[c.timer].by}]
    [] OTHER -> [callback |-> "none", to |-> {}]

\* guardForAction: the guards of the entity that a player acts on.
Guard(action) ==
  CASE action.type = "flip" -> [callback |-> "can_flip", to |-> {Card}]
    [] action.type = "press" -> [callback |-> "can_press", to |-> {Die}]
    [] OTHER -> [callback |-> "none", to |-> {}]

\* The bindings of a delivery, in the order of the transaction.
Subscribers(delivery, bindings) ==
  FoldLeft(LAMBDA heard, b : IF b \in delivery.to THEN Append(heard, [binding |-> b, callback |-> delivery.callback])
                             ELSE heard, << >>, bindings)

Response(t, call) == Programs[program][call.binding, call.callback, t.faceUp]

-----------------------------------------------------------------------------
InTransaction(r) == tx[r].step # "idle"
At(r, step) == tx[r].step = step

\* Fault: the bindings are taken in the order the runtime lists them.
Arranged_AsListed(listed) == listed

\* runtime.bindings, then sorted by binding id.
Arranged(listed) ==
  [i \in DOMAIN listed |-> CHOOSE b \in Range(listed) : Cardinality({c \in Range(listed) : c <= b}) = i]

Begin(r) ==
  /\ \A s \in Replicas : ~InTransaction(s)
  /\ table[r].sequence < Len(actions)
  /\ \E listed \in SetToSeqs(Bindings) :
       LET bindings == Arranged(listed) IN
       tx' = [tx EXCEPT ![r] =
         [step |-> "guard", bindings |-> bindings,
          todo |-> Subscribers(Guard(Action(r)), bindings),
          draft |-> table[r], events |-> << >>, used |-> 0, ids |-> 0, calls |-> << >>]]
  /\ UNCHANGED <<program, actions, table, results>>

\* Fault: what the scripts have done so far stays.
Rejected_KeepsDraft(r) == [tx[r].draft EXCEPT !.sequence = table[r].sequence + 1]

\* scriptRejected and rejected: the action takes its place in the log and changes
\* nothing, whatever the transaction had done by then.
Rejected(r) == [table[r] EXCEPT !.sequence = @ + 1]

Finish(r, t, result) ==
  /\ table' = [table EXCEPT ![r] = t]
  /\ results' = [results EXCEPT ![r] = Append(@, result)]
  /\ tx' = [tx EXCEPT ![r] = Idle]

Reject(r) == Finish(r, Rejected(r), [applied |-> FALSE, heard |-> << >>])

\* A guard is shown the table before the action and may only answer.
AskGuard(r) ==
  /\ At(r, "guard") /\ tx[r].todo # << >>
  /\ LET answer == Response(table[r], Head(tx[r].todo)) IN
       IF answer.fails \/ answer.draws > 0 \/ answer.commands # << >> \/ ~answer.allows
       THEN Reject(r)
       ELSE tx' = [tx EXCEPT ![r].todo = Tail(@)] /\ UNCHANGED <<table, results>>
  /\ UNCHANGED <<program, actions>>

\* applyOrderedWithRegistry
ApplyBase(r) ==
  /\ At(r, "guard") /\ tx[r].todo = << >>
  /\ IF ~Valid(table[r], Action(r)) \/ ~ValidState(Applied(table[r], Action(r))) THEN Reject(r)
     ELSE /\ tx' = [tx EXCEPT ![r] = [tx[r] EXCEPT !.step = "deliver",
                                            !.draft = [Applied(table[r], Action(r)) EXCEPT !.sequence = @ + 1],
                                            !.events = <<Delivery(table[r], Action(r))>>]]
          /\ UNCHANGED <<table, results>>
  /\ UNCHANGED <<program, actions>>

NextEvent(r) ==
  /\ At(r, "deliver") /\ tx[r].todo = << >> /\ tx[r].events # << >>
  /\ tx' = [tx EXCEPT ![r] = [tx[r] EXCEPT !.events = Tail(@), !.todo = Subscribers(Head(tx[r].events), tx[r].bindings)]]
  /\ UNCHANGED <<program, actions, table, results>>

\* What an invocation queues: set_face_up asks for a flip when the card it is shown
\* lies the other way, a timer gets the next id of the action, and the timer that
\* is canceled is one of the earliest the script has scheduled.
Own(t, b) == {id \in DOMAIN t.timers : t.timers[id].by = b /\ HasTimer(t, id, "scheduled")}

Oldest(t, b) == CHOOSE id \in Own(t, b) : \A other \in Own(t, b) : id[1] <= other[1]

\* q holds the commands so far and the next timer of the action.
Queue(t, b, q, asked) ==
  CASE asked = "show" -> IF t.faceUp THEN q ELSE [q EXCEPT !.commands = Append(@, [type |-> "flip"])]
    [] asked = "after" ->
         [commands |-> Append(q.commands, [type |-> "register", by |-> b, timer |-> <<t.sequence, q.ids>>]),
          ids |-> q.ids + 1]
    [] asked = "forget" ->
         IF Own(t, b) = {} THEN q
         ELSE [q EXCEPT !.commands = Append(@, [type |-> "cancel", timer |-> Oldest(t, b)])]
    [] OTHER -> [q EXCEPT !.commands = Append(@, [type |-> asked])]

Queued(t, b, asked, ids) ==
  FoldLeft(LAMBDA q, c : Queue(t, b, q, c), [commands |-> << >>, ids |-> ids], asked)

Affordable(used) == used < MaxCommands

\* applyCommand, for one command after the other; events only queue up.
Command(c, work) ==
  IF work.ok /\ Affordable(work.used) /\ Valid(work.draft, c) /\ ValidState(Applied(work.draft, c))
  THEN [work EXCEPT !.draft = Applied(@, c), !.used = @ + 1,
                    !.events = Append(@, Delivery(work.draft, c))]
  ELSE [work EXCEPT !.ok = FALSE]

Commanded(work, commands) == FoldLeft(LAMBDA w, c : Command(c, w), work, commands)

Invoke(r) ==
  /\ At(r, "deliver") /\ tx[r].todo # << >>
  /\ LET call == Head(tx[r].todo)
         answer == Response(tx[r].draft, call)
         queued == Queued(tx[r].draft, call.binding, answer.commands, tx[r].ids)
         shown == [tx[r].draft EXCEPT !.drawn = @ + answer.draws,
                     !.memory = IF answer.remembers THEN Append(@, <<call.binding, tx[r].draft.drawn>>) ELSE @]
         work == Commanded([ok |-> TRUE, draft |-> shown, used |-> tx[r].used, events |-> tx[r].events],
                           queued.commands)
     IN IF answer.fails \/ ~work.ok THEN Reject(r)
        ELSE /\ tx' = [tx EXCEPT ![r] = [tx[r] EXCEPT !.todo = Tail(@), !.draft = work.draft, !.used = work.used,
                                               !.events = work.events, !.ids = queued.ids, !.calls = Append(@, call)]]
             /\ UNCHANGED <<table, results>>
  /\ UNCHANGED <<program, actions>>

Commit(r) ==
  /\ At(r, "deliver") /\ tx[r].todo = << >> /\ tx[r].events = << >>
  /\ IF ValidState(tx[r].draft) THEN Finish(r, tx[r].draft, [applied |-> TRUE, heard |-> tx[r].calls])
     ELSE Reject(r)
  /\ UNCHANGED <<program, actions>>

ScriptNext ==
  \/ Sequence
  \/ \E r \in Replicas :
       Begin(r) \/ AskGuard(r) \/ ApplyBase(r) \/ NextEvent(r) \/ Invoke(r) \/ Commit(r)

ScriptSpec == ScriptInit /\ [][ScriptNext]_scriptVars

-----------------------------------------------------------------------------
\* The places of the calls of a callback.
Heard(calls, callback) == {i \in DOMAIN calls : calls[i].callback = callback}
Fired(t) == {id \in DOMAIN t.timers : t.timers[id].status = "fired"}

\* An action is applied with all its consequences or not at all: one that is
\* rejected leaves only its place in the log, and by the end of one that is applied
\* every script has heard, to the end, of all that happened to it, in the order of
\* the bindings: each turn of the card, each timer that fired, the answer to the
\* prompt.  (applyOrderedWithScripts: many events, one commit.)
TransactionsAreWhole ==
  [][\A r \in Replicas : results'[r] # results[r] =>
       LET result == Last(results'[r]) IN
       /\ ~result.applied => table'[r] = [table[r] EXCEPT !.sequence = @ + 1]
       /\ result.applied =>
            /\ table'[r].faceUp # table[r].faceUp <=> Cardinality(Heard(result.heard, "on_flip")) % 2 = 1
            /\ Cardinality(Fired(table'[r]) \ Fired(table[r])) = Cardinality(Heard(result.heard, "tick"))
            /\ LET answered == table'[r].prompt = "resolved" /\ table[r].prompt # "resolved"
                   told == Heard(result.heard, "on_prompt")
               IN  IF answered
                   THEN /\ {result.heard[i].binding : i \in told} = Bindings /\ Cardinality(told) = Cardinality(Bindings)
                        /\ \A i, j \in told : i < j => result.heard[i].binding < result.heard[j].binding
                   ELSE told = {}]_scriptVars

\* Replicas that have applied equally many actions hold the same table and have come
\* to it the same way, random numbers and script state included, in whatever order
\* their runtimes list the scripts.  (The sort by binding id and the one stream of
\* random numbers.)
ReplicasAgree ==
  \A r, s \in Replicas :
    /\ table[r].sequence = table[s].sequence => table[r] = table[s]
    /\ IsPrefix(results[r], results[s]) \/ IsPrefix(results[s], results[r])

\* Scripts that answer each other's events forever are cut off: no transaction
\* applies more commands than the budget or calls more than they can cause.
\* (commandCount, eventIndex.)
WorkIsBounded ==
  \A r \in Replicas : At(r, "deliver") =>
    /\ tx[r].used <= MaxCommands
    /\ Len(tx[r].calls) + Len(tx[r].todo) <= Cardinality(Bindings) + MaxCommands

\* A scripted game is one game.  (The promise of docs/lua-api.md.)
ScriptsAreSound == ReplicasAgree /\ WorkIsBounded
=============================================================================
