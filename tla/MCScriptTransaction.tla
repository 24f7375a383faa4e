------------------------- MODULE MCScriptTransaction -------------------------
\* Small instances of ScriptTransaction: releases whose scripts answer themselves
\* without end, fail half-way, draw and remember, ask and withdraw, forbid.
EXTENDS ScriptTransaction, TLC

Quiet == [fails |-> FALSE, allows |-> TRUE, draws |-> 0, remembers |-> FALSE, commands |-> << >>]
Asks(commands) == [Quiet EXCEPT !.commands = commands]
Draws(commands) == [Quiet EXCEPT !.draws = 1, !.remembers = TRUE, !.commands = commands]
Fails == [Draws(<< "flip" >>) EXCEPT !.fails = TRUE]

Silence == [call \in Bindings \X Callbacks \X BOOLEAN |-> Quiet]

Whenever(b, callback, response) ==
  [call \in {b} \X {callback} \X BOOLEAN |-> response]
When(b, callback, face, response) == <<b, callback, face>> :> response

Echo == Whenever(Card, "on_flip", Draws(<< "flip" >>)) @@ Silence

Timers ==
  Whenever(Card, "on_start", Draws(<< "after" >>)) @@
  Whenever(Die, "on_start", Draws(<< "after", "after", "forget" >>)) @@
  When(Card, "tick", TRUE, Fails) @@ When(Card, "tick", FALSE, Asks(<< "show", "show", "show" >>)) @@
  Whenever(Die, "tick", Asks(<< "roll", "after" >>)) @@
  Whenever(Die, "on_roll", Draws(<< >>)) @@ Silence

Prompts ==
  Whenever(Card, "on_start", Asks(<< "ask" >>)) @@
  Whenever(Card, "on_prompt", Draws(<< "roll" >>)) @@
  When(Die, "on_prompt", TRUE, Draws(<< "ask" >>)) @@ When(Die, "on_prompt", FALSE, Draws(<< >>)) @@
  Whenever(Die, "on_press", Asks(<< "withdraw" >>)) @@ Silence

Guards ==
  When(Card, "can_flip", TRUE, [Quiet EXCEPT !.allows = FALSE]) @@
  When(Die, "can_press", TRUE, Asks(<< "roll" >>)) @@
  Whenever(Die, "on_press", Asks(<< "after", "roll", "count", "show" >>)) @@
  Whenever(Die, "on_roll", Asks(<< "forget", "count" >>)) @@ Silence

MCPrograms == <<Silence, Echo, Timers, Prompts, Guards>>
=============================================================================
