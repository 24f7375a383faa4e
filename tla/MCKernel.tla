-------------------------------- MODULE MCKernel --------------------------------
\* The kernel on small instances: the pieces of a table (MCTableKernel) and the
\* transaction of an action with its scripts (MCScriptTransaction), and the values that
\* go into a script and come out of it (MCScriptValues).  They share no state, so each
\* behaviour is one of a single part, and the rest stays as it is.
EXTENDS MCTableKernel, MCScriptTransaction, MCScriptValues, Playtest

VARIABLE part

KernelInit ==
  /\ part \in {"table", "scripts", "values", "playtest"}
  /\ TableInit /\ ScriptInit /\ ValueInit /\ PlaytestInit
  /\ part = "table" \/ ((\A b \in Boxes : box[b] = << >>) /\ (\A p \in Pieces : at[p] = here))
  /\ part = "scripts" \/ program = 1
  /\ part = "values" \/ (\A name \in Names : store[name] = Whole(0))

KernelNext ==
  /\ \/ part = "table" /\ TableNext /\ UNCHANGED <<scriptVars, valueVars, playtestVars>>
     \/ part = "scripts" /\ ScriptNext /\ UNCHANGED <<tableVars, valueVars, playtestVars>>
     \/ part = "values" /\ ValueNext /\ UNCHANGED <<tableVars, scriptVars, playtestVars>>
     \/ part = "playtest" /\ PlaytestNext /\ UNCHANGED <<tableVars, scriptVars, valueVars>>
  /\ UNCHANGED part

KernelSpec == KernelInit /\ [][KernelNext]_<<tableVars, scriptVars, valueVars, playtestVars, part>>

KernelSymmetry == Symmetry \cup Permutations(Replicas)
=============================================================================
