------------------------------- MODULE MCClient -------------------------------
\* Small instances of what plays a game outside its room: the sessions of two clients of
\* a scripted game, the predictions of one, a player's hands on the table, the mounting
\* of its renderer, the bundle of a game from its author's browser to the server, and
\* the trial of a draft.  They share no state here, so each behaviour is one of a single
\* part, and the rest stays as it is.
EXTENDS RoomSession, PredictionLedger, TableHands, RendererMount, GameBundles, DraftTrial, TLC

VARIABLE part

ClientInit ==
  /\ part \in {"session", "ledger", "hands", "mount", "bundle", "trial"}
  /\ SessionInit /\ LedgerInit /\ HandsInit
  /\ MountInit /\ (part # "mount" => visible)
  /\ BundleInit /\ (part # "bundle" => draft = EmptyDraft)
  /\ TrialInit /\ (part # "trial" => authored = NoScripts)

ClientNext ==
  /\ \/ part = "session" /\ SessionNext
        /\ UNCHANGED <<ledgerVars, handVars, mountVars, bundleVars, trialVars>>
     \/ part = "ledger" /\ LedgerNext
        /\ UNCHANGED <<sessionVars, handVars, mountVars, bundleVars, trialVars>>
     \/ part = "hands" /\ HandsNext
        /\ UNCHANGED <<sessionVars, ledgerVars, mountVars, bundleVars, trialVars>>
     \/ part = "mount" /\ MountNext
        /\ UNCHANGED <<sessionVars, ledgerVars, handVars, bundleVars, trialVars>>
     \/ part = "bundle" /\ BundleNext
        /\ UNCHANGED <<sessionVars, ledgerVars, handVars, mountVars, trialVars>>
     \/ part = "trial" /\ TrialNext
        /\ UNCHANGED <<sessionVars, ledgerVars, handVars, mountVars, bundleVars>>
  /\ UNCHANGED part

ClientSpec ==
  ClientInit
  /\ [][ClientNext]_<<sessionVars, ledgerVars, handVars, mountVars, bundleVars, trialVars, part>>

\* Clients, fingers and pieces share their names, so that a small group of permutations
\* serves every part.
Symmetry == Permutations(Clients) \cup Permutations(Pieces)
=============================================================================
