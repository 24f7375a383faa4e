------------------------------ MODULE MCPlatform ------------------------------
\* Small instances of the parts of the platform around the rooms.  They share no
\* state, so each behaviour is one of a single part, and the rest stays as it is.
EXTENDS Accounts, PlayCounts, Publishing, SavedTables, TurnOrder, AiStudio, TLC

VARIABLE part

PlatformInit ==
  /\ part \in {"accounts", "counts", "publishing", "saves", "seats", "studio"}
  /\ AccountInit /\ CountInit /\ PublishInit /\ SaveInit /\ TurnInit /\ StudioInit
  /\ part = "saves" \/ ~luaRoom
  /\ part = "seats" \/ (base.seats[SavedSeats] = Nobody /\ lib.order = << >>)

PlatformNext ==
  /\ \/ /\ part = "accounts" /\ AccountNext
        /\ UNCHANGED <<countVars, publishVars, saveVars, turnVars, studioVars>>
     \/ /\ part = "counts" /\ CountNext
        /\ UNCHANGED <<accountVars, publishVars, saveVars, turnVars, studioVars>>
     \/ /\ part = "publishing" /\ PublishNext
        /\ UNCHANGED <<accountVars, countVars, saveVars, turnVars, studioVars>>
     \/ /\ part = "saves" /\ SaveNext
        /\ UNCHANGED <<accountVars, countVars, publishVars, turnVars, studioVars>>
     \/ /\ part = "seats" /\ TurnNext
        /\ UNCHANGED <<accountVars, countVars, publishVars, saveVars, studioVars>>
     \/ /\ part = "studio" /\ StudioNext
        /\ UNCHANGED <<accountVars, countVars, publishVars, saveVars, turnVars>>
  /\ UNCHANGED part

PlatformSpec ==
  PlatformInit
  /\ [][PlatformNext]_<<accountVars, countVars, publishVars, saveVars, turnVars, studioVars, part>>

Symmetry == Permutations(Jobs) \cup Permutations(Veterans)
=============================================================================
