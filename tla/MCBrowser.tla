------------------------------- MODULE MCBrowser -------------------------------
\* Small instances of the browser's side: two clients of an unscripted game under
\* fairness, the editing of a draft, and the drafts a model writes.  They share no state,
\* so each behaviour is one of a single part, and the rest stays as it is.
EXTENDS RoomSession, DraftEditing, DraftAssembly

VARIABLE part

BrowserVars == <<sessionVars, editingVars, assemblyVars, part>>

BrowserInit ==
  /\ part \in {"session", "draft", "assembly"}
  /\ SessionInit /\ AssemblyInit
  /\ EditingInit /\ (part # "draft" => draft.style = CHOOSE s \in Styles : TRUE)

BrowserNext ==
  /\ \/ part = "session" /\ PlainNext /\ UNCHANGED <<editingVars, assemblyVars>>
     \/ part = "draft" /\ EditingNext /\ UNCHANGED <<sessionVars, assemblyVars>>
     \/ part = "assembly" /\ AssemblyNext /\ UNCHANGED <<sessionVars, editingVars>>
  /\ UNCHANGED part

\* What was received is eventually handled, by the room and by every client, and
\* timers and bundle requests come back.  Players and users are under no obligation.
FairBrowserSpec ==
  /\ BrowserInit /\ [][BrowserNext]_BrowserVars
  /\ \A c \in Clients :
       /\ WF_BrowserVars(part = "session" /\ RoomStep(c) /\ UNCHANGED <<editingVars, assemblyVars, part>>)
       /\ WF_BrowserVars(part = "session" /\ ClientStep(c) /\ UNCHANGED <<editingVars, assemblyVars, part>>)
  /\ WF_BrowserVars(part = "session" /\ OrphanStarts /\ UNCHANGED <<editingVars, assemblyVars, part>>)
=============================================================================
