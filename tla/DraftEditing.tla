------------------------------ MODULE DraftEditing ------------------------------
(***************************************************************************)
(* A draft in the editor: commands, drags, undo and redo                   *)
(* (apps/web/src/editor/state/EditorStore.ts), its saving to the browser's *)
(* storage, and the image that is generated for it in the background       *)
(* (apps/web/src/artwork/useDraftArtworkGeneration.ts), whose receipts are *)
(* written into the draft and into its history while the user goes on.     *)
(*                                                                         *)
(* A draft is its rules, numbered by the edit that made them, the style asked for, *)
(* the image selected, and the job that made the image.  A generated image *)
(* is named by the style and revision it was asked for with; the images    *)
(* that users bring, and having none, are of revision 0.                   *)
(***************************************************************************)
EXTENDS Integers, Sequences, SequencesExt

CONSTANTS
  MaxHistory,   \* MAX_HISTORY_ENTRIES
  MaxActs,      \* bound: what the user does
  Styles        \* art directions

ASSUME EditingAssumption == MaxHistory \in Nat \ {0} /\ MaxActs \in Nat /\ Styles # {}

VARIABLES
  draft, past, future,  \* EditorStore
  drag,                 \* the command being dragged: the draft before it, and whether it did anything
  acts,                 \* what the user did so far
  saveStatus,
  timer,                \* an autosave is due
  stored,               \* the draft in the browser's storage
  mounted,              \* the editor is open
  request,              \* the image being made: what for, and how far
  attempted,            \* what images were asked for since the editor was opened
  prepared              \* images made, kept until they are replaced

editingVars == <<draft, past, future, drag, acts, saveStatus, timer, stored, mounted, request, attempted, prepared>>
storeVars == <<draft, past, future, drag, saveStatus, timer>>
artVars == <<request, attempted, prepared>>

NoDrag == [on |-> FALSE]
NoRequest == [phase |-> "none"]
NoImage == <<"none", 0>>
OwnImage == <<"own", 0>>
PendingJob(revision) == [status |-> "pending", revision |-> revision, made |-> NoImage]

EditingInit ==
  /\ \E style \in Styles : draft = [rules |-> 0, style |-> style, image |-> NoImage, job |-> PendingJob(1)]
  /\ past = << >> /\ future = << >> /\ drag = NoDrag /\ acts = 0
  /\ saveStatus = "saved" /\ timer = FALSE /\ stored = draft /\ mounted = TRUE
  /\ request = NoRequest /\ attempted = {} /\ prepared = {}

-----------------------------------------------------------------------------
\* The store.

Newest(frames) == SubSeq(frames, Len(frames) - Min({Len(frames), MaxHistory}) + 1, Len(frames))

UserActs == acts < MaxActs /\ acts' = acts + 1

\* publish(true): the autosave is put off.
Saving == saveStatus' = "saving" /\ timer' = TRUE

\* endCoalescedSceneCommand, within another command or by itself.
PastAfterDrag == IF drag.on /\ drag.mutated THEN Newest(Append(past, drag.frame)) ELSE past
FutureAfterDrag == IF drag.on /\ drag.mutated THEN << >> ELSE future

\* applySceneCommand
Command(next) ==
  /\ draft' = next
  /\ past' = Newest(Append(PastAfterDrag, draft)) /\ future' = << >> /\ drag' = NoDrag
  /\ Saving

Edit ==
  /\ mounted /\ UserActs
  /\ Command([draft EXCEPT !.rules = acts'])
  /\ UNCHANGED <<stored, mounted, artVars>>

\* A command that cannot be applied ends the drag as well.
EndDrag ==
  /\ mounted /\ drag.on
  /\ past' = PastAfterDrag /\ future' = FutureAfterDrag /\ drag' = NoDrag
  /\ timer' = (timer \/ drag.mutated)
  /\ UNCHANGED <<draft, acts, saveStatus, stored, mounted, artVars>>

BeginDrag ==
  /\ mounted /\ UserActs /\ ~drag.on
  /\ drag' = [on |-> TRUE, frame |-> draft, mutated |-> FALSE]
  /\ UNCHANGED <<draft, past, future, saveStatus, timer, stored, mounted, artVars>>

\* What is dragged is saved at the end, unless an autosave comes in between.
Preview ==
  /\ mounted /\ drag.on
  /\ UserActs /\ draft' = [draft EXCEPT !.rules = acts']
  /\ drag' = [drag EXCEPT !.mutated = TRUE] /\ saveStatus' = "saving"
  /\ UNCHANGED <<past, future, timer, stored, mounted, artVars>>

\* Undo, or as many of them as lead back to an entry of the history.
JumpToHistory(n) ==
  /\ mounted /\ UserActs /\ n \in 0 .. Len(past) - 1
  /\ draft' = past[n + 1] /\ past' = SubSeq(past, 1, n)
  /\ future' = Newest(future \o <<draft>> \o Reverse(SubSeq(past, n + 2, Len(past))))
  /\ Saving
  /\ UNCHANGED <<drag, stored, mounted, artVars>>

Redo ==
  /\ mounted /\ UserActs /\ future # << >>
  /\ draft' = Last(future) /\ future' = Front(future) /\ past' = Newest(Append(past, draft))
  /\ Saving
  /\ UNCHANGED <<drag, stored, mounted, artVars>>

\* The file was chosen before it is read: a drag may have begun.
ReplaceDraft ==
  /\ mounted /\ UserActs
  /\ draft' = [draft EXCEPT !.rules = acts', !.image = OwnImage,
                            !.job = [status |-> "ready", revision |-> 0, made |-> OwnImage]]
  /\ past' = << >> /\ future' = << >> /\ Saving
  /\ UNCHANGED <<drag, stored, mounted, artVars>>

AutoSave ==
  /\ timer /\ timer' = FALSE
  /\ \/ stored' = draft /\ saveStatus' = "saved"
     \/ saveStatus' = "error" /\ UNCHANGED stored
  /\ UNCHANGED <<draft, past, future, drag, acts, mounted, artVars>>

\* Leaving the editor disposes of the store and forgets the request.
Leave ==
  /\ mounted /\ UserActs /\ mounted' = FALSE /\ timer' = FALSE
  /\ request' = NoRequest /\ attempted' = {} /\ prepared' = {}
  /\ UNCHANGED <<draft, past, future, drag, saveStatus, stored>>

Return ==
  /\ ~mounted /\ mounted' = TRUE
  /\ draft' = stored /\ past' = << >> /\ future' = << >> /\ drag' = NoDrag /\ saveStatus' = "saved"
  /\ UNCHANGED <<acts, timer, stored, artVars>>

-----------------------------------------------------------------------------
\* The image.  A change of the draft is a command, if it changes what is seen, or is
\* written into every draft of the history that shows the same; then it is saved at once.

\* Fault: receipts are written into the whole history.
SameImages_Always(d) == TRUE

SameImages(d) == d.image = draft.image /\ d.style = draft.style

WithReceipts(d, job) == IF SameImages(d) THEN [d EXCEPT !.job = job] ELSE d

\* onDraftChange and persistDraft; "kept" says whether the storage took it, and unsaved
\* is the job's state if not.
Commit(next, kept, unsaved) ==
  LET job == IF kept THEN next.job ELSE unsaved
      written == [i \in DOMAIN past |-> WithReceipts(past[i], job)]
  IN  /\ IF SameImages(next)
         THEN /\ draft' = [draft EXCEPT !.job = job]
              /\ past' = written /\ future' = [i \in DOMAIN future |-> WithReceipts(future[i], job)]
              /\ drag' = IF drag.on THEN [drag EXCEPT !.frame = WithReceipts(@, job)] ELSE drag
              /\ Saving
         ELSE Command([draft EXCEPT !.style = next.style, !.image = next.image, !.job = job])
      /\ stored' = IF kept THEN draft' ELSE stored

WithJob(status) == [draft EXCEPT !.job.status = status]
Committed(next) == \E kept \in BOOLEAN : Commit(next, kept, next.job)

\* requestKey
Key(d) == <<d.style, d.job.revision>>

\* A job that was pending or running is asked for once, by itself.
RunJob(next) ==
  /\ request' = [phase |-> "sent", key |-> Key(next)] /\ attempted' = attempted \cup {Key(next)}
  /\ Committed([next EXCEPT !.job.status = "running"])

Resume ==
  /\ mounted /\ request = NoRequest
  /\ draft.job.status \in {"pending", "running"} /\ Key(draft) \notin attempted
  /\ RunJob(draft)
  /\ UNCHANGED <<acts, mounted, prepared>>

StillCurrent == request.key = Key(draft)

\* The answer comes, and is decoded.
ImageAnswer ==
  /\ request.phase = "sent" /\ StillCurrent
  /\ request' = [request EXCEPT !.phase = "decoding"]
  /\ UNCHANGED <<storeVars, acts, stored, mounted, attempted, prepared>>

NoAnswer ==
  /\ request # NoRequest /\ request' = NoRequest
  /\ IF StillCurrent THEN Committed(WithJob("failed")) ELSE UNCHANGED <<storeVars, stored>>
  /\ UNCHANGED <<acts, mounted, attempted, prepared>>

\* applyPrepared: the image is kept in the tab, and selected; what the storage does not
\* take can be saved again.
Select(image) ==
  LET ready == [draft EXCEPT !.image = image, !.job.status = "ready", !.job.made = image]
  IN  /\ prepared' = {image}
      /\ \E kept \in BOOLEAN : Commit(ready, kept, [ready.job EXCEPT !.status = "unsaved"])

Arrive ==
  /\ request.phase = "decoding" /\ request' = NoRequest
  /\ IF StillCurrent THEN Select(request.key) ELSE UNCHANGED <<storeVars, stored, prepared>>
  /\ UNCHANGED <<acts, mounted, attempted>>

\* retry and retrySaving: what is kept in the tab is saved again, or the image is asked
\* for once more, as another one if that is wanted.
SaveAgain ==
  /\ mounted /\ UserActs /\ request = NoRequest /\ draft.job.status = "unsaved"
  /\ \E image \in prepared : Select(image)
  /\ UNCHANGED <<mounted, request, attempted>>

Retry(another) ==
  LET revision == draft.job.revision + (IF another THEN 1 ELSE 0)
  IN  /\ mounted /\ request = NoRequest /\ UserActs /\ revision > 0
      /\ another \/ draft.job.status # "unsaved" \/ prepared = {}
      /\ prepared' = IF another THEN {} ELSE prepared
      /\ RunJob([draft EXCEPT !.job.revision = revision])
      /\ UNCHANGED <<mounted>>

\* The user's own image, or none.
ReplaceImage(image) ==
  /\ mounted /\ UserActs
  /\ prepared' = {}
  /\ Committed([draft EXCEPT !.image = image,
       !.job = [status |-> IF image = OwnImage THEN "ready" ELSE "failed", revision |-> @.revision + 1, made |-> image]])
  /\ UNCHANGED <<mounted, request, attempted>>

SaveDirection(style) ==
  /\ mounted /\ style # draft.style /\ UserActs
  /\ prepared' = {}
  /\ Committed([draft EXCEPT !.style = style, !.job = [PendingJob(@.revision + 1) EXCEPT !.made = draft.job.made]])
  /\ UNCHANGED <<mounted, request, attempted>>

EditingNext ==
  \/ Edit \/ BeginDrag \/ Preview \/ EndDrag \/ Redo \/ ReplaceDraft
  \/ \E n \in 0 .. MaxHistory : JumpToHistory(n)
  \/ AutoSave \/ Leave \/ Return
  \/ Resume \/ ImageAnswer \/ NoAnswer \/ Arrive \/ SaveAgain
  \/ \E another \in BOOLEAN : Retry(another)
  \/ \E image \in {OwnImage, NoImage} : ReplaceImage(image)
  \/ \E style \in Styles : SaveDirection(style)

EditingSpec == EditingInit /\ [][EditingNext]_editingVars

-----------------------------------------------------------------------------
Drafts == {draft, stored} \cup ToSet(past) \cup ToSet(future) \cup (IF drag.on THEN {drag.frame} ELSE {})

\* A draft that says it is saved is what the storage has, and one that is not will be
\* saved, is being dragged, or says that it could not.  In every draft that undo, redo or
\* the storage can bring back, the image is the one its job says it made: no receipt
\* reaches a draft that shows something else.  (EditorStore.updateArtworkMetadata, which
\* writes the outcome of a job into the history of what has been edited since.)
DraftsAreSound ==
  /\ saveStatus = "saved" /\ mounted => stored = draft
  /\ mounted /\ stored # draft => timer \/ saveStatus = "error" \/ (drag.on /\ drag.mutated)
  /\ \A d \in Drafts : d.job.status = "ready" => d.image = d.job.made
=============================================================================
