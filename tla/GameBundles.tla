------------------------------ MODULE GameBundles ------------------------------
(***************************************************************************)
(* A game's bundle on its way from the editor to a table: edited as part   *)
(* of a draft (apps/web/src/editor/state), stored in the browser and read  *)
(* back, exported and imported, uploaded, bound to the server's ids and    *)
(* opened by rooms (apps/worker/src/platform.ts, release-validation.ts).   *)
(* Every reader judges it by the checks of Bundles, and the ones who write *)
(* it recompute its hashes.  History, drags and the timing of saves are in *)
(* DraftEditing, the rows of a published game in Publishing, and what the  *)
(* model makes of a game in DraftAssembly.                                 *)
(***************************************************************************)
EXTENDS Bundles

CONSTANTS
  MaxEdits    \* bound: what the author does

ASSUME BundleAssumption == MaxEdits \in Nat

VARIABLES
  draft,      \* the editor's draft: title, players, bundle
  kept,       \* its text in localStorage, or Blank
  exported,   \* a bundle text that was downloaded, or Blank
  published,  \* the game's row: players and title; and the bundle in R2, or Blank
  edits       \* what the author did so far

bundleVars == <<draft, kept, exported, published, edits>>

-----------------------------------------------------------------------------
Names == {"deck", "card", "other"}
Scripts == {"scripts/game.lua", "scripts/Game.lua"}
SoundsPath == "runtime/sounds.json"

-----------------------------------------------------------------------------
\* Drafts.

\* snapshot(state), with its hash; the title and limits of the draft; the manifest.
\* Fault: the hashes of the state are kept.
rebuildDraftIntegrity_Manifest(d) ==
  LET b == [d.bundle EXCEPT !.title = d.title, !.players = d.players]
  IN  [d EXCEPT !.bundle = [b EXCEPT !.manifestHash = manifestHashInput(b)]]

rebuildDraftIntegrity(d) ==
  LET b == [d.bundle EXCEPT !.title = d.title, !.players = d.players, !.stateHash = d.bundle.state, !.stateId = d.bundle.id]
  IN  [d EXCEPT !.bundle = [b EXCEPT !.manifestHash = manifestHashInput(b)]]

Bundle(files, state) ==
  [id |-> "draft", stateId |-> "draft", title |-> "Title", players |-> 4, files |-> files, refs |-> {"deck"},
   definitions |-> {"ace"}, state |-> state, stateHash |-> state, manifestHash |-> Blank]

GamePath == "runtime/game.json"
GameFile ==
  [p \in {GamePath, "scripts/game.lua"} |-> releaseFile(Content(IF p = GamePath THEN "game" ELSE "text", 0))]
Table(entities) == [entities |-> entities, joined |-> FALSE]

\* createEmptyEditorDraft, createCardGameEditorDraft
Draft(entities) ==
  rebuildDraftIntegrity([title |-> "Title", players |-> 4, bundle |-> Bundle(GameFile, Table(entities))])
EmptyDraft == Draft([n \in {} |-> Blank])
CardDraft == Draft([n \in {"deck", "card"} |-> IF n = "deck" THEN Entity(TRUE, {"card"}, "none") ELSE Entity(FALSE, {}, "ace")])

\* normalizeReleaseBundle: images may be damaged, to be repaired; anything else may not be.
Readable(b) ==
  LET failed == validateReleaseBundle(b, b.players)
  IN  failed = {} \/ (failed = {"card_designs"} /\ DesignsOK(b.files[DesignsPath].content.of, b, FALSE))

\* normalizeEditorDraft, deserializeEditorDraft
Reopened(text) ==
  IF text # Blank /\ text.title # "" /\ Readable(text.bundle) /\ text.players = text.bundle.players THEN text ELSE Blank

-----------------------------------------------------------------------------
\* The editor's commands.  One that throws leaves the draft as it was.

AuthorActs == edits < MaxEdits /\ edits' = edits + 1

Command(next) ==
  /\ AuthorActs /\ StateOK(next.bundle.state)
  /\ draft' = rebuildDraftIntegrity(next)
  /\ UNCHANGED <<kept, exported, published>>

WithFiles(files) == [draft EXCEPT !.bundle.files = files]
WithEntities(entities) == [draft EXCEPT !.bundle.state.entities = entities]
DraftFiles == draft.bundle.files
With(old, x, value) == [y \in DOMAIN old \cup {x} |-> IF y = x THEN value ELSE old[y]]
DraftEntities == draft.bundle.state.entities

createScript(p) ==
  p \notin DOMAIN DraftFiles /\ Command(WithFiles(With(DraftFiles, p, releaseFile(Content("text", 0)))))
renameScript(from, to) ==
  /\ from \in DOMAIN DraftFiles /\ to \notin DOMAIN DraftFiles
  /\ Command(WithFiles([p \in (DOMAIN DraftFiles \ {from}) \cup {to} |-> IF p = to THEN releaseFile(DraftFiles[from].content) ELSE DraftFiles[p]]))
deleteScript(p) ==
  p \in DOMAIN DraftFiles /\ Command(WithFiles(Restrict(DraftFiles, DOMAIN DraftFiles \ {p})))
updateScript(p, weight) ==
  /\ p \in DOMAIN DraftFiles /\ DraftFiles[p].content.weight # weight
  /\ Command(WithFiles([DraftFiles EXCEPT ![p] = releaseFile(Content("text", weight))]))

\* The designs, the sounds and the refs keep the old name.
renameEntity(n, to) ==
  /\ n \in DOMAIN DraftEntities /\ to \notin DOMAIN DraftEntities
  /\ LET Renamed(e) == [e EXCEPT !.items = {IF i = n THEN to ELSE i : i \in @}]
     IN  Command(WithEntities([k \in (DOMAIN DraftEntities \ {n}) \cup {to} |-> Renamed(DraftEntities[IF k = to THEN n ELSE k])]))
duplicateEntity(n, copy) ==
  /\ n \in DOMAIN DraftEntities /\ copy \notin DOMAIN DraftEntities
  /\ Command(WithEntities(With(DraftEntities, copy, [DraftEntities[n] EXCEPT !.items = {}])))
deleteEntity(n) ==
  /\ n \in DOMAIN DraftEntities
  /\ Command(WithEntities([k \in DOMAIN DraftEntities \ {n} |-> [DraftEntities[k] EXCEPT !.items = @ \ {n}]]))
addComponent(n) ==
  /\ n \in DOMAIN DraftEntities
  /\ \/ ~DraftEntities[n].deck /\ Command(WithEntities([DraftEntities EXCEPT ![n].deck = TRUE]))
     \/ DraftEntities[n].card = "none" /\ Command(WithEntities([DraftEntities EXCEPT ![n].card = "card"]))
removeComponent(n) ==
  /\ n \in DOMAIN DraftEntities
  /\ \/ DraftEntities[n].deck /\ Command(WithEntities([DraftEntities EXCEPT ![n].deck = FALSE]))
     \/ DraftEntities[n].card # "none" /\ Command(WithEntities([DraftEntities EXCEPT ![n].card = "none"]))

updateDraftMetadata(title, players) ==
  /\ <<title, players>> # <<draft.title, draft.players>>
  /\ Command([draft EXCEPT !.title = title, !.players = players])

\* A presentation file, unless the upload would become too big.
Attached(p, file) == WithFiles(With(DraftFiles, p, file))
Attach(p, file) == Bytes(Attached(p, file).bundle) <= BodyLimit /\ Command(Attached(p, file))

\* emptyCardDesigns, then withCardImage: one family, whose image is its back.
Family == "family"
Designs == [decks |-> {n \in DOMAIN DraftEntities : DraftEntities[n].deck},
            cards |-> {DraftEntities[n].card : n \in DOMAIN DraftEntities} \ {"none"}, images |-> [family \in {Family} |-> "none"]]

attachCardDesigns(designs) ==
  /\ DesignsOK(designs, draft.bundle, TRUE)
  /\ Attach(DesignsPath, releaseFile(Content(designs, ImageWeight(designs))))
EditDesigns ==
  IF DesignsPath \notin DOMAIN DraftFiles THEN attachCardDesigns(Designs)
  ELSE \E image \in {"none", "good"} :
         image # DraftFiles[DesignsPath].content.of.images[Family]
         /\ attachCardDesigns([DraftFiles[DesignsPath].content.of EXCEPT !.images[Family] = image])
attachSoundBundle == SoundsPath \notin DOMAIN DraftFiles /\ Attach(SoundsPath, releaseFile(Content("clips", 1)))
attachCardBack ==
  \/ BackPath \notin DOMAIN DraftFiles /\ Attach(BackPath, releaseFile(Content("image", 1)))
  \/ BackPath \in DOMAIN DraftFiles /\ Command(WithFiles(Restrict(DraftFiles, DOMAIN DraftFiles \ {BackPath})))

\* applyAiBundle: one that the server has checked.
applyAiBundle ==
  Command([draft EXCEPT !.bundle = [EmptyDraft.bundle EXCEPT !.players = 2], !.title = EmptyDraft.title, !.players = 2])

-----------------------------------------------------------------------------
\* Storage, files and the server.

\* saveEditorDraft, after the debounce or before the review page.
Save ==
  /\ kept # draft /\ kept' = draft
  /\ UNCHANGED <<draft, exported, published, edits>>

\* The editor is opened: a draft that cannot be read gives way to an empty one, which is
\* stored in its place.
OpenEditor ==
  /\ AuthorActs /\ kept # Blank
  /\ LET loaded == Reopened(kept)
     IN  /\ draft' = rebuildDraftIntegrity(IF loaded = Blank THEN EmptyDraft ELSE loaded)
         /\ kept' = IF loaded = Blank THEN EmptyDraft ELSE kept
  /\ UNCHANGED <<exported, published>>

exportBundleText ==
  /\ exported # draft.bundle /\ exported' = draft.bundle
  /\ UNCHANGED <<draft, kept, published, edits>>

\* A file as it was downloaded, or after it was edited by hand.
Tampered(b) ==
  {b, [b EXCEPT !.files["scripts/game.lua"].content = Content("other", 0)],
   [b EXCEPT !.files["scripts/game.lua"] = releaseFile(Content("other", 0))],
   [b EXCEPT !.state.joined = TRUE], [b EXCEPT !.state.joined = TRUE, !.stateHash.joined = TRUE]}
  \cup (IF DesignsPath \notin DOMAIN b.files THEN {}
        ELSE LET c == b.files[DesignsPath].content
                 d == [b EXCEPT !.files[DesignsPath] = releaseFile([c EXCEPT !.of.images[Family] = "damaged"])]
             IN  {d, [d EXCEPT !.manifestHash = manifestHashInput(d)]})

importBundleAsDraft ==
  /\ AuthorActs /\ exported # Blank /\ "scripts/game.lua" \in DOMAIN exported.files
  /\ \E b \in Tampered(exported) :
       Readable(b) /\ draft' = rebuildDraftIntegrity([title |-> b.title, players |-> b.players, bundle |-> b])
  /\ UNCHANGED <<kept, exported, published>>

\* The review page uploads the draft that was saved for it; POST /api/games and
\* POST /api/games/{slug}/releases.
Publish ==
  /\ AuthorActs /\ kept # Blank /\ Reopened(kept) # Blank
  /\ LET new == published = Blank
         players == IF new THEN kept.players ELSE published.players
         title == IF new THEN kept.title ELSE published.title
     IN  /\ TitleOK(title) /\ validateReleaseBundle(kept.bundle, players) = {}
         /\ published' = [players |-> players, title |-> title, source |-> kept.bundle,
                          bundle |-> prepareUploadedBundle(kept.bundle, "release", title)]
  /\ UNCHANGED <<draft, kept, exported>>

-----------------------------------------------------------------------------
BundleInit ==
  /\ draft \in {EmptyDraft, CardDraft} /\ kept = Blank /\ exported = Blank /\ published = Blank /\ edits = 0

BundleNext ==
  \/ \E p \in Scripts : createScript(p) \/ deleteScript(p) \/ (\E w \in {0, 2} : updateScript(p, w)) \/ (\E q \in Scripts : renameScript(p, q))
  \/ \E n \in Names : renameEntity(n, "other") \/ duplicateEntity(n, "other") \/ deleteEntity(n) \/ addComponent(n) \/ removeComponent(n)
  \/ \E title \in {"Title", "A title of more than eighty characters"}, players \in {2, 4} : updateDraftMetadata(title, players)
  \/ EditDesigns \/ attachSoundBundle \/ attachCardBack \/ applyAiBundle
  \/ Save \/ OpenEditor \/ exportBundleText \/ importBundleAsDraft \/ Publish

BundleSpec == BundleInit /\ [][BundleNext]_bundleVars

-----------------------------------------------------------------------------
\* What the editor lets an author do to a draft that no reader takes: a title or a script
\* name that is refused, designs whose deck is gone, or more than an upload may hold.
Refused(b) ==
  \/ ~TitleOK(b.title) \/ "scripts/Game.lua" \in DOMAIN b.files \/ ~(Bytes(b) <= BodyLimit)
  \/ DesignsPath \in DOMAIN b.files /\ ~DesignsOK(b.files[DesignsPath].content.of, b, FALSE)

\* Every bundle that the editor holds, keeps or hands out has the hashes of what it
\* contains and a state that loads, whatever was edited, imported or taken from the AI;
\* what is kept is read back as it was, but for the drafts described above; and
\* what was published opens with the row it is stored under, holds what the author uploaded,
\* and nobody's seat.  (rebuildDraftIntegrity, normalizeReleaseBundle, prepareUploadedBundle.)
BundlesStayWhole ==
  /\ \A b \in {draft.bundle} \cup (IF kept = Blank THEN {} ELSE {kept.bundle}) \cup (IF exported = Blank THEN {} ELSE {exported}) :
       /\ b.manifestHash = manifestHashInput(b) /\ b.stateHash = b.state /\ StateOK(b.state)
       /\ \A p \in DOMAIN b.files : b.files[p] = releaseFile(b.files[p].content)
  /\ kept # Blank => Reopened(kept) = kept \/ Refused(kept.bundle)
  /\ published # Blank =>
       LET b == published.bundle
       IN  /\ validateReleaseBundle(b, published.players) = {} /\ ~b.state.joined
           /\ b.files = published.source.files /\ b.state.entities = published.source.state.entities

\* A draft that was saved is read back.
SavedDraftsOpen == kept # Blank => Reopened(kept) = kept
=============================================================================
