----------------------------- MODULE DraftAssembly -----------------------------
(***************************************************************************)
(* What the model writes becomes a game: its answer is dug out of the      *)
(* response (packages/ai/src/extract.ts), normalised and assembled into a  *)
(* bundle (assembleAiGameDraft, apps/worker/src/ai-games.ts), and repaired *)
(* by patches, each of which takes the bundle apart into what an author    *)
(* writes (ai-game-authoring.ts) and assembles it again                    *)
(* (ai-game-refine.ts).  An edit starts from the game's latest release,    *)
(* whose pictures the model is not shown and must not change.              *)
(*                                                                         *)
(* How often the model is called, and what that costs, is in AiStudio;     *)
(* here its calls are bounded.  The author paints and publishes meanwhile. *)
(***************************************************************************)
EXTENDS Bundles, SequencesExt

CONSTANTS
  MaxCalls,     \* bound: calls of the model
  MaxReleases   \* bound: releases of the game

ASSUME AssemblyAssumption == MaxCalls \in Nat /\ MaxReleases \in Nat

VARIABLES
  latest,  \* the bundle of the game's latest release, or Blank: not yet published
  ask,     \* the request under way
  calls    \* calls of the model so far

assemblyVars == <<latest, ask, calls>>

-----------------------------------------------------------------------------
\* What an author writes: lists, settings with the field of their type, and nothing that
\* the server computes.  sound: title, tagline, mode, seed and so on are as they should be.

Typed(key, value) ==
  [key |-> key, valueType |-> value.of,
   stringValue |-> IF value.of = "string" THEN value.is ELSE "",
   numberValue |-> IF value.of = "number" THEN value.is ELSE "0"]

ListOf(S, Item(_)) == LET list == SetToSeq(S) IN [i \in DOMAIN list |-> Item(list[i])]
Distinct(list, Key(_)) == \A i, k \in DOMAIN list : Key(list[i]) = Key(list[k]) => i = k
IsPresentation(p) == p \in {DesignsPath, BackPath}

AuthoringOf(b, paths) ==
  LET File(p) == [path |-> p, content |-> b.files[p].content]
      Setting(k) == Typed(k, b.state.settings[k])
      Piece(n) == [id |-> n, components |-> b.state.entities[n], registered |-> TRUE]
      Ref(n) == [name |-> n, entityId |-> b.refs[n]]
  IN  [sound |-> TRUE, players |-> b.players, plan |-> Blank, files |-> ListOf(paths, File),
       settings |-> ListOf(DOMAIN b.state.settings, Setting), entities |-> ListOf(DOMAIN b.state.entities, Piece),
       scriptState |-> b.state.scriptState, definitions |-> SetToSeq(b.definitions), refs |-> ListOf(DOMAIN b.refs, Ref)]

\* Fault: pictures are always left out, as for the model's context.
authoringFromBundle_NoPictures(b, omitPresentation) == AuthoringOf(b, {p \in DOMAIN b.files : ~IsPresentation(p)})

authoringFromBundle(b, omitPresentation) == AuthoringOf(b, {p \in DOMAIN b.files : ~(omitPresentation /\ IsPresentation(p))})

-----------------------------------------------------------------------------
\* normalizeAuthoring: nothing is repaired, everything is checked.

normalizeFiles(files) ==
  /\ files # << >> /\ \A i \in DOMAIN files : isReleasePath(files[i].path)
  /\ Distinct(files, LAMBDA f : f.path)
normalizeSettings(settings) ==
  /\ \A i \in DOMAIN settings : "valueType" \in DOMAIN settings[i] /\ settings[i].valueType \in {"string", "number"}
  /\ Distinct(settings, LAMBDA s : s.key)
normalizeEntities(entities) ==
  /\ \A i \in DOMAIN entities : entities[i].registered   \* each component once, with those it requires
  /\ Distinct(entities, LAMBDA e : e.id)
normalizeDefinitions(definitions) == Distinct(definitions, LAMBDA d : d)
parseCanonicalJson(scriptState) == scriptState # "broken"
normalizeRefs(refs, entities) ==
  /\ Distinct(refs, LAMBDA r : r.name)
  /\ \A i \in DOMAIN refs : \E k \in DOMAIN entities : entities[k].id = refs[i].entityId

\* assembleCardDesignPlan: cards and decks are of families of the plan.
PlanOK(plan) == plan.used \subseteq plan.families

normalizeAuthoring(raw) ==
  /\ raw.sound /\ (raw.plan = Blank \/ PlanOK(raw.plan))
  /\ normalizeFiles(raw.files) /\ normalizeSettings(raw.settings) /\ normalizeEntities(raw.entities)
  /\ parseCanonicalJson(raw.scriptState) /\ normalizeDefinitions(raw.definitions)
  /\ raw.refs = Blank \/ normalizeRefs(raw.refs, raw.entities)

-----------------------------------------------------------------------------
\* assembleAiGameDraft

\* The list as a function of its keys.
ByKey(list, Key(_), Value(_)) ==
  [k \in {Key(list[i]) : i \in DOMAIN list} |-> Value(list[CHOOSE i \in DOMAIN list : Key(list[i]) = k])]

Files(list) == ByKey(list, LAMBDA f : f.path, LAMBDA f : releaseFile(f.content))
TypedValue(s) == [of |-> s.valueType, is |-> IF s.valueType = "string" THEN s.stringValue ELSE s.numberValue]

\* createInitialState, with generatedSeats: nobody has joined.
InitialState(raw) ==
  [entities |-> ByKey(raw.entities, LAMBDA e : e.id, LAMBDA e : e.components),
   settings |-> ByKey(raw.settings, LAMBDA s : s.key, TypedValue),
   scriptState |-> raw.scriptState, joined |-> FALSE]

\* The designs of a plan, without images; and what to paint: every family's back, and the
\* cards that have a brief of their own.
PlannedDesigns(plan) ==
  [decks |-> plan.decks, cards |-> plan.cards, images |-> [t \in plan.families \cup plan.cards |-> "none"]]
Briefs(plan) == plan.families \cup plan.illustrated

\* preserveCardDesignAssets: a family or card that remains keeps its image.
preserveCardDesignAssets(next, prior) ==
  [next EXCEPT !.images = [t \in DOMAIN @ |-> IF t \in DOMAIN prior.images THEN prior.images[t] ELSE "none"]]

DesignsFile(plan, preserved) ==
  LET next == PlannedDesigns(plan)
      designs == IF DesignsPath \in DOMAIN preserved
                 THEN preserveCardDesignAssets(next, preserved[DesignsPath].content.of) ELSE next
  IN  releaseFile(Content(designs, ImageWeight(designs)))

NoAssembly(failed) == [draft |-> Blank, failed |-> {failed}, briefs |-> {}]

\* firstUnsupportedAction
NamesForeignAction(files) == \E p \in DOMAIN files \ {DesignsPath} : files[p].content.of = "foreign"

assembleAiGameDraft(raw, context) ==
  IF ~normalizeAuthoring(raw) THEN NoAssembly("bundle_shape")
  ELSE IF ~StateOK(InitialState(raw)) THEN NoAssembly("kernel_load")
  ELSE LET written == context.preserved @@ Files(raw.files)
           files == IF raw.plan = Blank THEN written
                    ELSE DesignsPath :> DesignsFile(raw.plan, context.preserved) @@ written
           state == InitialState(raw)
           bundle == [id |-> context.id, stateId |-> context.id, title |-> context.title, players |-> raw.players, files |-> files,
                      refs |-> IF raw.refs = Blank THEN << >> ELSE ByKey(raw.refs, LAMBDA r : r.name, LAMBDA r : r.entityId),
                      definitions |-> ToSet(raw.definitions), state |-> state, stateHash |-> state, manifestHash |-> Blank]
           draft == [bundle EXCEPT !.manifestHash = manifestHashInput(bundle)]
       IN  [draft |-> draft, briefs |-> IF raw.plan = Blank THEN {} ELSE Briefs(raw.plan),
            failed |-> validateReleaseBundle(draft, IF context.players = Blank THEN raw.players ELSE context.players)
                         \cup (IF NamesForeignAction(written) THEN {"bundle_shape"} ELSE {})]

\* The context of a new game, and of the next release of one.
NewGame == [id |-> [game |-> "draft", number |-> 1], title |-> "Title", players |-> Blank, preserved |-> << >>]
NextRelease(b) ==
  [id |-> [game |-> b.id.game, number |-> b.id.number + 1], title |-> b.title, players |-> b.players,
   preserved |-> Restrict(b.files, {p \in DOMAIN b.files : IsPresentation(p)})]
ContextOf(base) == IF base = Blank THEN NewGame ELSE NextRelease(base)

-----------------------------------------------------------------------------
\* Patches: records with some of the fields of an author.

PatchKeys == {"files", "entities", "settings", "scriptState"}
extractRefinement(patch) == DOMAIN patch # {} /\ DOMAIN patch \subseteq PatchKeys

\* A setting may be written {key, value}.
IsShorthand(s) == "value" \in DOMAIN s
normalizePatch(patch) ==
  LET Long(s) == IF IsShorthand(s) THEN Typed(s.key, s.value) ELSE s
  IN  IF "settings" \in DOMAIN patch THEN [patch EXCEPT !.settings = [i \in DOMAIN @ |-> Long(@[i])]] ELSE patch

\* Of the pictures nothing may be written; the rulebook may.
IsPatchable(p) == isReleasePath(p) /\ ~IsPresentation(p)
validateRefinement(patch) ==
  /\ "files" \in DOMAIN patch => patch.files # << >> /\ \A i \in DOMAIN patch.files : IsPatchable(patch.files[i].path)
  /\ "settings" \in DOMAIN patch => \A i \in DOMAIN patch.settings : IsShorthand(patch.settings[i]) \/ patch.settings[i].valueType \in {"string", "number"}
  /\ "scriptState" \in DOMAIN patch => parseCanonicalJson(patch.scriptState)

\* Files are merged by their path (the last of a path counts), the rest is replaced.
MergedFiles(b, files) ==
  LET contents == [p \in DOMAIN b.files |-> b.files[p].content]
      Put(merged, f) == f.path :> f.content @@ merged
      merged == FoldLeft(Put, contents, files)
  IN  ListOf(DOMAIN merged, LAMBDA p : [path |-> p, content |-> merged[p]])

applyGamePatch(b, patch) ==
  LET next == normalizePatch(patch)
      authoring == authoringFromBundle(b, FALSE)
      Chosen(key) == IF key \in DOMAIN next THEN next[key] ELSE authoring[key]
      merged == [authoring EXCEPT
        !.files = IF "files" \in DOMAIN next THEN MergedFiles(b, next.files) ELSE @,
        !.entities = Chosen("entities"), !.settings = Chosen("settings"), !.scriptState = Chosen("scriptState")]
      assembly == assembleAiGameDraft(merged, [id |-> b.id, title |-> b.title, players |-> b.players, preserved |-> << >>])
  IN  IF assembly.failed = {} THEN assembly.draft ELSE Blank
-----------------------------------------------------------------------------
\* Responses: the arguments of tool calls, and the content.  A text has its payload
\* whole, with tags or a fence or prose around it, is the first or the second half of
\* one, or was cut: then what parses is the payload with its end lost, which is the
\* payload given here.

Text(form, payload) == [form |-> form, payload |-> payload]
Response(texts, content) == [calls |-> texts, content |-> content]

\* stripModelArtifacts, stripMarkdownFences, firstBalancedObject, salvageTruncatedJson
ReadsAsContent(t) == t # Blank /\ t.form \in {"whole", "tagged", "fenced", "prose", "cut"}

\* What the calls say when joined and stripped of tags.
Joined(texts) ==
  IF Len(texts) = 2 /\ texts[1].form = "first half" /\ texts[2].form = "second half" THEN {texts[1].payload}
  ELSE IF texts # << >> /\ texts[1].form \in {"tagged", "cut"} THEN {texts[1].payload}
  ELSE {}

\* extractToolPayload: the first rung that yields an object.
extractToolPayload(r) ==
  LET whole == SelectSeq(r.calls, LAMBDA t : t.form = "whole")
  IN  IF whole # << >> THEN {whole[1].payload}
      ELSE IF Joined(r.calls) # {} THEN Joined(r.calls)
      ELSE IF ReadsAsContent(r.content) THEN {r.content.payload}
      ELSE {}

\* The responses that carry a payload, given what cuts may leave of it; and what is read
\* from them.
Responses(payload, cuts) ==
  {Response(<< >>, Text(form, payload)) : form \in {"fenced", "prose", "noise"}}
  \cup {Response(texts, Blank) : texts \in {<<Text("tagged", payload)>>, <<Text("whole", payload), Text("noise", payload)>>,
                                           <<Text("first half", payload), Text("second half", payload)>>}}
  \cup {Response(<<Text("cut", c)>>, Text("whole", payload)) : c \in cuts}
Received(payload, cuts) == UNION {extractToolPayload(r) : r \in Responses(payload, cuts)}

\* The fields come in the order of the schema, so that the references and then the
\* definitions are lost first; any other field that is lost is missed.
CutAuthorings(raw) ==
  {[raw EXCEPT !.refs = Blank], [raw EXCEPT !.refs = Blank, !.definitions = << >>], [raw EXCEPT !.sound = FALSE]}

\* A patch loses its last field, or the end of a file.
CutPatches(patch) ==
  {Restrict(patch, {"files"} \cap DOMAIN patch)}
  \cup (IF "files" \in DOMAIN patch
         THEN {[files |-> [i \in DOMAIN patch.files |-> [patch.files[i] EXCEPT !.content = Content("half", 0)]]]} ELSE {})

-----------------------------------------------------------------------------
\* Requests.

Idle == [step |-> "idle", base |-> Blank, draft |-> Blank, briefs |-> {}]

\* handleAiGameRequest: an edit reads the latest release.
Ask ==
  /\ ask.step = "idle"
  /\ ask' = [Idle EXCEPT !.step = "generate", !.base = latest]
  /\ UNCHANGED <<latest, calls>>

Script(name) == [path |-> "scripts/game.lua", content |-> Content(name, 0)]
Deck(items) == [id |-> "deck", components |-> Entity(TRUE, items, "none"), registered |-> TRUE]
Card == [id |-> "card", components |-> Entity(FALSE, {}, "ace"), registered |-> TRUE]
Goal(n) == Typed("goal", [of |-> "number", is |-> n])
Plan(families, cards, illustrated, used) ==
  [families |-> families, cards |-> cards, decks |-> {"deck"}, illustrated |-> illustrated, used |-> used]

\* The reference game that a new one is written after; the edited game without its
\* pictures.
Reference ==
  [sound |-> TRUE, players |-> 4, plan |-> Blank, files |-> <<Script("one")>>, settings |-> <<Goal("10")>>,
   entities |-> <<Deck({"card"}), Card>>, scriptState |-> "fresh", definitions |-> <<"ace", "king">>,
   refs |-> <<[name |-> "pile", entityId |-> "deck"]>>]
Shown(base) == IF base = Blank THEN Reference ELSE authoringFromBundle(base, TRUE)

Plans == {Plan({"suit"}, {"ace"}, {"ace"}, {"suit"}), Plan({"suit", "clubs"}, {"ace", "king"}, {}, {"clubs"}),
          Plan({"suit"}, {"joker"}, {}, {"suit"}), Plan({"suit"}, {}, {}, {"clubs"})}

\* What the model makes of it: one part is new, and there may be a plan for the cards.
Authorings(base) ==
  LET a == Shown(base)
      changed == {a, [a EXCEPT !.files = <<Script("two")>>], [a EXCEPT !.files = <<Script("foreign")>>],
                  [a EXCEPT !.files = @ \o <<Script("two")>>],
                  [a EXCEPT !.files = @ \o <<[path |-> BackPath, content |-> Content("invented", 0)]>>],
                  [a EXCEPT !.players = 2], [a EXCEPT !.entities = <<Deck({"card"})>>],
                  [a EXCEPT !.entities = <<Card>>], [a EXCEPT !.definitions = <<"ace">>]}
  IN  changed \cup {[c EXCEPT !.plan = p] : c \in changed, p \in Plans}

\* runStructuredTask: one attempt of generation.
Generate ==
  /\ ask.step = "generate" /\ calls < MaxCalls /\ calls' = calls + 1
  /\ \/ UNCHANGED ask   \* nothing is answered, or nothing found in it
     \/ \E raw \in Authorings(ask.base) : \E payload \in Received(raw, CutAuthorings(raw)) :
          LET assembly == assembleAiGameDraft(payload, ContextOf(ask.base))
          IN  ask' = IF assembly.failed # {} THEN ask
                     ELSE [ask EXCEPT !.step = "check", !.draft = assembly.draft, !.briefs = assembly.briefs]
  /\ UNCHANGED latest

Patches ==
  {[files |-> <<Script("two")>>], [files |-> <<Script("foreign")>>],
   [files |-> <<[path |-> "runtime/rules.md", content |-> Content("rules", 0)]>>],
   [files |-> <<[path |-> BackPath, content |-> Content("invented", 0)]>>],
   [settings |-> <<[key |-> "goal", value |-> [of |-> "number", is |-> "20"]]>>],
   [entities |-> <<Deck({}), Card>>, scriptState |-> "turn"], [entities |-> <<Card>>], [entities |-> <<Deck({"card"})>>],
   [scriptState |-> "broken"], [title |-> "Mine"], [plan |-> Blank, files |-> <<Script("two")>>]}

\* A round of runIterativeRefinement: the draft with the patch, or as it was.
Repair ==
  /\ ask.step = "check" /\ calls < MaxCalls /\ calls' = calls + 1
  /\ \/ UNCHANGED ask
     \/ \E patch \in Patches : \E payload \in Received(patch, CutPatches(patch)) :
          LET next == IF extractRefinement(payload) /\ validateRefinement(payload) THEN applyGamePatch(ask.draft, payload) ELSE Blank
          IN  ask' = IF next = Blank THEN ask ELSE [ask EXCEPT !.draft = next]
  /\ UNCHANGED latest

\* The playtest finds no errors: draft and briefs are answered.
AnswerDraft ==
  /\ ask.step = "check"
  /\ ask' = [ask EXCEPT !.step = "answered"]
  /\ UNCHANGED <<latest, calls>>

\* 502, or the author discards the draft.
Abandon ==
  /\ ask.step # "idle"
  /\ ask' = Idle
  /\ UNCHANGED <<latest, calls>>

\* The editor takes the draft, and its author publishes it: a new game, or a release.
Numbered(b, n) == prepareUploadedBundle(b, [game |-> "game", number |-> n], "Title")
PublishDraft ==
  /\ ask.step = "answered"
  /\ latest = Blank \/ (ask.base # Blank /\ latest.id.number < MaxReleases)
  /\ validateReleaseBundle(ask.draft, IF latest = Blank THEN ask.draft.players ELSE latest.players) = {}
  /\ latest' = Numbered(ask.draft, IF latest = Blank THEN 1 ELSE latest.id.number + 1)
  /\ ask' = Idle
  /\ UNCHANGED calls

\* The author paints a family or a card, or the back of all others, and publishes that.
Repainted(b) ==
  {Numbered([b EXCEPT !.files = BackPath :> releaseFile(Content("back", 1)) @@ @], b.id.number + 1)}
  \cup (IF DesignsPath \notin DOMAIN b.files THEN {}
         ELSE LET designs == b.files[DesignsPath].content.of
                  Painted(t) == [designs EXCEPT !.images[t] = "painted"]
              IN {Numbered([b EXCEPT !.files[DesignsPath] = releaseFile(Content(Painted(t), ImageWeight(Painted(t))))], b.id.number + 1) :
                   t \in DOMAIN designs.images})
Paint ==
  /\ latest # Blank /\ latest.id.number < MaxReleases
  /\ latest' \in Repainted(latest) \ {latest}
  /\ UNCHANGED <<ask, calls>>

-----------------------------------------------------------------------------
AssemblyInit == latest = Blank /\ ask = Idle /\ calls = 0

AssemblyNext == Ask \/ Generate \/ Repair \/ AnswerDraft \/ Abandon \/ PublishDraft \/ Paint

AssemblySpec == AssemblyInit /\ [][AssemblyNext]_assemblyVars

-----------------------------------------------------------------------------
\* A draft that is an edit is the next release of its game, for as many players; the
\* pictures it was read with are as they were, and the designs are too, or are those of
\* a plan with the image of each family and card that remains.
KeepsTheGame(base, draft) ==
  /\ draft.id = [base.id EXCEPT !.number = @ + 1] /\ draft.title = base.title /\ draft.players = base.players
  /\ BackPath \in DOMAIN base.files => BackPath \in DOMAIN draft.files /\ draft.files[BackPath] = base.files[BackPath]
  /\ DesignsPath \in DOMAIN base.files =>
       /\ DesignsPath \in DOMAIN draft.files
       /\ LET was == base.files[DesignsPath].content.of.images
               now == draft.files[DesignsPath].content.of.images
           IN  \A t \in DOMAIN now : now[t] = IF t \in DOMAIN was THEN was[t] ELSE "none"

\* A patch changes scripts, pieces, settings and the state of scripts, and nothing else.
OnlyPatched(draft, next) ==
  /\ \A field \in {"id", "title", "players", "definitions", "refs"} : draft[field] = next[field]
  /\ DOMAIN draft.files \subseteq DOMAIN next.files
  /\ \A p \in DOMAIN next.files : IsPresentation(p) => p \in DOMAIN draft.files /\ next.files[p] = draft.files[p]

\* Whatever the model writes, however it is cut, assembled and patched: the draft is one
\* that can be published and whose references exist, an edit keeps its game and the
\* pictures it was read with, a patch changes only what a patch may, and what is to be
\* painted is in the designs.  (assembleAiGameDraft, applyGamePatch; what was painted
\* since an edit began is not in its draft, and is lost when that is published.)
DraftsKeepTheGame ==
  [][LET draft == ask'.draft IN
     draft # Blank =>
       /\ validateReleaseBundle(draft, draft.players) = {} /\ ~draft.state.joined
       /\ \A n \in DOMAIN draft.refs : draft.refs[n] \in DOMAIN draft.state.entities
       /\ ask'.base # Blank => KeepsTheGame(ask'.base, draft)
       /\ ask.draft # Blank => OnlyPatched(ask.draft, draft)
       /\ ask'.briefs # {} => DesignsPath \in DOMAIN draft.files /\ ask'.briefs \subseteq DOMAIN draft.files[DesignsPath].content.of.images
    ]_assemblyVars
=============================================================================
