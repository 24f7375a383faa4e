-------------------------------- MODULE Bundles --------------------------------
(***************************************************************************)
(* A game's bundle and the checks every reader judges it by                *)
(* (validateReleaseBundle, packages/protocol/src/http.ts, with             *)
(* card-designs.ts), in the browser as on the server.                      *)
(*                                                                         *)
(* A hash is what it was computed from.  Of a file's content the model     *)
(* keeps what the checks look at: how big it is, and of the card designs   *)
(* the decks and definitions they are bound to and the image of each       *)
(* family and card, "none" or perhaps "damaged".                           *)
(***************************************************************************)
EXTENDS Naturals, FiniteSets, Functions, TLC

CONSTANT Blank   \* nothing

-----------------------------------------------------------------------------
DesignsPath == "runtime/presentation/cards.json"
BackPath == "runtime/presentation/card-back.json"

\* of: what the content is; weight: its share of the size an upload may have, in halves
Content(of, weight) == [of |-> of, weight |-> weight]
releaseFile(content) == [content |-> content, contentHash |-> content, byteLength |-> content.weight]

\* Images take half of an upload.
ImageWeight(designs) == IF \A t \in DOMAIN designs.images : designs.images[t] = "none" THEN 0 ELSE 1

\* An entity: a deck or not, its items, the definition its card has.
Entity(deck, items, card) == [deck |-> deck, items |-> items, card |-> card]

\* snapshot, loadSnapshot: the items of a deck exist, and lie in one deck.
StateOK(state) ==
  \A n \in DOMAIN state.entities :
    /\ state.entities[n].items \subseteq DOMAIN state.entities
    /\ \A k \in DOMAIN state.entities \ {n} : state.entities[n].items \cap state.entities[k].items = {}

\* The title, the definitions and the snapshot are not part of it.
manifestHashInput(b) ==
  [id |-> b.id, players |-> b.players, refs |-> b.refs,
   files |-> [p \in DOMAIN b.files |-> [contentHash |-> b.files[p].contentHash, byteLength |-> b.files[p].byteLength]]]

BodyLimit == 2
Bytes(b) == LET OfFile(p) == b.files[p].content.weight IN FoldFunction(+, 0, [p \in DOMAIN b.files |-> OfFile(p)])

-----------------------------------------------------------------------------
\* validateReleaseBundle: the checks that a bundle fails.

isReleasePath(p) == p # "scripts/Game.lua"    \* lower case, unlike SCRIPT_PATH of the editor
TitleOK(title) == title = "Title"            \* 1 to 80 characters, trimmed

\* parseCardDesigns; digest: whether the bytes of the images are checked
DesignsOK(designs, b, digest) ==
  /\ \A n \in designs.decks : n \in DOMAIN b.state.entities /\ b.state.entities[n].deck
  /\ designs.cards \subseteq b.definitions
  /\ digest => \A t \in DOMAIN designs.images : designs.images[t] # "damaged"

releaseBundleShape(b) ==
  /\ TitleOK(b.title) /\ DOMAIN b.files # {} /\ \A p \in DOMAIN b.files : isReleasePath(p)
  /\ b.stateId = b.id

validateReleaseBundle(b, players) ==
  LET shape == releaseBundleShape(b)
      Failed(check, ok) == IF ok THEN {} ELSE {check}
  IN  Failed("size", Bytes(b) <= BodyLimit)
        \cup Failed("bundle_shape", shape)
        \cup Failed("content_hashes", shape /\ \A p \in DOMAIN b.files : b.files[p] = releaseFile(b.files[p].content))
        \cup Failed("card_designs", shape /\ DesignsPath \in DOMAIN b.files => DesignsOK(b.files[DesignsPath].content.of, b, TRUE))
        \cup Failed("manifest_hash", shape /\ b.manifestHash = manifestHashInput(b))
        \cup Failed("state_hash", shape /\ b.stateHash = b.state)
        \cup Failed("kernel_load", shape /\ StateOK(b.state) /\ b.stateHash = b.state)
        \cup Failed("player_limits", shape /\ b.players = players)

-----------------------------------------------------------------------------
\* Fault: the draft's snapshot is stored as it came.
prepareUploadedBundle_Seated(b, id, title) ==
  LET bound == [b EXCEPT !.id = id, !.title = title, !.stateId = id]
  IN  [bound EXCEPT !.manifestHash = manifestHashInput(bound)]

\* Bound to the server's ids, with nobody at the table.
prepareUploadedBundle(b, id, title) ==
  LET bound == [b EXCEPT !.id = id, !.title = title, !.stateId = id, !.state.joined = FALSE, !.stateHash = [b.state EXCEPT !.joined = FALSE]]
  IN  [bound EXCEPT !.manifestHash = manifestHashInput(bound)]
=============================================================================
