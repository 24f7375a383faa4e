----------------------------- MODULE Publishing -----------------------------
(***************************************************************************)
(* Uploaded games, their releases and covers: rows in D1 and objects in    *)
(* the R2 bucket, written one after the other by requests that may die in  *)
(* between (apps/worker/src/platform.ts, d1-repositories.ts,               *)
(* cover-storage.ts).                                                      *)
(*                                                                         *)
(* An upload is checked, its object is put, and its rows are committed in  *)
(* one batch, which UNIQUE constraints may refuse: the object stays behind.*)
(* Who owns a game does not change, so only owners act here; whether an    *)
(* upload passes validation is open.  A cover is its fingerprint.          *)
(***************************************************************************)
EXTENDS Integers, Sequences, FiniteSets

CONSTANTS
  Games,     \* slugs
  Uploads,   \* requests; a request's release id is its own
  Prints,    \* fingerprints of covers
  NoGame     \* not published

GameRow == [latest : Uploads, cover : Nat, public : BOOLEAN]
ReleaseRow == [game : Games, number : Nat]

ASSUME PublishAssumption ==
  /\ IsFiniteSet(Uploads)
  /\ NoGame \notin Games \cup Prints /\ NoGame \notin GameRow /\ NoGame \notin ReleaseRow

VARIABLES
  games,     \* games: latest_release_id, cover_version (0 is null), visibility
  releases,  \* releases: the game and the number of each upload's release, or NoGame
  covers,    \* game_covers: the fingerprint of each version of each game
  bucket,    \* object keys: releases by upload, covers by game and fingerprint
  uploads    \* the requests

publishVars == <<games, releases, covers, bucket, uploads>>

-----------------------------------------------------------------------------
Published(g) == games[g] # NoGame
ReleasesOf(g) == {u \in Uploads : releases[u] # NoGame /\ releases[u].game = g}
Newest(g) == CHOOSE u \in ReleasesOf(g) : \A w \in ReleasesOf(g) : releases[w].number <= releases[u].number
NextNumber(g) == IF ReleasesOf(g) = {} THEN 1 ELSE releases[Newest(g)].number + 1
CoverKey(g, p) == [game |-> g, print |-> p]

UploadAt(u, step) == uploads[u].step = step
UploadGoes(u, step) == uploads' = [uploads EXCEPT ![u].step = step]

PublishInit ==
  /\ games = [g \in Games |-> NoGame]
  /\ releases = [u \in Uploads |-> NoGame]
  /\ covers = [g \in Games |-> <<>>]
  /\ bucket = {}
  /\ uploads = [u \in Uploads |-> [step |-> "new", kind |-> "none", game |-> NoGame,
                                   number |-> 0, print |-> NoGame]]

Accepted(u, kind, g, number, p) ==
  uploads' = [uploads EXCEPT ![u] =
    [step |-> "put", kind |-> kind, game |-> g, number |-> number, print |-> p]]

\* POST /api/games: the slug is free when it is looked up.
CheckGame(u, g) ==
  /\ UploadAt(u, "new") /\ ~Published(g)
  /\ Accepted(u, "game", g, 1, NoGame)
  /\ UNCHANGED <<games, releases, covers, bucket>>

\* POST /api/games/{slug}/releases: the number is one more than the newest seen now.
CheckRelease(u, g) ==
  /\ UploadAt(u, "new") /\ Published(g)
  /\ Accepted(u, "release", g, NextNumber(g), NoGame)
  /\ UNCHANGED <<games, releases, covers, bucket>>

\* POST /api/games/{slug}/cover, and a cover that was generated.
CheckCover(u, g, p) ==
  /\ UploadAt(u, "new") /\ Published(g)
  /\ Accepted(u, "cover", g, 0, p)
  /\ UNCHANGED <<games, releases, covers, bucket>>

KeyOf(u) == IF uploads[u].kind = "cover" THEN CoverKey(uploads[u].game, uploads[u].print) ELSE u

\* putReleaseOnce, storeCover: an object that is there already is left as it is.
PutObject(u) ==
  /\ UploadAt(u, "put")
  /\ bucket' = bucket \cup {KeyOf(u)}
  /\ UploadGoes(u, "commit")
  /\ UNCHANGED <<games, releases, covers>>

-----------------------------------------------------------------------------
\* createUploadedGame: games.slug is UNIQUE, a batch is applied as a whole or not at all.
CommitGame(u) ==
  /\ UploadAt(u, "commit") /\ uploads[u].kind = "game"
  /\ LET g == uploads[u].game IN
     IF Published(g) THEN UNCHANGED <<games, releases>>
     ELSE /\ games' = [games EXCEPT ![g] = [latest |-> u, cover |-> 0, public |-> TRUE]]
          /\ releases' = [releases EXCEPT ![u] = [game |-> g, number |-> 1]]
  /\ UploadGoes(u, "done")
  /\ UNCHANGED <<covers, bucket>>

\* UNIQUE(game_id, release_number).
NumberIsFree(g, n) == \A w \in ReleasesOf(g) : releases[w].number # n

\* createUploadedRelease.
CommitRelease(u) ==
  /\ UploadAt(u, "commit") /\ uploads[u].kind = "release"
  /\ LET g == uploads[u].game IN
     IF ~NumberIsFree(g, uploads[u].number) THEN UNCHANGED <<games, releases>>
     ELSE /\ releases' = [releases EXCEPT ![u] = [game |-> g, number |-> uploads[u].number]]
          /\ games' = [games EXCEPT ![g].latest = u]
  /\ UploadGoes(u, "done")
  /\ UNCHANGED <<covers, bucket>>

\* Fault: the version is raised whenever the fingerprint is new to the game.
IsCurrent_Ever(g, p) == \E v \in DOMAIN covers[g] : covers[g][v] = p

\* The NOT EXISTS of the UPDATE: the current version is this very cover.
IsCurrent(g, p) == games[g].cover \in DOMAIN covers[g] /\ covers[g][games[g].cover] = p

\* storeCover's batch: the version goes up and gets its row (INSERT OR IGNORE), or nothing
\* changes and the version has to be looked up.
CommitCover(u) ==
  /\ UploadAt(u, "commit") /\ uploads[u].kind = "cover"
  /\ LET g == uploads[u].game
         version == games[g].cover + 1
     IN IF IsCurrent(g, uploads[u].print)
        THEN UploadGoes(u, "look up") /\ UNCHANGED <<games, covers>>
        ELSE /\ games' = [games EXCEPT ![g].cover = version]
             /\ covers' = IF version \in DOMAIN covers[g] THEN covers
                          ELSE [covers EXCEPT ![g] = Append(@, uploads[u].print)]
             /\ uploads' = [uploads EXCEPT ![u].step = "done", ![u].number = version]
  /\ UNCHANGED <<releases, bucket>>

\* The latest version with this fingerprint is answered.
LookUpVersion(u) ==
  /\ UploadAt(u, "look up")
  /\ LET g == uploads[u].game IN
     \E v \in DOMAIN covers[g] :
       /\ covers[g][v] = uploads[u].print
       /\ \A w \in DOMAIN covers[g] : covers[g][w] = uploads[u].print => w <= v
       /\ uploads' = [uploads EXCEPT ![u].step = "done", ![u].number = v]
  /\ UNCHANGED <<games, releases, covers, bucket>>

\* PATCH /api/games/{slug}: updateGameVisibility.
SetVisibility(g) ==
  /\ Published(g)
  /\ games' = [games EXCEPT ![g].public = ~@]
  /\ UNCHANGED <<releases, covers, bucket, uploads>>

\* The request dies, or is refused: validation, rate, storage.
AbandonUpload(u) ==
  /\ uploads[u].step \in {"put", "commit"}
  /\ UploadGoes(u, "done")
  /\ UNCHANGED <<games, releases, covers, bucket>>

PublishNext ==
  \/ \E u \in Uploads, g \in Games :
       CheckGame(u, g) \/ CheckRelease(u, g) \/ \E p \in Prints : CheckCover(u, g, p)
  \/ \E u \in Uploads :
       PutObject(u) \/ CommitGame(u) \/ CommitRelease(u) \/ CommitCover(u) \/ LookUpVersion(u) \/ AbandonUpload(u)
  \/ \E g \in Games : SetVisibility(g)

PublishSpec == PublishInit /\ [][PublishNext]_publishVars

-----------------------------------------------------------------------------
\* What can be looked up can be read: the object of every release and of every version
\* of a cover is in the bucket, a game's latest release is the newest of its own, of
\* which no two have one number, and its cover is the last version, whatever uploads
\* race each other, are refused or die half way.  Whoever uploaded a cover was answered
\* a version that shows it.  (Objects are put before their rows are committed; the
\* number of a release is read before its upload.)
CatalogIsWhole ==
  \A g \in Games :
    /\ ReleasesOf(g) \subseteq bucket
    /\ \A v \in DOMAIN covers[g] : CoverKey(g, covers[g][v]) \in bucket
    /\ Published(g) =>
         /\ games[g].latest \in ReleasesOf(g) /\ games[g].cover = Len(covers[g])
         /\ releases[games[g].latest].number = Cardinality(ReleasesOf(g))
    /\ \A u, w \in ReleasesOf(g) : u # w => releases[u].number # releases[w].number
    /\ \A u \in Uploads :
         UploadAt(u, "done") /\ uploads[u].kind = "cover" /\ uploads[u].game = g /\ uploads[u].number > 0 =>
           covers[g][uploads[u].number] = uploads[u].print

\* The image of a version never changes, as the address of a version is cached for
\* good, and the cover uploaded last is the current one, under racing uploads and
\* retries.  (storeCover's two statements.)
CoverVersionsAreFixed ==
  [][\A g \in Games :
       /\ \A v \in DOMAIN covers[g] : covers'[g][v] = covers[g][v]
       /\ \A u \in Uploads : CommitCover(u) /\ uploads[u].game = g =>
            covers'[g][games'[g].cover] = uploads[u].print
    ]_publishVars

\* What the catalogue points to exists and does not change behind its address.
\* (storeRelease and storeCover, whose uploads race each other.)
CatalogIsSound == []CatalogIsWhole /\ CoverVersionsAreFixed
=============================================================================
