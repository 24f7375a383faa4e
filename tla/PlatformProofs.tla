--------------------------- MODULE PlatformProofs ---------------------------
(***************************************************************************)
(* The parts of the platform around the rooms, for every number of players,*)
(* links, uploads and requests: no player is counted twice in the plays of *)
(* a game, a mailed link signs in once and a session that was ended stays  *)
(* ended, a saved table that is listed can be resumed, what the catalogue  *)
(* points to exists and does not change, an account is billed what it uses *)
(* of the models and answered the best draft, no seat is given twice, what *)
(* a seat of a saved table owns comes back to who takes that seat, and the *)
(* order, the turn and the points of a game survive its saves and resumes. *)
(***************************************************************************)
EXTENDS PlayCounts, Accounts, SavedTables, Publishing, AiStudio, RoomDirectory, TurnOrder, Iteration,
        FiniteSetTheorems, SequenceTheorems, TLAPS

-----------------------------------------------------------------------------
\* A row is marked before its player is sent, and only rows there are are marked.
CountInv ==
  /\ flushed \in SUBSET counted /\ counted \in SUBSET Guests
  /\ lost \in SUBSET flushed
  /\ sending \in [Flushers -> SUBSET Guests]
  /\ plays \in [Guests -> Nat]
  /\ PlaysCountedOnce

LEMMA InitCounts == CountInit => CountInv
BY DEF CountInit, CountInv, PlaysCountedOnce

LEMMA StepKeepsCounts == CountInv /\ [CountNext]_countVars => CountInv'
<1> SUFFICES ASSUME CountInv, [CountNext]_countVars
             PROVE  CountInv'
  OBVIOUS
<1> USE DEF CountInv
<1>1. ASSUME NEW p \in Guests, RecordFirstBootstrap(p)
      PROVE  CountInv'
  BY <1>1 DEF RecordFirstBootstrap, PlaysCountedOnce
<1>2. ASSUME NEW f \in Flushers, Flush(f)
      PROVE  CountInv'
  <2>1. /\ UNCHANGED <<counted, plays, lost>> /\ flushed' = counted
        /\ \A g \in Flushers : sending'[g] = IF g = f THEN counted \ flushed ELSE sending[g]
        /\ sending' \in [Flushers -> SUBSET Guests]
    BY <1>2 DEF Flush
  <2>2. \A p \in counted \ flushed : plays[p] = 0 /\ p \notin lost /\ \A g \in Flushers : p \notin sending[g]
    BY DEF PlaysCountedOnce
  <2>3. \A g, h \in Flushers : g # h => sending'[g] \cap sending'[h] = {}
    BY <2>1, <2>2 DEF PlaysCountedOnce
  <2>4. ASSUME NEW p \in flushed'
        PROVE  p \in lost' \/ plays'[p] = 1 \/ \E g \in Flushers : p \in sending'[g]
    <3>1. CASE p \in flushed
      BY <1>2, <2>1, <3>1 DEF PlaysCountedOnce, Flush
    <3>2. CASE p \notin flushed
      BY <2>1, <2>4, <3>2
    <3> QED
      BY <3>1, <3>2
  <2>5. \A p \in Guests :
          /\ plays'[p] \in {0, 1}
          /\ plays'[p] = 1 => p \in flushed' /\ p \notin lost'
          /\ \A g \in Flushers : p \in sending'[g] => p \in flushed' /\ plays'[p] = 0 /\ p \notin lost'
    BY <2>1, <2>2 DEF PlaysCountedOnce
  <2> QED
    BY <2>1, <2>3, <2>4, <2>5 DEF PlaysCountedOnce
<1>3. ASSUME NEW f \in Flushers, AddPlays(f)
      PROVE  CountInv'
  <2>1. /\ UNCHANGED <<counted, flushed, lost>>
        /\ \A p \in Guests : plays'[p] = IF p \in sending[f] THEN 1 ELSE plays[p]
        /\ \A g \in Flushers : sending'[g] = IF g = f THEN {} ELSE sending[g]
        /\ sending' \in [Flushers -> SUBSET Guests] /\ plays' \in [Guests -> Nat]
    BY <1>3 DEF AddPlays, PlaysCountedOnce
  <2>2. \A g, h \in Flushers : g # h => sending'[g] \cap sending'[h] = {}
    BY <2>1 DEF PlaysCountedOnce
  <2>3. ASSUME NEW p \in flushed'
        PROVE  p \in lost' \/ plays'[p] = 1 \/ \E g \in Flushers : p \in sending'[g]
    BY <2>1, <2>3 DEF PlaysCountedOnce
  <2>4. \A p \in Guests :
          /\ plays'[p] \in {0, 1}
          /\ plays'[p] = 1 => p \in flushed' /\ p \notin lost'
          /\ \A g \in Flushers : p \in sending'[g] => p \in flushed' /\ plays'[p] = 0 /\ p \notin lost'
    BY <2>1 DEF PlaysCountedOnce
  <2> QED
    BY <2>1, <2>2, <2>3, <2>4 DEF PlaysCountedOnce
<1>4. ASSUME NEW f \in Flushers, LosePlays(f)
      PROVE  CountInv'
  <2>1. /\ UNCHANGED <<counted, flushed, plays>> /\ lost' = lost \cup sending[f]
        /\ \A g \in Flushers : sending'[g] = IF g = f THEN {} ELSE sending[g]
        /\ sending' \in [Flushers -> SUBSET Guests]
    BY <1>4 DEF LosePlays
  <2>2. sending[f] \subseteq flushed
    BY DEF PlaysCountedOnce
  <2>3. \A g, h \in Flushers : g # h => sending'[g] \cap sending'[h] = {}
    BY <2>1 DEF PlaysCountedOnce
  <2>4. ASSUME NEW p \in flushed'
        PROVE  p \in lost' \/ plays'[p] = 1 \/ \E g \in Flushers : p \in sending'[g]
    BY <2>1, <2>4 DEF PlaysCountedOnce
  <2>5. \A p \in Guests :
          /\ plays'[p] \in {0, 1}
          /\ plays'[p] = 1 => p \in flushed' /\ p \notin lost'
          /\ \A g \in Flushers : p \in sending'[g] => p \in flushed' /\ plays'[p] = 0 /\ p \notin lost'
    BY <2>1 DEF PlaysCountedOnce
  <2> QED
    BY <2>1, <2>2, <2>3, <2>4, <2>5 DEF PlaysCountedOnce
<1>5. CASE UNCHANGED countVars
  BY <1>5 DEF countVars, PlaysCountedOnce
<1> QED
  BY <1>1, <1>2, <1>3, <1>4, <1>5 DEF CountNext

\* No player is counted twice, and nobody is dropped but by a failed write, however
\* many flushes overlap.
THEOREM PlaysAlwaysCountedOnce == CountSpec => []PlaysCountedOnce
<1>1. CountInv => PlaysCountedOnce
  BY DEF CountInv
<1> QED
  BY <1>1, InitCounts, StepKeepsCounts, PTL DEF CountSpec

-----------------------------------------------------------------------------
VisitSteps == {"idle", "mail", "verify", "consume", "session", "authenticate", "refresh", "signed_in", "logout"}

\* A session is made of a consumed link, and ended only once it was made.
AccountInv ==
  /\ links \in [Tokens -> [expiresAt : Nat \cup {NoTime}, consumed : BOOLEAN]]
  /\ sessions \in [Tokens -> [expiresAt : Nat \cup {NoTime}, revoked : BOOLEAN, made : Nat]]
  /\ visits \in [Visits -> [step : VisitSteps, token : Tokens \cup {NoTime}, now : Nat]]
  /\ clock \in Nat
  /\ \A v \in Visits : ~VisitAt(v, "idle") => visits[v].token \in Tokens
  /\ \A t \in Tokens : /\ sessions[t].made > 0 => links[t].consumed
                       /\ sessions[t].revoked => sessions[t].made > 0
  /\ OneSessionPerLink

LEMMA InitAccounts == AccountInit => AccountInv
BY AccountAssumption DEF AccountInit, AccountInv, OneSessionPerLink, NoVisit, VisitSteps, VisitAt, MakesSession

\* A request that ends, or goes on without a session in sight, disturbs nobody.
LEMMA VisitMoves ==
  ASSUME AccountInv, NEW v \in Visits,
         NEW step \in VisitSteps \ {"session"}, NEW t \in Tokens \cup {NoTime}, NEW when \in Nat,
         step # "idle" => t \in Tokens,
         visits' = [visits EXCEPT ![v] = [step |-> step, token |-> t, now |-> when]],
         UNCHANGED <<clock, links, sessions>>
  PROVE  AccountInv'
<1>1. \A w \in Visits : visits'[w] = IF w = v THEN [step |-> step, token |-> t, now |-> when] ELSE visits[w]
  BY DEF AccountInv
<1>2. \A w \in Visits, u \in Tokens : MakesSession(w, u)' => MakesSession(w, u)
  BY <1>1 DEF MakesSession, VisitAt
<1>3. OneSessionPerLink'
  BY <1>2 DEF AccountInv, OneSessionPerLink
<1>4. visits' \in [Visits -> [step : VisitSteps, token : Tokens \cup {NoTime}, now : Nat]]
  BY DEF AccountInv
<1>5. \A w \in Visits : ~VisitAt(w, "idle")' => visits'[w].token \in Tokens
  BY <1>1 DEF AccountInv, VisitAt
<1> QED
  BY <1>3, <1>4, <1>5 DEF AccountInv

\* The two ways a request goes on are moves of its record.
LEMMA VisitRecords ==
  ASSUME AccountInv, NEW v \in Visits, NEW step \in VisitSteps
  PROVE  /\ VisitGoes(v, step) <=>
              visits' = [visits EXCEPT ![v] = [step |-> step, token |-> visits[v].token, now |-> visits[v].now]]
         /\ VisitEnds(v) <=> visits' = [visits EXCEPT ![v] = [step |-> "idle", token |-> NoTime, now |-> 0]]
         /\ visits[v].now \in Nat /\ visits[v].token \in Tokens \cup {NoTime}
         /\ step # "idle" /\ VisitAt(v, step) => visits[v].token \in Tokens
<1>1. [visits[v] EXCEPT !.step = step] = [step |-> step, token |-> visits[v].token, now |-> visits[v].now]
  BY DEF AccountInv
<1> QED
  BY <1>1 DEF AccountInv, VisitGoes, VisitEnds, NoVisit, VisitAt

LEMMA StepKeepsAccounts == AccountInv /\ [AccountNext]_accountVars => AccountInv'
<1> SUFFICES ASSUME AccountInv, [AccountNext]_accountVars
             PROVE  AccountInv'
  OBVIOUS
<1>0. /\ {"idle", "consume", "refresh", "signed_in"} \subseteq VisitSteps \ {"session"}
      /\ {"mail", "verify", "authenticate", "logout"} \subseteq VisitSteps \ {"session", "idle"}
  BY DEF VisitSteps
<1>1. CASE Tick
  BY <1>1 DEF Tick, AccountInv, OneSessionPerLink, MakesSession, VisitAt
<1>2. CASE UNCHANGED accountVars
  BY <1>2 DEF accountVars, AccountInv, OneSessionPerLink, MakesSession, VisitAt
<1>3. ASSUME NEW v \in Visits, NEW t \in Tokens, NEW step \in {"mail", "verify", "authenticate", "logout"},
             Visit(v, step, t)
      PROVE  AccountInv'
  <2>1. clock \in Nat
    BY DEF AccountInv
  <2> QED
    BY <1>0, <1>3, <2>1, VisitMoves DEF Visit
<1>4. ASSUME NEW v \in Visits, VisitEnds(v), UNCHANGED <<clock, links, sessions>>
      PROVE  AccountInv'
  BY <1>0, <1>4, VisitRecords, VisitMoves
<1>5. ASSUME NEW v \in Visits, NEW step \in {"consume", "refresh", "signed_in"}, ~VisitAt(v, "idle"),
             VisitGoes(v, step), UNCHANGED <<clock, links, sessions>>
      PROVE  AccountInv'
  <2>1. visits[v].token \in Tokens /\ visits[v].now \in Nat
    BY <1>5 DEF AccountInv
  <2> QED
    BY <1>0, <1>5, <2>1, VisitRecords, VisitMoves
<1>6. ASSUME NEW v \in Visits, FindLink(v) \/ FindSession(v) \/ Answer(v)
      PROVE  AccountInv'
  <2>1. UNCHANGED <<clock, links, sessions>> /\ ~VisitAt(v, "idle")
    BY <1>6 DEF FindLink, FindSession, Answer, VisitAt
  <2>2. VisitEnds(v) \/ VisitGoes(v, "consume") \/ VisitGoes(v, "refresh")
    BY <1>6 DEF FindLink, FindSession, Answer
  <2> QED
    BY <1>4, <1>5, <2>1, <2>2
\* The steps that write a row: the request's token is one, and the request moves.
<1>7. ASSUME NEW v \in Visits, CreateMagicLink(v)
      PROVE  AccountInv'
  <2>1. visits[v].token \in Tokens /\ visits[v].now + LinkTtl \in Nat
    BY <1>7, AccountAssumption DEF CreateMagicLink, VisitAt, AccountInv
  <2>2. /\ links' = [links EXCEPT ![visits[v].token].expiresAt = visits[v].now + LinkTtl]
        /\ VisitEnds(v) /\ UNCHANGED <<clock, sessions>>
    BY <1>7 DEF CreateMagicLink
  <2>3. /\ links' \in [Tokens -> [expiresAt : Nat \cup {NoTime}, consumed : BOOLEAN]]
        /\ \A t \in Tokens : links'[t].consumed = links[t].consumed
    BY <2>1, <2>2 DEF AccountInv
  <2>4. \A w \in Visits : visits'[w] = IF w = v THEN NoVisit ELSE visits[w]
    BY <2>2 DEF VisitEnds, AccountInv
  <2>5. visits' \in [Visits -> [step : VisitSteps, token : Tokens \cup {NoTime}, now : Nat]]
    BY <2>2 DEF VisitEnds, AccountInv, NoVisit, VisitSteps
  <2>6. \A w \in Visits, u \in Tokens : MakesSession(w, u)' => MakesSession(w, u)
    BY <2>4 DEF MakesSession, VisitAt, NoVisit
  <2> QED
    BY <2>2, <2>3, <2>4, <2>5, <2>6 DEF AccountInv, OneSessionPerLink, VisitAt, NoVisit
<1>8. ASSUME NEW v \in Visits, ConsumeLink(v)
      PROVE  AccountInv'
  <2> DEFINE t == visits[v].token
  <2>1. t \in Tokens /\ VisitAt(v, "consume") /\ UNCHANGED <<clock, sessions>>
    BY <1>8 DEF ConsumeLink, VisitAt, AccountInv
  <2>2. CASE links[t].consumed
    BY <1>4, <1>8, <2>2 DEF ConsumeLink
  <2>3. CASE ~links[t].consumed
    <3>1. /\ links' = [links EXCEPT ![t].consumed = TRUE]
          /\ visits' = [visits EXCEPT ![v] = [step |-> "session", token |-> t, now |-> visits[v].now]]
      BY <1>8, <2>3, VisitRecords DEF ConsumeLink, VisitSteps
    <3>2. /\ links' \in [Tokens -> [expiresAt : Nat \cup {NoTime}, consumed : BOOLEAN]]
          /\ links'[t].consumed /\ \A u \in Tokens \ {t} : links'[u] = links[u]
      BY <2>1, <3>1, ZenonT(60) DEF AccountInv
    <3>3. /\ \A w \in Visits \ {v} : visits'[w] = visits[w]
          /\ visits'[v].step = "session" /\ visits'[v].token = t
      BY <3>1 DEF AccountInv
    <3>4. visits' \in [Visits -> [step : VisitSteps, token : Tokens \cup {NoTime}, now : Nat]]
      BY <2>1, <3>1 DEF AccountInv, VisitSteps
    <3>5. sessions[t].made = 0 /\ \A w \in Visits : ~MakesSession(w, t)
      BY <2>1, <2>3 DEF AccountInv, OneSessionPerLink
    <3>6. \A w \in Visits, u \in Tokens : MakesSession(w, u)' => (w = v /\ u = t) \/ MakesSession(w, u)
      BY <3>3 DEF MakesSession, VisitAt
    <3>7. OneSessionPerLink'
      BY <2>1, <3>2, <3>5, <3>6 DEF AccountInv, OneSessionPerLink
    <3>8. \A w \in Visits : ~VisitAt(w, "idle")' => visits'[w].token \in Tokens
      BY <2>1, <3>3 DEF AccountInv, VisitAt
    <3> QED
      BY <2>1, <3>2, <3>4, <3>7, <3>8 DEF AccountInv
  <2> QED
    BY <2>2, <2>3
<1>9. ASSUME NEW v \in Visits, CreateSession(v)
      PROVE  AccountInv'
  <2> DEFINE t == visits[v].token
  <2>1. t \in Tokens /\ MakesSession(v, t) /\ visits[v].now + SessionTtl \in Nat
    BY <1>9, AccountAssumption DEF CreateSession, VisitAt, MakesSession, AccountInv
  <2>2. /\ sessions[t].made = 0 /\ links[t].consumed
        /\ \A w \in Visits : MakesSession(w, t) => w = v
    BY <2>1 DEF AccountInv, OneSessionPerLink
  <2>3. /\ sessions' = [sessions EXCEPT ![t] = [expiresAt |-> visits[v].now + SessionTtl, revoked |-> FALSE,
                                                made |-> 1]]
        /\ VisitEnds(v) /\ UNCHANGED <<clock, links>>
    BY <1>9, <2>2 DEF CreateSession
  <2>4. /\ sessions' \in [Tokens -> [expiresAt : Nat \cup {NoTime}, revoked : BOOLEAN, made : Nat]]
        /\ \A u \in Tokens \ {t} : sessions'[u] = sessions[u]
        /\ sessions'[t].made = 1
    BY <2>1, <2>3 DEF AccountInv
  <2>5. /\ \A w \in Visits : visits'[w] = IF w = v THEN NoVisit ELSE visits[w]
        /\ visits' \in [Visits -> [step : VisitSteps, token : Tokens \cup {NoTime}, now : Nat]]
    BY <2>3 DEF VisitEnds, AccountInv, NoVisit, VisitSteps
  <2>6. \A w \in Visits, u \in Tokens : MakesSession(w, u)' => u # t /\ MakesSession(w, u)
    BY <2>2, <2>5 DEF MakesSession, VisitAt, NoVisit
  <2>7. OneSessionPerLink'
    BY <2>3, <2>4, <2>6 DEF AccountInv, OneSessionPerLink
  <2>8. \A u \in Tokens : /\ sessions'[u].made > 0 => links'[u].consumed
                          /\ sessions'[u].revoked => sessions'[u].made > 0
    BY <2>2, <2>3, <2>4 DEF AccountInv
  <2> QED
    BY <2>3, <2>4, <2>5, <2>7, <2>8 DEF AccountInv, VisitAt, NoVisit
<1>10. ASSUME NEW v \in Visits, RefreshSession(v)
       PROVE  AccountInv'
  <2> DEFINE t == visits[v].token
  <2>1. t \in Tokens /\ VisitAt(v, "refresh") /\ visits[v].now + SessionTtl \in Nat
    BY <1>10, AccountAssumption DEF RefreshSession, VisitAt, AccountInv
  <2>2. CASE Live(sessions[t], visits[v].now)
    <3>1. /\ sessions' = [sessions EXCEPT ![t].expiresAt = visits[v].now + SessionTtl]
          /\ visits' = [visits EXCEPT ![v] = [step |-> "signed_in", token |-> t, now |-> visits[v].now]]
          /\ UNCHANGED <<clock, links>>
      BY <1>10, <2>2, VisitRecords DEF RefreshSession, VisitSteps
    <3>2. /\ sessions' \in [Tokens -> [expiresAt : Nat \cup {NoTime}, revoked : BOOLEAN, made : Nat]]
          /\ \A u \in Tokens : sessions'[u].made = sessions[u].made /\ sessions'[u].revoked = sessions[u].revoked
      BY <2>1, <3>1 DEF AccountInv
    <3>3. /\ \A w \in Visits \ {v} : visits'[w] = visits[w]
          /\ visits'[v].step = "signed_in" /\ visits'[v].token = t
          /\ visits' \in [Visits -> [step : VisitSteps, token : Tokens \cup {NoTime}, now : Nat]]
      BY <2>1, <3>1 DEF AccountInv, VisitSteps
    <3>4. \A w \in Visits, u \in Tokens : MakesSession(w, u)' => MakesSession(w, u)
      BY <3>3 DEF MakesSession, VisitAt
    <3>5. OneSessionPerLink'
      BY <3>1, <3>2, <3>4 DEF AccountInv, OneSessionPerLink
    <3> QED
      BY <2>1, <3>1, <3>2, <3>3, <3>5 DEF AccountInv, VisitAt
  <2>3. CASE ~Live(sessions[t], visits[v].now)
    BY <1>4, <1>10, <2>3, SMTT(40) DEF RefreshSession
  <2> QED
    BY <2>2, <2>3
<1>11. ASSUME NEW v \in Visits, Logout(v)
       PROVE  AccountInv'
  <2> DEFINE t == visits[v].token
  <2>1. t \in Tokens
    BY <1>11 DEF Logout, VisitAt, AccountInv
  <2>2. /\ sessions' = [sessions EXCEPT ![t].revoked = @ \/ sessions[t].made > 0]
        /\ VisitEnds(v) /\ UNCHANGED <<clock, links>>
    BY <1>11 DEF Logout
  <2>3. /\ sessions' \in [Tokens -> [expiresAt : Nat \cup {NoTime}, revoked : BOOLEAN, made : Nat]]
        /\ \A u \in Tokens : /\ sessions'[u].made = sessions[u].made
                             /\ sessions'[u].revoked => sessions[u].revoked \/ sessions[u].made > 0
    <3>1. sessions \in [Tokens -> [expiresAt : Nat \cup {NoTime}, revoked : BOOLEAN, made : Nat]]
      BY DEF AccountInv
    <3>2. PICK ended \in BOOLEAN : ended = (sessions[t].revoked \/ sessions[t].made > 0)
      OBVIOUS
    <3>3. sessions' = [sessions EXCEPT ![t].revoked = ended]
      BY <2>2, <3>2
    <3>4. sessions' \in [Tokens -> [expiresAt : Nat \cup {NoTime}, revoked : BOOLEAN, made : Nat]]
      BY <2>1, <3>1, <3>3
    <3>5. /\ \A u \in Tokens : sessions'[u].made = sessions[u].made
          /\ \A u \in Tokens \ {t} : sessions'[u].revoked = sessions[u].revoked
          /\ sessions'[t].revoked = ended
      BY <2>1, <3>1, <3>3
    <3> QED
      BY <3>2, <3>4, <3>5
  <2>4. /\ \A w \in Visits : visits'[w] = IF w = v THEN NoVisit ELSE visits[w]
        /\ visits' \in [Visits -> [step : VisitSteps, token : Tokens \cup {NoTime}, now : Nat]]
    BY <2>2 DEF VisitEnds, AccountInv, NoVisit, VisitSteps
  <2>5. \A w \in Visits, u \in Tokens : MakesSession(w, u)' => MakesSession(w, u)
    BY <2>4 DEF MakesSession, VisitAt, NoVisit
  <2>6. OneSessionPerLink'
    BY <2>2, <2>3, <2>5 DEF AccountInv, OneSessionPerLink
  <2> QED
    BY <2>2, <2>3, <2>4, <2>6 DEF AccountInv, VisitAt, NoVisit
<1> QED
  BY <1>1, <1>2, <1>3, <1>6, <1>7, <1>8, <1>9, <1>10, <1>11 DEF AccountNext

\* A mailed link signs in once, also when it is opened twice at the same time.
THEOREM LinksSignInOnce == AccountSpec => []OneSessionPerLink
<1>1. AccountInv => OneSessionPerLink
  BY DEF AccountInv
<1> QED
  BY <1>1, InitAccounts, StepKeepsAccounts, PTL DEF AccountSpec

\* Once somebody signed out, nothing brings the session back and no request comes to
\* act with it, not even one that had read it before.
THEOREM SignedOutForGood == AccountSpec => SignedOutStaysOut
<1> DEFINE Out == \A t \in Tokens : sessions[t].revoked =>
                    /\ sessions'[t] = sessions[t]
                    /\ \A v \in Visits : (visits'[v].token = t /\ visits'[v].step = "signed_in") =>
                                           VisitAt(v, "signed_in")
<1>1. ASSUME AccountInv, AccountNext, NEW t \in Tokens, sessions[t].revoked
      PROVE  /\ sessions'[t] = sessions[t]
             /\ \A v \in Visits : (visits'[v].token = t /\ visits'[v].step = "signed_in") => VisitAt(v, "signed_in")
  <2>1. CASE \E v \in Visits : CreateSession(v)
    <3>1. PICK v \in Visits : CreateSession(v)
      BY <2>1
    <3>2. visits[v].token # t
      BY <1>1, <3>1 DEF AccountInv, OneSessionPerLink, MakesSession, CreateSession
    <3> QED
      BY <1>1, <3>1, <3>2 DEF CreateSession, VisitEnds, NoVisit, AccountInv, VisitAt
  <2>2. CASE \E v \in Visits : RefreshSession(v)
    <3>1. PICK v \in Visits : RefreshSession(v)
      BY <2>2
    <3>2. CASE Live(sessions[visits[v].token], visits[v].now)
      <4>1. visits[v].token # t
        BY <1>1, <3>2 DEF Live
      <4> QED
        BY <1>1, <3>1, <3>2, <4>1 DEF RefreshSession, VisitGoes, AccountInv, VisitAt
    <3>3. CASE ~Live(sessions[visits[v].token], visits[v].now)
      BY <1>1, <3>1, <3>3 DEF RefreshSession, VisitEnds, NoVisit, AccountInv, VisitAt
    <3> QED
      BY <3>2, <3>3
  <2>3. CASE \E v \in Visits : Logout(v)
    <3>1. PICK v \in Visits : Logout(v)
      BY <2>3
    <3>2. sessions'[t] = sessions[t]
      <4>1. [sessions[t] EXCEPT !.revoked = TRUE] = sessions[t]
        BY <1>1 DEF AccountInv
      <4> QED
        BY <1>1, <3>1, <4>1 DEF Logout, AccountInv
    <3> QED
      BY <1>1, <3>1, <3>2 DEF Logout, VisitEnds, NoVisit, AccountInv, VisitAt
  <2>4. CASE Tick
    BY <2>4 DEF Tick, VisitAt
  <2>5. ASSUME NEW v \in Visits,
               \/ \E u \in Tokens, step \in {"mail", "verify", "authenticate", "logout"} : Visit(v, step, u)
               \/ CreateMagicLink(v) \/ FindLink(v) \/ ConsumeLink(v) \/ FindSession(v) \/ Answer(v)
        PROVE  /\ sessions'[t] = sessions[t]
               /\ \A w \in Visits : (visits'[w].token = t /\ visits'[w].step = "signed_in") =>
                                      VisitAt(w, "signed_in")
    <3>1. sessions' = sessions
      BY <2>5 DEF Visit, CreateMagicLink, FindLink, ConsumeLink, FindSession, Answer
    <3>2. \A w \in Visits : visits'[w] = visits[w] \/ visits'[w].step # "signed_in"
      <4>1. CASE VisitEnds(v)
        BY <1>1, <4>1 DEF VisitEnds, NoVisit, AccountInv
      <4>2. CASE \E step \in {"consume", "session", "refresh"} : VisitGoes(v, step)
        BY <1>1, <4>2 DEF VisitGoes, AccountInv
      <4>3. CASE \E u \in Tokens, step \in {"mail", "verify", "authenticate", "logout"} : Visit(v, step, u)
        BY <1>1, <4>3 DEF Visit, AccountInv
      <4> QED
        BY <2>5, <4>1, <4>2, <4>3 DEF CreateMagicLink, FindLink, ConsumeLink, FindSession, Answer
    <3> QED
      BY <3>1, <3>2 DEF VisitAt
  <2> QED
    BY <1>1, <2>1, <2>2, <2>3, <2>4, <2>5 DEF AccountNext
<1>2. AccountInv /\ [AccountNext]_accountVars => [Out]_accountVars
  BY <1>1 DEF accountVars
<1> QED
  BY <1>2, InitAccounts, StepKeepsAccounts, PTL DEF AccountSpec, SignedOutStaysOut

\* A link signs in once and a session that ended stays ended, for every number of
\* links and of requests that overtake each other.
THEOREM SessionsAlwaysSound == AccountSpec => SessionsAreSound
BY LinksSignInOnce, SignedOutForGood DEF SessionsAreSound

-----------------------------------------------------------------------------
(* Saved tables. *)

SaveSteps == {"new", "count", "refused", "room", "put", "row", "saved"}
ResumeSteps == {"new", "read", "gone", "invalid", "resumed"}
Turn == Nat \cup {NoTurn}
SaveRequest ==
  [step : SaveSteps, asked : Turn, brought : Turn, holds : Turn, raced : SUBSET Saves]

SavesTyped ==
  /\ head \in Nat /\ attested \in Nat /\ luaRoom \in BOOLEAN /\ closed \in BOOLEAN
  /\ saving \in [Saves -> SaveRequest]
  /\ rowOf \in [Saves -> SaveRow \cup {NoTurn}]
  /\ objectOf \in [Saves -> Turn]
  /\ resuming \in [Resumers -> [step : ResumeSteps, save : Saves \cup {NoTurn}, sequence : Turn, begun : Turn]]

\* How far a save has come says what there is of it.
SaveChain(s) ==
  /\ ~SaveAt(s, "new") => saving[s].asked \in Nat /\ saving[s].asked <= head
  /\ ~SaveAt(s, "saved") => rowOf[s] = NoTurn
  /\ SaveAt(s, "saved") => rowOf[s] # NoTurn /\ rowOf[s].sequence >= saving[s].asked
  /\ saving[s].step \in {"put", "row"} => saving[s].holds \in Nat /\ saving[s].holds >= saving[s].asked
  /\ SaveAt(s, "row") => objectOf[s] = saving[s].holds
  /\ SaveAt(s, "saved") =>
       objectOf[s] = rowOf[s].sequence \/ (rowOf[s].deleted /\ objectOf[s] = NoTurn)

\* A resume has read the row, which stays but for its deletion.
ResumeReads(r) ==
  /\ resuming[r].step # "invalid"
  /\ resuming[r].step \in {"read", "gone"} =>
       /\ resuming[r].save \in Saves /\ rowOf[resuming[r].save] # NoTurn
       /\ resuming[r].sequence = rowOf[resuming[r].save].sequence
       /\ resuming[r].step = "gone" => rowOf[resuming[r].save].deleted

\* Those let through while nobody else was, with or without a row yet.
Unraced == {s \in ActiveSaves \cup Racing : saving[s].raced = {}}

SaveInv ==
  /\ SavesTyped /\ (\A s \in Saves : SaveChain(s)) /\ (\A r \in Resumers : ResumeReads(r))
  /\ Cardinality(Unraced) <= SaveLimit

LEMMA SavesAreFinite ==
  ASSUME NEW A \in SUBSET Saves, NEW B \in SUBSET A
  PROVE  /\ IsFiniteSet(A) /\ Cardinality(A) \in Nat /\ Cardinality(B) \in Nat
         /\ Cardinality(B) <= Cardinality(A)
         /\ \A s : Cardinality(A \cup {s}) <= Cardinality(A) + 1
BY FS_Subset, FS_CardinalityType, FS_AddElement, SaveAssumption, SMTT(40)

LEMMA InitSaves == SaveInit => SaveInv
<1> SUFFICES ASSUME SaveInit
             PROVE  SaveInv
  OBVIOUS
<1>1. SavesTyped
  BY DEF SaveInit, SavesTyped, SaveRequest, NoSave, NoResume, SaveSteps, ResumeSteps, Turn
<1>2. \A s \in Saves : SaveChain(s)
  BY DEF SaveInit, SaveChain, NoSave, SaveAt
<1>3. \A r \in Resumers : ResumeReads(r)
  BY DEF SaveInit, ResumeReads, NoResume
<1>4. Unraced = {}
  BY DEF SaveInit, Unraced, ActiveSaves, Racing, NoSave
<1> QED
  BY <1>1, <1>2, <1>3, <1>4, FS_EmptySet, SaveAssumption DEF SaveInv

\* A step that brings nobody past the count, and changes no note of a race.
LEMMA LimitKept ==
  ASSUME SaveInv, Unraced' \subseteq Unraced
  PROVE  Cardinality(Unraced') <= SaveLimit
<1>1. Unraced \in SUBSET Saves
  BY DEF Unraced, ActiveSaves, Racing
<1>2. Cardinality(Unraced') <= Cardinality(Unraced) /\ Cardinality(Unraced') \in Nat /\ Cardinality(Unraced) \in Nat
  BY <1>1, SavesAreFinite
<1> QED
  BY <1>2, SaveAssumption DEF SaveInv

\* The steps of the room.
LEMMA RoomKeepsSaves ==
  ASSUME SaveInv, TakeTurn \/ AttestHead \/ CloseRoom \/ UNCHANGED saveVars
  PROVE  SaveInv'
<1>1. /\ UNCHANGED <<saving, rowOf, objectOf, resuming>> /\ head' \in Nat /\ head' >= head
      /\ SavesTyped'
  <2> USE DEF SaveInv, SavesTyped
  <2>1. CASE TakeTurn
    BY <2>1 DEF TakeTurn
  <2>2. CASE AttestHead
    BY <2>2 DEF AttestHead
  <2>3. CASE CloseRoom
    BY <2>3 DEF CloseRoom
  <2>4. CASE UNCHANGED saveVars
    BY <2>4 DEF saveVars
  <2> QED
    BY <2>1, <2>2, <2>3, <2>4
<1>2. \A s \in Saves : SaveChain(s)'
  BY <1>1 DEF SaveInv, SavesTyped, SaveChain, SaveAt
<1>3. \A r \in Resumers : ResumeReads(r)'
  BY <1>1 DEF SaveInv, ResumeReads
<1>4. Unraced' = Unraced
  BY <1>1 DEF Unraced, ActiveSaves, Racing
<1> QED
  BY <1>1, <1>2, <1>3, <1>4, LimitKept DEF SaveInv

\* A step of the save s: the other saves are as they were.
LEMMA OthersKeepSaves ==
  ASSUME SaveInv, NEW s \in Saves, SavesTyped', SaveChain(s)', UNCHANGED head,
         \A t \in Saves \ {s} : UNCHANGED <<saving[t], rowOf[t], objectOf[t]>>,
         \A r \in Resumers : ResumeReads(r)',
         Cardinality(Unraced') <= SaveLimit
  PROVE  SaveInv'
<1>1. ASSUME NEW t \in Saves \ {s}
      PROVE  SaveChain(t)'
  BY DEF SaveInv, SaveChain, SaveAt
<1> QED
  BY <1>1 DEF SaveInv

LEMMA AskSaveKeeps ==
  ASSUME SaveInv, NEW s \in Saves, NEW brought \in {NoTurn, head}, AskSave(s, brought)
  PROVE  SaveInv'
<1>1. /\ saving[s].step = "new" /\ UNCHANGED <<head, attested, luaRoom, closed, rowOf, objectOf, resuming>>
      /\ saving' = [saving EXCEPT ![s] = [step |-> "count", asked |-> head, brought |-> brought,
                                          holds |-> NoTurn, raced |-> {}]]
      /\ SavesTyped /\ SaveChain(s)
  BY DEF AskSave, SaveAt, NoSave, SaveInv
<1>2. SavesTyped' /\ \A t \in Saves \ {s} : saving'[t] = saving[t]
  BY <1>1 DEF SavesTyped, SaveRequest, SaveSteps, Turn
<1>3. saving'[s].step = "count" /\ saving'[s].asked = head
  BY <1>1 DEF SavesTyped
<1>4. SaveChain(s)'
  BY <1>1, <1>3 DEF SaveChain, SaveAt, SavesTyped
<1>5. \A r \in Resumers : ResumeReads(r)'
  BY <1>1 DEF SaveInv, ResumeReads
<1>6. Unraced' \subseteq Unraced
  BY <1>1, <1>2, <1>3 DEF Unraced, ActiveSaves, Racing, SaveChain, SaveAt
<1> QED
  BY <1>1, <1>2, <1>4, <1>5, <1>6, LimitKept, OthersKeepSaves

LEMMA CountSavesKeeps ==
  ASSUME SaveInv, NEW s \in Saves, CountSaves(s)
  PROVE  SaveInv'
<1> DEFINE step == IF Cardinality(ActiveSaves) >= SaveLimit THEN "refused" ELSE "room"
<1>1. /\ saving[s].step = "count" /\ UNCHANGED <<head, attested, luaRoom, closed, rowOf, objectOf, resuming>>
      /\ saving' = [saving EXCEPT ![s].step = step, ![s].raced = Racing]
      /\ SavesTyped /\ SaveChain(s)
  BY DEF CountSaves, SaveAt, SaveInv
<1>2. /\ SavesTyped' /\ (\A t \in Saves \ {s} : saving'[t] = saving[t])
      /\ saving'[s].step = step /\ saving'[s].asked = saving[s].asked /\ saving'[s].raced = Racing
  <2> DEFINE raced == Racing
  <2>1. step \in SaveSteps /\ raced \in SUBSET Saves
    BY DEF SaveSteps, Racing
  <2>2. saving' = [saving EXCEPT ![s].step = step, ![s].raced = raced]
    BY <1>1
  <2> HIDE DEF step, raced
  <2>3. /\ saving' \in [Saves -> SaveRequest]
        /\ (\A t \in Saves \ {s} : saving'[t] = saving[t])
        /\ saving'[s].step = step /\ saving'[s].asked = saving[s].asked /\ saving'[s].raced = raced
    <3> DEFINE new == [saving[s] EXCEPT !.step = step, !.raced = raced]
    <3>1. saving[s] \in SaveRequest /\ saving \in [Saves -> SaveRequest]
      BY <1>1 DEF SavesTyped
    <3>2. new \in SaveRequest /\ new.step = step /\ new.asked = saving[s].asked /\ new.raced = raced
      BY <2>1, <3>1 DEF SaveRequest
    <3>3. saving' = [saving EXCEPT ![s] = new]
      BY <2>2
    <3> HIDE DEF new
    <3> QED
      BY <3>1, <3>2, <3>3
  <2> QED
    BY <1>1, <2>3 DEF SavesTyped, raced
<1>3. SaveChain(s)'
  BY <1>1, <1>2 DEF SaveChain, SaveAt
<1>4. \A r \in Resumers : ResumeReads(r)'
  BY <1>1 DEF SaveInv, ResumeReads
<1>5. Cardinality(Unraced') <= SaveLimit
  <2>1. CASE step = "refused" \/ Racing # {}
    <3>1. Unraced' \subseteq Unraced
      BY <1>1, <1>2, <2>1 DEF Unraced, ActiveSaves, Racing, SaveChain, SaveAt
    <3> QED
      BY <3>1, LimitKept
  <2>2. CASE step = "room" /\ Racing = {}
    <3>1. Cardinality(ActiveSaves) < SaveLimit
      BY <2>2, SavesAreFinite, SaveAssumption DEF ActiveSaves
    <3>2. Unraced' \subseteq ActiveSaves \cup {s} /\ ActiveSaves \cup {s} \in SUBSET Saves
      BY <1>1, <1>2, <2>2 DEF Unraced, ActiveSaves, Racing
    <3>3. /\ Cardinality(Unraced') <= Cardinality(ActiveSaves \cup {s})
          /\ Cardinality(Unraced') \in Nat /\ Cardinality(ActiveSaves \cup {s}) \in Nat
      BY <3>2, SavesAreFinite
    <3>4. Cardinality(ActiveSaves \cup {s}) <= Cardinality(ActiveSaves) + 1 /\ Cardinality(ActiveSaves) \in Nat
      BY SavesAreFinite DEF ActiveSaves
    <3> QED
      BY <3>1, <3>3, <3>4, SaveAssumption
  <2> QED
    BY <2>1, <2>2
<1> QED
  BY <1>1, <1>2, <1>3, <1>4, <1>5, OthersKeepSaves

LEMMA AskRoomKeeps ==
  ASSUME SaveInv, NEW s \in Saves, AskRoom(s)
  PROVE  SaveInv'
<1> DEFINE step == IF closed \/ Snapshot(s) = NoTurn THEN "refused" ELSE "put"
           held == IF closed THEN NoTurn ELSE Snapshot(s)
<1>1. /\ saving[s].step = "room" /\ UNCHANGED <<head, attested, luaRoom, closed, rowOf, objectOf, resuming>>
      /\ saving' = [saving EXCEPT ![s].step = step, ![s].holds = held]
      /\ SavesTyped /\ SaveChain(s)
  BY DEF AskRoom, SaveAt, SaveInv
<1>2. Snapshot(s) \in {head, NoTurn}
  BY DEF Snapshot
<1>3. /\ SavesTyped' /\ (\A t \in Saves \ {s} : saving'[t] = saving[t])
      /\ saving'[s].step = step /\ saving'[s].asked = saving[s].asked /\ saving'[s].holds = held
      /\ saving'[s].raced = saving[s].raced
  <2>1. step \in SaveSteps /\ held \in Turn
    BY <1>1, <1>2 DEF SaveSteps, SavesTyped, Turn
  <2>2. saving' = [saving EXCEPT ![s].step = step, ![s].holds = held]
    BY <1>1
  <2> HIDE DEF step, held
  <2> DEFINE new == [saving[s] EXCEPT !.step = step, !.holds = held]
  <2>3. saving[s] \in SaveRequest /\ saving \in [Saves -> SaveRequest]
    BY <1>1 DEF SavesTyped
  <2>4. new \in SaveRequest /\ new.step = step /\ new.asked = saving[s].asked /\ new.holds = held
        /\ new.raced = saving[s].raced
    BY <2>1, <2>3 DEF SaveRequest
  <2>5. saving' = [saving EXCEPT ![s] = new]
    BY <2>2
  <2> HIDE DEF new
  <2> QED
    BY <1>1, <2>3, <2>4, <2>5, ZenonT(60) DEF SavesTyped
<1>4. SaveChain(s)'
  BY <1>1, <1>2, <1>3 DEF SaveChain, SaveAt, SavesTyped
<1>5. \A r \in Resumers : ResumeReads(r)'
  BY <1>1 DEF SaveInv, ResumeReads
<1>6. Unraced' \subseteq Unraced
  BY <1>1, <1>3 DEF Unraced, ActiveSaves, Racing
<1> QED
  BY <1>1, <1>3, <1>4, <1>5, <1>6, LimitKept, OthersKeepSaves

LEMMA WritesKeepSaves ==
  ASSUME SaveInv, NEW s \in Saves, PutSave(s) \/ InsertSave(s) \/ DropSave(s)
  PROVE  SaveInv'
<1>1. /\ UNCHANGED <<head, attested, luaRoom, closed, resuming>> /\ SavesTyped /\ SaveChain(s)
      /\ \E step \in SaveSteps \ {"new"} : saving' = [saving EXCEPT ![s].step = step]
  BY DEF PutSave, InsertSave, DropSave, SaveGoes, SaveInv, SaveSteps
<1>2. /\ \A t \in Saves \ {s} : saving'[t] = saving[t]
      /\ saving'[s].asked = saving[s].asked /\ saving'[s].holds = saving[s].holds /\ saving'[s].raced = saving[s].raced
      /\ saving' \in [Saves -> SaveRequest]
  <2>1. saving[s] \in SaveRequest /\ saving \in [Saves -> SaveRequest]
    BY <1>1 DEF SavesTyped
  <2>2. PICK step \in SaveSteps : saving' = [saving EXCEPT ![s].step = step]
    BY <1>1
  <2> DEFINE new == [saving[s] EXCEPT !.step = step]
  <2>3. /\ new \in SaveRequest /\ new.asked = saving[s].asked /\ new.holds = saving[s].holds
        /\ new.raced = saving[s].raced
    BY <2>1 DEF SaveRequest
  <2>4. saving' = [saving EXCEPT ![s] = new]
    BY <2>2
  <2> HIDE DEF new
  <2> QED
    BY <2>1, <2>3, <2>4
<1>3. saving[s].step \in {"count", "room", "put", "row"} /\ rowOf[s] = NoTurn
  BY <1>1 DEF PutSave, InsertSave, DropSave, SaveAt, SaveChain
<1>4. CASE PutSave(s)
  <2>1. /\ saving[s].step = "put" /\ saving'[s].step = "row" /\ UNCHANGED rowOf
        /\ objectOf' = [objectOf EXCEPT ![s] = saving[s].holds] /\ saving[s].holds \in Nat
    BY <1>1, <1>4 DEF PutSave, SaveGoes, SaveAt, SaveChain, SavesTyped, SaveRequest
  <2>2. SavesTyped' /\ objectOf'[s] = saving[s].holds /\ \A t \in Saves \ {s} : objectOf'[t] = objectOf[t]
    BY <1>1, <1>2, <2>1 DEF SavesTyped, Turn
  <2>3. SaveChain(s)'
    BY <1>1, <1>2, <1>3, <2>1, <2>2 DEF SaveChain, SaveAt
  <2>4. \A r \in Resumers : ResumeReads(r)'
    BY <1>1, <2>1 DEF SaveInv, ResumeReads
  <2>5. Unraced' \subseteq Unraced
    BY <1>2, <2>1 DEF Unraced, ActiveSaves, Racing
  <2> QED
    BY <1>1, <1>2, <2>1, <2>2, <2>3, <2>4, <2>5, LimitKept, OthersKeepSaves
<1>5. CASE InsertSave(s)
  <2>1. /\ saving[s].step = "row" /\ saving'[s].step = "saved" /\ UNCHANGED objectOf
        /\ rowOf' = [rowOf EXCEPT ![s] = [sequence |-> saving[s].holds, deleted |-> FALSE]]
        /\ saving[s].holds \in Nat
    BY <1>1, <1>5 DEF InsertSave, SaveGoes, SaveAt, SaveChain, SavesTyped, SaveRequest
  <2>2. /\ SavesTyped' /\ rowOf'[s].sequence = saving[s].holds /\ rowOf'[s] \in SaveRow
        /\ \A t \in Saves \ {s} : rowOf'[t] = rowOf[t]
    BY <1>1, <1>2, <2>1 DEF SavesTyped, SaveRow
  <2>3. SaveChain(s)'
    BY <1>1, <1>2, <2>1, <2>2, SaveAssumption DEF SaveChain, SaveAt
  <2>4. \A r \in Resumers : ResumeReads(r)'
    BY <1>1, <1>3, <2>2 DEF SaveInv, ResumeReads
  <2>5. Unraced' \subseteq Unraced
    BY <1>2, <2>1, <2>2 DEF Unraced, ActiveSaves, Racing
  <2> QED
    BY <1>1, <1>2, <2>1, <2>2, <2>3, <2>4, <2>5, LimitKept, OthersKeepSaves
<1>6. CASE DropSave(s)
  <2>1. saving'[s].step = "refused" /\ UNCHANGED <<rowOf, objectOf>>
    BY <1>1, <1>6 DEF DropSave, SaveGoes, SavesTyped, SaveRequest
  <2>2. SavesTyped'
    BY <1>1, <1>2, <2>1 DEF SavesTyped
  <2>3. SaveChain(s)'
    BY <1>1, <1>2, <1>3, <2>1 DEF SaveChain, SaveAt
  <2>4. \A r \in Resumers : ResumeReads(r)'
    BY <1>1, <2>1 DEF SaveInv, ResumeReads
  <2>5. Unraced' \subseteq Unraced
    BY <1>2, <1>3, <2>1 DEF Unraced, ActiveSaves, Racing
  <2> QED
    BY <1>1, <1>2, <2>1, <2>2, <2>3, <2>4, <2>5, LimitKept, OthersKeepSaves
<1> QED
  BY <1>4, <1>5, <1>6

LEMMA DeletesKeepSaves ==
  ASSUME SaveInv, NEW s \in Saves, DeleteSave(s) \/ DeleteObject(s)
  PROVE  SaveInv'
<1>1. /\ UNCHANGED <<head, attested, luaRoom, closed, saving, resuming>> /\ SavesTyped /\ SaveChain(s)
      /\ rowOf[s] # NoTurn /\ rowOf[s] \in SaveRow /\ saving[s].step = "saved"
  BY DEF DeleteSave, DeleteObject, ActiveSaves, SaveInv, SavesTyped, SaveChain, SaveAt
<1>2. CASE DeleteSave(s)
  <2>1. rowOf' = [rowOf EXCEPT ![s].deleted = TRUE] /\ UNCHANGED objectOf
    BY <1>2 DEF DeleteSave
  <2>2. /\ rowOf'[s] = [rowOf[s] EXCEPT !.deleted = TRUE]
        /\ \A t \in Saves \ {s} : rowOf'[t] = rowOf[t]
    BY <1>1, <2>1 DEF SavesTyped
  <2>3. rowOf'[s] \in SaveRow /\ rowOf'[s].sequence = rowOf[s].sequence /\ rowOf'[s].deleted = TRUE
    BY <1>1, <2>2 DEF SaveRow
  <2>4. SavesTyped' /\ rowOf'[s] # NoTurn
    BY <1>1, <2>1, <2>2, <2>3, SaveAssumption DEF SavesTyped
  <2>5. SaveChain(s)'
    BY <1>1, <2>1, <2>3, <2>4 DEF SaveChain, SaveAt
  <2>6. \A r \in Resumers : ResumeReads(r)'
    BY <1>1, <2>2, <2>3, <2>4, ZenonT(60) DEF SaveInv, ResumeReads
  <2>7. Unraced' \subseteq Unraced
    BY <1>1, <2>2, <2>3 DEF Unraced, ActiveSaves, Racing
  <2> QED
    BY <1>1, <2>1, <2>2, <2>4, <2>5, <2>6, <2>7, LimitKept, OthersKeepSaves
<1>3. CASE DeleteObject(s)
  <2>1. objectOf' = [objectOf EXCEPT ![s] = NoTurn] /\ UNCHANGED rowOf /\ rowOf[s].deleted
    BY <1>3 DEF DeleteObject
  <2>2. SavesTyped' /\ objectOf'[s] = NoTurn /\ \A t \in Saves \ {s} : objectOf'[t] = objectOf[t]
    BY <1>1, <2>1 DEF SavesTyped, Turn
  <2>3. SaveChain(s)'
    BY <1>1, <2>1, <2>2 DEF SaveChain, SaveAt
  <2>4. \A r \in Resumers : ResumeReads(r)'
    BY <1>1, <2>1 DEF SaveInv, ResumeReads
  <2>5. Unraced' \subseteq Unraced
    BY <1>1, <2>1 DEF Unraced, ActiveSaves, Racing
  <2> QED
    BY <1>1, <2>1, <2>2, <2>3, <2>4, <2>5, LimitKept, OthersKeepSaves
<1> QED
  BY <1>2, <1>3

LEMMA ResumesKeepSaves ==
  ASSUME SaveInv, NEW r \in Resumers, ReadSave(r) \/ \E s \in Saves : FindSave(r, s)
  PROVE  SaveInv'
<1>1. UNCHANGED <<head, attested, luaRoom, closed, saving, rowOf, objectOf>> /\ SavesTyped
  BY DEF ReadSave, FindSave, SaveInv
<1>2. (\A s \in Saves : SaveChain(s)') /\ Unraced' = Unraced
  BY <1>1 DEF SaveInv, SaveChain, SaveAt, Unraced, ActiveSaves, Racing
<1>3. SavesTyped' /\ ResumeReads(r)' /\ \A q \in Resumers \ {r} : resuming'[q] = resuming[q]
  <2>1. ASSUME NEW s \in Saves, FindSave(r, s)
        PROVE  SavesTyped' /\ ResumeReads(r)' /\ \A q \in Resumers \ {r} : resuming'[q] = resuming[q]
    <3>1. /\ rowOf[s] \in SaveRow /\ rowOf[s] # NoTurn /\ rowOf[s].sequence \in Nat
          /\ resuming' = [resuming EXCEPT ![r] = [step |-> "read", save |-> s,
                                                  sequence |-> rowOf[s].sequence, begun |-> NoTurn]]
      BY <1>1, <2>1 DEF FindSave, ActiveSaves, SavesTyped, SaveRow
    <3>2. SavesTyped' /\ \A q \in Resumers \ {r} : resuming'[q] = resuming[q]
      BY <1>1, <3>1 DEF SavesTyped, ResumeSteps, Turn
    <3>3. resuming'[r].step = "read" /\ resuming'[r].save = s /\ resuming'[r].sequence = rowOf[s].sequence
      BY <1>1, <3>1 DEF SavesTyped
    <3> QED
      BY <1>1, <3>1, <3>2, <3>3 DEF ResumeReads
  <2>2. ASSUME ReadSave(r)
        PROVE  SavesTyped' /\ ResumeReads(r)' /\ \A q \in Resumers \ {r} : resuming'[q] = resuming[q]
    <3> DEFINE s == resuming[r].save
               found == objectOf[s]
    <3>1. /\ resuming[r].step = "read" /\ s \in Saves /\ rowOf[s] # NoTurn
          /\ resuming[r].sequence = rowOf[s].sequence /\ found \in Turn
      BY <1>1, <2>2 DEF ReadSave, SaveInv, ResumeReads, SavesTyped
    <3>2. found = rowOf[s].sequence \/ (rowOf[s].deleted /\ found = NoTurn)
      BY <3>1 DEF SaveInv, SaveChain
    <3>3. found # NoTurn \/ rowOf[s].deleted
      <4>1. rowOf[s] \in SaveRow
        BY <1>1, <3>1 DEF SavesTyped
      <4> QED
        BY <3>2, <4>1, SaveAssumption DEF SaveRow
    <3>4. \E step \in {"gone", "resumed"}, begun \in Turn :
            /\ step = "gone" => rowOf[s].deleted
            /\ resuming' = [resuming EXCEPT ![r].step = step, ![r].begun = begun]
      <4> DEFINE step == IF found = NoTurn THEN "gone" ELSE "resumed"
                 begun == IF found = resuming[r].sequence THEN found ELSE NoTurn
      <4>1. resuming' = [resuming EXCEPT ![r].step = step, ![r].begun = begun]
        BY <2>2, <3>1, <3>2 DEF ReadSave
      <4>2. step \in {"gone", "resumed"} /\ begun \in Turn /\ (step = "gone" => rowOf[s].deleted)
        BY <3>1, <3>3 DEF Turn
      <4> QED
        BY <4>1, <4>2
    <3>5. /\ SavesTyped' /\ (\A q \in Resumers \ {r} : resuming'[q] = resuming[q])
          /\ resuming'[r].step \in {"gone", "resumed"} /\ resuming'[r].save = s
          /\ resuming'[r].sequence = resuming[r].sequence
          /\ resuming'[r].step = "gone" => rowOf[s].deleted
      <4>1. PICK step \in {"gone", "resumed"}, begun \in Turn :
              /\ step = "gone" => rowOf[s].deleted
              /\ resuming' = [resuming EXCEPT ![r].step = step, ![r].begun = begun]
        BY <3>4
      <4>2. step \in ResumeSteps
        BY DEF ResumeSteps
      <4>3. /\ resuming' \in [Resumers -> [step : ResumeSteps, save : Saves \cup {NoTurn}, sequence : Turn, begun : Turn]]
            /\ (\A q \in Resumers \ {r} : resuming'[q] = resuming[q])
            /\ resuming'[r].step = step /\ resuming'[r].save = s
            /\ resuming'[r].sequence = resuming[r].sequence
        BY <1>1, <4>1, <4>2 DEF SavesTyped
      <4> QED
        BY <1>1, <4>1, <4>3 DEF SavesTyped
    <3> QED
      BY <1>1, <3>1, <3>5 DEF ResumeReads
  <2> QED
    BY <2>1, <2>2
<1>4. \A q \in Resumers : ResumeReads(q)'
  BY <1>1, <1>3 DEF SaveInv, ResumeReads
<1> QED
  BY <1>2, <1>3, <1>4 DEF SaveInv

LEMMA StepKeepsSaves == SaveInv /\ [SaveNext]_saveVars => SaveInv'
BY RoomKeepsSaves, AskSaveKeeps, CountSavesKeeps, AskRoomKeeps, WritesKeepSaves, DeletesKeepSaves,
   ResumesKeepSaves DEF SaveNext

\* A save that is listed can be resumed to the turn its row names, a resume is refused
\* only for a deletion, and only requests that overlap exceed the limit, whatever dies
\* half way, for every number of saves and every limit.
THEOREM SavesAlwaysWhole == SaveSpec => []SavesAreWhole
<1>1. SaveInv => SavesAreWhole
  <2> SUFFICES ASSUME SaveInv
               PROVE  SavesAreWhole
    OBVIOUS
  <2>1. ASSUME NEW s \in ActiveSaves
        PROVE  objectOf[s] = rowOf[s].sequence /\ rowOf[s].sequence >= saving[s].asked
    BY DEF ActiveSaves, SaveInv, SaveChain
  <2>2. ASSUME NEW r \in Resumers
        PROVE  /\ resuming[r].step # "invalid"
               /\ resuming[r].step = "gone" => rowOf[resuming[r].save].deleted
    BY DEF SaveInv, ResumeReads
  <2>3. Cardinality({s \in ActiveSaves : saving[s].raced = {}}) <= SaveLimit
    <3> DEFINE clean == {s \in ActiveSaves : saving[s].raced = {}}
    <3>1. clean \subseteq Unraced /\ Unraced \in SUBSET Saves
      BY DEF Unraced, ActiveSaves, Racing
    <3>2. /\ Cardinality(clean) <= Cardinality(Unraced)
          /\ Cardinality(clean) \in Nat /\ Cardinality(Unraced) \in Nat
      BY <3>1, SavesAreFinite
    <3> QED
      BY <3>2, SaveAssumption DEF SaveInv
  <2> QED
    BY <2>1, <2>2, <2>3 DEF SavesAreWhole
<1> QED
  BY <1>1, InitSaves, StepKeepsSaves, PTL DEF SaveSpec

-----------------------------------------------------------------------------
(* The catalogue. *)

UploadRequest ==
  [step : {"new", "put", "commit", "look up", "done"}, kind : {"none", "game", "release", "cover"},
   game : Games \cup {NoGame}, number : Nat, print : Prints \cup {NoGame}]

CatalogTyped ==
  /\ games \in [Games -> GameRow \cup {NoGame}]
  /\ releases \in [Uploads -> ReleaseRow \cup {NoGame}]
  /\ covers \in [Games -> Seq(Prints)]
  /\ uploads \in [Uploads -> UploadRequest]

\* The numbers of a game's releases are 1, 2, ... without a gap, and its latest has the last.
Numbered(g) ==
  /\ \A u \in ReleasesOf(g) : releases[u].number \in 1 .. Cardinality(ReleasesOf(g))
  /\ \A n \in 1 .. Cardinality(ReleasesOf(g)) : ~NumberIsFree(g, n)
  /\ \A u, w \in ReleasesOf(g) : u # w => releases[u].number # releases[w].number
  /\ Published(g) =>
       /\ games[g].latest \in ReleasesOf(g)
       /\ releases[games[g].latest].number = Cardinality(ReleasesOf(g))
  /\ ~Published(g) => ReleasesOf(g) = {}

Covered(g) ==
  /\ Published(g) => games[g].cover = Len(covers[g])
  /\ ~Published(g) => covers[g] = << >>
  /\ \A v \in 1 .. Len(covers[g]) : CoverKey(g, covers[g][v]) \in bucket

\* How far an upload has come says what it found and what there is of it.
Underway(u) ==
  /\ releases[u] # NoGame => u \in bucket /\ UploadAt(u, "done")
  /\ ~UploadAt(u, "new") => uploads[u].game \in Games
  /\ UploadAt(u, "commit") => KeyOf(u) \in bucket
  /\ UploadAt(u, "look up") => uploads[u].kind = "cover"
  /\ uploads[u].kind \in {"release", "cover"} => uploads[u].game \in Games /\ Published(uploads[u].game)
  /\ uploads[u].kind = "release" =>
       uploads[u].number \in 1 .. Cardinality(ReleasesOf(uploads[u].game)) + 1
  /\ uploads[u].kind = "cover" =>
       /\ uploads[u].print \in Prints
       /\ uploads[u].number > 0 =>
            /\ UploadAt(u, "done")
            /\ uploads[u].number <= Len(covers[uploads[u].game])
            /\ covers[uploads[u].game][uploads[u].number] = uploads[u].print

CatalogInv ==
  /\ CatalogTyped
  /\ \A g \in Games : Numbered(g) /\ Covered(g)
  /\ \A u \in Uploads : Underway(u)

LEMMA ReleasesAreFinite ==
  ASSUME NEW g \in Games
  PROVE  /\ IsFiniteSet(ReleasesOf(g)) /\ Cardinality(ReleasesOf(g)) \in Nat
         /\ \A u \in Uploads \ ReleasesOf(g) :
              Cardinality(ReleasesOf(g) \cup {u}) = Cardinality(ReleasesOf(g)) + 1
<1>1. ReleasesOf(g) \in SUBSET Uploads
  BY DEF ReleasesOf
<1> QED
  BY <1>1, FS_Subset, FS_CardinalityType, FS_AddElement, PublishAssumption

\* What a release and a game row are, as the prover sees it.
LEMMA RowFacts ==
  ASSUME CatalogTyped
  PROVE  /\ \A u \in Uploads : releases[u] # NoGame =>
              releases[u] \in ReleaseRow /\ releases[u].game \in Games /\ releases[u].number \in Nat
         /\ \A g \in Games : Published(g) =>
              games[g] \in GameRow /\ games[g].latest \in Uploads /\ games[g].cover \in Nat
BY DEF CatalogTyped, ReleaseRow, GameRow, Published

LEMMA InitCatalog == PublishInit => CatalogInv
<1> SUFFICES ASSUME PublishInit
             PROVE  CatalogInv
  OBVIOUS
<1>1. CatalogTyped
  BY DEF PublishInit, CatalogTyped, UploadRequest
<1>2. ASSUME NEW g \in Games
      PROVE  Numbered(g) /\ Covered(g)
  <2>1. ReleasesOf(g) = {} /\ ~Published(g) /\ covers[g] = << >>
    BY DEF PublishInit, ReleasesOf, Published
  <2>2. Cardinality(ReleasesOf(g)) = 0 /\ Len(covers[g]) = 0
    BY <2>1, FS_EmptySet
  <2> QED
    BY <2>1, <2>2 DEF Numbered, Covered
<1>3. \A u \in Uploads : Underway(u)
  BY DEF PublishInit, Underway, UploadAt
<1> QED
  BY <1>1, <1>2, <1>3 DEF CatalogInv

\* A step of the upload u that leaves the tables alone.
LEMMA RequestsKeep ==
  ASSUME CatalogInv, NEW u \in Uploads, UNCHANGED <<games, releases, covers>>,
         bucket \subseteq bucket', NEW new \in UploadRequest,
         uploads' = [uploads EXCEPT ![u] = new], Underway(u)'
  PROVE  CatalogInv'
<1>1. CatalogTyped' /\ \A w \in Uploads \ {u} : uploads'[w] = uploads[w]
  BY DEF CatalogInv, CatalogTyped
<1>2. \A g \in Games : ReleasesOf(g)' = ReleasesOf(g) /\ (Published(g)' <=> Published(g))
  BY DEF ReleasesOf, Published
<1>3. ASSUME NEW g \in Games
      PROVE  Numbered(g)' /\ Covered(g)'
  <2>1. Numbered(g)'
    BY <1>2 DEF CatalogInv, Numbered, NumberIsFree, ReleasesOf, Published
  <2>2. Covered(g)'
    BY <1>2 DEF CatalogInv, Covered
  <2> QED
    BY <2>1, <2>2
<1>4. ASSUME NEW w \in Uploads \ {u}
      PROVE  Underway(w)'
  <2>1. Underway(w) /\ uploads'[w] = uploads[w]
    BY <1>1 DEF CatalogInv
  <2>2. ReleasesOf(uploads[w].game)' = ReleasesOf(uploads[w].game)
        /\ (Published(uploads[w].game)' <=> Published(uploads[w].game))
        /\ KeyOf(w)' = KeyOf(w)
    BY <2>1 DEF ReleasesOf, Published, KeyOf
  <2> QED
    BY <2>1, <2>2 DEF Underway, UploadAt
<1> QED
  BY <1>1, <1>3, <1>4 DEF CatalogInv

\* The number that is read is one past the last.
LEMMA NumberIsNext ==
  ASSUME CatalogInv, NEW g \in Games, Published(g)
  PROVE  NextNumber(g) = Cardinality(ReleasesOf(g)) + 1
<1> DEFINE n == Cardinality(ReleasesOf(g))
<1>1. /\ games[g].latest \in ReleasesOf(g) /\ releases[games[g].latest].number = n /\ n \in Nat
      /\ \A u \in ReleasesOf(g) : releases[u].number \in 1 .. n
  BY ReleasesAreFinite DEF CatalogInv, Numbered
<1>2. \E u \in ReleasesOf(g) : \A w \in ReleasesOf(g) : releases[w].number <= releases[u].number
  BY <1>1
<1>3. Newest(g) \in ReleasesOf(g) /\ \A w \in ReleasesOf(g) : releases[w].number <= releases[Newest(g)].number
  BY <1>2 DEF Newest
<1>4. releases[Newest(g)].number = n
  BY <1>1, <1>3
<1> QED
  BY <1>1, <1>4 DEF NextNumber

LEMMA CheckKeeps ==
  ASSUME CatalogInv, NEW u \in Uploads, NEW g \in Games,
         CheckGame(u, g) \/ CheckRelease(u, g) \/ \E p \in Prints : CheckCover(u, g, p)
  PROVE  CatalogInv'
<1>1. /\ uploads[u].step = "new" /\ UNCHANGED <<games, releases, covers, bucket>>
      /\ uploads \in [Uploads -> UploadRequest] /\ Underway(u)
  BY DEF CheckGame, CheckRelease, CheckCover, UploadAt, CatalogInv, CatalogTyped
<1>2. releases[u] = NoGame
  BY <1>1 DEF Underway, UploadAt
<1>3. ASSUME NEW kind \in {"game", "release", "cover"}, NEW number \in Nat, NEW print \in Prints \cup {NoGame},
             Accepted(u, kind, g, number, print),
             kind # "game" => Published(g),
             kind = "release" => number \in 1 .. Cardinality(ReleasesOf(g)) + 1,
             kind = "cover" => print \in Prints /\ number = 0
      PROVE  CatalogInv'
  <2> DEFINE new == [step |-> "put", kind |-> kind, game |-> g, number |-> number, print |-> print]
  <2>1. new \in UploadRequest /\ uploads' = [uploads EXCEPT ![u] = new] /\ uploads'[u] = new
    BY <1>1, <1>3 DEF Accepted, UploadRequest
  <2>2. /\ uploads'[u].step = "put" /\ uploads'[u].kind = kind /\ uploads'[u].game = g
        /\ uploads'[u].number = number /\ uploads'[u].print = print
    BY <2>1
  <2> HIDE DEF new
  <2>3. ReleasesOf(g)' = ReleasesOf(g) /\ (Published(g)' <=> Published(g))
    BY <1>1 DEF ReleasesOf, Published
  <2>4. Underway(u)'
    BY <1>1, <1>2, <1>3, <2>2, <2>3 DEF Underway, UploadAt
  <2> QED
    BY <1>1, <2>1, <2>4, RequestsKeep
<1>4. CASE CheckGame(u, g)
  BY <1>3, <1>4 DEF CheckGame
<1>5. CASE CheckRelease(u, g)
  <2>1. NextNumber(g) = Cardinality(ReleasesOf(g)) + 1 /\ Cardinality(ReleasesOf(g)) \in Nat
    BY <1>5, NumberIsNext, ReleasesAreFinite DEF CheckRelease
  <2> QED
    BY <1>3, <1>5, <2>1 DEF CheckRelease
<1>6. CASE \E p \in Prints : CheckCover(u, g, p)
  BY <1>3, <1>6 DEF CheckCover
<1> QED
  BY <1>4, <1>5, <1>6

\* The next step of an upload keeps what its request says.
LEMMA StepFacts ==
  ASSUME CatalogInv, NEW u \in Uploads, NEW step \in {"put", "commit", "look up", "done"}, UploadGoes(u, step)
  PROVE  \E new \in UploadRequest :
           /\ uploads' = [uploads EXCEPT ![u] = new] /\ uploads'[u] = new
           /\ new.step = step /\ new.kind = uploads[u].kind /\ new.game = uploads[u].game
           /\ new.number = uploads[u].number /\ new.print = uploads[u].print
<1>1. uploads[u] \in UploadRequest /\ uploads \in [Uploads -> UploadRequest]
  BY DEF CatalogInv, CatalogTyped
<1> DEFINE new == [uploads[u] EXCEPT !.step = step]
<1>2. /\ new \in UploadRequest /\ new.step = step /\ new.kind = uploads[u].kind
      /\ new.game = uploads[u].game /\ new.number = uploads[u].number /\ new.print = uploads[u].print
  BY <1>1 DEF UploadRequest
<1>3. uploads' = [uploads EXCEPT ![u] = new]
  BY DEF UploadGoes
<1> HIDE DEF new
<1>4. uploads'[u] = new
  BY <1>1, <1>3
<1> QED
  BY <1>2, <1>3, <1>4

\* The same for an upload that is answered a version of a cover.
LEMMA AnswerFacts ==
  ASSUME CatalogInv, NEW u \in Uploads, NEW v \in Nat,
         uploads' = [uploads EXCEPT ![u].step = "done", ![u].number = v]
  PROVE  \E new \in UploadRequest :
           /\ uploads' = [uploads EXCEPT ![u] = new] /\ uploads'[u] = new
           /\ new.step = "done" /\ new.kind = uploads[u].kind /\ new.game = uploads[u].game
           /\ new.number = v /\ new.print = uploads[u].print
<1>1. uploads[u] \in UploadRequest /\ uploads \in [Uploads -> UploadRequest]
  BY DEF CatalogInv, CatalogTyped
<1> DEFINE new == [uploads[u] EXCEPT !.step = "done", !.number = v]
<1>2. /\ new \in UploadRequest /\ new.step = "done" /\ new.kind = uploads[u].kind
      /\ new.game = uploads[u].game /\ new.number = v /\ new.print = uploads[u].print
  BY <1>1 DEF UploadRequest
<1>3. uploads' = [uploads EXCEPT ![u] = new]
  OBVIOUS
<1> HIDE DEF new
<1>4. uploads'[u] = new
  BY <1>1, <1>3
<1> QED
  BY <1>2, <1>3, <1>4

\* An upload that goes a step further and leaves the tables alone.
LEMMA StepKeeps ==
  ASSUME CatalogInv, NEW u \in Uploads, NEW step \in {"commit", "look up", "done"}, UploadGoes(u, step),
         UNCHANGED <<games, releases, covers>>, bucket \subseteq bucket',
         uploads[u].step \in {"put", "commit"}, step = "commit" => KeyOf(u) \in bucket',
         step = "look up" => uploads[u].kind = "cover"
  PROVE  CatalogInv'
<1>1. PICK new \in UploadRequest :
        /\ uploads' = [uploads EXCEPT ![u] = new] /\ uploads'[u] = new
        /\ new.step = step /\ new.kind = uploads[u].kind /\ new.game = uploads[u].game
        /\ new.number = uploads[u].number /\ new.print = uploads[u].print
  <2>1. step \in {"put", "commit", "look up", "done"}
    OBVIOUS
  <2> QED
    BY <2>1, StepFacts
<1>2. Underway(u) /\ uploads[u] \in UploadRequest
  BY DEF CatalogInv, CatalogTyped
<1>0. PICK g \in Games : g = uploads[u].game
  BY <1>2 DEF Underway, UploadAt
<1>3. /\ ReleasesOf(g)' = ReleasesOf(g) /\ (Published(g)' <=> Published(g))
      /\ uploads'[u].game = g /\ uploads'[u].step = step /\ uploads'[u].kind = uploads[u].kind
      /\ uploads'[u].number = uploads[u].number /\ uploads'[u].print = uploads[u].print
  BY <1>0, <1>1 DEF ReleasesOf, Published
<1>6. KeyOf(u)' = KeyOf(u)
  BY <1>0, <1>3 DEF KeyOf, CoverKey
<1>4. ~(uploads[u].number > 0 /\ uploads[u].kind = "cover")
  BY <1>2 DEF Underway, UploadAt
<1>5. Underway(u)'
  BY <1>0, <1>2, <1>3, <1>4, <1>6 DEF Underway, UploadAt
<1> QED
  BY <1>1, <1>5, RequestsKeep

LEMMA PutKeeps ==
  ASSUME CatalogInv, NEW u \in Uploads, PutObject(u) \/ AbandonUpload(u)
  PROVE  CatalogInv'
<1>1. CASE PutObject(u)
  BY <1>1, StepKeeps DEF PutObject, UploadAt
<1>2. CASE AbandonUpload(u)
  BY <1>2, StepKeeps DEF AbandonUpload
<1> QED
  BY <1>1, <1>2

LEMMA LookUpKeeps ==
  ASSUME CatalogInv, NEW u \in Uploads, LookUpVersion(u)
  PROVE  CatalogInv'
<1>0. PICK g \in Games : g = uploads[u].game
  BY DEF LookUpVersion, UploadAt, CatalogInv, Underway
<1>1. /\ UNCHANGED <<games, releases, covers, bucket>> /\ uploads[u].step = "look up"
      /\ uploads[u].kind = "cover" /\ Underway(u) /\ covers[g] \in Seq(Prints)
  BY DEF LookUpVersion, UploadAt, CatalogInv, Underway, CatalogTyped
<1>2. PICK v \in DOMAIN covers[g] :
        covers[g][v] = uploads[u].print /\ uploads' = [uploads EXCEPT ![u].step = "done", ![u].number = v]
  BY <1>0 DEF LookUpVersion
<1>3. v \in 1 .. Len(covers[g]) /\ v \in Nat
  <2>1. PICK s \in Seq(Prints) : s = covers[g]
    BY <1>1
  <2>2. DOMAIN s = 1 .. Len(s)
    OBVIOUS
  <2> QED
    BY <1>2, <2>1, <2>2
<1>4. PICK new \in UploadRequest :
        /\ uploads' = [uploads EXCEPT ![u] = new] /\ uploads'[u] = new
        /\ new.step = "done" /\ new.kind = uploads[u].kind /\ new.game = uploads[u].game
        /\ new.number = v /\ new.print = uploads[u].print
  BY <1>2, <1>3, AnswerFacts
<1>5. /\ uploads'[u].step = "done" /\ uploads'[u].kind = "cover" /\ uploads'[u].game = g
      /\ uploads'[u].number = v /\ uploads'[u].print = uploads[u].print
      /\ covers'[g] = covers[g] /\ releases'[u] = releases[u]
  BY <1>0, <1>1, <1>4
<1>6. uploads[u].print \in Prints /\ Published(g)' /\ (releases[u] = NoGame)
  BY <1>0, <1>1 DEF Underway, UploadAt, Published
<1>8. v <= Len(covers[g]) /\ covers[g][v] = uploads[u].print
  BY <1>2, <1>3
<1>7. Underway(u)'
  BY <1>3, <1>5, <1>6, <1>8 DEF Underway, UploadAt
<1> QED
  BY <1>1, <1>4, <1>7, RequestsKeep

\* A row of a new release: the upload u becomes release n of g, one past the last, and its latest.
LEMMA NewRelease ==
  ASSUME CatalogInv, NEW u \in Uploads, NEW g \in Games, g = uploads[u].game, NEW row \in GameRow,
         uploads[u].step = "commit", uploads[u].kind \in {"game", "release"},
         releases' = [releases EXCEPT ![u] = [game |-> g, number |-> Cardinality(ReleasesOf(g)) + 1]],
         games' = [games EXCEPT ![g] = row], row.latest = u, row.cover = Len(covers[g]),
         UploadGoes(u, "done"), UNCHANGED <<covers, bucket>>
  PROVE  CatalogInv'
<1> DEFINE c == Cardinality(ReleasesOf(g))
           entry == [game |-> g, number |-> c + 1]
<1>1. /\ CatalogTyped /\ Numbered(g) /\ Covered(g) /\ Underway(u) /\ releases[u] = NoGame
      /\ u \in bucket /\ c \in Nat
  BY ReleasesAreFinite DEF CatalogInv, Underway, UploadAt, KeyOf
<1>2. entry \in ReleaseRow /\ entry # NoGame /\ entry.game = g /\ entry.number = c + 1
  BY <1>1, PublishAssumption DEF ReleaseRow
<1>3. PICK new \in UploadRequest :
        /\ uploads' = [uploads EXCEPT ![u] = new] /\ uploads'[u] = new
        /\ new.step = "done" /\ new.kind = uploads[u].kind /\ new.game = uploads[u].game
        /\ new.number = uploads[u].number /\ new.print = uploads[u].print
  BY StepFacts
<1>4. releases' = [releases EXCEPT ![u] = entry]
  OBVIOUS
<1> HIDE DEF entry
<1>5. /\ releases'[u] = entry /\ \A w \in Uploads \ {u} : releases'[w] = releases[w] /\ uploads'[w] = uploads[w]
      /\ games'[g] = row /\ \A h \in Games \ {g} : games'[h] = games[h]
      /\ CatalogTyped'
  BY <1>1, <1>2, <1>3, <1>4 DEF CatalogTyped
<1>6. /\ ReleasesOf(g)' = ReleasesOf(g) \cup {u} /\ u \notin ReleasesOf(g)
      /\ \A h \in Games \ {g} : ReleasesOf(h)' = ReleasesOf(h)
  BY <1>1, <1>2, <1>5, ZenonT(40) DEF ReleasesOf
<1>7. Cardinality(ReleasesOf(g))' = c + 1
  <2>1. Cardinality(ReleasesOf(g) \cup {u}) = c + 1
    BY <1>6, ReleasesAreFinite
  <2> QED
    BY <1>6, <2>1
<1>8. Published(g)' /\ \A h \in Games \ {g} : Published(h)' <=> Published(h)
  BY <1>5, PublishAssumption DEF Published
<1>9. Numbered(g)'
  <2> DEFINE all == ReleasesOf(g) \cup {u}
  <2>1. /\ \A w \in ReleasesOf(g) : releases'[w] = releases[w] /\ releases[w].number \in 1 .. c
        /\ releases'[u].number = c + 1
    BY <1>1, <1>2, <1>5, <1>6 DEF Numbered, ReleasesOf
  <2>2. \A w \in all : releases'[w].number \in 1 .. c + 1
    BY <1>1, <2>1
  <2>3. ASSUME NEW n \in 1 .. c + 1
        PROVE  \E w \in all : releases'[w].number = n
    <3>1. CASE n = c + 1
      BY <2>1, <3>1
    <3>2. CASE n \in 1 .. c
      <4>1. PICK w \in ReleasesOf(g) : releases[w].number = n
        BY <1>1, <3>2 DEF Numbered, NumberIsFree
      <4> QED
        BY <2>1, <4>1
    <3> QED
      BY <1>1, <3>1, <3>2
  <2>4. ASSUME NEW w \in all, NEW x \in all, w # x
        PROVE  releases'[w].number # releases'[x].number
    BY <1>1, <2>1, <2>4 DEF Numbered
  <2>5. /\ games'[g].latest = u /\ u \in all
    BY <1>5
  <2>6. \A n \in 1 .. c + 1 : ~NumberIsFree(g, n)'
    BY <1>6, <2>3 DEF NumberIsFree
  <2>7. ReleasesOf(g)' = all /\ Cardinality(ReleasesOf(g))' = c + 1
    BY <1>6, <1>7
  <2> HIDE DEF c, all
  <2>8. releases'[games'[g].latest].number = c + 1
    BY <2>1, <2>5
  <2> QED
    BY <1>8, <2>2, <2>4, <2>5, <2>6, <2>7, <2>8 DEF Numbered
<1>10. Covered(g)'
  BY <1>1, <1>5, <1>8 DEF Covered
<1>11. ASSUME NEW h \in Games \ {g}
       PROVE  Numbered(h)' /\ Covered(h)'
  <2>1. Numbered(h) /\ Covered(h) /\ ReleasesOf(h)' = ReleasesOf(h) /\ games'[h] = games[h]
        /\ (Published(h)' <=> Published(h)) /\ u \notin ReleasesOf(h)
    BY <1>1, <1>5, <1>6, <1>8 DEF CatalogInv, ReleasesOf
  <2>2. \A w \in ReleasesOf(h) : releases'[w] = releases[w]
    BY <1>5, <2>1 DEF ReleasesOf
  <2>3. Published(h) => games[h].latest \in ReleasesOf(h)
    BY <2>1 DEF Numbered
  <2>4. \A n : NumberIsFree(h, n)' <=> NumberIsFree(h, n)
    BY <2>1, <2>2 DEF NumberIsFree
  <2>5. Numbered(h)'
    BY <2>1, <2>2, <2>3, <2>4 DEF Numbered
  <2>6. Covered(h)'
    BY <2>1 DEF Covered
  <2> QED
    BY <2>5, <2>6
<1>12. ASSUME NEW w \in Uploads \ {u}
       PROVE  Underway(w)'
  <2>1. Underway(w) /\ uploads'[w] = uploads[w] /\ releases'[w] = releases[w] /\ KeyOf(w)' = KeyOf(w)
        /\ uploads[w] \in UploadRequest
    BY <1>1, <1>5 DEF CatalogInv, CatalogTyped, KeyOf
  <2>2. CASE uploads[w].game \in Games
    <3>1. PICK h \in Games : h = uploads[w].game
      BY <2>2
    <3>2. (Published(h) => Published(h)') /\ Cardinality(ReleasesOf(h)) \in Nat
          /\ Cardinality(ReleasesOf(h))' \in {Cardinality(ReleasesOf(h)), Cardinality(ReleasesOf(h)) + 1}
      <4>1. CASE h = g
        BY <1>1, <1>7, <1>8, <4>1
      <4>2. CASE h # g
        BY <1>6, <1>8, <4>2, ReleasesAreFinite
      <4> QED
        BY <4>1, <4>2
    <3>3. uploads[w].kind = "release" => uploads[w].number \in 1 .. Cardinality(ReleasesOf(h))' + 1
      <4>1. uploads[w].kind = "release" => uploads[w].number \in 1 .. Cardinality(ReleasesOf(h)) + 1
        BY <2>1, <3>1 DEF Underway
      <4> QED
        BY <3>2, <4>1
    <3> QED
      BY <2>1, <3>1, <3>2, <3>3 DEF Underway, UploadAt
  <2>3. CASE uploads[w].game \notin Games
    <3>1. uploads[w].step = "new" /\ uploads[w].kind \notin {"release", "cover"}
      BY <2>1, <2>3 DEF Underway, UploadAt
    <3> QED
      BY <2>1, <3>1 DEF Underway, UploadAt
  <2> QED
    BY <2>2, <2>3
<1>13. Underway(u)'
  <2>1. /\ uploads'[u].step = "done" /\ uploads'[u].kind = uploads[u].kind /\ uploads'[u].game = g
        /\ uploads'[u].number = uploads[u].number
    BY <1>3
  <2>2. uploads[u].kind = "release" => uploads[u].number \in 1 .. c + 2
    <3>1. uploads[u].kind = "release" => uploads[u].number \in 1 .. Cardinality(ReleasesOf(g)) + 1
      BY <1>1 DEF Underway
    <3> QED
      BY <1>1, <3>1
  <2> HIDE DEF c
  <2> QED
    BY <1>1, <1>7, <1>8, <2>1, <2>2 DEF Underway, UploadAt
<1> QED
  BY <1>5, <1>9, <1>10, <1>11, <1>12, <1>13 DEF CatalogInv

LEMMA CommitGameKeeps ==
  ASSUME CatalogInv, NEW u \in Uploads, CommitGame(u)
  PROVE  CatalogInv'
<1>1. /\ uploads[u].step = "commit" /\ uploads[u].kind = "game" /\ UploadGoes(u, "done")
      /\ UNCHANGED <<covers, bucket>>
  BY DEF CommitGame, UploadAt
<1>2. PICK g \in Games : g = uploads[u].game
  BY <1>1 DEF CatalogInv, Underway, UploadAt
<1>3. CASE Published(g)
  <2>1. UNCHANGED <<games, releases>>
    BY <1>2, <1>3 DEF CommitGame
  <2> QED
    BY <1>1, <2>1, StepKeeps
<1>4. CASE ~Published(g)
  <2> DEFINE row == [latest |-> u, cover |-> 0, public |-> TRUE]
  <2>1. /\ games' = [games EXCEPT ![g] = row]
        /\ releases' = [releases EXCEPT ![u] = [game |-> g, number |-> 1]]
    BY <1>2, <1>4 DEF CommitGame
  <2>2. ReleasesOf(g) = {} /\ covers[g] = << >>
    BY <1>4 DEF CatalogInv, Numbered, Covered
  <2>3. Cardinality(ReleasesOf(g)) + 1 = 1 /\ Len(covers[g]) = 0
    BY <2>2, FS_EmptySet
  <2>4. row \in GameRow /\ row.latest = u /\ row.cover = Len(covers[g])
    BY <2>3 DEF GameRow
  <2> HIDE DEF row
  <2>5. releases' = [releases EXCEPT ![u] = [game |-> g, number |-> Cardinality(ReleasesOf(g)) + 1]]
    BY <2>1, <2>3
  <2> QED
    BY <1>1, <1>2, <2>1, <2>4, <2>5, NewRelease
<1> QED
  BY <1>3, <1>4

\* The number was read before; if it is free still, it is one past the last.
LEMMA CommitReleaseKeeps ==
  ASSUME CatalogInv, NEW u \in Uploads, CommitRelease(u)
  PROVE  CatalogInv'
<1>1. /\ uploads[u].step = "commit" /\ uploads[u].kind = "release" /\ UploadGoes(u, "done")
      /\ UNCHANGED <<covers, bucket>>
  BY DEF CommitRelease, UploadAt
<1>2. PICK g \in Games : g = uploads[u].game
  BY <1>1 DEF CatalogInv, Underway, UploadAt
<1>3. /\ Published(g) /\ games[g].cover = Len(covers[g]) /\ Numbered(g)
      /\ uploads[u].number \in 1 .. Cardinality(ReleasesOf(g)) + 1 /\ Cardinality(ReleasesOf(g)) \in Nat
  BY <1>1, <1>2, ReleasesAreFinite DEF CatalogInv, Underway, Covered
<1>4. CASE ~NumberIsFree(g, uploads[u].number)
  <2>1. UNCHANGED <<games, releases>>
    BY <1>2, <1>4 DEF CommitRelease
  <2> QED
    BY <1>1, <2>1, StepKeeps
<1>5. CASE NumberIsFree(g, uploads[u].number)
  <2> DEFINE row == [games[g] EXCEPT !.latest = u]
  <2>1. /\ games' = [games EXCEPT ![g] = row]
        /\ releases' = [releases EXCEPT ![u] = [game |-> g, number |-> uploads[u].number]]
    BY <1>2, <1>5 DEF CommitRelease
  <2>2. uploads[u].number = Cardinality(ReleasesOf(g)) + 1
    BY <1>3, <1>5 DEF Numbered
  <2>3. games[g] \in GameRow
    BY <1>3, RowFacts DEF CatalogInv
  <2>4. row \in GameRow /\ row.latest = u /\ row.cover = Len(covers[g])
    BY <1>3, <2>3, SMTT(40) DEF GameRow
  <2> HIDE DEF row
  <2>5. releases' = [releases EXCEPT ![u] = [game |-> g, number |-> Cardinality(ReleasesOf(g)) + 1]]
    BY <2>1, <2>2
  <2> QED
    BY <1>1, <1>2, <2>1, <2>4, <2>5, NewRelease
<1> QED
  BY <1>4, <1>5

\* What a new version does: it is the last, has the image that was uploaded, and the others stay.
LEMMA NewVersion ==
  ASSUME CatalogInv, NEW u \in Uploads, NEW g \in Games, g = uploads[u].game, CommitCover(u),
         ~IsCurrent(g, uploads[u].print)
  PROVE  /\ covers' = [covers EXCEPT ![g] = Append(covers[g], uploads[u].print)]
         /\ Len(covers[g]) \in Nat /\ Len(covers'[g]) = Len(covers[g]) + 1
         /\ covers'[g][Len(covers[g]) + 1] = uploads[u].print
         /\ \A v \in 1 .. Len(covers[g]) : covers'[g][v] = covers[g][v]
         /\ \A h \in Games \ {g} : covers'[h] = covers[h]
         /\ covers' \in [Games -> Seq(Prints)]
         /\ games' = [games EXCEPT ![g].cover = Len(covers[g]) + 1]
         /\ uploads' = [uploads EXCEPT ![u].step = "done", ![u].number = Len(covers[g]) + 1]
         /\ uploads[u].print \in Prints /\ Published(g)
<1>1. /\ uploads[u].print \in Prints /\ Published(g) /\ games[g].cover = Len(covers[g])
      /\ covers[g] \in Seq(Prints) /\ covers \in [Games -> Seq(Prints)]
  BY DEF CatalogInv, CommitCover, UploadAt, Underway, Covered, CatalogTyped
<1>2. PICK s \in Seq(Prints) : s = covers[g]
  BY <1>1
<1>3. Len(s) \in Nat /\ DOMAIN s = 1 .. Len(s) /\ Len(s) + 1 \notin DOMAIN s
  OBVIOUS
<1>4. /\ games' = [games EXCEPT ![g].cover = Len(s) + 1]
      /\ covers' = [covers EXCEPT ![g] = Append(s, uploads[u].print)]
      /\ uploads' = [uploads EXCEPT ![u].step = "done", ![u].number = Len(s) + 1]
  BY <1>1, <1>2, <1>3 DEF CommitCover
<1> DEFINE new == Append(s, uploads[u].print)
<1>5. /\ new \in Seq(Prints) /\ Len(new) = Len(s) + 1 /\ new[Len(s) + 1] = uploads[u].print
      /\ \A v \in 1 .. Len(s) : new[v] = s[v]
  BY <1>1, <1>3
<1>6. covers' = [covers EXCEPT ![g] = new]
  BY <1>4
<1> HIDE DEF new
<1>7. covers'[g] = new /\ covers' \in [Games -> Seq(Prints)] /\ \A h \in Games \ {g} : covers'[h] = covers[h]
  BY <1>1, <1>5, <1>6
<1>8. covers' = [covers EXCEPT ![g] = Append(covers[g], uploads[u].print)]
  BY <1>2, <1>4
<1> QED
  BY <1>1, <1>2, <1>3, <1>4, <1>5, <1>7, <1>8

LEMMA CommitCoverKeeps ==
  ASSUME CatalogInv, NEW u \in Uploads, CommitCover(u)
  PROVE  CatalogInv'
<1>1. /\ uploads[u].step = "commit" /\ uploads[u].kind = "cover" /\ UNCHANGED <<releases, bucket>>
      /\ Underway(u)
  BY DEF CommitCover, UploadAt, CatalogInv
<1>2. PICK g \in Games : g = uploads[u].game
  BY <1>1 DEF Underway, UploadAt
<1>3. CASE IsCurrent(g, uploads[u].print)
  <2>1. UploadGoes(u, "look up") /\ UNCHANGED <<games, covers>>
    BY <1>2, <1>3 DEF CommitCover
  <2> QED
    BY <1>1, <2>1, StepKeeps
<1>4. CASE ~IsCurrent(g, uploads[u].print)
  <2> DEFINE c == Len(covers[g]) + 1
             row == [games[g] EXCEPT !.cover = c]
  <2>1. /\ Len(covers[g]) \in Nat /\ Len(covers'[g]) = c
        /\ covers'[g][c] = uploads[u].print
        /\ \A v \in 1 .. Len(covers[g]) : covers'[g][v] = covers[g][v]
        /\ \A h \in Games \ {g} : covers'[h] = covers[h]
        /\ covers' \in [Games -> Seq(Prints)]
        /\ games' = [games EXCEPT ![g] = row]
        /\ uploads' = [uploads EXCEPT ![u].step = "done", ![u].number = c]
        /\ uploads[u].print \in Prints /\ Published(g)
    <3>1. games' = [games EXCEPT ![g].cover = Len(covers[g]) + 1]
      BY <1>2, <1>4, NewVersion
    <3>2. games' = [games EXCEPT ![g] = row]
      BY <3>1
    <3> HIDE DEF row
    <3>3. /\ Len(covers[g]) \in Nat /\ Len(covers'[g]) = Len(covers[g]) + 1
          /\ covers'[g][Len(covers[g]) + 1] = uploads[u].print
          /\ \A v \in 1 .. Len(covers[g]) : covers'[g][v] = covers[g][v]
          /\ \A h \in Games \ {g} : covers'[h] = covers[h]
          /\ covers' \in [Games -> Seq(Prints)]
          /\ uploads[u].print \in Prints /\ Published(g)
      BY <1>2, <1>4, NewVersion
    <3>4. uploads' = [uploads EXCEPT ![u].step = "done", ![u].number = Len(covers[g]) + 1]
      BY <1>2, <1>4, NewVersion
    <3> QED
      BY <3>2, <3>3, <3>4
  <2>2. c \in Nat \ {0} /\ c = Len(covers[g]) + 1
    BY <2>1
  <2> HIDE DEF c
  <2>3. PICK new \in UploadRequest :
          /\ uploads' = [uploads EXCEPT ![u] = new] /\ uploads'[u] = new
          /\ new.step = "done" /\ new.kind = uploads[u].kind /\ new.game = uploads[u].game
          /\ new.number = c /\ new.print = uploads[u].print
    <3>1. c \in Nat
      BY <2>2
    <3> QED
      BY <2>1, <3>1, AnswerFacts
  <2>4. games[g] \in GameRow
    BY <2>1, RowFacts DEF CatalogInv
  <2>5. row \in GameRow /\ row.latest = games[g].latest /\ row.cover = c
    BY <2>2, <2>4 DEF GameRow
  <2> HIDE DEF row
  <2>6. /\ games'[g] = row /\ \A h \in Games \ {g} : games'[h] = games[h]
        /\ \A w \in Uploads \ {u} : uploads'[w] = uploads[w]
        /\ CatalogTyped'
    BY <1>1, <2>1, <2>3, <2>5 DEF CatalogInv, CatalogTyped
  <2>7. \A h \in Games : ReleasesOf(h)' = ReleasesOf(h) /\ (Published(h)' <=> Published(h))
    BY <1>1, <2>1, <2>5, <2>6, PublishAssumption DEF ReleasesOf, Published
  <2>8. ASSUME NEW h \in Games
        PROVE  Numbered(h)'
    <3>1. Numbered(h) /\ releases' = releases /\ (Published(h) => games'[h].latest = games[h].latest)
          /\ (\A n : NumberIsFree(h, n)' <=> NumberIsFree(h, n))
      BY <1>1, <2>5, <2>6, <2>7 DEF CatalogInv, NumberIsFree
    <3> QED
      BY <2>7, <3>1 DEF Numbered
  <2>9. Covered(g)'
    <3>1. CoverKey(g, uploads[u].print) \in bucket
      BY <1>1, <1>2 DEF Underway, UploadAt, KeyOf
    <3>2. \A v \in 1 .. Len(covers'[g]) : v = c \/ v \in 1 .. Len(covers[g])
      BY <2>1, <2>2
    <3>3. \A v \in 1 .. Len(covers'[g]) : CoverKey(g, covers'[g][v]) \in bucket
      BY <2>1, <3>1, <3>2 DEF CatalogInv, Covered
    <3> QED
      BY <1>1, <2>1, <2>5, <2>6, <2>7, <3>3 DEF Covered, CoverKey
  <2>10. ASSUME NEW h \in Games \ {g}
         PROVE  Covered(h)'
    BY <1>1, <2>1, <2>6, <2>7 DEF CatalogInv, Covered, CoverKey
  <2>11. ASSUME NEW w \in Uploads \ {u}
         PROVE  Underway(w)'
    <3>1. Underway(w) /\ uploads'[w] = uploads[w] /\ releases'[w] = releases[w] /\ KeyOf(w)' = KeyOf(w)
          /\ uploads[w] \in UploadRequest
      BY <1>1, <2>6 DEF CatalogInv, CatalogTyped, KeyOf, CoverKey
    <3>2. CASE uploads[w].game \in Games
      <4>1. PICK h \in Games : h = uploads[w].game
        BY <3>2
      <4>2. ReleasesOf(h)' = ReleasesOf(h) /\ (Published(h)' <=> Published(h))
        BY <2>7
      <4>3. ASSUME uploads[w].kind = "cover", uploads[w].number > 0
            PROVE  /\ uploads[w].number <= Len(covers'[h])
                   /\ covers'[h][uploads[w].number] = uploads[w].print
        <5>1. uploads[w].number <= Len(covers[h]) /\ covers[h][uploads[w].number] = uploads[w].print
          BY <3>1, <4>1, <4>3 DEF Underway
        <5>2. uploads[w].number \in Nat
          BY <3>1 DEF UploadRequest
        <5>3. CASE h = g
          <6>1. uploads[w].number \in 1 .. Len(covers[g]) /\ uploads[w].number <= c
            BY <2>1, <2>2, <4>3, <5>1, <5>2, <5>3
          <6>2. covers'[g][uploads[w].number] = covers[g][uploads[w].number]
            BY <2>1, <6>1
          <6> QED
            BY <2>1, <5>1, <5>3, <6>1, <6>2
        <5>4. CASE h # g
          BY <2>1, <5>1, <5>4
        <5> QED
          BY <5>3, <5>4
      <4> QED
        BY <1>1, <3>1, <4>1, <4>2, <4>3 DEF Underway, UploadAt
    <3>3. CASE uploads[w].game \notin Games
      <4>1. uploads[w].step = "new" /\ uploads[w].kind \notin {"release", "cover"}
        BY <3>1, <3>3 DEF Underway, UploadAt
      <4> QED
        BY <1>1, <3>1, <4>1 DEF Underway, UploadAt
    <3> QED
      BY <3>2, <3>3
  <2>12. Underway(u)'
    <3>1. /\ uploads'[u].step = "done" /\ uploads'[u].kind = "cover" /\ uploads'[u].game = g
          /\ uploads'[u].number = c /\ uploads'[u].print = uploads[u].print /\ Published(g)'
          /\ releases[u] = NoGame /\ releases'[u] = releases[u]
      BY <1>1, <1>2, <2>1, <2>3, <2>7 DEF Underway, UploadAt
    <3>2. c <= Len(covers'[g])
      BY <2>1, <2>2
    <3> QED
      BY <2>1, <3>1, <3>2 DEF Underway, UploadAt
  <2> QED
    BY <2>6, <2>8, <2>9, <2>10, <2>11, <2>12 DEF CatalogInv
<1> QED
  BY <1>3, <1>4

LEMMA SetVisibilityKeeps ==
  ASSUME CatalogInv, NEW g \in Games, SetVisibility(g)
  PROVE  CatalogInv'
<1> DEFINE row == [games[g] EXCEPT !.public = ~@]
<1>1. games' = [games EXCEPT ![g] = row] /\ UNCHANGED <<releases, covers, bucket, uploads>> /\ Published(g)
  BY DEF SetVisibility
<1>2. games[g] \in GameRow
  BY <1>1, RowFacts DEF CatalogInv
<1>3. row \in GameRow /\ row.latest = games[g].latest /\ row.cover = games[g].cover
  BY <1>2 DEF GameRow
<1> HIDE DEF row
<1>4. CatalogTyped' /\ games'[g] = row /\ \A h \in Games \ {g} : games'[h] = games[h]
  BY <1>1, <1>3 DEF CatalogInv, CatalogTyped
<1>5. /\ \A h \in Games : ReleasesOf(h)' = ReleasesOf(h) /\ (Published(h)' <=> Published(h))
      /\ \A h \in Games : Published(h) => games'[h].latest = games[h].latest /\ games'[h].cover = games[h].cover
      /\ \A h \in Games, n \in Int : NumberIsFree(h, n)' <=> NumberIsFree(h, n)
  BY <1>1, <1>3, <1>4, PublishAssumption DEF ReleasesOf, Published, NumberIsFree
<1>6. ASSUME NEW h \in Games
      PROVE  Numbered(h)' /\ Covered(h)'
  <2>1. Numbered(h)'
    BY <1>1, <1>5 DEF CatalogInv, Numbered, NumberIsFree
  <2>2. Covered(h)'
    BY <1>1, <1>5 DEF CatalogInv, Covered, CoverKey
  <2> QED
    BY <2>1, <2>2
<1>7. ASSUME NEW w \in Uploads
      PROVE  Underway(w)'
  <2>1. Underway(w) /\ KeyOf(w)' = KeyOf(w)
    BY <1>1 DEF CatalogInv, KeyOf, CoverKey
  <2>2. CASE uploads[w].game \in Games
    BY <1>1, <1>5, <2>1, <2>2 DEF Underway, UploadAt
  <2>3. CASE uploads[w].game \notin Games
    BY <1>1, <2>1, <2>3 DEF Underway, UploadAt
  <2> QED
    BY <2>2, <2>3
<1> QED
  BY <1>4, <1>6, <1>7 DEF CatalogInv

LEMMA CatalogStep == CatalogInv /\ [PublishNext]_publishVars => CatalogInv'
<1> SUFFICES ASSUME CatalogInv, [PublishNext]_publishVars
             PROVE  CatalogInv'
  OBVIOUS
<1>1. ASSUME NEW u \in Uploads, NEW g \in Games,
             CheckGame(u, g) \/ CheckRelease(u, g) \/ \E p \in Prints : CheckCover(u, g, p)
      PROVE  CatalogInv'
  BY <1>1, CheckKeeps
<1>3. ASSUME NEW u \in Uploads,
             PutObject(u) \/ CommitGame(u) \/ CommitRelease(u) \/ CommitCover(u) \/ LookUpVersion(u) \/ AbandonUpload(u)
      PROVE  CatalogInv'
  BY <1>3, PutKeeps, CommitGameKeeps, CommitReleaseKeeps, CommitCoverKeeps, LookUpKeeps
<1>4. ASSUME NEW g \in Games, SetVisibility(g)
      PROVE  CatalogInv'
  BY <1>4, SetVisibilityKeeps
<1>5. CASE UNCHANGED publishVars
  <2>1. UNCHANGED games /\ UNCHANGED releases /\ UNCHANGED covers /\ UNCHANGED bucket /\ UNCHANGED uploads
    BY <1>5 DEF publishVars
  <2>2. ASSUME NEW g \in Games
        PROVE  Numbered(g)' /\ Covered(g)'
    <3>1. Numbered(g)'
      <4>1. Numbered(g) /\ ReleasesOf(g)' = ReleasesOf(g) /\ (Published(g)' <=> Published(g))
        BY <2>1 DEF CatalogInv, ReleasesOf, Published
      <4>2. \A n : NumberIsFree(g, n)' <=> NumberIsFree(g, n)
        BY <2>1, <4>1 DEF NumberIsFree
      <4> QED
        BY <2>1, <4>1, <4>2 DEF Numbered
    <3>2. Covered(g)'
      BY <2>1 DEF CatalogInv, Covered, Published, CoverKey
    <3> QED
      BY <3>1, <3>2
  <2>3. \A u \in Uploads : Underway(u)'
    BY <2>1 DEF CatalogInv, Underway, ReleasesOf, Published, UploadAt, KeyOf, CoverKey
  <2> QED
    BY <2>1, <2>2, <2>3 DEF CatalogInv, CatalogTyped
<1> QED
  BY <1>1, <1>3, <1>4, <1>5 DEF PublishNext

LEMMA CatalogIsRight == CatalogInv => CatalogIsWhole
<1> SUFFICES ASSUME CatalogInv, NEW g \in Games
             PROVE  /\ ReleasesOf(g) \subseteq bucket
                    /\ \A v \in DOMAIN covers[g] : CoverKey(g, covers[g][v]) \in bucket
                    /\ Published(g) =>
                         /\ games[g].latest \in ReleasesOf(g) /\ games[g].cover = Len(covers[g])
                         /\ releases[games[g].latest].number = Cardinality(ReleasesOf(g))
                    /\ \A u, w \in ReleasesOf(g) : u # w => releases[u].number # releases[w].number
                    /\ \A u \in Uploads :
                         UploadAt(u, "done") /\ uploads[u].kind = "cover" /\ uploads[u].game = g /\ uploads[u].number > 0 =>
                           covers[g][uploads[u].number] = uploads[u].print
  BY DEF CatalogIsWhole
<1>1. Numbered(g) /\ Covered(g) /\ \A u \in Uploads : Underway(u)
  BY DEF CatalogInv
<1>2. ReleasesOf(g) \subseteq bucket
  BY <1>1 DEF Underway, ReleasesOf
<1>3. \A v \in DOMAIN covers[g] : CoverKey(g, covers[g][v]) \in bucket
  <2>1. PICK s \in Seq(Prints) : s = covers[g]
    BY DEF CatalogInv, CatalogTyped
  <2>2. DOMAIN s = 1 .. Len(s)
    OBVIOUS
  <2> QED
    BY <1>1, <2>1, <2>2 DEF Covered
<1> QED
  BY <1>1, <1>2, <1>3 DEF Numbered, Covered, Underway

LEMMA VersionsStay ==
  ASSUME CatalogInv, [PublishNext]_publishVars, NEW g \in Games
  PROVE  /\ \A v \in DOMAIN covers[g] : covers'[g][v] = covers[g][v]
         /\ \A u \in Uploads : CommitCover(u) /\ uploads[u].game = g =>
              covers'[g][games'[g].cover] = uploads[u].print
<1>1. ASSUME NEW u \in Uploads, CommitCover(u)
      PROVE  \A v \in DOMAIN covers[g] : covers'[g][v] = covers[g][v]
  <2>1. PICK h \in Games : h = uploads[u].game
    BY <1>1 DEF CommitCover, CatalogInv, Underway, UploadAt
  <2>2. CASE IsCurrent(h, uploads[u].print)
    BY <1>1, <2>1, <2>2 DEF CommitCover
  <2>3. CASE ~IsCurrent(h, uploads[u].print)
    <3>1. /\ \A v \in 1 .. Len(covers[h]) : covers'[h][v] = covers[h][v]
          /\ \A x \in Games \ {h} : covers'[x] = covers[x]
      BY <1>1, <2>1, <2>3, NewVersion
    <3>2. PICK s \in Seq(Prints) : s = covers[g]
      BY DEF CatalogInv, CatalogTyped
    <3>3. DOMAIN s = 1 .. Len(s)
      OBVIOUS
    <3> QED
      BY <3>1, <3>2, <3>3
  <2> QED
    BY <2>2, <2>3
<1>2. ASSUME NEW u \in Uploads, CommitCover(u), uploads[u].game = g
      PROVE  covers'[g][games'[g].cover] = uploads[u].print
  <2>1. CASE IsCurrent(g, uploads[u].print)
    BY <1>2, <2>1 DEF CommitCover, IsCurrent
  <2>2. CASE ~IsCurrent(g, uploads[u].print)
    <3>1. /\ covers'[g][Len(covers[g]) + 1] = uploads[u].print
          /\ games' = [games EXCEPT ![g].cover = Len(covers[g]) + 1] /\ Published(g)
      BY <1>2, <2>2, NewVersion
    <3>2. games[g] \in GameRow /\ games \in [Games -> GameRow \cup {NoGame}]
      BY <3>1, RowFacts DEF CatalogInv, CatalogTyped
    <3>3. games'[g].cover = Len(covers[g]) + 1
      BY <3>1, <3>2 DEF GameRow
    <3> QED
      BY <3>1, <3>3
  <2> QED
    BY <2>1, <2>2
<1>3. ASSUME ~\E u \in Uploads : CommitCover(u)
      PROVE  UNCHANGED covers
  BY <1>3 DEF PublishNext, publishVars, CheckGame, CheckRelease, CheckCover, PutObject, CommitGame, CommitRelease,
              LookUpVersion, AbandonUpload, SetVisibility
<1> QED
  BY <1>1, <1>2, <1>3

\* Whatever is listed can be read and stays what it was, for any set of games, uploads
\* and images: an object is put before the row that points to it, a release's number
\* counts only while it is free, and a version of a cover is never written twice.
THEOREM CatalogAlwaysSound == PublishSpec => CatalogIsSound
<1>1. CatalogInv /\ [PublishNext]_publishVars
        => [\A g \in Games :
              /\ \A v \in DOMAIN covers[g] : covers'[g][v] = covers[g][v]
              /\ \A u \in Uploads : CommitCover(u) /\ uploads[u].game = g =>
                   covers'[g][games'[g].cover] = uploads[u].print]_publishVars
  BY VersionsStay
<1> QED
  BY <1>1, InitCatalog, CatalogStep, CatalogIsRight, PTL DEF PublishSpec, CatalogIsSound, CoverVersionsAreFixed

-----------------------------------------------------------------------------
Drafts == [id : Nat, errors : Nat]
Acquiring == {"cache", "paint", "store"}
JobSteps == {"new", "generate", "refine", "model", "judge", "drafted", "capped", "failed", "refused", "unavailable", "share", "pictured"} \cup Acquiring
JobRecords ==
  [step : JobSteps, attempt : Nat, round : Nat, made : Nat, best : Drafts, current : Drafts, shown : Drafts,
   reached : BOOLEAN, isolate : Isolates \cup {NoPicture}, got : Jobs \cup {NoPicture}]

StudioTypes ==
  /\ usage \in Nat /\ jobs \in [Jobs -> JobRecords] /\ billed \in [Jobs -> Nat]
  /\ sharing \in [Isolates -> Jobs \cup {NoPicture}] /\ picture \in Jobs \cup {NoPicture}

\* The calls a job may have been billed, and may at most be.
Calls(job) == IF job.round = 0 THEN job.attempt ELSE Attempts + (job.round - 1) * Tries + job.attempt
AllCalls == Attempts + Rounds * Tries
Spent(job) ==
  CASE job.step \in {"new", "cache", "paint", "share"} -> 0
    [] job.step \in {"generate", "refine", "model"} -> Calls(job) - 1
    [] job.step = "judge" -> Calls(job)
    [] OTHER -> AllCalls

\* A job that still calls the model is within its attempts; before its first draft it
\* has none, afterwards it has a best one.
Going(job) ==
  /\ job.attempt >= 1 /\ job.best.errors <= job.current.errors
  /\ job.round = 0 => job.attempt <= Attempts /\ job.best = NoDraft /\ job.current = NoDraft
  /\ job.round > 0 => job.attempt <= Tries /\ job.round <= Rounds /\ job.best.id > 0

CallSteps == {"generate", "refine", "model", "judge"}
JobSound(job) ==
  /\ job.best.errors <= job.current.errors
  /\ job.step \in CallSteps => Going(job) /\ (job.round > 0 /\ Tries = 1 => job.shown = job.current)
  /\ job.step = "generate" => job.round = 0
  /\ job.step = "refine" => job.round > 0
  /\ job.step \in {"new", "share"} \cup Acquiring => job.best = NoDraft /\ job.current = NoDraft /\ ~job.reached /\ job.round = 0
  /\ job.step = "drafted" => job.best.errors = 0 /\ job.best.id > 0
  /\ job.reached => job.step \in {"generate", "refine", "capped"}

DraftInv ==
  /\ StudioTypes
  /\ \A j \in Jobs : JobSound(jobs[j]) /\ billed[j] <= Spent(jobs[j])

UnderWay == {j \in Jobs : jobs[j].step \in {"model", "paint"}}
UsageInv ==
  /\ IF Cap = 0 THEN usage = 0 /\ UnderWay = {}
     ELSE usage + Cardinality(UnderWay) <= Cap - 1 + Cardinality(Jobs)
  /\ \A j \in Jobs : jobs[j].reached => usage >= Cap

\* The jobs that have an answer they were billed and have not looked at.
Looking == {j \in Jobs : jobs[j].step \in {"judge", "store"}}
AnswerInv ==
  /\ used \in [Jobs -> Nat] /\ usage = SumFunction(billed)
  /\ \A j \in Jobs : billed[j] = used[j] + IF j \in Looking THEN 1 ELSE 0

SharingInv ==
  /\ \A i \in Isolates : sharing[i] # NoPicture => jobs[sharing[i]].isolate = i /\ jobs[sharing[i]].step \in Acquiring
  /\ \A j \in Jobs : jobs[j].step \in Acquiring => jobs[j].isolate \in Isolates /\ sharing[jobs[j].isolate] = j
  /\ \A j \in Jobs : jobs[j].step = "share" => jobs[j].isolate \in Isolates /\ sharing[jobs[j].isolate] # NoPicture

\* A picture that was stored is known to the job that made it.  Whoever acquires it in
\* an isolate and has looked for it in vain is in an isolate without such a job.
PictureInv ==
  /\ \A j \in Jobs : jobs[j].step = "pictured" => picture # NoPicture /\ \E m \in Jobs : jobs[j].got = m /\ Made(m)
  /\ picture # NoPicture => Made(picture)
  /\ \A j \in Jobs : Made(j) => billed[j] >= 1
  /\ \A j, k \in Jobs : Made(j) /\ jobs[k].step \in {"paint", "store"} => jobs[j].isolate # jobs[k].isolate
  /\ \A j, k \in Jobs : Made(j) /\ Made(k) /\ jobs[j].isolate = jobs[k].isolate => j = k

StudioInv == DraftInv /\ UsageInv /\ AnswerInv /\ SharingInv /\ PictureInv
-----------------------------------------------------------------------------
LEMMA Multiples ==
  /\ \A a, b \in Nat : a <= b => a * Tries <= b * Tries
  /\ \A a \in Nat : a * Tries \in Nat /\ (a + 1) * Tries = a * Tries + Tries
<1>1. Tries \in Nat
  BY StudioAssumption
<1>2. ASSUME NEW a \in Nat, NEW b \in Nat, a <= b
      PROVE  a * Tries <= b * Tries
  <2>1. b - a \in Nat /\ b = a + (b - a)
    BY <1>2
  <2>2. (b - a) * Tries \in Nat
    BY <1>1, <2>1
  <2> QED BY <1>1, <2>1, <2>2
<1> QED BY <1>1, <1>2

LEMMA CallsBounded ==
  ASSUME NEW job \in JobRecords, Going(job)
  PROVE  /\ Calls(job) \in Nat /\ 1 <= Calls(job) /\ Calls(job) <= AllCalls
         /\ job.round > 0 => Attempts + job.round * Tries <= AllCalls /\ Calls(job) <= Attempts + job.round * Tries
<1>1. Attempts \in Nat /\ Rounds \in Nat /\ Tries \in Nat /\ job.attempt \in Nat /\ job.round \in Nat
  BY StudioAssumption DEF JobRecords
<1>2. Rounds * Tries \in Nat
  BY <1>1
<1>3. CASE job.round = 0
  BY <1>1, <1>2, <1>3 DEF Calls, AllCalls, Going
<1>4. CASE job.round > 0
  <2>1. job.round - 1 \in Nat /\ (job.round - 1) * Tries \in Nat /\ job.round * Tries = (job.round - 1) * Tries + Tries
    <3>1. PICK k \in Nat : job.round = k + 1
      BY <1>1, <1>4
    <3>2. job.round - 1 = k
      BY <3>1
    <3>3. k * Tries \in Nat /\ (k + 1) * Tries = k * Tries + Tries
      BY Multiples
    <3> QED BY <3>1, <3>2, <3>3
  <2>2. job.round * Tries <= Rounds * Tries
    BY <1>1, <1>4, Multiples DEF Going
  <2> QED BY <1>1, <1>2, <1>4, <2>1, <2>2 DEF Calls, AllCalls, Going
<1> QED BY <1>1, <1>3, <1>4

\* What becomes of a job by its calls.
Follows(next, job) ==
  /\ next \in JobRecords /\ JobSound(next) /\ next.reached = job.reached
  /\ next.step \in {"generate", "refine", "drafted", "capped", "failed"}
  /\ Calls(job) <= Spent(next)

LEMMA TryEnds ==
  ASSUME NEW job \in JobRecords, Going(job), job.round > 0
  PROVE  Follows(NextTry(job), job) /\ NextTry(job).best = job.best /\ NextTry(job).current = job.current
<1> DEFINE next == NextTry(job)
<1>1. Attempts \in Nat /\ Rounds \in Nat /\ Tries \in Nat /\ job.attempt \in Nat /\ job.round \in Nat
  BY StudioAssumption DEF JobRecords
<1>2. Calls(job) \in Nat /\ Calls(job) <= AllCalls /\ Calls(job) <= Attempts + job.round * Tries
  BY CallsBounded
<1>3. CASE job.attempt < Tries
  <2>1. next = [job EXCEPT !.step = "refine", !.attempt = @ + 1]
    BY <1>3 DEF NextTry
  <2>2. next \in JobRecords /\ Going(next)
    <3>1. next.attempt = job.attempt + 1
      BY <2>1 DEF JobRecords
    <3>2. next.best = job.best /\ next.current = job.current /\ next.round = job.round
      BY <2>1 DEF JobRecords
    <3>3. next \in JobRecords
      <4>1. "refine" \in JobSteps /\ job.attempt + 1 \in Nat
        BY <1>1 DEF JobSteps
      <4> QED BY <2>1, <4>1 DEF JobRecords
    <3> QED BY <3>1, <3>2, <3>3, <1>1, <1>3 DEF Going
  <2>3. Spent(next) = Calls(job)
    <3>1. Spent(next) = Calls(next) - 1
      BY <2>1 DEF Spent, JobRecords
    <3>2. Calls(next) = Calls(job) + 1
      <4>1. (job.round - 1) * Tries \in Int
        BY <1>1
      <4> QED BY <2>1, <1>1, <4>1 DEF Calls, JobRecords
    <3> QED BY <3>1, <3>2, <1>2
  <2>4. JobSound(next)
    BY <2>1, <2>2, <1>1, <1>3 DEF JobSound, JobRecords, Going, CallSteps, Acquiring
  <2> QED BY <2>1, <2>2, <2>3, <2>4, <1>2 DEF Follows, JobRecords
<1>4. CASE job.attempt >= Tries /\ job.round < Rounds
  <2>1. next = [job EXCEPT !.step = "refine", !.attempt = 1, !.round = @ + 1, !.shown = job.current]
    BY <1>4, <1>1 DEF NextTry
  <2>2. /\ next.step = "refine" /\ next.attempt = 1 /\ next.round = job.round + 1
        /\ next.best = job.best /\ next.current = job.current /\ next.shown = next.current /\ next.reached = job.reached
    BY <2>1 DEF JobRecords
  <2>5. next \in JobRecords
    <3>1. "refine" \in JobSteps /\ job.round + 1 \in Nat /\ 1 \in Nat /\ job.current \in Drafts
      BY <1>1 DEF JobSteps, JobRecords
    <3> QED BY <2>1, <3>1 DEF JobRecords
  <2>6. Going(next)
    BY <2>2, <1>1, <1>4, StudioAssumption DEF Going
  <2>3. Spent(next) = Attempts + job.round * Tries
    <3>1. Spent(next) = Calls(next) - 1
      BY <2>1 DEF Spent, JobRecords
    <3>2. Calls(next) = Attempts + job.round * Tries + 1
      <4>1. next.round = job.round + 1 /\ next.attempt = 1
        BY <2>1 DEF JobRecords
      <4>2. (job.round + 1) - 1 = job.round
        BY <1>1
      <4> QED BY <4>1, <4>2, <1>1 DEF Calls
    <3>3. job.round * Tries \in Nat
      BY <1>1
    <3> QED BY <3>1, <3>2, <3>3, <1>1
  <2>4. JobSound(next)
    BY <2>2, <2>6, <1>1 DEF JobSound, CallSteps, Acquiring, Going
  <2> QED BY <2>2, <2>3, <2>4, <2>5, <1>2 DEF Follows
<1>5. CASE job.attempt >= Tries /\ ~(job.round < Rounds)
  <2>1. next = Conclude(job)
    BY <1>5, <1>1 DEF NextTry
  <2>2. /\ next.step \in {"drafted", "capped", "failed"} /\ next \in JobRecords
        /\ next = [job EXCEPT !.step = next.step]
        /\ next.step = "drafted" => ~job.reached /\ job.best.errors = 0
        /\ job.reached => next.step = "capped"
    BY <2>1 DEF Conclude, JobRecords, JobSteps
  <2>3. Spent(next) = AllCalls
    BY <2>2 DEF Spent
  <2>4. JobSound(next)
    BY <2>2 DEF JobSound, JobRecords, CallSteps, Acquiring, Going
  <2> QED BY <2>2, <2>3, <2>4, <1>2 DEF Follows, JobRecords
<1> QED BY <1>1, <1>3, <1>4, <1>5

LEMMA NothingEnds ==
  ASSUME NEW job \in JobRecords, Going(job)
  PROVE  Follows(Nothing(job), job) /\ Nothing(job).best = job.best /\ Nothing(job).current = job.current
<1> DEFINE next == AfterAttempt(job)
<1>1. Attempts \in Nat /\ Tries \in Nat /\ job.attempt \in Nat /\ job.round \in Nat
  BY StudioAssumption DEF JobRecords
<1>2. CASE job.round > 0
  BY <1>2, <1>1, TryEnds DEF Nothing
<1>3. CASE job.round = 0
  <2>0. Nothing(job) = next /\ Calls(job) = job.attempt /\ job.attempt <= AllCalls
    BY <1>3, CallsBounded DEF Nothing, Calls
  <2>1. CASE job.attempt < Attempts
    <3>1. next = [job EXCEPT !.step = "generate", !.attempt = @ + 1]
      BY <2>1 DEF AfterAttempt
    <3>2. next \in JobRecords /\ Going(next) /\ JobSound(next)
      <4>1. /\ next.step = "generate" /\ next.attempt = job.attempt + 1 /\ next.round = 0
            /\ next.best = job.best /\ next.current = job.current
        BY <3>1, <1>3 DEF JobRecords
      <4>2. next \in JobRecords
        <5>1. "generate" \in JobSteps /\ job.attempt + 1 \in Nat
          BY <1>1 DEF JobSteps
        <5> QED BY <3>1, <5>1 DEF JobRecords
      <4>3. Going(next)
        BY <4>1, <1>1, <2>1, <1>3 DEF Going
      <4> QED BY <4>1, <4>2, <4>3 DEF JobSound, CallSteps, Acquiring, Going
    <3>3. Spent(next) = job.attempt
      BY <3>1, <1>1, <1>3 DEF Spent, Calls, JobRecords
    <3> QED BY <2>0, <3>1, <3>2, <3>3, <1>1 DEF Follows, JobRecords
  <2>2. CASE ~(job.attempt < Attempts)
    <3>1. /\ next.step \in {"capped", "failed"} /\ next \in JobRecords
          /\ next = [job EXCEPT !.step = next.step]
          /\ job.reached => next.step = "capped"
      BY <2>2 DEF AfterAttempt, JobRecords, JobSteps
    <3>2. Spent(next) = AllCalls
      BY <3>1 DEF Spent
    <3>3. JobSound(next)
      BY <3>1 DEF JobSound, JobRecords, CallSteps, Acquiring, Going
    <3> QED BY <2>0, <3>1, <3>2, <3>3 DEF Follows, JobRecords
  <2> QED BY <2>1, <2>2
<1> QED BY <1>1, <1>2, <1>3

LEMMA CheckEnds ==
  ASSUME NEW job \in JobRecords, Going(job), ~job.reached, NEW d \in Drafts, d.id > 0
  PROVE  /\ Follows(AfterCheck(job, d), job)
         /\ AfterCheck(job, d).best.errors <= job.best.errors \/ job.best = NoDraft
<1>1. /\ Attempts \in Nat /\ Tries \in Nat \ {0} /\ Rounds \in Nat \ {0} /\ job.attempt \in Nat /\ job.round \in Nat
      /\ d.errors \in Nat /\ job.best \in Drafts /\ job.best.errors \in Nat /\ Calls(job) \in Nat /\ Calls(job) <= AllCalls
  BY StudioAssumption, CallsBounded DEF JobRecords, Drafts
<1>2. CASE job.round = 0 /\ d.errors = 0
  <2> DEFINE next == [job EXCEPT !.best = d, !.current = d, !.step = "drafted"]
  <2>1. AfterCheck(job, d) = next
    BY <1>2 DEF AfterCheck
  <2>2. "drafted" \in JobSteps
    BY DEF JobSteps
  <2>3. next \in JobRecords
    BY <2>2 DEF JobRecords
  <2>4. next.best = d /\ next.current = d /\ next.step = "drafted" /\ next.reached = job.reached
    BY DEF JobRecords
  <2>5. JobSound(next)
    BY <2>4, <1>1, <1>2 DEF JobSound, CallSteps, Acquiring
  <2>6. Spent(next) = AllCalls
    BY <2>4 DEF Spent
  <2> HIDE DEF next
  <2> QED BY <2>1, <2>3, <2>4, <2>5, <2>6, <1>1, <1>2 DEF Follows, Going
<1>3. CASE job.round = 0 /\ d.errors # 0
  <2> DEFINE next == [job EXCEPT !.step = "refine", !.best = d, !.current = d, !.shown = d, !.round = 1, !.attempt = 1]
  <2>1. AfterCheck(job, d) = next
    BY <1>3 DEF AfterCheck
  <2>2. "refine" \in JobSteps
    BY DEF JobSteps
  <2>3. next \in JobRecords
    BY <2>2 DEF JobRecords
  <2>4. /\ next.best = d /\ next.current = d /\ next.shown = d /\ next.step = "refine" /\ next.reached = job.reached
        /\ next.round = 1 /\ next.attempt = 1
    BY DEF JobRecords
  <2>5. Going(next)
    BY <2>4, <1>1 DEF Going
  <2>6. JobSound(next)
    BY <2>4, <2>5, <1>1 DEF JobSound, CallSteps, Acquiring
  <2>7. Spent(next) = Attempts
    BY <2>4, <1>1 DEF Spent, Calls
  <2>8. Calls(job) <= Attempts
    BY <1>3 DEF Calls, Going
  <2> HIDE DEF next
  <2> QED BY <2>1, <2>3, <2>4, <2>6, <2>7, <2>8, <1>1, <1>3 DEF Follows, Going
<1>4. CASE job.round > 0
  <2> DEFINE better == d.errors < job.best.errors
             n == [job EXCEPT !.current = d, !.best = IF better THEN d ELSE @]
             m == IF better THEN [n EXCEPT !.attempt = Tries] ELSE n
  <2>1. AfterCheck(job, d) = IF d.errors = 0 THEN [n EXCEPT !.step = IF job.reached THEN "capped" ELSE "drafted"] ELSE NextTry(m)
    BY <1>4, <1>1 DEF AfterCheck
  <2>2. /\ n \in JobRecords /\ m \in JobRecords
        /\ n.current = d /\ n.round = job.round /\ n.attempt = job.attempt /\ n.reached = job.reached /\ n.best = IF better THEN d ELSE job.best
        /\ m.current = d /\ m.round = job.round /\ m.reached = job.reached /\ m.best = n.best
        /\ m.attempt = IF better THEN Tries ELSE job.attempt
    BY <1>1 DEF JobRecords
  <2>3. /\ n.best.errors <= job.best.errors /\ n.best.errors <= d.errors /\ n.best.id > 0
        /\ d.errors = 0 => n.best.errors = 0
    BY <2>2, <1>1, <1>4 DEF Going
  <2>4. Going(m)
    BY <2>2, <2>3, <1>1, <1>4 DEF Going
  <2>5. Calls(job) <= Calls(m)
    <3>1. (job.round - 1) * Tries \in Int
      BY <1>1
    <3> QED BY <3>1, <2>2, <1>1, <1>4 DEF Calls, Going
  <2>6. CASE d.errors # 0
    <3> HIDE DEF n, m, better
    <3>1. Follows(NextTry(m), m) /\ NextTry(m).best = m.best
      BY <2>2, <2>4, <1>4, TryEnds
    <3>2. Calls(m) \in Nat /\ Spent(NextTry(m)) \in Nat
      <4>1. Calls(m) \in Nat
        BY <2>2, <2>4, CallsBounded
      <4>2. PICK nx \in JobRecords : nx = NextTry(m) /\ JobSound(nx) /\ nx.step \in {"generate", "refine", "drafted", "capped", "failed"}
        BY <3>1 DEF Follows
      <4>3. AllCalls \in Nat
        BY StudioAssumption DEF AllCalls
      <4>4. nx.step \in CallSteps => Calls(nx) \in Nat /\ 1 <= Calls(nx)
        BY <4>2, CallsBounded DEF JobSound
      <4> QED BY <4>1, <4>2, <4>3, <4>4 DEF Spent, CallSteps
    <3> QED BY <2>1, <2>2, <2>3, <2>5, <2>6, <3>1, <3>2, <1>1 DEF Follows
  <2>7. CASE d.errors = 0
    <3> DEFINE next == [n EXCEPT !.step = "drafted"]
    <3> HIDE DEF n, m, better
    <3>1. AfterCheck(job, d) = next
      BY <2>1, <2>7
    <3>2. "drafted" \in JobSteps
      BY DEF JobSteps
    <3>3. next \in JobRecords
      BY <2>2, <3>2 DEF JobRecords
    <3>4. next.best = n.best /\ next.current = d /\ next.step = "drafted" /\ next.reached = job.reached
      BY <2>2 DEF JobRecords
    <3>5. JobSound(next)
      BY <3>4, <2>3, <2>7, <1>1 DEF JobSound, CallSteps, Acquiring
    <3>6. Spent(next) = AllCalls
      BY <3>4 DEF Spent
    <3> HIDE DEF next
    <3> QED BY <3>1, <3>3, <3>4, <3>5, <3>6, <2>3, <1>1 DEF Follows
  <2> QED BY <2>6, <2>7
<1> QED BY <1>1, <1>2, <1>3, <1>4

LEMMA SpentBounded ==
  ASSUME NEW job \in JobRecords, JobSound(job)
  PROVE  Spent(job) \in Nat /\ Spent(job) <= AllCalls
<1>1. AllCalls \in Nat
  BY StudioAssumption DEF AllCalls
<1>2. job.step \in CallSteps => Calls(job) \in Nat /\ 1 <= Calls(job) /\ Calls(job) <= AllCalls
  BY CallsBounded DEF JobSound
<1> QED BY <1>1, <1>2 DEF Spent, CallSteps

-----------------------------------------------------------------------------
LEMMA InitDrafts == StudioInit => DraftInv
<1> SUFFICES ASSUME StudioInit
             PROVE  DraftInv
  OBVIOUS
<1>1. NoDraft \in Drafts /\ "new" \in JobSteps
  BY DEF NoDraft, Drafts, JobSteps
<1>2. NoJob \in JobRecords /\ NoJob.step = "new" /\ NoJob.best = NoDraft /\ NoJob.current = NoDraft /\ ~NoJob.reached /\ NoJob.round = 0
  BY <1>1 DEF NoJob, JobRecords
<1>3. JobSound(NoJob) /\ Spent(NoJob) = 0
  BY <1>2 DEF JobSound, NoDraft, CallSteps, Acquiring, Spent
<1> QED BY <1>2, <1>3 DEF StudioInit, DraftInv, StudioTypes

BestKept == \A k \in Jobs : jobs[k].best = NoDraft \/ jobs'[k].best.errors <= jobs[k].best.errors

LEMMA OneJobMoves ==
  ASSUME DraftInv, NEW j \in Jobs, NEW next \in JobRecords, JobSound(next),
         jobs' = [jobs EXCEPT ![j] = next],
         jobs[j].best = NoDraft \/ next.best.errors <= jobs[j].best.errors,
         billed' \in [Jobs -> Nat], \A k \in Jobs \ {j} : billed'[k] = billed[k],
         billed'[j] <= Spent(next),
         usage' \in Nat, sharing' \in [Isolates -> Jobs \cup {NoPicture}], picture' \in Jobs \cup {NoPicture}
  PROVE  DraftInv' /\ BestKept
<1>1. \A k \in Jobs : jobs'[k] = IF k = j THEN next ELSE jobs[k]
  BY DEF DraftInv, StudioTypes
<1>2. jobs' \in [Jobs -> JobRecords]
  BY DEF DraftInv, StudioTypes
<1>3. \A k \in Jobs : jobs[k].best.errors <= jobs[k].best.errors
  BY DEF DraftInv, StudioTypes, JobRecords, Drafts
<1>4. \A k \in Jobs : JobSound(jobs'[k]) /\ billed'[k] <= Spent(jobs'[k])
  BY <1>1 DEF DraftInv
<1> QED BY <1>1, <1>2, <1>3, <1>4 DEF DraftInv, StudioTypes, BestKept

LEMMA SpendsMore ==
  ASSUME DraftInv, NEW j \in Jobs, NEW spent \in Nat, Spent(jobs[j]) <= spent
  PROVE  billed[j] <= spent
<1>1. Spent(jobs[j]) \in Nat /\ billed[j] \in Nat /\ billed[j] <= Spent(jobs[j])
  BY SpentBounded DEF DraftInv, StudioTypes
<1> QED BY <1>1

LEMMA SettleKeepsDrafts ==
  ASSUME DraftInv, NEW j \in Jobs, jobs[j].step \in Acquiring,
         NEW step \in {"pictured", "capped", "failed"}, NEW image \in Jobs \cup {NoPicture}, Settle(j, step, image),
         UNCHANGED <<usage, billed>>, picture' \in Jobs \cup {NoPicture}
  PROVE  DraftInv' /\ BestKept
<1> DEFINE Settled(k) == k = j \/ (jobs[k].step = "share" /\ jobs[k].isolate = jobs[j].isolate)
<1>1. /\ jobs' = [k \in Jobs |-> IF Settled(k) THEN [jobs[k] EXCEPT !.step = step, !.got = image] ELSE jobs[k]]
      /\ sharing' \in [Isolates -> Jobs \cup {NoPicture}]
  BY DEF Settle, DraftInv, StudioTypes
<1>2. step \in JobSteps
  BY DEF JobSteps
<1>3. ASSUME NEW k \in Jobs
      PROVE  /\ jobs'[k] \in JobRecords /\ JobSound(jobs'[k]) /\ billed[k] <= Spent(jobs'[k])
             /\ jobs'[k].best.errors <= jobs[k].best.errors
  <2>1. jobs[k] \in JobRecords /\ JobSound(jobs[k])
    BY DEF DraftInv, StudioTypes
  <2>2. jobs[k].best.errors <= jobs[k].best.errors
    BY <2>1 DEF JobRecords, Drafts
  <2>3. CASE ~Settled(k)
    BY <2>1, <2>2, <2>3, <1>1 DEF DraftInv
  <2>4. CASE Settled(k)
    <3> DEFINE next == [jobs[k] EXCEPT !.step = step, !.got = image]
    <3>1. jobs'[k] = next
      BY <1>1, <2>4
    <3>2. next \in JobRecords
      BY <2>1, <1>2 DEF JobRecords
    <3>3. next.step = step /\ next.best = jobs[k].best /\ next.current = jobs[k].current /\ next.reached = jobs[k].reached
      BY <2>1 DEF JobRecords
    <3>4. jobs[k].step \in {"share"} \cup Acquiring
      BY <2>4
    <3>5. JobSound(next)
      BY <3>3, <3>4, <2>1 DEF JobSound, CallSteps, Acquiring
    <3>6. Spent(next) = AllCalls /\ Spent(jobs[k]) <= AllCalls /\ AllCalls \in Nat
      BY <3>3, <2>1, SpentBounded, StudioAssumption DEF Spent, AllCalls
    <3>7. billed[k] <= Spent(next)
      BY <3>6, SpendsMore
    <3> HIDE DEF next
    <3> QED BY <3>1, <3>2, <3>3, <3>5, <3>7, <2>2
  <2> QED BY <2>3, <2>4
<1>4. jobs' \in [Jobs -> JobRecords]
  <2>1. jobs' = [k \in Jobs |-> jobs'[k]]
    BY <1>1
  <2> QED BY <2>1, <1>3
<1> QED BY <1>1, <1>3, <1>4 DEF DraftInv, StudioTypes, BestKept

LEMMA StepKeepsDrafts ==
  ASSUME DraftInv, StudioNext
  PROVE  DraftInv' /\ BestKept
<1> PICK j \in Jobs :
      \/ OpenGame(j) \/ CheckUsage(j) \/ NoAnswer(j) \/ Bill(j) \/ Refuse(j) \/ CheckFails(j) \/ Check(j)
      \/ \E i \in Isolates : OpenPicture(j, i)
      \/ ReadPicture(j) \/ BillPicture(j) \/ LosePicture(j) \/ StorePicture(j)
  BY DEF StudioNext
<1> DEFINE job == jobs[j]
<1>1. /\ job \in JobRecords /\ JobSound(job) /\ billed[j] \in Nat /\ billed \in [Jobs -> Nat] /\ usage \in Nat
      /\ sharing \in [Isolates -> Jobs \cup {NoPicture}] /\ picture \in Jobs \cup {NoPicture}
      /\ billed[j] <= Spent(job)
  BY DEF DraftInv, StudioTypes
<1>2. /\ Attempts \in Nat \ {0} /\ AllCalls \in Nat \ {0} /\ job.best.errors <= job.best.errors
      /\ job.best.errors \in Nat /\ Spent(job) \in Nat /\ Spent(job) <= AllCalls
  BY <1>1, SpentBounded, StudioAssumption DEF AllCalls, JobRecords, Drafts
<1>3. ASSUME job.step \in CallSteps, NEW same \in JobRecords, Going(same), Calls(same) = Calls(job), same.best = job.best,
             Becomes(j, Nothing(same)), UNCHANGED <<usage, sharing, picture, billed>>
      PROVE  DraftInv' /\ BestKept
  <2> DEFINE next == Nothing(same)
  <2>1. next \in JobRecords /\ JobSound(next) /\ Calls(job) <= Spent(next) /\ next.best = job.best
    BY <1>3, NothingEnds DEF Follows
  <2>2. Spent(next) \in Nat
    BY <2>1, SpentBounded
  <2>3. Spent(job) <= Calls(job) /\ Calls(job) \in Nat
    BY <1>1, <1>3, CallsBounded DEF JobSound, Spent, CallSteps
  <2>4. billed[j] <= Spent(next)
    BY <2>1, <2>2, <2>3, <1>2, SpendsMore
  <2> HIDE DEF next
  <2>5. jobs' = [jobs EXCEPT ![j] = next]
    BY <1>3 DEF Becomes, next
  <2> QED BY <2>1, <2>4, <2>5, <1>1, <1>2, <1>3, OneJobMoves
<1>4. ASSUME NEW next \in JobRecords, JobSound(next), next.best = job.best, Spent(job) <= Spent(next),
             Becomes(j, next), UNCHANGED <<usage, picture, billed>>, sharing' \in [Isolates -> Jobs \cup {NoPicture}]
      PROVE  DraftInv' /\ BestKept
  <2>1. Spent(next) \in Nat
    BY <1>4, SpentBounded
  <2>2. billed[j] <= Spent(next)
    BY <2>1, <1>4, SpendsMore
  <2> QED BY <2>2, <1>1, <1>2, <1>4, OneJobMoves DEF Becomes
<1>5. CASE OpenGame(j)
  <2>1. PICK next : /\ Becomes(j, next) /\ UNCHANGED <<usage, sharing, picture, billed>>
                    /\ \/ next = [job EXCEPT !.step = "generate", !.attempt = 1]
                       \/ \E step \in {"capped", "refused"} : next = [job EXCEPT !.step = step]
    BY <1>5 DEF OpenGame
  <2>2. job.step = "new" /\ job.round = 0 /\ job.best = NoDraft /\ job.current = NoDraft /\ ~job.reached
    BY <1>1, <1>5 DEF OpenGame, StepOf, JobSound
  <2>3. next \in JobRecords /\ next.best = job.best /\ next.current = job.current /\ next.reached = job.reached /\ next.round = 0
    <3>1. {"generate", "capped", "refused"} \subseteq JobSteps
      BY DEF JobSteps
    <3>2. CASE next = [job EXCEPT !.step = "generate", !.attempt = 1]
      BY <2>2, <3>1, <3>2, <1>1 DEF JobRecords
    <3>3. ASSUME NEW step \in {"capped", "refused"}, next = [job EXCEPT !.step = step]
          PROVE  next \in JobRecords /\ next.best = job.best /\ next.current = job.current /\ next.reached = job.reached /\ next.round = 0
      BY <2>2, <3>1, <3>3, <1>1 DEF JobRecords
    <3> QED BY <2>1, <3>2, <3>3
  <2>4. \/ next.step = "generate" /\ next.attempt = 1
        \/ next.step \in {"capped", "refused"}
    BY <2>1, <1>1 DEF JobRecords
  <2>5. JobSound(next)
    BY <2>2, <2>3, <2>4, <1>2 DEF JobSound, Going, CallSteps, Acquiring, NoDraft
  <2>6. Spent(job) = 0 /\ Spent(next) \in Nat
    BY <2>2, <2>3, <2>5, SpentBounded DEF Spent
  <2> QED BY <2>1, <2>3, <2>5, <2>6, <1>1, <1>4
<1>6. CASE CheckUsage(j)
  <2>1. job.step \in {"generate", "refine"}
    BY <1>6 DEF CheckUsage, Calling
  <2>2. CASE job.reached \/ usage >= Cap
    <3> DEFINE same == [job EXCEPT !.reached = TRUE]
    <3>1. same \in JobRecords /\ same.best = job.best /\ same.current = job.current /\ same.round = job.round /\ same.attempt = job.attempt
      BY <1>1 DEF JobRecords
    <3>2. Becomes(j, Nothing(same)) /\ UNCHANGED <<usage, sharing, picture, billed>>
      BY <1>6, <2>2 DEF CheckUsage
    <3> HIDE DEF same
    <3>3. Going(same) /\ Calls(same) = Calls(job) /\ job.step \in CallSteps
      BY <3>1, <2>1, <1>1 DEF Going, Calls, JobSound, CallSteps
    <3> QED BY <3>1, <3>2, <3>3, <1>3
  <2>3. CASE ~(job.reached \/ usage >= Cap)
    <3> DEFINE next == [job EXCEPT !.step = "model"]
    <3>1. Becomes(j, next) /\ UNCHANGED <<usage, sharing, picture, billed>>
      BY <1>6, <2>3 DEF CheckUsage
    <3>2. "model" \in JobSteps
      BY DEF JobSteps
    <3>3. /\ next \in JobRecords /\ next.step = "model" /\ next.best = job.best /\ next.current = job.current /\ next.shown = job.shown
          /\ next.round = job.round /\ next.attempt = job.attempt /\ next.reached = job.reached
      BY <1>1, <3>2 DEF JobRecords
    <3> HIDE DEF next
    <3>4. JobSound(next)
      BY <3>3, <2>1, <2>3, <1>1 DEF JobSound, Going, CallSteps, Acquiring
    <3>5. Spent(next) = Spent(job)
      BY <3>3, <2>1 DEF Spent, Calls
    <3> QED BY <3>1, <3>3, <3>4, <3>5, <1>1, <1>2, <1>4
  <2> QED BY <2>2, <2>3
<1>7. CASE NoAnswer(j) \/ Refuse(j)
  <2>1. job.step \in CallSteps /\ Becomes(j, Nothing(job)) /\ UNCHANGED <<usage, sharing, picture, billed>>
    BY <1>7 DEF NoAnswer, Refuse, StepOf, CallSteps
  <2>2. Going(job)
    BY <2>1, <1>1 DEF JobSound
  <2> QED BY <2>1, <2>2, <1>1, <1>3
<1>8. CASE Bill(j)
  <2> DEFINE next == [job EXCEPT !.step = "judge"]
  <2>1. usage' = usage + 1 /\ billed' = [billed EXCEPT ![j] = @ + 1]
    BY <1>8 DEF Bill
  <2>2. job.step = "model" /\ jobs' = [jobs EXCEPT ![j] = next] /\ UNCHANGED <<sharing, picture>>
    BY <1>8 DEF Bill, Becomes, StepOf
  <2>3. "judge" \in JobSteps
    BY DEF JobSteps
  <2>4. /\ next \in JobRecords /\ next.step = "judge" /\ next.best = job.best /\ next.current = job.current /\ next.shown = job.shown
        /\ next.round = job.round /\ next.attempt = job.attempt /\ next.reached = job.reached
    BY <1>1, <2>3 DEF JobRecords
  <2> HIDE DEF next
  <2>5. JobSound(next)
    BY <2>4, <2>2, <1>1 DEF JobSound, Going, CallSteps, Acquiring
  <2>6. Spent(next) = Spent(job) + 1
    <3>1. Spent(next) = Calls(job) /\ Spent(job) = Calls(job) - 1
      BY <2>4, <2>2 DEF Spent, Calls
    <3>2. Calls(job) \in Nat
      BY <2>2, <1>1, CallsBounded DEF JobSound, CallSteps
    <3> QED BY <3>1, <3>2
  <2>8. /\ billed' \in [Jobs -> Nat] /\ billed'[j] = billed[j] + 1 /\ usage' \in Nat
        /\ \A k \in Jobs \ {j} : billed'[k] = billed[k]
    BY <2>1, <1>1
  <2>9. billed'[j] <= Spent(next)
    BY <2>6, <2>8, <1>1, <1>2
  <2> QED BY <2>2, <2>4, <2>5, <2>8, <2>9, <1>1, <1>2, OneJobMoves
<1>9. CASE CheckFails(j)
  <2> DEFINE next == [job EXCEPT !.step = "unavailable"]
  <2>1. Becomes(j, next) /\ UNCHANGED <<usage, sharing, picture, billed>> /\ job.step = "judge"
    BY <1>9 DEF CheckFails, StepOf
  <2>2. "unavailable" \in JobSteps
    BY DEF JobSteps
  <2>3. /\ next \in JobRecords /\ next.step = "unavailable" /\ next.best = job.best /\ next.current = job.current /\ next.reached = job.reached
    BY <1>1, <2>2 DEF JobRecords
  <2> HIDE DEF next
  <2>4. JobSound(next)
    BY <2>1, <2>3, <1>1 DEF JobSound, CallSteps, Acquiring
  <2>5. Spent(next) = AllCalls
    BY <2>3 DEF Spent
  <2> QED BY <2>1, <2>3, <2>4, <2>5, <1>1, <1>2, <1>4
<1>10. CASE Check(j)
  <2> DEFINE same == [job EXCEPT !.made = @ + 1]
  <2>1. PICK e \in 0..MaxErrors : Becomes(j, AfterCheck(same, [id |-> same.made, errors |-> e])) /\ UNCHANGED <<usage, sharing, picture, billed>>
    BY <1>10 DEF Check
  <2>2. job.step = "judge"
    BY <1>10 DEF Check, StepOf
  <2>3. /\ same \in JobRecords /\ same.best = job.best /\ same.current = job.current /\ same.round = job.round
        /\ same.attempt = job.attempt /\ same.made > 0 /\ same.reached = job.reached
    BY <1>1 DEF JobRecords
  <2> DEFINE d == [id |-> same.made, errors |-> e]
             next == AfterCheck(same, d)
  <2>4. jobs' = [jobs EXCEPT ![j] = next]
    BY <2>1 DEF Becomes
  <2>5. d \in Drafts /\ d.id > 0
    BY <2>3, StudioAssumption DEF Drafts, JobRecords
  <2> HIDE DEF same
  <2>6. Going(same) /\ Calls(same) = Calls(job) /\ ~same.reached
    BY <2>2, <2>3, <1>1 DEF Going, Calls, JobSound, CallSteps
  <2> HIDE DEF d
  <2>7. Follows(next, same) /\ (next.best.errors <= same.best.errors \/ same.best = NoDraft)
    BY <2>3, <2>5, <2>6, CheckEnds
  <2> HIDE DEF next
  <2>8. next \in JobRecords /\ JobSound(next) /\ Calls(job) <= Spent(next)
    BY <2>6, <2>7 DEF Follows
  <2>9. Spent(job) = Calls(job) /\ Spent(next) \in Nat
    BY <2>2, <2>8, SpentBounded DEF Spent
  <2>10. billed[j] <= Spent(next)
    BY <2>8, <2>9, SpendsMore
  <2> QED BY <2>1, <2>3, <2>4, <2>7, <2>8, <2>10, <1>1, OneJobMoves
<1>11. ASSUME NEW i \in Isolates, OpenPicture(j, i)
       PROVE  DraftInv' /\ BestKept
  <2> DEFINE next == [job EXCEPT !.isolate = i, !.step = IF sharing[i] = NoPicture THEN "cache" ELSE "share"]
  <2>1. /\ Becomes(j, next) /\ UNCHANGED <<usage, picture, billed>> /\ job.step = "new"
        /\ sharing' \in [Isolates -> Jobs \cup {NoPicture}]
    BY <1>1, <1>11 DEF OpenPicture, StepOf
  <2>2. {"cache", "share"} \subseteq JobSteps
    BY DEF JobSteps, Acquiring
  <2>3. /\ next \in JobRecords /\ next.step \in {"cache", "share"} /\ next.best = job.best /\ next.current = job.current
        /\ next.reached = job.reached /\ next.round = job.round
    BY <1>1, <2>2 DEF JobRecords
  <2> HIDE DEF next
  <2>4. JobSound(next)
    BY <2>1, <2>3, <1>1 DEF JobSound, CallSteps, Acquiring
  <2>5. Spent(next) = 0 /\ Spent(job) = 0
    BY <2>1, <2>3 DEF Spent
  <2> QED BY <2>1, <2>3, <2>4, <2>5, <1>1, <1>2, <1>4
<1>12. CASE ReadPicture(j)
  <2>1. job.step \in Acquiring /\ UNCHANGED <<usage, picture, billed>>
    BY <1>12 DEF ReadPicture, StepOf, Acquiring
  <2>2. CASE \E step \in {"pictured", "capped", "failed"}, image \in Jobs \cup {NoPicture} : Settle(j, step, image)
    BY <2>1, <2>2, <1>1, SettleKeepsDrafts
  <2>3. CASE job.step = "cache" /\ Becomes(j, [job EXCEPT !.step = "paint"]) /\ UNCHANGED sharing
    <3> DEFINE next == [job EXCEPT !.step = "paint"]
    <3>1. "paint" \in JobSteps
      BY DEF JobSteps, Acquiring
    <3>2. /\ next \in JobRecords /\ next.step = "paint" /\ next.best = job.best /\ next.current = job.current
          /\ next.reached = job.reached /\ next.round = job.round
      BY <1>1, <3>1 DEF JobRecords
    <3> HIDE DEF next
    <3>3. JobSound(next)
      BY <2>3, <3>2, <1>1 DEF JobSound, CallSteps, Acquiring
    <3>4. Spent(next) = 0 /\ Spent(job) = 0
      BY <2>3, <3>2 DEF Spent
    <3>5. Becomes(j, next)
      BY <2>3 DEF next
    <3> QED BY <2>1, <2>3, <3>2, <3>3, <3>4, <3>5, <1>1, <1>2, <1>4
  <2> QED BY <2>2, <2>3, <1>12, <1>1 DEF ReadPicture, StepOf
<1>13. CASE BillPicture(j)
  <2> DEFINE next == [job EXCEPT !.step = "store"]
  <2>1. /\ job.step = "paint" /\ jobs' = [jobs EXCEPT ![j] = next] /\ UNCHANGED <<sharing, picture>>
        /\ usage' = usage + 1 /\ billed' = [billed EXCEPT ![j] = @ + 1]
    BY <1>13 DEF BillPicture, StepOf, Becomes
  <2>2. "store" \in JobSteps
    BY DEF JobSteps, Acquiring
  <2>3. /\ next \in JobRecords /\ next.step = "store" /\ next.best = job.best /\ next.current = job.current
        /\ next.reached = job.reached /\ next.round = job.round
    BY <1>1, <2>2 DEF JobRecords
  <2> HIDE DEF next
  <2>4. JobSound(next)
    BY <2>1, <2>3, <1>1 DEF JobSound, CallSteps, Acquiring
  <2>5. Spent(next) = AllCalls /\ Spent(job) = 0
    BY <2>1, <2>3 DEF Spent
  <2>6. billed[j] = 0
    BY <2>5, <1>1
  <2>8. billed' \in [Jobs -> Nat] /\ billed'[j] = 1 /\ usage' \in Nat /\ \A k \in Jobs \ {j} : billed'[k] = billed[k]
    BY <2>1, <2>6, <1>1
  <2>9. billed'[j] <= Spent(next)
    BY <2>5, <2>8, <1>2
  <2> QED BY <2>1, <2>3, <2>4, <2>8, <2>9, <1>1, <1>2, OneJobMoves
<1>14. CASE LosePicture(j) \/ StorePicture(j)
  <2>1. /\ job.step \in Acquiring /\ UNCHANGED <<usage, billed>> /\ picture' \in Jobs \cup {NoPicture}
        /\ \E step \in {"pictured", "capped", "failed"}, image \in Jobs \cup {NoPicture} : Settle(j, step, image)
    BY <1>14, <1>1 DEF LosePicture, StorePicture, StepOf, Acquiring
  <2> QED BY <2>1, SettleKeepsDrafts
<1> QED BY <1>5, <1>6, <1>7, <1>8, <1>9, <1>10, <1>11, <1>12, <1>13, <1>14

-----------------------------------------------------------------------------
LEMMA InitUsage == StudioInit => UsageInv
<1> SUFFICES ASSUME StudioInit
             PROVE  UsageInv
  OBVIOUS
<1>1. UnderWay = {} /\ usage = 0 /\ \A j \in Jobs : ~jobs[j].reached
  BY DEF StudioInit, UnderWay, NoJob
<1>2. Cardinality({}) = 0 /\ Cardinality(Jobs) \in Nat
  BY StudioAssumption, FS_EmptySet, FS_CardinalityType
<1>3. Cap \in Nat
  BY StudioAssumption
<1> QED BY <1>1, <1>2, <1>3 DEF UsageInv

\* What a step does to the usage and to the calls under way.
LEMMA CallsMove ==
  ASSUME DraftInv, StudioNext
  PROVE  /\ \/ usage' = usage /\ (usage < Cap \/ UnderWay' \subseteq UnderWay)
            \/ \E j \in UnderWay : UnderWay' = UnderWay \ {j} /\ usage' = usage + 1
         /\ \A j \in Jobs : jobs'[j].reached => jobs[j].reached \/ usage >= Cap
<1> PICK j \in Jobs :
      \/ OpenGame(j) \/ CheckUsage(j) \/ NoAnswer(j) \/ Bill(j) \/ Refuse(j) \/ CheckFails(j) \/ Check(j)
      \/ \E i \in Isolates : OpenPicture(j, i)
      \/ ReadPicture(j) \/ BillPicture(j) \/ LosePicture(j) \/ StorePicture(j)
  BY DEF StudioNext
<1> DEFINE job == jobs[j]
<1>1. /\ job \in JobRecords /\ JobSound(job) /\ jobs \in [Jobs -> JobRecords] /\ usage \in Nat /\ Cap \in Nat
  BY StudioAssumption DEF DraftInv, StudioTypes
<1>2. ASSUME NEW next, Becomes(j, next), next.reached => job.reached \/ usage >= Cap,
             usage' = usage, usage < Cap \/ next.step \notin {"model", "paint"}
      PROVE  /\ usage' = usage /\ (usage < Cap \/ UnderWay' \subseteq UnderWay)
             /\ \A k \in Jobs : jobs'[k].reached => jobs[k].reached \/ usage >= Cap
  <2>1. \A k \in Jobs : jobs'[k] = IF k = j THEN next ELSE jobs[k]
    BY <1>1, <1>2 DEF Becomes
  <2> QED BY <2>1, <1>2 DEF UnderWay
<1>3. ASSUME NEW same \in JobRecords, Going(same), same.reached => job.reached \/ usage >= Cap
      PROVE  /\ Nothing(same).reached => job.reached \/ usage >= Cap
             /\ Nothing(same).step \notin {"model", "paint"}
  BY <1>3, NothingEnds DEF Follows
<1>4. ASSUME NEW next, Becomes(j, next), job.step \in {"model", "paint"}, next.step \notin {"model", "paint"},
             next.reached = job.reached, usage' = usage + 1
      PROVE  /\ j \in UnderWay /\ UnderWay' = UnderWay \ {j}
             /\ \A k \in Jobs : jobs'[k].reached => jobs[k].reached \/ usage >= Cap
  <2>1. \A k \in Jobs : jobs'[k] = IF k = j THEN next ELSE jobs[k]
    BY <1>1, <1>4 DEF Becomes
  <2> QED BY <2>1, <1>4 DEF UnderWay
<1>5. ASSUME NEW step, NEW image, step \notin {"model", "paint"}, Settle(j, step, image), usage' = usage
      PROVE  /\ usage' = usage /\ (usage < Cap \/ UnderWay' \subseteq UnderWay)
             /\ \A k \in Jobs : jobs'[k].reached => jobs[k].reached \/ usage >= Cap
  <2>1. \A k \in Jobs : jobs'[k] = jobs[k] \/ jobs'[k] = [jobs[k] EXCEPT !.step = step, !.got = image]
    BY <1>5 DEF Settle
  <2>2. \A k \in Jobs : jobs'[k] = jobs[k] \/ (jobs'[k].step = step /\ jobs'[k].reached = jobs[k].reached)
    <3>1. \A k \in Jobs : jobs[k] \in JobRecords
      BY <1>1
    <3> QED BY <2>1, <3>1 DEF JobRecords
  <2> QED BY <2>2, <1>5 DEF UnderWay
<1>6. CASE OpenGame(j)
  <2>1. PICK next : Becomes(j, next) /\ usage' = usage /\ next.reached = job.reached /\ next.step \notin {"model", "paint"}
    <3>1. /\ [job EXCEPT !.step = "generate", !.attempt = 1].reached = job.reached
          /\ [job EXCEPT !.step = "generate", !.attempt = 1].step = "generate"
          /\ \A step : [job EXCEPT !.step = step].reached = job.reached /\ [job EXCEPT !.step = step].step = step
      BY <1>1 DEF JobRecords
    <3>2. /\ usage' = usage
          /\ \/ Becomes(j, [job EXCEPT !.step = "generate", !.attempt = 1])
             \/ \E step \in {"capped", "refused"} : Becomes(j, [job EXCEPT !.step = step])
      BY <1>6 DEF OpenGame
    <3> QED BY <3>1, <3>2
  <2> QED BY <2>1, <1>2
<1>7. CASE CheckUsage(j)
  <2>1. CASE job.reached \/ usage >= Cap
    <3> DEFINE same == [job EXCEPT !.reached = TRUE]
    <3>1. same \in JobRecords /\ same.best = job.best /\ same.current = job.current /\ same.round = job.round /\ same.attempt = job.attempt
      BY <1>1 DEF JobRecords
    <3>2. Becomes(j, Nothing(same)) /\ usage' = usage /\ job.step \in CallSteps
      BY <1>7, <2>1 DEF CheckUsage, Calling, CallSteps
    <3> HIDE DEF same
    <3>3. Going(same)
      BY <3>1, <3>2, <1>1 DEF Going, JobSound
    <3> QED BY <3>1, <3>2, <3>3, <2>1, <1>2, <1>3
  <2>2. CASE ~(job.reached \/ usage >= Cap)
    <3>1. Becomes(j, [job EXCEPT !.step = "model"]) /\ usage' = usage /\ [job EXCEPT !.step = "model"].reached = job.reached /\ usage < Cap
      BY <1>1, <1>7, <2>2 DEF CheckUsage, JobRecords
    <3> QED BY <3>1, <1>2
  <2> QED BY <2>1, <2>2
<1>8. CASE NoAnswer(j) \/ Refuse(j)
  <2>1. job.step \in CallSteps /\ Becomes(j, Nothing(job)) /\ usage' = usage
    BY <1>8 DEF NoAnswer, Refuse, StepOf, CallSteps
  <2> QED BY <2>1, <1>1, <1>2, <1>3 DEF JobSound
<1>9. CASE Bill(j)
  <2>1. Becomes(j, [job EXCEPT !.step = "judge"]) /\ job.step = "model" /\ usage' = usage + 1
    BY <1>1, <1>9 DEF Bill, StepOf
  <2>2. [job EXCEPT !.step = "judge"].step = "judge" /\ [job EXCEPT !.step = "judge"].reached = job.reached
    BY <1>1 DEF JobRecords
  <2> QED BY <2>1, <2>2, <1>4
<1>10. CASE CheckFails(j)
  <2>1. PICK next : Becomes(j, next) /\ usage' = usage /\ next.reached = job.reached /\ next.step \notin {"model", "paint"}
    BY <1>1, <1>10 DEF CheckFails, JobRecords
  <2> QED BY <2>1, <1>2
<1>11. CASE Check(j)
  <2> DEFINE same == [job EXCEPT !.made = @ + 1]
  <2>1. PICK e \in 0..MaxErrors : Becomes(j, AfterCheck(same, [id |-> same.made, errors |-> e])) /\ usage' = usage
    BY <1>11 DEF Check
  <2>2. job.step = "judge"
    BY <1>11 DEF Check, StepOf
  <2>3. /\ same \in JobRecords /\ same.best = job.best /\ same.current = job.current /\ same.round = job.round
        /\ same.attempt = job.attempt /\ same.made > 0 /\ same.reached = job.reached
    BY <1>1 DEF JobRecords
  <2> DEFINE d == [id |-> same.made, errors |-> e]
             next == AfterCheck(same, d)
  <2>4. Becomes(j, next)
    BY <2>1
  <2>5. d \in Drafts /\ d.id > 0
    BY <2>3, StudioAssumption DEF Drafts, JobRecords
  <2> HIDE DEF same
  <2>6. Going(same) /\ ~same.reached
    BY <2>2, <2>3, <1>1 DEF Going, JobSound, CallSteps
  <2> HIDE DEF d
  <2>7. Follows(next, same)
    BY <2>3, <2>5, <2>6, CheckEnds
  <2> HIDE DEF next
  <2> QED BY <2>1, <2>3, <2>4, <2>7, <1>2 DEF Follows
<1>12. ASSUME NEW i \in Isolates, OpenPicture(j, i)
       PROVE  /\ usage' = usage /\ (usage < Cap \/ UnderWay' \subseteq UnderWay)
              /\ \A k \in Jobs : jobs'[k].reached => jobs[k].reached \/ usage >= Cap
  <2>1. PICK next : Becomes(j, next) /\ usage' = usage /\ next.reached = job.reached /\ next.step \notin {"model", "paint"}
    <3> DEFINE next == [job EXCEPT !.isolate = i, !.step = IF sharing[i] = NoPicture THEN "cache" ELSE "share"]
    <3>1. next.reached = job.reached /\ next.step \in {"cache", "share"}
      BY <1>1 DEF JobRecords
    <3>2. Becomes(j, next) /\ usage' = usage
      BY <1>12 DEF OpenPicture
    <3> HIDE DEF next
    <3> QED BY <3>1, <3>2
  <2> QED BY <2>1, <1>2
<1>13. CASE ReadPicture(j)
  <2>1. CASE \E step \in {"pictured", "capped"}, image \in Jobs \cup {NoPicture} : Settle(j, step, image)
    BY <2>1, <1>5, <1>13 DEF ReadPicture
  <2>2. CASE usage < Cap /\ Becomes(j, [job EXCEPT !.step = "paint"])
    <3>1. [job EXCEPT !.step = "paint"].reached = job.reached /\ usage' = usage
      BY <1>1, <1>13 DEF JobRecords, ReadPicture
    <3> QED BY <2>2, <3>1, <1>2
  <2>3. usage >= Cap \/ usage < Cap
    BY <1>1
  <2> QED BY <2>1, <2>2, <2>3, <1>13 DEF ReadPicture, DraftInv, StudioTypes
<1>14. CASE BillPicture(j)
  <2>1. Becomes(j, [job EXCEPT !.step = "store"]) /\ job.step = "paint" /\ usage' = usage + 1
    BY <1>1, <1>14 DEF BillPicture, StepOf
  <2>2. [job EXCEPT !.step = "store"].step = "store" /\ [job EXCEPT !.step = "store"].reached = job.reached
    BY <1>1 DEF JobRecords
  <2> QED BY <2>1, <2>2, <1>4
<1>15. CASE LosePicture(j) \/ StorePicture(j)
  BY <1>5, <1>15 DEF LosePicture, StorePicture
<1> QED BY <1>4, <1>6, <1>7, <1>8, <1>9, <1>10, <1>11, <1>12, <1>13, <1>14, <1>15

LEMMA StepKeepsUsage ==
  ASSUME DraftInv, UsageInv, StudioNext
  PROVE  UsageInv'
<1> DEFINE u == Cardinality(UnderWay)
           v == Cardinality(UnderWay')
           all == Cardinality(Jobs)
<1>1. /\ usage \in Nat /\ Cap \in Nat
      /\ IsFiniteSet(UnderWay) /\ IsFiniteSet(UnderWay') /\ u \in Nat /\ v \in Nat /\ v <= all /\ all \in Nat
  <2>1. UnderWay \subseteq Jobs /\ UnderWay' \subseteq Jobs /\ IsFiniteSet(Jobs)
    BY StudioAssumption DEF UnderWay
  <2> QED BY <2>1, StudioAssumption, FS_Subset, FS_CardinalityType DEF DraftInv, StudioTypes
<1>3. usage' >= usage
  BY <1>1, CallsMove
<1>4. \A j \in Jobs : jobs'[j].reached => usage' >= Cap
  <2>1. usage' \in Nat
    BY <1>1, CallsMove
  <2> QED BY <1>1, <1>3, <2>1, CallsMove DEF UsageInv
<1>5. CASE usage' = usage /\ usage < Cap
  BY <1>1, <1>4, <1>5 DEF UsageInv
<1>6. CASE usage' = usage /\ UnderWay' \subseteq UnderWay
  <2>1. v <= u
    BY <1>1, <1>6, FS_Subset
  <2> QED BY <1>1, <1>4, <1>6, <2>1 DEF UsageInv
<1>7. ASSUME NEW j \in UnderWay, UnderWay' = UnderWay \ {j}, usage' = usage + 1
      PROVE  UsageInv'
  <2>1. v = u - 1
    BY <1>1, <1>7, FS_RemoveElement
  <2>2. Cap # 0
    BY <1>7 DEF UsageInv
  <2> QED BY <1>1, <1>4, <1>7, <2>1, <2>2 DEF UsageInv
<1> QED BY <1>5, <1>6, <1>7, CallsMove

-----------------------------------------------------------------------------
LEMMA InitAnswers == StudioInit => AnswerInv
<1> SUFFICES ASSUME StudioInit
             PROVE  AnswerInv
  OBVIOUS
<1>1. billed \in [Jobs -> Nat] /\ used \in [Jobs -> Nat] /\ usage = 0 /\ \A j \in Jobs : billed[j] = 0 /\ used[j] = 0
  BY DEF StudioInit
<1>2. SumFunction(billed) = 0
  BY <1>1, StudioAssumption, SumOfNone
<1>3. Looking = {}
  BY DEF StudioInit, Looking, NoJob
<1> QED BY <1>1, <1>2, <1>3 DEF AnswerInv

\* Nothing is billed or looked at; or a job is billed an answer; or it looks at it.
Rests == UNCHANGED <<usage, billed, used>> /\ Looking' = Looking
IsBilled(j) ==
  /\ usage' = usage + 1 /\ billed' = [billed EXCEPT ![j] = @ + 1] /\ used' = used
  /\ j \notin Looking /\ Looking' = Looking \cup {j}
LooksAt(j) == Uses(j) /\ UNCHANGED <<usage, billed>> /\ j \in Looking /\ Looking' = Looking \ {j}

LEMMA AnswersMove ==
  ASSUME DraftInv, StudioNext
  PROVE  Rests \/ \E j \in Jobs : IsBilled(j) \/ LooksAt(j)
<1> PICK j \in Jobs :
      \/ OpenGame(j) \/ CheckUsage(j) \/ NoAnswer(j) \/ Bill(j) \/ Refuse(j) \/ CheckFails(j) \/ Check(j)
      \/ \E i \in Isolates : OpenPicture(j, i)
      \/ ReadPicture(j) \/ BillPicture(j) \/ LosePicture(j) \/ StorePicture(j)
  BY DEF StudioNext
<1> DEFINE job == jobs[j]
           same == UNCHANGED <<usage, billed, used>>
           looks == Uses(j) /\ UNCHANGED <<usage, billed>>
           isBilled == usage' = usage + 1 /\ billed' = [billed EXCEPT ![j] = @ + 1] /\ used' = used
<1>1. job \in JobRecords /\ JobSound(job) /\ jobs \in [Jobs -> JobRecords]
  BY DEF DraftInv, StudioTypes
<1>2. ASSUME NEW next, Becomes(j, next)
      PROVE  /\ job.step \notin {"judge", "store"} /\ next.step \notin {"judge", "store"} => Looking' = Looking
             /\ job.step \in {"judge", "store"} /\ next.step \notin {"judge", "store"} => j \in Looking /\ Looking' = Looking \ {j}
             /\ job.step \notin {"judge", "store"} /\ next.step \in {"judge", "store"} => j \notin Looking /\ Looking' = Looking \cup {j}
  <2>1. \A k \in Jobs : jobs'[k] = IF k = j THEN next ELSE jobs[k]
    BY <1>1, <1>2 DEF Becomes
  <2> QED BY <2>1 DEF Looking
<1>3. ASSUME NEW step \in {"pictured", "capped", "failed"}, NEW image, Settle(j, step, image), job.step \in Acquiring
      PROVE  /\ job.step # "store" => Looking' = Looking
             /\ job.step = "store" => j \in Looking /\ Looking' = Looking \ {j}
  <2> DEFINE Settled(k) == k = j \/ (jobs[k].step = "share" /\ jobs[k].isolate = jobs[j].isolate)
  <2>1. \A k \in Jobs : jobs'[k] = IF Settled(k) THEN [jobs[k] EXCEPT !.step = step, !.got = image] ELSE jobs[k]
    BY <1>3 DEF Settle
  <2>2. \A k \in Jobs : IF Settled(k) THEN jobs'[k].step = step ELSE jobs'[k] = jobs[k]
    <3>1. \A k \in Jobs : jobs[k] \in JobRecords
      BY <1>1
    <3> QED BY <2>1, <3>1 DEF JobRecords
  <2>3. \A k \in Jobs : k # j => (k \in Looking' <=> k \in Looking)
    BY <2>2 DEF Looking
  <2>4. j \notin Looking' /\ (j \in Looking <=> job.step = "store") /\ Looking \subseteq Jobs /\ Looking' \subseteq Jobs
    BY <2>2, <1>3 DEF Looking, Acquiring
  <2> QED BY <2>3, <2>4
<1>4. ASSUME NEW next, NEW was, Follows(next, was)
      PROVE  next.step \notin {"judge", "store"}
  BY <1>4 DEF Follows
<1>5. CASE OpenGame(j)
  <2>1. \E next : Becomes(j, next) /\ next.step \in {"generate", "capped", "refused"}
    <3>1. /\ [job EXCEPT !.step = "generate", !.attempt = 1].step = "generate"
          /\ [job EXCEPT !.step = "capped"].step = "capped" /\ [job EXCEPT !.step = "refused"].step = "refused"
      BY <1>1 DEF JobRecords
    <3> QED BY <3>1, <1>5 DEF OpenGame
  <2>2. job.step = "new" /\ same
    BY <1>5 DEF OpenGame, StepOf
  <2> QED BY <2>1, <2>2, <1>2 DEF Rests
<1>6. CASE CheckUsage(j)
  <2>1. job.step \in {"generate", "refine"} /\ same
    BY <1>6 DEF CheckUsage, Calling
  <2>2. CASE job.reached \/ usage >= Cap
    <3> DEFINE met == [job EXCEPT !.reached = TRUE]
    <3>1. met \in JobRecords /\ met.best = job.best /\ met.current = job.current /\ met.round = job.round /\ met.attempt = job.attempt
      BY <1>1 DEF JobRecords
    <3>2. Becomes(j, Nothing(met))
      BY <1>6, <2>2 DEF CheckUsage
    <3> HIDE DEF met
    <3>3. Going(met)
      BY <3>1, <2>1, <1>1 DEF Going, JobSound, CallSteps
    <3>4. Nothing(met).step \notin {"judge", "store"}
      BY <3>1, <3>3, <1>4, NothingEnds
    <3> QED BY <3>2, <3>4, <2>1, <1>2 DEF Rests
  <2>3. CASE ~(job.reached \/ usage >= Cap)
    <3>1. Becomes(j, [job EXCEPT !.step = "model"]) /\ [job EXCEPT !.step = "model"].step = "model"
      BY <1>1, <1>6, <2>3 DEF CheckUsage, JobRecords
    <3> QED BY <3>1, <2>1, <1>2 DEF Rests
  <2> QED BY <2>2, <2>3
<1>7. ASSUME job.step \in CallSteps, Becomes(j, Nothing(job))
      PROVE  Nothing(job).step \notin {"judge", "store"}
  BY <1>1, <1>4, <1>7, NothingEnds DEF JobSound
<1>8. CASE NoAnswer(j)
  <2>1. job.step = "model" /\ Becomes(j, Nothing(job)) /\ same
    BY <1>8 DEF NoAnswer, StepOf
  <2> QED BY <2>1, <1>2, <1>7 DEF Rests, CallSteps
<1>9. CASE Refuse(j)
  <2>1. job.step = "judge" /\ Becomes(j, Nothing(job)) /\ looks
    BY <1>9 DEF Refuse, StepOf
  <2> QED BY <2>1, <1>2, <1>7 DEF LooksAt, CallSteps
<1>10. CASE Bill(j)
  <2>1. job.step = "model" /\ Becomes(j, [job EXCEPT !.step = "judge"]) /\ isBilled /\ [job EXCEPT !.step = "judge"].step = "judge"
    BY <1>1, <1>10 DEF Bill, StepOf, JobRecords
  <2> QED BY <2>1, <1>2 DEF IsBilled
<1>11. CASE CheckFails(j)
  <2>1. job.step = "judge" /\ Becomes(j, [job EXCEPT !.step = "unavailable"]) /\ looks /\ [job EXCEPT !.step = "unavailable"].step = "unavailable"
    BY <1>1, <1>11 DEF CheckFails, StepOf, JobRecords
  <2> QED BY <2>1, <1>2 DEF LooksAt
<1>12. CASE Check(j)
  <2> DEFINE drawn == [job EXCEPT !.made = @ + 1]
  <2>1. PICK e \in 0..MaxErrors : Becomes(j, AfterCheck(drawn, [id |-> drawn.made, errors |-> e]))
    BY <1>12 DEF Check
  <2>2. job.step = "judge" /\ looks
    BY <1>12 DEF Check, StepOf
  <2>3. /\ drawn \in JobRecords /\ drawn.best = job.best /\ drawn.current = job.current /\ drawn.round = job.round
        /\ drawn.attempt = job.attempt /\ drawn.made > 0 /\ drawn.reached = job.reached
    BY <1>1 DEF JobRecords
  <2> DEFINE d == [id |-> drawn.made, errors |-> e]
  <2>4. d \in Drafts /\ d.id > 0
    BY <2>3, StudioAssumption DEF Drafts, JobRecords
  <2> HIDE DEF drawn
  <2>5. Going(drawn) /\ ~drawn.reached
    BY <2>2, <2>3, <1>1 DEF Going, JobSound, CallSteps
  <2>6. Becomes(j, AfterCheck(drawn, d))
    BY <2>1
  <2> HIDE DEF d
  <2>7. AfterCheck(drawn, d).step \notin {"judge", "store"}
    BY <2>3, <2>4, <2>5, <1>4, CheckEnds
  <2> QED BY <2>2, <2>6, <2>7, <1>2 DEF LooksAt
<1>13. ASSUME NEW i \in Isolates, OpenPicture(j, i)
       PROVE  Rests
  <2> DEFINE next == [job EXCEPT !.isolate = i, !.step = IF sharing[i] = NoPicture THEN "cache" ELSE "share"]
  <2>1. Becomes(j, next) /\ same /\ job.step = "new"
    BY <1>13 DEF OpenPicture, StepOf
  <2>2. next.step \in {"cache", "share"}
    BY <1>1 DEF JobRecords
  <2> HIDE DEF next
  <2> QED BY <2>1, <2>2, <1>2 DEF Rests
<1>14. CASE ReadPicture(j)
  <2>1. job.step = "cache" /\ same
    BY <1>14 DEF ReadPicture, StepOf
  <2>2. CASE \E step \in {"pictured", "capped"} : \E image : Settle(j, step, image)
    BY <2>1, <2>2, <1>3 DEF Rests, Acquiring
  <2>3. CASE Becomes(j, [job EXCEPT !.step = "paint"])
    <3>1. [job EXCEPT !.step = "paint"].step = "paint"
      BY <1>1 DEF JobRecords
    <3> QED BY <2>1, <2>3, <3>1, <1>2 DEF Rests
  <2> QED BY <2>2, <2>3, <1>14 DEF ReadPicture
<1>15. CASE BillPicture(j)
  <2>1. job.step = "paint" /\ Becomes(j, [job EXCEPT !.step = "store"]) /\ isBilled /\ [job EXCEPT !.step = "store"].step = "store"
    BY <1>1, <1>15 DEF BillPicture, StepOf, JobRecords
  <2> QED BY <2>1, <1>2 DEF IsBilled
<1>16. CASE LosePicture(j)
  <2>1. /\ job.step \in Acquiring /\ Settle(j, "failed", NoPicture) /\ UNCHANGED <<usage, billed>>
        /\ IF job.step = "store" THEN Uses(j) ELSE UNCHANGED used
    BY <1>16 DEF LosePicture, StepOf, Acquiring
  <2> QED BY <2>1, <1>3 DEF Rests, LooksAt
<1>17. CASE StorePicture(j)
  <2>1. job.step = "store" /\ job.step \in Acquiring /\ Settle(j, "pictured", j) /\ looks
    BY <1>17 DEF StorePicture, StepOf, Acquiring
  <2> QED BY <2>1, <1>3 DEF LooksAt
<1> QED BY <1>5, <1>6, <1>8, <1>9, <1>10, <1>11, <1>12, <1>13, <1>14, <1>15, <1>16, <1>17

LEMMA StepKeepsAnswers ==
  ASSUME DraftInv, AnswerInv, StudioNext
  PROVE  AnswerInv' /\ \A j \in Jobs : billed'[j] >= billed[j]
<1>1. billed \in [Jobs -> Nat] /\ used \in [Jobs -> Nat] /\ usage = SumFunction(billed) /\ IsFiniteSet(Jobs)
  BY StudioAssumption DEF DraftInv, StudioTypes, AnswerInv
<1>2. \A j \in Jobs : billed[j] = used[j] + IF j \in Looking THEN 1 ELSE 0
  BY DEF AnswerInv
<1>3. CASE Rests
  BY <1>1, <1>2, <1>3 DEF Rests, AnswerInv
<1>4. ASSUME NEW j \in Jobs, IsBilled(j)
      PROVE  AnswerInv' /\ \A k \in Jobs : billed'[k] >= billed[k]
  <2>1. /\ billed' \in [Jobs -> Nat] /\ billed'[j] = billed[j] + 1 /\ \A k \in Jobs \ {j} : billed'[k] = billed[k]
        /\ used' = used /\ usage' = usage + 1
    BY <1>1, <1>4 DEF IsBilled
  <2>2. SumFunction(billed') = SumFunction(billed) + 1
    BY <1>1, <2>1, SumMoves
  <2>3. ASSUME NEW k \in Jobs
        PROVE  billed'[k] = used'[k] + (IF k \in Looking' THEN 1 ELSE 0) /\ billed'[k] >= billed[k]
    <3>1. j \notin Looking /\ Looking' = Looking \cup {j}
      BY <1>4 DEF IsBilled
    <3>2. CASE k = j
      BY <1>1, <1>2, <2>1, <3>1, <3>2
    <3>3. CASE k # j
      BY <1>1, <1>2, <2>1, <3>1, <3>3
    <3> QED BY <3>2, <3>3
  <2> QED BY <1>1, <2>1, <2>2, <2>3 DEF AnswerInv
<1>5. ASSUME NEW j \in Jobs, LooksAt(j)
      PROVE  AnswerInv' /\ \A k \in Jobs : billed'[k] >= billed[k]
  <2>1. /\ used' \in [Jobs -> Nat] /\ used'[j] = used[j] + 1 /\ \A k \in Jobs \ {j} : used'[k] = used[k]
        /\ billed' = billed /\ usage' = usage
    BY <1>1, <1>5 DEF LooksAt, Uses
  <2>2. ASSUME NEW k \in Jobs
        PROVE  billed'[k] = used'[k] + (IF k \in Looking' THEN 1 ELSE 0) /\ billed'[k] >= billed[k]
    <3>1. j \in Looking /\ Looking' = Looking \ {j}
      BY <1>5 DEF LooksAt
    <3>2. CASE k = j
      BY <1>1, <1>2, <2>1, <3>1, <3>2
    <3>3. CASE k # j
      BY <1>1, <1>2, <2>1, <3>1, <3>3
    <3> QED BY <3>2, <3>3
  <2> QED BY <1>1, <2>1, <2>2 DEF AnswerInv
<1> QED BY <1>3, <1>4, <1>5, AnswersMove

-----------------------------------------------------------------------------
\* The steps of requests for games have nothing to do with pictures.
DraftStep(j) == OpenGame(j) \/ CheckUsage(j) \/ NoAnswer(j) \/ Bill(j) \/ Refuse(j) \/ CheckFails(j) \/ Check(j)

LEMMA DraftsApart ==
  ASSUME DraftInv, NEW j \in Jobs, DraftStep(j)
  PROVE  /\ UNCHANGED <<sharing, picture>> /\ \A k \in Jobs \ {j} : jobs'[k] = jobs[k]
         /\ jobs[j].step \notin {"share", "pictured"} \cup Acquiring /\ jobs'[j].step \notin {"share", "pictured"} \cup Acquiring
<1> DEFINE job == jobs[j]
<1>1. job \in JobRecords /\ JobSound(job) /\ jobs \in [Jobs -> JobRecords]
  BY DEF DraftInv, StudioTypes
<1>2. ASSUME NEW next, Becomes(j, next), UNCHANGED <<sharing, picture>>,
             job.step \in {"new"} \cup CallSteps, next.step \notin {"share", "pictured"} \cup Acquiring
      PROVE  /\ UNCHANGED <<sharing, picture>> /\ \A k \in Jobs \ {j} : jobs'[k] = jobs[k]
             /\ jobs[j].step \notin {"share", "pictured"} \cup Acquiring /\ jobs'[j].step \notin {"share", "pictured"} \cup Acquiring
  BY <1>1, <1>2 DEF Becomes, CallSteps, Acquiring
<1>3. ASSUME NEW step \in {"capped", "refused", "model", "judge", "unavailable"}, Becomes(j, [job EXCEPT !.step = step]),
             UNCHANGED <<sharing, picture>>, job.step \in {"new"} \cup CallSteps
      PROVE  \E next : Becomes(j, next) /\ next.step \notin {"share", "pictured"} \cup Acquiring
  <2>1. [job EXCEPT !.step = step].step = step
    BY <1>1 DEF JobRecords
  <2> QED BY <2>1, <1>3 DEF Acquiring
<1>4. ASSUME NEW next, NEW same, Becomes(j, next), Follows(next, same)
      PROVE  next.step \notin {"share", "pictured"} \cup Acquiring
  BY <1>4 DEF Follows, Acquiring
<1>5. CASE OpenGame(j)
  <2>1. [job EXCEPT !.step = "generate", !.attempt = 1].step = "generate"
    BY <1>1 DEF JobRecords
  <2>2. "generate" \notin {"share", "pictured"} \cup Acquiring
    BY DEF Acquiring
  <2> QED BY <2>1, <2>2, <1>2, <1>3, <1>5 DEF OpenGame, StepOf
<1>6. CASE CheckUsage(j)
  <2>0. job.step \in CallSteps /\ UNCHANGED <<sharing, picture>> /\ Going(job)
    BY <1>6, <1>1 DEF CheckUsage, Calling, CallSteps, JobSound
  <2>1. CASE job.reached \/ usage >= Cap
    <3> DEFINE same == [job EXCEPT !.reached = TRUE]
    <3>1. same \in JobRecords /\ same.best = job.best /\ same.current = job.current /\ same.round = job.round /\ same.attempt = job.attempt
      BY <1>1 DEF JobRecords
    <3>2. Becomes(j, Nothing(same))
      BY <1>6, <2>1 DEF CheckUsage
    <3> HIDE DEF same
    <3>3. Follows(Nothing(same), same)
      BY <3>1, <2>0, NothingEnds DEF Going
    <3> QED BY <3>2, <3>3, <2>0, <1>2, <1>4
  <2>2. CASE ~(job.reached \/ usage >= Cap)
    BY <2>0, <2>2, <1>2, <1>3, <1>6 DEF CheckUsage
  <2> QED BY <2>1, <2>2
<1>7. CASE NoAnswer(j) \/ Refuse(j)
  <2>1. job.step \in CallSteps /\ Becomes(j, Nothing(job)) /\ UNCHANGED <<sharing, picture>>
    BY <1>7 DEF NoAnswer, Refuse, StepOf, CallSteps
  <2>2. Follows(Nothing(job), job)
    BY <2>1, <1>1, NothingEnds DEF JobSound
  <2> QED BY <2>1, <2>2, <1>2, <1>4
<1>8. CASE Bill(j) \/ CheckFails(j)
  BY <1>2, <1>3, <1>8 DEF Bill, CheckFails, StepOf, CallSteps
<1>9. CASE Check(j)
  <2> DEFINE same == [job EXCEPT !.made = @ + 1]
  <2>1. PICK e \in 0..MaxErrors : Becomes(j, AfterCheck(same, [id |-> same.made, errors |-> e])) /\ UNCHANGED <<sharing, picture>>
    BY <1>9 DEF Check
  <2>2. job.step = "judge"
    BY <1>9 DEF Check, StepOf
  <2>3. /\ same \in JobRecords /\ same.best = job.best /\ same.current = job.current /\ same.round = job.round
        /\ same.attempt = job.attempt /\ same.made > 0 /\ same.reached = job.reached
    BY <1>1 DEF JobRecords
  <2> DEFINE d == [id |-> same.made, errors |-> e]
  <2>4. d \in Drafts /\ d.id > 0
    BY <2>3, StudioAssumption DEF Drafts, JobRecords
  <2> HIDE DEF same
  <2>5. Going(same) /\ ~same.reached
    BY <2>2, <2>3, <1>1 DEF Going, JobSound, CallSteps
  <2>6. Becomes(j, AfterCheck(same, d))
    BY <2>1
  <2> HIDE DEF d
  <2>7. Follows(AfterCheck(same, d), same)
    BY <2>3, <2>4, <2>5, CheckEnds
  <2> QED BY <2>1, <2>2, <2>6, <2>7, <1>2, <1>4 DEF CallSteps
<1> QED BY <1>5, <1>6, <1>7, <1>8, <1>9 DEF DraftStep

SharedInv == SharingInv /\ PictureInv

\* Who has made a picture does not change: nor does what it was billed become less.
LEMMA PicturesStay ==
  ASSUME PictureInv, picture' = picture, picture \in Jobs \cup {NoPicture}, \A k \in Jobs : billed'[k] >= billed[k], billed' \in [Jobs -> Nat], billed \in [Jobs -> Nat],
         \A k \in Jobs :
           /\ (jobs'[k].step = "pictured" <=> jobs[k].step = "pictured")
           /\ (jobs'[k].step = "pictured" => jobs'[k].got = jobs[k].got /\ jobs'[k].isolate = jobs[k].isolate)
           /\ \/ jobs'[k].step \notin {"paint", "store"}
              \/ jobs[k].step \in {"paint", "store"} /\ jobs'[k].isolate = jobs[k].isolate
              \/ picture = NoPicture
  PROVE  PictureInv'
<1>1. \A k \in Jobs : Made(k)' <=> Made(k)
  BY DEF Made
<1>2. picture' # NoPicture => Made(picture)'
  BY <1>1 DEF PictureInv
<1>3. ASSUME NEW j \in Jobs, jobs'[j].step = "pictured"
      PROVE  picture' # NoPicture /\ \E m \in Jobs : jobs'[j].got = m /\ Made(m)'
  BY <1>1, <1>3 DEF PictureInv
<1>4. ASSUME NEW j \in Jobs, Made(j)'
      PROVE  billed'[j] >= 1
  BY <1>1, <1>4 DEF PictureInv
<1>5. ASSUME NEW j \in Jobs, NEW k \in Jobs, Made(j)', jobs'[k].step \in {"paint", "store"}
      PROVE  jobs'[j].isolate # jobs'[k].isolate
  <2>1. Made(j) /\ jobs'[j].isolate = jobs[j].isolate /\ picture # NoPicture
    BY <1>1, <1>5 DEF PictureInv, Made
  <2> QED BY <2>1, <1>5 DEF PictureInv
<1>6. ASSUME NEW j \in Jobs, NEW k \in Jobs, Made(j)', Made(k)', jobs'[j].isolate = jobs'[k].isolate
      PROVE  j = k
  <2>1. Made(j) /\ Made(k) /\ jobs[j].isolate = jobs[k].isolate
    BY <1>1, <1>6 DEF Made
  <2> QED BY <2>1 DEF PictureInv
<1> QED BY <1>2, <1>3, <1>4, <1>5, <1>6 DEF PictureInv

LEMMA InitShared == StudioInit => SharedInv
<1>1. NoJob.step = "new" /\ "new" \notin {"share", "pictured"} \cup Acquiring
  BY DEF NoJob, Acquiring
<1> QED BY <1>1 DEF StudioInit, SharedInv, SharingInv, PictureInv, Made, Acquiring

LEMMA SettleKeepsShared ==
  ASSUME DraftInv, SharedInv, NEW j \in Jobs, jobs[j].step \in Acquiring, UNCHANGED billed,
         NEW step \in {"pictured", "capped", "failed"}, NEW image, Settle(j, step, image),
         step # "pictured" => picture' = picture,
         step = "pictured" => \/ image = picture /\ picture' = picture /\ picture # NoPicture
                              \/ image = j /\ picture' = j /\ jobs[j].step = "store" /\ billed[j] >= 1
  PROVE  SharedInv'
<1> DEFINE i == jobs[j].isolate
           Settled(k) == k = j \/ (jobs[k].step = "share" /\ jobs[k].isolate = i)
<1>1. \A k \in Jobs : jobs[k] \in JobRecords
  BY DEF DraftInv, StudioTypes
<1>2. i \in Isolates /\ sharing[i] = j /\ sharing' = [sharing EXCEPT ![i] = NoPicture] /\ sharing \in [Isolates -> Jobs \cup {NoPicture}]
  BY DEF SharedInv, SharingInv, Settle, DraftInv, StudioTypes
<1>3. \A k \in Jobs : IF Settled(k) THEN jobs'[k].step = step /\ jobs'[k].got = image /\ jobs'[k].isolate = jobs[k].isolate
                                    ELSE jobs'[k] = jobs[k]
  <2>1. \A k \in Jobs : jobs'[k] = IF Settled(k) THEN [jobs[k] EXCEPT !.step = step, !.got = image] ELSE jobs[k]
    BY DEF Settle
  <2> QED BY <2>1, <1>1 DEF JobRecords
<1>4. step \notin {"share", "paint", "store"} \cup Acquiring
  BY DEF Acquiring
<1>5. ASSUME NEW h \in Isolates, sharing'[h] # NoPicture
      PROVE  jobs'[sharing'[h]].isolate = h /\ jobs'[sharing'[h]].step \in Acquiring
  <2>1. h # i /\ sharing'[h] = sharing[h] /\ sharing[h] \in Jobs
    BY <1>2, <1>5
  <2>2. jobs[sharing[h]].isolate = h /\ jobs[sharing[h]].step \in Acquiring
    BY <2>1, <1>5 DEF SharedInv, SharingInv, DraftInv, StudioTypes
  <2>3. ~Settled(sharing[h])
    BY <2>1, <2>2 DEF Acquiring
  <2> QED BY <2>1, <2>2, <2>3, <1>3
<1>6. ASSUME NEW k \in Jobs, jobs'[k].step \in Acquiring
      PROVE  jobs'[k].isolate \in Isolates /\ sharing'[jobs'[k].isolate] = k
  <2>1. jobs'[k] = jobs[k] /\ k # j
    BY <1>3, <1>4, <1>6
  <2> QED BY <2>1, <1>2, <1>6 DEF SharedInv, SharingInv
<1>7. ASSUME NEW k \in Jobs, jobs'[k].step = "share"
      PROVE  jobs'[k].isolate \in Isolates /\ sharing'[jobs'[k].isolate] # NoPicture
  <2>1. jobs'[k] = jobs[k] /\ jobs[k].isolate # i
    BY <1>3, <1>4, <1>7
  <2> QED BY <2>1, <1>2, <1>7 DEF SharedInv, SharingInv
<1>8. NoPicture \notin Jobs /\ billed \in [Jobs -> Nat] /\ picture \in Jobs \cup {NoPicture} /\ \A k \in Jobs : Settled(k) => jobs[k].step \in {"share"} \cup Acquiring
  BY StudioAssumption DEF DraftInv, StudioTypes
<1>9. ASSUME step # "pictured"
      PROVE  PictureInv'
  <2>1. \A k \in Jobs : Settled(k) => jobs[k].step # "pictured" /\ jobs'[k].step \notin {"pictured", "paint", "store"}
    BY <1>3, <1>4, <1>8, <1>9 DEF Acquiring
  <2> HIDE DEF Settled
  <2>2. PictureInv'
    BY <1>3, <1>8, <1>9, <2>1, PicturesStay DEF SharedInv
  <2> QED BY <2>2
<1>10. ASSUME step = "pictured"
       PROVE  PictureInv'
  <2>1. \A k \in Jobs : Settled(k) => jobs[k].step # "pictured" /\ jobs'[k].step = "pictured" /\ jobs'[k].got = image
    BY <1>3, <1>8, <1>10 DEF Acquiring
  <2>2. ASSUME NEW k \in Jobs
        PROVE  Made(k)' <=> Made(k) \/ (k = j /\ image = j)
    <3>1. CASE Settled(k)
      <4>1. ~Made(k) /\ (Made(k)' <=> image = k)
        BY <2>1, <3>1 DEF Made
      <4>2. image = k => k = j
        <5>1. image = picture /\ picture # NoPicture => Made(image)
          BY DEF SharedInv, PictureInv
        <5> QED BY <4>1, <5>1, <1>10
      <4> QED BY <4>1, <4>2
    <3>2. CASE ~Settled(k)
      BY <1>3, <3>2 DEF Made
    <3> QED BY <3>1, <3>2
  <2>3. \A k \in Jobs : jobs'[k].isolate = jobs[k].isolate
    BY <1>3
  <2>4. image \in Jobs /\ picture' = image /\ Made(image)'
    <3>1. CASE image = picture /\ picture' = picture /\ picture # NoPicture
      <4>1. picture \in Jobs /\ Made(picture)
        BY <3>1 DEF SharedInv, PictureInv, DraftInv, StudioTypes
      <4> QED BY <2>2, <3>1, <4>1
    <3>2. CASE image = j /\ picture' = j
      <4>1. Made(j)'
        BY <2>2, <3>2
      <4> QED BY <3>2, <4>1
    <3> QED BY <3>1, <3>2, <1>10
  <2>5. ASSUME NEW k \in Jobs, jobs'[k].step = "pictured"
        PROVE  \E m \in Jobs : jobs'[k].got = m /\ Made(m)'
    <3>1. CASE Settled(k)
      BY <2>1, <2>4, <3>1
    <3>2. CASE ~Settled(k)
      <4>1. jobs'[k] = jobs[k]
        BY <1>3, <3>2
      <4>2. PICK m \in Jobs : jobs[k].got = m /\ Made(m)
        BY <2>5, <4>1 DEF SharedInv, PictureInv
      <4> QED BY <2>2, <4>1, <4>2
    <3> QED BY <3>1, <3>2
  <2>6. ASSUME NEW k \in Jobs, Made(k)'
        PROVE  billed'[k] >= 1
    <3>1. CASE Made(k)
      BY <3>1 DEF SharedInv, PictureInv
    <3>2. CASE ~Made(k)
      <4>1. k = j /\ image = j
        BY <2>2, <2>6, <3>2
      <4>2. picture # j
        BY <3>2, <4>1, <1>8 DEF SharedInv, PictureInv
      <4> QED BY <4>1, <4>2, <1>10
    <3> QED BY <3>1, <3>2
  <2>7. ASSUME NEW k \in Jobs, jobs'[k].step \in {"paint", "store"}
        PROVE  jobs[k].step \in {"paint", "store"} /\ jobs[k].isolate # i
    <3>1. jobs'[k] = jobs[k] /\ k # j
      BY <1>3, <1>4, <2>7
    <3>2. jobs[k].step \in Acquiring
      BY <2>7, <3>1 DEF Acquiring
    <3> QED BY <1>2, <2>7, <3>1, <3>2 DEF SharedInv, SharingInv
  <2>8. ASSUME NEW k \in Jobs, NEW l \in Jobs, Made(k)', jobs'[l].step \in {"paint", "store"}
        PROVE  jobs'[k].isolate # jobs'[l].isolate
    BY <2>2, <2>3, <2>7, <2>8 DEF SharedInv, PictureInv
  <2>9. ASSUME NEW k \in Jobs, Made(k), image = j, ~Made(j)
        PROVE  jobs[k].isolate # i
    <3>1. picture # j
      BY <2>9, <1>8 DEF SharedInv, PictureInv
    <3>2. jobs[j].step = "store"
      BY <2>9, <3>1, <1>10
    <3> QED BY <2>9, <3>2 DEF SharedInv, PictureInv
  <2>10. ASSUME NEW k \in Jobs, NEW l \in Jobs, Made(k)', Made(l)', jobs'[k].isolate = jobs'[l].isolate
         PROVE  k = l
    <3>1. CASE Made(k) /\ Made(l)
      BY <2>3, <2>10, <3>1 DEF SharedInv, PictureInv
    <3>2. CASE ~Made(k) \/ ~Made(l)
      BY <2>2, <2>3, <2>9, <2>10, <3>2
    <3> QED BY <3>1, <3>2
  <2>11. picture' # NoPicture /\ Made(picture)'
    BY <2>4, <1>8
  <2> QED BY <2>5, <2>6, <2>8, <2>10, <2>11 DEF PictureInv
<1>11. PictureInv'
  BY <1>9, <1>10
<1> QED BY <1>5, <1>6, <1>7, <1>11 DEF SharedInv, SharingInv

LEMMA StepKeepsShared ==
  ASSUME DraftInv, DraftInv', AnswerInv, SharedInv, StudioNext
  PROVE  SharedInv'
<1>0. /\ billed \in [Jobs -> Nat] /\ billed' \in [Jobs -> Nat] /\ \A k \in Jobs : billed'[k] >= billed[k]
      /\ picture \in Jobs \cup {NoPicture}
      /\ \A k \in Jobs : jobs[k].step = "store" => billed[k] >= 1
  <2>1. \A k \in Jobs : billed'[k] >= billed[k]
    BY StepKeepsAnswers
  <2>2. \A k \in Jobs : jobs[k].step = "store" => billed[k] >= 1
    BY DEF AnswerInv, Looking
  <2> QED BY <2>1, <2>2 DEF DraftInv, StudioTypes
<1>1. /\ jobs \in [Jobs -> JobRecords] /\ sharing \in [Isolates -> Jobs \cup {NoPicture}]
      /\ NoPicture \notin Jobs
  BY StudioAssumption DEF DraftInv, StudioTypes
<1>2. ASSUME NEW j \in Jobs, DraftStep(j)
      PROVE  SharedInv'
  <2>1. /\ UNCHANGED <<sharing, picture>> /\ \A k \in Jobs \ {j} : jobs'[k] = jobs[k]
        /\ jobs[j].step \notin {"share", "pictured"} \cup Acquiring /\ jobs'[j].step \notin {"share", "pictured"} \cup Acquiring
    BY <1>2, DraftsApart
  <2>2. SharingInv'
    <3>1. \A i \in Isolates : sharing[i] # NoPicture => sharing[i] \in Jobs \ {j}
      BY <1>1, <2>1 DEF SharedInv, SharingInv
    <3> QED BY <2>1, <3>1 DEF SharedInv, SharingInv
  <2>3. \A k \in Jobs : jobs'[k] = jobs[k] \/ (k = j /\ jobs[k].step # "pictured" /\ jobs'[k].step \notin {"pictured", "paint", "store"})
    BY <2>1 DEF Acquiring
  <2>4. PictureInv'
    BY <2>1, <2>3, <1>0, PicturesStay DEF SharedInv
  <2> QED BY <2>2, <2>4 DEF SharedInv
<1>3. ASSUME NEW j \in Jobs, NEW i \in Isolates, OpenPicture(j, i)
      PROVE  SharedInv'
  <2>1. /\ picture' = picture /\ \A k \in Jobs \ {j} : jobs'[k] = jobs[k]
        /\ jobs[j].step = "new" /\ jobs'[j].isolate = i
        /\ jobs'[j].step = IF sharing[i] = NoPicture THEN "cache" ELSE "share"
        /\ sharing' = IF sharing[i] = NoPicture THEN [sharing EXCEPT ![i] = j] ELSE sharing
    BY <1>1, <1>3 DEF OpenPicture, Becomes, StepOf, JobRecords
  <2>2. \A h \in Isolates : sharing[h] # NoPicture => sharing[h] \in Jobs \ {j}
    BY <1>1, <2>1 DEF SharedInv, SharingInv, Acquiring
  <2>3. \A h \in Isolates : sharing'[h] = IF h = i /\ sharing[i] = NoPicture THEN j ELSE sharing[h]
    BY <2>1, <1>1
  <2>4. ASSUME NEW h \in Isolates, sharing'[h] # NoPicture
        PROVE  jobs'[sharing'[h]].isolate = h /\ jobs'[sharing'[h]].step \in Acquiring
    BY <2>1, <2>2, <2>3, <2>4 DEF SharedInv, SharingInv, Acquiring
  <2>5. ASSUME NEW k \in Jobs, jobs'[k].step \in Acquiring
        PROVE  jobs'[k].isolate \in Isolates /\ sharing'[jobs'[k].isolate] = k
    <3>1. CASE k = j
      BY <3>1, <2>1, <2>3, <2>5 DEF Acquiring
    <3>2. CASE k # j
      BY <3>2, <2>1, <2>3, <2>5, <1>1 DEF SharedInv, SharingInv
    <3> QED BY <3>1, <3>2
  <2>6. ASSUME NEW k \in Jobs, jobs'[k].step = "share"
        PROVE  jobs'[k].isolate \in Isolates /\ sharing'[jobs'[k].isolate] # NoPicture
    <3>1. CASE k = j
      BY <3>1, <2>1, <2>3, <2>6
    <3>2. CASE k # j
      BY <3>2, <2>1, <2>3, <2>6, <1>1 DEF SharedInv, SharingInv
    <3> QED BY <3>1, <3>2
  <2>7. PictureInv'
    <3>1. \A k \in Jobs : jobs'[k] = jobs[k] \/ (k = j /\ jobs[k].step = "new" /\ jobs'[k].step \in {"cache", "share"})
      BY <2>1
    <3> QED BY <2>1, <3>1, <1>0, PicturesStay DEF SharedInv
  <2> QED BY <2>4, <2>5, <2>6, <2>7 DEF SharedInv, SharingInv
<1>4. ASSUME NEW j \in Jobs, NEW step \in {"paint", "store"}, jobs[j].step \in Acquiring, Becomes(j, [jobs[j] EXCEPT !.step = step]),
             UNCHANGED <<sharing, picture>>, jobs[j].step = "paint" \/ picture = NoPicture
      PROVE  SharedInv'
  <2>1. jobs'[j].step = step /\ jobs'[j].isolate = jobs[j].isolate /\ \A k \in Jobs \ {j} : jobs'[k] = jobs[k]
    BY <1>1, <1>4 DEF Becomes, JobRecords
  <2>2. \A k \in Jobs : /\ jobs'[k].isolate = jobs[k].isolate
                        /\ jobs'[k].step \in Acquiring <=> jobs[k].step \in Acquiring
                        /\ jobs'[k].step = "share" <=> jobs[k].step = "share"
    BY <2>1, <1>4 DEF Acquiring
  <2>3. SharingInv'
    BY <2>2, <1>1, <1>4 DEF SharedInv, SharingInv
  <2>4. PictureInv'
    <3>1. \A k \in Jobs : \/ jobs'[k] = jobs[k]
                         \/ /\ k = j /\ jobs[k].step # "pictured" /\ jobs'[k].step = step /\ jobs'[k].isolate = jobs[k].isolate
                            /\ jobs[k].step = "paint" \/ picture = NoPicture
      BY <2>1, <1>4 DEF Acquiring
    <3> QED BY <3>1, <1>0, <1>4, PicturesStay DEF SharedInv
  <2> QED BY <2>3, <2>4 DEF SharedInv
<1>5. ASSUME NEW j \in Jobs, ReadPicture(j)
      PROVE  SharedInv'
  <2>1. jobs[j].step = "cache" /\ picture' = picture /\ billed' = billed /\ "cache" \in Acquiring
    BY <1>5 DEF ReadPicture, StepOf, Acquiring
  <2>2. CASE picture # NoPicture /\ Settle(j, "pictured", picture)
    BY <2>1, <2>2, SettleKeepsShared
  <2>3. CASE Settle(j, "capped", NoPicture)
    BY <2>1, <2>3, SettleKeepsShared
  <2>4. CASE picture = NoPicture /\ Becomes(j, [jobs[j] EXCEPT !.step = "paint"]) /\ UNCHANGED sharing
    BY <2>1, <2>4, <1>4
  <2> QED BY <2>2, <2>3, <2>4, <1>5 DEF ReadPicture
<1>6. ASSUME NEW j \in Jobs, BillPicture(j)
      PROVE  SharedInv'
  <2>1. jobs[j].step = "paint" /\ "paint" \in Acquiring /\ Becomes(j, [jobs[j] EXCEPT !.step = "store"]) /\ UNCHANGED <<sharing, picture>>
    BY <1>6 DEF BillPicture, StepOf, Acquiring
  <2> QED BY <2>1, <1>4
<1>7. ASSUME NEW j \in Jobs, LosePicture(j)
      PROVE  SharedInv'
  <2>1. jobs[j].step \in Acquiring /\ Settle(j, "failed", NoPicture) /\ picture' = picture /\ billed' = billed
    BY <1>7 DEF LosePicture, Acquiring
  <2> QED BY <2>1, SettleKeepsShared
<1>8. ASSUME NEW j \in Jobs, StorePicture(j)
      PROVE  SharedInv'
  <2>1. jobs[j].step = "store" /\ "store" \in Acquiring /\ Settle(j, "pictured", j) /\ picture' = j /\ billed' = billed
    BY <1>8 DEF StorePicture, StepOf, Acquiring
  <2> QED BY <2>1, <1>0, SettleKeepsShared
<1> QED BY <1>2, <1>3, <1>5, <1>6, <1>7, <1>8 DEF StudioNext, DraftStep

-----------------------------------------------------------------------------
LEMMA StudioInvariant == StudioSpec => []StudioInv
<1>1. StudioInit => StudioInv
  BY InitDrafts, InitUsage, InitAnswers, InitShared DEF StudioInv, SharedInv
<1>2. StudioInv /\ [StudioNext]_studioVars => StudioInv'
  <2>1. CASE StudioNext
    BY <2>1, StepKeepsDrafts, StepKeepsUsage, StepKeepsAnswers, StepKeepsShared DEF StudioInv, SharedInv
  <2>2. CASE UNCHANGED studioVars
    BY <2>2 DEF studioVars, StudioInv, DraftInv, StudioTypes, UsageInv, UnderWay, AnswerInv, Looking, SharingInv, PictureInv, Made
  <2> QED BY <2>1, <2>2
<1> QED BY <1>1, <1>2, PTL DEF StudioSpec

LEMMA UsageFollows == StudioInv => UsageIsBilled
<1> SUFFICES ASSUME StudioInv
             PROVE  UsageIsBilled
  OBVIOUS
<1>1. UnderWay \subseteq Jobs /\ Cardinality(UnderWay) \in Nat /\ Cardinality(Jobs) \in Nat
  BY StudioAssumption, FS_Subset, FS_CardinalityType DEF UnderWay
<1>2. usage \in Nat /\ Cap \in Nat
  BY StudioAssumption DEF StudioInv, DraftInv, StudioTypes
<1>3. usage <= IF Cap = 0 THEN 0 ELSE Cap - 1 + Cardinality(Jobs)
  BY <1>1, <1>2 DEF StudioInv, UsageInv
<1>4. \A j \in Jobs : jobs[j].reached => usage >= Cap /\ jobs[j].step \notin {"model", "judge", "drafted"}
  BY DEF StudioInv, UsageInv, DraftInv, JobSound
<1>5. usage = SumFunction(billed) /\ \A j \in Jobs : billed[j] = used[j] + IF jobs[j].step \in {"judge", "store"} THEN 1 ELSE 0
  BY DEF StudioInv, AnswerInv, Looking
<1> QED BY <1>3, <1>4, <1>5 DEF UsageIsBilled

\* Requests of one account overtake each other: the day's usage is what they were billed,
\* each of them just the answers that it looked at, and at most one call of each is above
\* the cap.  (createMeteredModelFetch, recordUsage.)
THEOREM UsageAlwaysBilled == StudioSpec => []UsageIsBilled
BY StudioInvariant, UsageFollows, PTL

\* In any number of isolates: besides, nobody waits for a picture that nobody acquires,
\* no isolate makes and stores one twice, and everybody is answered one that was paid
\* for.  (inFlight of handleDraftArtwork.)
THEOREM StudioAlwaysSound == StudioSpec => []StudioIsSound
<1>1. StudioInv => PicturesAreShared
  <2> SUFFICES ASSUME StudioInv
               PROVE  PicturesAreShared
    OBVIOUS
  <2>1. ASSUME NEW j \in Jobs, jobs[j].step = "pictured"
        PROVE  picture # NoPicture /\ \E maker \in Jobs : jobs[j].got = maker /\ Made(maker) /\ billed[maker] >= 1
    BY <2>1 DEF StudioInv, PictureInv
  <2>2. ASSUME NEW j \in Jobs, jobs[j].step = "share"
        PROVE  LET maker == sharing[jobs[j].isolate]
               IN maker # NoPicture /\ jobs[maker].step \in Acquiring /\ jobs[maker].isolate = jobs[j].isolate
    BY <2>2 DEF StudioInv, SharingInv
  <2>3. picture # NoPicture => Made(picture)
    BY DEF StudioInv, PictureInv
  <2>4. \A j, k \in Jobs : Made(j) /\ Made(k) /\ jobs[j].isolate = jobs[k].isolate => j = k
    BY DEF StudioInv, PictureInv
  <2> QED BY <2>1, <2>2, <2>3, <2>4 DEF PicturesAreShared, Acquiring
<1> QED BY <1>1, StudioInvariant, UsageFollows, PTL DEF StudioIsSound

\* Where a round has one try, as the application configures it, refinement keeps its
\* best draft, answers only one without errors, within its calls, and patches the draft
\* that the model was shown.  (runIterativeRefinement.)
THEOREM BestDraftAlwaysKept ==
  ASSUME Tries = 1
  PROVE  StudioSpec => BestDraftIsKept
<1> DEFINE Kept ==
       \A j \in Jobs :
         LET was == jobs[j]
             job == jobs'[j] IN
         /\ was.best # NoDraft => job.best.errors <= was.best.errors
         /\ job.best.errors <= job.current.errors
         /\ job.step = "drafted" => job.best.errors = 0 /\ job.best # NoDraft /\ ~job.reached
         /\ job.step \in {"refine", "model", "judge"} /\ job.round > 0 => job.shown = job.current
         /\ billed'[j] <= Attempts + Rounds * Tries
<1>1. StudioInv /\ StudioInv' /\ [StudioNext]_studioVars => [Kept]_studioVars
  <2> SUFFICES ASSUME StudioInv, StudioInv', StudioNext, NEW j \in Jobs
               PROVE  /\ jobs[j].best # NoDraft => jobs'[j].best.errors <= jobs[j].best.errors
                      /\ jobs'[j].best.errors <= jobs'[j].current.errors
                      /\ jobs'[j].step = "drafted" => jobs'[j].best.errors = 0 /\ jobs'[j].best # NoDraft /\ ~jobs'[j].reached
                      /\ jobs'[j].step \in {"refine", "model", "judge"} /\ jobs'[j].round > 0 => jobs'[j].shown = jobs'[j].current
                      /\ billed'[j] <= Attempts + Rounds * Tries
    OBVIOUS
  <2>1. BestKept
    BY StepKeepsDrafts DEF StudioInv
  <2>2. JobSound(jobs'[j]) /\ jobs'[j] \in JobRecords /\ billed'[j] <= Spent(jobs'[j]) /\ billed'[j] \in Nat
    BY DEF StudioInv, DraftInv, StudioTypes
  <2>3. NoDraft.id = 0
    BY DEF NoDraft
  <2>4. billed'[j] <= AllCalls
    <3>1. Spent(jobs'[j]) \in Nat /\ Spent(jobs'[j]) <= AllCalls /\ AllCalls \in Nat
      BY <2>2, SpentBounded, StudioAssumption DEF AllCalls
    <3> QED BY <2>2, <3>1
  <2> QED BY <2>1, <2>2, <2>3, <2>4 DEF BestKept, JobSound, CallSteps, AllCalls
<1> QED BY <1>1, StudioInvariant, PTL DEF StudioSpec, BestDraftIsKept

-----------------------------------------------------------------------------
RoomRecords ==
  [status : {"none", "open", "ended"}, players : Nat, before : Nat, active : Int, connected : Int, open : BOOLEAN]
RequestSteps ==
  {"new", "select", "claim", "lookup", "enter", "reconcile", "insert", "init", "delete", "count", "done", "refused"}
RequestRecords ==
  [step : RequestSteps, kind : {"none", "quick", "host", "code"}, room : Rooms \cup {NoRow}, tried : SUBSET Rooms,
   outcome : {"none", "ok", "full", "ended", "ineligible", "not_found"}, count : Int]

\* A request knows of a seat only when it is through with its room.
SeatInv ==
  /\ rooms \in [Rooms -> RoomRecords] /\ request \in [Requests -> RequestRecords] /\ faults \in Nat
  /\ \A q \in Requests :
       /\ request[q].outcome = "ok" => request[q].step \in {"count", "done", "refused"}
       /\ request[q].step \in {"claim", "enter", "reconcile", "init", "delete", "count"} => request[q].room \in Rooms
  /\ SeatsAreAccountedFor

Knows(r) == {q \in Requests : request[q].room = r /\ request[q].outcome = "ok"}

LEMMA SeatsCounted ==
  SeatsAreAccountedFor <=>
    \A r \in Rooms : /\ rooms[r].before + Cardinality(Knows(r)) <= rooms[r].players
                     /\ rooms[r].players <= rooms[r].before + Cardinality(Knows(r)) + faults
                     /\ rooms[r].players <= Capacity
BY DEF SeatsAreAccountedFor, Knows

LEMMA SeatsCountedNext ==
  SeatsAreAccountedFor' <=>
    \A r \in Rooms : /\ rooms'[r].before + Cardinality(Knows(r)') <= rooms'[r].players
                     /\ rooms'[r].players <= rooms'[r].before + Cardinality(Knows(r)') + faults'
                     /\ rooms'[r].players <= Capacity
BY DEF SeatsAreAccountedFor, Knows

LEMMA KnowersCount ==
  ASSUME NEW r
  PROVE  IsFiniteSet(Knows(r)) /\ Cardinality(Knows(r)) \in Nat
<1>1. Knows(r) \subseteq Requests
  BY DEF Knows
<1> QED BY <1>1, DirectoryAssumption, FS_Subset, FS_CardinalityType

LEMMA InitSeats == DirectoryInit => SeatInv
<1> SUFFICES ASSUME DirectoryInit
             PROVE  SeatInv
  OBVIOUS
<1>1. PICK old \in {{}, {CHOOSE r \in Rooms : TRUE}} :
        /\ rooms = [r \in Rooms |->
             IF r \in old
             THEN [status |-> "open", players |-> 1, before |-> 1, active |-> 1, connected |-> 1, open |-> TRUE]
             ELSE [status |-> "none", players |-> 0, before |-> 0, active |-> 0, connected |-> 0, open |-> FALSE]]
        /\ faults = IF old = {} THEN 0 ELSE MaxFaults
  BY DEF DirectoryInit
<1>2. request = [q \in Requests |-> [step |-> "new", kind |-> "none", room |-> NoRow, tried |-> {}, outcome |-> "none", count |-> 0]]
  BY DEF DirectoryInit
<1>3. faults \in Nat /\ Capacity \in Nat \ {0}
  BY <1>1, DirectoryAssumption
<1>4. rooms \in [Rooms -> RoomRecords] /\ request \in [Requests -> RequestRecords]
  BY <1>1, <1>2 DEF RoomRecords, RequestRecords, RequestSteps
<1>5. \A r \in Rooms : Knows(r) = {} /\ rooms[r].before = rooms[r].players /\ rooms[r].players \in {0, 1}
  BY <1>1, <1>2 DEF Knows
<1>6. Cardinality({}) = 0
  BY FS_EmptySet
<1>7. SeatsAreAccountedFor
  BY <1>3, <1>5, <1>6, SeatsCounted
<1> QED BY <1>2, <1>3, <1>4, <1>7 DEF SeatInv

\* Steps that seat nobody.
LEMMA NobodySeated ==
  ASSUME SeatInv, rooms' \in [Rooms -> RoomRecords], request' \in [Requests -> RequestRecords], faults' \in {faults, faults + 1},
         \A r \in Rooms : rooms'[r].players = rooms[r].players /\ rooms'[r].before = rooms[r].before,
         \A q \in Requests :
           \/ request'[q] = request[q]
           \/ /\ request'[q].outcome = request[q].outcome
              /\ IF request[q].outcome = "ok" THEN request'[q].room = request[q].room /\ request'[q].step \in {"done", "refused"} ELSE TRUE
              /\ request'[q].step \in {"claim", "enter", "reconcile", "init", "delete", "count"} => request'[q].room \in Rooms
  PROVE  SeatInv'
<1>1. \A r \in Rooms : Knows(r)' = Knows(r)
  BY DEF Knows
<1>2. ASSUME NEW r \in Rooms
      PROVE  /\ rooms'[r].before + Cardinality(Knows(r)') <= rooms'[r].players
             /\ rooms'[r].players <= rooms'[r].before + Cardinality(Knows(r)') + faults'
             /\ rooms'[r].players <= Capacity
  <2>1. Cardinality(Knows(r)) \in Nat /\ rooms[r].before \in Nat /\ rooms[r].players \in Nat /\ faults \in Nat
    BY KnowersCount DEF SeatInv, RoomRecords
  <2>2. /\ rooms[r].before + Cardinality(Knows(r)) <= rooms[r].players
        /\ rooms[r].players <= rooms[r].before + Cardinality(Knows(r)) + faults
        /\ rooms[r].players <= Capacity
    BY SeatsCounted DEF SeatInv
  <2> QED BY <2>1, <2>2, <1>1
<1>3. SeatsAreAccountedFor'
  BY <1>2, SeatsCountedNext
<1> QED BY <1>3 DEF SeatInv

LEMMA AfterEnterIs ==
  ASSUME NEW kind, NEW answer
  PROVE  /\ AfterEnter(kind, answer) \in {"done", "count", "reconcile", "delete", "refused"}
         /\ answer = "ok" => AfterEnter(kind, answer) \in {"done", "count"}
BY DEF AfterEnter

LEMMA EnteringKeepsSeats ==
  ASSUME SeatInv, NEW q \in Requests, Enter(q)
  PROVE  SeatInv'
<1> DEFINE r == request[q].room
           kind == request[q].kind
           outcome == Outcome(r, kind = "quick")
           joined == [rooms[r] EXCEPT !.players = @ + 1, !.active = @ + 1]
<1>1. /\ request[q].step = "enter" /\ r \in Rooms /\ request[q].outcome # "ok" /\ rooms[r] \in RoomRecords
      /\ request[q] \in RequestRecords /\ kind \in {"none", "quick", "host", "code"}
  BY DEF Enter, RequestAt, SeatInv, RequestRecords
<1>2. PICK answer \in {outcome, "not_found"} :
        /\ request' = [request EXCEPT ![q].outcome = answer, ![q].step = AfterEnter(kind, answer), ![q].count = joined.active]
        /\ faults' = IF answer = outcome THEN faults ELSE faults + 1
  BY DEF Enter
<1>3. rooms' = IF outcome = "ok" THEN [rooms EXCEPT ![r] = joined] ELSE rooms
  BY DEF Enter
<1>4. outcome \in {"ok", "full", "ended", "ineligible", "not_found"} /\ (outcome = "ok" => rooms[r].players < Capacity)
  BY <1>1, DirectoryAssumption DEF Outcome, RoomRecords
<1>5. joined \in RoomRecords /\ joined.players = rooms[r].players + 1 /\ joined.before = rooms[r].before /\ joined.active \in Int
  <2>1. rooms[r].players + 1 \in Nat /\ rooms[r].active + 1 \in Int
    BY <1>1 DEF RoomRecords
  <2>2. /\ joined.players = rooms[r].players + 1 /\ joined.active = rooms[r].active + 1
        /\ joined.before = rooms[r].before
    BY <1>1 DEF RoomRecords
  <2>3. joined \in RoomRecords
    BY <1>1, <2>1 DEF RoomRecords
  <2> QED BY <2>1, <2>2, <2>3
<1> DEFINE next == AfterEnter(kind, answer)
<1>6. /\ next \in {"done", "count", "reconcile", "delete", "refused"}
      /\ answer = "ok" => next \in {"done", "count"}
  BY AfterEnterIs
<1>7. /\ request'[q].outcome = answer /\ request'[q].step = next /\ request'[q].room = r
      /\ \A p \in Requests \ {q} : request'[p] = request[p]
  BY <1>1, <1>2 DEF SeatInv, RequestRecords
<1>8. request' \in [Requests -> RequestRecords]
  <2> HIDE DEF next, joined, outcome
  <2>1. [request[q] EXCEPT !.outcome = answer, !.step = next, !.count = joined.active] \in RequestRecords
    <3>1. next \in RequestSteps /\ answer \in {"none", "ok", "full", "ended", "ineligible", "not_found"}
      BY <1>2, <1>4, <1>6 DEF RequestSteps
    <3> QED BY <1>1, <1>5, <3>1 DEF RequestRecords
  <2>2. request' = [request EXCEPT ![q] = [request[q] EXCEPT !.outcome = answer, !.step = next, !.count = joined.active]]
    BY <1>1, <1>2 DEF next, SeatInv
  <2> QED BY <2>1, <2>2 DEF SeatInv
<1>9. rooms' \in [Rooms -> RoomRecords] /\ faults' \in Nat
  <2> HIDE DEF next, joined, outcome
  <2>1. rooms \in [Rooms -> RoomRecords] /\ faults \in Nat
    BY DEF SeatInv
  <2>2. rooms' \in [Rooms -> RoomRecords]
    BY <1>3, <1>5, <2>1
  <2>3. faults' \in Nat
    BY <1>2, <2>1
  <2> QED BY <2>2, <2>3
<1>10. ASSUME NEW s \in Rooms
       PROVE  /\ rooms'[s].before + Cardinality(Knows(s)') <= rooms'[s].players
              /\ rooms'[s].players <= rooms'[s].before + Cardinality(Knows(s)') + faults'
              /\ rooms'[s].players <= Capacity
  <2> HIDE DEF next, joined, outcome
  <2>1. /\ Cardinality(Knows(s)) \in Nat /\ IsFiniteSet(Knows(s))
        /\ rooms[s].before \in Nat /\ rooms[s].players \in Nat /\ faults \in Nat /\ faults' \in {faults, faults + 1}
        /\ Capacity \in Nat
    BY KnowersCount, DirectoryAssumption, <1>2 DEF SeatInv, RoomRecords
  <2>2. /\ rooms[s].before + Cardinality(Knows(s)) <= rooms[s].players
        /\ rooms[s].players <= rooms[s].before + Cardinality(Knows(s)) + faults
        /\ rooms[s].players <= Capacity
    BY SeatsCounted DEF SeatInv
  <2>3. q \notin Knows(s)
    BY <1>1 DEF Knows
  <2>4. Knows(s)' = IF answer = "ok" /\ s = r THEN Knows(s) \cup {q} ELSE Knows(s)
    BY <1>1, <1>7 DEF Knows
  <2>5. Cardinality(Knows(s) \cup {q}) = Cardinality(Knows(s)) + 1
    BY <2>1, <2>3, FS_AddElement
  <2>6. rooms'[s].before = rooms[s].before /\ rooms'[s].players = IF outcome = "ok" /\ s = r THEN rooms[s].players + 1 ELSE rooms[s].players
    BY <1>1, <1>3, <1>5 DEF SeatInv
  <2>7. CASE outcome = "ok" /\ s = r /\ answer = "ok"
    BY <2>1, <2>2, <2>4, <2>5, <2>6, <2>7, <1>4
  <2>8. CASE outcome = "ok" /\ s = r /\ answer # "ok"
    BY <2>1, <2>2, <2>4, <2>6, <2>8, <1>2, <1>4
  <2>9. CASE ~(outcome = "ok" /\ s = r)
    <3>1. Knows(s)' = Knows(s)
      BY <2>4, <2>9, <1>2
    <3> QED BY <2>1, <2>2, <2>6, <2>9, <3>1
  <2> QED BY <2>7, <2>8, <2>9
<1>11. SeatsAreAccountedFor'
  BY <1>10, SeatsCountedNext
<1>12. \A p \in Requests :
         /\ request'[p].outcome = "ok" => request'[p].step \in {"count", "done", "refused"}
         /\ request'[p].step \in {"claim", "enter", "reconcile", "init", "delete", "count"} => request'[p].room \in Rooms
  BY <1>1, <1>6, <1>7 DEF SeatInv
<1> QED BY <1>8, <1>9, <1>11, <1>12 DEF SeatInv

LEMMA StepKeepsSeats ==
  ASSUME SeatInv, DirectoryNext
  PROVE  SeatInv'
<1>1. rooms \in [Rooms -> RoomRecords] /\ request \in [Requests -> RequestRecords] /\ faults \in Nat
  BY DEF SeatInv
<1>2. ASSUME UNCHANGED <<rooms, request>>, faults' \in {faults, faults + 1}
      PROVE  SeatInv'
  BY <1>1, <1>2, NobodySeated
<1>3. ASSUME NEW r \in Rooms, UNCHANGED <<request, faults>>, NEW rm \in RoomRecords, rooms' = [rooms EXCEPT ![r] = rm],
             rm.players = rooms[r].players, rm.before = rooms[r].before
      PROVE  SeatInv'
  <2>1. rooms' \in [Rooms -> RoomRecords] /\ \A s \in Rooms : rooms'[s] = IF s = r THEN rm ELSE rooms[s]
    BY <1>1, <1>3
  <2> QED BY <1>1, <1>3, <2>1, NobodySeated
<1>4. ASSUME NEW q \in Requests, NEW next \in RequestRecords, request' = [request EXCEPT ![q] = next],
             UNCHANGED rooms, faults' \in {faults, faults + 1}, next.outcome = request[q].outcome,
             IF request[q].outcome = "ok" THEN next.room = request[q].room /\ next.step \in {"done", "refused"} ELSE TRUE,
             next.step \in {"claim", "enter", "reconcile", "init", "delete", "count"} => next.room \in Rooms
      PROVE  SeatInv'
  <2>1. request' \in [Requests -> RequestRecords] /\ \A p \in Requests : request'[p] = IF p = q THEN next ELSE request[p]
    BY <1>1, <1>4
  <2> QED BY <1>1, <1>4, <2>1, NobodySeated
<1>5. ASSUME NEW q \in Requests, NEW step \in RequestSteps, RequestGoes(q, step), UNCHANGED rooms, faults' \in {faults, faults + 1},
             request[q].outcome = "ok" => step \in {"done", "refused"},
             step \in {"claim", "enter", "reconcile", "init", "delete", "count"} => request[q].room \in Rooms
      PROVE  SeatInv'
  <2> DEFINE next == [request[q] EXCEPT !.step = step]
  <2>1. next \in RequestRecords /\ next.step = step /\ next.room = request[q].room /\ next.outcome = request[q].outcome
    BY <1>1 DEF RequestRecords
  <2>2. request' = [request EXCEPT ![q] = next]
    BY <1>1, <1>5 DEF RequestGoes
  <2> HIDE DEF next
  <2> QED BY <2>1, <2>2, <1>4, <1>5
<1>6. ASSUME NEW q \in Requests, Serve(q)
      PROVE  SeatInv'
  <2> DEFINE now == request[q]
  <2>0. /\ now \in RequestRecords /\ now.step \in RequestSteps
        /\ now.outcome = "ok" => now.step \in {"count", "done", "refused"}
        /\ now.step \in {"claim", "enter", "reconcile", "init", "delete", "count"} => now.room \in Rooms
    BY <1>1 DEF SeatInv, RequestRecords
  <2>1. ASSUME NEW kind \in {"quick", "host", "code"}, Arrive(q, kind)
        PROVE  SeatInv'
    <3> DEFINE step == CASE kind = "quick" -> "select" [] kind = "host" -> "insert" [] OTHER -> "lookup"
               next == [now EXCEPT !.kind = kind, !.step = step]
    <3>1. step \in {"select", "insert", "lookup"} /\ now.step = "new"
      BY <2>1 DEF Arrive, RequestAt
    <3>2. request' = [request EXCEPT ![q] = next] /\ UNCHANGED <<rooms, faults>>
      BY <1>1, <2>1 DEF Arrive
    <3> HIDE DEF step
    <3>3. step \in RequestSteps
      BY <3>1 DEF RequestSteps
    <3>4. next \in RequestRecords /\ next.step = step /\ next.outcome = now.outcome
      BY <2>0, <3>3 DEF RequestRecords
    <3> HIDE DEF next
    <3> QED BY <2>0, <3>1, <3>2, <3>4, <1>4
  <2>2. CASE Select(q)
    <3>1. now.step = "select" /\ UNCHANGED <<rooms, faults>>
      BY <2>2 DEF Select, RequestAt
    <3>2. CASE RequestGoes(q, "insert")
      BY <2>0, <3>1, <3>2, <1>5 DEF RequestSteps
    <3>3. ASSUME NEW r \in Rooms, request' = [request EXCEPT ![q].step = "claim", ![q].room = r, ![q].tried = @ \cup {r}]
          PROVE  SeatInv'
      <4> DEFINE next == [now EXCEPT !.step = "claim", !.room = r, !.tried = @ \cup {r}]
      <4>1. request' = [request EXCEPT ![q] = next]
        BY <1>1, <3>3
      <4>2. next \in RequestRecords /\ next.step = "claim" /\ next.outcome = now.outcome /\ next.room = r
        BY <2>0 DEF RequestRecords, RequestSteps
      <4> HIDE DEF next
      <4> QED BY <2>0, <3>1, <4>1, <4>2, <1>4
    <3> QED BY <2>2, <3>2, <3>3 DEF Select, Best
  <2>3. CASE Claim(q)
    <3>1. now.step = "claim" /\ UNCHANGED <<rooms, faults>> /\ \E step \in {"enter", "select", "insert"} : RequestGoes(q, step)
      BY <2>3 DEF Claim, RequestAt, quickPlayAttemptDecision
    <3> QED BY <2>0, <3>1, <1>5 DEF RequestSteps
  <2>4. CASE LookupCode(q)
    <3>1. PICK r \in Rooms : request' = [request EXCEPT ![q].step = "enter", ![q].room = r]
      BY <2>4 DEF LookupCode
    <3> DEFINE next == [now EXCEPT !.step = "enter", !.room = r]
    <3>2. request' = [request EXCEPT ![q] = next] /\ now.step = "lookup" /\ UNCHANGED <<rooms, faults>>
      BY <1>1, <2>4, <3>1 DEF LookupCode, RequestAt
    <3>3. next \in RequestRecords /\ next.step = "enter" /\ next.outcome = now.outcome /\ next.room = r
      BY <2>0 DEF RequestRecords, RequestSteps
    <3> HIDE DEF next
    <3> QED BY <2>0, <3>2, <3>3, <1>4
  <2>5. CASE Enter(q)
    BY <2>5, EnteringKeepsSeats
  <2>6. CASE Reconcile(q)
    <3>1. now.step = "reconcile" /\ UNCHANGED <<rooms, faults>> /\ \E step \in {"select", "insert", "refused"} : RequestGoes(q, step)
      BY <2>6 DEF Reconcile, RequestAt, quickPlayAttemptDecision
    <3> QED BY <2>0, <3>1, <1>5 DEF RequestSteps
  <2>7. CASE InsertRow(q)
    <3>1. PICK r \in Rooms : request' = [request EXCEPT ![q].step = "init", ![q].kind = "host", ![q].room = r, ![q].tried = {}]
      BY <2>7 DEF InsertRow
    <3> DEFINE next == [now EXCEPT !.step = "init", !.kind = "host", !.room = r, !.tried = {}]
    <3>2. request' = [request EXCEPT ![q] = next] /\ now.step = "insert" /\ UNCHANGED <<rooms, faults>>
      BY <1>1, <2>7, <3>1 DEF InsertRow, RequestAt
    <3>3. next \in RequestRecords /\ next.step = "init" /\ next.outcome = now.outcome /\ next.room = r
      BY <2>0 DEF RequestRecords, RequestSteps
    <3> HIDE DEF next
    <3> QED BY <2>0, <3>2, <3>3, <1>4
  <2>8. CASE InitRoom(q)
    <3> DEFINE r == now.room
               rm == [rooms[r] EXCEPT !.status = "open", !.open = TRUE]
               next == [now EXCEPT !.step = "enter"]
    <3>1. /\ now.step = "init" /\ r \in Rooms /\ rooms' = [rooms EXCEPT ![r] = rm] /\ request' = [request EXCEPT ![q] = next]
          /\ UNCHANGED faults
      BY <1>1, <2>0, <2>8 DEF InitRoom, RequestAt, RequestGoes
    <3>2. rm \in RoomRecords /\ rm.players = rooms[r].players /\ rm.before = rooms[r].before
      BY <1>1, <3>1 DEF RoomRecords
    <3>3. next \in RequestRecords /\ next.step = "enter" /\ next.outcome = now.outcome /\ next.room = r
      BY <2>0 DEF RequestRecords, RequestSteps
    <3> HIDE DEF rm, next
    <3>4. /\ rooms' \in [Rooms -> RoomRecords] /\ request' \in [Requests -> RequestRecords]
          /\ \A s \in Rooms : rooms'[s] = IF s = r THEN rm ELSE rooms[s]
          /\ \A p \in Requests : request'[p] = IF p = q THEN next ELSE request[p]
      BY <1>1, <3>1, <3>2, <3>3
    <3> QED BY <2>0, <3>1, <3>2, <3>3, <3>4, NobodySeated
  <2>9. CASE DeleteRow(q)
    <3>1. now.step = "delete" /\ UNCHANGED <<rooms, faults>> /\ RequestGoes(q, "insert")
      BY <2>9 DEF DeleteRow, RequestAt
    <3> QED BY <2>0, <3>1, <1>5 DEF RequestSteps
  <2>10. CASE ReportCount(q)
    <3>1. now.step = "count" /\ UNCHANGED <<rooms, faults>> /\ RequestGoes(q, "done")
      BY <2>10 DEF ReportCount, RequestAt
    <3> QED BY <2>0, <3>1, <1>5 DEF RequestSteps
  <2>11. CASE CrashRequest(q)
    <3>1. UNCHANGED rooms /\ faults' = faults + 1 /\ RequestGoes(q, "refused")
      BY <2>11 DEF CrashRequest
    <3> QED BY <3>1, <1>5 DEF RequestSteps
  <2> QED BY <1>6, <2>1, <2>2, <2>3, <2>4, <2>5, <2>6, <2>7, <2>8, <2>9, <2>10, <2>11 DEF Serve
<1>7. ASSUME NEW r \in Rooms, Connect(r) \/ Depart(r) \/ Play(r) \/ RoomEnds(r)
      PROVE  SeatInv'
  <2>1. ASSUME NEW active \in Int, NEW connected \in Int, NEW open \in BOOLEAN, NEW status \in {"open", "ended"},
               UNCHANGED <<request, faults>>,
               rooms' = [rooms EXCEPT ![r] = [rooms[r] EXCEPT !.status = status, !.active = active, !.connected = connected, !.open = open]]
        PROVE  SeatInv'
    <3> DEFINE rm == [rooms[r] EXCEPT !.status = status, !.active = active, !.connected = connected, !.open = open]
    <3>1. rm \in RoomRecords /\ rm.players = rooms[r].players /\ rm.before = rooms[r].before
      BY <1>1 DEF RoomRecords
    <3> HIDE DEF rm
    <3>2. rooms' = [rooms EXCEPT ![r] = rm]
      BY <2>1 DEF rm
    <3> QED BY <3>1, <3>2, <2>1, <1>3
  <2>2. rooms[r] \in RoomRecords /\ UNCHANGED <<request, faults>>
    BY <1>1, <1>7 DEF Connect, Depart, Play, RoomEnds
  <2>3. rooms[r].active \in Int /\ rooms[r].connected \in Int /\ rooms[r].open \in BOOLEAN
    BY <2>2 DEF RoomRecords
  <2>4. CASE Connect(r)
    <3>1. rooms[r].status = "open"
      BY <2>4 DEF Connect
    <3>2. PICK wasActive \in BOOLEAN :
            rooms' = [rooms EXCEPT ![r] = [rooms[r] EXCEPT !.connected = @ + 1, !.active = IF wasActive THEN @ ELSE @ + 1]]
      BY <2>4 DEF Connect
    <3> DEFINE active == IF wasActive THEN rooms[r].active ELSE rooms[r].active + 1
               connected == rooms[r].connected + 1
    <3>3. rooms' = [rooms EXCEPT ![r] = [rooms[r] EXCEPT !.connected = connected, !.active = active]]
      BY <3>2, Zenon
    <3>4. active \in Int /\ connected \in Int
      BY <2>3
    <3> HIDE DEF active, connected
    <3>5. [rooms[r] EXCEPT !.connected = connected, !.active = active]
            = [rooms[r] EXCEPT !.status = "open", !.active = active, !.connected = connected, !.open = rooms[r].open]
      BY <2>2, <3>1 DEF RoomRecords
    <3> QED BY <2>1, <2>2, <2>3, <3>3, <3>4, <3>5
  <2>5. CASE Depart(r)
    <3>1. rooms' = [rooms EXCEPT ![r] = [rooms[r] EXCEPT !.connected = @ - 1, !.active = @ - 1]] /\ rooms[r].status = "open"
      BY <2>5 DEF Depart, Occupied
    <3> DEFINE active == rooms[r].active - 1
               connected == rooms[r].connected - 1
    <3>2. rooms' = [rooms EXCEPT ![r] = [rooms[r] EXCEPT !.connected = connected, !.active = active]]
      BY <3>1, Zenon
    <3>3. active \in Int /\ connected \in Int
      BY <2>3
    <3> HIDE DEF active, connected
    <3>4. [rooms[r] EXCEPT !.connected = connected, !.active = active]
            = [rooms[r] EXCEPT !.status = "open", !.active = active, !.connected = connected, !.open = rooms[r].open]
      BY <2>2, <3>1 DEF RoomRecords
    <3>5. rooms' = [rooms EXCEPT ![r] = [rooms[r] EXCEPT !.status = "open", !.active = active, !.connected = connected, !.open = rooms[r].open]]
      BY <3>2, <3>4
    <3> QED BY ONLY <2>1, <2>2, <2>3, <3>3, <3>5, Zenon
  <2>6. CASE Play(r)
    <3>1. rooms' = [rooms EXCEPT ![r] = [rooms[r] EXCEPT !.open = FALSE]] /\ rooms[r].status = "open"
      BY <2>6 DEF Play, Occupied
    <3>2. [rooms[r] EXCEPT !.open = FALSE]
            = [rooms[r] EXCEPT !.status = "open", !.active = rooms[r].active, !.connected = rooms[r].connected, !.open = FALSE]
      BY <2>2, <3>1 DEF RoomRecords
    <3>3. rooms' = [rooms EXCEPT ![r] = [rooms[r] EXCEPT !.status = "open", !.active = rooms[r].active, !.connected = rooms[r].connected, !.open = FALSE]]
      BY <3>1, <3>2
    <3> QED BY ONLY <2>1, <2>2, <2>3, <3>3, Zenon
  <2>7. CASE RoomEnds(r)
    <3>1. rooms' = [rooms EXCEPT ![r] = [rooms[r] EXCEPT !.status = "ended", !.active = rooms[r].active, !.connected = 0, !.open = FALSE]]
      BY <1>1, <2>2, <2>7 DEF RoomEnds, RoomRecords
    <3>2. 0 \in Int
      OBVIOUS
    <3> QED BY ONLY <2>1, <2>2, <2>3, <3>1, <3>2, Zenon
  <2> QED BY <1>7, <2>4, <2>5, <2>6, <2>7
<1>8. ASSUME NEW r \in Rooms, Heartbeat(r)
      PROVE  SeatInv'
  BY <1>2, <1>8 DEF Heartbeat
<1>9. ASSUME NEW w \in reports, LandReport(w) \/ LoseReport(w)
      PROVE  SeatInv'
  BY <1>2, <1>9 DEF LandReport, LoseReport
<1> QED BY <1>6, <1>7, <1>8, <1>9 DEF DirectoryNext

\* For any number of rooms and requests: no seat is given twice, none is unknown but for
\* a lost answer, and no room takes more than its capacity.  (RoomDO.join.)
THEOREM SeatsAlwaysAccountedFor == DirectorySpec => []SeatsAreAccountedFor
<1>1. SeatInv /\ [DirectoryNext]_directoryVars => SeatInv'
  <2>1. CASE DirectoryNext
    BY <2>1, StepKeepsSeats
  <2>2. CASE UNCHANGED directoryVars
    BY <2>2 DEF directoryVars, SeatInv, SeatsAreAccountedFor
  <2> QED BY <2>1, <2>2
<1>2. SeatInv => SeatsAreAccountedFor
  BY DEF SeatInv
<1> QED BY <1>1, <1>2, InitSeats, PTL DEF DirectorySpec

-----------------------------------------------------------------------------
(***************************************************************************)
(* Resumed seats.  The room numbers its rows by the saved seats, whatever  *)
(* the kernel does; the invariant says that every table there is, saved or *)
(* live, is sound (nobody sits twice, who waits is not there, every estate *)
(* is where its seat is), and that the live one is what has come of the    *)
(* saved one: its first seats are the rows, and those that were saved and  *)
(* are beyond them wait.  The roster of game_resumed is a fold over its    *)
(* rows, which Entered gives in closed form.                               *)
(***************************************************************************)
People == Veterans \cup Joiners
Estates == [who : People, hands : SUBSET Veterans]
SeatMaps == UNION {[D -> People \cup {Nobody}] : D \in SUBSET Nat}
PendingMaps == UNION {[D -> Estates] : D \in SUBSET Nat}
SeatTables ==
  [players : SUBSET People, seats : SeatMaps, pending : PendingMaps, hands : [Veterans -> People \cup Nat]]
Entries == [player : People, seat : Nat, previous : People \cup {Nobody}]

LEMMA Ids == /\ Nobody \notin People /\ Nobody \notin Nat /\ People \cap Nat = {} /\ Veterans \subseteq People
             /\ Joiners \subseteq People
  BY ResumeAssumption DEF People

LEMMA MapsAre ==
  ASSUME NEW t \in SeatTables
  PROVE  /\ t.players \subseteq People /\ SeatsOf(t) \in SUBSET Nat /\ Waiters(t) \in SUBSET Nat
         /\ t.seats \in [SeatsOf(t) -> People \cup {Nobody}]
         /\ t.pending \in [Waiters(t) -> Estates]
         /\ t.hands \in [Veterans -> People \cup Nat]
         /\ t = [players |-> t.players, seats |-> t.seats, pending |-> t.pending, hands |-> t.hands]
<1>1. t.players \subseteq People /\ t.seats \in SeatMaps /\ t.pending \in PendingMaps /\ t.hands \in [Veterans -> People \cup Nat]
      /\ t = [players |-> t.players, seats |-> t.seats, pending |-> t.pending, hands |-> t.hands]
  BY DEF SeatTables
<1>2. \E D \in SUBSET Nat : t.seats \in [D -> People \cup {Nobody}]
  BY <1>1 DEF SeatMaps
<1>3. \E D \in SUBSET Nat : t.pending \in [D -> Estates]
  BY <1>1 DEF PendingMaps
<1> QED BY <1>1, <1>2, <1>3 DEF SeatsOf, Waiters

LEMMA IsSeatMap ==
  ASSUME NEW D \in SUBSET Nat, NEW f \in [D -> People \cup {Nobody}]
  PROVE  f \in SeatMaps
BY DEF SeatMaps

LEMMA IsPendingMap ==
  ASSUME NEW D \in SUBSET Nat, NEW f \in [D -> Estates]
  PROVE  f \in PendingMaps
BY DEF PendingMaps

LEMMA TablesAre ==
  ASSUME NEW t \in SeatTables, NEW u \in SeatTables,
         u.players = t.players, u.seats = t.seats, u.pending = t.pending, u.hands = t.hands
  PROVE  u = t
BY DEF SeatTables

\* What becomes of table t when p comes back to seat s, or sits down there.
IsRestored(u, t, s, p) ==
  /\ u.players = t.players \cup {p} /\ u.seats = [t.seats EXCEPT ![s] = p]
  /\ u.pending = Restrict(t.pending, Waiters(t) \ {s})
  /\ u.hands = [h \in Veterans |-> IF h \in t.pending[s].hands THEN p ELSE t.hands[h]]

IsPut(u, t, s, p) ==
  /\ u.players = t.players \cup {p} /\ u.pending = t.pending /\ u.hands = t.hands
  /\ u.seats = [x \in SeatsOf(t) \cup {s} |-> IF x = s THEN p ELSE t.seats[x]]

LEMMA RestoreIs ==
  ASSUME NEW t \in SeatTables, NEW s \in Waiters(t), NEW p \in People
  PROVE  RestoreSeat(t, s, p) \in SeatTables /\ IsRestored(RestoreSeat(t, s, p), t, s, p)
<1> DEFINE u == RestoreSeat(t, s, p)
           hands == [h \in Veterans |-> IF h \in t.pending[s].hands THEN p ELSE t.hands[h]]
           pending == Restrict(t.pending, Waiters(t) \ {s})
           seats == [t.seats EXCEPT ![s] = p]
<1>1. u = [t EXCEPT !.players = @ \cup {p}, !.seats[s] = p, !.hands = hands, !.pending = pending]
  BY DEF RestoreSeat
<1>2. seats \in SeatMaps
  BY MapsAre, IsSeatMap
<1>3. pending \in PendingMaps
  <2>1. pending \in [Waiters(t) \ {s} -> Estates] /\ Waiters(t) \ {s} \in SUBSET Nat
    BY MapsAre DEF Restrict
  <2> QED BY <2>1, IsPendingMap
<1>4. hands \in [Veterans -> People \cup Nat]
  BY MapsAre
<1>5. t.players \cup {p} \in SUBSET People
  BY MapsAre
<1> HIDE DEF hands, pending, u
<1>6. u.players = t.players \cup {p} /\ u.seats = seats /\ u.pending = pending /\ u.hands = hands
  BY <1>1 DEF SeatTables
<1>7. u \in SeatTables
  BY <1>1, <1>2, <1>3, <1>4, <1>5 DEF SeatTables
<1> QED BY <1>6, <1>7 DEF hands, pending, u, seats, IsRestored

LEMMA PutIs ==
  ASSUME NEW t \in SeatTables, NEW s \in Nat, NEW p \in People,
         NEW u, u = [t EXCEPT !.players = @ \cup {p}, !.seats = Put(t.seats, s, p)]
  PROVE  u \in SeatTables /\ IsPut(u, t, s, p)
<1> DEFINE seats == Put(t.seats, s, p)
<1>0. u = [t EXCEPT !.players = @ \cup {p}, !.seats = seats]
  OBVIOUS
<1>1. seats = [x \in SeatsOf(t) \cup {s} |-> IF x = s THEN p ELSE t.seats[x]]
  BY DEF Put, SeatsOf
<1>2. seats \in SeatMaps
  <2>1. seats \in [SeatsOf(t) \cup {s} -> People \cup {Nobody}] /\ SeatsOf(t) \cup {s} \in SUBSET Nat
    BY MapsAre, <1>1
  <2> QED BY <2>1, IsSeatMap
<1>3. t.players \cup {p} \in SUBSET People
  BY MapsAre
<1> HIDE DEF seats
<1>4. u \in SeatTables
  BY <1>0, <1>2, <1>3 DEF SeatTables
<1>5. u.players = t.players \cup {p} /\ u.pending = t.pending /\ u.hands = t.hands /\ u.seats = seats
  BY <1>0 DEF SeatTables
<1> QED BY <1>1, <1>4, <1>5 DEF seats, IsPut

LEMMA TakeSeatType ==
  ASSUME NEW t \in SeatTables, NEW entry \in Entries
  PROVE  TakeSeat(t, entry) \in SeatTables
<1>1. entry.player \in People /\ entry.seat \in Nat
  BY DEF Entries
<1> QED BY <1>1, RestoreIs, PutIs DEF TakeSeat

IsSeating(f, t, roster) == f[0] = t /\ \A i \in 1 .. Len(roster) : f[i] = TakeSeat(f[i - 1], roster[i])

LEMMA TakeSeatsIterates ==
  ASSUME NEW t \in SeatTables, NEW roster \in Seq(Entries)
  PROVE  \E f \in [0 .. Len(roster) -> SeatTables] : IsSeating(f, t, roster) /\ TakeSeats(t, roster) = f[Len(roster)]
<1> DEFINE n == Len(roster)
           start == t
           h == [x \in SeatTables \X (1 .. n) |-> TakeSeat(x[1], roster[x[2]])]
           Body(g) == [s \in SUBSET DOMAIN roster |-> IF s = {} THEN start ELSE TakeSeat(g[s \ {Max(s)}], roster[Max(s)])]
           G == CHOOSE g : g = Body(g)
<1>1. n \in Nat /\ DOMAIN roster = 1 .. n /\ start \in SeatTables /\ \A i \in 1 .. n : roster[i] \in Entries
  OBVIOUS
<1>2. h \in [SeatTables \X (1 .. n) -> SeatTables]
  <2> SUFFICES ASSUME NEW x \in SeatTables \X (1 .. n)
               PROVE  TakeSeat(x[1], roster[x[2]]) \in SeatTables
    OBVIOUS
  <2> QED BY <1>1, TakeSeatType
<1>3. \A r \in SeatTables, i \in 1 .. n : h[<<r, i>>] = TakeSeat(r, roster[i])
  OBVIOUS
<1>4. TakeSeats(t, roster) = G[DOMAIN roster]
  BY DEF TakeSeats, FoldLeft, MapThenFoldSet
<1> HIDE DEF h, n, start
<1>5. ASSUME NEW s \in SUBSET (1 .. n), s # {}
      PROVE  Max(s) \in 1 .. n
  BY <1>1, <1>5, GreatestOf
<1>6. PICK g \in [SUBSET (1 .. n) -> SeatTables] : IsFoldUp(g, n, start, h)
  BY <1>1, <1>2, FoldUpExists
<1>7. g = Body(g)
  <2>1. ASSUME NEW s \in SUBSET (1 .. n)
        PROVE  g[s] = IF s = {} THEN start ELSE TakeSeat(g[s \ {Max(s)}], roster[Max(s)])
    BY <1>3, <1>5, <1>6 DEF IsFoldUp
  <2> QED BY <1>1, <1>6, <2>1
<1>8. G = Body(G)
  <2> HIDE DEF Body
  <2> QED BY <1>7
<1>9. FoldsUp(G, n, SeatTables, start, h)
  <2> HIDE DEF G
  <2> QED BY <1>1, <1>3, <1>5, <1>8 DEF FoldsUp
<1>10. PICK f \in [0 .. n -> SeatTables] : ComesTo(G, f, n, start, h)
  <2> HIDE DEF G
  <2> QED BY <1>1, <1>2, <1>9, FoldUp
<1>11. IsSeating(f, t, roster)
  <2>1. \A i \in 1 .. n : f[i - 1] \in SeatTables
    BY <1>1, <1>10
  <2> QED BY <1>3, <1>10, <2>1 DEF IsSeating, ComesTo, IsIteration, n, start
<1> QED BY <1>1, <1>4, <1>10, <1>11 DEF ComesTo, n

LEMMA TakeSeatsIs ==
  ASSUME NEW t \in SeatTables, NEW roster \in Seq(Entries),
         NEW f \in [0 .. Len(roster) -> SeatTables], IsSeating(f, t, roster)
  PROVE  TakeSeats(t, roster) = f[Len(roster)]
<1>1. PICK g \in [0 .. Len(roster) -> SeatTables] : IsSeating(g, t, roster) /\ TakeSeats(t, roster) = g[Len(roster)]
  BY TakeSeatsIterates
<1>2. \A k \in 0 .. Len(roster) : g[k] = f[k]
  <2>1. g[0] = f[0]
    BY <1>1 DEF IsSeating
  <2>2. \A k \in 1 .. Len(roster) : g[k - 1] = f[k - 1] => g[k] = f[k]
    BY <1>1 DEF IsSeating
  <2>3. Len(roster) \in Nat
    OBVIOUS
  <2> QED BY <2>1, <2>2, <2>3, IterationsAgree, Zenon
<1> QED BY <1>1, <1>2

Larger(a, b) == IF a >= b THEN a ELSE b

\* What the saved players own is where it belongs.
EstatesAt(t, where) ==
  \A v \in Veterans :
    IF where[v] \in Waiters(t)
    THEN t.hands[v] = where[v] /\ v \in t.pending[where[v]].hands
    ELSE t.hands[v] = t.seats[where[v]] /\ t.hands[v] # Nobody

SoundTable(t, n, where) ==
  /\ t \in SeatTables /\ SeatsOf(t) = 1 .. n /\ Waiters(t) \subseteq 1 .. n
  /\ \A s \in 1 .. n : t.seats[s] # Nobody => t.seats[s] \in t.players
  /\ \A s, r \in 1 .. n : t.seats[s] # Nobody /\ t.seats[r] = t.seats[s] => r = s
  /\ ValidPendingSeats(t)
  /\ \A v \in Veterans : where[v] \in 1 .. n
  /\ EstatesAt(t, where)

\* Who comes back to table t, in the order of its seats.
IsRoster(roster, t) ==
  /\ roster \in Seq(Entries)
  /\ \A i \in 1 .. Len(roster) :
       /\ roster[i].seat = i /\ roster[i].previous = SavedSeatPlayer(t, i)
       /\ roster[i].player \notin t.players
       /\ \A w \in Waiters(t) : t.pending[w].who # roster[i].player
  /\ \A i, j \in 1 .. Len(roster) : roster[i].player = roster[j].player => i = j

\* A seat saves who waits under it, or who sits on it, and nobody is saved twice.
LEMMA SavedIs ==
  ASSUME NEW t, NEW n \in Nat, NEW where, SoundTable(t, n, where)
  PROVE  /\ \A s \in 1 .. n : SavedSeatPlayer(t, s) = IF s \in Waiters(t) THEN t.pending[s].who ELSE t.seats[s]
         /\ \A s : s \notin 1 .. n => SavedSeatPlayer(t, s) = Nobody
         /\ \A s \in Waiters(t) : t.pending[s].who \in People /\ t.pending[s].who # Nobody /\ t.pending[s].who \notin t.players
         /\ \A s \in 1 .. n : t.seats[s] \in People \cup {Nobody}
         /\ \A s : SavedSeatPlayer(t, s) \in People \cup {Nobody}
         /\ \A s, r : SavedSeatPlayer(t, s) # Nobody /\ SavedSeatPlayer(t, s) = SavedSeatPlayer(t, r) => s = r
         /\ Identities(t) = {s \in 1 .. n : s \in Waiters(t) \/ t.seats[s] # Nobody}
<1>1. /\ t \in SeatTables /\ SeatsOf(t) = 1 .. n /\ Waiters(t) \subseteq 1 .. n /\ ValidPendingSeats(t)
      /\ \A s \in 1 .. n : t.seats[s] # Nobody => t.seats[s] \in t.players
      /\ \A s, r \in 1 .. n : t.seats[s] # Nobody /\ t.seats[r] = t.seats[s] => r = s
  BY DEF SoundTable
<1>2. /\ t.players \subseteq People /\ \A s \in 1 .. n : t.seats[s] \in People \cup {Nobody}
      /\ \A s \in Waiters(t) : t.pending[s].who \in People
  BY <1>1, MapsAre DEF Estates
<1>3. /\ \A s \in Waiters(t) : t.pending[s].who \notin t.players /\ t.pending[s].who # Nobody
      /\ \A s, r \in Waiters(t) : t.pending[s].who = t.pending[r].who => s = r
  BY <1>1, <1>2, Ids DEF ValidPendingSeats
<1>4. \A s \in 1 .. n : SavedSeatPlayer(t, s) = IF s \in Waiters(t) THEN t.pending[s].who ELSE t.seats[s]
  <2> TAKE s \in 1 .. n
  <2>1. CASE s \in Waiters(t)
    BY <2>1 DEF SavedSeatPlayer
  <2>2. CASE s \notin Waiters(t) /\ t.seats[s] = Nobody
    BY <1>1, <1>2, <2>2, Ids DEF SavedSeatPlayer
  <2>3. CASE s \notin Waiters(t) /\ t.seats[s] # Nobody
    BY <1>1, <2>3 DEF SavedSeatPlayer
  <2> QED BY <2>1, <2>2, <2>3
<1>5. \A s : s \notin 1 .. n => SavedSeatPlayer(t, s) = Nobody
  BY <1>1 DEF SavedSeatPlayer
<1>6. \A s : SavedSeatPlayer(t, s) \in People \cup {Nobody}
  BY <1>2, <1>4, <1>5
<1>7. ASSUME NEW s, NEW r, SavedSeatPlayer(t, s) # Nobody, SavedSeatPlayer(t, s) = SavedSeatPlayer(t, r)
      PROVE  s = r
  <2>1. s \in 1 .. n /\ r \in 1 .. n
    BY <1>5, <1>7
  <2>2. CASE s \in Waiters(t) /\ r \in Waiters(t)
    BY <1>3, <1>4, <1>7, <2>1, <2>2
  <2>3. CASE s \notin Waiters(t) /\ r \notin Waiters(t)
    BY <1>1, <1>4, <1>7, <2>1, <2>3
  <2>4. CASE s \in Waiters(t) /\ r \notin Waiters(t)
    BY <1>1, <1>3, <1>4, <1>7, <2>1, <2>4
  <2>5. CASE s \notin Waiters(t) /\ r \in Waiters(t)
    BY <1>1, <1>3, <1>4, <1>7, <2>1, <2>5
  <2> QED BY <2>2, <2>3, <2>4, <2>5
<1>8. Identities(t) = {s \in 1 .. n : s \in Waiters(t) \/ t.seats[s] # Nobody}
  BY <1>1, <1>3, <1>4 DEF Identities
<1> QED BY <1>2, <1>3, <1>4, <1>5, <1>6, <1>7, <1>8

\* A roster of newcomers in the order of the seats always fits.
LEMMA RosterFits ==
  ASSUME NEW t, NEW n \in Nat, NEW where, SoundTable(t, n, where), NEW roster, IsRoster(roster, t),
         Len(roster) # 0, NEW preserve \in BOOLEAN, Waiters(t) # {} => preserve
  PROVE  ResumeFits(t, roster, preserve)
<1>1. /\ roster \in Seq(Entries) /\ DOMAIN roster = 1 .. Len(roster) /\ roster # << >>
      /\ \A i \in 1 .. Len(roster) :
           /\ roster[i].seat = i /\ roster[i].previous = SavedSeatPlayer(t, i)
           /\ roster[i].player \notin t.players
           /\ \A w \in Waiters(t) : t.pending[w].who # roster[i].player
      /\ \A i, j \in 1 .. Len(roster) : roster[i].player = roster[j].player => i = j
  BY DEF IsRoster
<1>2. ASSUME NEW i \in 1 .. Len(roster), NEW j \in 1 .. Len(roster), i # j
      PROVE  /\ roster[i].player # roster[j].player /\ roster[i].seat # roster[j].seat
             /\ roster[i].previous = Nobody \/ roster[i].previous # roster[j].previous
  <2>1. SavedSeatPlayer(t, i) # Nobody => SavedSeatPlayer(t, i) # SavedSeatPlayer(t, j)
    BY <1>2, SavedIs, Zenon
  <2> QED BY <1>1, <1>2, <2>1
<1>3. ASSUME NEW i \in 1 .. Len(roster), roster[i].previous # Nobody
      PROVE  \/ roster[i].previous \in t.players
             \/ roster[i].seat \in Waiters(t) /\ t.pending[roster[i].seat].who = roster[i].previous
  BY <1>1, <1>3 DEF SavedSeatPlayer
<1> QED BY <1>1, <1>2, <1>3 DEF ResumeFits

\* Whether what is waiting, or who does not come back, is to be kept, and which seats are.
Preserves(preserve, t, roster) == preserve <=> Waiters(t) # {} \/ Identities(t) \ (1 .. Len(roster)) # {}
IsAbsent(absent, t, n, roster) ==
  absent = {s \in 1 .. n : s \notin Waiters(t) /\ t.seats[s] # Nobody /\ s \notin 1 .. Len(roster)}

\* The seats that are kept are those of saved players beyond the roster.
LEMMA AbsentIs ==
  ASSUME NEW t, NEW n \in Nat, NEW where, SoundTable(t, n, where), NEW roster, IsRoster(roster, t), NEW preserve,
         Preserves(preserve, t, roster)
  PROVE  IsAbsent(AbsentSeats(t, roster, preserve), t, n, roster)
<1> DEFINE L == Len(roster)
           A == {s \in 1 .. n : s \notin Waiters(t) /\ t.seats[s] # Nobody /\ s \notin 1 .. L}
<1>1. /\ SeatsOf(t) = 1 .. n /\ Waiters(t) \subseteq 1 .. n
      /\ \A s \in 1 .. n : t.seats[s] # Nobody => t.seats[s] \in t.players
      /\ \A s \in 1 .. n : t.seats[s] = Nobody => t.seats[s] \notin t.players
  <2>1. t \in SeatTables
    BY DEF SoundTable
  <2> QED BY <2>1, MapsAre, Ids DEF SoundTable
<1>2. Inherited(roster) = {SavedSeatPlayer(t, i) : i \in {j \in 1 .. L : SavedSeatPlayer(t, j) # Nobody}}
  BY DEF IsRoster, Inherited, Heirs
<1>3. ASSUME NEW s \in 1 .. n, s \notin Waiters(t), t.seats[s] # Nobody
      PROVE  t.seats[s] \in Inherited(roster) <=> s \in 1 .. L
  <2>1. SavedSeatPlayer(t, s) = t.seats[s]
    BY <1>3, SavedIs
  <2>2. \A i : SavedSeatPlayer(t, i) = t.seats[s] => i = s
    BY <1>3, <2>1, SavedIs
  <2> QED BY <1>2, <1>3, <2>1, <2>2
<1>4. AbsentSeats(t, roster, preserve) = A
  <2>1. CASE preserve
    BY <1>1, <1>3, <2>1 DEF AbsentSeats
  <2>2. CASE ~preserve
    <3>1. A \subseteq Identities(t) \ (1 .. L)
      BY SavedIs
    <3> QED BY <2>2, <3>1 DEF AbsentSeats, Preserves
  <2> QED BY <2>1, <2>2
<1> QED BY <1>4 DEF IsAbsent

\* K is kept under the waiting seats and those in A, and O owns the hands.
IsKept(K, O, t, A, roster, where) ==
  /\ O \in [Veterans -> People \cup Nat] /\ K \in [Waiters(t) \cup A -> Estates]
  /\ \A s \in Waiters(t) \cup A : K[s].who = SavedSeatPlayer(t, s) /\ \A h \in K[s].hands : O[h] = s
  /\ \A v \in Veterans : IF where[v] \in Waiters(t) \cup A THEN v \in K[where[v]].hands
                         ELSE where[v] \in 1 .. Len(roster) /\ O[v] = roster[where[v]].player

\* Every saved hand is kept under its seat or goes to who comes back for it.
LEMMA OwnersAre ==
  ASSUME NEW t, NEW n \in Nat, NEW where, SoundTable(t, n, where), NEW roster, IsRoster(roster, t), NEW A,
         A = {s \in 1 .. n : s \notin Waiters(t) /\ t.seats[s] # Nobody /\ s \notin 1 .. Len(roster)}
  PROVE  IsKept(KeptSeats(t, A), Owners(t, roster, A), t, A, roster, where)
<1> DEFINE L == Len(roster)
           O == Owners(t, roster, A)
           K == KeptSeats(t, A)
           Hands(s) == {h \in Veterans : t.hands[h] = t.seats[s]}
<1>1. /\ t \in SeatTables /\ SeatsOf(t) = 1 .. n /\ Waiters(t) \subseteq 1 .. n
      /\ \A s \in 1 .. n : t.seats[s] # Nobody => t.seats[s] \in t.players
      /\ \A s, r \in 1 .. n : t.seats[s] # Nobody /\ t.seats[r] = t.seats[s] => r = s
      /\ ValidPendingSeats(t) /\ EstatesAt(t, where) /\ \A v \in Veterans : where[v] \in 1 .. n
  BY DEF SoundTable
<1>2. /\ t.players \subseteq People /\ t.pending \in [Waiters(t) -> Estates] /\ t.hands \in [Veterans -> People \cup Nat]
      /\ t.seats \in [1 .. n -> People \cup {Nobody}]
  BY <1>1, MapsAre
<1>3. /\ roster \in Seq(Entries) /\ DOMAIN roster = 1 .. L
      /\ \A i \in 1 .. L : roster[i] \in Entries /\ roster[i].previous = SavedSeatPlayer(t, i)
  BY DEF IsRoster
<1>4. Heirs(roster) = {i \in 1 .. L : SavedSeatPlayer(t, i) # Nobody}
  BY <1>3 DEF Heirs
<1>5. Inherited(roster) = {SavedSeatPlayer(t, i) : i \in Heirs(roster)}
  BY <1>3, <1>4 DEF Inherited
<1> HIDE DEF L
<1>6. ASSUME NEW s \in 1 .. n, s \notin Waiters(t), t.seats[s] # Nobody
      PROVE  /\ SavedSeatPlayer(t, s) = t.seats[s]
             /\ t.seats[s] \in Inherited(roster) <=> s \in 1 .. L
             /\ s \in 1 .. L => Heir(roster, t.seats[s]) = roster[s].player
             /\ \A r \in A : t.seats[r] = t.seats[s] => r = s
  <2>1. SavedSeatPlayer(t, s) = t.seats[s] /\ \A i : SavedSeatPlayer(t, i) = t.seats[s] => i = s
    BY <1>6, SavedIs
  <2>2. t.seats[s] \in Inherited(roster) <=> s \in 1 .. L
    BY <1>4, <1>5, <1>6, <2>1
  <2>3. ASSUME s \in 1 .. L
        PROVE  Heir(roster, t.seats[s]) = roster[s].player
    <3>1. s \in Heirs(roster) /\ roster[s].previous = t.seats[s]
      BY <1>3, <1>4, <1>6, <2>1, <2>3
    <3>2. \A i \in Heirs(roster) : roster[i].previous = t.seats[s] => i = s
      BY <1>3, <1>4, <2>1
    <3>3. (CHOOSE i \in Heirs(roster) : roster[i].previous = t.seats[s]) = s
      BY <3>1, <3>2
    <3> QED BY <3>3 DEF Heir
  <2>4. \A r \in A : t.seats[r] = t.seats[s] => r = s
    BY <1>1, <1>6
  <2> QED BY <2>1, <2>2, <2>3, <2>4
<1>7. ASSUME NEW h \in Veterans
      PROVE  /\ t.hands[h] \notin t.players => O[h] = t.hands[h]
             /\ \A s \in 1 .. n : s \notin Waiters(t) /\ t.seats[s] # Nobody /\ t.hands[h] = t.seats[s] =>
                  /\ s \in 1 .. L => O[h] = roster[s].player
                  /\ s \notin 1 .. L => O[h] = s
             /\ O[h] \in People \cup Nat
  <2>1. ASSUME t.hands[h] \notin t.players
        PROVE  O[h] = t.hands[h]
    BY <2>1 DEF Owners
  <2>2. ASSUME NEW s \in 1 .. n, s \notin Waiters(t), t.seats[s] # Nobody, t.hands[h] = t.seats[s]
        PROVE  (s \in 1 .. L => O[h] = roster[s].player) /\ (s \notin 1 .. L => O[h] = s)
    <3>1. t.hands[h] \in t.players /\ t.seats[s] \in t.players
      BY <1>1, <2>2
    <3>2. CASE s \in 1 .. L
      <4>1. t.hands[h] \in Inherited(roster) /\ Heir(roster, t.hands[h]) = roster[s].player
        BY <1>6, <2>2, <3>2
      <4> QED BY <3>1, <3>2, <4>1 DEF Owners
    <3>3. CASE s \notin 1 .. L
      <4>1. t.hands[h] \notin Inherited(roster)
        BY <1>6, <2>2, <3>3
      <4>2. s \in A
        BY <2>2, <3>3 DEF L
      <4>3. (CHOOSE r \in A : t.seats[r] = t.hands[h]) = s
        BY <1>6, <2>2, <4>2
      <4>4. \E r \in A : t.seats[r] = t.hands[h]
        BY <2>2, <4>2
      <4> QED BY <3>1, <3>3, <4>1, <4>3, <4>4 DEF Owners
    <3> QED BY <3>2, <3>3
  <2>3. O[h] \in People \cup Nat
    <3>1. CASE where[h] \in Waiters(t)
      <4>1. t.hands[h] = where[h] /\ where[h] \in Nat
        BY <1>1, <3>1 DEF EstatesAt
      <4> QED BY <1>2, <2>1, <4>1, Ids
    <3>2. CASE where[h] \notin Waiters(t)
      <4>1. t.hands[h] = t.seats[where[h]] /\ t.seats[where[h]] # Nobody /\ where[h] \in 1 .. n
        BY <1>1, <3>2 DEF EstatesAt
      <4>2. \A i \in 1 .. L : roster[i].player \in People
        BY <1>3 DEF Entries
      <4> QED BY <2>2, <3>2, <4>1, <4>2
    <3> QED BY <3>1, <3>2
  <2> QED BY <2>1, <2>2, <2>3
<1>8. O \in [Veterans -> People \cup Nat]
  <2>1. O = [h \in Veterans |-> O[h]]
    BY DEF Owners
  <2> HIDE DEF O
  <2> QED BY <1>7, <2>1
<1>9. /\ K = [s \in Waiters(t) \cup A |-> K[s]]
      /\ \A s \in A : K[s].who = t.seats[s] /\ K[s].hands = Hands(s) /\ (t.seats[s] \in People => K[s] \in Estates)
      /\ \A s \in Waiters(t) \ A : K[s] = t.pending[s]
  <2>1. ASSUME NEW s \in A
        PROVE  K[s].who = t.seats[s] /\ K[s].hands = Hands(s) /\ (t.seats[s] \in People => K[s] \in Estates)
    <3>1. K[s] = [who |-> t.seats[s], hands |-> Hands(s)]
      BY DEF KeptSeats
    <3>2. Hands(s) \subseteq Veterans
      OBVIOUS
    <3> HIDE DEF K, Hands
    <3> QED BY <3>1, <3>2 DEF Estates
  <2>2. K = [s \in Waiters(t) \cup A |-> K[s]] /\ \A s \in Waiters(t) \ A : K[s] = t.pending[s]
    BY DEF KeptSeats
  <2> QED BY <2>1, <2>2
<1>10. A \subseteq 1 .. n /\ \A s \in A : s \notin Waiters(t) /\ t.seats[s] # Nobody /\ s \notin 1 .. L /\ t.seats[s] \in People
  BY <1>2 DEF L
<1> HIDE DEF O, K, Hands
<1>11. K \in [Waiters(t) \cup A -> Estates]
  <2>1. \A s \in A : K[s] \in Estates
    BY <1>9, <1>10
  <2>2. \A s \in Waiters(t) : K[s] \in Estates
    BY <1>2, <1>9, <1>10
  <2> QED BY <1>9, <2>1, <2>2
<1>12. ASSUME NEW s \in Waiters(t) \cup A
       PROVE  K[s].who = SavedSeatPlayer(t, s) /\ \A h \in K[s].hands : O[h] = s
  <2>1. CASE s \in A
    <3>1. K[s].who = t.seats[s] /\ K[s].hands = Hands(s)
      BY <1>9, <2>1
    <3> QED BY <1>6, <1>7, <1>10, <2>1, <3>1 DEF Hands
  <2>2. CASE s \in Waiters(t)
    <3>1. SavedSeatPlayer(t, s) = t.pending[s].who
      BY <2>2 DEF SavedSeatPlayer
    <3>2. \A h \in t.pending[s].hands : h \in Veterans /\ t.hands[h] = s
      BY <1>1, <1>2, <2>2 DEF ValidPendingSeats, Estates
    <3>3. s \notin t.players
      BY <1>1, <1>2, <2>2, Ids
    <3> QED BY <1>7, <1>9, <1>10, <2>2, <3>1, <3>2, <3>3
  <2> QED BY <2>1, <2>2
<1>13. ASSUME NEW v \in Veterans
       PROVE  IF where[v] \in Waiters(t) \cup A THEN v \in K[where[v]].hands
              ELSE where[v] \in 1 .. L /\ O[v] = roster[where[v]].player
  <2>1. CASE where[v] \in Waiters(t)
    BY <1>1, <1>9, <1>10, <2>1 DEF EstatesAt
  <2>2. CASE where[v] \notin Waiters(t)
    <3>1. t.hands[v] = t.seats[where[v]] /\ t.seats[where[v]] # Nobody /\ where[v] \in 1 .. n
      BY <1>1, <2>2 DEF EstatesAt
    <3>2. CASE where[v] \in 1 .. L
      BY <1>7, <1>10, <2>2, <3>1, <3>2
    <3>3. CASE where[v] \notin 1 .. L
      <4>1. where[v] \in A
        BY <2>2, <3>1, <3>3 DEF L
      <4>2. v \in Hands(where[v])
        BY <3>1 DEF Hands
      <4> QED BY <1>9, <4>1, <4>2
    <3> QED BY <3>2, <3>3
  <2> QED BY <2>1, <2>2
<1> QED BY <1>8, <1>11, <1>12, <1>13 DEF O, K, L, IsKept

\* The table after the first k rows of the roster have taken their seats, when K is
\* kept under the seats and O owns the hands.
Entered(D, K, O, roster, k) ==
  [players |-> {roster[i].player : i \in 1 .. k},
   seats |-> [s \in D \cup 1 .. k |-> IF s \in 1 .. k THEN roster[s].player ELSE Nobody],
   pending |-> [s \in (DOMAIN K) \ (1 .. k) |-> K[s]],
   hands |-> [h \in Veterans |-> IF O[h] \in (1 .. k) \cap DOMAIN K /\ h \in K[O[h]].hands
                                 THEN roster[O[h]].player ELSE O[h]]]

\* What the roster finds under the seats is its own.
Fitting(D, K, O, roster) ==
  /\ D \in SUBSET Nat /\ DOMAIN K \subseteq D /\ K \in [DOMAIN K -> Estates]
  /\ O \in [Veterans -> People \cup Nat]
  /\ \A s \in DOMAIN K : \A h \in K[s].hands : O[h] = s
  /\ roster \in Seq(Entries)
  /\ \A i \in 1 .. Len(roster) :
       /\ roster[i].seat = i
       /\ i \in DOMAIN K => roster[i].previous = K[i].who

LEMMA EnteredType ==
  ASSUME NEW D, NEW K, NEW O, NEW roster, Fitting(D, K, O, roster), NEW k \in 0 .. Len(roster)
  PROVE  Entered(D, K, O, roster, k) \in SeatTables
<1> DEFINE e == Entered(D, K, O, roster, k)
<1>1. /\ D \in SUBSET Nat /\ DOMAIN K \subseteq D /\ K \in [DOMAIN K -> Estates] /\ O \in [Veterans -> People \cup Nat]
      /\ roster \in Seq(Entries)
  BY DEF Fitting
<1>0. \A i \in 1 .. Len(roster) : roster[i].player \in People
  <2>1. \A i \in 1 .. Len(roster) : roster[i] \in Entries
    BY <1>1
  <2> QED BY <2>1 DEF Entries
<1>2. 1 .. k \subseteq 1 .. Len(roster) /\ 1 .. k \subseteq Nat
  BY DEF Fitting
<1>3. e.players \in SUBSET People
  BY <1>0, <1>1, <1>2 DEF Entered
<1>4. e.seats \in SeatMaps
  <2>1. e.seats \in [D \cup 1 .. k -> People \cup {Nobody}] /\ D \cup 1 .. k \in SUBSET Nat
    BY <1>0, <1>1, <1>2 DEF Entered
  <2> QED BY <2>1, IsSeatMap
<1>5. e.pending \in PendingMaps
  <2>1. e.pending \in [(DOMAIN K) \ (1 .. k) -> Estates] /\ (DOMAIN K) \ (1 .. k) \in SUBSET Nat
    BY <1>1 DEF Entered
  <2> QED BY <2>1, IsPendingMap
<1>6. e.hands \in [Veterans -> People \cup Nat]
  BY <1>0, <1>1, <1>2 DEF Entered
<1>7. e = [players |-> e.players, seats |-> e.seats, pending |-> e.pending, hands |-> e.hands]
  BY DEF Entered
<1> HIDE DEF e
<1>8. e \in SeatTables
  BY <1>3, <1>4, <1>5, <1>6, <1>7 DEF SeatTables
<1> QED BY <1>8 DEF e

LEMMA EnteredStep ==
  ASSUME NEW D, NEW K, NEW O, NEW roster, Fitting(D, K, O, roster), NEW k \in 1 .. Len(roster)
  PROVE  TakeSeat(Entered(D, K, O, roster, k - 1), roster[k]) = Entered(D, K, O, roster, k)
<1> DEFINE was == Entered(D, K, O, roster, k - 1)
           then == Entered(D, K, O, roster, k)
           now == TakeSeat(was, roster[k])
           who == roster[k].player
<1>0. k \in Nat /\ roster[k] \in Entries
  BY DEF Fitting
<1>1. /\ D \in SUBSET Nat /\ DOMAIN K \subseteq D /\ K \in [DOMAIN K -> Estates] /\ O \in [Veterans -> People \cup Nat]
      /\ \A s \in DOMAIN K : \A h \in K[s].hands : O[h] = s
      /\ roster[k] \in Entries /\ roster[k].seat = k /\ (k \in DOMAIN K => roster[k].previous = K[k].who)
      /\ who \in People /\ k \in Nat
  BY <1>0 DEF Fitting, Entries
<1>2. was \in SeatTables /\ then \in SeatTables
  <2>1. k - 1 \in 0 .. Len(roster) /\ k \in 0 .. Len(roster)
    BY DEF Fitting
  <2> QED BY <2>1, EnteredType
<1>3. k \in Int /\ 1 .. k = (1 .. k - 1) \cup {k} /\ k \notin 1 .. k - 1
  BY <1>1
<1>4. /\ was.players = {roster[i].player : i \in 1 .. k - 1}
      /\ was.seats = [s \in D \cup 1 .. k - 1 |-> IF s \in 1 .. k - 1 THEN roster[s].player ELSE Nobody]
      /\ was.pending = [s \in (DOMAIN K) \ (1 .. k - 1) |-> K[s]]
      /\ was.hands = [h \in Veterans |-> IF O[h] \in (1 .. k - 1) \cap DOMAIN K /\ h \in K[O[h]].hands
                                       THEN roster[O[h]].player ELSE O[h]]
  BY DEF Entered
<1>5. /\ then.players = {roster[i].player : i \in 1 .. k}
      /\ then.seats = [s \in D \cup 1 .. k |-> IF s \in 1 .. k THEN roster[s].player ELSE Nobody]
      /\ then.pending = [s \in (DOMAIN K) \ (1 .. k) |-> K[s]]
      /\ then.hands = [h \in Veterans |-> IF O[h] \in (1 .. k) \cap DOMAIN K /\ h \in K[O[h]].hands
                                       THEN roster[O[h]].player ELSE O[h]]
  BY DEF Entered
<1> HIDE DEF was, then
<1>6. then.players = was.players \cup {who}
  BY <1>3, <1>4, <1>5
<1>7. SeatsOf(was) = D \cup 1 .. k - 1 /\ Waiters(was) = (DOMAIN K) \ (1 .. k - 1)
  BY <1>4 DEF SeatsOf, Waiters
<1>8. CASE k \in DOMAIN K
  <2>1. k \in Waiters(was) /\ was.pending[k] = K[k] /\ roster[k].previous # Nobody
    BY <1>1, <1>3, <1>4, <1>7, <1>8, Ids DEF Estates
  <2>2. now = RestoreSeat(was, k, who)
    BY <1>1, <1>8, <2>1 DEF TakeSeat
  <2>3. /\ now \in SeatTables
        /\ now.players = was.players \cup {who} /\ now.seats = [was.seats EXCEPT ![k] = who]
        /\ now.pending = Restrict(was.pending, Waiters(was) \ {k})
        /\ now.hands = [h \in Veterans |-> IF h \in K[k].hands THEN who ELSE was.hands[h]]
    <3> HIDE DEF now, who
    <3>1. was \in SeatTables /\ k \in Waiters(was) /\ who \in People /\ now = RestoreSeat(was, k, who)
      BY <1>1, <1>2, <2>1, <2>2
    <3>2. now \in SeatTables /\ IsRestored(now, was, k, who)
      BY <3>1, RestoreIs, Zenon
    <3> QED BY <2>1, <3>2 DEF IsRestored
  <2> HIDE DEF now, who
  <2>4. now.seats = then.seats
    <3>1. D \cup 1 .. k = D \cup 1 .. k - 1
      BY <1>1, <1>3, <1>8
    <3>2. now.seats = [s \in D \cup 1 .. k |-> IF s = k THEN who ELSE was.seats[s]]
      BY <1>4, <2>3, <3>1
    <3>3. \A s \in D \cup 1 .. k : (IF s = k THEN who ELSE was.seats[s]) = IF s \in 1 .. k THEN roster[s].player ELSE Nobody
      BY <1>3, <1>4, <3>1 DEF who
    <3> QED BY <1>5, <3>2, <3>3
  <2>5. now.pending = then.pending
    <3>1. Waiters(was) \ {k} = (DOMAIN K) \ (1 .. k)
      BY <1>3, <1>7
    <3>2. now.pending = [s \in (DOMAIN K) \ (1 .. k) |-> was.pending[s]]
      BY <2>3, <3>1 DEF Restrict
    <3>3. \A s \in (DOMAIN K) \ (1 .. k) : was.pending[s] = K[s]
      BY <1>3, <1>4
    <3> QED BY <1>5, <3>2, <3>3
  <2>6. now.hands = then.hands
    <3>1. ASSUME NEW h \in Veterans
          PROVE  now.hands[h] = then.hands[h]
      <4>1. CASE h \in K[k].hands
        <5>1. O[h] = k
          BY <1>1, <1>8, <4>1
        <5> QED BY <1>3, <1>5, <1>8, <2>3, <4>1, <5>1 DEF who
      <4>2. CASE h \notin K[k].hands
        BY <1>3, <1>4, <1>5, <1>8, <2>3, <4>2
      <4> QED BY <4>1, <4>2
    <3>2. now.hands = [h \in Veterans |-> now.hands[h]] /\ then.hands = [h \in Veterans |-> then.hands[h]]
      BY <1>2, <2>3, MapsAre
    <3> QED BY <3>1, <3>2
  <2>7. now = then
    BY <1>2, <1>6, <2>3, <2>4, <2>5, <2>6, TablesAre
  <2> QED BY <2>7 DEF now, was, then
<1>9. CASE k \notin DOMAIN K
  <2>1. now = [was EXCEPT !.players = @ \cup {who}, !.seats = Put(was.seats, k, who)]
    BY <1>1, <1>7, <1>9 DEF TakeSeat
  <2>2. /\ now \in SeatTables
        /\ now.players = was.players \cup {who} /\ now.pending = was.pending /\ now.hands = was.hands
        /\ now.seats = [x \in SeatsOf(was) \cup {k} |-> IF x = k THEN who ELSE was.seats[x]]
    <3> HIDE DEF now, who
    <3>1. was \in SeatTables /\ k \in Nat /\ who \in People
      BY <1>1, <1>2
    <3>2. now \in SeatTables /\ IsPut(now, was, k, who)
      BY <2>1, <3>1, PutIs
    <3> QED BY <3>2 DEF IsPut
  <2> HIDE DEF now, who
  <2>3. now.seats = then.seats
    <3>1. SeatsOf(was) \cup {k} = D \cup 1 .. k
      BY <1>3, <1>7
    <3> QED BY <1>3, <1>4, <1>5, <1>7, <2>2, <3>1 DEF who
  <2>4. now.pending = then.pending
    <3>1. (DOMAIN K) \ (1 .. k) = (DOMAIN K) \ (1 .. k - 1)
      BY <1>3, <1>9
    <3> QED BY <1>4, <1>5, <2>2, <3>1
  <2>5. now.hands = then.hands
    <3>1. (1 .. k) \cap DOMAIN K = (1 .. k - 1) \cap DOMAIN K
      BY <1>3, <1>9
    <3> QED BY <1>4, <1>5, <2>2, <3>1
  <2>6. now = then
    BY <1>2, <1>6, <2>2, <2>3, <2>4, <2>5, TablesAre
  <2> QED BY <2>6 DEF now, was, then
<1> QED BY <1>8, <1>9

LEMMA AllEntered ==
  ASSUME NEW D, NEW K, NEW O, NEW roster, Fitting(D, K, O, roster)
  PROVE  TakeSeats(Entered(D, K, O, roster, 0), roster) = Entered(D, K, O, roster, Len(roster))
<1> DEFINE f == [k \in 0 .. Len(roster) |-> Entered(D, K, O, roster, k)]
<1>1. roster \in Seq(Entries) /\ Len(roster) \in Nat
  BY DEF Fitting
<1>2. f \in [0 .. Len(roster) -> SeatTables]
  BY EnteredType
<1>3. IsSeating(f, Entered(D, K, O, roster, 0), roster)
  <2>1. ASSUME NEW i \in 1 .. Len(roster)
        PROVE  f[i] = TakeSeat(f[i - 1], roster[i])
    <3>1. i \in 0 .. Len(roster) /\ i - 1 \in 0 .. Len(roster)
      BY <1>1
    <3> QED BY <3>1, EnteredStep
  <2>2. f[0] = Entered(D, K, O, roster, 0)
    BY <1>1
  <2> HIDE DEF f
  <2> QED BY <2>1, <2>2 DEF IsSeating
<1>4. f[Len(roster)] = Entered(D, K, O, roster, Len(roster)) /\ Entered(D, K, O, roster, 0) \in SeatTables
  BY <1>1, EnteredType
<1> HIDE DEF f
<1>5. TakeSeats(Entered(D, K, O, roster, 0), roster) = f[Len(roster)]
  BY <1>1, <1>2, <1>3, <1>4, TakeSeatsIs
<1> QED BY <1>4, <1>5

\* Table t when the players of rows, in this order, have come to what was saved as b.
ComesFrom(t, b, came, n, where) ==
  /\ SoundTable(t, Larger(n, Len(came)), where)
  /\ t.players = {came[i].player : i \in 1 .. Len(came)}
  /\ \A s \in 1 .. Larger(n, Len(came)) : t.seats[s] = IF s \in 1 .. Len(came) THEN came[s].player ELSE Nobody
  /\ Waiters(t) = Identities(b) \ (1 .. Len(came))
  /\ \A s \in Waiters(t) : t.pending[s].who = SavedSeatPlayer(b, s)

LEMMA ResumeIsSound ==
  ASSUME NEW t, NEW n \in Nat, NEW where, SoundTable(t, n, where), NEW roster, IsRoster(roster, t),
         Len(roster) # 0, NEW preserve \in BOOLEAN,
         preserve <=> Waiters(t) # {} \/ Identities(t) \ (1 .. Len(roster)) # {}
  PROVE  ComesFrom(GameResumed(t, roster, preserve), t, roster, n, where)
<1> DEFINE L == Len(roster)
           A == AbsentSeats(t, roster, preserve)
           K == KeptSeats(t, A)
           O == Owners(t, roster, A)
           m == Larger(n, L)
           last == Entered(1 .. n, K, O, roster, L)
<1>1. /\ A = {s \in 1 .. n : s \notin Waiters(t) /\ t.seats[s] # Nobody /\ s \notin 1 .. L}
      /\ (Waiters(t) \cup A) \ (1 .. L) = Identities(t) \ (1 .. L)
  <2> HIDE DEF K, O, m, last
  <2>1. A = {s \in 1 .. n : s \notin Waiters(t) /\ t.seats[s] # Nobody /\ s \notin 1 .. L}
    <3>1. Preserves(preserve, t, roster)
      BY DEF Preserves
    <3>2. IsAbsent(A, t, n, roster)
      <4> HIDE DEF L
      <4> QED BY <3>1, AbsentIs
    <3> QED BY <3>2 DEF IsAbsent
  <2>2. Identities(t) = {s \in 1 .. n : s \in Waiters(t) \/ t.seats[s] # Nobody} /\ Waiters(t) \subseteq 1 .. n
    BY SavedIs DEF SoundTable
  <2> HIDE DEF A, L
  <2>3. (Waiters(t) \cup A) \ (1 .. L) = Identities(t) \ (1 .. L)
    BY <2>1, <2>2
  <2> QED BY <2>1, <2>3
<1>2. /\ t \in SeatTables /\ SeatsOf(t) = 1 .. n /\ Waiters(t) \subseteq 1 .. n
      /\ \A v \in Veterans : where[v] \in 1 .. n
  BY DEF SoundTable
<1>3. /\ roster \in Seq(Entries) /\ L \in Nat
      /\ \A i \in 1 .. L :
           /\ roster[i].seat = i /\ roster[i].previous = SavedSeatPlayer(t, i) /\ roster[i].player \notin t.players
           /\ \A w \in Waiters(t) : t.pending[w].who # roster[i].player
      /\ \A i, j \in 1 .. L : roster[i].player = roster[j].player => i = j
  BY DEF IsRoster
<1>4. \A i \in 1 .. L : roster[i].player \in People
  <2>1. \A i \in 1 .. L : roster[i] \in Entries
    BY <1>3
  <2> QED BY <2>1 DEF Entries
<1> HIDE DEF A
<1>5. /\ O \in [Veterans -> People \cup Nat] /\ K \in [Waiters(t) \cup A -> Estates]
      /\ \A s \in Waiters(t) \cup A : K[s].who = SavedSeatPlayer(t, s) /\ \A h \in K[s].hands : O[h] = s
      /\ \A v \in Veterans : IF where[v] \in Waiters(t) \cup A THEN v \in K[where[v]].hands
                             ELSE where[v] \in 1 .. L /\ O[v] = roster[where[v]].player
  <2> HIDE DEF L
  <2>1. A = {s \in 1 .. n : s \notin Waiters(t) /\ t.seats[s] # Nobody /\ s \notin 1 .. Len(roster)}
    BY <1>1 DEF L
  <2>2. IsKept(KeptSeats(t, A), Owners(t, roster, A), t, A, roster, where)
    BY <2>1, OwnersAre
  <2> QED BY <2>2 DEF L, IsKept
<1>6. Emptied(t, roster, A) = [players |-> {}, seats |-> [s \in SeatsOf(t) |-> Nobody], pending |-> K, hands |-> O]
  BY DEF Emptied
<1> HIDE DEF K, O
<1>7. DOMAIN K = Waiters(t) \cup A /\ Waiters(t) \cup A \subseteq 1 .. n
  BY <1>1, <1>2, <1>5
<1>8. Fitting(1 .. n, K, O, roster)
  <2>1. \A i \in 1 .. L : i \in DOMAIN K => roster[i].previous = K[i].who
    BY <1>3, <1>5, <1>7
  <2>2. K \in [DOMAIN K -> Estates] /\ 1 .. n \in SUBSET Nat
    BY <1>5, <1>7
  <2> QED BY <1>3, <1>5, <1>7, <2>1, <2>2 DEF Fitting
<1>9. Emptied(t, roster, A) = Entered(1 .. n, K, O, roster, 0)
  <2>1. 1 .. 0 = {}
    OBVIOUS
  <2>2. {roster[i].player : i \in 1 .. 0} = {}
    BY <2>1
  <2>3. [s \in SeatsOf(t) |-> Nobody] = [s \in 1 .. n \cup 1 .. 0 |-> IF s \in 1 .. 0 THEN roster[s].player ELSE Nobody]
    BY <1>2, <2>1
  <2>4. K = [s \in (DOMAIN K) \ (1 .. 0) |-> K[s]]
    BY <1>5, <2>1
  <2>5. O = [h \in Veterans |-> IF O[h] \in (1 .. 0) \cap DOMAIN K /\ h \in K[O[h]].hands THEN roster[O[h]].player ELSE O[h]]
    BY <1>5, <2>1
  <2> DEFINE players == {roster[i].player : i \in 1 .. 0}
             seats == [s \in 1 .. n \cup 1 .. 0 |-> IF s \in 1 .. 0 THEN roster[s].player ELSE Nobody]
             pending == [s \in (DOMAIN K) \ (1 .. 0) |-> K[s]]
             hands == [h \in Veterans |-> IF O[h] \in (1 .. 0) \cap DOMAIN K /\ h \in K[O[h]].hands
                                          THEN roster[O[h]].player ELSE O[h]]
  <2>6. Entered(1 .. n, K, O, roster, 0) = [players |-> players, seats |-> seats, pending |-> pending, hands |-> hands]
    BY DEF Entered
  <2>7. players = {} /\ seats = [s \in SeatsOf(t) |-> Nobody] /\ pending = K /\ hands = O
    BY <2>2, <2>3, <2>4, <2>5
  <2> HIDE DEF players, seats, pending, hands
  <2> QED BY <1>6, <2>6, <2>7
<1>10. TakeSeats(Emptied(t, roster, A), roster) = last
  BY <1>8, <1>9, AllEntered
<1>11. last \in SeatTables
  <2>1. L \in 0 .. L
    BY <1>3
  <2> QED BY <1>8, <2>1, EnteredType
<1>12. 1 .. n \cup 1 .. L = 1 .. m /\ m \in Nat
  BY <1>3 DEF Larger
<1>13. /\ last.players = {roster[i].player : i \in 1 .. L}
       /\ SeatsOf(last) = 1 .. m
       /\ \A s \in 1 .. m : last.seats[s] = IF s \in 1 .. L THEN roster[s].player ELSE Nobody
       /\ Waiters(last) = (Waiters(t) \cup A) \ (1 .. L)
       /\ \A s \in Waiters(last) : last.pending[s] = K[s]
       /\ \A h \in Veterans : last.hands[h] = IF O[h] \in (1 .. L) \cap DOMAIN K /\ h \in K[O[h]].hands
                                              THEN roster[O[h]].player ELSE O[h]
  BY <1>7, <1>12 DEF Entered, SeatsOf, Waiters
<1> HIDE DEF last, m
<1>14. \A s \in Waiters(last) : s \in 1 .. n /\ s \notin 1 .. L /\ s \in 1 .. m /\ last.pending[s].who = SavedSeatPlayer(t, s)
  BY <1>5, <1>7, <1>12, <1>13
<1>15. ValidPendingSeats(last)
  <2>1. ASSUME NEW s \in Waiters(last)
        PROVE  last.seats[s] = Nobody /\ last.pending[s].who \notin last.players
    <3>1. \A i \in 1 .. L : roster[i].player # SavedSeatPlayer(t, s)
      <4>1. SavedSeatPlayer(t, s) = IF s \in Waiters(t) THEN t.pending[s].who ELSE t.seats[s]
        BY <1>14, SavedIs
      <4>2. CASE s \in Waiters(t)
        BY <1>3, <4>1, <4>2
      <4>3. CASE s \notin Waiters(t)
        <5>1. t.seats[s] # Nobody /\ s \in 1 .. n
          BY <1>1, <1>13, <1>14, <4>3
        <5>2. t.seats[s] \in t.players
          BY <5>1 DEF SoundTable
        <5> QED BY <1>3, <4>1, <4>3, <5>2
      <4> QED BY <4>2, <4>3
    <3> QED BY <1>13, <1>14, <3>1
  <2>2. ASSUME NEW s \in Waiters(last), NEW r \in Waiters(last) \ {s}
        PROVE  last.pending[r].who # last.pending[s].who
    <3>1. SavedSeatPlayer(t, s) # Nobody
      <4>1. s \in Identities(t)
        BY <1>1, <1>13
      <4> QED BY <4>1 DEF Identities
    <3>2. SavedSeatPlayer(t, r) # SavedSeatPlayer(t, s)
      <4>1. \A x, y : SavedSeatPlayer(t, x) # Nobody /\ SavedSeatPlayer(t, x) = SavedSeatPlayer(t, y) => x = y
        BY SavedIs
      <4> QED BY <3>1, <4>1
    <3> QED BY <1>14, <3>2
  <2>3. ASSUME NEW s \in Waiters(last), NEW h \in last.pending[s].hands
        PROVE  last.hands[h] = s
    <3>1. h \in Veterans /\ O[h] = s /\ O[h] \notin 1 .. L
      BY <1>5, <1>13, <1>14 DEF Estates
    <3> QED BY <1>13, <3>1
  <2> QED BY <2>1, <2>2, <2>3 DEF ValidPendingSeats
<1>16. EstatesAt(last, where)
  <2>1. ASSUME NEW v \in Veterans
        PROVE  IF where[v] \in Waiters(last) THEN last.hands[v] = where[v] /\ v \in last.pending[where[v]].hands
               ELSE last.hands[v] = last.seats[where[v]] /\ last.hands[v] # Nobody
    <3>1. where[v] \in 1 .. m /\ where[v] \in 1 .. n
      BY <1>2, <1>12
    <3>2. CASE where[v] \in Waiters(last)
      <4>1. v \in K[where[v]].hands /\ v \in last.pending[where[v]].hands
        BY <1>5, <1>13, <3>2
      <4> QED BY <1>15, <3>2, <4>1 DEF ValidPendingSeats
    <3>3. CASE where[v] \notin Waiters(last)
      <4>1. where[v] \in 1 .. L
        BY <1>5, <1>13, <3>3
      <4>2. last.hands[v] = roster[where[v]].player
        <5>1. CASE where[v] \in Waiters(t) \cup A
          BY <1>5, <1>7, <1>13, <4>1, <5>1
        <5>2. CASE where[v] \notin Waiters(t) \cup A
          <6>1. O[v] = roster[where[v]].player /\ O[v] \notin 1 .. L
            BY <1>4, <1>5, <4>1, <5>2, Ids
          <6> QED BY <1>13, <6>1
        <5> QED BY <5>1, <5>2
      <4> QED BY <1>4, <1>13, <3>1, <3>3, <4>1, <4>2, Ids
    <3> QED BY <3>2, <3>3
  <2> QED BY <2>1 DEF EstatesAt
<1>17. SoundTable(last, m, where)
  <2>1. Waiters(last) \subseteq 1 .. m /\ \A v \in Veterans : where[v] \in 1 .. m
    BY <1>2, <1>12, <1>14
  <2>2. ASSUME NEW s \in 1 .. m, last.seats[s] # Nobody
        PROVE  s \in 1 .. L /\ last.seats[s] = roster[s].player /\ last.seats[s] \in last.players
    <3>1. s \in 1 .. L /\ last.seats[s] = roster[s].player
      BY <1>13, <2>2
    <3> QED BY <1>13, <3>1
  <2>3. ASSUME NEW s \in 1 .. m, NEW r \in 1 .. m, last.seats[s] # Nobody, last.seats[r] = last.seats[s]
        PROVE  r = s
    BY <1>3, <2>2, <2>3
  <2> QED BY <1>11, <1>13, <1>15, <1>16, <2>1, <2>2, <2>3 DEF SoundTable
<1>18. GameResumed(t, roster, preserve) = last
  <2>1. ResumeFits(t, roster, preserve)
    BY RosterFits
  <2> QED BY <1>10, <1>15, <2>1 DEF GameResumed, IfValid, A
<1>19. Waiters(last) = Identities(t) \ (1 .. L)
  BY <1>1, <1>13
<1> QED BY <1>13, <1>14, <1>17, <1>18, <1>19 DEF ComesFrom, m

-----------------------------------------------------------------------------
Rows == [player : Joiners, seat : Nat]

\* Rows of newcomers, each with the next seat.
IsRows(q, b) ==
  /\ q \in Seq(Rows)
  /\ \A i \in 1 .. Len(q) :
       /\ q[i].seat = i /\ q[i].player \notin b.players
       /\ \A w \in Waiters(b) : b.pending[w].who # q[i].player
  /\ \A i, j \in 1 .. Len(q) : q[i].player = q[j].player => i = j

LEMMA NextSeatIs ==
  ASSUME NEW t, NEW n \in Nat, SeatsOf(t) = 1 .. n, NEW k \in Nat
  PROVE  NextSeat(t, 1 .. k) = k + 1
<1>1. CASE k < n
  <2>1. k + 1 \in (1 .. n) \ (1 .. k) /\ \A x \in (1 .. n) \ (1 .. k) : k + 1 <= x
    BY <1>1
  <2>2. \A x \in (1 .. n) \ (1 .. k) : (\A y \in (1 .. n) \ (1 .. k) : x <= y) => x = k + 1
    BY <1>1, <2>1
  <2>3. Min((1 .. n) \ (1 .. k)) = k + 1
    BY <2>1, <2>2 DEF Min
  <2> QED BY <2>1, <2>3 DEF NextSeat
<1>2. CASE k >= n
  <2>1. (1 .. n) \ (1 .. k) = {} /\ 1 .. n \cup 1 .. k = 1 .. k
    BY <1>2
  <2>2. Cardinality(1 .. k) = k
    BY FS_Interval
  <2> QED BY <2>1, <2>2 DEF NextSeat
<1> QED BY <1>1, <1>2

\* Who joins is none of those who were saved.
LEMMA NewcomerIs ==
  ASSUME NEW b, NEW n \in Nat, NEW where, SoundTable(b, n, where), NEW p \in Joiners, p \notin b.players,
         \A w \in Waiters(b) : b.pending[w].who # p
  PROVE  p \in People /\ p # Nobody /\ \A s : SavedSeatPlayer(b, s) # p
<1>1. p \in People /\ p # Nobody
  BY Ids
<1>2. ASSUME NEW s
      PROVE  SavedSeatPlayer(b, s) # p
  <2>1. CASE s \notin 1 .. n
    BY <1>1, <2>1, SavedIs
  <2>2. CASE s \in 1 .. n
    <3>1. SavedSeatPlayer(b, s) = IF s \in Waiters(b) THEN b.pending[s].who ELSE b.seats[s]
      BY <2>2, SavedIs
    <3>2. b.seats[s] # Nobody => b.seats[s] \in b.players
      BY <2>2 DEF SoundTable
    <3> QED BY <1>1, <3>1, <3>2
  <2> QED BY <2>1, <2>2
<1> QED BY <1>1, <1>2

\* Table u is table t with p on seat k, who has what waited there.
IsSat(u, t, m, k, p) ==
  /\ u \in SeatTables /\ u.players = t.players \cup {p}
  /\ SeatsOf(u) = 1 .. m \cup {k}
  /\ u.seats[k] = p /\ \A s \in (1 .. m) \ {k} : u.seats[s] = t.seats[s]
  /\ Waiters(u) = Waiters(t) \ {k} /\ \A s \in Waiters(u) : u.pending[s] = t.pending[s]
  /\ \A h \in Veterans : u.hands[h] = IF k \in Waiters(t) /\ h \in t.pending[k].hands THEN p ELSE t.hands[h]

LEMMA SatIsSound ==
  ASSUME NEW b, NEW n \in Nat, NEW where, SoundTable(b, n, where), NEW q, IsRows(q, b),
         NEW p \in Joiners, p \notin b.players, \A w \in Waiters(b) : b.pending[w].who # p,
         \A i \in 1 .. Len(q) : q[i].player # p,
         NEW t, ComesFrom(t, b, q, n, where),
         NEW came, came = Append(q, [player |-> p, seat |-> Len(q) + 1]),
         NEW u, IsSat(u, t, Larger(n, Len(q)), Len(q) + 1, p)
  PROVE  ComesFrom(u, b, came, n, where)
<1> DEFINE L == Len(q)
           k == L + 1
           m == Larger(n, L)
           l == Larger(n, k)
<1>1. /\ L \in Nat /\ k \in Nat /\ Len(came) = k /\ came[k].player = p /\ \A i \in 1 .. L : came[i] = q[i]
      /\ 1 .. k = 1 .. L \cup {k} /\ k \notin 1 .. L
  BY DEF IsRows
<1>2. 1 .. m \cup {k} = 1 .. l /\ m \in Nat /\ l \in Nat /\ 1 .. m \subseteq 1 .. l
  BY <1>1 DEF Larger
<1>3. /\ t \in SeatTables /\ SeatsOf(t) = 1 .. m /\ Waiters(t) \subseteq 1 .. m
      /\ ValidPendingSeats(t) /\ EstatesAt(t, where) /\ \A v \in Veterans : where[v] \in 1 .. m
      /\ t.players = {q[i].player : i \in 1 .. L}
      /\ \A s \in 1 .. m : t.seats[s] = IF s \in 1 .. L THEN q[s].player ELSE Nobody
      /\ Waiters(t) = Identities(b) \ (1 .. L)
      /\ \A s \in Waiters(t) : t.pending[s].who = SavedSeatPlayer(b, s)
  BY DEF ComesFrom, SoundTable
<1>4. p \in People /\ p # Nobody /\ \A s : SavedSeatPlayer(b, s) # p
  BY NewcomerIs
<1>5. \A i \in 1 .. L : q[i].player \in People /\ q[i].player # Nobody /\ q[i].player # p
  <2>1. q \in Seq(Rows)
    BY DEF IsRows
  <2>2. \A i \in 1 .. L : q[i] \in Rows
    BY <2>1
  <2> QED BY <2>2, Ids DEF Rows
<1> HIDE DEF L, k, m, l
<1>6. /\ u \in SeatTables /\ u.players = t.players \cup {p} /\ SeatsOf(u) = 1 .. l
      /\ u.seats[k] = p /\ \A s \in (1 .. m) \ {k} : u.seats[s] = t.seats[s]
      /\ Waiters(u) = Waiters(t) \ {k} /\ \A s \in Waiters(u) : u.pending[s] = t.pending[s]
      /\ \A h \in Veterans : u.hands[h] = IF k \in Waiters(t) /\ h \in t.pending[k].hands THEN p ELSE t.hands[h]
  BY <1>2 DEF IsSat, L, k, m
<1>7. u.players = {came[i].player : i \in 1 .. k}
  BY <1>1, <1>3, <1>6
<1>8. ASSUME NEW s \in 1 .. l
      PROVE  u.seats[s] = IF s \in 1 .. k THEN came[s].player ELSE Nobody
  <2>1. CASE s = k
    BY <1>1, <1>6, <2>1
  <2>2. CASE s # k
    <3>1. s \in (1 .. m) \ {k}
      BY <1>2, <2>2
    <3> QED BY <1>1, <1>3, <1>6, <2>2, <3>1
  <2> QED BY <2>1, <2>2
<1>9. ASSUME NEW s \in Waiters(t), NEW h \in t.pending[s].hands
      PROVE  h \in Veterans /\ t.hands[h] = s
  <2>1. t.pending[s] \in Estates
    BY <1>3, MapsAre
  <2> QED BY <1>3, <1>9, <2>1 DEF ValidPendingSeats, Estates
<1>10. \A s \in Waiters(u) : s \in Waiters(t) /\ s # k /\ s \in 1 .. l /\ s \in 1 .. m
  BY <1>2, <1>3, <1>6
<1>11. ValidPendingSeats(u)
  <2>1. ASSUME NEW s \in Waiters(u)
        PROVE  u.seats[s] = Nobody /\ u.pending[s].who \notin u.players
    <3>1. t.seats[s] = Nobody /\ t.pending[s].who \notin t.players
      BY <1>3, <1>10 DEF ValidPendingSeats
    <3>2. t.pending[s].who # p
      BY <1>3, <1>4, <1>10
    <3> QED BY <1>6, <1>10, <3>1, <3>2
  <2>2. ASSUME NEW s \in Waiters(u), NEW r \in Waiters(u) \ {s}
        PROVE  u.pending[r].who # u.pending[s].who
    BY <1>3, <1>6, <1>10 DEF ValidPendingSeats
  <2>3. ASSUME NEW s \in Waiters(u), NEW h \in u.pending[s].hands
        PROVE  u.hands[h] = s
    <3>1. h \in Veterans /\ t.hands[h] = s
      BY <1>6, <1>9, <1>10
    <3>2. ~(k \in Waiters(t) /\ h \in t.pending[k].hands)
      BY <1>9, <1>10, <3>1
    <3> QED BY <1>6, <3>1, <3>2
  <2> QED BY <2>1, <2>2, <2>3 DEF ValidPendingSeats
<1>12. EstatesAt(u, where)
  <2>1. ASSUME NEW v \in Veterans
        PROVE  IF where[v] \in Waiters(u) THEN u.hands[v] = where[v] /\ v \in u.pending[where[v]].hands
               ELSE u.hands[v] = u.seats[where[v]] /\ u.hands[v] # Nobody
    <3>1. where[v] \in 1 .. m /\ where[v] \in Nat
      BY <1>2, <1>3
    <3>2. CASE where[v] \in Waiters(u)
      <4>1. v \in t.pending[where[v]].hands
        BY <1>3, <1>10, <3>2 DEF EstatesAt
      <4>2. v \in u.pending[where[v]].hands
        BY <1>6, <3>2, <4>1
      <4> QED BY <1>11, <3>2, <4>2 DEF ValidPendingSeats
    <3>3. CASE where[v] = k /\ k \in Waiters(t)
      <4>1. v \in t.pending[k].hands
        BY <1>3, <3>3 DEF EstatesAt
      <4> QED BY <1>4, <1>6, <3>3, <4>1
    <3>4. CASE where[v] \notin Waiters(t)
      <4>1. t.hands[v] = t.seats[where[v]] /\ t.hands[v] # Nobody
        BY <1>3, <3>4 DEF EstatesAt
      <4>2. where[v] \in 1 .. L /\ t.hands[v] \in People
        BY <1>3, <1>5, <3>1, <4>1
      <4>3. ~(k \in Waiters(t) /\ v \in t.pending[k].hands)
        BY <1>1, <1>9, <4>2, Ids DEF k
      <4>4. where[v] # k
        BY <1>1, <4>2
      <4> QED BY <1>6, <3>1, <3>4, <4>1, <4>3, <4>4
    <3> QED BY <1>6, <3>2, <3>3, <3>4
  <2> QED BY <2>1 DEF EstatesAt
<1>13. SoundTable(u, l, where)
  <2>1. Waiters(u) \subseteq 1 .. l /\ \A v \in Veterans : where[v] \in 1 .. l
    BY <1>2, <1>3, <1>10
  <2>2. ASSUME NEW s \in 1 .. l, u.seats[s] # Nobody
        PROVE  s \in 1 .. k /\ u.seats[s] = came[s].player /\ u.seats[s] \in u.players
    <3>1. s \in 1 .. k /\ u.seats[s] = came[s].player
      BY <1>8, <2>2
    <3> QED BY <1>7, <3>1
  <2>3. \A i, j \in 1 .. k : came[i].player = came[j].player => i = j
    <3>1. \A i, j \in 1 .. L : q[i].player = q[j].player => i = j
      BY DEF IsRows, L
    <3> QED BY <1>1, <1>5, <3>1
  <2>4. ASSUME NEW s \in 1 .. l, NEW r \in 1 .. l, u.seats[s] # Nobody, u.seats[r] = u.seats[s]
        PROVE  r = s
    BY <2>2, <2>3, <2>4
  <2> QED BY <1>6, <1>11, <1>12, <2>1, <2>2, <2>4 DEF SoundTable
<1>14. Waiters(u) = Identities(b) \ (1 .. k)
  BY <1>1, <1>3, <1>6
<1>15. \A s \in Waiters(u) : u.pending[s].who = SavedSeatPlayer(b, s)
  BY <1>3, <1>6, <1>10
<1> QED BY <1>1, <1>7, <1>8, <1>13, <1>14, <1>15 DEF ComesFrom, l

LEMMA AppendRow ==
  ASSUME NEW b, NEW q, IsRows(q, b), NEW p \in Joiners, p \notin b.players, \A w \in Waiters(b) : b.pending[w].who # p,
         \A i \in 1 .. Len(q) : q[i].player # p
  PROVE  IsRows(Append(q, [player |-> p, seat |-> Len(q) + 1]), b)
<1> DEFINE came == Append(q, [player |-> p, seat |-> Len(q) + 1])
           L == Len(q)
<1>1. q \in Seq(Rows) /\ L \in Nat
  BY DEF IsRows
<1>2. /\ came \in Seq(Rows) /\ Len(came) = L + 1
      /\ came[L + 1] = [player |-> p, seat |-> L + 1] /\ \A i \in 1 .. L : came[i] = q[i]
      /\ 1 .. L + 1 = 1 .. L \cup {L + 1} /\ L + 1 \notin 1 .. L
  BY <1>1 DEF Rows
<1>3. came[L + 1].player = p /\ came[L + 1].seat = L + 1
  BY <1>2
<1>4. /\ \A i \in 1 .. L : q[i].seat = i /\ q[i].player \notin b.players
                           /\ \A w \in Waiters(b) : b.pending[w].who # q[i].player
      /\ \A i, j \in 1 .. L : q[i].player = q[j].player => i = j
      /\ \A i \in 1 .. L : q[i].player # p
  BY DEF IsRows
<1> HIDE DEF came, L
<1>5. \A i \in 1 .. L + 1 : /\ came[i].seat = i /\ came[i].player \notin b.players
                            /\ \A w \in Waiters(b) : b.pending[w].who # came[i].player
  BY <1>2, <1>3, <1>4
<1>6. \A i, j \in 1 .. L + 1 : came[i].player = came[j].player => i = j
  BY <1>2, <1>3, <1>4
<1>7. IsRows(came, b)
  BY <1>2, <1>5, <1>6 DEF IsRows
<1> QED BY <1>7 DEF came

\* What the room sequences for a join: a claim of what was kept, or a seat.
LEMMA JoinIsSound ==
  ASSUME NEW b, NEW n \in Nat, NEW where, SoundTable(b, n, where), NEW q, IsRows(q, b),
         NEW p \in Joiners, p \notin b.players, \A w \in Waiters(b) : b.pending[w].who # p,
         \A i \in 1 .. Len(q) : q[i].player # p,
         NEW t, ComesFrom(t, b, q, n, where),
         NEW previous, previous = SavedSeatPlayer(b, Len(q) + 1),
         NEW u, u = IF Waiters(t) # {} /\ previous # Nobody THEN SeatClaim(t, Len(q) + 1, p, previous)
                    ELSE JoinAndSit(t, Len(q) + 1, p)
  PROVE  ComesFrom(u, b, Append(q, [player |-> p, seat |-> Len(q) + 1]), n, where)
<1> DEFINE L == Len(q)
           k == L + 1
           m == Larger(n, L)
<1>1. /\ L \in Nat /\ k \in Nat /\ k \notin 1 .. L
  BY DEF IsRows
<1>2. p \in People /\ p # Nobody /\ \A s : SavedSeatPlayer(b, s) # p
  BY NewcomerIs
<1>3. /\ t \in SeatTables /\ SeatsOf(t) = 1 .. m /\ Waiters(t) \subseteq 1 .. m /\ ValidPendingSeats(t)
      /\ t.players = {q[i].player : i \in 1 .. L}
      /\ \A s \in 1 .. m : t.seats[s] = IF s \in 1 .. L THEN q[s].player ELSE Nobody
      /\ Waiters(t) = Identities(b) \ (1 .. L)
      /\ \A s \in Waiters(t) : t.pending[s].who = SavedSeatPlayer(b, s)
  BY DEF ComesFrom, SoundTable
<1>4. p \notin t.players /\ \A s \in Waiters(t) : t.pending[s].who # p
  BY <1>2, <1>3
<1>5. t.seats \in [1 .. m -> People \cup {Nobody}] /\ t.pending \in [Waiters(t) -> Estates]
      /\ t.hands \in [Veterans -> People \cup Nat]
  BY <1>3, MapsAre
<1> HIDE DEF L, k, m
<1>6. \A x : IsSat(x, t, m, k, p) => ComesFrom(x, b, Append(q, [player |-> p, seat |-> k]), n, where) /\ ValidPendingSeats(x)
  <2> TAKE x
  <2> HAVE IsSat(x, t, m, k, p)
  <2>1. ComesFrom(x, b, Append(q, [player |-> p, seat |-> k]), n, where)
    BY SatIsSound DEF k, m, L
  <2> QED BY <2>1 DEF ComesFrom, SoundTable
<1>7. CASE k \in Waiters(t)
  <2> DEFINE x == RestoreSeat(t, k, p)
  <2>1. previous = t.pending[k].who /\ previous # Nobody
    BY <1>3, <1>7 DEF Identities, k, L
  <2>2. t.seats[k] = Nobody
    BY <1>3, <1>7 DEF ValidPendingSeats
  <2>3. x \in SeatTables /\ IsRestored(x, t, k, p)
    BY <1>2, <1>3, <1>7, RestoreIs
  <2> HIDE DEF x
  <2>4. /\ x.players = t.players \cup {p} /\ x.seats = [t.seats EXCEPT ![k] = p]
        /\ x.pending = Restrict(t.pending, Waiters(t) \ {k})
        /\ x.hands = [h \in Veterans |-> IF h \in t.pending[k].hands THEN p ELSE t.hands[h]]
    BY <2>3 DEF IsRestored
  <2>5. SeatsOf(x) = 1 .. m \cup {k} /\ x.seats[k] = p /\ \A s \in (1 .. m) \ {k} : x.seats[s] = t.seats[s]
    <3>1. k \in 1 .. m /\ 1 .. m \cup {k} = 1 .. m
      BY <1>3, <1>7
    <3> QED BY <1>5, <2>4, <3>1 DEF SeatsOf
  <2>6. x.pending = [s \in Waiters(t) \ {k} |-> t.pending[s]]
    BY <2>4 DEF Restrict
  <2>7. Waiters(x) = Waiters(t) \ {k} /\ \A s \in Waiters(x) : x.pending[s] = t.pending[s]
    BY <2>6 DEF Waiters
  <2>8. IsSat(x, t, m, k, p)
    BY <1>7, <2>3, <2>4, <2>5, <2>7 DEF IsSat
  <2>9. u = SeatClaim(t, k, p, previous)
    BY <1>7, <2>1 DEF k, L
  <2>10. u = IfValid(x, t)
    BY <1>4, <1>7, <2>1, <2>2, <2>9 DEF SeatClaim, x
  <2>11. u = x
    BY <1>6, <2>8, <2>10 DEF IfValid
  <2> QED BY <1>6, <2>8, <2>11 DEF k, L
<1>8. CASE k \notin Waiters(t)
  <2> DEFINE w == [t EXCEPT !.players = @ \cup {p}]
             x == [w EXCEPT !.seats = Put(w.seats, k, p)]
  <2>1. ~(Waiters(t) # {} /\ previous # Nobody)
    <3>1. previous # Nobody => k \in 1 .. n
      BY SavedIs DEF k, L
    <3>2. SeatsOf(b) = 1 .. n
      BY DEF SoundTable
    <3> QED BY <1>1, <1>3, <1>8, <3>1, <3>2 DEF Identities, k, L
  <2>2. t.players \cup {p} \in SUBSET People
    BY <1>2, <1>3, MapsAre
  <2>3. w \in SeatTables /\ w.players = t.players \cup {p} /\ w.seats = t.seats /\ w.pending = t.pending /\ w.hands = t.hands
    BY <1>3, <2>2 DEF SeatTables
  <2> HIDE DEF w
  <2>4. Put(w.seats, k, p) = [s \in 1 .. m \cup {k} |-> IF s = k THEN p ELSE t.seats[s]]
    BY <1>5, <2>3 DEF Put
  <2>5. Put(w.seats, k, p) \in SeatMaps
    <3>1. Put(w.seats, k, p) \in [1 .. m \cup {k} -> People \cup {Nobody}]
      BY <1>2, <1>5, <2>4
    <3>2. 1 .. m \cup {k} \in SUBSET Nat
      <4>1. SeatsOf(t) \in SUBSET Nat
        BY <1>3, MapsAre
      <4> QED BY <1>1, <1>3, <4>1
    <3> QED BY <3>1, <3>2, IsSeatMap
  <2>6. x \in SeatTables /\ x.players = w.players /\ x.seats = Put(w.seats, k, p) /\ x.pending = w.pending /\ x.hands = w.hands
    BY <2>3, <2>5 DEF SeatTables
  <2> HIDE DEF x
  <2>7. SeatsOf(x) = 1 .. m \cup {k} /\ x.seats[k] = p /\ \A s \in (1 .. m) \ {k} : x.seats[s] = t.seats[s]
    BY <2>4, <2>6 DEF SeatsOf
  <2>8. Waiters(x) = Waiters(t) \ {k} /\ \A s \in Waiters(x) : x.pending[s] = t.pending[s]
    BY <1>8, <2>3, <2>6 DEF Waiters
  <2>9. IsSat(x, t, m, k, p)
    BY <1>8, <2>3, <2>6, <2>7, <2>8 DEF IsSat
  <2>10. Waiters(w) = Waiters(t)
    BY <2>3 DEF Waiters
  <2>11. ValidPendingSeats(w)
    BY <1>3, <1>4, <2>3, <2>10 DEF ValidPendingSeats
  <2>12. PlayerJoined(t, p) = w
    BY <1>4, <2>11 DEF PlayerJoined, IfValid, w
  <2>13. ValidPendingSeats(x) /\ p \in w.players
    BY <1>6, <2>3, <2>9
  <2>14. SeatAssign(w, k, p) = x
    BY <2>13 DEF SeatAssign, IfValid, x
  <2>15. u = x
    BY <2>1, <2>12, <2>14 DEF JoinAndSit, k, L
  <2> QED BY <1>6, <2>9, <2>15 DEF k, L
<1> QED BY <1>7, <1>8

\* Before the start the table is what was saved; after it, what has come of it.
SeatsHold(n) ==
  /\ SoundTable(base, n, home) /\ IsRows(rows, base) /\ started \in BOOLEAN /\ paused \in BOOLEAN
  /\ IF started THEN ComesFrom(table, base, rows, n, home) /\ (paused <=> Waiters(table) # {})
     ELSE table = base /\ ~paused

ResumeInv == \E n \in Nat : SeatsHold(n)

LEMMA RowsAre ==
  ASSUME NEW n \in Nat, SeatsHold(n)
  PROVE  /\ DOMAIN rows = 1 .. Len(rows) /\ Len(rows) \in Nat
         /\ Assigned = 1 .. Len(rows) /\ JoinedPlayers = {rows[i].player : i \in 1 .. Len(rows)}
<1>1. IsRows(rows, base)
  BY DEF SeatsHold
<1>2. rows \in Seq(Rows) /\ \A i \in 1 .. Len(rows) : rows[i].seat = i
  BY <1>1 DEF IsRows
<1> QED BY <1>2 DEF Assigned, JoinedPlayers

LEMMA SeatsStart == ResumeInit => ResumeInv
<1> SUFFICES ASSUME ResumeInit
             PROVE  SeatsHold(SavedSeats) /\ SavedSeats \in Nat
  BY DEF ResumeInv
<1>1. PICK sits \in [1 .. SavedSeats -> Veterans \cup {Nobody}] :
        /\ \A v \in Veterans : \E s \in 1 .. SavedSeats : sits[s] = v /\ \A r \in 1 .. SavedSeats : sits[r] = v => r = s
        /\ base = [players |-> Veterans, seats |-> sits, pending |-> << >>, hands |-> [v \in Veterans |-> v]]
        /\ home = [v \in Veterans |-> CHOOSE s \in 1 .. SavedSeats : sits[s] = v]
  BY DEF ResumeInit
<1>2. SavedSeats \in Nat
  BY ResumeAssumption
<1>3. /\ base.players = Veterans /\ base.seats = sits /\ base.pending = << >> /\ base.hands = [v \in Veterans |-> v]
      /\ SeatsOf(base) = 1 .. SavedSeats /\ Waiters(base) = {}
  BY <1>1 DEF SeatsOf, Waiters
<1>4. base \in SeatTables
  <2>1. base.seats \in SeatMaps
    <3>1. sits \in [1 .. SavedSeats -> People \cup {Nobody}] /\ 1 .. SavedSeats \in SUBSET Nat
      BY <1>2, Ids
    <3> QED BY <1>3, <3>1, IsSeatMap
  <2>2. << >> \in PendingMaps
    <3>1. << >> \in [{} -> Estates]
      OBVIOUS
    <3>2. {} \in SUBSET Nat
      OBVIOUS
    <3> QED BY <3>1, <3>2, IsPendingMap
  <2>3. base.hands \in [Veterans -> People \cup Nat]
    BY <1>3, Ids
  <2> QED BY <1>1, <1>3, <2>1, <2>2, <2>3, Ids DEF SeatTables
<1>5. ASSUME NEW v \in Veterans
      PROVE  home[v] \in 1 .. SavedSeats /\ sits[home[v]] = v
  BY <1>1
<1>6. EstatesAt(base, home)
  BY <1>3, <1>5, Ids DEF EstatesAt
<1>7. ValidPendingSeats(base)
  BY <1>3 DEF ValidPendingSeats
<1>8. SoundTable(base, SavedSeats, home)
  <2>1. \A s \in 1 .. SavedSeats : base.seats[s] # Nobody => base.seats[s] \in base.players
    BY <1>3
  <2>2. \A s, r \in 1 .. SavedSeats : base.seats[s] # Nobody /\ base.seats[r] = base.seats[s] => r = s
    <3>1. \A s \in 1 .. SavedSeats : sits[s] # Nobody => sits[s] \in Veterans
      OBVIOUS
    <3> QED BY <1>1, <1>3, <3>1
  <2> QED BY <1>3, <1>4, <1>5, <1>6, <1>7, <2>1, <2>2 DEF SoundTable
<1>9. rows = << >> /\ started = FALSE /\ paused = FALSE /\ table = base
  BY DEF ResumeInit
<1>10. IsRows(rows, base)
  BY <1>9 DEF IsRows
<1> QED BY <1>2, <1>8, <1>9, <1>10 DEF SeatsHold

LEMMA JoinKeepsSeats ==
  ASSUME NEW n \in Nat, SeatsHold(n), NEW p \in Joiners, JoinResumed(p)
  PROVE  SeatsHold(n)'
<1> DEFINE L == Len(rows)
           k == L + 1
           previous == SavedSeatPlayer(base, k)
           came == Append(rows, [player |-> p, seat |-> k])
<1>1. /\ SoundTable(base, n, home) /\ IsRows(rows, base) /\ started \in BOOLEAN /\ paused \in BOOLEAN
      /\ SeatsOf(base) = 1 .. n
      /\ L \in Nat /\ Assigned = 1 .. L /\ JoinedPlayers = {rows[i].player : i \in 1 .. L}
  BY RowsAre DEF SeatsHold, SoundTable
<1>2. NextSeat(base, Assigned) = k
  BY <1>1, NextSeatIs
<1>3. /\ p \notin base.players /\ \A w \in Waiters(base) : base.pending[w].who # p
      /\ \A i \in 1 .. L : rows[i].player # p
  BY <1>1 DEF JoinResumed
<1>4. /\ rows' = came
      /\ table' = IF ~started THEN table
                  ELSE IF paused /\ previous # Nobody THEN SeatClaim(table, k, p, previous)
                  ELSE JoinAndSit(table, k, p)
      /\ paused' = (paused /\ StillWaiting(1 .. L \cup {k}))
      /\ base' = base /\ started' = started /\ home' = home
  BY <1>1, <1>2 DEF JoinResumed
<1>5. 1 .. L \cup {k} = 1 .. k
  BY <1>1
<1>6. IsRows(came, base)
  BY <1>1, <1>3, AppendRow
<1>7. Len(came) = k
  BY <1>1 DEF IsRows
<1> HIDE DEF k, came, previous, L
<1>8. CASE ~started
  <2>1. table = base /\ ~paused
    BY <1>8 DEF SeatsHold
  <2> QED BY <1>1, <1>4, <1>6, <1>8, <2>1 DEF SeatsHold
<1>9. CASE started
  <2>1. ComesFrom(table, base, rows, n, home) /\ (paused <=> Waiters(table) # {})
    BY <1>9 DEF SeatsHold
  <2>2. table' = IF Waiters(table) # {} /\ previous # Nobody THEN SeatClaim(table, k, p, previous)
                 ELSE JoinAndSit(table, k, p)
    <3>1. table' = IF paused /\ previous # Nobody THEN SeatClaim(table, k, p, previous) ELSE JoinAndSit(table, k, p)
      BY <1>4, <1>9
    <3>2. paused <=> Waiters(table) # {}
      BY <2>1
    <3> QED BY <3>1, <3>2
  <2>3. ComesFrom(table', base, came, n, home)
    <3>1. k = Len(rows) + 1 /\ L = Len(rows) /\ came = Append(rows, [player |-> p, seat |-> Len(rows) + 1])
      BY DEF k, came, L
    <3>2. previous = SavedSeatPlayer(base, Len(rows) + 1)
      BY DEF previous, k, L
    <3>3. table' = IF Waiters(table) # {} /\ previous # Nobody THEN SeatClaim(table, Len(rows) + 1, p, previous)
                   ELSE JoinAndSit(table, Len(rows) + 1, p)
      BY <2>2, <3>1
    <3>4. \A i \in 1 .. Len(rows) : rows[i].player # p
      BY <1>3, <3>1
    <3>5. ComesFrom(table', base, Append(rows, [player |-> p, seat |-> Len(rows) + 1]), n, home)
      <4>1. SoundTable(base, n, home) /\ IsRows(rows, base) /\ p \notin base.players
            /\ \A w \in Waiters(base) : base.pending[w].who # p
        BY <1>1, <1>3
      <4>2. ComesFrom(table, base, rows, n, home)
        BY <2>1
      <4> QED BY <3>2, <3>3, <3>4, <4>1, <4>2, JoinIsSound
    <3> QED BY <3>1, <3>5
  <2>4. Waiters(table') = Identities(base) \ (1 .. k) /\ Waiters(table) = Identities(base) \ (1 .. L)
    BY <1>7, <2>1, <2>3 DEF ComesFrom, L
  <2>5. paused' <=> Waiters(table') # {}
    BY <1>4, <1>5, <2>1, <2>4 DEF StillWaiting
  <2>6. paused' \in BOOLEAN
    BY <1>4
  <2> QED BY <1>1, <1>4, <1>6, <1>9, <2>3, <2>5, <2>6 DEF SeatsHold
<1> QED BY <1>1, <1>8, <1>9

LEMMA StartKeepsSeats ==
  ASSUME NEW n \in Nat, SeatsHold(n), StartResumed
  PROVE  SeatsHold(n)'
<1> DEFINE L == Len(rows)
           roster == [i \in DOMAIN rows |->
                        [player |-> rows[i].player, seat |-> RosterSeat(i),
                         previous |-> SavedSeatPlayer(base, RosterSeat(i))]]
           taken == {roster[i].seat : i \in DOMAIN roster}
           preserve == Waiters(base) # {} \/ StillWaiting(taken)
<1>1. /\ SoundTable(base, n, home) /\ IsRows(rows, base)
      /\ DOMAIN rows = 1 .. L /\ L \in Nat /\ L # 0 /\ ~started
  <2>1. rows \in Seq(Rows) /\ rows # << >>
    BY DEF SeatsHold, IsRows, StartResumed
  <2> QED BY <2>1, RowsAre DEF SeatsHold, StartResumed
<1>2. /\ table' = GameResumed(base, roster, preserve) /\ paused' = StillWaiting(taken)
      /\ started' = TRUE /\ base' = base /\ rows' = rows /\ home' = home
  BY DEF StartResumed
<1>3. /\ DOMAIN roster = 1 .. L
      /\ \A i \in 1 .. L : roster[i] = [player |-> rows[i].player, seat |-> i, previous |-> SavedSeatPlayer(base, i)]
  BY <1>1 DEF RosterSeat
<1> HIDE DEF roster
<1>4. \A i \in 1 .. L : /\ roster[i].player = rows[i].player /\ roster[i].seat = i
                        /\ roster[i].previous = SavedSeatPlayer(base, i)
  BY <1>3
<1>5. roster \in Seq(Entries) /\ Len(roster) = L
  <2>1. ASSUME NEW i \in 1 .. L
        PROVE  roster[i] \in Entries
    <3>1. rows \in Seq(Rows)
      BY <1>1 DEF IsRows
    <3>2. rows[i].player \in People
      <4>1. rows[i] \in Rows
        BY <1>1, <3>1
      <4> QED BY <4>1, Ids DEF Rows
    <3>3. SavedSeatPlayer(base, i) \in People \cup {Nobody} /\ i \in Nat
      <4>1. \A s : SavedSeatPlayer(base, s) \in People \cup {Nobody}
        BY <1>1, SavedIs
      <4>2. i \in Nat
        BY <1>1
      <4> QED BY <4>1, <4>2
    <3> QED BY <1>3, <3>2, <3>3 DEF Entries
  <2>2. roster = [i \in 1 .. L |-> roster[i]]
    BY <1>1 DEF roster
  <2> HIDE DEF L
  <2>3. \E N \in Nat : roster \in [1 .. N -> Entries]
    BY <1>1, <2>1, <2>2
  <2> QED BY <1>1, <1>3, <2>1, <2>2
<1>6. IsRoster(roster, base)
  BY <1>1, <1>4, <1>5 DEF IsRoster, IsRows
<1>7. taken = 1 .. L
  BY <1>3, <1>4
<1> HIDE DEF taken, L
<1>8. StillWaiting(taken) <=> Identities(base) \ (1 .. L) # {}
  BY <1>7 DEF StillWaiting
<1>9. preserve \in BOOLEAN /\ (preserve <=> Waiters(base) # {} \/ Identities(base) \ (1 .. Len(roster)) # {})
  BY <1>5, <1>8
<1> HIDE DEF preserve
<1>10. ComesFrom(table', base, roster, n, home)
  BY <1>1, <1>2, <1>5, <1>6, <1>9, ResumeIsSound
<1>11. Len(roster) = Len(rows) /\ \A i \in 1 .. Len(rows) : roster[i].player = rows[i].player
  BY <1>4, <1>5 DEF L
<1>12. {roster[i].player : i \in 1 .. Len(rows)} = {rows[i].player : i \in 1 .. Len(rows)}
  BY <1>11
<1>13. ComesFrom(table', base, rows, n, home)
  BY <1>10, <1>11, <1>12 DEF ComesFrom
<1>14. Waiters(table') = Identities(base) \ (1 .. L)
  BY <1>13 DEF ComesFrom, L
<1>15. paused' \in BOOLEAN /\ (paused' <=> Waiters(table') # {})
  BY <1>2, <1>8, <1>14 DEF StillWaiting
<1> QED BY <1>1, <1>2, <1>13, <1>15 DEF SeatsHold

LEMMA SaveKeepsSeats ==
  ASSUME NEW n \in Nat, SeatsHold(n), SaveAndResume
  PROVE  ResumeInv'
<1>1. /\ base' = table /\ table' = table /\ rows' = << >> /\ started' = FALSE /\ paused' = FALSE /\ home' = home /\ started
  BY DEF SaveAndResume, NewRoom
<1>2. PICK m \in Nat : SoundTable(table, m, home)
  <2>1. SoundTable(table, Larger(n, Len(rows)), home)
    BY <1>1 DEF SeatsHold, ComesFrom
  <2>2. Larger(n, Len(rows)) \in Nat
    BY RowsAre DEF Larger
  <2> QED BY <2>1, <2>2
<1>4. IsRows(<< >>, table)
  BY DEF IsRows
<1>5. SeatsHold(m)'
  BY <1>1, <1>2, <1>4 DEF SeatsHold
<1> QED BY <1>5 DEF ResumeInv

\* The room and the table never disagree about a seat, and no estate is lost.
\* (nextResumedSeatId, join, the kernel's seat actions.)
THEOREM SeatsAlwaysSound == ResumeSpec => []SeatsAreSound
<1>1. ResumeInv /\ [ResumeNext]_resumeVars => ResumeInv'
  <2> SUFFICES ASSUME ResumeInv, [ResumeNext]_resumeVars
               PROVE  ResumeInv'
    OBVIOUS
  <2>1. PICK n \in Nat : SeatsHold(n)
    BY DEF ResumeInv
  <2>2. CASE \E p \in Joiners : JoinResumed(p)
    BY <2>1, <2>2, JoinKeepsSeats DEF ResumeInv
  <2>3. CASE StartResumed
    BY <2>1, <2>3, StartKeepsSeats DEF ResumeInv
  <2>4. CASE SaveAndResume
    BY <2>1, <2>4, SaveKeepsSeats
  <2>5. CASE UNCHANGED resumeVars
    BY <2>1, <2>5 DEF ResumeInv, SeatsHold, resumeVars
  <2> QED BY <2>2, <2>3, <2>4, <2>5 DEF ResumeNext
<1>2. ResumeInv => SeatsAreSound
  <2> SUFFICES ASSUME ResumeInv
               PROVE  SeatsAreSound
    OBVIOUS
  <2>1. PICK n \in Nat : SeatsHold(n)
    BY DEF ResumeInv
  <2>2. /\ DOMAIN rows = 1 .. Len(rows) /\ Len(rows) \in Nat /\ Assigned = 1 .. Len(rows)
        /\ JoinedPlayers = {rows[i].player : i \in 1 .. Len(rows)}
    BY <2>1, RowsAre
  <2>3. EstatesAt(table, home)
    BY <2>1 DEF SeatsHold, ComesFrom, SoundTable
  <2>4. ASSUME started
        PROVE  /\ table.players = JoinedPlayers /\ Assigned \subseteq SeatsOf(table)
               /\ \A i \in DOMAIN rows : table.seats[rows[i].seat] = rows[i].player
               /\ \A s \in SeatsOf(table) : table.seats[s] # Nobody => s \in Assigned
               /\ paused <=> Waiters(table) # {}
    <3>1. ComesFrom(table, base, rows, n, home) /\ (paused <=> Waiters(table) # {}) /\ IsRows(rows, base)
      BY <2>1, <2>4 DEF SeatsHold
    <3>2. SeatsOf(table) = 1 .. Larger(n, Len(rows)) /\ 1 .. Len(rows) \subseteq 1 .. Larger(n, Len(rows))
      BY <2>2, <3>1 DEF ComesFrom, SoundTable, Larger
    <3>3. /\ table.players = {rows[i].player : i \in 1 .. Len(rows)}
          /\ \A s \in 1 .. Larger(n, Len(rows)) :
               table.seats[s] = IF s \in 1 .. Len(rows) THEN rows[s].player ELSE Nobody
      BY <3>1 DEF ComesFrom
    <3>4. \A i \in 1 .. Len(rows) : rows[i].seat = i
      BY <3>1 DEF IsRows
    <3> QED BY <2>2, <3>1, <3>2, <3>3, <3>4
  <2>5. RoomAndTableAgree
    BY <2>4 DEF RoomAndTableAgree
  <2>6. EstatesStayWithSeats
    BY <2>3 DEF EstatesAt, EstatesStayWithSeats
  <2> QED BY <2>5, <2>6 DEF SeatsAreSound
<1> QED BY <1>1, <1>2, SeatsStart, PTL DEF ResumeSpec

-----------------------------------------------------------------------------
(***************************************************************************)
(* Turns and points at saved tables (TurnOrder): every step keeps the      *)
(* library's turns in order on the seats of the table, and what its        *)
(* players see by seats (ViewOf) stays.                                    *)
(***************************************************************************)
\* f adds the elements of seq that are in S, one after the other.
IsAmong(f, seq, S) ==
  /\ f[0] = << >>
  /\ \A i \in 1 .. Len(seq) : f[i] = IF seq[i] \in S THEN Append(f[i - 1], seq[i]) ELSE f[i - 1]

LEMMA AmongType ==
  ASSUME NEW E, NEW S, NEW r \in Seq(E), NEW e \in E
  PROVE  (IF e \in S THEN Append(r, e) ELSE r) \in Seq(E)
OBVIOUS

LEMMA AmongIterates ==
  ASSUME NEW E, NEW S, NEW seq \in Seq(E)
  PROVE  \E f \in [0 .. Len(seq) -> Seq(E)] : IsAmong(f, seq, S) /\ Among(seq, S) = f[Len(seq)]
<1> DEFINE n == Len(seq)
           start == << >>
           h == [x \in Seq(E) \X (1 .. n) |-> (IF seq[x[2]] \in S THEN Append(x[1], seq[x[2]]) ELSE x[1])]
           Body(g) == [s \in SUBSET DOMAIN seq |-> IF s = {} THEN start ELSE (IF seq[Max(s)] \in S THEN Append(g[s \ {Max(s)}], seq[Max(s)]) ELSE g[s \ {Max(s)}])]
           G == CHOOSE g : g = Body(g)
<1>1. n \in Nat /\ DOMAIN seq = 1 .. n /\ start \in Seq(E) /\ \A i \in 1 .. n : seq[i] \in E
  OBVIOUS
<1>2. h \in [Seq(E) \X (1 .. n) -> Seq(E)]
  <2> SUFFICES ASSUME NEW x \in Seq(E) \X (1 .. n)
               PROVE  (IF seq[x[2]] \in S THEN Append(x[1], seq[x[2]]) ELSE x[1]) \in Seq(E)
    OBVIOUS
  <2> QED BY <1>1, AmongType
<1>3. \A r \in Seq(E), i \in 1 .. n : h[<<r, i>>] = (IF seq[i] \in S THEN Append(r, seq[i]) ELSE r)
  OBVIOUS
<1>4. Among(seq, S) = G[DOMAIN seq]
  BY DEF Among, FoldLeft, MapThenFoldSet
<1> HIDE DEF h, n, start
<1>5. ASSUME NEW s \in SUBSET (1 .. n), s # {}
      PROVE  Max(s) \in 1 .. n
  BY <1>1, <1>5, GreatestOf
<1>6. PICK g \in [SUBSET (1 .. n) -> Seq(E)] : IsFoldUp(g, n, start, h)
  BY <1>1, <1>2, FoldUpExists
<1>7. g = Body(g)
  <2>1. ASSUME NEW s \in SUBSET (1 .. n)
        PROVE  g[s] = IF s = {} THEN start ELSE (IF seq[Max(s)] \in S THEN Append(g[s \ {Max(s)}], seq[Max(s)]) ELSE g[s \ {Max(s)}])
    BY <1>3, <1>5, <1>6 DEF IsFoldUp
  <2> QED BY <1>1, <1>6, <2>1
<1>8. G = Body(G)
  <2> HIDE DEF Body
  <2> QED BY <1>7
<1>9. FoldsUp(G, n, Seq(E), start, h)
  <2> HIDE DEF G
  <2> QED BY <1>1, <1>3, <1>5, <1>8 DEF FoldsUp
<1>10. PICK f \in [0 .. n -> Seq(E)] : ComesTo(G, f, n, start, h)
  <2> HIDE DEF G
  <2> QED BY <1>1, <1>2, <1>9, FoldUp
<1>11. IsAmong(f, seq, S)
  <2>1. \A i \in 1 .. n : f[i - 1] \in Seq(E)
    BY <1>1, <1>10
  <2> QED BY <1>3, <1>10, <2>1 DEF IsAmong, ComesTo, IsIteration, n, start
<1> QED BY <1>1, <1>4, <1>10, <1>11 DEF ComesTo, n

LEMMA AmongIs ==
  ASSUME NEW E, NEW S, NEW seq \in Seq(E),
         NEW f \in [0 .. Len(seq) -> Seq(E)], IsAmong(f, seq, S)
  PROVE  Among(seq, S) = f[Len(seq)]
<1>1. PICK g \in [0 .. Len(seq) -> Seq(E)] : IsAmong(g, seq, S) /\ Among(seq, S) = g[Len(seq)]
  BY AmongIterates
<1>2. \A k \in 0 .. Len(seq) : g[k] = f[k]
  <2>1. g[0] = f[0]
    BY <1>1 DEF IsAmong
  <2>2. \A k \in 1 .. Len(seq) : g[k - 1] = f[k - 1] => g[k] = f[k]
    BY <1>1 DEF IsAmong
  <2>3. Len(seq) \in Nat
    OBVIOUS
  <2> QED BY <2>1, <2>2, <2>3, IterationsAgree, Zenon
<1> QED BY <1>1, <1>2

\* Nothing is in the sequence twice.
IsLine(seq, S) == seq \in Seq(S) /\ \A i, j \in 1 .. Len(seq) : seq[i] = seq[j] => i = j

\* What is among S in a line is a line of it.
LEMMA AmongIsLine ==
  ASSUME NEW E, NEW S, NEW seq, IsLine(seq, E)
  PROVE  IsLine(Among(seq, S), E \cap S) /\ Range(Among(seq, S)) = Range(seq) \cap S
<1> DEFINE n == Len(seq)
           D == {seq[j] : j \in 1 .. n} \cap S
<1>1. /\ seq \in Seq(E) /\ n \in Nat /\ DOMAIN seq = 1 .. n
      /\ \A i, j \in 1 .. n : seq[i] = seq[j] => i = j
  BY DEF IsLine
<1>2. PICK f \in [0 .. n -> Seq(E)] : IsAmong(f, seq, S) /\ Among(seq, S) = f[n]
  <2>1. \E f \in [0 .. Len(seq) -> Seq(E)] : IsAmong(f, seq, S) /\ Among(seq, S) = f[Len(seq)]
    <3> HIDE DEF n
    <3>1. seq \in Seq(E)
      BY <1>1
    <3> QED BY <3>1, AmongIterates, Zenon
  <2> QED BY <2>1
<1> HIDE DEF n
<1> DEFINE Fine(k) == /\ f[k] \in Seq(E \cap S)
                      /\ {f[k][i] : i \in 1 .. Len(f[k])} = {seq[j] : j \in 1 .. k} \cap S
                      /\ \A i, j \in 1 .. Len(f[k]) : f[k][i] = f[k][j] => i = j
           K == {k \in 0 .. n : Fine(k)}
<1>3. 0 \in K
  <2>1. f[0] = << >> /\ 1 .. 0 = {} /\ 0 \in 0 .. n
    BY <1>1, <1>2 DEF IsAmong
  <2> QED BY <2>1
<1>4. ASSUME NEW k \in 0 .. n - 1, k \in K
      PROVE  k + 1 \in K
  <2>1. k + 1 \in 1 .. n /\ k + 1 \in 0 .. n /\ (k + 1) - 1 = k /\ 1 .. k + 1 = 1 .. k \cup {k + 1} /\ k + 1 \notin 1 .. k
        /\ 1 .. k \subseteq 1 .. n
    BY <1>1
  <2>2. f[k + 1] = IF seq[k + 1] \in S THEN Append(f[k], seq[k + 1]) ELSE f[k]
    BY <1>2, <2>1 DEF IsAmong, n
  <2>3. Fine(k)
    BY <1>4
  <2> DEFINE q == f[k]
             x == seq[k + 1]
  <2>4. CASE x \notin S
    <3>1. f[k + 1] = f[k]
      BY <2>2, <2>4
    <3>2. {seq[j] : j \in 1 .. k + 1} \cap S = {seq[j] : j \in 1 .. k} \cap S
      BY <2>1, <2>4
    <3>3. Fine(k + 1)
      BY <2>3, <3>1, <3>2
    <3> QED BY <2>1, <3>3
  <2>5. CASE x \in S
    <3>1. f[k + 1] = Append(q, x)
      BY <2>2, <2>5
    <3>2. q \in Seq(E \cap S) /\ x \in E \cap S /\ Len(q) \in Nat
      BY <1>1, <2>1, <2>3, <2>5
    <3>3. \A i \in 1 .. Len(q) : q[i] \in {seq[j] : j \in 1 .. k}
      BY <2>3
    <3>4. \A i \in 1 .. Len(q) : q[i] # x
      BY <1>1, <2>1, <3>3
    <3>5. {seq[j] : j \in 1 .. k + 1} \cap S = ({seq[j] : j \in 1 .. k} \cap S) \cup {x}
      BY <2>1, <2>5
    <3>6. {q[i] : i \in 1 .. Len(q)} = {seq[j] : j \in 1 .. k} \cap S /\ \A i, j \in 1 .. Len(q) : q[i] = q[j] => i = j
      BY <2>3
    <3> DEFINE u == f[k + 1]
               A == {seq[j] : j \in 1 .. k} \cap S
               B == {seq[j] : j \in 1 .. k + 1} \cap S
    <3> HIDE DEF q, x, A, B
    <3>7. /\ u \in Seq(E \cap S) /\ Len(u) = Len(q) + 1 /\ u[Len(q) + 1] = x /\ \A i \in 1 .. Len(q) : u[i] = q[i]
          /\ 1 .. Len(q) + 1 = 1 .. Len(q) \cup {Len(q) + 1}
      BY <3>1, <3>2
    <3> HIDE DEF u
    <3>8. {u[i] : i \in 1 .. Len(u)} = {q[i] : i \in 1 .. Len(q)} \cup {x}
      BY <3>7
    <3>9. \A i, j \in 1 .. Len(u) : u[i] = u[j] => i = j
      BY <3>4, <3>6, <3>7
    <3>10. {u[i] : i \in 1 .. Len(u)} = B
      BY <3>5, <3>6, <3>8 DEF A, B
    <3>11. Fine(k + 1)
      BY <3>7, <3>9, <3>10 DEF u, B
    <3> HIDE DEF Fine
    <3> QED BY <2>1, <3>11
  <2> QED BY <2>4, <2>5
<1> HIDE DEF K
<1>5. n \in K
  <2>1. \A k \in 0 .. n : k \in K
    BY <1>1, <1>3, <1>4, UpTo
  <2> QED BY <1>1, <2>1
<1>6. Fine(n)
  BY <1>5 DEF K
<1>7. Range(f[n]) = {f[n][i] : i \in 1 .. Len(f[n])}
  <2>1. DOMAIN f[n] = 1 .. Len(f[n])
    BY <1>6
  <2> QED BY <2>1 DEF Range
<1>8. Range(seq) = {seq[j] : j \in 1 .. n}
  BY <1>1 DEF Range
<1> QED BY <1>2, <1>6, <1>7, <1>8 DEF IsLine

LEMMA AmongAll ==
  ASSUME NEW E, NEW S, NEW seq \in Seq(E), Range(seq) \subseteq S
  PROVE  Among(seq, S) = seq
<1> DEFINE n == Len(seq)
           f == [k \in 0 .. n |-> [j \in 1 .. k |-> seq[j]]]
<1>1. n \in Nat /\ \A j \in 1 .. n : seq[j] \in E /\ seq[j] \in S
  BY DEF Range
<1>2. \A k \in 0 .. n : f[k] = [j \in 1 .. k |-> seq[j]] /\ f[k] \in Seq(E) /\ Len(f[k]) = k
  BY <1>1
<1>3. f \in [0 .. n -> Seq(E)]
  BY <1>1
<1>4. \A i \in 1 .. n : f[i] = Append(f[i - 1], seq[i])
  <2> TAKE i \in 1 .. n
  <2>1. i - 1 \in 0 .. n /\ i \in 0 .. n /\ (i - 1) + 1 = i
    BY <1>1
  <2> DEFINE u == Append(f[i - 1], seq[i])
  <2>2. u = [j \in 1 .. (i - 1) + 1 |-> IF j = (i - 1) + 1 THEN seq[i] ELSE f[i - 1][j]]
    BY <1>1, <1>2, <2>1
  <2>3. \A j \in 1 .. i : u[j] = seq[j]
    BY <1>1, <1>2, <2>1, <2>2
  <2>4. u = [j \in 1 .. i |-> u[j]]
    BY <2>1, <2>2
  <2> HIDE DEF u
  <2> QED BY <1>2, <2>1, <2>3, <2>4 DEF u
<1>5. f[0] = << >>
  BY <1>1, <1>2
<1> HIDE DEF f
<1>6. IsAmong(f, seq, S)
  BY <1>1, <1>4, <1>5 DEF IsAmong
<1>7. Among(seq, S) = f[n]
  BY <1>3, <1>6, AmongIs
<1> QED BY <1>1, <1>2, <1>7

-----------------------------------------------------------------------------
\* How table t with n seats reads by its seats.
ReadsBySeat(t, n) ==
  /\ FullSeats(t) = {s \in 1 .. n : t.seats[s] # Nobody} /\ FullSeats(t) \cap Waiters(t) = {}
  /\ Identities(t) = Waiters(t) \cup FullSeats(t) /\ Identities(t) \subseteq 1 .. n /\ SeatsOf(t) = 1 .. n
  /\ \A s : s \notin FullSeats(t) => BySeat(t, s) = Nobody
  /\ \A s \in FullSeats(t) : /\ BySeat(t, s) = t.seats[s] /\ t.seats[s] \in t.players /\ t.seats[s] # Nobody
                             /\ SeatOf(t, t.seats[s]) = s /\ SavedSeatPlayer(t, s) = t.seats[s]
  /\ \A s, r \in FullSeats(t) : t.seats[s] = t.seats[r] => s = r
  /\ t.players \subseteq People

LEMMA ReadingSeats ==
  ASSUME NEW t, NEW n \in Nat, NEW where, SoundTable(t, n, where)
  PROVE  ReadsBySeat(t, n)
<1>1. /\ t \in SeatTables /\ SeatsOf(t) = 1 .. n /\ Waiters(t) \subseteq 1 .. n /\ ValidPendingSeats(t)
      /\ \A s \in 1 .. n : t.seats[s] # Nobody => t.seats[s] \in t.players
      /\ \A s, r \in 1 .. n : t.seats[s] # Nobody /\ t.seats[r] = t.seats[s] => r = s
  BY DEF SoundTable
<1>2. t.players \subseteq People /\ Nobody \notin t.players
  BY <1>1, MapsAre, Ids
<1>3. FullSeats(t) = {s \in 1 .. n : t.seats[s] # Nobody}
  BY <1>1, <1>2 DEF FullSeats, BySeat
<1>4. \A s \in Waiters(t) : t.seats[s] = Nobody
  BY <1>1 DEF ValidPendingSeats
<1>5. Identities(t) = {s \in 1 .. n : s \in Waiters(t) \/ t.seats[s] # Nobody}
      /\ \A s \in 1 .. n : SavedSeatPlayer(t, s) = IF s \in Waiters(t) THEN t.pending[s].who ELSE t.seats[s]
  BY SavedIs
<1>6. \A s : s \notin FullSeats(t) => BySeat(t, s) = Nobody
  BY <1>1, <1>2, <1>3 DEF BySeat
<1>7. ASSUME NEW s \in FullSeats(t)
      PROVE  /\ BySeat(t, s) = t.seats[s] /\ t.seats[s] \in t.players /\ t.seats[s] # Nobody
             /\ SeatOf(t, t.seats[s]) = s /\ SavedSeatPlayer(t, s) = t.seats[s]
  <2>1. s \in 1 .. n /\ t.seats[s] # Nobody /\ t.seats[s] \in t.players /\ s \notin Waiters(t)
    BY <1>1, <1>3, <1>4
  <2>2. SeatOf(t, t.seats[s]) = s
    <3>1. \A r \in SeatsOf(t) : t.seats[r] = t.seats[s] => r = s
      BY <1>1, <2>1
    <3> QED BY <1>1, <2>1, <3>1 DEF SeatOf
  <2> QED BY <1>1, <1>5, <2>1, <2>2 DEF BySeat
<1> QED BY <1>1, <1>2, <1>3, <1>4, <1>5, <1>6, <1>7 DEF ReadsBySeat

LEMMA TakenIs ==
  ASSUME NEW t, NEW n \in Nat, ReadsBySeat(t, n)
  PROVE  IsLine(TakenSeats(t), FullSeats(t)) /\ Range(TakenSeats(t)) = FullSeats(t)
<1> DEFINE all == [s \in 1 .. n |-> s]
<1>1. SeatsOf(t) = 1 .. n /\ FullSeats(t) \subseteq 1 .. n
  BY DEF ReadsBySeat
<1>2. IsLine(all, 1 .. n) /\ Range(all) = 1 .. n
  <2>1. all \in Seq(1 .. n) /\ Len(all) = n
    OBVIOUS
  <2> QED BY <2>1 DEF IsLine, Range
<1> HIDE DEF all
<1>3. IsLine(Among(all, FullSeats(t)), (1 .. n) \cap FullSeats(t)) /\ Range(Among(all, FullSeats(t))) = Range(all) \cap FullSeats(t)
  BY <1>2, AmongIsLine
<1>4. (1 .. n) \cap FullSeats(t) = FullSeats(t)
  BY <1>1
<1>5. TakenSeats(t) = Among(all, FullSeats(t))
  BY <1>1 DEF TakenSeats, all
<1> QED BY <1>2, <1>3, <1>4, <1>5

LEMMA LineWidens ==
  ASSUME NEW S, NEW T, S \subseteq T, NEW seq, IsLine(seq, S)
  PROVE  IsLine(seq, T)
BY DEF IsLine

LEMMA LineFacts ==
  ASSUME NEW S, NEW seq, IsLine(seq, S)
  PROVE  /\ seq \in Seq(S) /\ Len(seq) \in Nat /\ DOMAIN seq = 1 .. Len(seq)
         /\ Range(seq) = {seq[i] : i \in 1 .. Len(seq)} /\ Range(seq) \subseteq S
         /\ \A i \in 1 .. Len(seq) : seq[i] \in S
         /\ \A i, j \in 1 .. Len(seq) : seq[i] = seq[j] => i = j
         /\ seq = << >> <=> Len(seq) = 0
         /\ seq = << >> <=> Range(seq) = {}
BY DEF IsLine, Range

LEMMA StartsAs ==
  ASSUME NEW S, NEW u \in Seq(S), NEW v \in Seq(S), Len(u) <= Len(v), \A i \in 1 .. Len(u) : v[i] = u[i]
  PROVE  IsPrefix(u, v)
<1>1. Len(u) \in Nat /\ Len(v) \in Nat
  OBVIOUS
<1>2. SubSeq(v, 1, Len(u)) \in Seq(S) /\ Len(SubSeq(v, 1, Len(u))) = Len(u)
      /\ \A i \in 1 .. Len(u) : SubSeq(v, 1, Len(u))[i] = v[i]
  BY <1>1, SubSeqProperties
<1>3. SubSeq(v, 1, Len(u)) = u
  BY <1>2, SeqEqual
<1> QED BY <1>3 DEF IsPrefix

\* Newcomers come after those who were there.
Extends(w, order, present, S) ==
  /\ IsLine(w, S) /\ Range(w) = Range(order) \cup Range(present)
  /\ Len(order) <= Len(w) /\ \A i \in 1 .. Len(order) : w[i] = order[i]
  /\ IsPrefix(order, w)

LEMMA NewcomersExtend ==
  ASSUME NEW S, NEW order, IsLine(order, S), NEW present, IsLine(present, S)
  PROVE  Extends(WithNewcomers(order, present), order, present, S)
<1> DEFINE N == Range(present) \ Range(order)
           new == Among(present, N)
           w == order \o new
<1>1. IsLine(new, S \cap N) /\ Range(new) = Range(present) \cap N
  BY AmongIsLine
<1> HIDE DEF new
<1>2. /\ order \in Seq(S) /\ Len(order) \in Nat /\ DOMAIN order = 1 .. Len(order)
      /\ Range(order) = {order[i] : i \in 1 .. Len(order)}
      /\ \A i, j \in 1 .. Len(order) : order[i] = order[j] => i = j
  BY LineFacts
<1>3. /\ new \in Seq(S \cap N) /\ Len(new) \in Nat /\ DOMAIN new = 1 .. Len(new)
      /\ Range(new) = {new[i] : i \in 1 .. Len(new)} /\ \A i \in 1 .. Len(new) : new[i] \in N
      /\ \A i, j \in 1 .. Len(new) : new[i] = new[j] => i = j
  <2> DEFINE M == S \cap N
  <2>1. IsLine(new, M)
    BY <1>1
  <2> HIDE DEF M
  <2>2. /\ new \in Seq(M) /\ Len(new) \in Nat /\ DOMAIN new = 1 .. Len(new)
        /\ Range(new) = {new[i] : i \in 1 .. Len(new)} /\ \A i \in 1 .. Len(new) : new[i] \in M
        /\ \A i, j \in 1 .. Len(new) : new[i] = new[j] => i = j
    BY <2>1, LineFacts
  <2> QED BY <2>2 DEF M
<1>4. new \in Seq(S)
  BY <1>1, LineWidens DEF IsLine
<1>5. /\ w \in Seq(S) /\ Len(w) = Len(order) + Len(new) /\ DOMAIN w = 1 .. Len(w)
      /\ \A i \in 1 .. Len(order) : w[i] = order[i]
      /\ \A i \in 1 .. Len(new) : w[Len(order) + i] = new[i]
  BY <1>2, <1>4
<1>6. ASSUME NEW i \in 1 .. Len(w)
      PROVE  i \in 1 .. Len(order) \/ \E j \in 1 .. Len(new) : i = Len(order) + j
  <2> HIDE DEF w
  <2>1. i \in Nat /\ 1 <= i /\ i <= Len(order) + Len(new)
    BY <1>2, <1>3, <1>5
  <2>2. CASE i > Len(order)
    <3>1. i - Len(order) \in 1 .. Len(new) /\ i = Len(order) + (i - Len(order))
      BY <1>2, <1>3, <2>1, <2>2
    <3> QED BY <3>1
  <2> QED BY <1>2, <2>1, <2>2
<1>7. \A i \in 1 .. Len(order) : i \in 1 .. Len(w)
  BY <1>2, <1>3, <1>5
<1>8. \A i \in 1 .. Len(new) : Len(order) + i \in 1 .. Len(w)
  BY <1>2, <1>3, <1>5
<1> HIDE DEF w
<1>9. Range(w) = {order[i] : i \in 1 .. Len(order)} \cup {new[i] : i \in 1 .. Len(new)}
  <2>1. Range(w) = {w[i] : i \in 1 .. Len(w)}
    BY <1>5 DEF Range
  <2>2. ASSUME NEW i \in 1 .. Len(w)
        PROVE  w[i] \in {order[j] : j \in 1 .. Len(order)} \cup {new[j] : j \in 1 .. Len(new)}
    BY <1>5, <1>6
  <2>3. {order[i] : i \in 1 .. Len(order)} \cup {new[i] : i \in 1 .. Len(new)} \subseteq Range(w)
    BY <1>5, <1>7, <1>8, <2>1
  <2> QED BY <2>1, <2>2, <2>3
<1>10. Range(w) = Range(order) \cup Range(present)
  BY <1>1, <1>2, <1>3, <1>9
<1>11. ASSUME NEW i \in 1 .. Len(w), NEW j \in 1 .. Len(w), w[i] = w[j]
       PROVE  i = j
  <2>1. \A a \in 1 .. Len(order), b \in 1 .. Len(new) : order[a] # new[b]
    BY <1>2, <1>3
  <2>2. CASE i \in 1 .. Len(order) /\ j \in 1 .. Len(order)
    BY <1>2, <1>5, <1>11, <2>2
  <2>3. CASE i \in 1 .. Len(order) /\ j \notin 1 .. Len(order)
    <3>1. PICK b \in 1 .. Len(new) : j = Len(order) + b
      BY <1>6, <2>3
    <3> QED BY <1>5, <1>11, <2>1, <2>3, <3>1
  <2>4. CASE i \notin 1 .. Len(order) /\ j \in 1 .. Len(order)
    <3>1. PICK b \in 1 .. Len(new) : i = Len(order) + b
      BY <1>6, <2>4
    <3> QED BY <1>5, <1>11, <2>1, <2>4, <3>1
  <2>5. CASE i \notin 1 .. Len(order) /\ j \notin 1 .. Len(order)
    <3>1. PICK a \in 1 .. Len(new) : i = Len(order) + a
      BY <1>6, <2>5
    <3>2. PICK b \in 1 .. Len(new) : j = Len(order) + b
      BY <1>6, <2>5
    <3> QED BY <1>3, <1>5, <1>11, <3>1, <3>2
  <2> QED BY <2>2, <2>3, <2>4, <2>5
<1>12. IsPrefix(order, w)
  <2>1. Len(order) <= Len(w)
    BY <1>2, <1>3, <1>5
  <2> QED BY <1>2, <1>5, <2>1, StartsAs
<1>13. WithNewcomers(order, present) = w
  BY DEF WithNewcomers, w, new
<1>14. Len(order) <= Len(w)
  BY <1>2, <1>3, <1>5
<1> QED BY <1>5, <1>10, <1>11, <1>12, <1>13, <1>14 DEF Extends, IsLine

LEMMA PlaceIs ==
  ASSUME NEW S, NEW seq, IsLine(seq, S), NEW x
  PROVE  /\ x \in Range(seq) => PlaceIn(seq, x) \in 1 .. Len(seq) /\ seq[PlaceIn(seq, x)] = x
         /\ x \notin Range(seq) => PlaceIn(seq, x) = 0
<1>1. DOMAIN seq = 1 .. Len(seq)
  BY LineFacts
<1> QED BY <1>1 DEF PlaceIn, Range

-----------------------------------------------------------------------------
\* The library's state, with the fields it has.
IsLib(d) ==
  /\ d \in [order : {d.order}, index : {d.index}, active : BOOLEAN, pending : {d.pending}, scores : {d.scores}]
  /\ d.scores = [p \in People |-> d.scores[p]]

\* What waits: seats in a line, one of which has the turn, and points of the seats
\* nobody is on.
IsRecess(k) ==
  k \in [seats : {k.seats}, order : {k.order}, current : {k.current}, active : BOOLEAN, scores : {k.scores}]

IsEscrow(k, t) ==
  /\ IsRecess(k) /\ k.seats # {}
  /\ IsLine(k.order, Identities(t)) /\ k.current \in Range(k.order)
  /\ k.scores = [s \in Waiters(t) |-> k.scores[s]]

\* Turns that are taken: players in a line.
IsTaking(d, t) ==
  IsLine(d.order, t.players) /\ IF d.order = << >> THEN d.index = 0 ELSE d.index \in 1 .. Len(d.order)

TurnsHold(d, t) ==
  /\ IsLib(d)
  /\ IF Waiters(t) = {} THEN d.pending = NoPending /\ IsTaking(d, t) ELSE IsEscrow(d.pending, t)

\* What a publication says.
ShownBy(u, d, t) ==
  LET live == Among(Lined(d.pending, t), FullSeats(t))
  IN  /\ u \in [order : {u.order}, index : {u.index}, active : {u.active}, pending : {u.pending}, scores : {u.scores}]
      /\ u.order = SeatedAt(t, live) /\ u.index = PlaceIn(live, d.pending.current)
      /\ u.active = (d.pending.active /\ ~Awaits(d.pending, t) /\ live # << >>)
      /\ u.pending = IF Awaits(d.pending, t) THEN [d.pending EXCEPT !.order = Lined(d.pending, t)] ELSE NoPending
      /\ u.scores = d.scores

LEMMA PublishIs ==
  ASSUME NEW d, IsLib(d), NEW t
  PROVE  ShownBy(Publish(d, t), d, t)
<1> DEFINE kept == d.pending
           live == Among(Lined(kept, t), FullSeats(t))
           order == SeatedAt(t, live)
           spot == PlaceIn(live, kept.current)
           active == kept.active /\ ~Awaits(kept, t) /\ live # << >>
           pending == IF Awaits(kept, t) THEN [kept EXCEPT !.order = Lined(kept, t)] ELSE NoPending
           u == Publish(d, t)
<1>1. u = [d EXCEPT !.order = order, !.index = spot, !.active = active, !.pending = pending]
  BY DEF Publish
<1>2. d \in [order : {d.order}, index : {d.index}, active : BOOLEAN, pending : {d.pending}, scores : {d.scores}]
  BY DEF IsLib
<1> HIDE DEF u, order, spot, active, pending
<1>3. u.order = order /\ u.index = spot /\ u.active = active /\ u.pending = pending /\ u.scores = d.scores
  BY <1>1, <1>2
<1>4. u \in [order : {u.order}, index : {u.index}, active : {u.active}, pending : {u.pending}, scores : {u.scores}]
  BY <1>1, <1>2, <1>3
<1> QED BY <1>3, <1>4 DEF u, order, spot, active, pending, ShownBy

\* What the players see after it, if it published d on table t.
Seen(u, d, t) ==
  /\ TurnsHold(u, t) /\ (Waiters(t) # {} => ~u.active /\ u.pending.seats = d.pending.seats)
  /\ ViewOf(u, t).order = Lined(d.pending, t) /\ ViewOf(u, t).current = d.pending.current
  /\ ViewOf(u, t).active = d.pending.active
  /\ \A s \in Identities(t) :
       ViewOf(u, t).points[s] = IF s \in Waiters(t) THEN d.pending.scores[s] ELSE d.scores[t.seats[s]]

LEMMA PublishKeeps ==
  ASSUME NEW t, NEW n \in Nat, ReadsBySeat(t, n), NEW d, IsLib(d), IsRecess(d.pending),
         d.pending.seats # {}, Awaits(d.pending, t) <=> Waiters(t) # {},
         IsLine(d.pending.order, Identities(t)), d.pending.current \in Range(Lined(d.pending, t)),
         d.pending.scores = [s \in Waiters(t) |-> d.pending.scores[s]]
  PROVE  Seen(Publish(d, t), d, t)
<1> DEFINE kept == d.pending
           w == Lined(kept, t)
           live == Among(w, FullSeats(t))
           u == Publish(d, t)
<1>1. /\ FullSeats(t) \cap Waiters(t) = {} /\ Identities(t) = Waiters(t) \cup FullSeats(t)
      /\ \A s \in FullSeats(t) : /\ BySeat(t, s) = t.seats[s] /\ t.seats[s] \in t.players
                                 /\ SeatOf(t, t.seats[s]) = s /\ SavedSeatPlayer(t, s) = t.seats[s]
      /\ \A s, r \in FullSeats(t) : t.seats[s] = t.seats[r] => s = r
      /\ t.players \subseteq People
  BY DEF ReadsBySeat
<1>2. ShownBy(u, d, t)
  BY PublishIs
<1> HIDE DEF u
<1>3. /\ u \in [order : {u.order}, index : {u.index}, active : {u.active}, pending : {u.pending}, scores : {u.scores}]
      /\ u.order = SeatedAt(t, live) /\ u.index = PlaceIn(live, kept.current)
      /\ u.active = (kept.active /\ Waiters(t) = {} /\ live # << >>)
      /\ u.pending = IF Waiters(t) # {} THEN [kept EXCEPT !.order = w] ELSE NoPending
      /\ u.scores = d.scores
  BY <1>2 DEF ShownBy
<1>4. u.scores = [p \in People |-> u.scores[p]] /\ u.active \in BOOLEAN
  BY <1>3 DEF IsLib
<1>5. IsLib(u)
  <2> HIDE DEF w, live
  <2> QED BY <1>3, <1>4 DEF IsLib
<1>6. IsLine(w, Identities(t))
  <2>1. IsLine(TakenSeats(t), FullSeats(t))
    BY TakenIs
  <2>2. IsLine(TakenSeats(t), Identities(t))
    BY <1>1, <2>1, LineWidens
  <2>3. Extends(w, kept.order, TakenSeats(t), Identities(t))
    BY <2>2, NewcomersExtend DEF Lined
  <2> QED BY <2>3 DEF Extends
<1> HIDE DEF w, live, kept
<1>7. /\ IsRecess(kept) /\ kept.seats # {} /\ kept.current \in Range(w)
      /\ kept.scores = [s \in Waiters(t) |-> kept.scores[s]]
  BY DEF kept, w
<1>8. CASE Waiters(t) # {}
  <2> DEFINE k == u.pending
  <2>1. k = [kept EXCEPT !.order = w]
    BY <1>3, <1>8
  <2>2. k.order = w /\ k.seats = kept.seats /\ k.current = kept.current /\ k.active = kept.active /\ k.scores = kept.scores
    BY <1>7, <2>1 DEF IsRecess
  <2>3. IsRecess(k)
    BY <1>7, <2>1, <2>2 DEF IsRecess
  <2>4. k # NoPending
    BY <1>7, <2>2 DEF NoPending
  <2>5. IsEscrow(k, t)
    <3> HIDE DEF k
    <3> QED BY <1>6, <1>7, <2>2, <2>3 DEF IsEscrow
  <2>6. /\ ViewOf(u, t).order = w /\ ViewOf(u, t).current = kept.current /\ ViewOf(u, t).active = kept.active
        /\ \A s \in Identities(t) : ViewOf(u, t).points[s] = IF s \in DOMAIN kept.scores THEN kept.scores[s]
                                                             ELSE u.scores[SavedSeatPlayer(t, s)]
    BY <2>2, <2>4 DEF ViewOf
  <2>7. DOMAIN kept.scores = Waiters(t)
    BY <1>7
  <2>8. \A s \in Identities(t) :
          ViewOf(u, t).points[s] = IF s \in Waiters(t) THEN kept.scores[s] ELSE d.scores[t.seats[s]]
    BY <1>1, <1>3, <2>6, <2>7
  <2>9. ~u.active /\ TurnsHold(u, t)
    BY <1>3, <1>5, <1>8, <2>5 DEF TurnsHold
  <2> QED BY <2>2, <2>6, <2>8, <2>9 DEF Seen, w, kept, u
<1>9. CASE Waiters(t) = {}
  <2>1. Identities(t) = FullSeats(t) /\ IsLine(w, FullSeats(t)) /\ u.pending = NoPending
    BY <1>1, <1>3, <1>6, <1>9
  <2>2. /\ w \in Seq(FullSeats(t)) /\ Len(w) \in Nat /\ DOMAIN w = 1 .. Len(w) /\ Range(w) \subseteq FullSeats(t)
        /\ \A i \in 1 .. Len(w) : w[i] \in FullSeats(t)
        /\ \A i, j \in 1 .. Len(w) : w[i] = w[j] => i = j
    BY <2>1, LineFacts
  <2>3. live = w
    BY <2>2, AmongAll DEF live
  <2>4. u.order = [i \in 1 .. Len(w) |-> t.seats[w[i]]]
    BY <1>1, <1>3, <2>2, <2>3 DEF SeatedAt
  <2>5. u.index \in 1 .. Len(w) /\ w[u.index] = kept.current
    BY <1>3, <1>7, <2>1, <2>3, PlaceIs
  <2>6. w # << >>
    BY <2>2, <2>5
  <2>7. u.order \in Seq(t.players) /\ Len(u.order) = Len(w) /\ u.order # << >>
    <3>1. \A i \in 1 .. Len(w) : t.seats[w[i]] \in t.players
      BY <1>1, <2>2
    <3>2. u.order \in Seq(t.players) /\ Len(u.order) = Len(w)
      BY <2>2, <2>4, <3>1
    <3> QED BY <2>5, <3>2
  <2>8. IsTaking(u, t)
    <3>1. \A i, j \in 1 .. Len(w) : u.order[i] = u.order[j] => i = j
      BY <1>1, <2>2, <2>4
    <3> QED BY <2>5, <2>7, <3>1 DEF IsTaking, IsLine
  <2>9. TurnsHold(u, t)
    BY <1>5, <1>9, <2>1, <2>8 DEF TurnsHold
  <2>10. /\ ViewOf(u, t).order = [i \in DOMAIN u.order |-> SeatOf(t, u.order[i])]
         /\ ViewOf(u, t).current = (IF u.index = 0 THEN 0 ELSE SeatOf(t, u.order[u.index]))
         /\ ViewOf(u, t).active = u.active
         /\ \A s \in Identities(t) : ViewOf(u, t).points[s] = u.scores[SavedSeatPlayer(t, s)]
    BY <2>1 DEF ViewOf
  <2>11. [i \in DOMAIN u.order |-> SeatOf(t, u.order[i])] = w
    <3>1. \A i \in 1 .. Len(w) : SeatOf(t, u.order[i]) = w[i]
      BY <1>1, <2>2, <2>4
    <3>2. DOMAIN u.order = 1 .. Len(w) /\ w = [i \in 1 .. Len(w) |-> w[i]]
      BY <2>2, <2>4
    <3> QED BY <3>1, <3>2
  <2>12. ViewOf(u, t).current = kept.current
    BY <1>1, <2>2, <2>4, <2>5, <2>10
  <2>13. ViewOf(u, t).active = kept.active
    BY <1>3, <1>7, <1>9, <2>3, <2>6, <2>10 DEF IsRecess
  <2>14. \A s \in Identities(t) : s \notin Waiters(t) /\ ViewOf(u, t).points[s] = d.scores[t.seats[s]]
    BY <1>1, <1>3, <1>9, <2>1, <2>10
  <2> QED BY <1>9, <2>9, <2>10, <2>11, <2>12, <2>13, <2>14 DEF Seen, w, kept, u
<1> QED BY <1>8, <1>9

-----------------------------------------------------------------------------
\* Whoever is at the table has a seat.
Seated(t) == \A p \in t.players : \E s \in FullSeats(t) : t.seats[s] = p

\* A view that makes sense on table t.
IsView(v, t) ==
  /\ IsLine(v.order, Identities(t)) /\ v.active \in BOOLEAN /\ DOMAIN v.points = Identities(t)
  /\ IF v.order = << >> THEN v.current = 0 ELSE v.current \in Range(v.order)

\* By the players who are on their seats.
ViewsPlayers(v, d, t) ==
  /\ Len(v.order) = Len(d.order) /\ \A i \in 1 .. Len(d.order) : v.order[i] \in FullSeats(t) /\ t.seats[v.order[i]] = d.order[i]
  /\ v.active = d.active /\ v.current = (IF d.index = 0 THEN 0 ELSE v.order[d.index])
  /\ \A s \in FullSeats(t) : v.points[s] = d.scores[t.seats[s]]

\* By what waits.
ViewsEscrow(v, d, t) ==
  /\ v.order = d.pending.order /\ v.active = d.pending.active /\ v.current = d.pending.current
  /\ \A s \in Waiters(t) : v.points[s] = d.pending.scores[s]
  /\ \A s \in FullSeats(t) : v.points[s] = d.scores[t.seats[s]]

LEMMA ViewIs ==
  ASSUME NEW t, NEW n \in Nat, ReadsBySeat(t, n), Seated(t), NEW d, TurnsHold(d, t)
  PROVE  /\ IsView(ViewOf(d, t), t)
         /\ Waiters(t) = {} => ViewsPlayers(ViewOf(d, t), d, t)
         /\ Waiters(t) # {} => ViewsEscrow(ViewOf(d, t), d, t)
<1> DEFINE v == ViewOf(d, t)
<1>1. /\ FullSeats(t) \cap Waiters(t) = {} /\ Identities(t) = Waiters(t) \cup FullSeats(t) /\ Identities(t) \subseteq 1 .. n
      /\ \A s \in FullSeats(t) : /\ t.seats[s] \in t.players /\ SeatOf(t, t.seats[s]) = s
                                 /\ SavedSeatPlayer(t, s) = t.seats[s]
  BY DEF ReadsBySeat
<1>2. CASE Waiters(t) = {}
  <2>1. d.pending = NoPending /\ IsTaking(d, t) /\ d.active \in BOOLEAN
    BY <1>2 DEF TurnsHold, IsLib
  <2>2. /\ v.order = [i \in DOMAIN d.order |-> SeatOf(t, d.order[i])]
        /\ v.current = (IF d.index = 0 THEN 0 ELSE SeatOf(t, d.order[d.index]))
        /\ v.active = d.active /\ DOMAIN v.points = Identities(t)
        /\ \A s \in Identities(t) : v.points[s] = d.scores[SavedSeatPlayer(t, s)]
    BY <2>1 DEF ViewOf
  <2> HIDE DEF v
  <2>3. IsLine(d.order, t.players) /\ IF d.order = << >> THEN d.index = 0 ELSE d.index \in 1 .. Len(d.order)
    BY <2>1 DEF IsTaking
  <2>4. /\ d.order \in Seq(t.players) /\ Len(d.order) \in Nat /\ DOMAIN d.order = 1 .. Len(d.order)
        /\ \A i \in 1 .. Len(d.order) : d.order[i] \in t.players
        /\ \A i, j \in 1 .. Len(d.order) : d.order[i] = d.order[j] => i = j
        /\ d.order = << >> <=> Len(d.order) = 0
    BY <2>3, LineFacts
  <2>5. \A p \in t.players : SeatOf(t, p) \in FullSeats(t) /\ t.seats[SeatOf(t, p)] = p
    BY <1>1 DEF Seated
  <2>6. \A i \in 1 .. Len(d.order) : v.order[i] \in FullSeats(t) /\ t.seats[v.order[i]] = d.order[i]
    BY <2>2, <2>4, <2>5
  <2>7. v.order \in Seq(Identities(t)) /\ Len(v.order) = Len(d.order)
    <3>1. v.order = [i \in 1 .. Len(d.order) |-> v.order[i]]
      BY <2>2, <2>4
    <3>2. \A i \in 1 .. Len(d.order) : v.order[i] \in Identities(t)
      BY <1>1, <2>6
    <3> QED BY <2>4, <3>1, <3>2
  <2>8. IsLine(v.order, Identities(t))
    <3>1. \A i, j \in 1 .. Len(d.order) : v.order[i] = v.order[j] => i = j
      BY <2>4, <2>6
    <3> QED BY <2>7, <3>1 DEF IsLine
  <2>9. v.current = (IF d.index = 0 THEN 0 ELSE v.order[d.index])
    BY <2>2, <2>3, <2>4
  <2>10. IF v.order = << >> THEN v.current = 0 ELSE v.current \in Range(v.order)
    <3>1. CASE d.order = << >>
      <4>1. v.current = 0 /\ v.order = << >>
        BY <2>3, <2>4, <2>7, <2>9, <3>1
      <4> QED BY <4>1
    <3>2. CASE d.order # << >>
      <4>1. d.index \in 1 .. Len(d.order) /\ d.index # 0
        BY <2>3, <3>2
      <4>2. DOMAIN v.order = 1 .. Len(d.order) /\ v.order # << >>
        BY <2>4, <2>7, <3>2
      <4> QED BY <2>9, <4>1, <4>2 DEF Range
    <3> QED BY <3>1, <3>2
  <2>11. IsView(v, t)
    BY <2>1, <2>2, <2>8, <2>10 DEF IsView
  <2>12. ViewsPlayers(v, d, t)
    <3>1. \A s \in FullSeats(t) : v.points[s] = d.scores[t.seats[s]]
      BY <1>1, <2>2
    <3> QED BY <2>2, <2>6, <2>7, <2>9, <3>1 DEF ViewsPlayers
  <2> QED BY <1>2, <2>11, <2>12 DEF v
<1>3. CASE Waiters(t) # {}
  <2>1. IsEscrow(d.pending, t)
    BY <1>3 DEF TurnsHold
  <2>2. /\ d.pending # NoPending /\ d.pending.active \in BOOLEAN /\ DOMAIN d.pending.scores = Waiters(t)
        /\ IsLine(d.pending.order, Identities(t)) /\ d.pending.current \in Range(d.pending.order)
    BY <2>1 DEF IsEscrow, IsRecess, NoPending
  <2>3. /\ v.order = d.pending.order /\ v.current = d.pending.current /\ v.active = d.pending.active
        /\ DOMAIN v.points = Identities(t)
        /\ \A s \in Identities(t) : v.points[s] = IF s \in DOMAIN d.pending.scores THEN d.pending.scores[s]
                                                   ELSE d.scores[SavedSeatPlayer(t, s)]
    BY <2>2 DEF ViewOf
  <2> HIDE DEF v
  <2>4. v.order # << >>
    BY <2>2, <2>3, LineFacts
  <2>5. IsView(v, t)
    BY <2>2, <2>3, <2>4 DEF IsView
  <2>6. ViewsEscrow(v, d, t)
    BY <1>1, <2>2, <2>3 DEF ViewsEscrow
  <2> QED BY <1>3, <2>5, <2>6 DEF v
<1> QED BY <1>2, <1>3

\* What the players may not notice.
Stays(v, w) ==
  /\ IsPrefix(v.order, w.order)
  /\ v.order # << >> => w.current = v.current
  /\ w.active = v.active
  /\ \A s \in DOMAIN v.points : w.points[s] = v.points[s]

LEMMA NothingStays ==
  ASSUME NEW t, NEW v, IsView(v, t)
  PROVE  Stays(v, v)
<1>1. IsLine(v.order, Identities(t))
  BY DEF IsView
<1>2. v.order \in Seq(Identities(t)) /\ Len(v.order) \in Nat
  BY <1>1, LineFacts
<1>3. IsPrefix(v.order, v.order)
  BY <1>2, StartsAs
<1> QED BY <1>3 DEF Stays

\* Table u is t with one more player, on seat k.
OneMore(t, u, k) ==
  /\ k \notin FullSeats(t) /\ FullSeats(u) = FullSeats(t) \cup {k} /\ Waiters(u) = Waiters(t) \ {k}
  /\ \A s \in FullSeats(t) : u.seats[s] = t.seats[s]
  /\ t.players \subseteq u.players

\* Whoever comes to a seat that waits for nobody is not noticed.
LEMMA NewcomerStays ==
  ASSUME NEW t, NEW n \in Nat, ReadsBySeat(t, n), Seated(t), NEW u, NEW m \in Nat, ReadsBySeat(u, m), Seated(u),
         NEW k, OneMore(t, u, k), k \notin Waiters(t), NEW d, TurnsHold(d, t)
  PROVE  TurnsHold(d, u) /\ Stays(ViewOf(d, t), ViewOf(d, u))
<1> DEFINE v == ViewOf(d, t)
           w == ViewOf(d, u)
<1>1. /\ FullSeats(u) = FullSeats(t) \cup {k} /\ Waiters(u) = Waiters(t)
      /\ \A s \in FullSeats(t) : u.seats[s] = t.seats[s]
      /\ t.players \subseteq u.players
  BY DEF OneMore
<1>2. Identities(t) = Waiters(t) \cup FullSeats(t) /\ Identities(u) = Waiters(u) \cup FullSeats(u)
  BY DEF ReadsBySeat
<1>3. TurnsHold(d, u)
  <2>1. CASE Waiters(t) = {}
    <3>1. IsLib(d) /\ d.pending = NoPending /\ IsTaking(d, t)
      BY <2>1 DEF TurnsHold
    <3>2. IsTaking(d, u)
      BY <1>1, <3>1, LineWidens DEF IsTaking
    <3> QED BY <1>1, <2>1, <3>1, <3>2 DEF TurnsHold
  <2>2. CASE Waiters(t) # {}
    <3>1. IsLib(d) /\ IsEscrow(d.pending, t)
      BY <2>2 DEF TurnsHold
    <3>2. Identities(t) \subseteq Identities(u)
      BY <1>1, <1>2
    <3>3. IsEscrow(d.pending, u)
      BY <1>1, <3>1, <3>2, LineWidens DEF IsEscrow
    <3> QED BY <1>1, <2>2, <3>1, <3>3 DEF TurnsHold
  <2> QED BY <2>1, <2>2
<1>4. /\ IsView(v, t) /\ (Waiters(t) = {} => ViewsPlayers(v, d, t)) /\ (Waiters(t) # {} => ViewsEscrow(v, d, t))
  BY ViewIs
<1>5. /\ IsView(w, u) /\ (Waiters(u) = {} => ViewsPlayers(w, d, u)) /\ (Waiters(u) # {} => ViewsEscrow(w, d, u))
  BY <1>3, ViewIs
<1> HIDE DEF v, w
<1>6. /\ v.order \in Seq(Identities(t)) /\ Len(v.order) \in Nat /\ DOMAIN v.points = Identities(t)
      /\ (v.order = << >> <=> Len(v.order) = 0)
  BY <1>4, LineFacts DEF IsView
<1>7. CASE Waiters(t) = {}
  <2>1. ViewsPlayers(v, d, t) /\ ViewsPlayers(w, d, u)
    BY <1>1, <1>4, <1>5, <1>7
  <2>2. Len(w.order) = Len(v.order) /\ \A i \in 1 .. Len(v.order) : w.order[i] = v.order[i]
    <3>1. \A s, r \in FullSeats(u) : u.seats[s] = u.seats[r] => s = r
      BY DEF ReadsBySeat
    <3> QED BY <1>1, <2>1, <3>1 DEF ViewsPlayers
  <2>3. w.order = v.order
    <3>1. w.order \in Seq(Identities(u)) /\ v.order \in Seq(Identities(u))
      <4>1. Identities(t) \subseteq Identities(u)
        BY <1>1, <1>2
      <4> QED BY <1>4, <1>5, <4>1, LineWidens DEF IsView, IsLine
    <3> QED BY <2>2, <3>1, SeqEqual
  <2>4. w.current = v.current /\ w.active = v.active
    BY <2>1, <2>3 DEF ViewsPlayers
  <2>5. \A s \in Identities(t) : w.points[s] = v.points[s]
    BY <1>1, <1>2, <1>7, <2>1 DEF ViewsPlayers
  <2>6. Stays(v, v)
    BY <1>4, NothingStays
  <2>7. Stays(v, w)
    BY <1>6, <2>3, <2>4, <2>5, <2>6 DEF Stays
  <2> QED BY <1>3, <2>7 DEF v, w
<1>8. CASE Waiters(t) # {}
  <2>1. ViewsEscrow(v, d, t) /\ ViewsEscrow(w, d, u)
    BY <1>1, <1>4, <1>5, <1>8
  <2>2. w.order = v.order /\ w.current = v.current /\ w.active = v.active
    BY <2>1 DEF ViewsEscrow
  <2>3. \A s \in Identities(t) : w.points[s] = v.points[s]
    BY <1>1, <1>2, <2>1 DEF ViewsEscrow
  <2>4. Stays(v, v)
    BY <1>4, NothingStays
  <2>5. Stays(v, w)
    BY <1>6, <2>2, <2>3, <2>4 DEF Stays
  <2> QED BY <1>3, <2>5 DEF v, w
<1> QED BY <1>7, <1>8


-----------------------------------------------------------------------------
\* Table t when as many players have come, as rows q, to what was saved as b.
Came(t, b, q, m) ==
  /\ ReadsBySeat(t, m) /\ Seated(t) /\ Len(q) \in Nat
  /\ FullSeats(t) = 1 .. Len(q) /\ \A s \in 1 .. Len(q) : t.seats[s] = q[s].player
  /\ Waiters(t) = Identities(b) \ (1 .. Len(q))
  /\ t.players = {q[i].player : i \in 1 .. Len(q)}

LEMMA CameFacts ==
  ASSUME NEW b, NEW n \in Nat, NEW where, NEW q, IsRows(q, b), NEW t, ComesFrom(t, b, q, n, where)
  PROVE  Larger(n, Len(q)) \in Nat /\ Came(t, b, q, Larger(n, Len(q)))
<1> DEFINE m == Larger(n, Len(q))
<1>1. q \in Seq(Rows) /\ Len(q) \in Nat
  BY DEF IsRows
<1>2. m \in Nat /\ 1 .. Len(q) \subseteq 1 .. m
  BY <1>1 DEF Larger
<1>3. /\ SoundTable(t, m, where) /\ t.players = {q[i].player : i \in 1 .. Len(q)}
      /\ \A s \in 1 .. m : t.seats[s] = IF s \in 1 .. Len(q) THEN q[s].player ELSE Nobody
      /\ Waiters(t) = Identities(b) \ (1 .. Len(q))
  BY DEF ComesFrom
<1> HIDE DEF m
<1>4. ReadsBySeat(t, m)
  BY <1>2, <1>3, ReadingSeats
<1>5. \A i \in 1 .. Len(q) : q[i].player # Nobody
  <2>1. \A i \in 1 .. Len(q) : q[i] \in Rows
    BY <1>1
  <2> QED BY <2>1, Ids DEF Rows
<1>6. FullSeats(t) = {s \in 1 .. m : t.seats[s] # Nobody}
  BY <1>4 DEF ReadsBySeat
<1>7. FullSeats(t) = 1 .. Len(q)
  BY <1>2, <1>3, <1>5, <1>6
<1>8. \A s \in 1 .. Len(q) : t.seats[s] = q[s].player
  BY <1>2, <1>3
<1>9. Seated(t)
  BY <1>3, <1>7, <1>8 DEF Seated
<1> QED BY <1>1, <1>2, <1>3, <1>4, <1>7, <1>8, <1>9 DEF Came, m

\* What comes of a claim.
ClaimHolds(e, d, u) ==
  TurnsHold(e, u) /\ (Waiters(u) # {} => ~e.active /\ e.pending.seats = d.pending.seats)

\* Whoever comes back to a seat that waits is not noticed either.
LEMMA ClaimStays ==
  ASSUME NEW t, NEW n \in Nat, ReadsBySeat(t, n), Seated(t), NEW u, NEW m \in Nat, ReadsBySeat(u, m), Seated(u),
         NEW k, OneMore(t, u, k), k \in Waiters(t), NEW d, TurnsHold(d, t),
         Waiters(u) = d.pending.seats \ FullSeats(u)
  PROVE  ClaimHolds(SeatBack(d, u, k), d, u) /\ Stays(ViewOf(d, t), ViewOf(SeatBack(d, u, k), u))
<1> DEFINE kept == d.pending
           points == Restrict(kept.scores, DOMAIN kept.scores \ {k})
           back == [kept EXCEPT !.scores = points]
           scores == [d.scores EXCEPT ![u.seats[k]] = kept.scores[k]]
           b == [d EXCEPT !.scores = scores, !.pending = back]
           e == SeatBack(d, u, k)
           v == ViewOf(d, t)
           w == ViewOf(e, u)
<1>1. /\ FullSeats(u) = FullSeats(t) \cup {k} /\ Waiters(u) = Waiters(t) \ {k} /\ k \notin FullSeats(t)
      /\ \A s \in FullSeats(t) : u.seats[s] = t.seats[s]
  BY DEF OneMore
<1>2. /\ Identities(t) = Waiters(t) \cup FullSeats(t) /\ Identities(u) = Waiters(u) \cup FullSeats(u)
      /\ FullSeats(u) \cap Waiters(u) = {} /\ u.players \subseteq People
      /\ \A s \in FullSeats(u) : u.seats[s] \in u.players /\ BySeat(u, s) = u.seats[s] /\ u.seats[s] # Nobody
      /\ \A s : s \notin FullSeats(u) => BySeat(u, s) = Nobody
      /\ \A s, r \in FullSeats(u) : u.seats[s] = u.seats[r] => s = r
  BY DEF ReadsBySeat
<1>3. IsLib(d) /\ IsEscrow(kept, t)
  BY DEF TurnsHold
<1>4. /\ IsRecess(kept) /\ kept.seats # {} /\ IsLine(kept.order, Identities(t)) /\ kept.current \in Range(kept.order)
      /\ kept.scores = [s \in Waiters(t) |-> kept.scores[s]]
  BY <1>3 DEF IsEscrow
<1>5. kept # NoPending /\ DOMAIN kept.scores = Waiters(t)
  BY <1>4 DEF IsRecess, NoPending
<1>6. e = Publish(b, u)
  <2>1. k \in DOMAIN kept.scores
    BY <1>5
  <2> QED BY <1>5, <2>1 DEF SeatBack
<1>7. points = [s \in Waiters(u) |-> kept.scores[s]]
  BY <1>1, <1>5 DEF Restrict
<1> HIDE DEF points, scores, kept, e
<1>8. /\ back.seats = kept.seats /\ back.order = kept.order /\ back.current = kept.current
      /\ back.active = kept.active /\ back.scores = points /\ IsRecess(back)
  BY <1>4 DEF IsRecess
<1>9. scores = [p \in People |-> scores[p]] /\ scores[u.seats[k]] = kept.scores[k]
      /\ \A p \in People : p # u.seats[k] => scores[p] = d.scores[p]
  <2>1. u.seats[k] \in People
    BY <1>1, <1>2
  <2> QED BY <1>3, <2>1 DEF scores, IsLib
<1> HIDE DEF back
<1>10. b.pending = back /\ b.scores = scores /\ IsLib(b)
  BY <1>3, <1>9 DEF IsLib
<1> HIDE DEF b
<1>11. Awaits(back, u) <=> Waiters(u) # {}
  <2>1. Waiters(u) = back.seats \ FullSeats(u)
    BY <1>8 DEF kept
  <2> QED BY <1>2, <2>1 DEF Awaits
<1>12. Identities(t) \subseteq Identities(u)
  BY <1>1, <1>2
<1>13. IsLine(back.order, Identities(u))
  BY <1>4, <1>8, <1>12, LineWidens
<1>14. Extends(Lined(back, u), kept.order, TakenSeats(u), Identities(u))
  <2>1. IsLine(TakenSeats(u), FullSeats(u))
    BY TakenIs
  <2>2. IsLine(TakenSeats(u), Identities(u))
    BY <1>2, <2>1, LineWidens
  <2> QED BY <1>8, <1>13, <2>2, NewcomersExtend DEF Lined
<1>15. back.current \in Range(Lined(back, u))
  BY <1>4, <1>8, <1>14 DEF Extends
<1>16. Seen(e, b, u)
  <2>1. back.scores = [s \in Waiters(u) |-> back.scores[s]]
    BY <1>7, <1>8
  <2> QED BY <1>4, <1>6, <1>8, <1>10, <1>11, <1>13, <1>15, <2>1, PublishKeeps
<1>17. ViewsEscrow(v, d, t) /\ IsView(v, t)
  BY ViewIs
<1> HIDE DEF v
<1>18. v.order = kept.order /\ v.active = kept.active /\ v.current = kept.current /\ DOMAIN v.points = Identities(t)
       /\ (\A s \in Waiters(t) : v.points[s] = kept.scores[s]) /\ \A s \in FullSeats(t) : v.points[s] = d.scores[t.seats[s]]
  BY <1>17 DEF ViewsEscrow, IsView, kept
<1>19. /\ w.order = Lined(back, u) /\ w.current = back.current /\ w.active = back.active
       /\ \A s \in Identities(u) : w.points[s] = IF s \in Waiters(u) THEN back.scores[s] ELSE scores[u.seats[s]]
       /\ TurnsHold(e, u) /\ (Waiters(u) # {} => ~e.active /\ e.pending.seats = back.seats)
  BY <1>10, <1>16 DEF Seen
<1> HIDE DEF w
<1>20. ASSUME NEW s \in Identities(t)
       PROVE  w.points[s] = v.points[s]
  <2>1. CASE s \in Waiters(t) /\ s # k
    <3>1. s \in Waiters(u) /\ s \in Identities(u)
      BY <1>1, <1>12, <2>1
    <3>2. w.points[s] = points[s] /\ points[s] = kept.scores[s]
      BY <1>7, <1>8, <1>19, <3>1
    <3> QED BY <1>18, <2>1, <3>2
  <2>2. CASE s = k
    BY <1>1, <1>2, <1>9, <1>12, <1>18, <1>19, <2>2
  <2>3. CASE s \in FullSeats(t)
    <3>1. s \in FullSeats(u) /\ k \in FullSeats(u) /\ s # k /\ s \notin Waiters(u) /\ u.seats[s] = t.seats[s]
      BY <1>1, <1>2, <2>3
    <3>2. u.seats[s] # u.seats[k] /\ u.seats[s] \in People
      BY <1>2, <3>1
    <3>3. w.points[s] = scores[u.seats[s]]
      BY <1>12, <1>19, <3>1
    <3> QED BY <1>9, <1>18, <2>3, <3>1, <3>2, <3>3
  <2> QED BY <1>2, <2>1, <2>2, <2>3
<1>21. Stays(v, w)
  BY <1>8, <1>14, <1>18, <1>19, <1>20 DEF Stays, Extends
<1>22. ClaimHolds(e, d, u)
  BY <1>8, <1>19 DEF ClaimHolds, kept
<1> QED BY <1>21, <1>22 DEF v, w, e

-----------------------------------------------------------------------------
\* Whoever plays is in the turns or waits with them, and nobody has a turn while
\* somebody is missing.
TurnsSit ==
  /\ turned \in Nat /\ Seated(table) /\ TurnsHold(lib, table)
  /\ started => FullSeats(table) # {}
  /\ started /\ Waiters(table) # {} => ~lib.active /\ lib.pending.seats = Identities(base)

TurnInv == \E n \in Nat : SeatsHold(n) /\ TurnsSit

LEMMA TableReads ==
  ASSUME NEW n \in Nat, SeatsHold(n)
  PROVE  \E m \in Nat : ReadsBySeat(table, m)
<1>1. CASE started
  <2>1. IsRows(rows, base) /\ ComesFrom(table, base, rows, n, home)
    BY <1>1 DEF SeatsHold
  <2>2. Larger(n, Len(rows)) \in Nat /\ Came(table, base, rows, Larger(n, Len(rows)))
    BY <2>1, CameFacts
  <2> QED BY <2>2 DEF Came
<1>2. CASE ~started
  <2>1. SoundTable(table, n, home)
    BY <1>2 DEF SeatsHold
  <2> QED BY <2>1, ReadingSeats
<1> QED BY <1>1, <1>2

LEMMA UnchangedStays ==
  ASSUME NEW n \in Nat, SeatsHold(n), TurnsSit
  PROVE  Stays(SeatView, SeatView)
<1>1. PICK m \in Nat : ReadsBySeat(table, m)
  BY TableReads
<1>2. IsView(ViewOf(lib, table), table)
  BY <1>1, ViewIs DEF TurnsSit
<1> QED BY <1>2, NothingStays DEF SeatView

LEMMA JoinKeepsTurns ==
  ASSUME NEW n \in Nat, SeatsHold(n), TurnsSit, NEW p \in Joiners, JoinTurns(p)
  PROVE  SeatsHold(n)' /\ TurnsSit' /\ Stays(SeatView, SeatView')
<1> DEFINE k == Len(rows) + 1
<1>1. JoinResumed(p) /\ turned' = turned
  BY DEF JoinTurns
<1>2. SeatsHold(n)'
  BY <1>1, JoinKeepsSeats
<1>3. CASE ~started
  <2>1. table' = table /\ base' = base /\ started' = started
    BY <1>1, <1>3 DEF JoinResumed
  <2>2. Waiters(table) \ Waiters(table') = {}
    BY <2>1
  <2>3. lib' = lib
    BY <2>2 DEF JoinTurns
  <2>4. TurnsSit'
    BY <1>1, <2>1, <2>3 DEF TurnsSit
  <2>5. SeatView' = SeatView
    BY <2>1, <2>3 DEF SeatView
  <2> QED BY <1>2, <2>4, <2>5, UnchangedStays
<1>4. CASE started
  <2>1. /\ rows' = Append(rows, [player |-> p, seat |-> NextSeat(base, Assigned)])
        /\ base' = base /\ started' = started /\ home' = home
    BY <1>1 DEF JoinResumed
  <2>2. IsRows(rows, base) /\ ComesFrom(table, base, rows, n, home) /\ IsRows(rows', base) /\ ComesFrom(table', base, rows', n, home)
    BY <1>2, <1>4, <2>1 DEF SeatsHold
  <2>3. rows \in Seq(Rows) /\ Len(rows) \in Nat /\ Len(rows') = k /\ \A i \in 1 .. Len(rows) : rows'[i] = rows[i]
    <3>1. rows \in Seq(Rows)
      BY <2>2 DEF IsRows
    <3> QED BY <2>1, <3>1
  <2>4. PICK m \in Nat : Came(table, base, rows, m)
    BY <2>2, CameFacts
  <2>5. PICK l \in Nat : Came(table', base, rows', l)
    <3>1. \A q, t : IsRows(q, base) /\ ComesFrom(t, base, q, n, home) => \E l \in Nat : Came(t, base, q, l)
      BY CameFacts
    <3> QED BY <2>2, <3>1
  <2>6. /\ ReadsBySeat(table, m) /\ Seated(table) /\ FullSeats(table) = 1 .. Len(rows)
        /\ Waiters(table) = Identities(base) \ (1 .. Len(rows)) /\ table.players = {rows[i].player : i \in 1 .. Len(rows)}
        /\ \A s \in 1 .. Len(rows) : table.seats[s] = rows[s].player
    BY <2>4 DEF Came
  <2>7. /\ ReadsBySeat(table', l) /\ Seated(table') /\ FullSeats(table') = 1 .. k
        /\ Waiters(table') = Identities(base) \ (1 .. k) /\ table'.players = {rows'[i].player : i \in 1 .. k}
        /\ \A s \in 1 .. k : table'.seats[s] = rows'[s].player
    BY <2>3, <2>5 DEF Came
  <2>8. 1 .. k = (1 .. Len(rows)) \cup {k} /\ k \notin 1 .. Len(rows)
    BY <2>3
  <2> HIDE DEF k
  <2>9. OneMore(table, table', k)
    <3>1. table.players \subseteq table'.players
      BY <2>3, <2>6, <2>7, <2>8
    <3>2. \A s \in FullSeats(table) : table'.seats[s] = table.seats[s]
      BY <2>3, <2>6, <2>7, <2>8
    <3> QED BY <2>6, <2>7, <2>8, <3>1, <3>2 DEF OneMore
  <2>10. TurnsHold(lib, table)
    BY DEF TurnsSit
  <2>11. CASE k \in Waiters(table)
    <3>1. Waiters(table) \ Waiters(table') = {k}
      BY <2>6, <2>7, <2>8, <2>11
    <3>2. lib' = SeatBack(lib, table', k)
      <4>1. (CHOOSE s \in {k} : TRUE) = k
        OBVIOUS
      <4> QED BY <3>1, <4>1 DEF JoinTurns
    <3>3. lib.pending.seats = Identities(base)
      BY <1>4, <2>11 DEF TurnsSit
    <3>4. Waiters(table') = lib.pending.seats \ FullSeats(table')
      BY <2>7, <3>3
    <3>5. ClaimHolds(lib', lib, table') /\ Stays(ViewOf(lib, table), ViewOf(lib', table'))
      BY <2>6, <2>7, <2>9, <2>10, <2>11, <3>2, <3>4, ClaimStays
    <3>6. TurnsSit'
      BY <1>1, <2>1, <2>7, <2>8, <3>3, <3>5 DEF TurnsSit, ClaimHolds
    <3> QED BY <1>2, <3>5, <3>6 DEF SeatView
  <2>12. CASE k \notin Waiters(table)
    <3>1. Waiters(table') = Waiters(table)
      BY <2>6, <2>7, <2>8, <2>12
    <3>2. lib' = lib
      <4>1. Waiters(table) \ Waiters(table') = {}
        BY <3>1
      <4> QED BY <4>1 DEF JoinTurns
    <3>3. TurnsHold(lib, table') /\ Stays(ViewOf(lib, table), ViewOf(lib, table'))
      BY <2>6, <2>7, <2>9, <2>10, <2>12, NewcomerStays
    <3>4. TurnsSit'
      BY <1>1, <2>1, <2>7, <2>8, <3>1, <3>2, <3>3 DEF TurnsSit
    <3> QED BY <1>2, <3>2, <3>3, <3>4 DEF SeatView
  <2> QED BY <2>11, <2>12
<1> QED BY <1>3, <1>4

-----------------------------------------------------------------------------
\* What a resume finds is what the players saw.
IsCarried(c, v) == c.order = v.order /\ c.current = v.current /\ c.active = v.active

LEMMA CarriedIs ==
  ASSUME NEW b, NEW n \in Nat, ReadsBySeat(b, n), Seated(b), NEW d, TurnsHold(d, b)
  PROVE  /\ IsCarried(Carried(d, b), ViewOf(d, b))
         /\ \A s \in Identities(b) : Points(d, b, s) = ViewOf(d, b).points[s]
<1> DEFINE v == ViewOf(d, b)
<1>1. /\ IsView(v, b) /\ (Waiters(b) = {} => ViewsPlayers(v, d, b)) /\ (Waiters(b) # {} => ViewsEscrow(v, d, b))
  BY ViewIs
<1>2. \A s \in Identities(b) : Points(d, b, s) = v.points[s]
  BY DEF Points, ViewOf
<1> HIDE DEF v
<1>3. CASE Waiters(b) # {}
  <2>1. d.pending # NoPending
    BY <1>3 DEF TurnsHold, IsEscrow, IsRecess, NoPending
  <2>2. IsCarried(Carried(d, b), v)
    BY <1>1, <1>3, <2>1 DEF Carried, IsCarried, ViewsEscrow
  <2> QED BY <1>2, <2>2 DEF v
<1>4. CASE Waiters(b) = {}
  <2>1. d.pending = NoPending /\ IsTaking(d, b)
    BY <1>4 DEF TurnsHold
  <2>2. /\ IsLine(d.order, b.players) /\ (IF d.order = << >> THEN d.index = 0 ELSE d.index \in 1 .. Len(d.order))
    BY <2>1 DEF IsTaking
  <2>3. /\ d.order \in Seq(b.players) /\ Len(d.order) \in Nat /\ DOMAIN d.order = 1 .. Len(d.order)
        /\ Range(d.order) \subseteq b.players /\ \A i \in 1 .. Len(d.order) : d.order[i] \in b.players
    BY <2>2, LineFacts
  <2>4. /\ Identities(b) = FullSeats(b)
        /\ \A s \in FullSeats(b) : SavedSeatPlayer(b, s) = b.seats[s]
        /\ \A s, r \in FullSeats(b) : b.seats[s] = b.seats[r] => s = r
    BY <1>4 DEF ReadsBySeat
  <2>5. b.players \subseteq Known(b)
    BY <2>4 DEF Seated, Known
  <2>6. Among(d.order, Known(b)) = d.order
    BY <2>3, <2>5, AmongAll
  <2>7. /\ Len(v.order) = Len(d.order) /\ v.active = d.active /\ v.current = (IF d.index = 0 THEN 0 ELSE v.order[d.index])
        /\ \A i \in 1 .. Len(d.order) : v.order[i] \in FullSeats(b) /\ b.seats[v.order[i]] = d.order[i]
    BY <1>1, <1>4 DEF ViewsPlayers
  <2>8. ASSUME NEW i \in 1 .. Len(d.order)
        PROVE  OldSeat(b, d.order[i]) = v.order[i]
    BY <2>4, <2>7 DEF OldSeat
  <2>9. v.order = [i \in 1 .. Len(d.order) |-> v.order[i]]
    <3>1. v.order \in Seq(Identities(b))
      BY <1>1 DEF IsView, IsLine
    <3> QED BY <2>7, <3>1
  <2>10. BySeats(d, b).order = v.order
    BY <2>3, <2>6, <2>8, <2>9 DEF BySeats
  <2>11. BySeats(d, b).current = v.current
    <3>1. CASE d.order = << >>
      BY <2>2, <2>3, <2>7, <3>1 DEF BySeats
    <3>2. CASE d.order # << >>
      <4>1. d.index \in 1 .. Len(d.order) /\ d.index # 0
        BY <2>2, <3>2
      <4> QED BY <2>3, <2>5, <2>7, <2>8, <4>1 DEF BySeats
    <3> QED BY <3>1, <3>2
  <2>12. BySeats(d, b).active = v.active
    BY <2>7 DEF BySeats
  <2>13. IsCarried(Carried(d, b), v)
    BY <2>1, <2>10, <2>11, <2>12 DEF Carried, IsCarried
  <2> QED BY <1>2, <2>13 DEF v
<1> QED BY <1>3, <1>4

\* A resume that keeps seats, now or from an earlier one, is not noticed.
LEMMA KeepStays ==
  ASSUME NEW b, NEW n \in Nat, ReadsBySeat(b, n), Seated(b), NEW d, TurnsHold(d, b),
         NEW t, NEW m \in Nat, ReadsBySeat(t, m), FullSeats(t) # {},
         Waiters(t) = Identities(b) \ FullSeats(t), Identities(b) # {}
  PROVE  /\ TurnsHold(KeepSeats(d, b, t), t) /\ Stays(ViewOf(d, b), ViewOf(KeepSeats(d, b, t), t))
         /\ Waiters(t) # {} => ~KeepSeats(d, b, t).active /\ KeepSeats(d, b, t).pending.seats = Identities(b)
<1> DEFINE esc == Escrow(d, b, t)
           scores == LiveScores(d, b, t)
           k == [d EXCEPT !.scores = scores, !.pending = esc]
           e == KeepSeats(d, b, t)
           v == ViewOf(d, b)
           w == ViewOf(e, t)
           I == Identities(t)
<1>1. /\ Identities(t) = Waiters(t) \cup FullSeats(t) /\ FullSeats(t) \cap Waiters(t) = {} /\ t.players \subseteq People
      /\ \A s \in FullSeats(t) : /\ t.seats[s] \in t.players /\ BySeat(t, s) # Nobody
                                 /\ SeatOf(t, t.seats[s]) = s
      /\ \A s : s \notin FullSeats(t) => BySeat(t, s) = Nobody
  BY DEF ReadsBySeat
<1>2. Identities(b) \subseteq I /\ FullSeats(t) \subseteq I
  BY <1>1
<1>3. IsView(v, b) /\ IsCarried(Carried(d, b), v) /\ \A s \in Identities(b) : Points(d, b, s) = v.points[s]
  BY ViewIs, CarriedIs
<1>4. e = Publish(k, t)
  BY DEF KeepSeats
<1>5. IsLib(d)
  BY DEF TurnsHold
<1> HIDE DEF v, e, I
<1>6. /\ esc.seats = Identities(b) /\ esc.order = WithNewcomers(v.order, TakenSeats(t)) /\ esc.active = v.active
      /\ esc.current = (IF v.current = 0 /\ esc.order # << >> THEN esc.order[1] ELSE v.current)
      /\ esc.scores = [s \in Waiters(t) |-> Points(d, b, s)]
      /\ esc \in [seats : {esc.seats}, order : {esc.order}, active : {esc.active}, current : {esc.current}, scores : {esc.scores}]
  BY <1>3 DEF Escrow, IsCarried
<1> HIDE DEF esc
<1>7. /\ IsLine(v.order, Identities(b)) /\ v.active \in BOOLEAN /\ DOMAIN v.points = Identities(b)
      /\ IF v.order = << >> THEN v.current = 0 ELSE v.current \in Range(v.order)
  BY <1>3 DEF IsView
<1>8. IsRecess(esc)
  BY <1>6, <1>7 DEF IsRecess
<1>9. IsLine(v.order, I)
  BY <1>2, <1>7, LineWidens
<1>10. IsLine(TakenSeats(t), I) /\ Range(TakenSeats(t)) = FullSeats(t)
  <2>1. IsLine(TakenSeats(t), FullSeats(t)) /\ Range(TakenSeats(t)) = FullSeats(t)
    BY TakenIs
  <2> QED BY <1>2, <2>1, LineWidens
<1>11. Extends(esc.order, v.order, TakenSeats(t), I)
  BY <1>6, <1>9, <1>10, NewcomersExtend
<1>12. IsLine(esc.order, I)
  BY <1>11 DEF Extends
<1>13. Extends(Lined(esc, t), esc.order, TakenSeats(t), I)
  BY <1>10, <1>12, NewcomersExtend DEF Lined
<1>14. esc.order # << >> /\ 1 \in 1 .. Len(esc.order) /\ esc.order[1] \in Range(esc.order)
  <2>1. /\ Len(esc.order) \in Nat /\ (esc.order = << >> <=> Len(esc.order) = 0)
        /\ (esc.order = << >> <=> Range(esc.order) = {}) /\ Range(esc.order) = {esc.order[i] : i \in 1 .. Len(esc.order)}
    BY <1>12, LineFacts
  <2>2. FullSeats(t) \subseteq Range(esc.order)
    BY <1>10, <1>11 DEF Extends
  <2> QED BY <2>1, <2>2
<1>15. (v.order # << >> => esc.current = v.current) /\ esc.current \in Range(esc.order)
  <2>1. CASE v.order = << >>
    BY <1>6, <1>7, <1>14, <2>1
  <2>2. CASE v.order # << >>
    <3>1. v.current \in Range(v.order) /\ Range(v.order) \subseteq Identities(b)
      BY <1>7, <2>2, LineFacts
    <3>2. v.current # 0
      <4>1. Identities(b) \subseteq 1 .. n
        BY DEF ReadsBySeat
      <4> QED BY <3>1, <4>1
    <3>3. v.current \in Range(esc.order)
      BY <1>11, <3>1 DEF Extends
    <3> QED BY <1>6, <3>2, <3>3
  <2> QED BY <2>1, <2>2
<1>16. esc.current \in Range(Lined(esc, t))
  BY <1>13, <1>15 DEF Extends
<1>17. Awaits(esc, t) <=> Waiters(t) # {}
  BY <1>1, <1>6 DEF Awaits
<1>18. esc.scores = [s \in Waiters(t) |-> esc.scores[s]] /\ \A s \in Waiters(t) : esc.scores[s] = v.points[s]
  BY <1>3, <1>6
<1>19. scores = [p \in People |-> scores[p]]
  BY DEF LiveScores, Everybody, People
<1>20. ASSUME NEW s \in FullSeats(t), s \in Identities(b)
       PROVE  scores[t.seats[s]] = v.points[s]
  <2>1. t.seats[s] \in People /\ t.seats[s] \in t.players /\ SeatOf(t, t.seats[s]) = s
    BY <1>1
  <2>2. t.seats[s] \in Everybody
    BY <2>1 DEF Everybody, People
  <2> QED BY <1>3, <1>20, <2>1, <2>2 DEF LiveScores
<1> HIDE DEF scores
<1>21. k.pending = esc /\ k.scores = scores /\ IsLib(k)
  BY <1>5, <1>19 DEF IsLib
<1> HIDE DEF k
<1>22. Seen(e, k, t)
  BY <1>4, <1>6, <1>8, <1>12, <1>16, <1>17, <1>18, <1>21, PublishKeeps DEF I
<1>23. /\ w.order = Lined(esc, t) /\ w.current = esc.current /\ w.active = esc.active
       /\ \A s \in I : w.points[s] = IF s \in Waiters(t) THEN esc.scores[s] ELSE scores[t.seats[s]]
       /\ TurnsHold(e, t) /\ (Waiters(t) # {} => ~e.active /\ e.pending.seats = Identities(b))
  BY <1>6, <1>21, <1>22 DEF Seen, I
<1> HIDE DEF w
<1>24. \A s \in Identities(b) : w.points[s] = v.points[s]
  BY <1>1, <1>2, <1>18, <1>20, <1>23 DEF I
<1>25. IsPrefix(v.order, w.order)
  <2>1. /\ Len(v.order) <= Len(esc.order) /\ \A i \in 1 .. Len(v.order) : esc.order[i] = v.order[i]
    BY <1>11 DEF Extends
  <2>2. /\ Len(esc.order) <= Len(w.order) /\ \A i \in 1 .. Len(esc.order) : w.order[i] = esc.order[i]
        /\ IsLine(w.order, I)
    BY <1>13, <1>23 DEF Extends
  <2>3. v.order \in Seq(I) /\ w.order \in Seq(I) /\ Len(v.order) \in Nat /\ Len(w.order) \in Nat /\ Len(esc.order) \in Nat
    BY <1>9, <1>12, <2>2, LineFacts
  <2>4. Len(v.order) <= Len(w.order)
    BY <2>1, <2>2, <2>3
  <2>5. ASSUME NEW i \in 1 .. Len(v.order)
        PROVE  w.order[i] = v.order[i]
    <3>1. i \in 1 .. Len(esc.order)
      BY <2>1, <2>3
    <3> QED BY <2>1, <2>2, <3>1
  <2> QED BY <2>3, <2>4, <2>5, StartsAs
<1>26. Stays(v, w)
  BY <1>6, <1>7, <1>15, <1>23, <1>24, <1>25 DEF Stays
<1> QED BY <1>23, <1>26 DEF v, w, e

-----------------------------------------------------------------------------
\* Everybody who was saved has come back, each on their seat of table t.
AllBack(roster, b, t) ==
  /\ Waiters(b) = {} /\ Waiters(t) = {} /\ Identities(b) \subseteq FullSeats(t) /\ FullSeats(t) # {}
  /\ DOMAIN roster = FullSeats(t)
  /\ \A i \in FullSeats(t) : roster[i].player = t.seats[i] /\ roster[i].previous = SavedSeatPlayer(b, i)

LEMMA NewIdIs ==
  ASSUME NEW b, NEW n \in Nat, ReadsBySeat(b, n), NEW t, NEW roster, AllBack(roster, b, t), NEW s \in FullSeats(b)
  PROVE  NewId(roster, b.seats[s]) = t.seats[s]
<1>1. /\ Identities(b) = FullSeats(b) /\ FullSeats(b) \subseteq FullSeats(t)
      /\ \A r \in FullSeats(b) : SavedSeatPlayer(b, r) = b.seats[r] /\ b.seats[r] # Nobody
      /\ \A r \in FullSeats(b) : b.seats[r] = b.seats[s] => r = s
  BY DEF ReadsBySeat, AllBack
<1>2. \A r : SavedSeatPlayer(b, r) # Nobody => r \in FullSeats(b)
  BY <1>1 DEF SavedSeatPlayer, Identities, AllBack
<1>3. Heirs(roster) = FullSeats(b)
  BY <1>1, <1>2 DEF Heirs, AllBack
<1>4. \A r \in FullSeats(b) : roster[r].previous = b.seats[r] /\ roster[r].player = t.seats[r]
  BY <1>1 DEF AllBack
<1>5. b.seats[s] \in Inherited(roster)
  BY <1>3, <1>4 DEF Inherited
<1>6. (CHOOSE i \in Heirs(roster) : roster[i].previous = b.seats[s]) = s
  BY <1>1, <1>3, <1>4
<1>7. Heir(roster, b.seats[s]) = t.seats[s]
  BY <1>4, <1>6 DEF Heir
<1> QED BY <1>5, <1>7 DEF NewId

\* Whoever is at the table, in the order of the seats.
LEMMA PresentIs ==
  ASSUME NEW t, NEW m \in Nat, ReadsBySeat(t, m)
  PROVE  IsLine(SeatedAt(t, TakenSeats(t)), t.players) /\ (FullSeats(t) # {} => SeatedAt(t, TakenSeats(t)) # << >>)
<1> DEFINE taken == TakenSeats(t)
           present == SeatedAt(t, taken)
<1>1. /\ \A s \in FullSeats(t) : t.seats[s] \in t.players /\ BySeat(t, s) = t.seats[s]
      /\ \A s, r \in FullSeats(t) : t.seats[s] = t.seats[r] => s = r
  BY DEF ReadsBySeat
<1>2. IsLine(taken, FullSeats(t)) /\ Range(taken) = FullSeats(t)
  BY TakenIs
<1> HIDE DEF taken
<1>3. /\ Len(taken) \in Nat /\ DOMAIN taken = 1 .. Len(taken)
      /\ \A i \in 1 .. Len(taken) : taken[i] \in FullSeats(t)
      /\ \A i, j \in 1 .. Len(taken) : taken[i] = taken[j] => i = j
      /\ FullSeats(t) # {} => Len(taken) # 0
  BY <1>2, LineFacts
<1>4. present = [i \in 1 .. Len(taken) |-> t.seats[taken[i]]]
  BY <1>1, <1>3 DEF SeatedAt
<1> HIDE DEF present
<1>5. present \in Seq(t.players) /\ Len(present) = Len(taken)
  BY <1>1, <1>3, <1>4
<1>6. \A i, j \in 1 .. Len(present) : present[i] = present[j] => i = j
  BY <1>1, <1>3, <1>4, <1>5
<1>7. IsLine(present, t.players) /\ (FullSeats(t) # {} => present # << >>)
  BY <1>3, <1>5, <1>6 DEF IsLine
<1> QED BY <1>7 DEF present, taken

\* When everybody is back at once, nobody notices.
LEMMA RenameStays ==
  ASSUME NEW b, NEW n \in Nat, ReadsBySeat(b, n), Seated(b), NEW d, TurnsHold(d, b),
         NEW t, NEW m \in Nat, ReadsBySeat(t, m), Seated(t), NEW roster, AllBack(roster, b, t)
  PROVE  TurnsHold(Rename(d, b, t, roster), t) /\ Stays(ViewOf(d, b), ViewOf(Rename(d, b, t, roster), t))
<1> DEFINE v == ViewOf(d, b)
           e == Rename(d, b, t, roster)
           w == ViewOf(e, t)
           L == Len(d.order)
           ids == [i \in DOMAIN d.order |-> NewId(roster, d.order[i])]
           present == SeatedAt(t, TakenSeats(t))
           order == WithNewcomers(ids, present)
           place == IF d.index \in DOMAIN d.order THEN PlaceIn(order, NewId(roster, d.order[d.index])) ELSE 0
           spot == IF place # 0 THEN place ELSE IF order = << >> THEN 0 ELSE 1
           Old(p) == {x \in b.players : NewId(roster, x) = p /\ p \in t.players}
           Now(p) == IF Old(p) # {} THEN d.scores[CHOOSE x \in Old(p) : TRUE]
                     ELSE IF p \in b.players THEN 0 ELSE d.scores[p]
           scores == [p \in Everybody |-> Now(p)]
<1>1. /\ Waiters(b) = {} /\ Waiters(t) = {} /\ Identities(b) \subseteq FullSeats(t) /\ FullSeats(t) # {}
  BY DEF AllBack
<1>2. /\ Identities(b) = FullSeats(b) /\ \A s, r \in FullSeats(b) : b.seats[s] = b.seats[r] => s = r
      /\ \A s \in FullSeats(b) : b.seats[s] \in b.players
  BY <1>1 DEF ReadsBySeat
<1>3. /\ t.players \subseteq People /\ Identities(t) = FullSeats(t)
      /\ \A s \in FullSeats(t) : t.seats[s] \in t.players /\ BySeat(t, s) = t.seats[s]
      /\ \A s, r \in FullSeats(t) : t.seats[s] = t.seats[r] => s = r
  BY <1>1 DEF ReadsBySeat
<1>4. \A s \in FullSeats(b) : s \in FullSeats(t) /\ NewId(roster, b.seats[s]) = t.seats[s]
  BY <1>1, <1>2, NewIdIs
<1>5. IsLib(d) /\ d.pending = NoPending /\ IsTaking(d, b)
  BY <1>1 DEF TurnsHold
<1>6. /\ d.order = << >> => d.index = 0
      /\ d.order # << >> => d.index \in 1 .. L
      /\ L \in Nat /\ DOMAIN d.order = 1 .. L /\ (d.order = << >> <=> L = 0)
      /\ \A i, j \in 1 .. L : d.order[i] = d.order[j] => i = j
  BY <1>5, LineFacts DEF IsTaking
<1>7. IsView(v, b) /\ ViewsPlayers(v, d, b)
  BY <1>1, ViewIs
<1> HIDE DEF v
<1>8. /\ IsLine(v.order, Identities(b)) /\ DOMAIN v.points = Identities(b)
      /\ Len(v.order) = L /\ \A i \in 1 .. L : v.order[i] \in FullSeats(b) /\ b.seats[v.order[i]] = d.order[i]
      /\ v.active = d.active /\ v.current = (IF d.index = 0 THEN 0 ELSE v.order[d.index])
      /\ \A s \in FullSeats(b) : v.points[s] = d.scores[b.seats[s]]
  BY <1>7 DEF IsView, ViewsPlayers
<1>9. /\ ids \in Seq(t.players) /\ Len(ids) = L /\ \A i \in 1 .. L : ids[i] = t.seats[v.order[i]]
  <2>1. \A i \in 1 .. L : NewId(roster, d.order[i]) = t.seats[v.order[i]] /\ NewId(roster, d.order[i]) \in t.players
    BY <1>3, <1>4, <1>8
  <2>2. ids = [i \in 1 .. L |-> NewId(roster, d.order[i])]
    BY <1>6
  <2> HIDE DEF ids
  <2>3. \A i \in 1 .. L : ids[i] = t.seats[v.order[i]] /\ ids[i] \in t.players
    BY <2>1, <2>2
  <2>4. ids \in Seq(t.players) /\ Len(ids) = L
    <3>1. ids \in [1 .. L -> t.players] /\ L \in Nat
      BY <1>6, <2>2, <2>3
    <3> QED BY <3>1
  <2> QED BY <2>3, <2>4
<1>10. \A i \in 1 .. L : ids[i] = NewId(roster, d.order[i])
  BY <1>6
<1> HIDE DEF ids
<1>11. IsLine(ids, t.players)
  <2>1. \A i, j \in 1 .. L : ids[i] = ids[j] => i = j
    <3> SUFFICES ASSUME NEW i \in 1 .. L, NEW j \in 1 .. L, ids[i] = ids[j]
                 PROVE  i = j
      OBVIOUS
    <3>1. v.order[i] = v.order[j]
      BY <1>3, <1>4, <1>8, <1>9
    <3> QED BY <1>6, <1>8, <3>1
  <2> QED BY <1>9, <2>1 DEF IsLine
<1>12. Renamed(d, t, roster) = ids
  <2>1. Range(ids) \subseteq t.players
    BY <1>11, LineFacts
  <2>2. Among(ids, t.players) = ids
    BY <1>9, <2>1, AmongAll
  <2> QED BY <2>2 DEF Renamed, ids
<1>13. IsLine(present, t.players) /\ present # << >>
  BY <1>1, PresentIs
<1> HIDE DEF present
<1>14. Extends(order, ids, present, t.players)
  BY <1>11, <1>13, NewcomersExtend
<1> HIDE DEF order
<1>15. /\ IsLine(order, t.players) /\ L <= Len(order) /\ (\A i \in 1 .. L : order[i] = ids[i])
       /\ Range(present) \subseteq Range(order)
  BY <1>9, <1>14 DEF Extends
<1>16. /\ Len(order) \in Nat /\ order # << >> /\ Len(order) # 0 /\ DOMAIN order = 1 .. Len(order)
       /\ Range(order) = {order[i] : i \in 1 .. Len(order)}
       /\ \A i, j \in 1 .. Len(order) : order[i] = order[j] => i = j
  <2>1. Range(present) # {}
    BY <1>13, LineFacts
  <2> QED BY <1>15, <2>1, LineFacts
<1>17. /\ spot \in 1 .. Len(order) /\ (d.order # << >> => spot = d.index)
  <2>1. CASE d.order = << >>
    BY <1>6, <1>16, <2>1
  <2>2. CASE d.order # << >>
    <3>1. d.index \in 1 .. L /\ d.index \in 1 .. Len(order)
      BY <1>6, <1>15, <1>16, <2>2
    <3>2. order[d.index] = NewId(roster, d.order[d.index]) /\ order[d.index] \in Range(order)
      BY <1>10, <1>15, <1>16, <3>1
    <3>3. place = PlaceIn(order, order[d.index])
      BY <1>6, <3>1, <3>2
    <3>4. PlaceIn(order, order[d.index]) \in 1 .. Len(order) /\ order[PlaceIn(order, order[d.index])] = order[d.index]
      BY <1>15, <3>2, PlaceIs
    <3>5. place = d.index
      BY <1>16, <3>1, <3>3, <3>4
    <3>6. d.index # 0
      BY <3>1
    <3> HIDE DEF place
    <3> QED BY <3>1, <3>5, <3>6
  <2> QED BY <2>1, <2>2
<1>18. ASSUME NEW s \in FullSeats(b)
       PROVE  scores[t.seats[s]] = d.scores[b.seats[s]]
  <2>1. \A x \in b.players : \E r \in FullSeats(b) : b.seats[r] = x
    BY DEF Seated
  <2>2. t.seats[s] \in t.players /\ t.seats[s] \in Everybody
    BY <1>3, <1>4 DEF Everybody, People
  <2>3. \A x \in b.players : NewId(roster, x) = t.seats[s] => x = b.seats[s]
    BY <1>3, <1>4, <2>1
  <2>4. b.seats[s] \in b.players /\ NewId(roster, b.seats[s]) = t.seats[s]
    BY <1>2, <1>4
  <2>5. Old(t.seats[s]) = {b.seats[s]}
    BY <2>2, <2>3, <2>4
  <2>6. scores[t.seats[s]] = Now(t.seats[s])
    BY <2>2
  <2> HIDE DEF Old
  <2>7. (CHOOSE x \in {b.seats[s]} : TRUE) = b.seats[s]
    OBVIOUS
  <2>8. Now(t.seats[s]) = d.scores[b.seats[s]]
    BY <2>5, <2>7
  <2> QED BY <2>6, <2>8
<1>19. scores = [p \in People |-> scores[p]]
  BY DEF Everybody, People
<1>20. e = [d EXCEPT !.order = order, !.active = d.active /\ order # << >>, !.index = spot, !.scores = scores]
  BY <1>12 DEF Rename, order, present
<1> HIDE DEF scores, spot, e
<1>21. e.order = order /\ e.active = d.active /\ e.index = spot /\ e.scores = scores /\ e.pending = NoPending /\ IsLib(e)
  BY <1>5, <1>16, <1>19, <1>20 DEF IsLib
<1>22. TurnsHold(e, t)
  BY <1>1, <1>15, <1>16, <1>17, <1>21 DEF TurnsHold, IsTaking
<1>23. IsView(w, t) /\ ViewsPlayers(w, e, t)
  BY <1>1, <1>22, ViewIs
<1> HIDE DEF w
<1>24. /\ IsLine(w.order, Identities(t))
       /\ Len(w.order) = Len(order) /\ \A i \in 1 .. Len(order) : w.order[i] \in FullSeats(t) /\ t.seats[w.order[i]] = order[i]
       /\ w.active = d.active /\ w.current = (IF spot = 0 THEN 0 ELSE w.order[spot])
       /\ \A s \in FullSeats(t) : w.points[s] = scores[t.seats[s]]
  BY <1>21, <1>23 DEF IsView, ViewsPlayers
<1>25. ASSUME NEW i \in 1 .. L
       PROVE  w.order[i] = v.order[i]
  <2>1. i \in 1 .. Len(order)
    BY <1>6, <1>15, <1>16
  <2>2. order[i] = t.seats[v.order[i]] /\ v.order[i] \in FullSeats(t)
    BY <1>4, <1>8, <1>9, <1>15
  <2> QED BY <1>3, <1>24, <2>1, <2>2
<1>26. IsPrefix(v.order, w.order)
  <2>1. v.order \in Seq(Identities(t)) /\ w.order \in Seq(Identities(t))
    BY <1>1, <1>3, <1>8, <1>24, LineWidens DEF IsLine
  <2>2. Len(v.order) <= Len(w.order)
    BY <1>8, <1>15, <1>24
  <2>3. \A i \in 1 .. Len(v.order) : w.order[i] = v.order[i]
    BY <1>8, <1>25
  <2> QED BY <2>1, <2>2, <2>3, StartsAs
<1>27. v.order # << >> => w.current = v.current
  <2> SUFFICES ASSUME v.order # << >>
               PROVE  w.current = v.current
    OBVIOUS
  <2>1. d.order # << >>
    <3>1. v.order = << >> <=> Len(v.order) = 0
      BY <1>8, LineFacts
    <3> QED BY <1>6, <1>8, <3>1
  <2>2. d.index \in 1 .. L /\ spot = d.index /\ d.index # 0
    BY <1>6, <1>17, <2>1
  <2> QED BY <1>8, <1>24, <1>25, <2>2
<1>28. \A s \in DOMAIN v.points : w.points[s] = v.points[s]
  BY <1>2, <1>4, <1>8, <1>18, <1>24
<1>29. Stays(v, w)
  BY <1>8, <1>24, <1>26, <1>27, <1>28 DEF Stays
<1> QED BY <1>22, <1>29 DEF v, w, e

-----------------------------------------------------------------------------
LEMMA ResumeKeepsTurns ==
  ASSUME NEW n \in Nat, SeatsHold(n), TurnsSit, ResumeTurns
  PROVE  SeatsHold(n)' /\ TurnsSit' /\ Stays(SeatView, SeatView')
<1> DEFINE roster == [i \in DOMAIN rows |->
                        [player |-> rows[i].player, previous |-> SavedSeatPlayer(base, RosterSeat(i))]]
<1>1. StartResumed /\ turned' = turned
      /\ lib' = IF Waiters(base) # {} \/ Waiters(table') # {} THEN KeepSeats(lib, base, table')
                ELSE Rename(lib, base, table', roster)
  BY DEF ResumeTurns
<1>2. SeatsHold(n)'
  BY <1>1, StartKeepsSeats
<1>3. ~started /\ started' = TRUE /\ base' = base /\ rows' = rows /\ home' = home /\ rows # << >>
  BY <1>1 DEF StartResumed
<1>4. table = base /\ SoundTable(base, n, home) /\ IsRows(rows, base) /\ ComesFrom(table', base, rows, n, home)
  BY <1>2, <1>3 DEF SeatsHold
<1>5. ReadsBySeat(base, n) /\ Seated(base) /\ TurnsHold(lib, base) /\ turned \in Nat
  BY <1>4, ReadingSeats DEF TurnsSit
<1>6. PICK m \in Nat : Came(table', base, rows, m)
  <2>1. \A t : ComesFrom(t, base, rows, n, home) => \E m \in Nat : Came(t, base, rows, m)
    BY <1>4, CameFacts
  <2> QED BY <1>4, <2>1
<1>7. /\ ReadsBySeat(table', m) /\ Seated(table') /\ Len(rows) \in Nat /\ FullSeats(table') = 1 .. Len(rows)
      /\ \A s \in 1 .. Len(rows) : table'.seats[s] = rows[s].player
      /\ Waiters(table') = Identities(base) \ (1 .. Len(rows))
  BY <1>6 DEF Came
<1>8. FullSeats(table') # {} /\ DOMAIN rows = 1 .. Len(rows)
  <2>1. rows \in Seq(Rows)
    BY <1>4 DEF IsRows
  <2> QED BY <1>3, <1>7, <2>1
<1>9. CASE Waiters(base) # {} \/ Waiters(table') # {}
  <2>1. lib' = KeepSeats(lib, base, table')
    BY <1>1, <1>9
  <2>2. Identities(base) # {}
    <3>1. Waiters(base) \subseteq Identities(base)
      BY <1>5 DEF ReadsBySeat
    <3> QED BY <1>7, <1>9, <3>1
  <2>3. /\ TurnsHold(lib', table') /\ Stays(ViewOf(lib, base), ViewOf(lib', table'))
        /\ Waiters(table') # {} => ~lib'.active /\ lib'.pending.seats = Identities(base)
    BY <1>5, <1>7, <1>8, <2>1, <2>2, KeepStays
  <2>4. TurnsSit'
    BY <1>1, <1>3, <1>5, <1>7, <1>8, <2>3 DEF TurnsSit
  <2> QED BY <1>2, <1>4, <2>3, <2>4 DEF SeatView
<1>10. CASE Waiters(base) = {} /\ Waiters(table') = {}
  <2>1. lib' = Rename(lib, base, table', roster)
    BY <1>1, <1>10
  <2>2. AllBack(roster, base, table')
    <3>1. DOMAIN roster = FullSeats(table')
      BY <1>7, <1>8
    <3>2. \A i \in FullSeats(table') : roster[i].player = table'.seats[i] /\ roster[i].previous = SavedSeatPlayer(base, i)
      BY <1>7, <1>8 DEF RosterSeat
    <3>3. Identities(base) \subseteq FullSeats(table')
      BY <1>7, <1>10
    <3> HIDE DEF roster
    <3> QED BY <1>8, <1>10, <3>1, <3>2, <3>3 DEF AllBack
  <2> HIDE DEF roster
  <2>3. TurnsHold(lib', table') /\ Stays(ViewOf(lib, base), ViewOf(lib', table'))
    BY <1>5, <1>7, <2>1, <2>2, RenameStays
  <2>4. TurnsSit'
    BY <1>1, <1>3, <1>5, <1>7, <1>8, <1>10, <2>3 DEF TurnsSit
  <2> QED BY <1>2, <1>4, <2>3, <2>4 DEF SeatView
<1> QED BY <1>9, <1>10

LEMMA SaveKeepsTurns ==
  ASSUME NEW n \in Nat, SeatsHold(n), TurnsSit, SaveTurns
  PROVE  TurnInv' /\ Stays(SeatView, SeatView')
<1>1. SaveAndResume /\ lib' = lib /\ turned' = turned
  BY DEF SaveTurns
<1>2. ResumeInv'
  BY <1>1, SaveKeepsSeats
<1>3. table' = table /\ started' = FALSE
  BY <1>1 DEF SaveAndResume, NewRoom
<1>4. TurnsSit'
  BY <1>1, <1>3 DEF TurnsSit
<1>5. SeatView' = SeatView
  BY <1>1, <1>3 DEF SeatView
<1> QED BY <1>2, <1>4, <1>5, UnchangedStays DEF TurnInv, ResumeInv

\* What scripts do with the turns leaves them in order.
LEMMA PlayKeepsTurns ==
  ASSUME NEW n \in Nat, SeatsHold(n), TurnsSit, NEW d, Plays(d),
         TurnsHold(d, table), Waiters(table) # {} => ~d.active /\ d.pending.seats = lib.pending.seats
  PROVE  SeatsHold(n)' /\ TurnsSit' /\ turned' # turned
<1>1. turned' = turned + 1 /\ lib' = d /\ started /\ UNCHANGED resumeVars
  BY DEF Plays
<1>2. base' = base /\ rows' = rows /\ started' = started /\ paused' = paused /\ table' = table /\ home' = home
  BY <1>1 DEF resumeVars
<1>3. SeatsHold(n)'
  BY <1>2 DEF SeatsHold
<1>4. turned' \in Nat /\ turned' # turned
  BY <1>1 DEF TurnsSit
<1>5. TurnsSit'
  BY <1>1, <1>2, <1>4 DEF TurnsSit
<1> QED BY <1>3, <1>4, <1>5

LEMMA StartKeepsTurns ==
  ASSUME NEW n \in Nat, SeatsHold(n), TurnsSit, NEW first, StartTurns(first)
  PROVE  SeatsHold(n)' /\ TurnsSit' /\ turned' # turned
<1> DEFINE order == SeatedAt(table, TakenSeats(table))
           spot == IF first \in Range(order) THEN PlaceIn(order, first) ELSE 1
           active == order # << >>
           d == [lib EXCEPT !.order = order, !.active = active, !.index = spot]
<1>1. Waiters(table) = {} /\ Plays(d)
  BY DEF StartTurns
<1>2. PICK m \in Nat : ReadsBySeat(table, m)
  BY TableReads
<1>3. FullSeats(table) # {}
  BY <1>1 DEF TurnsSit, Plays
<1>4. IsLib(lib) /\ lib.pending = NoPending
  BY <1>1 DEF TurnsSit, TurnsHold
<1>5. IsLine(order, table.players) /\ order # << >>
  BY <1>2, <1>3, PresentIs
<1> HIDE DEF order
<1>6. Len(order) \in Nat /\ Len(order) # 0
  BY <1>5, LineFacts
<1>7. spot \in 1 .. Len(order)
  BY <1>5, <1>6, PlaceIs
<1>8. active \in BOOLEAN
  OBVIOUS
<1> HIDE DEF spot, active
<1>9. d.order = order /\ d.index = spot /\ d.pending = NoPending /\ IsLib(d)
  BY <1>4, <1>8 DEF IsLib
<1> HIDE DEF d
<1>10. TurnsHold(d, table)
  BY <1>1, <1>5, <1>7, <1>9 DEF TurnsHold, IsTaking
<1> QED BY <1>1, <1>10, PlayKeepsTurns

LEMMA NextKeepsTurns ==
  ASSUME NEW n \in Nat, SeatsHold(n), TurnsSit, NextTurn
  PROVE  SeatsHold(n)' /\ TurnsSit' /\ turned' # turned
<1> DEFINE spot == (lib.index % Len(lib.order)) + 1
           d == [lib EXCEPT !.index = spot]
<1>1. IsLib(lib)
  BY DEF TurnsSit, TurnsHold
<1>2. d = [lib EXCEPT !.index = (@ % Len(lib.order)) + 1]
  BY <1>1 DEF IsLib
<1>3. Waiters(table) = {} /\ lib.order # << >> /\ Plays(d)
  BY <1>2 DEF NextTurn
<1>4. lib.pending = NoPending /\ IsTaking(lib, table)
  BY <1>3 DEF TurnsSit, TurnsHold
<1>5. Len(lib.order) \in Nat /\ Len(lib.order) # 0 /\ lib.index \in 1 .. Len(lib.order)
  BY <1>3, <1>4, LineFacts DEF IsTaking
<1>6. spot \in 1 .. Len(lib.order)
  BY <1>5
<1> HIDE DEF spot
<1>7. d.order = lib.order /\ d.index = spot /\ d.pending = NoPending /\ IsLib(d)
  BY <1>1, <1>4 DEF IsLib
<1> HIDE DEF d
<1>8. TurnsHold(d, table)
  BY <1>3, <1>4, <1>6, <1>7 DEF TurnsHold, IsTaking
<1> QED BY <1>3, <1>8, PlayKeepsTurns

LEMMA AddKeepsTurns ==
  ASSUME NEW n \in Nat, SeatsHold(n), TurnsSit, NEW p, AddScore(p)
  PROVE  SeatsHold(n)' /\ TurnsSit' /\ turned' # turned
<1> DEFINE scores == [lib.scores EXCEPT ![p] = @ + 1]
           d == [lib EXCEPT !.scores = scores]
<1>1. IsLib(lib)
  BY DEF TurnsSit, TurnsHold
<1>2. d = [lib EXCEPT !.scores[p] = @ + 1]
  BY <1>1 DEF IsLib
<1>3. Waiters(table) = {} /\ Plays(d)
  BY <1>2 DEF AddScore
<1>4. lib.pending = NoPending /\ IsTaking(lib, table)
  BY <1>3 DEF TurnsSit, TurnsHold
<1>5. scores = [x \in People |-> scores[x]]
  BY <1>1 DEF IsLib
<1> HIDE DEF scores
<1>6. d.order = lib.order /\ d.index = lib.index /\ d.pending = NoPending /\ IsLib(d)
  BY <1>1, <1>4, <1>5 DEF IsLib
<1> HIDE DEF d
<1>7. TurnsHold(d, table)
  BY <1>3, <1>4, <1>6 DEF TurnsHold, IsTaking
<1> QED BY <1>3, <1>7, PlayKeepsTurns

LEMMA StopKeepsTurns ==
  ASSUME NEW n \in Nat, SeatsHold(n), TurnsSit, StopTurns
  PROVE  SeatsHold(n)' /\ TurnsSit' /\ turned' # turned
<1> DEFINE kept == IF IsPending THEN [lib.pending EXCEPT !.active = FALSE] ELSE lib.pending
           d == [lib EXCEPT !.active = FALSE, !.pending = kept]
<1>1. IsLib(lib) /\ TurnsHold(lib, table)
  BY DEF TurnsSit, TurnsHold
<1>2. d = [lib EXCEPT !.active = FALSE, !.pending = IF IsPending THEN [lib.pending EXCEPT !.active = FALSE] ELSE @]
  BY <1>1 DEF IsLib
<1>3. Plays(d)
  BY <1>2 DEF StopTurns
<1>4. CASE Waiters(table) = {}
  <2>1. lib.pending = NoPending /\ IsTaking(lib, table)
    BY <1>1, <1>4 DEF TurnsHold
  <2>2. kept = NoPending
    BY <2>1 DEF IsPending
  <2> HIDE DEF kept
  <2>3. d.order = lib.order /\ d.index = lib.index /\ d.pending = NoPending /\ IsLib(d)
    BY <1>1, <2>2 DEF IsLib
  <2> HIDE DEF d
  <2>4. TurnsHold(d, table)
    BY <1>4, <2>1, <2>3 DEF TurnsHold, IsTaking
  <2> QED BY <1>3, <1>4, <2>4, PlayKeepsTurns
<1>5. CASE Waiters(table) # {}
  <2>1. IsEscrow(lib.pending, table)
    BY <1>1, <1>5 DEF TurnsHold
  <2>2. IsRecess(lib.pending) /\ lib.pending # NoPending
    BY <2>1 DEF IsEscrow, IsRecess, NoPending
  <2>3. kept = [lib.pending EXCEPT !.active = FALSE]
    BY <2>2 DEF IsPending
  <2> HIDE DEF kept
  <2>4. /\ kept.seats = lib.pending.seats /\ kept.order = lib.pending.order /\ kept.current = lib.pending.current
        /\ kept.scores = lib.pending.scores /\ IsRecess(kept)
    BY <2>2, <2>3 DEF IsRecess
  <2>5. d.pending = kept /\ d.active = FALSE /\ IsLib(d)
    BY <1>1 DEF IsLib
  <2> HIDE DEF d
  <2>6. IsEscrow(d.pending, table)
    BY <2>1, <2>4, <2>5 DEF IsEscrow
  <2>7. TurnsHold(d, table)
    BY <1>5, <2>5, <2>6 DEF TurnsHold
  <2> QED BY <1>3, <2>4, <2>5, <2>7, PlayKeepsTurns
<1> QED BY <1>4, <1>5

LEMMA TurnsStart == TurnInit => TurnInv
<1> SUFFICES ASSUME TurnInit
             PROVE  TurnInv
  OBVIOUS
<1>1. ResumeInit
  BY DEF TurnInit
<1>2. PICK n \in Nat : SeatsHold(n)
  BY <1>1, SeatsStart DEF ResumeInv
<1>3. table = base /\ ~started
  BY <1>1 DEF ResumeInit
<1>4. PICK m \in Nat : ReadsBySeat(base, m)
  BY <1>2, <1>3, TableReads
<1>5. Waiters(base) = {} /\ Seated(base)
  <2>1. PICK sits \in [1 .. SavedSeats -> Veterans \cup {Nobody}] :
          /\ \A v \in Veterans : \E s \in 1 .. SavedSeats : sits[s] = v
          /\ base = [players |-> Veterans, seats |-> sits, pending |-> << >>, hands |-> [v \in Veterans |-> v]]
    BY <1>1 DEF ResumeInit
  <2>2. base.players = Veterans /\ base.seats = sits /\ SeatsOf(base) = 1 .. SavedSeats /\ base.pending = << >>
    BY <2>1 DEF SeatsOf
  <2>3. Waiters(base) = {}
    BY <2>2 DEF Waiters
  <2>4. \A v \in Veterans : v # Nobody
    BY Ids
  <2>5. Seated(base)
    BY <2>1, <2>2, <2>4 DEF Seated, FullSeats, BySeat
  <2> QED BY <2>3, <2>5
<1>6. PICK order \in {<< >>, SeatedAt(base, TakenSeats(base))} :
        \E spot \in IF order = << >> THEN {0} ELSE DOMAIN order :
          \E active \in IF order = << >> THEN {FALSE} ELSE BOOLEAN :
            lib = [order |-> order, index |-> spot, active |-> active, pending |-> NoPending,
                   scores |-> [p \in Everybody |-> IF p \in Veterans THEN home[p] ELSE 0]]
  BY DEF TurnInit
<1>7. PICK spot \in IF order = << >> THEN {0} ELSE DOMAIN order :
        \E active \in BOOLEAN :
          lib = [order |-> order, index |-> spot, active |-> active, pending |-> NoPending,
                 scores |-> [p \in Everybody |-> IF p \in Veterans THEN home[p] ELSE 0]]
  BY <1>6
<1>8. IsLine(order, base.players)
  <2>1. IsLine(<< >>, base.players)
    BY DEF IsLine
  <2> QED BY <1>4, <2>1, PresentIs
<1>9. IF order = << >> THEN spot = 0 ELSE spot \in 1 .. Len(order)
  BY <1>7, <1>8, LineFacts
<1>10. lib.order = order /\ lib.index = spot /\ lib.pending = NoPending /\ IsLib(lib)
  BY <1>7 DEF IsLib, Everybody, People
<1>11. TurnsHold(lib, base)
  BY <1>5, <1>8, <1>9, <1>10 DEF TurnsHold, IsTaking
<1>12. TurnsSit
  BY <1>3, <1>5, <1>11 DEF TurnsSit, TurnInit
<1> QED BY <1>2, <1>12 DEF TurnInv

\* Turns and points survive whatever joins, claims, saves and resumes happen.
\* (The reconciliation of STDLIB_V1 in packages/lua/src/creator-runtime.ts.)
THEOREM TurnsAlwaysSurvive == TurnSpec => TurnsSurvive
<1>1. TurnInv /\ [TurnNext]_turnVars => TurnInv' /\ (turned' = turned => Stays(SeatView, SeatView'))
  <2> SUFFICES ASSUME TurnInv, [TurnNext]_turnVars
               PROVE  TurnInv' /\ (turned' = turned => Stays(SeatView, SeatView'))
    OBVIOUS
  <2>1. PICK n \in Nat : SeatsHold(n) /\ TurnsSit
    BY DEF TurnInv
  <2>2. CASE \E p \in Joiners : JoinTurns(p)
    BY <2>1, <2>2, JoinKeepsTurns DEF TurnInv
  <2>3. CASE \E p \in Joiners : StartTurns(p)
    BY <2>1, <2>3, StartKeepsTurns DEF TurnInv
  <2>4. CASE \E p \in Joiners : AddScore(p)
    BY <2>1, <2>4, AddKeepsTurns DEF TurnInv
  <2>5. CASE ResumeTurns
    BY <2>1, <2>5, ResumeKeepsTurns DEF TurnInv
  <2>6. CASE SaveTurns
    BY <2>1, <2>6, SaveKeepsTurns
  <2>7. CASE NextTurn
    BY <2>1, <2>7, NextKeepsTurns DEF TurnInv
  <2>8. CASE StopTurns
    BY <2>1, <2>8, StopKeepsTurns DEF TurnInv
  <2>9. CASE UNCHANGED turnVars
    <3>1. UNCHANGED resumeVars /\ lib' = lib /\ turned' = turned
      BY <2>9 DEF turnVars
    <3>2. SeatsHold(n)' /\ TurnsSit' /\ SeatView' = SeatView
      BY <2>1, <3>1 DEF resumeVars, SeatsHold, TurnsSit, SeatView
    <3> QED BY <2>1, <3>2, UnchangedStays DEF TurnInv
  <2> QED BY <2>2, <2>3, <2>4, <2>5, <2>6, <2>7, <2>8, <2>9 DEF TurnNext
<1>2. TurnInv /\ [TurnNext]_turnVars =>
        [turned' = turned =>
           /\ IsPrefix(SeatView.order, SeatView'.order)
           /\ SeatView.order # << >> => SeatView'.current = SeatView.current
           /\ SeatView'.active = SeatView.active
           /\ \A s \in DOMAIN SeatView.points : SeatView'.points[s] = SeatView.points[s]]_turnVars
  BY <1>1 DEF Stays
<1>3. TurnInv => (started /\ Waiters(table) # {} => ~lib.active)
  BY DEF TurnInv, TurnsSit
<1> QED BY <1>1, <1>2, <1>3, TurnsStart, PTL DEF TurnSpec, TurnsSurvive
=============================================================================
