------------------------------ MODULE Accounts ------------------------------
(***************************************************************************)
(* Signing in with a link that was mailed, and the sessions that come of   *)
(* it: magic links and sessions as rows of D1, used by requests that read  *)
(* a row, decide, and then write it with a conditional UPDATE              *)
(* (apps/worker/src/auth.ts, d1-repositories.ts, the auth routes of        *)
(* platform.ts).                                                           *)
(*                                                                         *)
(* A request takes its clock when it arrives and uses it to the end, also  *)
(* when it is overtaken.  Tokens and their hashes are the rows themselves; *)
(* a row is found by its selector and never collides.                      *)
(***************************************************************************)
EXTENDS Integers

CONSTANTS
  Tokens,      \* names of magic links and of the sessions made from them
  Visits,      \* requests
  LinkTtl,     \* MAGIC_LINK_TTL_MS
  SessionTtl,  \* the rolling life of a session
  MaxClock,    \* bound: time
  NoTime       \* null

ASSUME AccountAssumption ==
  /\ LinkTtl \in Nat \ {0} /\ SessionTtl \in Nat \ {0} /\ MaxClock \in Nat
  /\ NoTime \notin Nat \cup Tokens

VARIABLES
  clock,
  links,     \* magic_links: expires_at, consumed_at, or NoTime before it exists
  sessions,  \* sessions: expires_at, revoked; made of which link, how often
  visits     \* the requests: what they are at, on which row, with which clock

accountVars == <<clock, links, sessions, visits>>

-----------------------------------------------------------------------------
NoVisit == [step |-> "idle", token |-> NoTime, now |-> 0]

AccountInit ==
  /\ clock = 0
  /\ links = [t \in Tokens |-> [expiresAt |-> NoTime, consumed |-> FALSE]]
  /\ sessions = [t \in Tokens |-> [expiresAt |-> NoTime, revoked |-> FALSE, made |-> 0]]
  /\ visits = [v \in Visits |-> NoVisit]

VisitEnds(v) == visits' = [visits EXCEPT ![v] = NoVisit]
VisitGoes(v, step) == visits' = [visits EXCEPT ![v].step = step]
VisitAt(v, step) == visits[v].step = step

Visit(v, step, t) ==
  /\ VisitAt(v, "idle")
  /\ visits' = [visits EXCEPT ![v] = [step |-> step, token |-> t, now |-> clock]]
  /\ UNCHANGED <<clock, links, sessions>>

\* POST /api/auth/request-link, once the rate limits let it through.
CreateMagicLink(v) ==
  /\ VisitAt(v, "mail") /\ links[visits[v].token].expiresAt = NoTime
  /\ links' = [links EXCEPT ![visits[v].token].expiresAt = visits[v].now + LinkTtl]
  /\ VisitEnds(v)
  /\ UNCHANGED <<clock, sessions>>

-----------------------------------------------------------------------------
\* consumeMagicLink, the read: unknown, consumed and expired links are refused.
FindLink(v) ==
  /\ VisitAt(v, "verify")
  /\ LET link == links[visits[v].token] IN
     IF link.expiresAt = NoTime \/ link.consumed \/ visits[v].now >= link.expiresAt
     THEN VisitEnds(v) ELSE VisitGoes(v, "consume")
  /\ UNCHANGED <<clock, links, sessions>>

\* UPDATE ... WHERE consumed_at IS NULL AND expires_at > now.
ConsumeLink(v) ==
  /\ VisitAt(v, "consume")
  /\ IF links[visits[v].token].consumed THEN VisitEnds(v) /\ UNCHANGED links
     ELSE /\ links' = [links EXCEPT ![visits[v].token].consumed = TRUE]
          /\ VisitGoes(v, "session")
  /\ UNCHANGED <<clock, sessions>>

\* findOrCreateUser, createSession.
CreateSession(v) ==
  /\ VisitAt(v, "session")
  /\ sessions' = [sessions EXCEPT ![visits[v].token] =
       [expiresAt |-> visits[v].now + SessionTtl, revoked |-> FALSE, made |-> @.made + 1]]
  /\ VisitEnds(v)
  /\ UNCHANGED <<clock, links>>

-----------------------------------------------------------------------------
Live(s, now) == s.expiresAt # NoTime /\ ~s.revoked /\ now < s.expiresAt

\* authenticateSession, the read.
FindSession(v) ==
  /\ VisitAt(v, "authenticate")
  /\ IF Live(sessions[visits[v].token], visits[v].now) THEN VisitGoes(v, "refresh") ELSE VisitEnds(v)
  /\ UNCHANGED <<clock, links, sessions>>

\* Fault: only the read looks whether the session was revoked.
RefreshSession_Unconditional(v) ==
  /\ VisitAt(v, "refresh")
  /\ sessions' = [sessions EXCEPT ![visits[v].token].expiresAt = visits[v].now + SessionTtl]
  /\ VisitGoes(v, "signed_in")
  /\ UNCHANGED <<clock, links>>

\* UPDATE ... WHERE revoked_at IS NULL AND expires_at > now; the request then acts as the user.
RefreshSession(v) ==
  /\ VisitAt(v, "refresh")
  /\ LET t == visits[v].token IN
     IF Live(sessions[t], visits[v].now)
     THEN /\ sessions' = [sessions EXCEPT ![t].expiresAt = visits[v].now + SessionTtl]
          /\ VisitGoes(v, "signed_in")
     ELSE VisitEnds(v) /\ UNCHANGED sessions
  /\ UNCHANGED <<clock, links>>

\* POST /api/auth/logout: revokeSessionToken.
Logout(v) ==
  /\ VisitAt(v, "logout")
  /\ sessions' = [sessions EXCEPT ![visits[v].token].revoked = @ \/ sessions[visits[v].token].made > 0]
  /\ VisitEnds(v)
  /\ UNCHANGED <<clock, links>>

\* The answer is sent, or the request dies where it is.
Answer(v) ==
  /\ ~VisitAt(v, "idle")
  /\ VisitEnds(v)
  /\ UNCHANGED <<clock, links, sessions>>

Tick ==
  /\ clock < MaxClock /\ clock' = clock + 1
  /\ UNCHANGED <<links, sessions, visits>>

AccountNext ==
  \/ Tick
  \/ \E v \in Visits :
       \/ \E t \in Tokens, step \in {"mail", "verify", "authenticate", "logout"} : Visit(v, step, t)
       \/ CreateMagicLink(v) \/ FindLink(v) \/ ConsumeLink(v)
       \/ CreateSession(v) \/ FindSession(v) \/ RefreshSession(v) \/ Logout(v) \/ Answer(v)

AccountSpec == AccountInit /\ [][AccountNext]_accountVars

-----------------------------------------------------------------------------
MakesSession(v, t) == VisitAt(v, "session") /\ visits[v].token = t

\* A link that was mailed signs in once, also when it is opened twice at the same
\* time; a request that has it to itself is the only one on its way to a session.
\* (consumeMagicLink's read and its conditional UPDATE.)
OneSessionPerLink ==
  \A t \in Tokens :
    /\ sessions[t].made <= 1
    /\ \A v \in Visits : MakesSession(v, t) =>
         /\ sessions[t].made = 0 /\ links[t].consumed
         /\ \A w \in Visits : MakesSession(w, t) => v = w

\* Once somebody signed out, no request comes to act with that session, not even
\* one that had read it before, and nothing brings the session back.
\* (authenticateSession's read and refreshSession against revokeSession.)
SignedOutStaysOut ==
  [][\A t \in Tokens : sessions[t].revoked =>
       /\ sessions'[t] = sessions[t]
       /\ \A v \in Visits : (visits'[v].token = t /\ visits'[v].step = "signed_in") => VisitAt(v, "signed_in")
    ]_accountVars

\* A link signs in once and a session that ended stays ended.
\* (Every request of auth.ts reads before it writes.)
SessionsAreSound == []OneSessionPerLink /\ SignedOutStaysOut
=============================================================================
