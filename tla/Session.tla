------------------------------ MODULE Session ------------------------------
(***************************************************************************)
(* An agent (src/agent/agent.c) with its session (src/session/session.c):   *)
(* each has an XRPC client of its own, and the agent's is told to refresh   *)
(* an expired token and send the request again (src/transport/xrpc.c).      *)
(*                                                                          *)
(* Any thread may send requests through the agent's client, whose mutex     *)
(* guards its credential.  Nothing guards the session: a thread that        *)
(* enters its code while another is inside races with it, and the behaviour *)
(* is undefined from then on.  Servers answer what they like.  Hosts are    *)
(* left out: they follow the credentials.                                   *)
(***************************************************************************)
EXTENDS Naturals

CONSTANTS Threads,
          Accounts,
          MaxIssued   \* bound on the sessions that servers issue

ASSUME IssuedAssumption == MaxIssued \in Nat

VARIABLES
  issued,      \* how many sessions and renewals servers have issued
  session,     \* session->data, and whether there is one (session->has_session)
  own,         \* the credential of the session's client
  auth,        \* the credential of the agent's client
  refreshing,  \* client->refreshing of the agent's client
  call,        \* where each thread is, and which attempt its request is
  undefined    \* whether two threads were in the session's code at once

vars == <<issued, session, own, auth, refreshing, call, undefined>>

NoToken   == [kind |-> "none"]
Token(k, a, n) == [kind |-> k, did |-> a, n |-> n]
NoSession == [kind |-> "none"]
HasSession == session.kind # "none"
Access    == IF HasSession THEN Token("access", session.did, session.n) ELSE NoToken
\* A session from a broker's bearer token has no refresh token.
Refresh   == IF session.kind = "bearer" THEN NoToken ELSE Token("refresh", session.did, session.n)
\* wf_xrpc_client_set_auth: without memory for the header there is none.
Header(tok) == {tok, NoToken}
Idle      == [pc |-> "idle", attempt |-> 1]

Init ==
  /\ issued = 0
  /\ session = NoSession
  /\ own = NoToken
  /\ auth = NoToken
  /\ refreshing = FALSE
  /\ call = [t \in Threads |-> Idle]
  /\ undefined = FALSE

SessionCode == {"cb_refresh", "install", "login", "resume", "sync", "logout", "bearer"}
Inside(t)   == call[t].pc \in SessionCode
Free        == \A t \in Threads : ~Inside(t)

At(t, pc)   == ~undefined /\ call[t].pc = pc
Goto(t, pc) == call' = [call EXCEPT ![t].pc = pc]
Return(t)   == call' = [call EXCEPT ![t] = Idle]

\* A session from a server, for the account with this DID.
CanIssue    == issued < MaxIssued
Issue(a, n) ==
  /\ session' = [kind |-> "tokens", did |-> a, n |-> n]
  /\ issued' = IF n > issued THEN n ELSE issued
  /\ own' \in Header(Token("access", a, n))

\* The session is dropped, and its client left without a credential.
Cleared == session' = NoSession /\ own' = NoToken

-----------------------------------------------------------------------------
\* wf_xrpc_request on the agent's client: the credential is copied under the
\* mutex; a second attempt goes out with the one that is there then.
Request(t) ==
  /\ At(t, "idle")
  /\ call' = [call EXCEPT ![t].pc = IF auth = NoToken THEN "sent_bare" ELSE "sent"]
  /\ UNCHANGED <<issued, session, own, auth, refreshing, undefined>>

Answer(t) ==
  /\ At(t, "sent") \/ At(t, "sent_bare")
  /\ Return(t)
  /\ UNCHANGED <<issued, session, own, auth, refreshing, undefined>>

\* Mutant: a second attempt is refreshed and repeated like the first.
ExpiredAgain(t) ==
  /\ At(t, "sent")
  /\ Goto(t, "expired")
  /\ UNCHANGED <<issued, session, own, auth, refreshing, undefined>>

\* The first attempt, with a credential, comes back as expired.
Expired(t) ==
  /\ At(t, "sent") /\ call[t].attempt = 1
  /\ Goto(t, "expired")
  /\ UNCHANGED <<issued, session, own, auth, refreshing, undefined>>

\* The guard is read in one critical section and set in the next.
ReadGuard(t) ==
  /\ At(t, "expired")
  /\ IF refreshing THEN Return(t) ELSE Goto(t, "set_guard")
  /\ UNCHANGED <<issued, session, own, auth, refreshing, undefined>>

SetGuard(t) ==
  /\ At(t, "set_guard")
  /\ refreshing' = TRUE
  /\ Goto(t, "callback")
  /\ UNCHANGED <<issued, session, own, auth, undefined>>

\* Mutant: a refresh that failed leaves the guard up.
ClearGuardOnSuccess(t) ==
  /\ At(t, "cb_failed") \/ At(t, "cb_done")
  /\ refreshing' = (call[t].pc # "cb_done")
  /\ IF call[t].pc = "cb_done" THEN call' = [call EXCEPT ![t] = [pc |-> "again", attempt |-> 2]]
     ELSE Return(t)
  /\ UNCHANGED <<issued, session, own, auth, undefined>>

ClearGuard(t) ==
  /\ At(t, "cb_failed") \/ At(t, "cb_done")
  /\ refreshing' = FALSE
  /\ IF call[t].pc = "cb_done" THEN call' = [call EXCEPT ![t] = [pc |-> "again", attempt |-> 2]]
     ELSE Return(t)
  /\ UNCHANGED <<issued, session, own, auth, undefined>>

Again(t) ==
  /\ At(t, "again")
  /\ Goto(t, IF auth = NoToken THEN "sent_bare" ELSE "sent")
  /\ UNCHANGED <<issued, session, own, auth, refreshing, undefined>>

-----------------------------------------------------------------------------
\* Mutant: after a failure the access token is not put back.
RefreshFailsSwapped == UNCHANGED <<issued, session, own>>

\* wf_session_refresh: the refresh token is on the session's client while the
\* request is out.  Refused, the session is dropped; failed, unreadable or
\* for another account, the access token is put back; else the tokens of the
\* answer are taken, which may be those the session has.
RefreshRefused == Cleared /\ UNCHANGED issued
RefreshFails   == own' \in Header(Access) /\ UNCHANGED <<issued, session>>
RefreshTaken   == \/ CanIssue /\ Issue(session.did, issued + 1)
                  \/ Issue(session.did, session.n)

\* wf_agent_refresh_cb
Callback(t) ==
  /\ At(t, "callback") /\ Free
  /\ IF HasSession THEN own' \in Header(Refresh) /\ Goto(t, "cb_refresh")
     ELSE UNCHANGED own /\ Goto(t, "cb_failed")
  /\ UNCHANGED <<issued, session, auth, refreshing, undefined>>

CallbackReply(t) ==
  /\ At(t, "cb_refresh")
  /\ \/ (RefreshRefused \/ RefreshFails) /\ Goto(t, "cb_failed")
     \/ RefreshTaken /\ Goto(t, "install")
  /\ UNCHANGED <<auth, refreshing, undefined>>

\* Mutant: the new access token stays with the session.
InstallForgotten(t) ==
  /\ At(t, "install")
  /\ Goto(t, "cb_done")
  /\ UNCHANGED <<issued, session, own, auth, refreshing, undefined>>

Install(t) ==
  /\ At(t, "install")
  /\ auth' \in Header(Access)
  /\ Goto(t, "cb_done")
  /\ UNCHANGED <<issued, session, own, refreshing, undefined>>

-----------------------------------------------------------------------------
\* The calls that set a session up or end it.

\* wf_agent_login, wf_agent_login_discovered and wf_session_login_with_opts
Login(t) ==
  /\ At(t, "idle") /\ Free
  /\ auth' = NoToken
  /\ Cleared
  /\ Goto(t, "login")
  /\ UNCHANGED <<issued, refreshing, undefined>>

LoginReply(t) ==
  /\ At(t, "login")
  /\ \/ \E a \in Accounts : CanIssue /\ Issue(a, issued + 1) /\ Goto(t, "sync")
     \/ UNCHANGED <<issued, session, own>> /\ Return(t)
  /\ UNCHANGED <<auth, refreshing, undefined>>

\* wf_agent_resume and wf_session_resume, with tokens saved earlier.
Resume(t, a, n) ==
  /\ At(t, "idle") /\ Free
  /\ n \in 1..issued
  /\ session' = [kind |-> "tokens", did |-> a, n |-> n]
  /\ own' \in Header(Token("refresh", a, n))
  /\ Goto(t, "resume")
  /\ UNCHANGED <<issued, auth, refreshing, undefined>>

ResumeReply(t) ==
  /\ At(t, "resume")
  /\ RefreshRefused \/ RefreshFails \/ RefreshTaken
  /\ Goto(t, "sync")
  /\ UNCHANGED <<auth, refreshing, undefined>>

\* wf_agent_logout and wf_session_delete: the answer does not matter.
Logout(t) ==
  /\ At(t, "idle") /\ Free /\ HasSession
  /\ own' \in Header(Refresh)
  /\ Goto(t, "logout")
  /\ UNCHANGED <<issued, session, auth, refreshing, undefined>>

LogoutReply(t) ==
  /\ At(t, "logout")
  /\ Cleared
  /\ Goto(t, "sync")
  /\ UNCHANGED <<issued, auth, refreshing, undefined>>

\* wf_agent_get_session and wf_session_get, which leave the tokens alone; so
\* do a logout without a session and a resume without memory.
Get(t) ==
  /\ At(t, "idle") /\ Free
  /\ Goto(t, "sync")
  /\ UNCHANGED <<issued, session, own, auth, refreshing, undefined>>

\* wf_agent_set_bearer, which may run out of memory.
SetBearer(t, a) ==
  /\ At(t, "idle") /\ Free /\ CanIssue
  /\ \/ /\ session' = [kind |-> "bearer", did |-> a, n |-> issued + 1]
        /\ issued' = issued + 1
     \/ session' = NoSession /\ UNCHANGED issued
  /\ Goto(t, "bearer")
  /\ UNCHANGED <<own, auth, refreshing, undefined>>

\* wf_agent_sync_auth, and the last step of wf_agent_set_bearer.
SyncAuth(t) ==
  /\ At(t, "sync") \/ At(t, "bearer")
  /\ auth' \in Header(Access)
  /\ Return(t)
  /\ UNCHANGED <<issued, session, own, refreshing, undefined>>

\* A thread enters the session's code while another is inside.
Race(t) ==
  /\ At(t, "idle") \/ At(t, "callback")
  /\ ~Free
  /\ undefined' = TRUE
  /\ UNCHANGED <<issued, session, own, auth, refreshing, call>>

-----------------------------------------------------------------------------
Transport(t) == \/ Answer(t) \/ Expired(t) \/ ReadGuard(t) \/ SetGuard(t)
                \/ ClearGuard(t) \/ Again(t)
Renewal(t)   == Callback(t) \/ CallbackReply(t) \/ Install(t)
Start(t)     == \/ Request(t) \/ Login(t) \/ Logout(t) \/ Get(t)
                \/ \E a \in Accounts : SetBearer(t, a) \/ \E n \in 1..MaxIssued : Resume(t, a, n)
Finish(t)    == LoginReply(t) \/ ResumeReply(t) \/ LogoutReply(t) \/ SyncAuth(t)

Next == \E t \in Threads : Transport(t) \/ Renewal(t) \/ Start(t) \/ Finish(t) \/ Race(t)

\* A thread that can run does; a request ends, by an answer or a timeout.
Fairness == \A t \in Threads : WF_vars(Transport(t) \/ Renewal(t) \/ Finish(t) \/ Race(t))

Spec == Init /\ [][Next]_vars /\ Fairness

-----------------------------------------------------------------------------
Tokens   == {NoToken} \cup [kind : {"access", "refresh"}, did : Accounts, n : Nat]
Sessions == {NoSession} \cup [kind : {"tokens", "bearer"}, did : Accounts, n : Nat]
Steps    == {"idle", "sent", "sent_bare", "expired", "set_guard", "callback", "cb_failed",
             "cb_done", "again"} \cup SessionCode

TypeOK ==
  /\ issued \in Nat
  /\ session \in Sessions
  /\ own \in Tokens
  /\ auth \in Tokens
  /\ refreshing \in BOOLEAN
  /\ undefined \in BOOLEAN
  /\ call \in [Threads -> [pc : Steps, attempt : {1, 2}]]

\* Whatever a refresh or a logout met, the session's client is not left with
\* the refresh token: when no thread is in the session's code, its credential
\* is an access token or none (wf_session_refresh, wf_session_delete).
RefreshTokenPutAway == Free => own.kind # "refresh"

\* When no thread is in the session's code and there is a session, requests
\* of the agent carry its access token, or none for want of memory, but never
\* an older one or that of another account (wf_agent_refresh_cb, wf_agent_sync_auth).
AgentFollows == Free /\ HasSession => auth \in Header(Access)

\* The guard is only up while a thread refreshes: no way out of the callback
\* leaves it up, which would end all refreshing (wf_xrpc_request).
GuardOwned ==
  refreshing => \E t \in Threads :
                  call[t].pc \in {"callback", "cb_refresh", "install", "cb_failed", "cb_done"}

\* Every call comes back, also when each attempt is rejected and each refresh
\* succeeds: there is one retry.
CallsReturn == \A t \in Threads : call[t].pc # "idle" ~> (call[t].pc = "idle" \/ undefined)
=============================================================================
