------------------------------ MODULE Session ------------------------------
(***************************************************************************)
(* Operator sessions: the auth service, the sessions table, and the        *)
(* middleware every request passes.  A request is admitted by two SELECTs, *)
(* of the session by its token and of the user; logging out authenticates  *)
(* the request a second time and then revokes the session by an UPDATE     *)
(* guarded by revoked_at IS NULL.                                          *)
(***************************************************************************)
CONSTANTS
  Tokens,    \* bearer tokens the service issues
  Role,      \* Role[t]: role of the user that logs in with t
  Requests   \* request goroutines

Roles == {"dispatcher", "engineer", "auditor"}

ASSUME SessionAssumption == Role \in [Tokens -> Roles]

VARIABLES
  session,  \* sessions, by token: issued, still within its time, revoked
  req,      \* req[r]: how far request r has come
  farewell  \* history: the requests told that they logged a token out

sessionVars == <<session, req, farewell>>

SessionRow == [issued : BOOLEAN, expired : BOOLEAN, revoked : BOOLEAN]

NoSession == [issued |-> FALSE, expired |-> FALSE, revoked |-> FALSE]

\* The goroutine waits for a request, authenticates it (again, if it logs
\* out), revokes, or serves it.  late: the session was over when it arrived.
ReqPc == {"session", "user", "again", "againuser", "revoke", "serving"}

Req == [pc : ReqPc, token : Tokens, logout : BOOLEAN, late : BOOLEAN]

Waiting == [pc |-> "waiting"]

Valid(t) == session[t].issued /\ ~session[t].revoked /\ ~session[t].expired

SessionInit ==
  /\ session = [t \in Tokens |-> NoSession]
  /\ req = [r \in Requests |-> Waiting]
  /\ farewell = [t \in Tokens |-> {}]

Turn(r, pc) == req' = [req EXCEPT ![r].pc = pc]
Leave(r) == req' = [req EXCEPT ![r] = Waiting]

\* INSERT of a session under a fresh token.
Login(t) ==
  /\ ~session[t].issued
  /\ session' = [session EXCEPT ![t].issued = TRUE]
  /\ UNCHANGED <<req, farewell>>

Lapse(t) ==
  /\ session[t].issued /\ ~session[t].expired
  /\ session' = [session EXCEPT ![t].expired = TRUE]
  /\ UNCHANGED <<req, farewell>>

\* A request with a token that was issued.
Arrive(r, t, logout) ==
  /\ req[r] = Waiting
  /\ session[t].issued
  /\ req' = [req EXCEPT ![r] = [pc |-> "session", token |-> t, logout |-> logout,
                                late |-> ~Valid(t)]]
  /\ UNCHANGED <<session, farewell>>

\* Mutated check: revoked_at is not looked at.
RevokedIgnored(t) == session[t].issued /\ ~session[t].expired

Authentic(t) == Valid(t)

\* GetSessionByTokenHash and the checks of Authenticate on the row.
FindSession(r) ==
  /\ req[r].pc \in {"session", "again"}
  /\ IF Authentic(req[r].token)
     THEN Turn(r, IF req[r].pc = "session" THEN "user" ELSE "againuser")
     ELSE Leave(r)
  /\ UNCHANGED <<session, farewell>>

\* GetUserByID: no user is ever deactivated.
FindUser(r) ==
  /\ req[r].pc \in {"user", "againuser"}
  /\ Turn(r, IF req[r].pc = "againuser" THEN "revoke"
             ELSE IF req[r].logout THEN "again" ELSE "serving")
  /\ UNCHANGED <<session, farewell>>

\* Mutated WHERE clause: WHERE token_hash = ?.
RevokeAny(t) == session[t].issued

RevokeWhere(t) == session[t].issued /\ ~session[t].revoked

\* RevokeSession; only a request whose UPDATE hit a row is told it logged out.
Revoke(r) ==
  /\ req[r].pc = "revoke"
  /\ LET t == req[r].token IN
       /\ session' = IF RevokeWhere(t) THEN [session EXCEPT ![t].revoked = TRUE] ELSE session
       /\ farewell' = IF RevokeWhere(t) THEN [farewell EXCEPT ![t] = @ \union {r}] ELSE farewell
  /\ Leave(r)

\* A statement fails and ends the request.
RequestFails(r) ==
  /\ req[r] # Waiting
  /\ Leave(r)
  /\ UNCHANGED <<session, farewell>>

Serving(r, role) == req[r].pc = "serving" /\ Role[req[r].token] = role

SessionStep(r) ==
  \/ \E t \in Tokens, logout \in BOOLEAN : Arrive(r, t, logout)
  \/ FindSession(r)
  \/ FindUser(r)
  \/ Revoke(r)

SessionClock == \E t \in Tokens : Login(t) \/ Lapse(t)

-----------------------------------------------------------------------------
(* Properties.                                                             *)

SessionTypeOK ==
  /\ session \in [Tokens -> SessionRow]
  /\ req \in [Requests -> Req \union {Waiting}]
  /\ farewell \in [Tokens -> SUBSET Requests]

\* Of several requests that log one session out at the same time at most one
\* is told that it did.
OneFarewell == \A t \in Tokens : \A r, o \in farewell[t] : r = o

\* A request that arrives after its session was revoked or ran out is never
\* served and never logs anybody out, whatever else is going on.
LateIsRefused ==
  \A r \in Requests : req[r] # Waiting /\ req[r].late => req[r].pc = "session"
=============================================================================
