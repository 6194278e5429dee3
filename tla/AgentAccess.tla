------------------------------ MODULE AgentAccess ------------------------------
(***************************************************************************)
(* How an agent is let in (agent_session_service.py, http_auth.py,         *)
(* mcp_tools_auth.py, openclaw/gateway_sessions.py): a token of the agent  *)
(* opens logins; a request with a login is let in by reads and one write   *)
(* that are transactions of their own; a connection that has shown a token *)
(* is remembered by the process.  Either is given the gateway session of   *)
(* its route, which is replaced every day and when it has been idle.       *)
(***************************************************************************)
EXTENDS Integers

CONSTANTS
    Tokens,
    Logins,         \* agent_sessions that can be opened
    Requests,       \* requests of a login that can be under way
    Connections,    \* MCP connections
    Lifetime,       \* ticks after which a login has expired
    Day, ResetHour, \* ticks of a day; daily_reset_hour_local
    IdleLimit,      \* idle_reset_minutes in ticks, 0 for none
    MaxTime         \* bound: ticks of the clock

ASSUME AccessAssumption ==
    /\ Lifetime \in Nat \ {0} /\ Day \in Nat \ {0} /\ ResetHour \in 0 .. Day - 1
    /\ IdleLimit \in Nat /\ MaxTime \in Nat

VARIABLES
    token,      \* agent_tokens: the status of each
    login,      \* agent_sessions
    request,    \* how far each request has come in resolve_agent_session
    principal,  \* SessionAuthRegistry: the token each connection has shown
    gateway,    \* GatewaySessionService: the record of each route
    now,
    revoked     \* logins that have been revoked

accessVars == <<token, login, request, principal, gateway, now, revoked>>

NoToken == "none"
NoRecord == [created |-> -1, active |-> -1]
Routes == Logins \cup Connections
Idling == [step |-> "idle", login |-> NoToken, barred |-> FALSE]

AccessTypeOK ==
    /\ token \in [Tokens -> {"unknown", "active", "disabled"}]
    /\ \A l \in Logins :
          /\ login[l].status \in {"none", "active", "revoked"}
          /\ login[l].token \in Tokens \cup {NoToken}
          /\ login[l].created \in 0 .. MaxTime
    /\ \A r \in Requests :
          /\ request[r].step \in {"idle", "touch", "token", "route", "inside"}
          /\ request[r].login \in Logins \cup {NoToken}
    /\ principal \in [Connections -> Tokens \cup {NoToken}]
    /\ \A x \in Routes : gateway[x].created <= gateway[x].active
    /\ now \in 0 .. MaxTime
    /\ revoked \subseteq Logins

AccessInit ==
    /\ token = [t \in Tokens |-> "unknown"]
    /\ login = [l \in Logins |-> [status |-> "none", token |-> NoToken, created |-> 0]]
    /\ request = [r \in Requests |-> Idling]
    /\ principal = [c \in Connections |-> NoToken]
    /\ gateway = [x \in Routes |-> NoRecord]
    /\ now = 0
    /\ revoked = {}

-----------------------------------------------------------------------------
(* The gateway.                                                            *)

\* The boundary of today, whatever the hour.
BoundaryToday(time) == (time \div Day) * Day + ResetHour

\* _requires_daily_reset: the boundary of today, or of yesterday before that hour.
Boundary(time) ==
    LET today == (time \div Day) * Day + ResetHour
    IN IF time < today THEN today - Day ELSE today

\* resolve: a record older than the boundary, or idle too long, is replaced; any
\* other is marked active.
Resolved(route) ==
    LET old == gateway[route]
        fresh == [created |-> now, active |-> now]
    IN CASE old = NoRecord -> fresh
         [] old.created < Boundary(now) /\ Boundary(now) <= now -> fresh
         [] IdleLimit > 0 /\ now - old.active >= IdleLimit -> fresh
         [] OTHER -> [old EXCEPT !.active = now]

Route(route) == gateway' = [gateway EXCEPT ![route] = Resolved(route)]

-----------------------------------------------------------------------------
(* The administrator, and time.                                            *)

IssueToken(t) ==
    /\ token[t] = "unknown"
    /\ token' = [token EXCEPT ![t] = "active"]
    /\ UNCHANGED <<login, request, principal, gateway, now, revoked>>

DisableToken(t) ==
    /\ token[t] # "unknown"
    /\ token' = [token EXCEPT ![t] = "disabled"]
    /\ UNCHANGED <<login, request, principal, gateway, now, revoked>>

Tick ==
    /\ now < MaxTime
    /\ now' = now + 1
    /\ UNCHANGED <<token, login, request, principal, gateway, revoked>>

-----------------------------------------------------------------------------
(* Logins and their requests.                                              *)

\* create_agent_session
LoginRow(t) == [status |-> "active", token |-> t, created |-> now]

\* create_session: authenticate, then a row with a random hash and its route.
OpenLogin(l, t) ==
    /\ login[l].status = "none" /\ token[t] = "active"
    /\ login' = [login EXCEPT ![l] = LoginRow(t)]
    /\ Route(l)
    /\ UNCHANGED <<token, request, principal, now, revoked>>

\* _require_active_session
Usable(l) == login[l].status = "active" /\ now < login[l].created + Lifetime

\* What should keep a request out, on the day it comes.
Barred(l) ==
    l \in revoked \/ now >= login[l].created + Lifetime \/ token[login[l].token] = "disabled"

At(r, step) == IF step = "idle" THEN [request EXCEPT ![r] = Idling]
               ELSE [request EXCEPT ![r].step = step]

\* resolve_session: the row must be usable ...
LookUp(r, l) ==
    /\ request[r].step = "idle" /\ login[l].status # "none"
    /\ request' = IF Usable(l)
                  THEN [request EXCEPT ![r] = [step |-> "touch", login |-> l, barred |-> Barred(l)]]
                  ELSE request
    /\ UNCHANGED <<token, login, principal, gateway, now, revoked>>

\* The touch writes the whole row that was looked up.
TouchRow(r) ==
    /\ request[r].step = "touch"
    /\ login' = [login EXCEPT ![request[r].login].status = "active"]
    /\ request' = At(r, "token")
    /\ UNCHANGED <<token, principal, gateway, now, revoked>>

\* ... and still be after it has been touched, which moves its last_seen_at only.
Touch(r) ==
    /\ request[r].step = "touch"
    /\ request' = At(r, IF Usable(request[r].login) THEN "token" ELSE "idle")
    /\ UNCHANGED <<token, login, principal, gateway, now, revoked>>

\* resolve_agent_session: the token the login was opened with is read again.
CheckToken(r) ==
    /\ request[r].step = "token"
    /\ request' = At(r, IF token[login[request[r].login].token] = "active" THEN "route" ELSE "idle")
    /\ UNCHANGED <<token, login, principal, gateway, now, revoked>>

Enter(r) ==
    /\ request[r].step = "route"
    /\ Route(request[r].login)
    /\ request' = At(r, "inside")
    /\ UNCHANGED <<token, login, principal, now, revoked>>

\* revoke_agent_session
Revoked(l) == [login EXCEPT ![l].status = "revoked"]

\* A request ends, DELETE /api/sessions/current by revoking its login.
Leave(r, logout) ==
    LET l == request[r].login
    IN /\ request[r].step = "inside"
       /\ request' = At(r, "idle")
       /\ login' = IF logout THEN Revoked(l) ELSE login
       /\ revoked' = IF logout THEN revoked \cup {l} ELSE revoked
       /\ UNCHANGED <<token, principal, gateway, now>>

-----------------------------------------------------------------------------
(* Connections and the process.                                            *)

\* authenticate_agent_tool
Connect(c, t) ==
    /\ token[t] = "active"
    /\ principal' = [principal EXCEPT ![c] = t]
    /\ Route(c)
    /\ UNCHANGED <<token, login, request, now, revoked>>

\* A tool call of a connection: the principal it has is used as it is.
Call(c) ==
    /\ principal[c] # NoToken
    /\ Route(c)
    /\ UNCHANGED <<token, login, request, principal, now, revoked>>

\* Principals, gateway records and requests are lost; the rows are not.
RestartServer ==
    /\ principal' = [c \in Connections |-> NoToken]
    /\ gateway' = [x \in Routes |-> NoRecord]
    /\ request' = [r \in Requests |-> Idling]
    /\ UNCHANGED <<token, login, now, revoked>>

AccessNext ==
    \/ \E t \in Tokens : IssueToken(t) \/ DisableToken(t)
    \/ \E l \in Logins, t \in Tokens : OpenLogin(l, t)
    \/ \E r \in Requests : \/ \E l \in Logins : LookUp(r, l)
                           \/ Touch(r) \/ CheckToken(r) \/ Enter(r)
                           \/ \E logout \in BOOLEAN : Leave(r, logout)
    \/ \E c \in Connections : Call(c) \/ \E t \in Tokens : Connect(c, t)
    \/ Tick
    \/ RestartServer

AccessSpec == AccessInit /\ [][AccessNext]_accessVars

-----------------------------------------------------------------------------
\* A request that came after its login was revoked or had expired, or after the
\* token of its login was disabled, is never let in, whatever other requests of the
\* login were half-way through.
BarredStayOut == \A r \in Requests : request[r].step = "inside" => ~request[r].barred

\* A gateway session never outlives a daily boundary or an idle period it is used
\* after, and is kept as long as neither comes: the conversation of a route is cut
\* exactly at the resets.
GatewayRotates ==
    [][\A x \in Routes : gateway'[x].active = now /\ gateway'[x] # gateway[x] =>
          LET old == gateway[x]
              boundaryPassed == \E b \in old.created + 1 .. now : b % Day = ResetHour
              wasIdle == IdleLimit > 0 /\ now - old.active >= IdleLimit
          IN gateway'[x].created = now <=> old = NoRecord \/ boundaryPassed \/ wasIdle
      ]_accessVars

=============================================================================
