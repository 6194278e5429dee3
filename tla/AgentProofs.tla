------------------------------ MODULE AgentProofs ------------------------------
(***************************************************************************)
(* What is proved of the services an agent works with: that a request      *)
(* which should be kept out when it comes is kept out, for any number of   *)
(* tokens, logins and requests, and that the gateway cuts the conversation *)
(* of a route at the resets and nowhere else (AgentAccess); the memory of  *)
(* a session (SessionMemory); and the memories agents keep                 *)
(* (PersistentMemory).  Each theorem rests on an inductive invariant that  *)
(* says what the requests under way have read, and what still holds of it  *)
(* when they write.                                                        *)
(***************************************************************************)
EXTENDS AgentAccess, SessionMemory, PersistentMemory, FiniteSetTheorems, WellFoundedInduction,
        NaturalsInduction, TLAPS

-----------------------------------------------------------------------------
(* Requests, logins and the gateway.                                       *)

LoginRows == [status : {"none", "active", "revoked"}, token : Tokens \cup {NoToken}, created : Nat]
RequestRows == [step : {"idle", "touch", "token", "route", "inside"},
                login : Logins \cup {NoToken}, barred : BOOLEAN]

RowsTyped ==
    /\ token \in [Tokens -> {"unknown", "active", "disabled"}]
    /\ login \in [Logins -> LoginRows]
    /\ request \in [Requests -> RequestRows]
    /\ now \in Nat

\* A request is one of a login that was opened with a token.
RequestsHaveLogins ==
    /\ \A l \in Logins : login[l].status # "none" => login[l].token \in Tokens
    /\ \A r \in Requests : request[r].step # "idle" =>
          request[r].login \in Logins /\ login[request[r].login].status # "none"

\* A revoked login is never made active again.
RevokedRows == \A l \in revoked : l \in Logins => login[l].status = "revoked"

\* What should keep a request out and did not at the first look is the token; none of
\* these is past the look at the token.
BarredByToken ==
    \A r \in Requests : request[r].barred =>
        \/ request[r].step = "idle"
        \/ /\ request[r].step \in {"touch", "token"}
           /\ token[login[request[r].login].token] = "disabled"

AccessInv == RowsTyped /\ RequestsHaveLogins /\ RevokedRows /\ BarredByToken

-----------------------------------------------------------------------------
LEMMA InvInit == AccessInit => AccessInv
<1> SUFFICES ASSUME AccessInit PROVE AccessInv
  OBVIOUS
<1> USE DEF AccessInit, Idling, NoToken
<1>1. RowsTyped
  BY DEF RowsTyped, LoginRows, RequestRows
<1>2. RequestsHaveLogins /\ RevokedRows /\ BarredByToken
  BY DEF RequestsHaveLogins, RevokedRows, BarredByToken
<1>3. QED
  BY <1>1, <1>2 DEF AccessInv

\* Steps that touch neither tokens nor logins nor requests.
LEMMA NothingMoved ==
  ASSUME AccessInv, UNCHANGED <<token, login, request, revoked>>, now' \in Nat
  PROVE  AccessInv'
BY DEF AccessInv, RowsTyped, RequestsHaveLogins, RevokedRows, BarredByToken

\* A request goes on, or is let go: it may go past the token only if it is not barred.
LEMMA RequestPasses ==
  ASSUME AccessInv, NEW r \in Requests, request[r].step # "idle",
         NEW step \in {"idle", "token", "route", "inside"},
         request' = At(r, step), UNCHANGED <<token, login, now, revoked>>,
         step = "token" => request[r].step = "touch",
         step \in {"route", "inside"} => ~request[r].barred
  PROVE  AccessInv'
<1> USE DEF AccessInv
<1>1. CASE step = "idle"
  <2>1. request' = [request EXCEPT ![r] = Idling]
    BY <1>1 DEF At
  <2>2. Idling \in RequestRows /\ Idling.step = "idle" /\ ~Idling.barred
    BY DEF Idling, RequestRows
  <2>3. QED
    BY <2>1, <2>2 DEF RowsTyped, RequestsHaveLogins, RevokedRows, BarredByToken
<1>2. CASE step # "idle"
  <2>1. request' = [request EXCEPT ![r].step = step]
    BY <1>2 DEF At
  <2>2. RowsTyped'
    BY <2>1 DEF RowsTyped, RequestRows
  <2>3. RequestsHaveLogins' /\ RevokedRows'
    BY <2>1 DEF RowsTyped, RequestRows, RequestsHaveLogins, RevokedRows
  <2>4. BarredByToken'
    BY <1>2, <2>1 DEF RowsTyped, RequestRows, BarredByToken
  <2>5. QED
    BY <2>2, <2>3, <2>4
<1>3. QED
  BY <1>1, <1>2

LEMMA TokensMove ==
  ASSUME AccessInv, NEW t \in Tokens, IssueToken(t) \/ DisableToken(t)
  PROVE  AccessInv'
<1> USE DEF AccessInv, IssueToken, DisableToken
<1>1. RowsTyped'
  BY DEF RowsTyped
<1>2. RequestsHaveLogins' /\ RevokedRows'
  BY DEF RowsTyped, RequestsHaveLogins, RevokedRows
<1>3. \A u \in Tokens : token[u] = "disabled" => token'[u] = "disabled"
  BY DEF RowsTyped
<1>4. BarredByToken'
  BY <1>3 DEF RowsTyped, RequestRows, RequestsHaveLogins, BarredByToken
<1>5. QED
  BY <1>1, <1>2, <1>4

LEMMA LoginOpens ==
  ASSUME AccessInv, NEW l \in Logins, NEW t \in Tokens, OpenLogin(l, t)
  PROVE  AccessInv'
<1> USE DEF AccessInv, OpenLogin
<1>1. LoginRow(t) \in LoginRows /\ LoginRow(t).status = "active" /\ LoginRow(t).token = t
  BY DEF LoginRow, LoginRows, RowsTyped
<1>2. RowsTyped'
  BY <1>1 DEF RowsTyped
<1>3. RequestsHaveLogins'
  BY <1>1 DEF RowsTyped, RequestRows, RequestsHaveLogins
<1>4. RevokedRows'
  BY DEF RowsTyped, RevokedRows
<1>5. BarredByToken'
  BY DEF RowsTyped, RequestRows, RequestsHaveLogins, BarredByToken
<1>6. QED
  BY <1>2, <1>3, <1>4, <1>5

\* At the first look an expired or revoked login lets no request come further.
LEMMA RequestComes ==
  ASSUME AccessInv, NEW r \in Requests, NEW l \in Logins, LookUp(r, l)
  PROVE  AccessInv'
<1> USE DEF AccessInv, LookUp
<1>1. CASE ~Usable(l)
  BY <1>1, NothingMoved DEF RowsTyped
<1>2. CASE Usable(l)
  <2> DEFINE new == [step |-> "touch", login |-> l, barred |-> Barred(l)]
  <2>1. request' = [request EXCEPT ![r] = new]
    BY <1>2
  <2>2. Barred(l) \in BOOLEAN
    BY DEF Barred
  <2>3. Barred(l) => token[login[l].token] = "disabled"
    BY <1>2, AccessAssumption DEF Barred, Usable, RevokedRows, RowsTyped, LoginRows
  <2>4. RowsTyped'
    BY <2>1, <2>2 DEF RowsTyped, RequestRows
  <2>5. RequestsHaveLogins' /\ RevokedRows'
    BY <2>1 DEF RowsTyped, RequestsHaveLogins, RevokedRows
  <2>6. BarredByToken'
    BY <2>1, <2>3 DEF RowsTyped, BarredByToken
  <2>7. QED
    BY <2>4, <2>5, <2>6
<1>3. QED
  BY <1>1, <1>2

\* A request that ends may revoke its login, which no other request relies on.
LEMMA RequestLeaves ==
  ASSUME AccessInv, NEW r \in Requests, NEW logout \in BOOLEAN, Leave(r, logout)
  PROVE  AccessInv'
<1> USE DEF AccessInv, Leave
<1>1. CASE ~logout
  BY <1>1, RequestPasses
<1>2. CASE logout
  <2> DEFINE l == request[r].login
  <2>1. l \in Logins /\ login[l].status # "none"
    BY DEF RequestsHaveLogins
  <2>2. /\ login' = [login EXCEPT ![l].status = "revoked"]
        /\ request' = [request EXCEPT ![r] = Idling]
        /\ revoked' = revoked \cup {l}
    BY <1>2 DEF Revoked, At
  <2>3. Idling \in RequestRows /\ Idling.step = "idle" /\ ~Idling.barred
    BY DEF Idling, RequestRows
  <2>4. \A k \in Logins : login'[k].token = login[k].token
    BY <2>1, <2>2 DEF RowsTyped, LoginRows
  <2>5. RowsTyped'
    BY <2>1, <2>2, <2>3 DEF RowsTyped, LoginRows
  <2>6. \A k \in Logins : login'[k].status # "none" <=> login[k].status # "none"
    BY <2>1, <2>2 DEF RowsTyped, LoginRows
  <2>7. RequestsHaveLogins'
    BY <2>2, <2>3, <2>4, <2>6 DEF RowsTyped, RequestsHaveLogins
  <2>8. RevokedRows'
    BY <2>1, <2>2 DEF RowsTyped, LoginRows, RevokedRows
  <2>9. BarredByToken'
    BY <2>1, <2>2, <2>3, <2>4 DEF RowsTyped, RequestRows, RequestsHaveLogins, BarredByToken
  <2>10. QED
    BY <2>5, <2>7, <2>8, <2>9
<1>3. QED
  BY <1>1, <1>2

LEMMA ServerRestarts ==
  ASSUME AccessInv, RestartServer
  PROVE  AccessInv'
<1> USE DEF AccessInv, RestartServer
<1>1. Idling \in RequestRows /\ Idling.step = "idle" /\ ~Idling.barred
  BY DEF Idling, RequestRows
<1>2. QED
  BY <1>1 DEF RowsTyped, RequestsHaveLogins, RevokedRows, BarredByToken

LEMMA InvStep == AccessInv /\ [AccessNext]_accessVars => AccessInv'
<1> SUFFICES ASSUME AccessInv, [AccessNext]_accessVars PROVE AccessInv'
  OBVIOUS
<1> USE DEF AccessInv
<1>1. CASE UNCHANGED accessVars
  BY <1>1, NothingMoved DEF accessVars, RowsTyped
<1>2. CASE \E t \in Tokens : IssueToken(t) \/ DisableToken(t)
  BY <1>2, TokensMove
<1>3. CASE \E l \in Logins, t \in Tokens : OpenLogin(l, t)
  BY <1>3, LoginOpens
<1>4. ASSUME NEW r \in Requests, NEW l \in Logins, LookUp(r, l) PROVE AccessInv'
  BY <1>4, RequestComes
<1>5. ASSUME NEW r \in Requests, Touch(r) PROVE AccessInv'
  BY <1>5, RequestPasses DEF Touch
<1>6. ASSUME NEW r \in Requests, CheckToken(r) PROVE AccessInv'
  <2>1. token[login[request[r].login].token] = "active" => ~request[r].barred
    BY <1>6 DEF CheckToken, BarredByToken
  <2>2. QED
    BY <1>6, <2>1, RequestPasses DEF CheckToken
<1>7. ASSUME NEW r \in Requests, Enter(r) PROVE AccessInv'
  <2>1. ~request[r].barred
    BY <1>7 DEF Enter, BarredByToken
  <2>2. QED
    BY <1>7, <2>1, RequestPasses DEF Enter
<1>8. ASSUME NEW r \in Requests, NEW logout \in BOOLEAN, Leave(r, logout) PROVE AccessInv'
  BY <1>8, RequestLeaves
<1>9. CASE \E c \in Connections : Call(c) \/ \E t \in Tokens : Connect(c, t)
  BY <1>9, NothingMoved DEF Call, Connect, RowsTyped
<1>10. CASE Tick
  BY <1>10, NothingMoved DEF Tick, RowsTyped
<1>11. CASE RestartServer
  BY <1>11, ServerRestarts
<1>12. QED
  BY <1>1, <1>2, <1>3, <1>4, <1>5, <1>6, <1>7, <1>8, <1>9, <1>10, <1>11 DEF AccessNext

\* A request of a revoked or expired login, or of one whose token was disabled, is not let
\* in, however it interleaves with the other requests, the administrator and restarts of
\* the process (resolve_session and resolve_agent_session).
THEOREM BarredRequestsStayOut == AccessSpec => []BarredStayOut
<1>1. AccessInv => BarredStayOut
  BY DEF AccessInv, BarredByToken, BarredStayOut
<1>2. QED
  BY <1>1, InvInit, InvStep, PTL DEF AccessSpec

-----------------------------------------------------------------------------
(* The gateway.  A record was made and last used at times that have come,    *)
(* and the boundary is the latest moment up to now that is a reset hour.     *)

RecordKept(last) ==
    last = NoRecord \/ /\ last = [created |-> last.created, active |-> last.active]
                       /\ last.created \in Nat /\ last.active \in Nat
                       /\ last.created <= last.active /\ last.active <= now

GatewayInv ==
    /\ now \in Nat
    /\ gateway = [x \in Routes |-> gateway[x]]
    /\ \A x \in Routes : RecordKept(gateway[x])

LEMMA EarlierDay ==
  ASSUME NEW k \in Int, NEW q \in Int, NEW d \in Nat \ {0}, k < q
  PROVE  k * d + d <= q * d
OBVIOUS

LEMMA Division ==
  ASSUME NEW n \in Nat, NEW d \in Nat \ {0}
  PROVE  /\ n \div d \in Nat /\ n % d \in 0 .. d - 1
         /\ n = (n \div d) * d + (n % d)
OBVIOUS

LEMMA Remainder ==
  ASSUME NEW q \in Nat, NEW d \in Nat \ {0}, NEW h \in 0 .. d - 1
  PROVE  (q * d + h) % d = h
OBVIOUS

\* The boundary has come, and every reset hour that has come is not after it.
LEMMA BoundaryIsLatest ==
  ASSUME NEW time \in Nat
  PROVE  /\ Boundary(time) \in Int /\ Boundary(time) <= time
         /\ Boundary(time) \in Nat => Boundary(time) % Day = ResetHour
         /\ \A b \in 0 .. time : b % Day = ResetHour => b <= Boundary(time)
<1> DEFINE q == time \div Day
           today == q * Day + ResetHour
<1>1. Day \in Nat \ {0} /\ ResetHour \in 0 .. Day - 1
  BY AccessAssumption
<1>2. q \in Nat /\ time % Day \in 0 .. Day - 1 /\ time = q * Day + (time % Day)
  BY <1>1, Division
<1>3. Boundary(time) = IF time < today THEN today - Day ELSE today
  BY DEF Boundary
<1>4. q * Day \in Nat
  BY <1>1, <1>2
<1>5. (q - 1) * Day = q * Day - Day
  BY <1>1, <1>2
<1>6. today % Day = ResetHour
  BY <1>1, <1>2, Remainder
<1>7. ASSUME today - Day \in Nat PROVE (today - Day) % Day = ResetHour
  <2>1. q - 1 \in Nat
    BY <1>1, <1>2, <1>4, <1>7
  <2>2. today - Day = (q - 1) * Day + ResetHour
    BY <1>1, <1>4, <1>5
  <2>3. QED
    BY <1>1, <2>1, <2>2, Remainder
<1>8. ASSUME NEW b \in 0 .. time, b % Day = ResetHour PROVE b <= Boundary(time)
  <2> DEFINE k == b \div Day
  <2>1. k \in Nat /\ b = k * Day + ResetHour
    BY <1>1, <1>8, Division
  <2>2. k * Day \in Nat
    BY <1>1, <2>1
  <2>3. ~ (q < k)
    <3>1. q < k => q * Day + Day <= k * Day
      BY <1>1, <1>2, <2>1, EarlierDay
    <3> HIDE DEF q, k
    <3>2. QED
      BY <1>1, <1>2, <1>4, <2>1, <2>2, <3>1
  <2>4. k < q => k * Day + Day <= q * Day
    BY <1>1, <1>2, <2>1, EarlierDay
  <2>5. k = q \/ k < q
    BY <1>2, <2>1, <2>3
  <2> HIDE DEF q, k
  <2>6. QED
    BY <1>1, <1>2, <1>3, <1>4, <2>1, <2>2, <2>4, <2>5
<1>9. Boundary(time) \in Int /\ Boundary(time) <= time
  <2> HIDE DEF q
  <2>1. QED
    BY <1>1, <1>2, <1>3, <1>4
<1>10. Boundary(time) \in Nat => Boundary(time) % Day = ResetHour
  BY <1>3, <1>6, <1>7
<1>11. QED
  BY <1>8, <1>9, <1>10

\* The record of a route after it has been used is of this moment, or the old one if no
\* reset has come since it was made.
LEMMA UseOfRecord ==
  ASSUME GatewayInv, NEW x \in Routes
  PROVE  LET old == gateway[x]
             new == Resolved(x)
             passed == \E b \in old.created + 1 .. now : b % Day = ResetHour
             wasIdle == IdleLimit > 0 /\ now - old.active >= IdleLimit
         IN /\ new.active = now /\ new.created \in 0 .. now
            /\ new = [created |-> new.created, active |-> new.active]
            /\ old = NoRecord \/ passed \/ wasIdle => new.created = now
            /\ ~ (old = NoRecord \/ passed \/ wasIdle) =>
                  /\ new = [created |-> old.created, active |-> now]
                  /\ old.created <= old.active /\ old.active <= now
<1> DEFINE old == gateway[x]
           fresh == [created |-> now, active |-> now]
           passed == \E b \in old.created + 1 .. now : b % Day = ResetHour
           due == old.created < Boundary(now) /\ Boundary(now) <= now
           wasIdle == IdleLimit > 0 /\ now - old.active >= IdleLimit
<1>1. now \in Nat /\ RecordKept(old)
  BY DEF GatewayInv
<1>2. Resolved(x) = CASE old = NoRecord -> fresh
                      [] due -> fresh
                      [] wasIdle -> fresh
                      [] OTHER -> [old EXCEPT !.active = now]
  BY DEF Resolved
<1>3. CASE old = NoRecord
  <2>1. Resolved(x) = fresh
    BY <1>2, <1>3
  <2>2. QED
    BY <1>1, <1>3, <2>1
<1>4. CASE old # NoRecord
  <2>1. /\ old = [created |-> old.created, active |-> old.active]
        /\ old.created \in Nat /\ old.active \in Nat
        /\ old.created <= old.active /\ old.active <= now
    BY <1>1, <1>4 DEF RecordKept
  <2>2. due <=> passed
    <3>1. ASSUME due PROVE passed
      <4>1. Boundary(now) \in Nat
        BY <1>1, <2>1, <3>1, BoundaryIsLatest
      <4>2. Boundary(now) \in old.created + 1 .. now
        BY <1>1, <2>1, <3>1, <4>1
      <4>3. QED
        BY <1>1, <4>1, <4>2, BoundaryIsLatest
    <3>2. ASSUME NEW b \in old.created + 1 .. now, b % Day = ResetHour PROVE due
      <4>1. b \in 0 .. now
        BY <1>1, <2>1, <3>2
      <4>2. b <= Boundary(now) /\ Boundary(now) <= now /\ Boundary(now) \in Int
        BY <1>1, <3>2, <4>1, BoundaryIsLatest
      <4>3. QED
        BY <2>1, <4>1, <4>2
    <3>3. QED
      BY <3>1, <3>2
  <2> HIDE DEF due, passed, wasIdle
  <2>3. CASE due \/ wasIdle
    <3>1. Resolved(x) = fresh
      BY <1>2, <1>4, <2>3
    <3> USE DEF passed, wasIdle
    <3>2. QED
      BY <1>1, <2>2, <2>3, <3>1
  <2>4. CASE ~ due /\ ~ wasIdle
    <3>1. Resolved(x) = [created |-> old.created, active |-> now]
      BY <1>2, <1>4, <2>1, <2>4
    <3>2. old # NoRecord /\ ~ passed /\ ~ wasIdle
      BY <1>4, <2>2, <2>4
    <3>3. old.created \in 0 .. now
      BY <1>1, <2>1
    <3>4. QED
      BY <2>1, <3>1, <3>2, <3>3 DEF passed, wasIdle
  <2>5. QED
    BY <2>3, <2>4
<1>5. QED
  BY <1>3, <1>4

LEMMA GatewayStarts == AccessInit => GatewayInv
BY DEF AccessInit, GatewayInv, RecordKept

LEMMA UsedRecordIsKept ==
  ASSUME GatewayInv, NEW x \in Routes, Route(x), now' = now
  PROVE  GatewayInv'
<1>1. /\ Resolved(x).active = now /\ Resolved(x).created \in 0 .. now
      /\ Resolved(x) = [created |-> Resolved(x).created, active |-> Resolved(x).active]
  BY UseOfRecord
<1>2. now \in Nat
  BY DEF GatewayInv
<1>3. RecordKept(Resolved(x))
  BY <1>1, <1>2 DEF RecordKept
<1>4. gateway' = [gateway EXCEPT ![x] = Resolved(x)]
  BY DEF Route
<1> DEFINE new == Resolved(x)
<1> HIDE DEF new
<1>5. QED
  BY <1>2, <1>3, <1>4 DEF GatewayInv, RecordKept

LEMMA TimeKeepsRecords ==
  ASSUME GatewayInv, gateway' = gateway, now' \in Nat, now <= now'
  PROVE  GatewayInv'
BY DEF GatewayInv, RecordKept

\* The records change when the route of a request or a connection is used, and when the
\* process starts again.
LEMMA RecordsChange ==
  ASSUME RequestsHaveLogins, [AccessNext]_accessVars
  PROVE  \/ gateway' = gateway /\ (now' = now \/ now' = now + 1)
         \/ RestartServer
         \/ now' = now /\ \E x \in Routes : Route(x)
<1>1. CASE UNCHANGED accessVars
  BY <1>1 DEF accessVars
<1>2. CASE \E t \in Tokens : IssueToken(t) \/ DisableToken(t)
  BY <1>2 DEF IssueToken, DisableToken
<1>3. ASSUME NEW l \in Logins, NEW t \in Tokens, OpenLogin(l, t)
      PROVE  now' = now /\ \E x \in Routes : Route(x)
  BY <1>3 DEF OpenLogin, Routes
<1>4. ASSUME NEW r \in Requests, NEW l \in Logins, LookUp(r, l) PROVE gateway' = gateway /\ now' = now
  BY <1>4 DEF LookUp
<1>5. ASSUME NEW r \in Requests, Touch(r) \/ CheckToken(r) PROVE gateway' = gateway /\ now' = now
  BY <1>5 DEF Touch, CheckToken
<1>6. ASSUME NEW r \in Requests, Enter(r) PROVE now' = now /\ \E x \in Routes : Route(x)
  BY <1>6 DEF Enter, Routes, RequestsHaveLogins
<1>7. ASSUME NEW r \in Requests, NEW logout \in BOOLEAN, Leave(r, logout)
      PROVE  gateway' = gateway /\ now' = now
  BY <1>7 DEF Leave
<1>8. CASE \E c \in Connections : Call(c) \/ \E t \in Tokens : Connect(c, t)
  BY <1>8 DEF Call, Connect, Routes
<1>9. CASE Tick
  BY <1>9 DEF Tick
<1>10. QED
  BY <1>1, <1>2, <1>3, <1>4, <1>5, <1>6, <1>7, <1>8, <1>9 DEF AccessNext

LEMMA GatewayKeeps ==
  RequestsHaveLogins /\ GatewayInv /\ [AccessNext]_accessVars => GatewayInv'
<1> SUFFICES ASSUME RequestsHaveLogins, GatewayInv, [AccessNext]_accessVars PROVE GatewayInv'
  OBVIOUS
<1>1. now \in Nat
  BY DEF GatewayInv
<1>2. CASE gateway' = gateway /\ (now' = now \/ now' = now + 1)
  BY <1>1, <1>2, TimeKeepsRecords
<1>3. CASE RestartServer
  BY <1>3 DEF RestartServer, GatewayInv, RecordKept
<1>4. CASE now' = now /\ \E x \in Routes : Route(x)
  BY <1>4, UsedRecordIsKept
<1>5. QED
  BY <1>2, <1>3, <1>4, RecordsChange

\* Whatever the hour of the reset, the length of the day and the limit of idleness, the record
\* of a route is made anew exactly when a reset hour has come since it was made, or it was
\* idle for too long, and is the same one otherwise (gateway_sessions.py).
THEOREM GatewayRotatesAtResets == AccessSpec => GatewayRotates
<1> DEFINE Cut(x) ==
      LET old == gateway[x]
          boundaryPassed == \E b \in old.created + 1 .. now : b % Day = ResetHour
          wasIdle == IdleLimit > 0 /\ now - old.active >= IdleLimit
      IN gateway'[x].created = now <=> old = NoRecord \/ boundaryPassed \/ wasIdle
    Cuts == \A x \in Routes : gateway'[x].active = now /\ gateway'[x] # gateway[x] => Cut(x)
<1>1. ASSUME RequestsHaveLogins, GatewayInv, [AccessNext]_accessVars PROVE [Cuts]_accessVars
  <2> SUFFICES ASSUME AccessNext, NEW x \in Routes,
                      gateway'[x].active = now, gateway'[x] # gateway[x]
               PROVE  Cut(x)
    BY <1>1
  <2>1. now \in Nat
    BY <1>1 DEF GatewayInv
  <2>2. gateway'[x] = Resolved(x)
    <3>1. RestartServer => gateway'[x].active = -1
      BY DEF RestartServer, NoRecord
    <3>2. ~ RestartServer
      BY <2>1, <3>1
    <3>3. \E y \in Routes : Route(y)
      BY <1>1, <3>2, RecordsChange
    <3>4. QED
      BY <1>1, <3>3 DEF Route, GatewayInv
  <2> DEFINE old == gateway[x]
             new == Resolved(x)
             reset == \/ old = NoRecord
                      \/ \E b \in old.created + 1 .. now : b % Day = ResetHour
                      \/ IdleLimit > 0 /\ now - old.active >= IdleLimit
  <2>3. /\ reset => new.created = now
        /\ ~ reset => /\ new = [created |-> old.created, active |-> now]
                      /\ old.created <= old.active /\ old.active <= now
    BY <1>1, UseOfRecord
  <2>4. ASSUME ~ reset PROVE new.created # now
    <3>1. /\ old = [created |-> old.created, active |-> old.active]
          /\ old.created \in Nat /\ old.active \in Nat
      BY <1>1, <2>4 DEF GatewayInv, RecordKept
    <3>2. new # old
      BY <2>2
    <3> HIDE DEF old, new, reset
    <3>3. QED
      BY <2>1, <2>3, <2>4, <3>1, <3>2
  <2>5. new.created = now <=> reset
    BY <2>3, <2>4
  <2>6. QED
    BY <2>2, <2>5
<1>2. RequestsHaveLogins /\ GatewayInv /\ [AccessNext]_accessVars => [Cuts]_accessVars
  BY <1>1
<1>3. AccessInv => RequestsHaveLogins
  BY DEF AccessInv
<1>4. QED
  BY InvInit, InvStep, GatewayStarts, GatewayKeeps, <1>2, <1>3, PTL DEF AccessSpec, GatewayRotates

-----------------------------------------------------------------------------
(* The types: what is left of them is the clock, the logins that were        *)
(* revoked and the principals of the connections.                            *)

AccessTyped ==
    /\ now \in 0 .. MaxTime
    /\ \A l \in Logins : login[l].created \in 0 .. MaxTime
    /\ revoked \subseteq Logins
    /\ principal \in [Connections -> Tokens \cup {NoToken}]

LEMMA AccessTypesKeep ==
  ASSUME AccessInv, AccessTyped, [AccessNext]_accessVars
  PROVE  AccessTyped'
<1> USE DEF AccessInv, AccessTyped
<1>1. CASE UNCHANGED accessVars
  BY <1>1 DEF accessVars
<1>2. CASE \E t \in Tokens : IssueToken(t) \/ DisableToken(t)
  BY <1>2 DEF IssueToken, DisableToken
<1>3. ASSUME NEW l \in Logins, NEW t \in Tokens, OpenLogin(l, t) PROVE AccessTyped'
  <2>1. login' = [login EXCEPT ![l] = LoginRow(t)] /\ LoginRow(t).created = now
    BY <1>3 DEF OpenLogin, LoginRow
  <2>2. QED
    BY <1>3, <2>1 DEF OpenLogin, RowsTyped
<1>4. ASSUME NEW r \in Requests, \/ \E l \in Logins : LookUp(r, l)
                                 \/ Touch(r) \/ CheckToken(r) \/ Enter(r)
      PROVE  AccessTyped'
  BY <1>4 DEF LookUp, Touch, CheckToken, Enter
<1>5. ASSUME NEW r \in Requests, NEW logout \in BOOLEAN, Leave(r, logout) PROVE AccessTyped'
  <2> DEFINE k == request[r].login
  <2>1. k \in Logins
    BY <1>5 DEF Leave, RequestsHaveLogins
  <2>2. login' = login \/ login' = [login EXCEPT ![k].status = "revoked"]
    BY <1>5 DEF Leave, Revoked
  <2>3. revoked' = revoked \/ revoked' = revoked \cup {k}
    BY <1>5 DEF Leave
  <2>4. UNCHANGED <<now, principal>>
    BY <1>5 DEF Leave
  <2>5. \A l \in Logins : login'[l].created = login[l].created
    BY <2>1, <2>2 DEF RowsTyped, LoginRows
  <2> HIDE DEF k
  <2>6. QED
    BY <2>1, <2>3, <2>4, <2>5
<1>6. CASE \E c \in Connections : Call(c) \/ \E t \in Tokens : Connect(c, t)
  BY <1>6 DEF Call, Connect
<1>7. CASE Tick
  BY <1>7, AccessAssumption DEF Tick
<1>8. CASE RestartServer
  BY <1>8 DEF RestartServer
<1>9. QED
  BY <1>1, <1>2, <1>3, <1>4, <1>5, <1>6, <1>7, <1>8 DEF AccessNext

\* Tokens, logins and requests are in the states their code knows, no login was opened and
\* no gateway record made after the present, and a record was not used before it was made.
THEOREM AccessTypesHold == AccessSpec => []AccessTypeOK
<1>1. AccessInit => AccessTyped
  BY AccessAssumption DEF AccessInit, AccessTyped
<1>2. AccessInv /\ AccessTyped /\ GatewayInv => AccessTypeOK
  <2> SUFFICES ASSUME AccessInv, AccessTyped, GatewayInv PROVE AccessTypeOK
    OBVIOUS
  <2>1. \A x \in Routes : gateway[x].created <= gateway[x].active
    BY DEF GatewayInv, RecordKept, NoRecord
  <2>2. \A r \in Requests : /\ request[r].step \in {"idle", "touch", "token", "route", "inside"}
                            /\ request[r].login \in Logins \cup {NoToken}
    BY DEF AccessInv, RowsTyped, RequestRows
  <2>3. \A l \in Logins : /\ login[l].status \in {"none", "active", "revoked"}
                          /\ login[l].token \in Tokens \cup {NoToken}
    BY DEF AccessInv, RowsTyped, LoginRows
  <2>4. QED
    BY <2>1, <2>2, <2>3 DEF AccessInv, AccessTyped, RowsTyped, AccessTypeOK
<1>3. AccessInv /\ AccessTyped /\ [AccessNext]_accessVars => AccessTyped'
  BY AccessTypesKeep
<1>4. AccessInv => RequestsHaveLogins
  BY DEF AccessInv
<1>5. QED
  BY <1>1, <1>2, <1>3, <1>4, InvInit, InvStep, GatewayStarts, GatewayKeeps, PTL DEF AccessSpec

-----------------------------------------------------------------------------
(* The memory of a session.  As long as no two processes hold copies and no  *)
(* two operations overlap, every copy is the row, and the one thread at work *)
(* has read what the operations before it made.                              *)

UnderWay(w) == writer[w] # Resting

\* The row, and every copy of it, is what the operations made.
RowAt(row, made_) == row = {made_} \/ (row = Absent /\ made_ = << >>)

CopiesAgree ==
  /\ \A p \in Servers : copy[p] = Absent \/ copy[p] = stored
  /\ \A p, q \in Servers : copy[p] # Absent /\ copy[q] # Absent => p = q

OneAtWork ==
  /\ \A v, w \in Writers : UnderWay(v) /\ UnderWay(w) => v = w
  /\ \A w \in Writers : UnderWay(w) =>
        /\ writer[w].read = replay
        /\ copy[ServerOf[w]] = stored

MemoryInv ==
  /\ copy = [p \in Servers |-> copy[p]]
  /\ writer = [w \in Writers |-> writer[w]]
  /\ shared \in BOOLEAN /\ crossed \in BOOLEAN
  /\ ~ shared /\ ~ crossed => RowAt(stored, replay) /\ CopiesAgree /\ OneAtWork

LEMMA MemoryStarts == MemoryInit => MemoryInv
BY SessionAssumption DEF MemoryInit, MemoryInv, RowAt, CopiesAgree, OneAtWork, UnderWay

\* What a process finds is what the operations made.
LEMMA FindsLatest ==
  ASSUME MemoryInv, ~ shared, ~ crossed, NEW p \in Servers
  PROVE  Find(p) = replay
<1>1. RowAt(stored, replay) /\ (copy[p] = Absent \/ copy[p] = stored)
  BY DEF MemoryInv, CopiesAgree
<1>2. CASE stored = Absent
  BY <1>1, <1>2 DEF Find, RowAt, Absent
<1>3. CASE stored # Absent
  <2>1. stored = {replay}
    BY <1>1, <1>3 DEF RowAt
  <2>2. Find(p) = CHOOSE s \in stored : TRUE
    BY <1>1, <1>3 DEF Find
  <2>3. QED
    BY <2>1, <2>2
<1>4. QED
  BY <1>2, <1>3

LEMMA OperationBegins ==
  ASSUME MemoryInv, NEW w \in Writers, NEW o, BeginOperation(w, o)
  PROVE  MemoryInv'
<1> DEFINE p == ServerOf[w]
<1>1. p \in Servers
  BY SessionAssumption
<1>2. /\ writer[w] = Resting
      /\ writer' = [writer EXCEPT ![w] = [doing |-> o, read |-> Find(p)]]
      /\ copy' = [copy EXCEPT ![p] = IF copy[p] = Absent THEN stored ELSE copy[p]]
      /\ crossed' = (crossed \/ \E v \in Writers : UnderWay(v))
      /\ shared' = (shared \/ Elsewhere(p))
      /\ UNCHANGED <<stored, replay>>
  BY DEF BeginOperation, Holding, UnderWay
<1> HIDE DEF p
<1>3. /\ copy' = [q \in Servers |-> copy'[q]]
      /\ copy'[p] = IF copy[p] = Absent THEN stored ELSE copy[p]
      /\ \A q \in Servers \ {p} : copy'[q] = copy[q]
  BY <1>1, <1>2 DEF MemoryInv
<1>4. /\ writer' = [v \in Writers |-> writer'[v]]
      /\ writer'[w] = [doing |-> o, read |-> Find(p)]
      /\ \A v \in Writers \ {w} : writer'[v] = writer[v]
  BY <1>2 DEF MemoryInv
<1>5. shared' \in BOOLEAN /\ crossed' \in BOOLEAN
  BY <1>2 DEF MemoryInv
<1>6. ASSUME ~ shared', ~ crossed'
      PROVE  RowAt(stored', replay') /\ CopiesAgree' /\ OneAtWork'
  <2>1. /\ ~ shared /\ ~ crossed
        /\ \A v \in Writers : ~ UnderWay(v)
        /\ \A q \in Servers \ {p} : copy[q] = Absent
    BY <1>2, <1>6 DEF Elsewhere
  <2>2. RowAt(stored, replay) /\ CopiesAgree
    BY <2>1 DEF MemoryInv
  <2>3. CopiesAgree' /\ copy'[p] = stored'
    BY <1>1, <1>2, <1>3, <2>1, <2>2 DEF CopiesAgree
  <2>4. Find(p) = replay
    BY <1>1, <2>1, FindsLatest
  <2>5. OneAtWork'
    BY <1>2, <1>4, <2>1, <2>3, <2>4 DEF OneAtWork, UnderWay, p
  <2>6. QED
    BY <1>2, <2>2, <2>3, <2>5 DEF RowAt
<1>7. QED
  BY <1>3, <1>4, <1>5, <1>6 DEF MemoryInv

LEMMA StoreKeeps ==
  ASSUME MemoryInv, NEW w \in Writers, Store(w)
  PROVE  MemoryInv'
<1> DEFINE p == ServerOf[w]
<1> DEFINE read == writer[w].read
<1> DEFINE o == writer[w].doing
<1>1. p \in Servers
  BY SessionAssumption
<1>2. /\ UnderWay(w)
      /\ IF Forgotten(read, o) THEN UNCHANGED <<stored, copy>>
         ELSE stored' = {Result(read, o)} /\ copy' = [copy EXCEPT ![p] = stored']
      /\ replay' = IF shared \/ crossed THEN << >> ELSE Result(replay, o)
      /\ writer' = [writer EXCEPT ![w] = Resting]
      /\ UNCHANGED <<shared, crossed>>
  BY DEF Store, WriteRow, UnderWay
<1>3. writer' = [v \in Writers |-> writer'[v]] /\ copy' = [q \in Servers |-> copy'[q]]
  BY <1>1, <1>2 DEF MemoryInv
<1>4. ASSUME ~ shared, ~ crossed
      PROVE  RowAt(stored', replay') /\ CopiesAgree' /\ OneAtWork'
  <2>1. /\ RowAt(stored, replay) /\ CopiesAgree /\ OneAtWork
        /\ read = replay /\ copy[p] = stored
    BY <1>2, <1>4 DEF MemoryInv, OneAtWork
  <2>2. \A v \in Writers : ~ UnderWay(v)'
    BY <1>2, <2>1 DEF OneAtWork, UnderWay, MemoryInv
  <2>3. OneAtWork'
    BY <2>2 DEF OneAtWork
  <2>4. CASE Forgotten(read, o)
    <3>1. replay' = replay
      BY <1>2, <1>4, <2>1, <2>4 DEF Result
    <3>2. QED
      BY <1>2, <2>1, <2>3, <2>4, <3>1 DEF RowAt, CopiesAgree
  <2>5. CASE ~ Forgotten(read, o)
    <3>1. stored' = {Result(read, o)} /\ replay' = Result(read, o) /\ copy' = [copy EXCEPT ![p] = stored']
      BY <1>2, <1>4, <2>1, <2>5
    <3> HIDE DEF p, read, o
    <3>2. copy'[p] = stored' /\ \A q \in Servers \ {p} : copy'[q] = copy[q]
      BY <1>1, <3>1 DEF MemoryInv
    <3>3. \A q \in Servers \ {p} : copy'[q] = Absent
      BY <1>1, <2>1, <3>2 DEF CopiesAgree, Absent
    <3>4. QED
      BY <2>3, <3>1, <3>2, <3>3 DEF RowAt, CopiesAgree
  <2>6. QED
    BY <2>4, <2>5
<1>5. QED
  BY <1>2, <1>3, <1>4 DEF MemoryInv

LEMMA ListKeeps ==
  ASSUME MemoryInv, NEW p \in Servers, ListSnapshots(p)
  PROVE  MemoryInv'
<1>1. /\ copy' = [copy EXCEPT ![p] = stored]
      /\ shared' = (shared \/ Elsewhere(p))
      /\ UNCHANGED <<stored, writer, replay, crossed>>
  BY DEF ListSnapshots
<1>2. /\ copy' = [q \in Servers |-> copy'[q]] /\ copy'[p] = stored
      /\ \A q \in Servers \ {p} : copy'[q] = copy[q]
  BY <1>1 DEF MemoryInv
<1>3. ASSUME ~ shared', ~ crossed
      PROVE  RowAt(stored', replay') /\ CopiesAgree' /\ OneAtWork'
  <2>1. ~ shared /\ \A q \in Servers \ {p} : copy[q] = Absent
    BY <1>1, <1>3 DEF Elsewhere
  <2>2. RowAt(stored, replay) /\ CopiesAgree /\ OneAtWork
    BY <1>3, <2>1 DEF MemoryInv
  <2>3. CopiesAgree'
    BY <1>1, <1>2, <2>1 DEF CopiesAgree
  <2>4. \A w \in Writers : ServerOf[w] \in Servers
    BY SessionAssumption
  <2>5. OneAtWork'
    BY <1>1, <1>2, <2>2, <2>4 DEF OneAtWork, UnderWay
  <2>6. QED
    BY <1>1, <2>2, <2>3, <2>5 DEF RowAt
<1>4. shared' \in BOOLEAN /\ crossed' \in BOOLEAN
  BY <1>1 DEF MemoryInv
<1>5. QED
  BY <1>1, <1>2, <1>3, <1>4 DEF MemoryInv

LEMMA RestartKeeps ==
  ASSUME MemoryInv, NEW p \in Servers, RestartProcess(p)
  PROVE  MemoryInv'
<1>1. /\ copy' = [copy EXCEPT ![p] = Absent]
      /\ writer' = [w \in Writers |-> IF ServerOf[w] = p THEN Resting ELSE writer[w]]
      /\ UNCHANGED <<stored, replay, shared, crossed>>
  BY DEF RestartProcess
<1>2. /\ copy' = [q \in Servers |-> copy'[q]] /\ copy'[p] = Absent
      /\ \A q \in Servers \ {p} : copy'[q] = copy[q]
  BY <1>1 DEF MemoryInv
<1>3. /\ writer' = [w \in Writers |-> writer'[w]]
      /\ \A w \in Writers : writer'[w] # Resting => writer'[w] = writer[w] /\ ServerOf[w] # p
  BY <1>1
<1>4. ASSUME ~ shared, ~ crossed
      PROVE  RowAt(stored', replay') /\ CopiesAgree' /\ OneAtWork'
  <2>1. RowAt(stored, replay) /\ CopiesAgree /\ OneAtWork
    BY <1>4 DEF MemoryInv
  <2>2. CopiesAgree'
    BY <1>1, <1>2, <2>1 DEF CopiesAgree
  <2>3. \A w \in Writers : ServerOf[w] \in Servers
    BY SessionAssumption
  <2>4. OneAtWork'
    BY <1>1, <1>2, <1>3, <2>1, <2>3 DEF OneAtWork, UnderWay
  <2>5. QED
    BY <1>1, <2>1, <2>2, <2>4 DEF RowAt
<1>5. QED
  BY <1>1, <1>2, <1>3, <1>4 DEF MemoryInv

LEMMA MemoryKeeps ==
  ASSUME MemoryInv, [MemoryNext]_memoryVars PROVE MemoryInv'
<1>1. CASE UNCHANGED memoryVars
  BY <1>1 DEF memoryVars, MemoryInv, RowAt, CopiesAgree, OneAtWork, UnderWay
<1>2. CASE \E w \in Writers : \E o : BeginOperation(w, o)
  BY <1>2, OperationBegins
<1>3. CASE \E w \in Writers : Store(w)
  BY <1>3, StoreKeeps
<1>4. CASE \E p \in Servers : ListSnapshots(p) \/ RestartProcess(p)
  BY <1>4, ListKeeps, RestartKeeps
<1>5. QED
  BY <1>1, <1>2, <1>3, <1>4 DEF MemoryNext, RecordCreated, RecordOutcomeOf, EnsureSession, ClearSession

\* While one process at a time holds the session and its operations do not overlap, the row
\* is what they make one after the other, across restarts and from one process to the next.
THEOREM SessionsForgetNothing == MemorySpec => []NothingForgotten
<1>1. MemoryInit => MemoryInv
  BY MemoryStarts
<1>2. MemoryInv /\ [MemoryNext]_memoryVars => MemoryInv'
  BY MemoryKeeps
<1>3. MemoryInv => NothingForgotten
  BY DEF MemoryInv, NothingForgotten, RowAt
<1>4. QED
  BY <1>1, <1>2, <1>3, PTL DEF MemorySpec

-----------------------------------------------------------------------------
(* Persistent memories.  A disabled memory stays disabled, since a row is    *)
(* created once, by the one request that promotes it; so what was barred     *)
(* when a request began is still disabled when the request looks at it.      *)

Choosing == {"create", "revise", "pin"}

\* Memories that agent p may be given although those in barred had been disabled.
Holds(p, ids, barred, rows) ==
  /\ ids \subseteq Records /\ barred \subseteq Records /\ ids \cap barred = {}
  /\ \A m \in ids : PromotedBy[m] = p /\ rows[m] # "absent"

RowHolds(i, row, rows) ==
  /\ row = [root |-> row.root, agent |-> row.agent, context |-> row.context]
  /\ row.context = [ids |-> row.context.ids, barred |-> row.context.barred]
  /\ row.root \in 1 .. i
  /\ Holds(row.agent, row.context.ids, row.context.barred, rows)

\* A request that chooses memories, with the tasks and the rows of the memories.
ChooserHolds(self, tasks, rows) ==
  self.does \in Choosing =>
    /\ self = [does |-> self.does, base |-> self.base, agent |-> self.agent, todo |-> self.todo,
               got |-> self.got, barred |-> self.barred]
    /\ self.todo \subseteq Records
    /\ \A m \in self.barred : rows[m] = "disabled"
    /\ Holds(self.agent, self.got, self.barred, rows)
    /\ self.does \in {"revise", "pin"} =>
         self.base \in 1 .. Len(tasks) /\ tasks[self.base].agent = self.agent

\* A request that promotes or disables a memory.
KeeperHolds(self, rows) ==
  /\ self.does = "promote" => self.memory \in Records /\ rows[self.memory] = "absent"
  /\ self.does = "disable" => self.memory \in Records /\ rows[self.memory] # "absent"

OnePromotes ==
  \A a, b \in Askers :
    asker[a].does = "promote" /\ asker[b].does = "promote" /\ asker[a].memory = asker[b].memory => a = b

PersistentInv ==
  /\ record \in [Records -> {"absent", "active", "disabled"}]
  /\ remote \subseteq Records
  /\ \E S : chain \in Seq(S)
  /\ \A i \in 1 .. Len(chain) : RowHolds(i, chain[i], record)
  /\ asker = [a \in Askers |-> asker[a]]
  /\ \A a \in Askers : ChooserHolds(asker[a], chain, record) /\ KeeperHolds(asker[a], record)
  /\ OnePromotes

LEMMA PersistentStarts == PersistentInit => PersistentInv
<1> SUFFICES ASSUME PersistentInit PROVE PersistentInv
  OBVIOUS
<1>1. chain = << >> /\ chain \in Seq({}) /\ Len(chain) = 0
  BY DEF PersistentInit
<1>2. \A a \in Askers : asker[a] = Unasked
  BY DEF PersistentInit
<1>3. ChooserHolds(Unasked, chain, record) /\ KeeperHolds(Unasked, record) /\ Unasked.does # "promote"
  BY DEF Unasked, ChooserHolds, KeeperHolds, Choosing
<1>4. \A i \in 1 .. Len(chain) : RowHolds(i, chain[i], record)
  BY <1>1
<1>5. \E S : chain \in Seq(S)
  BY <1>1
<1>6. OnePromotes
  BY <1>2, <1>3 DEF OnePromotes
<1>7. QED
  BY <1>2, <1>3, <1>4, <1>5, <1>6 DEF PersistentInit, PersistentInv

\* A request goes to another state, alone.
LEMMA AskerMoves ==
  ASSUME PersistentInv, NEW a \in Askers, NEW self,
         asker' = [asker EXCEPT ![a] = self], UNCHANGED <<record, chain, remote>>,
         ChooserHolds(self, chain, record), KeeperHolds(self, record),
         self.does = "promote" =>
           \A b \in Askers \ {a} : asker[b].does = "promote" => asker[b].memory # self.memory
  PROVE  PersistentInv'
<1>1. /\ asker' = [b \in Askers |-> asker'[b]]
      /\ asker'[a] = self /\ \A b \in Askers \ {a} : asker'[b] = asker[b]
  BY DEF PersistentInv
<1>2. \A b \in Askers : ChooserHolds(asker'[b], chain, record) /\ KeeperHolds(asker'[b], record)
  BY <1>1 DEF PersistentInv
<1>3. OnePromotes'
  BY <1>1 DEF PersistentInv, OnePromotes
<1>4. QED
  BY <1>1, <1>2, <1>3 DEF PersistentInv

LEMMA UnaskedHolds ==
  ASSUME NEW tasks, NEW rows
  PROVE  ChooserHolds(Unasked, tasks, rows) /\ KeeperHolds(Unasked, rows) /\ Unasked.does = "nothing"
BY DEF Unasked, ChooserHolds, KeeperHolds, Choosing

LEMMA PromoteKeeps ==
  ASSUME PersistentInv, NEW a \in Askers, NEW m \in Records, Promote(a, m) PROVE PersistentInv'
<1>1. PICK answered \in BOOLEAN :
        asker' = [asker EXCEPT ![a] = [does |-> "promote", memory |-> m, names |-> answered]]
  BY DEF Promote
<1> DEFINE self == [does |-> "promote", memory |-> m, names |-> answered]
<1>2. /\ record[m] = "absent" /\ UNCHANGED <<record, chain>> /\ remote' \subseteq Records
      /\ \A b \in Askers : asker[b].does = "promote" => asker[b].memory # m
  BY DEF Promote, PersistentInv
<1>3. self.does = "promote" /\ self.memory = m /\ asker' = [asker EXCEPT ![a] = self]
  BY <1>1
<1> HIDE DEF self
<1>4. ChooserHolds(self, chain, record) /\ KeeperHolds(self, record)
  BY <1>2, <1>3 DEF ChooserHolds, KeeperHolds, Choosing
<1>5. /\ asker' = [b \in Askers |-> asker'[b]]
      /\ asker'[a] = self /\ \A b \in Askers \ {a} : asker'[b] = asker[b]
  BY <1>3 DEF PersistentInv
<1>6. \A b \in Askers : ChooserHolds(asker'[b], chain, record) /\ KeeperHolds(asker'[b], record)
  BY <1>4, <1>5 DEF PersistentInv
<1>7. OnePromotes'
  BY <1>2, <1>3, <1>5 DEF PersistentInv, OnePromotes
<1>8. QED
  BY <1>2, <1>5, <1>6, <1>7 DEF PersistentInv

LEMMA DeleteRemoteKeeps ==
  ASSUME PersistentInv, NEW a \in Askers, NEW p \in People, NEW m \in Records, DeleteRemote(a, p, m)
  PROVE  PersistentInv'
<1> DEFINE self == [does |-> "disable", memory |-> m]
<1>1. /\ record[m] = "active" /\ UNCHANGED <<record, chain>> /\ remote' \subseteq Records
      /\ asker' = [asker EXCEPT ![a] = self]
  BY DEF DeleteRemote, PersistentInv, ActiveOf
<1>2. self.does = "disable" /\ self.memory = m
  OBVIOUS
<1> HIDE DEF self
<1>3. ChooserHolds(self, chain, record) /\ KeeperHolds(self, record)
  BY <1>1, <1>2 DEF ChooserHolds, KeeperHolds, Choosing
<1>4. /\ asker' = [b \in Askers |-> asker'[b]]
      /\ asker'[a] = self /\ \A b \in Askers \ {a} : asker'[b] = asker[b]
  BY <1>1 DEF PersistentInv
<1>5. \A b \in Askers : ChooserHolds(asker'[b], chain, record) /\ KeeperHolds(asker'[b], record)
  BY <1>3, <1>4 DEF PersistentInv
<1>6. OnePromotes'
  BY <1>2, <1>4 DEF PersistentInv, OnePromotes
<1>7. QED
  BY <1>1, <1>4, <1>5, <1>6 DEF PersistentInv

\* A row that is absent is created, or any row that is there is disabled.
LEMMA RowMoves ==
  ASSUME PersistentInv, NEW a \in Askers, NEW m \in Records, NEW status \in {"active", "disabled"},
         record' = [record EXCEPT ![m] = status],
         status = "active" => asker[a].does = "promote" /\ asker[a].memory = m,
         status = "disabled" => asker[a].does = "disable" /\ asker[a].memory = m,
         asker' = [asker EXCEPT ![a] = Unasked], UNCHANGED <<remote, chain>>
  PROVE  PersistentInv'
<1>1. /\ record' \in [Records -> {"absent", "active", "disabled"}]
      /\ record'[m] = status /\ \A n \in Records \ {m} : record'[n] = record[n]
  BY DEF PersistentInv
<1>2. status = "active" => record[m] = "absent"
  BY DEF PersistentInv, KeeperHolds
<1>3. status = "disabled" => record[m] # "absent"
  BY DEF PersistentInv, KeeperHolds
<1>4. ASSUME NEW p, NEW ids, NEW barred, Holds(p, ids, barred, record)
      PROVE  Holds(p, ids, barred, record')
  BY <1>1, <1>4 DEF Holds
<1>5. \A i \in 1 .. Len(chain) : RowHolds(i, chain[i], record')
  BY <1>4 DEF PersistentInv, RowHolds
<1>6. /\ asker' = [b \in Askers |-> asker'[b]]
      /\ asker'[a] = Unasked /\ \A b \in Askers \ {a} : asker'[b] = asker[b]
  BY DEF PersistentInv
<1>7. ASSUME NEW b \in Askers \ {a} PROVE ChooserHolds(asker[b], chain, record')
  <2>1. ChooserHolds(asker[b], chain, record)
    BY DEF PersistentInv
  <2>2. SUFFICES ASSUME asker[b].does \in Choosing PROVE ChooserHolds(asker[b], chain, record')
    BY DEF ChooserHolds
  <2>3. \A n \in asker[b].barred : record'[n] = "disabled"
    BY <1>1, <1>2, <2>1, <2>2 DEF ChooserHolds, Holds
  <2>4. QED
    BY <1>4, <2>1, <2>2, <2>3 DEF ChooserHolds
<1>8. ASSUME NEW b \in Askers \ {a} PROVE KeeperHolds(asker[b], record')
  <2>1. KeeperHolds(asker[b], record) /\ KeeperHolds(asker[a], record)
    BY DEF PersistentInv
  <2>2. ASSUME asker[b].does = "promote" PROVE asker[b].memory # m
    BY <1>3, <2>1, <2>2 DEF KeeperHolds, PersistentInv, OnePromotes
  <2>3. QED
    BY <1>1, <2>1, <2>2 DEF KeeperHolds
<1>9. \A b \in Askers : ChooserHolds(asker'[b], chain, record') /\ KeeperHolds(asker'[b], record')
  BY <1>6, <1>7, <1>8, UnaskedHolds
<1>10. OnePromotes'
  BY <1>6, UnaskedHolds DEF PersistentInv, OnePromotes
<1>11. QED
  BY <1>1, <1>5, <1>6, <1>9, <1>10 DEF PersistentInv

LEMMA RecordsKeep ==
  ASSUME PersistentInv, NEW a \in Askers, CreateRecord(a) \/ DisableRecord(a) PROVE PersistentInv'
<1>1. CASE CreateRecord(a)
  <2>1. asker[a].does = "promote" /\ asker[a].memory \in Records
    BY <1>1 DEF CreateRecord, PersistentInv, KeeperHolds
  <2>2. /\ record' = [record EXCEPT ![asker[a].memory] = "active"]
        /\ asker' = [asker EXCEPT ![a] = Unasked] /\ UNCHANGED <<remote, chain>>
    BY <1>1 DEF CreateRecord, Ends
  <2>3. QED
    BY <2>1, <2>2, RowMoves
<1>2. CASE DisableRecord(a)
  <2>1. asker[a].does = "disable" /\ asker[a].memory \in Records
    BY <1>2 DEF DisableRecord, PersistentInv, KeeperHolds
  <2>2. /\ record' = [record EXCEPT ![asker[a].memory] = "disabled"]
        /\ asker' = [asker EXCEPT ![a] = Unasked] /\ UNCHANGED <<remote, chain>>
    BY <1>2 DEF DisableRecord, Ends
  <2>3. QED
    BY <2>1, <2>2, RowMoves
<1>3. QED
  BY <1>1, <1>2

LEMMA ChoosesKeeps ==
  ASSUME PersistentInv, NEW a \in Askers, NEW kind \in Choosing, NEW base, NEW p,
         NEW ids \in SUBSET Records, Chooses(a, kind, base, p, ids),
         kind # "create" => base \in 1 .. Len(chain) /\ p = chain[base].agent
  PROVE  PersistentInv'
<1> DEFINE self == [does |-> kind, base |-> base, agent |-> p, todo |-> ids, got |-> {}, barred |-> Disabled]
<1>1. asker' = [asker EXCEPT ![a] = self] /\ UNCHANGED <<record, chain, remote>>
  BY DEF Chooses
<1>2. /\ self.does = kind /\ self.base = base /\ self.agent = p /\ self.todo = ids
      /\ self.got = {} /\ self.barred = Disabled
      /\ self = [does |-> self.does, base |-> self.base, agent |-> self.agent, todo |-> self.todo,
                 got |-> self.got, barred |-> self.barred]
  OBVIOUS
<1> HIDE DEF self
<1>3. Disabled \subseteq Records /\ \A m \in Disabled : record[m] = "disabled"
  BY DEF Disabled
<1>4. Holds(p, {}, Disabled, record)
  BY <1>3 DEF Holds
<1>5. ChooserHolds(self, chain, record)
  BY <1>2, <1>3, <1>4 DEF ChooserHolds, Choosing
<1>6. KeeperHolds(self, record) /\ self.does # "promote"
  BY <1>2 DEF KeeperHolds, Choosing
<1>7. QED
  BY <1>1, <1>5, <1>6, AskerMoves

LEMMA FoundOne ==
  ASSUME NEW self, NEW m,
         self = [does |-> self.does, base |-> self.base, agent |-> self.agent, todo |-> self.todo,
                 got |-> self.got, barred |-> self.barred]
  PROVE  [self EXCEPT !.todo = @ \ {m}, !.got = @ \cup {m}]
           = [does |-> self.does, base |-> self.base, agent |-> self.agent,
              todo |-> self.todo \ {m}, got |-> self.got \cup {m}, barred |-> self.barred]
<1> DEFINE looked == [self EXCEPT !.todo = @ \ {m}]
<1> DEFINE found == self.got \cup {m}
<1>1. looked = [does |-> self.does, base |-> self.base, agent |-> self.agent,
                todo |-> self.todo \ {m}, got |-> self.got, barred |-> self.barred]
  OBVIOUS
<1>2. [self EXCEPT !.todo = @ \ {m}, !.got = @ \cup {m}] = [looked EXCEPT !.got = found]
  OBVIOUS
<1> HIDE DEF looked, found
<1>3. [looked EXCEPT !.got = found]
        = [does |-> self.does, base |-> self.base, agent |-> self.agent,
           todo |-> self.todo \ {m}, got |-> found, barred |-> self.barred]
  BY <1>1
<1>4. QED
  BY <1>2, <1>3 DEF found

LEMMA LookAtKeeps ==
  ASSUME PersistentInv, NEW a \in Askers, LookAt(a) PROVE PersistentInv'
<1> DEFINE self == asker[a]
<1>1. /\ self.does \in Choosing /\ UNCHANGED <<record, chain, remote>>
      /\ ChooserHolds(self, chain, record)
  BY DEF LookAt, Choosing, PersistentInv
<1>2. PICK m \in self.todo :
        IF m \in ActiveOf(self.agent)
        THEN asker' = [asker EXCEPT ![a].todo = @ \ {m}, ![a].got = @ \cup {m}]
        ELSE Ends(a)
  BY DEF LookAt
<1>3. CASE m \in ActiveOf(self.agent)
  <2> DEFINE after == [does |-> self.does, base |-> self.base, agent |-> self.agent,
                       todo |-> self.todo \ {m}, got |-> self.got \cup {m}, barred |-> self.barred]
  <2>1. [self EXCEPT !.todo = @ \ {m}, !.got = @ \cup {m}] = after
    <3>1. self = [does |-> self.does, base |-> self.base, agent |-> self.agent, todo |-> self.todo,
                  got |-> self.got, barred |-> self.barred]
      BY <1>1 DEF ChooserHolds
    <3> HIDE DEF self
    <3>2. QED
      BY <3>1, FoundOne
  <2>2. asker' = [asker EXCEPT ![a] = after]
    BY <1>2, <1>3, <2>1 DEF PersistentInv
  <2>3. m \in Records /\ record[m] = "active" /\ PromotedBy[m] = self.agent
    BY <1>3 DEF ActiveOf
  <2>4. /\ after.does = self.does /\ after.base = self.base /\ after.agent = self.agent
        /\ after.todo = self.todo \ {m} /\ after.got = self.got \cup {m} /\ after.barred = self.barred
        /\ after = [does |-> after.does, base |-> after.base, agent |-> after.agent,
                    todo |-> after.todo, got |-> after.got, barred |-> after.barred]
    OBVIOUS
  <2> HIDE DEF after, self
  <2>5. Holds(after.agent, after.got, after.barred, record)
    BY <1>1, <2>3, <2>4 DEF ChooserHolds, Holds
  <2>6. ChooserHolds(after, chain, record)
    BY <1>1, <2>4, <2>5 DEF ChooserHolds
  <2>7. KeeperHolds(after, record) /\ after.does # "promote"
    BY <1>1, <2>4 DEF KeeperHolds, Choosing
  <2>8. QED
    BY <1>1, <2>2, <2>6, <2>7, AskerMoves
<1>4. CASE m \notin ActiveOf(self.agent)
  BY <1>1, <1>2, <1>4, UnaskedHolds, AskerMoves DEF Ends
<1>5. QED
  BY <1>3, <1>4

\* The agent and the place of a task never change, and tasks are never removed.
LEMMA ChainGrows ==
  ASSUME PersistentInv, UNCHANGED <<record, remote>>,
         \E S : chain' \in Seq(S), Len(chain) <= Len(chain'),
         \A i \in 1 .. Len(chain) : chain'[i].agent = chain[i].agent,
         \A i \in 1 .. Len(chain') : RowHolds(i, chain'[i], record),
         asker' = asker \/ \E a \in Askers : asker' = [asker EXCEPT ![a] = Unasked]
  PROVE  PersistentInv'
<1>1. Len(chain) \in Nat /\ Len(chain') \in Nat
  BY DEF PersistentInv
<1>2. ASSUME NEW self, ChooserHolds(self, chain, record) PROVE ChooserHolds(self, chain', record)
  BY <1>1, <1>2 DEF ChooserHolds
<1>3. /\ asker' = [a \in Askers |-> asker'[a]]
      /\ \A a \in Askers : asker'[a] = asker[a] \/ asker'[a] = Unasked
  BY DEF PersistentInv
<1>4. \A a \in Askers : ChooserHolds(asker'[a], chain', record) /\ KeeperHolds(asker'[a], record)
  BY <1>2, <1>3, UnaskedHolds DEF PersistentInv
<1>5. OnePromotes'
  BY <1>3, UnaskedHolds DEF PersistentInv, OnePromotes
<1>6. QED
  BY <1>3, <1>4, <1>5 DEF PersistentInv

LEMMA AppendKeeps ==
  ASSUME PersistentInv, UNCHANGED <<record, remote>>, NEW row, chain' = Append(chain, row),
         RowHolds(Len(chain) + 1, row, record),
         asker' = asker \/ \E a \in Askers : asker' = [asker EXCEPT ![a] = Unasked]
  PROVE  PersistentInv'
<1>1. PICK S : chain \in Seq(S)
  BY DEF PersistentInv
<1>2. chain \in Seq(S \cup {row}) /\ chain' \in Seq(S \cup {row})
  BY <1>1
<1>3. /\ Len(chain) \in Nat /\ Len(chain') = Len(chain) + 1 /\ chain'[Len(chain) + 1] = row
      /\ \A i \in 1 .. Len(chain) : chain'[i] = chain[i]
  BY <1>2
<1>4. \A i \in 1 .. Len(chain') : i \in 1 .. Len(chain) \/ i = Len(chain) + 1
  BY <1>3
<1>5. \A i \in 1 .. Len(chain') : RowHolds(i, chain'[i], record)
  BY <1>3, <1>4 DEF PersistentInv
<1>6. \E T : chain' \in Seq(T)
  BY <1>2
<1>7. QED
  BY <1>3, <1>5, <1>6, ChainGrows

LEMMA ChildHolds ==
  ASSUME PersistentInv, NEW i \in 1 .. Len(chain), NEW ids, NEW barred,
         Holds(chain[i].agent, ids, barred, record)
  PROVE  RowHolds(Len(chain) + 1, Child(i, [ids |-> ids, barred |-> barred]), record)
<1> DEFINE context == [ids |-> ids, barred |-> barred]
<1> DEFINE row == [root |-> RootOf(i), agent |-> chain[i].agent, context |-> context]
<1>1. RootOf(i) \in 1 .. i /\ Len(chain) \in Nat
  <2>1. RowHolds(i, chain[i], record)
    BY DEF PersistentInv
  <2>2. QED
    BY <2>1 DEF PersistentInv, RowHolds, RootOf
<1>2. RootOf(i) \in 1 .. Len(chain) + 1
  BY <1>1
<1>3. /\ row.root = RootOf(i) /\ row.agent = chain[i].agent /\ row.context = context
      /\ row = [root |-> row.root, agent |-> row.agent, context |-> row.context]
      /\ context.ids = ids /\ context.barred = barred
      /\ context = [ids |-> context.ids, barred |-> context.barred]
      /\ Child(i, [ids |-> ids, barred |-> barred]) = row
  BY DEF Child
<1> HIDE DEF row, context
<1>4. QED
  BY <1>2, <1>3 DEF RowHolds

LEMMA WriteTaskKeeps ==
  ASSUME PersistentInv, NEW a \in Askers, WriteTask(a) PROVE PersistentInv'
<1> DEFINE self == asker[a]
<1>1. /\ self.does \in {"create", "revise"} /\ UNCHANGED <<record, remote>>
      /\ asker' = [asker EXCEPT ![a] = Unasked]
      /\ chain' = Append(chain,
            IF self.does = "create"
            THEN [root |-> Len(chain) + 1, agent |-> self.agent,
                  context |-> [ids |-> self.got, barred |-> self.barred]]
            ELSE Child(self.base, [ids |-> self.got, barred |-> self.barred]))
  BY DEF WriteTask, Ends, Given
<1>2. Len(chain) \in Nat /\ ChooserHolds(self, chain, record)
  BY DEF PersistentInv
<1>3. Holds(self.agent, self.got, self.barred, record)
  BY <1>1, <1>2 DEF ChooserHolds, Choosing
<1>4. CASE self.does = "create"
  <2> DEFINE context == [ids |-> self.got, barred |-> self.barred]
  <2> DEFINE row == [root |-> Len(chain) + 1, agent |-> self.agent, context |-> context]
  <2>1. chain' = Append(chain, row)
    BY <1>1, <1>4
  <2>2. /\ row.root = Len(chain) + 1 /\ row.agent = self.agent /\ row.context = context
        /\ row = [root |-> row.root, agent |-> row.agent, context |-> row.context]
        /\ context.ids = self.got /\ context.barred = self.barred
        /\ context = [ids |-> context.ids, barred |-> context.barred]
    OBVIOUS
  <2>3. Len(chain) + 1 \in 1 .. Len(chain) + 1
    BY <1>2
  <2> HIDE DEF row, context, self
  <2>4. RowHolds(Len(chain) + 1, row, record)
    BY <1>3, <2>2, <2>3 DEF RowHolds
  <2>5. QED
    BY <1>1, <2>1, <2>4, AppendKeeps
<1>5. CASE self.does = "revise"
  <2>1. self.base \in 1 .. Len(chain) /\ chain[self.base].agent = self.agent
    BY <1>2, <1>5 DEF ChooserHolds, Choosing
  <2>2. chain' = Append(chain, Child(self.base, [ids |-> self.got, barred |-> self.barred]))
    BY <1>1, <1>5
  <2>3. QED
    BY <1>1, <1>3, <2>1, <2>2, ChildHolds, AppendKeeps
<1>6. QED
  BY <1>1, <1>4, <1>5

LEMMA WritePinsKeeps ==
  ASSUME PersistentInv, NEW a \in Askers, WritePins(a) PROVE PersistentInv'
<1> DEFINE self == asker[a]
<1> DEFINE i == self.base
<1> DEFINE context == [ids |-> self.got, barred |-> self.barred]
<1> DEFINE row == [root |-> chain[i].root, agent |-> chain[i].agent, context |-> context]
<1>1. /\ self.does = "pin" /\ UNCHANGED <<record, remote>>
      /\ asker' = [asker EXCEPT ![a] = Unasked]
      /\ chain' = [chain EXCEPT ![i].context = context]
  BY DEF WritePins, Ends, Given
<1>2. /\ i \in 1 .. Len(chain) /\ chain[i].agent = self.agent
      /\ Holds(self.agent, self.got, self.barred, record)
  BY <1>1 DEF PersistentInv, ChooserHolds, Choosing
<1>3. RowHolds(i, chain[i], record)
  BY <1>2 DEF PersistentInv
<1>4. [chain[i] EXCEPT !.context = context] = row
  BY <1>3 DEF RowHolds
<1>5. chain' = [chain EXCEPT ![i] = row]
  BY <1>1, <1>4
<1>6. /\ row.root = chain[i].root /\ row.agent = chain[i].agent /\ row.context = context
      /\ row = [root |-> row.root, agent |-> row.agent, context |-> row.context]
      /\ context.ids = self.got /\ context.barred = self.barred
      /\ context = [ids |-> context.ids, barred |-> context.barred]
  OBVIOUS
<1> HIDE DEF row, context, i, self
<1>7. RowHolds(i, row, record)
  BY <1>2, <1>3, <1>6 DEF RowHolds
<1>8. PICK S : chain \in Seq(S)
  BY DEF PersistentInv
<1>9. /\ chain' \in Seq(S \cup {row}) /\ Len(chain') = Len(chain) /\ chain'[i] = row
      /\ \A k \in 1 .. Len(chain) : k # i => chain'[k] = chain[k]
  BY <1>2, <1>5, <1>8
<1>10. \A k \in 1 .. Len(chain') : RowHolds(k, chain'[k], record)
  BY <1>7, <1>9 DEF PersistentInv
<1>11. \A k \in 1 .. Len(chain) : chain'[k].agent = chain[k].agent
  BY <1>6, <1>9
<1>12. (\E T : chain' \in Seq(T)) /\ Len(chain) <= Len(chain')
  BY <1>8, <1>9
<1>13. QED
  BY <1>1, <1>10, <1>11, <1>12, ChainGrows

LEMMA DescendantsKeep ==
  ASSUME PersistentInv, NEW i \in DOMAIN chain, Inherit(i) \/ StartAfresh(i) PROVE PersistentInv'
<1>1. i \in 1 .. Len(chain)
  BY DEF PersistentInv
<1>2. RowHolds(i, chain[i], record)
  BY <1>1 DEF PersistentInv
<1>3. CASE Inherit(i)
  <2>1. chain' = Append(chain, Child(i, chain[i].context)) /\ UNCHANGED <<record, remote, asker>>
    BY <1>3 DEF Inherit
  <2>2. /\ chain[i].context = [ids |-> chain[i].context.ids, barred |-> chain[i].context.barred]
        /\ Holds(chain[i].agent, chain[i].context.ids, chain[i].context.barred, record)
    BY <1>2 DEF RowHolds
  <2>3. RowHolds(Len(chain) + 1, Child(i, chain[i].context), record)
    BY <1>1, <2>2, ChildHolds
  <2>4. QED
    BY <2>1, <2>3, AppendKeeps
<1>4. CASE StartAfresh(i)
  <2>1. /\ chain' = Append(chain, Child(i, [ids |-> {}, barred |-> {}]))
        /\ UNCHANGED <<record, remote, asker>>
    BY <1>4 DEF StartAfresh, NoContext
  <2>2. Holds(chain[i].agent, {}, {}, record)
    BY DEF Holds
  <2>3. QED
    BY <1>1, <2>1, <2>2, ChildHolds, AppendKeeps
<1>5. QED
  BY <1>3, <1>4

LEMMA PersistentKeeps ==
  ASSUME PersistentInv, [PersistentNext]_persistentVars PROVE PersistentInv'
<1>1. CASE UNCHANGED persistentVars
  BY <1>1 DEF persistentVars, PersistentInv, OnePromotes
<1>2. DOMAIN chain = 1 .. Len(chain)
  BY DEF PersistentInv
<1>3. ASSUME NEW a \in Askers, LoseAsker(a) PROVE PersistentInv'
  <2>1. asker' = [asker EXCEPT ![a] = Unasked] /\ UNCHANGED <<record, chain, remote>>
    BY <1>3 DEF LoseAsker, Ends
  <2>2. QED
    BY <2>1, UnaskedHolds, AskerMoves
<1>4. ASSUME NEW a \in Askers, NEW i \in DOMAIN chain, NEW m \in Records, Pin(a, i, m) \/ Unpin(a, i, m)
      PROVE  PersistentInv'
  <2>1. chain[i].context.ids \subseteq Records
    BY <1>2 DEF PersistentInv, RowHolds, Holds
  <2>2. \E ids \in SUBSET Records : Chooses(a, "pin", i, chain[i].agent, ids)
    BY <1>4, <2>1 DEF Pin, Unpin
  <2>3. "pin" \in Choosing
    BY DEF Choosing
  <2>4. QED
    BY <1>2, <2>2, <2>3, ChoosesKeeps
<1>5. ASSUME NEW a \in Askers, NEW i \in DOMAIN chain,
             ReviseWithRoots(a, i) \/ \E ids \in SUBSET Records : ReviseWith(a, i, ids)
      PROVE  PersistentInv'
  <2>1. RootOf(i) \in 1 .. Len(chain)
    <3>1. RowHolds(i, chain[i], record) /\ Len(chain) \in Nat
      BY <1>2 DEF PersistentInv
    <3>2. QED
      BY <1>2, <3>1 DEF RowHolds, RootOf
  <2>2. chain[RootOf(i)].context.ids \subseteq Records
    BY <2>1 DEF PersistentInv, RowHolds, Holds
  <2>3. \E ids \in SUBSET Records : Chooses(a, "revise", i, chain[i].agent, ids)
    BY <1>5, <2>2 DEF ReviseWithRoots, ReviseWith
  <2>4. "revise" \in Choosing
    BY DEF Choosing
  <2>5. QED
    BY <1>2, <2>3, <2>4, ChoosesKeeps
<1>6. ASSUME NEW a \in Askers, NEW p \in People, NEW ids \in SUBSET Records, CreateRoot(a, p, ids)
      PROVE  PersistentInv'
  <2>1. Chooses(a, "create", NoBase, p, ids) /\ "create" \in Choosing
    BY <1>6 DEF CreateRoot, Choosing
  <2>2. QED
    BY <2>1, ChoosesKeeps
<1>7. QED
  BY <1>1, <1>3, <1>4, <1>5, <1>6, PromoteKeeps, DeleteRemoteKeeps, RecordsKeep, LookAtKeeps,
     WriteTaskKeeps, WritePinsKeeps, DescendantsKeep DEF PersistentNext

LEMMA TasksHold == PersistentInv => TasksRemember
<1> SUFFICES ASSUME PersistentInv, NEW i \in DOMAIN chain
             PROVE  /\ chain[i].context.ids \cap chain[i].context.barred = {}
                    /\ \A m \in chain[i].context.ids :
                          PromotedBy[m] = chain[i].agent /\ record[m] # "absent"
  BY DEF TasksRemember
<1>1. RowHolds(i, chain[i], record)
  BY DEF PersistentInv
<1>2. QED
  BY <1>1 DEF RowHolds, Holds

\* Of a set that is not empty, limit elements or all of them are at least one.
LEMMA RecallHolds == ASSUME remote \subseteq Records PROVE RecallIsSound
<1> SUFFICES ASSUME NEW p \in People, NEW alike \in SUBSET Records,
                    NEW limit \in 1 .. Cardinality(Records),
                    NEW hits \in Searches(p, limit), NEW answer \in Recall(p, hits, alike, limit)
             PROVE  /\ answer \subseteq ActiveOf(p) /\ Cardinality(answer) <= limit
                    /\ alike \cap ActiveOf(p) # {} => answer # {}
  BY DEF RecallIsSound
<1>1. /\ IsFiniteSet(hits) /\ Cardinality(hits) \in Nat /\ Cardinality(hits) <= limit
      /\ limit \in Nat /\ limit # 0
  <2>1. hits \subseteq Records /\ Cardinality(hits) <= limit
    BY DEF Searches
  <2>2. Cardinality(Records) \in Nat
    BY PersistentAssumption, FS_CardinalityType
  <2>3. QED
    BY <2>1, <2>2, PersistentAssumption, FS_Subset, FS_CardinalityType
<1>2. CASE Resolves(p, hits) # {}
  <2>1. answer = Resolves(p, hits)
    BY <1>1, <1>2 DEF Recall
  <2>2. answer \subseteq hits /\ answer \subseteq ActiveOf(p)
    BY <2>1 DEF Resolves
  <2>3. Cardinality(answer) \in Nat /\ Cardinality(answer) <= Cardinality(hits)
    BY <1>1, <2>2, FS_Subset, FS_CardinalityType
  <2>4. QED
    BY <1>1, <1>2, <2>1, <2>2, <2>3
<1>3. CASE Resolves(p, hits) = {}
  <2> DEFINE all == alike \cap ActiveOf(p)
  <2>1. /\ answer \subseteq all
        /\ Cardinality(answer) = IF Cardinality(all) < limit THEN Cardinality(all) ELSE limit
    BY <1>1, <1>3 DEF Recall, Matches
  <2>2. IsFiniteSet(all) /\ Cardinality(all) \in Nat
    BY PersistentAssumption, FS_Subset, FS_CardinalityType
  <2>3. all # {} => Cardinality(all) # 0
    BY <2>2, FS_EmptySet
  <2> HIDE DEF all
  <2>4. Cardinality(answer) <= limit /\ (all # {} => Cardinality(answer) # 0)
    BY <1>1, <2>1, <2>2, <2>3
  <2>5. all # {} => answer # {}
    BY <2>4, FS_EmptySet
  <2>6. QED
    BY <2>1, <2>4, <2>5 DEF all
<1>4. QED
  BY <1>2, <1>3

LEMMA RolesHold == PersistentInv => RolesAreTold
<1> SUFFICES ASSUME PersistentInv, NEW i \in DOMAIN chain
             PROVE  Told(i) \subseteq Shared(i) \cup (Attached(i).ids \ Attached(i).barred)
  BY DEF RolesAreTold
<1>1. i \in 1 .. Len(chain) /\ RootOf(i) \in 1 .. Len(chain)
  <2>1. i \in 1 .. Len(chain) /\ Len(chain) \in Nat
    BY DEF PersistentInv
  <2>2. RowHolds(i, chain[i], record)
    BY <2>1 DEF PersistentInv
  <2>3. QED
    BY <2>1, <2>2 DEF RowHolds, RootOf
<1>2. \A k \in 1 .. Len(chain) : chain[k].context.ids \cap chain[k].context.barred = {}
  BY DEF PersistentInv, RowHolds, Holds
<1>3. Attached(i).ids \cap Attached(i).barred = {}
  BY <1>1, <1>2 DEF Attached
<1>4. QED
  BY <1>3 DEF Told

\* Whatever the remote index, crashes and concurrent requests do, a memory that is disabled
\* before a request begins is given to no task by it and to no role, and queries answer with
\* active memories of the agent alone.
THEOREM DisabledMemoriesStayOut == PersistentSpec => []DisabledStaysOut
<1>1. PersistentInit => PersistentInv
  BY PersistentStarts
<1>2. PersistentInv /\ [PersistentNext]_persistentVars => PersistentInv'
  BY PersistentKeeps
<1>3. PersistentInv => DisabledStaysOut
  BY TasksHold, RecallHolds, RolesHold DEF DisabledStaysOut, PersistentInv
<1>4. QED
  BY <1>1, <1>2, <1>3, PTL DEF PersistentSpec

-----------------------------------------------------------------------------
(* The types of the memory of a session: an operation makes a snapshot of    *)
(* the snapshot it read, with the goals kept apart and both limits kept.     *)

Attempt == [task : 1 .. MaxRevisions, status : Endings \cup {"queued"}]
Revisions == 1 .. MaxRevisions

Operations ==
    [op : {"created"}, goal : Goals, task : Revisions]
      \cup [op : {"outcome"}, goal : Goals, task : Revisions, status : Endings]
      \cup [op : {"ensure", "clear"}]

\* The row and the copies hold snapshots, and so does a thread that has read one.
Working(w) ==
    UnderWay(w) => writer[w].doing \in Operations /\ Snapshot(writer[w].read)

MemoryTyped == MemoryTypeOK /\ writer = [w \in Writers |-> writer[w]]
                 /\ \A w \in Writers : Working(w)

\* Of a sequence no more than the newest are kept.
LEMMA NewestIsPart ==
  ASSUME NEW S, NEW s \in Seq(S), NEW n \in Nat
  PROVE  /\ Newest(s, n) \in Seq(S) /\ Len(Newest(s, n)) <= n
         /\ \E k \in Nat : /\ Len(Newest(s, n)) = Len(s) - k
                           /\ \A i \in 1 .. Len(s) - k : Newest(s, n)[i] = s[i + k]
<1>1. CASE Len(s) > n
  <2> DEFINE k == Len(s) - n
             rest == SubSeq(s, k + 1, Len(s))
  <2>1. Newest(s, n) = rest
    BY <1>1 DEF Newest
  <2>2. k \in Nat /\ k + 1 \in 1 .. Len(s) + 1
    BY <1>1
  <2>3. rest \in Seq(S) /\ Len(rest) = n
    BY <2>2
  <2>4. ASSUME NEW i \in 1 .. Len(s) - k PROVE rest[i] = s[i + k]
    <3>1. rest[i] = s[(k + 1) + i - 1]
      BY <2>2
    <3>2. (k + 1) + i - 1 = i + k
      BY <2>2
    <3>3. QED
      BY <3>1, <3>2
  <2>5. Len(rest) = Len(s) - k
    BY <2>3
  <2>6. /\ Newest(s, n) \in Seq(S) /\ Len(Newest(s, n)) <= n
        /\ Len(Newest(s, n)) = Len(s) - k
        /\ \A i \in 1 .. Len(s) - k : Newest(s, n)[i] = s[i + k]
    BY <2>1, <2>3, <2>4, <2>5
  <2> HIDE DEF k
  <2>7. QED
    BY <2>2, <2>6
<1>2. CASE ~ (Len(s) > n)
  <2>1. Newest(s, n) = s /\ Len(s) <= n
    BY <1>2 DEF Newest
  <2>2. \A i \in 1 .. Len(s) - 0 : s[i] = s[i + 0]
    OBVIOUS
  <2>3. QED
    BY <2>1, <2>2
<1>3. QED
  BY <1>1, <1>2

\* The entries of a snapshot are the entries of different roots.
Apart(s) == \A i, j \in DOMAIN s : s[i].goal = s[j].goal => i = j
Short(s) == \A i \in DOMAIN s : Len(s[i].attempts) <= MaxAttemptsKept

LEMMA SnapshotIs ==
  ASSUME NEW s
  PROVE  Snapshot(s) <=> s \in Seq(Entry) /\ Len(s) <= MaxEntries /\ Short(s) /\ Apart(s)
BY DEF Snapshot, Short, Apart

\* The first entry of a root is taken out, and no other of that root is left.
LEMMA PoppedIsApart ==
  ASSUME NEW s, Snapshot(s), NEW goal, EntriesOf(s, goal) # {}
  PROVE  LET i == FirstOf(s, goal)
         IN /\ i \in 1 .. Len(s) /\ s[i].goal = goal
            /\ Popped(s, i) \in Seq(Entry) /\ Len(Popped(s, i)) = Len(s) - 1
            /\ Short(Popped(s, i)) /\ Apart(Popped(s, i))
            /\ \A j \in DOMAIN Popped(s, i) : Popped(s, i)[j].goal # goal
<1> DEFINE i == FirstOf(s, goal)
           p == Popped(s, i)
<1>1. s \in Seq(Entry) /\ DOMAIN s = 1 .. Len(s) /\ Len(s) \in Nat /\ Apart(s) /\ Short(s)
  BY SnapshotIs
<1>2. PICK k \in 1 .. Len(s) : s[k].goal = goal
  BY <1>1 DEF EntriesOf
<1>3. EntriesOf(s, goal) = {k}
  BY <1>1, <1>2 DEF EntriesOf, Apart
<1>4. i = k
  BY <1>2, <1>3 DEF FirstOf
<1>5. i \in 1 .. Len(s) /\ s[i].goal = goal
  BY <1>2, <1>4
<1> HIDE DEF i
<1>6. p = [j \in 1 .. Len(s) - 1 |-> s[IF j < i THEN j ELSE j + 1]]
  BY DEF Popped
<1>7. \A j \in 1 .. Len(s) - 1 : (IF j < i THEN j ELSE j + 1) \in 1 .. Len(s) \ {i}
  BY <1>1, <1>5
<1>8. \A j \in 1 .. Len(s) - 1 : s[IF j < i THEN j ELSE j + 1] \in Entry
  BY <1>1, <1>7
<1>9. Len(s) - 1 \in Nat
  BY <1>5
<1>10. p \in Seq(Entry) /\ Len(p) = Len(s) - 1 /\ DOMAIN p = 1 .. Len(s) - 1
  BY <1>6, <1>8, <1>9
<1> HIDE DEF p
<1>11. Short(p)
  BY <1>1, <1>6, <1>7, <1>10 DEF Short
<1>12. \A j \in DOMAIN p : p[j].goal # goal
  BY <1>1, <1>5, <1>6, <1>7, <1>10 DEF Apart
<1>13. ASSUME NEW j \in DOMAIN p, NEW m \in DOMAIN p, p[j].goal = p[m].goal PROVE j = m
  <2> DEFINE from(n) == IF n < i THEN n ELSE n + 1
  <2>1. from(j) \in 1 .. Len(s) /\ from(m) \in 1 .. Len(s) /\ p[j] = s[from(j)] /\ p[m] = s[from(m)]
    BY <1>6, <1>7, <1>10
  <2>2. from(j) = from(m)
    BY <1>1, <1>13, <2>1 DEF Apart
  <2>3. QED
    BY <1>5, <1>10, <2>2
<1>14. QED
  BY <1>5, <1>10, <1>11, <1>12, <1>13 DEF i, p, Apart

LEMMA CreatedIsSnapshot ==
  ASSUME NEW s, Snapshot(s), NEW goal \in Goals, NEW task \in Revisions
  PROVE  Snapshot(Created(s, goal, task))
<1> DEFINE known == EntriesOf(s, goal) # {}
           others == IF known THEN Popped(s, FirstOf(s, goal)) ELSE s
           attempts == IF known THEN s[FirstOf(s, goal)].attempts ELSE << >>
           attempt == [task |-> task, status |-> "queued"]
           kept == Newest(Append(attempts, attempt), MaxAttemptsKept)
           entry == [goal |-> goal, latest |-> task, status |-> "queued", attempts |-> kept]
           all == Append(others, entry)
<1>1. Created(s, goal, task) = Newest(all, MaxEntries)
  BY DEF Created
<1>2. s \in Seq(Entry) /\ Apart(s) /\ Short(s)
  BY SnapshotIs
<1>3. MaxEntries \in Nat /\ MaxAttemptsKept \in Nat
  BY SessionAssumption
<1>4. /\ others \in Seq(Entry) /\ Short(others) /\ Apart(others)
      /\ \A j \in DOMAIN others : others[j].goal # goal
  <2>1. CASE known
    BY <2>1, PoppedIsApart
  <2>2. CASE ~ known
    BY <1>2, <2>2 DEF EntriesOf
  <2>3. QED
    BY <2>1, <2>2
<1>5. attempts \in Seq(Attempt)
  <2>1. CASE known
    <3>1. FirstOf(s, goal) \in 1 .. Len(s)
      BY <2>1, PoppedIsApart
    <3>2. s[FirstOf(s, goal)] \in Entry
      BY <1>2, <3>1
    <3>3. QED
      BY <2>1, <3>2 DEF Entry, Attempt
  <2>2. CASE ~ known
    BY <2>2
  <2>3. QED
    BY <2>1, <2>2
<1>6. attempt \in Attempt
  BY DEF Attempt, Revisions
<1> HIDE DEF attempts, attempt, others
<1>7. kept \in Seq(Attempt) /\ Len(kept) <= MaxAttemptsKept
  <2>1. Append(attempts, attempt) \in Seq(Attempt)
    BY <1>5, <1>6
  <2>2. QED
    BY <1>3, <2>1, NewestIsPart
<1> HIDE DEF kept
<1>8. entry \in Entry /\ entry.goal = goal /\ Len(entry.attempts) <= MaxAttemptsKept
  BY <1>7 DEF Entry, Attempt, Revisions
<1> HIDE DEF entry
<1>9. all \in Seq(Entry) /\ DOMAIN all = 1 .. Len(others) + 1 /\ Len(all) = Len(others) + 1
  BY <1>4, <1>8
<1>10. \A j \in 1 .. Len(others) : all[j] = others[j]
  BY <1>4, <1>8
<1>11. all[Len(others) + 1] = entry
  BY <1>4, <1>8
<1>12. Len(others) \in Nat /\ DOMAIN others = 1 .. Len(others)
  BY <1>4
<1> HIDE DEF all
<1>13. Short(all)
  BY <1>4, <1>8, <1>9, <1>10, <1>11, <1>12 DEF Short
<1>14. Apart(all)
  BY <1>4, <1>8, <1>9, <1>10, <1>11, <1>12 DEF Apart
<1> DEFINE new == Newest(all, MaxEntries)
<1>15. new \in Seq(Entry) /\ Len(new) <= MaxEntries
  BY <1>3, <1>9, NewestIsPart
<1>16. PICK k \in Nat : Len(new) = Len(all) - k /\ \A i \in 1 .. Len(all) - k : new[i] = all[i + k]
  BY <1>3, <1>9, NewestIsPart
<1>17. DOMAIN new = 1 .. Len(all) - k
  BY <1>15, <1>16
<1> HIDE DEF new
<1>18. Len(all) \in Nat /\ \A i \in DOMAIN new : i + k \in DOMAIN all /\ new[i] = all[i + k] /\ i \in Nat
  BY <1>9, <1>12, <1>16, <1>17
<1>19. Short(new)
  BY <1>13, <1>18 DEF Short
<1>20. Apart(new)
  <2> SUFFICES ASSUME NEW i \in DOMAIN new, NEW j \in DOMAIN new, new[i].goal = new[j].goal PROVE i = j
    BY DEF Apart
  <2>1. i + k = j + k
    BY <1>14, <1>18 DEF Apart
  <2>2. QED
    BY <1>18, <2>1
<1>21. Snapshot(new)
  BY <1>15, <1>19, <1>20, SnapshotIs
<1>22. QED
  BY <1>1, <1>21 DEF new

LEMMA ConcludedIsSnapshot ==
  ASSUME NEW s, Snapshot(s), NEW goal \in Goals, NEW task \in Revisions, NEW status \in Endings
  PROVE  Snapshot(Concluded(s, goal, task, status))
<1> DEFINE new == Concluded(s, goal, task, status)
           tried(a) == [j \in DOMAIN a |-> IF a[j].task = task THEN [a[j] EXCEPT !.status = status] ELSE a[j]]
           entry(e) == IF e.goal # goal THEN e
                       ELSE [e EXCEPT !.latest = task, !.status = status, !.attempts = tried(e.attempts)]
<1>1. s \in Seq(Entry) /\ DOMAIN s = 1 .. Len(s) /\ Len(s) \in Nat /\ Len(s) <= MaxEntries /\ Apart(s) /\ Short(s)
  BY SnapshotIs
<1>2. new = [i \in 1 .. Len(s) |-> entry(s[i])]
  BY <1>1 DEF Concluded
<1>3. ASSUME NEW a \in Seq(Attempt) PROVE tried(a) \in Seq(Attempt) /\ Len(tried(a)) = Len(a)
  <2>1. DOMAIN a = 1 .. Len(a) /\ Len(a) \in Nat
    OBVIOUS
  <2>2. \A j \in 1 .. Len(a) : a[j] \in Attempt
    OBVIOUS
  <2>3. \A j \in 1 .. Len(a) :
          (IF a[j].task = task THEN [a[j] EXCEPT !.status = status] ELSE a[j]) \in Attempt
    BY <2>2 DEF Attempt
  <2>4. QED
    BY <2>1, <2>3
<1> HIDE DEF tried
<1>4. ASSUME NEW e \in Entry, Len(e.attempts) <= MaxAttemptsKept
      PROVE  entry(e) \in Entry /\ entry(e).goal = e.goal /\ Len(entry(e).attempts) <= MaxAttemptsKept
  <2>1. e.attempts \in Seq(Attempt)
    BY DEF Entry, Attempt
  <2>2. tried(e.attempts) \in Seq(Attempt) /\ Len(tried(e.attempts)) = Len(e.attempts)
    BY <1>3, <2>1
  <2>3. CASE e.goal # goal
    BY <1>4, <2>3
  <2>4. CASE e.goal = goal
    <3> DEFINE tries == tried(e.attempts)
    <3> HIDE DEF tries
    <3>1. tries \in Seq(Attempt) /\ Len(tries) <= MaxAttemptsKept
      BY <1>4, <2>2 DEF tries
    <3>2. entry(e) = [goal |-> e.goal, latest |-> task, status |-> status, attempts |-> tries]
      BY <2>4 DEF Entry, tries
    <3>3. e.goal \in Goals
      BY DEF Entry
    <3> HIDE DEF entry
    <3>4. entry(e).goal = e.goal /\ entry(e).attempts = tries
      BY <3>2
    <3>5. entry(e) \in Entry
      BY <3>1, <3>2, <3>3 DEF Entry, Attempt, Revisions
    <3>6. QED
      BY <3>1, <3>4, <3>5
  <2>5. QED
    BY <2>3, <2>4
<1>5. \A i \in 1 .. Len(s) : s[i] \in Entry /\ Len(s[i].attempts) <= MaxAttemptsKept
  BY <1>1 DEF Short
<1> HIDE DEF entry, new
<1>6. \A i \in 1 .. Len(s) : /\ entry(s[i]) \in Entry /\ entry(s[i]).goal = s[i].goal
                             /\ Len(entry(s[i]).attempts) <= MaxAttemptsKept
  BY <1>4, <1>5
<1>7. new \in Seq(Entry) /\ Len(new) = Len(s) /\ DOMAIN new = 1 .. Len(s)
  BY <1>1, <1>2, <1>6
<1>8. Short(new) /\ Apart(new)
  BY <1>1, <1>2, <1>6, <1>7 DEF Short, Apart
<1>9. Snapshot(new)
  BY <1>1, <1>7, <1>8, SnapshotIs
<1>10. QED
  BY <1>9 DEF new

LEMMA NothingIsSnapshot == Snapshot(<< >>)
<1>1. << >> \in Seq(Entry) /\ Len(<< >>) = 0 /\ DOMAIN << >> = {}
  OBVIOUS
<1>2. QED
  BY <1>1, SessionAssumption DEF Snapshot

\* Whatever a thread has begun, it makes a snapshot of a snapshot.
LEMMA ResultIsSnapshot ==
  ASSUME NEW s, Snapshot(s), NEW o \in Operations
  PROVE  Snapshot(Result(s, o))
<1>1. CASE Forgotten(s, o)
  BY <1>1 DEF Result
<1>2. CASE ~ Forgotten(s, o)
  <2>1. CASE o \in [op : {"created"}, goal : Goals, task : Revisions]
    <3>1. Result(s, o) = Created(s, o.goal, o.task)
      BY <1>2, <2>1 DEF Result
    <3>2. o.goal \in Goals /\ o.task \in Revisions
      BY <2>1
    <3>3. QED
      BY <3>1, <3>2, CreatedIsSnapshot
  <2>2. CASE o \in [op : {"outcome"}, goal : Goals, task : Revisions, status : Endings]
    <3>1. Result(s, o) = Concluded(s, o.goal, o.task, o.status)
      BY <1>2, <2>2 DEF Result
    <3>2. o.goal \in Goals /\ o.task \in Revisions /\ o.status \in Endings
      BY <2>2
    <3>3. QED
      BY <3>1, <3>2, ConcludedIsSnapshot
  <2>3. CASE o \in [op : {"ensure", "clear"}]
    BY <1>2, <2>3, NothingIsSnapshot DEF Result
  <2>4. QED
    BY <2>1, <2>2, <2>3 DEF Operations
<1>3. QED
  BY <1>1, <1>2

LEMMA FindIsSnapshot ==
  ASSUME MemoryTypeOK, NEW p \in Servers
  PROVE  Snapshot(Find(p))
<1> DEFINE found == IF copy[p] # Absent THEN copy[p] ELSE stored
<1>1. \A s \in found : Snapshot(s)
  BY DEF MemoryTypeOK
<1>2. Find(p) = IF found = Absent THEN << >> ELSE CHOOSE s \in found : TRUE
  BY DEF Find
<1> HIDE DEF found
<1>3. CASE found = Absent
  BY <1>2, <1>3, NothingIsSnapshot
<1>4. CASE found # Absent
  <2>1. Find(p) \in found
    BY <1>2, <1>4 DEF Absent
  <2>2. QED
    BY <1>1, <2>1
<1>5. QED
  BY <1>3, <1>4

LEMMA BeginTypes ==
  ASSUME MemoryTyped, NEW w \in Writers, NEW o \in Operations, BeginOperation(w, o),
         made' \in [Goals -> 0 .. MaxRevisions]
  PROVE  MemoryTyped'
<1> DEFINE p == ServerOf[w]
<1> USE DEF MemoryTyped, BeginOperation
<1>1. p \in Servers
  BY SessionAssumption
<1>2. Snapshot(Find(p))
  BY <1>1, FindIsSnapshot
<1>3. \A q \in Servers : \A s \in copy'[q] : Snapshot(s)
  <2>1. \A q \in Servers : copy'[q] = copy[q] \/ copy'[q] = stored
    BY DEF Holding, MemoryTypeOK
  <2>2. QED
    BY <2>1 DEF MemoryTypeOK
<1>4. MemoryTypeOK'
  <2>1. shared' \in BOOLEAN /\ crossed' \in BOOLEAN
    BY DEF MemoryTypeOK, Elsewhere
  <2>2. QED
    BY <1>3, <2>1 DEF MemoryTypeOK
<1>5. writer' = [v \in Writers |-> writer'[v]]
  OBVIOUS
<1>6. ASSUME NEW v \in Writers PROVE Working(v)'
  <2>1. CASE v = w
    <3>1. writer'[v] = [doing |-> o, read |-> Find(p)]
      BY <2>1
    <3> DEFINE found == Find(p)
    <3> HIDE DEF found
    <3>2. writer'[v].doing = o /\ writer'[v].read = found
      BY <3>1 DEF found
    <3>3. Snapshot(found)
      BY <1>2 DEF found
    <3>4. Snapshot(writer'[v].read)
      BY <3>2, <3>3
    <3>5. QED
      BY <3>2, <3>4 DEF Working
  <2>2. CASE v # w
    BY <2>2 DEF Working, UnderWay
  <2>3. QED
    BY <2>1, <2>2
<1>7. QED
  BY <1>4, <1>5, <1>6

LEMMA StoreTypes ==
  ASSUME MemoryTyped, NEW w \in Writers, Store(w)
  PROVE  MemoryTyped'
<1> DEFINE o == writer[w].doing
           read == writer[w].read
<1> USE DEF MemoryTyped
<1>1. o \in Operations /\ Snapshot(read) /\ ServerOf[w] \in Servers
  BY SessionAssumption DEF Store, Working, UnderWay
<1>2. Snapshot(Result(read, o))
  BY <1>1, ResultIsSnapshot
<1>3. Snapshot(Result(replay, o))
  BY <1>1, ResultIsSnapshot DEF MemoryTypeOK
<1>4. Snapshot(replay')
  <2>1. replay' = << >> \/ replay' = Result(replay, o)
    BY DEF Store
  <2>2. CASE replay' = << >>
    <3>1. Snapshot(<< >>)
      BY NothingIsSnapshot
    <3>2. QED
      BY <2>2, <3>1
  <2>3. CASE replay' = Result(replay, o)
    BY <1>3, <2>3
  <2>4. QED
    BY <2>1, <2>2, <2>3
<1>5. /\ \A s \in stored' : Snapshot(s)
      /\ \A q \in Servers : \A s \in copy'[q] : Snapshot(s)
  <2>1. CASE Forgotten(read, o)
    BY <2>1 DEF Store, MemoryTypeOK
  <2>2. CASE ~ Forgotten(read, o)
    <3> DEFINE row == {Result(read, o)}
    <3>1. stored' = row /\ copy' = [copy EXCEPT ![ServerOf[w]] = row]
      BY <2>2 DEF Store, WriteRow
    <3>2. \A s \in row : Snapshot(s)
      BY <1>2
    <3> HIDE DEF row
    <3>3. \A q \in Servers : copy'[q] = copy[q] \/ copy'[q] = row
      BY <3>1 DEF MemoryTypeOK
    <3>4. QED
      BY <3>1, <3>2, <3>3 DEF MemoryTypeOK
  <2>3. QED
    BY <2>1, <2>2
<1>6. MemoryTypeOK'
  <2>1. made' \in [Goals -> 0 .. MaxRevisions] /\ shared' \in BOOLEAN /\ crossed' \in BOOLEAN
    BY DEF Store, MemoryTypeOK
  <2>2. QED
    BY <1>4, <1>5, <2>1 DEF MemoryTypeOK
<1>7. writer' = [v \in Writers |-> writer'[v]] /\ \A v \in Writers : Working(v)'
  BY DEF Store, Working, UnderWay
<1>8. QED
  BY <1>6, <1>7

LEMMA MemoryTypesKeep == MemoryTyped /\ [MemoryNext]_memoryVars => MemoryTyped'
<1> SUFFICES ASSUME MemoryTyped, [MemoryNext]_memoryVars PROVE MemoryTyped'
  OBVIOUS
<1>1. made \in [Goals -> 0 .. MaxRevisions] /\ MaxRevisions \in Nat
  BY SessionAssumption DEF MemoryTyped, MemoryTypeOK
<1>2. CASE UNCHANGED memoryVars
  BY <1>2 DEF memoryVars, MemoryTyped, MemoryTypeOK, Working, UnderWay
<1>3. ASSUME NEW w \in Writers, NEW g \in Goals, RecordCreated(w, g) PROVE MemoryTyped'
  <2> DEFINE o == [op |-> "created", goal |-> g, task |-> made[g] + 1]
  <2>1. o \in Operations /\ made' \in [Goals -> 0 .. MaxRevisions]
    BY <1>1, <1>3 DEF RecordCreated, Operations, Revisions
  <2>2. BeginOperation(w, o)
    BY <1>3 DEF RecordCreated
  <2> HIDE DEF o
  <2>3. QED
    BY <2>1, <2>2, BeginTypes
<1>4. ASSUME NEW w \in Writers, NEW g \in Goals, NEW task \in 1 .. MaxRevisions, NEW status \in Endings,
             RecordOutcomeOf(w, g, task, status)
      PROVE  MemoryTyped'
  <2> DEFINE o == [op |-> "outcome", goal |-> g, task |-> task, status |-> status]
  <2>1. o \in Operations /\ made' = made
    BY <1>4 DEF RecordOutcomeOf, Operations, Revisions
  <2>2. BeginOperation(w, o)
    BY <1>4 DEF RecordOutcomeOf
  <2> HIDE DEF o
  <2>3. QED
    BY <1>1, <2>1, <2>2, BeginTypes
<1>5. ASSUME NEW w \in Writers, EnsureSession(w) \/ ClearSession(w) PROVE MemoryTyped'
  <2>1. [op |-> "ensure"] \in Operations /\ [op |-> "clear"] \in Operations
    BY DEF Operations
  <2>2. /\ made' = made
        /\ BeginOperation(w, [op |-> "ensure"]) \/ BeginOperation(w, [op |-> "clear"])
    BY <1>5 DEF EnsureSession, ClearSession
  <2>3. QED
    BY <1>1, <2>1, <2>2, BeginTypes
<1>6. ASSUME NEW w \in Writers, Store(w) PROVE MemoryTyped'
  BY <1>6, StoreTypes
<1>7. ASSUME NEW p \in Servers, ListSnapshots(p) PROVE MemoryTyped'
  <2>1. \A q \in Servers : copy'[q] = copy[q] \/ copy'[q] = stored
    BY <1>7 DEF ListSnapshots, MemoryTyped, MemoryTypeOK
  <2>2. MemoryTypeOK'
    BY <1>7, <2>1 DEF ListSnapshots, MemoryTyped, MemoryTypeOK, Elsewhere
  <2>3. QED
    BY <1>7, <2>2 DEF ListSnapshots, MemoryTyped, Working, UnderWay
<1>8. ASSUME NEW p \in Servers, RestartProcess(p) PROVE MemoryTyped'
  <2>1. \A q \in Servers : copy'[q] = copy[q] \/ copy'[q] = Absent
    BY <1>8 DEF RestartProcess, MemoryTyped, MemoryTypeOK
  <2>2. MemoryTypeOK'
    BY <1>8, <2>1 DEF RestartProcess, MemoryTyped, MemoryTypeOK, Absent
  <2>3. \A w \in Writers : writer'[w] = writer[w] \/ writer'[w] = Resting
    BY <1>8 DEF RestartProcess, MemoryTyped
  <2>4. \A w \in Writers : Working(w)'
    BY <2>3 DEF MemoryTyped, Working, UnderWay
  <2>5. writer' = [w \in Writers |-> writer'[w]]
    BY <1>8 DEF RestartProcess
  <2>6. QED
    BY <2>2, <2>4, <2>5 DEF MemoryTyped
<1>9. QED
  BY <1>2, <1>3, <1>4, <1>5, <1>6, <1>7, <1>8 DEF MemoryNext

\* The row of a session, the copies of it and what its operations make are snapshots: of
\* each root at most one entry, and no more entries and attempts than the limits, whatever
\* processes overwrite one another (record_task_created and record_task_outcome).
THEOREM MemoryTypesHold == MemorySpec => []MemoryTypeOK
<1>1. MemoryInit => MemoryTyped
  <2> SUFFICES ASSUME MemoryInit PROVE MemoryTyped
    OBVIOUS
  <2>1. replay = << >> /\ Snapshot(<< >>)
    BY NothingIsSnapshot DEF MemoryInit
  <2>2. Snapshot(replay)
    BY <2>1
  <2>3. made \in [Goals -> 0 .. MaxRevisions]
    BY SessionAssumption DEF MemoryInit
  <2>4. stored = {} /\ \A p \in Servers : copy[p] = {}
    BY DEF MemoryInit, Absent
  <2>5. shared \in BOOLEAN /\ crossed \in BOOLEAN
    BY DEF MemoryInit
  <2>6. MemoryTypeOK
    BY <2>2, <2>3, <2>4, <2>5 DEF MemoryTypeOK
  <2>7. QED
    BY <2>6 DEF MemoryInit, MemoryTyped, Working, UnderWay
<1>2. MemoryTyped => MemoryTypeOK
  BY DEF MemoryTyped
<1>3. QED
  BY <1>1, <1>2, MemoryTypesKeep, PTL DEF MemorySpec

-----------------------------------------------------------------------------
(* The types of the memories that agents keep: a task is of the agent that   *)
(* asked for it or of that of the task it descends from.                     *)

OfPeople(self) == self.does \in Choosing => self.agent \in People

TasksOfPeople ==
    /\ named \subseteq Records
    /\ Len(chain) <= MaxChain
    /\ \A i \in 1 .. Len(chain) : chain[i].agent \in People
    /\ \A a \in Askers : OfPeople(asker[a])

\* A request goes on, alone.
LEMMA AskerOfPeople ==
  ASSUME PersistentInv, TasksOfPeople, NEW a \in Askers, NEW self, OfPeople(self),
         asker' = [asker EXCEPT ![a] = self], chain' = chain, named' \subseteq Records
  PROVE  TasksOfPeople'
<1>1. \A b \in Askers : asker'[b] = IF b = a THEN self ELSE asker[b]
  BY DEF PersistentInv
<1>2. \A b \in Askers : OfPeople(asker'[b])
  BY <1>1 DEF TasksOfPeople
<1>3. QED
  BY <1>2 DEF TasksOfPeople

LEMMA UnaskedOfPeople == OfPeople(Unasked)
BY DEF OfPeople, Unasked, Choosing

\* A task is added, or the pins of one change.
LEMMA ChainOfPeople ==
  ASSUME PersistentInv, TasksOfPeople, named' = named, Len(chain') <= MaxChain,
         \A i \in 1 .. Len(chain') : chain'[i].agent \in People,
         asker' = asker \/ \E a \in Askers : asker' = [asker EXCEPT ![a] = Unasked]
  PROVE  TasksOfPeople'
<1>1. \A b \in Askers : asker'[b] = asker[b] \/ asker'[b] = Unasked
  BY DEF PersistentInv
<1>2. \A b \in Askers : OfPeople(asker'[b])
  BY <1>1, UnaskedOfPeople DEF TasksOfPeople
<1>3. QED
  BY <1>2 DEF TasksOfPeople

LEMMA AppendOfPeople ==
  ASSUME PersistentInv, TasksOfPeople, named' = named, Len(chain) < MaxChain,
         NEW row, chain' = Append(chain, row), row.agent \in People,
         asker' = asker \/ \E a \in Askers : asker' = [asker EXCEPT ![a] = Unasked]
  PROVE  TasksOfPeople'
<1>1. PICK S : chain \in Seq(S)
  BY DEF PersistentInv
<1>2. chain \in Seq(S \cup {row})
  BY <1>1
<1>3. /\ Len(chain) \in Nat /\ Len(chain') = Len(chain) + 1 /\ chain'[Len(chain) + 1] = row
      /\ \A i \in 1 .. Len(chain) : chain'[i] = chain[i]
  BY <1>2
<1>4. Len(chain') <= MaxChain
  BY <1>3, PersistentAssumption
<1>5. \A i \in 1 .. Len(chain') : chain'[i].agent \in People
  BY <1>3 DEF TasksOfPeople
<1>6. QED
  BY <1>4, <1>5, ChainOfPeople

LEMMA RequestsOfPeople ==
  ASSUME PersistentInv, TasksOfPeople, NEW a \in Askers,
         \/ \E m \in Records : Promote(a, m) \/ \E p \in People : DeleteRemote(a, p, m)
         \/ CreateRecord(a) \/ DisableRecord(a) \/ LookAt(a) \/ LoseAsker(a)
  PROVE  TasksOfPeople'
<1>1. ASSUME NEW m \in Records, Promote(a, m) PROVE TasksOfPeople'
  <2>1. PICK answered \in BOOLEAN :
          asker' = [asker EXCEPT ![a] = [does |-> "promote", memory |-> m, names |-> answered]]
    BY <1>1 DEF Promote
  <2> DEFINE self == [does |-> "promote", memory |-> m, names |-> answered]
  <2>2. self.does = "promote"
    OBVIOUS
  <2> HIDE DEF self
  <2>3. OfPeople(self)
    BY <2>2 DEF OfPeople, Choosing
  <2>4. QED
    BY <1>1, <2>1, <2>3, AskerOfPeople DEF Promote, TasksOfPeople, self
<1>2. ASSUME NEW m \in Records, NEW p \in People, DeleteRemote(a, p, m) PROVE TasksOfPeople'
  <2> DEFINE self == [does |-> "disable", memory |-> m]
  <2>1. self.does = "disable"
    OBVIOUS
  <2> HIDE DEF self
  <2>2. OfPeople(self)
    BY <2>1 DEF OfPeople, Choosing
  <2>3. QED
    BY <1>2, <2>2, AskerOfPeople DEF DeleteRemote, TasksOfPeople, self
<1>3. CASE CreateRecord(a)
  <2>1. asker[a].memory \in Records
    BY <1>3 DEF CreateRecord, PersistentInv, KeeperHolds
  <2>2. named' \subseteq Records
    BY <1>3, <2>1 DEF CreateRecord, TasksOfPeople
  <2>3. QED
    BY <1>3, <2>2, UnaskedOfPeople, AskerOfPeople DEF CreateRecord, Ends
<1>4. CASE DisableRecord(a) \/ LoseAsker(a)
  BY <1>4, UnaskedOfPeople, AskerOfPeople DEF DisableRecord, LoseAsker, Ends, TasksOfPeople
<1>5. CASE LookAt(a)
  <2>1. PICK m \in asker[a].todo :
          \/ Ends(a)
          \/ asker' = [asker EXCEPT ![a].todo = @ \ {m}, ![a].got = @ \cup {m}]
    BY <1>5 DEF LookAt
  <2>2. UNCHANGED <<chain, named>>
    BY <1>5 DEF LookAt
  <2>3. CASE Ends(a)
    BY <2>2, <2>3, UnaskedOfPeople, AskerOfPeople DEF Ends, TasksOfPeople
  <2>4. CASE asker' = [asker EXCEPT ![a].todo = @ \ {m}, ![a].got = @ \cup {m}]
    <3> DEFINE self == [asker[a] EXCEPT !.todo = @ \ {m}, !.got = @ \cup {m}]
    <3>1. asker' = [asker EXCEPT ![a] = self]
      BY <2>4
    <3>2. self.does = asker[a].does /\ self.agent = asker[a].agent
      OBVIOUS
    <3> HIDE DEF self
    <3>3. OfPeople(self)
      BY <3>2 DEF OfPeople, TasksOfPeople
    <3>4. QED
      BY <2>2, <3>1, <3>3, AskerOfPeople DEF TasksOfPeople
  <2>5. QED
    BY <2>1, <2>3, <2>4
<1>6. QED
  BY <1>1, <1>2, <1>3, <1>4, <1>5

LEMMA ChoosesOfPeople ==
  ASSUME PersistentInv, TasksOfPeople, NEW a \in Askers, NEW kind, NEW base, NEW p \in People, NEW ids,
         Chooses(a, kind, base, p, ids)
  PROVE  TasksOfPeople'
<1> DEFINE self == [does |-> kind, base |-> base, agent |-> p, todo |-> ids, got |-> {}, barred |-> Disabled]
<1>1. self.agent = p /\ asker' = [asker EXCEPT ![a] = self] /\ UNCHANGED <<chain, named>>
  BY DEF Chooses
<1> HIDE DEF self
<1>2. OfPeople(self)
  BY <1>1 DEF OfPeople
<1>3. QED
  BY <1>1, <1>2, AskerOfPeople DEF TasksOfPeople

LEMMA WritingOfPeople ==
  ASSUME PersistentInv, TasksOfPeople, NEW a \in Askers, WriteTask(a) \/ WritePins(a)
  PROVE  TasksOfPeople'
<1> DEFINE self == asker[a]
<1>1. ChooserHolds(self, chain, record) /\ OfPeople(self)
  BY DEF PersistentInv, TasksOfPeople
<1>2. CASE WriteTask(a)
  <2> DEFINE row == IF self.does = "create"
                    THEN [root |-> Len(chain) + 1, agent |-> self.agent, context |-> Given(a)]
                    ELSE Child(self.base, Given(a))
  <2>1. /\ self.does \in {"create", "revise"} /\ Len(chain) < MaxChain /\ named' = named
        /\ chain' = Append(chain, row) /\ asker' = [asker EXCEPT ![a] = Unasked]
    BY <1>2 DEF WriteTask, Ends
  <2>2. row.agent \in People
    <3>1. CASE self.does = "create"
      BY <1>1, <3>1 DEF OfPeople, Choosing
    <3>2. CASE self.does = "revise"
      <4>1. self.base \in 1 .. Len(chain)
        BY <1>1, <3>2 DEF ChooserHolds, Choosing
      <4>2. Child(self.base, Given(a)).agent = chain[self.base].agent
        BY DEF Child
      <4>3. QED
        BY <3>2, <4>1, <4>2 DEF TasksOfPeople
    <3>3. QED
      BY <2>1, <3>1, <3>2
  <2> HIDE DEF row
  <2>3. QED
    BY <2>1, <2>2, AppendOfPeople
<1>3. CASE WritePins(a)
  <2> DEFINE i == self.base
             context == Given(a)
  <2>1. /\ self.does = "pin" /\ named' = named
        /\ chain' = [chain EXCEPT ![i].context = context] /\ asker' = [asker EXCEPT ![a] = Unasked]
    BY <1>3 DEF WritePins, Ends
  <2>2. i \in 1 .. Len(chain)
    BY <1>1, <2>1 DEF ChooserHolds, Choosing
  <2>3. PICK S : chain \in Seq(S)
    BY DEF PersistentInv
  <2> HIDE DEF context, i
  <2>4. Len(chain') = Len(chain) /\ \A k \in 1 .. Len(chain) : k # i => chain'[k] = chain[k]
    BY <2>1, <2>3
  <2>5. chain'[i].agent = chain[i].agent
    <3>1. RowHolds(i, chain[i], record)
      BY <2>2 DEF PersistentInv
    <3>2. chain'[i] = [chain[i] EXCEPT !.context = context]
      BY <2>1, <2>2, <2>3
    <3>3. QED
      BY <3>1, <3>2 DEF RowHolds
  <2>6. Len(chain') <= MaxChain /\ \A k \in 1 .. Len(chain') : chain'[k].agent \in People
    BY <2>2, <2>4, <2>5 DEF TasksOfPeople
  <2>7. QED
    BY <2>1, <2>6, ChainOfPeople
<1>4. QED
  BY <1>2, <1>3

LEMMA TasksOfPeopleKeep ==
  ASSUME PersistentInv, TasksOfPeople, [PersistentNext]_persistentVars
  PROVE  TasksOfPeople'
<1>1. CASE UNCHANGED persistentVars
  BY <1>1 DEF persistentVars, TasksOfPeople, OfPeople
<1>2. DOMAIN chain = 1 .. Len(chain)
  BY DEF PersistentInv
<1>3. ASSUME NEW a \in Askers, NEW i \in DOMAIN chain, NEW m \in Records, Pin(a, i, m) \/ Unpin(a, i, m)
      PROVE  TasksOfPeople'
  <2>1. chain[i].agent \in People
    BY <1>2 DEF TasksOfPeople
  <2>2. QED
    BY <1>3, <2>1, ChoosesOfPeople DEF Pin, Unpin
<1>4. ASSUME NEW a \in Askers, NEW i \in DOMAIN chain,
             ReviseWithRoots(a, i) \/ \E ids \in SUBSET Records : ReviseWith(a, i, ids)
      PROVE  TasksOfPeople'
  <2>1. chain[i].agent \in People
    BY <1>2 DEF TasksOfPeople
  <2>2. QED
    BY <1>4, <2>1, ChoosesOfPeople DEF ReviseWithRoots, ReviseWith
<1>5. ASSUME NEW a \in Askers, NEW p \in People, NEW ids \in SUBSET Records, CreateRoot(a, p, ids)
      PROVE  TasksOfPeople'
  BY <1>5, ChoosesOfPeople DEF CreateRoot
<1>6. ASSUME NEW i \in DOMAIN chain, Inherit(i) \/ StartAfresh(i) PROVE TasksOfPeople'
  <2>1. chain[i].agent \in People
    BY <1>2 DEF TasksOfPeople
  <2>2. PICK context : /\ chain' = Append(chain, Child(i, context)) /\ UNCHANGED <<named, asker>>
                       /\ Len(chain) < MaxChain
    BY <1>6 DEF Inherit, StartAfresh
  <2>3. Child(i, context).agent \in People
    BY <2>1 DEF Child
  <2>4. QED
    BY <2>2, <2>3, AppendOfPeople
<1>7. ASSUME NEW a \in Askers,
             \/ \E m \in Records : Promote(a, m) \/ \E p \in People : DeleteRemote(a, p, m)
             \/ CreateRecord(a) \/ DisableRecord(a) \/ LookAt(a) \/ LoseAsker(a)
      PROVE  TasksOfPeople'
  BY <1>7, RequestsOfPeople
<1>8. ASSUME NEW a \in Askers, WriteTask(a) \/ WritePins(a) PROVE TasksOfPeople'
  BY <1>8, WritingOfPeople
<1>9. QED
  BY <1>1, <1>3, <1>4, <1>5, <1>6, <1>7, <1>8 DEF PersistentNext

LEMMA PersistentTypes == PersistentInv /\ TasksOfPeople => PersistentTypeOK
<1> SUFFICES ASSUME PersistentInv, TasksOfPeople PROVE PersistentTypeOK
  OBVIOUS
<1>1. DOMAIN chain = 1 .. Len(chain) /\ Len(chain) \in Nat
  BY DEF PersistentInv
<1>2. ASSUME NEW i \in DOMAIN chain PROVE chain[i] \in ChainRow /\ chain[i].root <= i
  <2> DEFINE row == chain[i]
  <2>1. RowHolds(i, row, record) /\ row.agent \in People
    BY <1>1, <1>2 DEF PersistentInv, TasksOfPeople
  <2> HIDE DEF row
  <2>2. row.context \in Context
    BY <2>1 DEF RowHolds, Holds, Context
  <2>3. row.root \in 1 .. MaxChain /\ row.root <= i
    BY <1>1, <2>1, PersistentAssumption DEF RowHolds, TasksOfPeople
  <2>4. row \in ChainRow
    BY <2>1, <2>2, <2>3 DEF RowHolds, ChainRow
  <2>5. QED
    BY <2>3, <2>4 DEF row
<1>3. QED
  BY <1>2 DEF PersistentTypeOK, PersistentInv, TasksOfPeople

\* Of every memory a row says once what became of it, and a task is one of an agent, given
\* memories that exist, and descends from a root that was created before it (create and
\* disable of agent_memories, inherit_persistent_memory_context).
THEOREM PersistentTypesHold == PersistentSpec => []PersistentTypeOK
<1>1. PersistentInit => TasksOfPeople
  <2> SUFFICES ASSUME PersistentInit PROVE TasksOfPeople
    OBVIOUS
  <2>1. chain = << >> /\ Len(chain) = 0 /\ named = {} /\ \A a \in Askers : asker[a] = Unasked
    BY DEF PersistentInit
  <2>2. QED
    BY <2>1, UnaskedOfPeople, PersistentAssumption DEF TasksOfPeople
<1>2. QED
  BY <1>1, PersistentStarts, PersistentKeeps, TasksOfPeopleKeep, PersistentTypes, PTL DEF PersistentSpec
================================================================================
