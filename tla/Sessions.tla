------------------------------- MODULE Sessions -------------------------------
(***************************************************************************)
(* Users and their sessions (internal/application/auth/service.go over      *)
(* internal/infrastructure/database/auth_repo.go), the middleware that      *)
(* authenticates a request (internal/transport/http/middleware_auth.go) and *)
(* the cookie a browser keeps.  A request is a chain of statements, each of *)
(* them its own transaction, and requests run concurrently.                 *)
(*                                                                          *)
(* Tokens are random and never repeat: they are numbered in the order they  *)
(* are issued.  A session may be of any age: whether it is past half of its *)
(* lifetime or expired is a choice each time the code looks.  A password is *)
(* right or the request is not there.                                       *)
(***************************************************************************)
EXTENDS Naturals, FiniteSets, Functions

CONSTANTS
    Accounts,
    Admins,      \* the users that start as administrators
    Newcomers,   \* the users that have yet to register
    Requests,    \* bound: the requests there are
    Changes,     \* what an administrator changes: records [role, status]
    MaxTokens,   \* bound: sessions ever created, the initial ones among them
    Nil,
    Clear        \* the answer clears the cookie

Tokens == 1..MaxTokens
Roles == {"user", "admin"}
Statuses == {"absent", "active", "disabled"}
Kinds == {"login", "read", "logout", "socket", "update"}

ASSUME SessionsAssumption ==
    /\ Admins \subseteq Accounts /\ Newcomers \subseteq Accounts \ Admins
    /\ MaxTokens \in Nat
    /\ Changes \subseteq [role : Roles \union {Nil}, status : {"active", "disabled", Nil}]
    /\ Admins # {} /\ Nil \notin Accounts /\ Nil \notin Tokens /\ Nil \notin Roles
    /\ Clear \notin Tokens \union {Nil}
    /\ IsFiniteSet(Accounts) /\ Cardinality(Accounts \ Newcomers) <= MaxTokens

VARIABLES
    statusOf, roleOf,   \* the rows of users
    live,           \* the tokens with a row in sessions
    issued,         \* how many tokens there have been
    owner,          \* the user of a token
    login,          \* history: the token of the login a token descends from
    jar,            \* the session cookie of each user's browser
    pc,             \* where each request is
    req,            \* what it is: [kind, who, tok, fresh, target, change]
    cookie,         \* the token its answer sets, Clear, or Nil to keep the cookie
    missed,         \* history: tokens no sweep of a disabled user reached
    disturbed,      \* history: users whose cookie and session may have come apart
    raced           \* history: an administrator's change overlapped another one

rows == <<live, issued, owner, login>>
notes == <<missed, disturbed, raced>>
sessionVars == <<statusOf, roleOf, rows, jar, pc, req, cookie, notes>>

NoRequest == [kind |-> "read", who |-> Nil, tok |-> Nil, fresh |-> Nil,
              target |-> Nil, change |-> [role |-> Nil, status |-> Nil]]

SessionsInit ==
    /\ statusOf = [u \in Accounts |-> IF u \in Newcomers THEN "absent" ELSE "active"]
    /\ roleOf = [u \in Accounts |-> IF u \in Admins THEN "admin" ELSE "user"]
    /\ issued = Cardinality(Accounts \ Newcomers) /\ live = 1..issued
    /\ \E who \in Bijection(live, Accounts \ Newcomers) :
          /\ owner = [t \in Tokens |-> IF t \in live THEN who[t] ELSE Nil]
          /\ jar = [u \in Accounts |-> IF u \in Newcomers THEN Nil
                                   ELSE CHOOSE t \in live : who[t] = u]
    /\ login = [t \in Tokens |-> t]
    /\ pc = [r \in Requests |-> "idle"]
    /\ req = [r \in Requests |-> NoRequest]
    /\ cookie = [r \in Requests |-> Nil]
    /\ missed = {} /\ disturbed = {} /\ raced = FALSE

Proceed(r, s) == pc' = [pc EXCEPT ![r] = s]
Answer(r, c) == Proceed(r, "answered") /\ cookie' = [cookie EXCEPT ![r] = c]
Disturb(u) == disturbed' = disturbed \union {u}

Quiet(u) == \A r \in Requests : pc[r] \notin {"idle", "done"} => req[r].who # u

\* A new request; a second one of the same browser may overlap the first.

Send(r, u, k) ==
    /\ pc[r] = "idle"
    /\ k # "login" => jar[u] # Nil
    /\ \E v \in Accounts, c \in Changes :
          /\ k # "update" => v = u /\ c = CHOOSE x \in Changes : TRUE
          /\ req' = [req EXCEPT ![r] = [NoRequest EXCEPT !.kind = k, !.who = u, !.tok = jar[u],
                        !.target = IF k = "update" THEN v ELSE Nil,
                        !.change = IF k = "update" THEN c ELSE NoRequest.change]]
    /\ Proceed(r, IF k = "login" THEN "login" ELSE "find")
    /\ cookie' = [cookie EXCEPT ![r] = Nil]
    /\ disturbed' = IF Quiet(u) THEN disturbed ELSE disturbed \union {u}
    /\ UNCHANGED <<statusOf, roleOf, rows, jar, missed, raced>>

\* Register: the row of the user, then (LoginCreate) its session.
Register(r) ==
    LET u == req[r].who IN
    /\ pc[r] = "login" /\ statusOf[u] = "absent"
    /\ statusOf' = [statusOf EXCEPT ![u] = "active"]
    /\ Proceed(r, "create")
    /\ UNCHANGED <<roleOf, rows, jar, req, cookie, notes>>

\* Login reads the user once, hash and status together.
LoginRead(r) ==
    /\ pc[r] = "login" /\ statusOf[req[r].who] # "absent"
    /\ IF statusOf[req[r].who] = "active" THEN Proceed(r, "create") /\ UNCHANGED cookie
       ELSE Answer(r, Nil)
    /\ UNCHANGED <<statusOf, roleOf, rows, jar, req, notes>>

\* CreateSession: a new row, of a login or of a token that is rotated.
CreateSession(u, from) ==
    LET t == issued + 1 IN
    /\ t \in Tokens
    /\ issued' = t
    /\ live' = live \union {t}
    /\ owner' = [owner EXCEPT ![t] = u]
    /\ login' = [login EXCEPT ![t] = IF from = Nil THEN t ELSE login[from]]
    /\ missed' = IF statusOf[u] = "disabled" THEN missed \union {t} ELSE missed

\* The other statements of the repository.
FindSession(t) == t \in live
DeleteSession(t) == live' = live \ {t}
DeleteExpiredSessions(old) == live' = live \ old
DeleteUserSessions(u) == live' = {t \in live : owner[t] # u}
UpdateUserRole(u, new) == roleOf' = [roleOf EXCEPT ![u] = new]
UpdateUserStatus(u, new) == statusOf' = [statusOf EXCEPT ![u] = new]

LoginCreate(r) ==
    /\ pc[r] = "create"
    /\ CreateSession(req[r].who, Nil)
    /\ Answer(r, issued + 1)
    /\ UNCHANGED <<statusOf, roleOf, jar, req, disturbed, raced>>

\* GetSessionByTokenHash finds nothing: 401, and the cookies are cleared.
Unknown(r) ==
    /\ pc[r] = "find" /\ ~FindSession(req[r].tok)
    /\ Answer(r, Clear)
    /\ UNCHANGED <<statusOf, roleOf, rows, jar, req, notes>>

\* The session has expired: 401, and it is deleted; an error is ignored.
Stale(r) ==
    /\ pc[r] = "find" /\ FindSession(req[r].tok)
    /\ DeleteSession(req[r].tok) \/ UNCHANGED live
    /\ Answer(r, Clear)
    /\ Disturb(req[r].who)
    /\ UNCHANGED <<statusOf, roleOf, issued, owner, login, jar, req, missed, raced>>

Found(r) ==
    /\ pc[r] = "find" /\ FindSession(req[r].tok)
    /\ Proceed(r, "user")
    /\ UNCHANGED <<statusOf, roleOf, rows, jar, req, cookie, notes>>

\* The user is disabled: 401.  Otherwise the role is the one of this moment, and
\* a session older than half of the server's lifetime is rotated.
CheckUser(r) ==
    LET u == owner[req[r].tok] IN
    /\ pc[r] = "user"
    /\ IF statusOf[u] # "active" THEN Answer(r, Clear) /\ UNCHANGED req
       ELSE /\ Proceed(r, "rotate") \/ Proceed(r, "limit")
            /\ req' = [req EXCEPT ![r].kind =
                          IF @ = "update" /\ roleOf[u] # "admin" THEN "read" ELSE @]
            /\ UNCHANGED cookie
    /\ UNCHANGED <<statusOf, roleOf, rows, jar, notes>>

\* The database fails while a session is authenticated: 401, cookies cleared.
AuthenticateFails(r) ==
    /\ pc[r] \in {"find", "user", "rotate"}
    /\ Answer(r, Clear)
    /\ Disturb(req[r].who)
    /\ UNCHANGED <<statusOf, roleOf, rows, jar, req, missed, raced>>

\* Rotation, first statement: the new session.
RotateCreate(r) ==
    /\ pc[r] = "rotate"
    /\ CreateSession(owner[req[r].tok], req[r].tok)
    /\ req' = [req EXCEPT ![r].fresh = issued + 1]
    /\ Proceed(r, "rotated")
    /\ UNCHANGED <<statusOf, roleOf, jar, cookie, disturbed, raced>>

\* Mutant of RotateDelete: the old session stays.
RotateKeep(r) ==
    /\ pc[r] = "rotated"
    /\ Proceed(r, "limit")
    /\ UNCHANGED <<statusOf, roleOf, rows, jar, req, cookie, notes>>

\* Rotation, second statement: the old session is deleted; an error is ignored.
RotateDelete(r) ==
    /\ pc[r] = "rotated"
    /\ Proceed(r, "limit")
    /\ \/ DeleteSession(req[r].tok) /\ UNCHANGED disturbed
       \/ UNCHANGED live /\ Disturb(req[r].who)
    /\ UNCHANGED <<statusOf, roleOf, issued, owner, login, jar, req, cookie,
                   missed, raced>>

\* The limit of requests per user is exceeded: 429, before the rotated token is
\* put into the answer.
Limited(r) ==
    /\ pc[r] = "limit" /\ req[r].kind # "socket"
    /\ Answer(r, Nil)
    /\ disturbed' = IF req[r].fresh = Nil THEN disturbed ELSE disturbed \union {req[r].who}
    /\ UNCHANGED <<statusOf, roleOf, rows, jar, req, missed, raced>>

\* Mutant of Admit: the rotated token does not reach the answer.
AdmitSilently(r) ==
    /\ pc[r] = "limit" /\ req[r].kind # "socket"
    /\ Proceed(r, "handle")
    /\ UNCHANGED <<statusOf, roleOf, rows, jar, req, cookie, notes>>

\* The request goes to its handler, the rotated token into the answer.
Admit(r) ==
    /\ pc[r] = "limit" /\ req[r].kind # "socket"
    /\ Proceed(r, "handle")
    /\ cookie' = [cookie EXCEPT ![r] = IF req[r].fresh = Nil THEN Nil ELSE req[r].fresh]
    /\ UNCHANGED <<statusOf, roleOf, rows, jar, req, notes>>

\* The validator of WebSocket connections drops the rotated token.
Connect(r) ==
    /\ pc[r] = "limit" /\ req[r].kind = "socket"
    /\ Answer(r, Nil)
    /\ disturbed' = IF req[r].fresh = Nil THEN disturbed ELSE disturbed \union {req[r].who}
    /\ UNCHANGED <<statusOf, roleOf, rows, jar, req, missed, raced>>

\* Any other handler; an update without the permission (403) is one of them.
Read(r) ==
    /\ pc[r] = "handle" /\ req[r].kind = "read"
    /\ Proceed(r, "answered")
    /\ UNCHANGED <<statusOf, roleOf, rows, jar, req, cookie, notes>>

\* Logout deletes the session of the token the request came with; if that fails,
\* 500 and the cookies stay.
Logout(r) ==
    /\ pc[r] = "handle" /\ req[r].kind = "logout"
    /\ \/ DeleteSession(req[r].tok) /\ Answer(r, Clear)
       \/ Proceed(r, "answered") /\ UNCHANGED <<live, cookie>>
    /\ UNCHANGED <<statusOf, roleOf, issued, owner, login, jar, req,
                   missed, disturbed, raced>>

\* Mutant of Update: an administrator may change the own row.
UpdateAnyone(r) ==
    /\ pc[r] = "handle" /\ req[r].kind = "update"
    /\ Proceed(r, IF statusOf[req[r].target] = "absent" THEN "answered" ELSE "role")
    /\ UNCHANGED <<statusOf, roleOf, rows, jar, req, cookie, notes>>

\* UpdateUser: nobody changes the own row (403), the user must exist (404).
Update(r) ==
    /\ pc[r] = "handle" /\ req[r].kind = "update"
    /\ Proceed(r, IF req[r].target = req[r].who \/ statusOf[req[r].target] = "absent"
               THEN "answered" ELSE "role")
    /\ UNCHANGED <<statusOf, roleOf, rows, jar, req, cookie, notes>>

\* Another change is past the check of its author's role.
Overlaps(r) ==
    \E s \in Requests \ {r} : req[s].kind = "update"
        /\ pc[s] \in {"rotate", "rotated", "limit", "handle", "role", "status"}

WriteRole(r) ==
    LET c == req[r].change IN
    /\ pc[r] = "role"
    /\ IF c.role = Nil THEN UNCHANGED roleOf ELSE UpdateUserRole(req[r].target, c.role)
    /\ raced' = (raced \/ (c.role # Nil /\ Overlaps(r)))
    /\ Proceed(r, IF c.status = Nil THEN "answered" ELSE "status")
    /\ UNCHANGED <<statusOf, rows, jar, req, cookie, missed, disturbed>>

\* Mutant of WriteStatus: a disabled user's sessions are not swept.
WriteStatusOnly(r) ==
    LET c == req[r].change IN
    /\ pc[r] = "status"
    /\ UpdateUserStatus(req[r].target, c.status)
    /\ raced' = (raced \/ Overlaps(r))
    /\ Proceed(r, "answered")
    /\ UNCHANGED <<roleOf, rows, jar, req, cookie, missed, disturbed>>

WriteStatus(r) ==
    LET c == req[r].change IN
    /\ pc[r] = "status"
    /\ UpdateUserStatus(req[r].target, c.status)
    /\ raced' = (raced \/ Overlaps(r))
    /\ Proceed(r, IF c.status = "disabled" THEN "sweep" ELSE "answered")
    /\ UNCHANGED <<roleOf, rows, jar, req, cookie, missed, disturbed>>

\* DeleteUserSessions of a disabled user; an error is ignored.
Sweep(r) ==
    /\ pc[r] = "sweep"
    /\ \/ DeleteUserSessions(req[r].target) /\ UNCHANGED missed
       \/ UNCHANGED live /\ missed' = missed \union {t \in live : owner[t] = req[r].target}
    /\ Disturb(req[r].target)
    /\ Proceed(r, "answered")
    /\ UNCHANGED <<statusOf, roleOf, issued, owner, login, jar, req, cookie, raced>>

\* The answer reaches the browser, in any order.
Respond(r) ==
    LET u == req[r].who IN
    /\ pc[r] = "answered"
    /\ jar' = [jar EXCEPT ![u] = IF cookie[r] = Nil THEN @
                              ELSE IF cookie[r] = Clear THEN Nil ELSE cookie[r]]
    /\ Proceed(r, "done")
    /\ req' = [req EXCEPT ![r] = NoRequest]
    /\ cookie' = [cookie EXCEPT ![r] = Nil]
    /\ UNCHANGED <<statusOf, roleOf, rows, notes>>

\* The worker's cleanup, DeleteExpiredSessions; the owners are logged out.
Cleanup ==
    \E old \in SUBSET live \ {{}} :
        /\ DeleteExpiredSessions(old)
        /\ disturbed' = disturbed \union {owner[t] : t \in old}
        /\ UNCHANGED <<statusOf, roleOf, issued, owner, login, jar, pc, req, cookie, missed, raced>>

SessionStep(r) ==
    \/ Register(r) \/ LoginRead(r) \/ LoginCreate(r)
    \/ Unknown(r) \/ Stale(r) \/ Found(r) \/ CheckUser(r) \/ AuthenticateFails(r)
    \/ RotateCreate(r) \/ RotateDelete(r)
    \/ Limited(r) \/ Admit(r) \/ Connect(r)
    \/ Read(r) \/ Logout(r)
    \/ Update(r) \/ WriteRole(r) \/ WriteStatus(r) \/ Sweep(r)
    \/ Respond(r)

SessionsNext ==
    \/ \E r \in Requests : SessionStep(r) \/ \E u \in Accounts, k \in Kinds : Send(r, u, k)
    \/ Cleanup

SessionsSpec == SessionsInit /\ [][SessionsNext]_sessionVars

-----------------------------------------------------------------------------
(* Properties *)

RequestType ==
    [kind : Kinds, who : Accounts \union {Nil}, tok : Tokens \union {Nil},
     fresh : Tokens \union {Nil}, target : Accounts \union {Nil},
     change : [role : Roles \union {Nil}, status : {"active", "disabled", Nil}]]

Places == {"idle", "login", "create", "find", "user", "rotate", "rotated", "limit",
           "handle", "role", "status", "sweep", "answered", "done"}

\* The type of the state.
SessionsTypeOK ==
    /\ statusOf \in [Accounts -> Statuses] /\ roleOf \in [Accounts -> Roles]
    /\ issued \in 0..MaxTokens /\ live \subseteq 1..issued
    /\ owner \in [Tokens -> Accounts \union {Nil}] /\ login \in [Tokens -> Tokens]
    /\ \A t \in 1..issued : owner[t] \in Accounts
    /\ jar \in [Accounts -> Tokens \union {Nil}]
    /\ pc \in [Requests -> Places] /\ req \in [Requests -> RequestType]
    /\ cookie \in [Requests -> Tokens \union {Nil, Clear}]
    /\ missed \subseteq Tokens
    /\ disturbed \subseteq Accounts /\ raced \in BOOLEAN

\* A disabled user has no session, except one created behind the back of the
\* sweep by a request that had already seen the user active, one whose sweep
\* failed, and those a sweep is about to delete.
DisabledIsSwept ==
    \A t \in live : statusOf[owner[t]] = "disabled" =>
        \/ t \in missed
        \/ \E r \in Requests : pc[r] = "sweep" /\ req[r].target = owner[t]

\* Between requests a browser that sends them one by one holds a session that is
\* there.  The ways to lose it are all in disturbed: it expired, its user was
\* disabled, requests overlapped, the database failed, a 429 or a WebSocket
\* connection met a rotation.
InSync ==
    \A u \in Accounts \ disturbed : Quiet(u) /\ jar[u] # Nil =>
        jar[u] \in live

\* A login never leaves two sessions behind, however often it was rotated.
OneSessionPerLogin ==
    \A u \in Accounts \ disturbed : Quiet(u) =>
        \A s, t \in live : owner[s] = u /\ login[s] = login[t] => s = t

\* The cookies of the browsers and the sessions of the table belong together: a browser
\* at rest holds a live one, and a login never leaves a second one behind (rotate,
\* Logout, setSessionCookie).
CookiesMatchSessions == SessionsTypeOK /\ InSync /\ OneSessionPerLogin

\* Administrators cannot lock everybody out, as long as they change users one
\* after the other.
SomeAdmin == raced \/ \E u \in Accounts : roleOf[u] = "admin" /\ statusOf[u] = "active"

\* The administrators stay in command: who is disabled is out, and somebody is left to
\* enable again (UpdateUser and the sweep of sessions, against rotations and logins).
AccountsAreGoverned == DisabledIsSwept /\ SomeAdmin

\* What the comment of Logout promises: the session is revoked at once.
LogoutRevokes ==
    [][\A r \in Requests :
          pc[r] = "handle" /\ req[r].kind = "logout" /\ cookie'[r] = Clear =>
              \A t \in live' : login[t] # login[req[r].tok]]_sessionVars
=============================================================================
