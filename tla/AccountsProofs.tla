--------------------------- MODULE AccountsProofs ---------------------------
(* Proofs about Sessions and AdminApi, for any users, requests, changes,     *)
(* tokens, keys and permissions of a key.                                    *)
EXTENDS Sessions, AdminApi, TLAPS, FiniteSetTheorems

-----------------------------------------------------------------------------
(* Sessions *)

Active(r) == pc[r] \notin {"idle", "done"}

\* A request is past the check of its author's role and before the last write.
Ruling == {"rotate", "rotated", "limit", "handle", "role", "status"}
Inside == Ruling \union {"find", "user", "sweep"}

\* Every token in a cookie or a request has been issued, to the user it is of, and a
\* rotated one descends from a login of the same user.
OwnTokens ==
    /\ \A u \in Accounts : jar[u] # Nil => jar[u] \in 1..issued /\ owner[jar[u]] = u
    /\ \A r \in Requests : Active(r) =>
          /\ req[r].who \in Accounts
          /\ req[r].tok # Nil => req[r].tok \in 1..issued /\ owner[req[r].tok] = req[r].who
          /\ req[r].fresh # Nil => req[r].fresh \in 1..issued /\ owner[req[r].fresh] = req[r].who
          /\ cookie[r] \in Tokens => cookie[r] \in 1..issued /\ owner[cookie[r]] = req[r].who
    /\ \A t \in 1..issued : login[t] \in 1..issued /\ owner[login[t]] = owner[t]

\* What a request is made of where it is: its token, the rotated one and the cookie of
\* its answer, and, in an update past its check, a row that is not the author's.
Shape(r) ==
    /\ ~Active(r) => req[r] = NoRequest
    /\ pc[r] \in Inside => req[r].tok # Nil
    /\ pc[r] \in {"role", "status", "sweep"} =>
          req[r].kind = "update" /\ req[r].target # req[r].who
    /\ req[r].kind = "update" => req[r].target # Nil
    /\ pc[r] = "status" => req[r].change.status # Nil
    /\ pc[r] \in {"find", "user", "rotate"} => req[r].fresh = Nil
    /\ pc[r] \in {"login", "create", "find", "user", "rotate", "rotated", "limit"} => cookie[r] = Nil
    /\ pc[r] \in {"handle", "role", "status", "sweep"} => cookie[r] = req[r].fresh
    /\ pc[r] = "rotated" => req[r].fresh # Nil

Shapely == SessionsTypeOK /\ OwnTokens /\ \A r \in Requests : Shape(r)

LEMMA SessionsInitType == SessionsInit => SessionsTypeOK
<1> SUFFICES ASSUME SessionsInit PROVE SessionsTypeOK
  OBVIOUS
<1>1. IsFiniteSet(Accounts \ Newcomers)
  BY SessionsAssumption, FS_Difference
<1>2. issued \in 0..MaxTokens
  BY <1>1, SessionsAssumption, FS_CardinalityType DEF SessionsInit
<1>3. live = 1..issued /\ live \subseteq Tokens
  <2>1. live = 1..issued /\ MaxTokens \in Nat
    BY SessionsAssumption DEF SessionsInit
  <2> QED
    BY <1>2, <2>1 DEF Tokens
<1>4. PICK who \in Bijection(live, Accounts \ Newcomers) :
          /\ owner = [t \in Tokens |-> IF t \in live THEN who[t] ELSE Nil]
          /\ jar = [u \in Accounts |-> IF u \in Newcomers THEN Nil
                                   ELSE CHOOSE t \in live : who[t] = u]
  BY DEF SessionsInit
<1>5. /\ who \in [live -> Accounts \ Newcomers]
      /\ \A u \in Accounts \ Newcomers : \E t \in live : who[t] = u
  BY <1>4 DEF Bijection, Injection, Surjection
<1>6. \A u \in Accounts \ Newcomers : jar[u] \in live /\ who[jar[u]] = u
  BY <1>4, <1>5
<1>7. owner \in [Tokens -> Accounts \union {Nil}] /\ \A t \in 1..issued : owner[t] \in Accounts
  BY <1>3, <1>4, <1>5
<1>8. jar \in [Accounts -> Tokens \union {Nil}]
  <2>1. \A u \in Accounts : jar[u] \in Tokens \union {Nil}
    BY <1>3, <1>4, <1>6
  <2> QED
    BY <1>4, <2>1
<1>9. req \in [Requests -> RequestType]
  BY DEF SessionsInit, NoRequest, RequestType, Kinds
<1>10. statusOf \in [Accounts -> Statuses] /\ roleOf \in [Accounts -> Roles]
  BY DEF SessionsInit, Statuses, Roles
<1>11. login \in [Tokens -> Tokens] /\ pc \in [Requests -> Places]
  BY DEF SessionsInit, Places
<1>12. cookie \in [Requests -> Tokens \union {Nil, Clear}]
  BY DEF SessionsInit
<1>13. missed \subseteq Tokens /\ disturbed \subseteq Accounts /\ raced \in BOOLEAN
  BY DEF SessionsInit
<1> QED
  BY <1>2, <1>3, <1>7, <1>8, <1>9, <1>10, <1>11, <1>12, <1>13 DEF SessionsTypeOK

\* CreateSession gives the next token to the user it is called for.
LEMMA Created ==
    ASSUME Shapely, NEW u \in Accounts, NEW from, from = Nil \/ from \in 1..issued,
           CreateSession(u, from)
    PROVE  /\ issued' = issued + 1 /\ issued' \in 1..MaxTokens /\ issued' \in Tokens
           /\ live' = live \union {issued'} /\ live' \subseteq 1..issued'
           /\ \A t \in 1..issued : t \in 1..issued' /\ owner'[t] = owner[t] /\ login'[t] = login[t]
           /\ owner'[issued'] = u /\ owner' \in [Tokens -> Accounts \union {Nil}]
           /\ \A t \in 1..issued' : owner'[t] \in Accounts
           /\ login'[issued'] = IF from = Nil THEN issued' ELSE login[from]
           /\ login' \in [Tokens -> Tokens]
           /\ missed' \subseteq Tokens
           /\ \A t \in 1..issued' : t \in 1..issued \/ t = issued'
           /\ issued' \notin 1..issued
<1>1. SessionsTypeOK /\ MaxTokens \in Nat
  BY SessionsAssumption DEF Shapely
<1>2. /\ issued' = issued + 1 /\ issued' \in 1..MaxTokens /\ issued' \in Tokens
      /\ live' = live \union {issued'}
      /\ issued' \notin 1..issued /\ \A t \in 1..issued' : t \in 1..issued \/ t = issued'
      /\ \A t \in 1..issued : t \in 1..issued' /\ t \in Tokens /\ t # issued'
  BY <1>1 DEF CreateSession, SessionsTypeOK, Tokens
<1>3. owner' = [owner EXCEPT ![issued'] = u]
      /\ login' = [login EXCEPT ![issued'] = IF from = Nil THEN issued' ELSE login[from]]
      /\ missed' \subseteq missed \union {issued'}
  BY <1>2 DEF CreateSession
<1>4. from = Nil \/ login[from] \in Tokens
  BY <1>1, <1>2 DEF SessionsTypeOK
<1> QED
  BY <1>1, <1>2, <1>3, <1>4 DEF SessionsTypeOK

LEMMA SessionsTypeStep ==
    ASSUME Shapely, NEW r \in Requests, SessionStep(r)
    PROVE  SessionsTypeOK'
<1> USE DEF SessionsTypeOK, Proceed, Answer, Disturb, rows, notes
<1>0. SessionsTypeOK /\ OwnTokens /\ Shape(r)
  BY DEF Shapely
<1>1. /\ req[r] \in RequestType
      /\ pc[r] \notin {"idle", "done"} => req[r].who \in Accounts
      /\ pc[r] \in Inside => req[r].tok \in Tokens /\ owner[req[r].tok] \in Accounts
  BY <1>0 DEF OwnTokens, Active, Shape, RequestType, Inside, Ruling
<1>a. MaxTokens \in Nat /\ Nil \notin Accounts
  BY SessionsAssumption
<1>2. CASE Register(r)
  BY <1>0, <1>1, <1>2 DEF Register, Statuses, Places
<1>3. CASE LoginRead(r) \/ Unknown(r) \/ Found(r) \/ Read(r) \/ Update(r)
  BY <1>0, <1>1, <1>3 DEF LoginRead, Unknown, Found, Read, Update, Places
<1>4. CASE Stale(r) \/ AuthenticateFails(r)
  BY <1>0, <1>1, <1>4 DEF Stale, AuthenticateFails, DeleteSession, Places, Inside, Ruling
<1>5. CASE LoginCreate(r)
  <2>1. CreateSession(req[r].who, Nil) /\ req[r].who \in Accounts
    BY <1>1, <1>5 DEF LoginCreate
  <2>2. /\ issued' = issued + 1 /\ issued' \in 1..MaxTokens /\ issued' \in Tokens
        /\ live' \subseteq 1..issued'
        /\ owner' \in [Tokens -> Accounts \union {Nil}] /\ login' \in [Tokens -> Tokens]
        /\ \A t \in 1..issued' : owner'[t] \in Accounts
        /\ missed' \subseteq Tokens
    BY <2>1, Created
  <2> QED
    BY <1>0, <1>5, <1>a, <2>2 DEF LoginCreate, Places
<1>6. CASE CheckUser(r)
  <2>1. PICK k \in Kinds : req' = [req EXCEPT ![r].kind = k]
    BY <1>0, <1>1, <1>6 DEF CheckUser, RequestType, Kinds
  <2>2. req' \in [Requests -> RequestType]
    BY <1>0, <1>1, <2>1 DEF RequestType
  <2> QED
    BY <1>0, <1>6, <2>2 DEF CheckUser, Places
<1>7. CASE RotateCreate(r)
  <2>1. /\ CreateSession(owner[req[r].tok], req[r].tok)
        /\ owner[req[r].tok] \in Accounts /\ req[r].tok \in 1..issued
    BY <1>0, <1>1, <1>7 DEF RotateCreate, Inside, Ruling, OwnTokens, Active, Shape
  <2>2. req' = [req EXCEPT ![r].fresh = issued'] /\ issued' \in Tokens
    BY <1>7, <2>1, Created DEF RotateCreate
  <2>3. req' \in [Requests -> RequestType]
    BY <1>0, <1>1, <2>2 DEF RequestType
  <2> QED
    BY <1>0, <1>7, <1>a, <2>1, <2>3, Created DEF RotateCreate, Places, Tokens
<1>8. CASE RotateDelete(r)
  BY <1>0, <1>1, <1>8 DEF RotateDelete, DeleteSession, Places
<1>9. CASE Limited(r) \/ Connect(r) \/ Admit(r)
  BY <1>0, <1>1, <1>9 DEF Limited, Connect, Admit, RequestType, Places
<1>10. CASE Logout(r)
  BY <1>0, <1>1, <1>10 DEF Logout, DeleteSession, Places
<1>11. CASE WriteRole(r)
  BY <1>0, <1>1, <1>11 DEF WriteRole, UpdateUserRole, RequestType, Places, Shape
<1>12. CASE WriteStatus(r)
  BY <1>0, <1>1, <1>12 DEF WriteStatus, UpdateUserStatus, RequestType, Statuses, Places, Shape
<1>13. CASE Sweep(r)
  <2>1. req[r].target \in Accounts
    BY <1>0, <1>1, <1>13 DEF Sweep, Shape, RequestType
  <2>2. live' \subseteq live /\ missed' \subseteq Tokens
    <3>1. live \subseteq Tokens
      BY <1>0, <1>a DEF Tokens
    <3> QED
      BY <1>0, <1>13, <3>1 DEF Sweep, DeleteUserSessions
  <2> QED
    BY <1>0, <1>13, <2>1, <2>2 DEF Sweep, Places
<1>14. CASE Respond(r)
  BY <1>0, <1>1, <1>14 DEF Respond, NoRequest, RequestType, Kinds, Places
<1> QED
  BY <1>2, <1>3, <1>4, <1>5, <1>6, <1>7, <1>8, <1>9, <1>10, <1>11, <1>12, <1>13, <1>14
     DEF SessionStep

\* A step of one request leaves the others where they are.
LEMMA OthersStay ==
    ASSUME SessionsTypeOK, NEW r \in Requests, SessionStep(r), NEW s \in Requests, s # r
    PROVE  pc'[s] = pc[s] /\ req'[s] = req[s] /\ cookie'[s] = cookie[s]
<1> USE DEF SessionsTypeOK, Proceed, Answer
<1>1. CASE Register(r) \/ LoginRead(r) \/ LoginCreate(r) \/ Unknown(r) \/ Stale(r) \/ Found(r)
  BY <1>1 DEF Register, LoginRead, LoginCreate, Unknown, Stale, Found
<1>2. CASE CheckUser(r) \/ AuthenticateFails(r) \/ RotateCreate(r) \/ RotateDelete(r)
  BY <1>2 DEF CheckUser, AuthenticateFails, RotateCreate, RotateDelete
<1>3. CASE Limited(r) \/ Admit(r) \/ Connect(r) \/ Read(r) \/ Logout(r)
  BY <1>3 DEF Limited, Admit, Connect, Read, Logout
<1>4. CASE Update(r) \/ WriteRole(r) \/ WriteStatus(r) \/ Sweep(r) \/ Respond(r)
  BY <1>4 DEF Update, WriteRole, WriteStatus, Sweep, Respond
<1> QED
  BY <1>1, <1>2, <1>3, <1>4 DEF SessionStep

LEMMA ShapeStep ==
    ASSUME Shapely, NEW r \in Requests, SessionStep(r)
    PROVE  \A s \in Requests : Shape(s)'
<1>1. SessionsTypeOK /\ Shape(r) /\ \A s \in Requests : Shape(s)
  BY DEF Shapely
<1>2. ASSUME NEW s \in Requests, s # r PROVE Shape(s)'
  BY <1>1, <1>2, OthersStay DEF Shape, Active
<1>3. Shape(r)'
  <2> USE <1>1 DEF Shape, Active, Inside, Ruling, SessionsTypeOK, Proceed, Answer, rows, notes
  <2>0. req[r] \in RequestType
    OBVIOUS
  <2>1. CASE Register(r) \/ LoginRead(r) \/ LoginCreate(r) \/ Unknown(r) \/ Stale(r) \/ Found(r)
    BY <2>1 DEF Register, LoginRead, LoginCreate, Unknown, Stale, Found
  <2>2. CASE CheckUser(r)
    BY <2>0, <2>2 DEF CheckUser, RequestType
  <2>3. CASE RotateCreate(r)
    <3>1. req[r].tok \in 1..issued /\ owner[req[r].tok] \in Accounts
      BY <2>3 DEF Shapely, OwnTokens, RotateCreate
    <3>2. issued' = issued + 1 /\ issued' \in Tokens
      BY <2>3, <3>1, Created DEF RotateCreate
    <3>3. issued' # Nil
      BY <3>2, SessionsAssumption
    <3> QED
      BY <2>0, <2>3, <3>2, <3>3 DEF RotateCreate, RequestType
  <2>4. CASE AuthenticateFails(r) \/ RotateDelete(r) \/ Limited(r) \/ Admit(r) \/ Connect(r)
    BY <2>0, <2>4 DEF AuthenticateFails, RotateDelete, Limited, Admit, Connect
  <2>5. CASE Read(r) \/ Logout(r)
    BY <2>5 DEF Read, Logout
  <2>6. CASE Update(r) \/ WriteRole(r)
    BY <2>0, <2>6 DEF Update, WriteRole
  <2>7. CASE WriteStatus(r) \/ Sweep(r)
    BY <2>7 DEF WriteStatus, Sweep
  <2>8. CASE Respond(r)
    BY <2>8 DEF Respond, NoRequest
  <2> QED
    BY <2>1, <2>2, <2>3, <2>4, <2>5, <2>6, <2>7, <2>8 DEF SessionStep
<1> QED
  BY <1>2, <1>3

LEMMA OwnTokensStep ==
    ASSUME Shapely, NEW r \in Requests, SessionStep(r)
    PROVE  OwnTokens'
<1>1. SessionsTypeOK /\ OwnTokens /\ Shape(r)
  BY DEF Shapely
<1>2. MaxTokens \in Nat /\ Nil \notin Accounts /\ Nil \notin Tokens /\ Clear \notin Tokens
  BY SessionsAssumption
<1> DEFINE Own(s) ==
      Active(s) =>
          /\ req[s].who \in Accounts
          /\ req[s].tok # Nil => req[s].tok \in 1..issued /\ owner[req[s].tok] = req[s].who
          /\ req[s].fresh # Nil => req[s].fresh \in 1..issued /\ owner[req[s].fresh] = req[s].who
          /\ cookie[s] \in Tokens => cookie[s] \in 1..issued /\ owner[cookie[s]] = req[s].who
<1> USE DEF Proceed, Answer, rows, notes
<1>3. \A s \in Requests : Own(s)
  BY <1>1 DEF OwnTokens
<1>4. ASSUME issued' = issued, owner' = owner, login' = login, jar' = jar, Own(r)'
      PROVE  OwnTokens'
  <2>1. \A s \in Requests : s # r => Own(s)'
    BY <1>1, <1>3, <1>4, OthersStay DEF Active
  <2> QED
    BY <1>1, <1>4, <2>1 DEF OwnTokens
<1>5. ASSUME NEW from, from = Nil \/ from \in 1..issued, from # Nil => owner[from] = req[r].who,
             CreateSession(req[r].who, from), Active(r), jar' = jar, Own(r)'
      PROVE  OwnTokens'
  <2>1. req[r].who \in Accounts
    BY <1>3, <1>5
  <2>2. /\ \A t \in 1..issued : t \in 1..issued' /\ owner'[t] = owner[t] /\ login'[t] = login[t]
        /\ owner'[issued'] = req[r].who /\ issued' \in 1..issued'
        /\ login'[issued'] = IF from = Nil THEN issued' ELSE login[from]
        /\ \A t \in 1..issued' : t \in 1..issued \/ t = issued'
    <3>1. issued' \in 1..MaxTokens
      BY <1>5, <2>1, Created
    <3> QED
      BY <1>5, <2>1, <3>1, Created
  <2>3. \A s \in Requests : s # r => Own(s)'
    BY <1>1, <1>3, <2>2, OthersStay DEF Active
  <2>4. \A t \in 1..issued' : login'[t] \in 1..issued' /\ owner'[login'[t]] = owner'[t]
    BY <1>1, <1>5, <2>2 DEF OwnTokens
  <2> QED
    BY <1>1, <1>5, <2>2, <2>3, <2>4 DEF OwnTokens
<1>6. CASE Register(r) \/ LoginRead(r) \/ Unknown(r) \/ Stale(r) \/ Found(r)
  <2>1. Own(r)'
    BY <1>1, <1>2, <1>3, <1>6 DEF Register, LoginRead, Unknown, Stale, Found, Active, SessionsTypeOK
  <2> QED
    BY <1>4, <1>6, <2>1 DEF Register, LoginRead, Unknown, Stale, Found
<1>7. CASE CheckUser(r) \/ AuthenticateFails(r) \/ RotateDelete(r)
  <2>1. Own(r)'
    <3>1. req[r] \in RequestType
      BY <1>1 DEF SessionsTypeOK
    <3>2. /\ req'[r].who = req[r].who /\ req'[r].tok = req[r].tok /\ req'[r].fresh = req[r].fresh
          /\ cookie'[r] \in {cookie[r], Nil, Clear} /\ issued' = issued /\ owner' = owner
          /\ Active(r)
      BY <1>1, <1>7, <3>1 DEF CheckUser, AuthenticateFails, RotateDelete, SessionsTypeOK, RequestType, Active
    <3> QED
      BY <1>2, <1>3, <3>2
  <2> QED
    BY <1>4, <1>7, <2>1 DEF CheckUser, AuthenticateFails, RotateDelete
<1>8. CASE Limited(r) \/ Admit(r) \/ Connect(r) \/ Read(r) \/ Logout(r)
  <2>1. Own(r)'
    BY <1>1, <1>2, <1>3, <1>8 DEF Limited, Admit, Connect, Read, Logout, Active, SessionsTypeOK
  <2> QED
    BY <1>4, <1>8, <2>1 DEF Limited, Admit, Connect, Read, Logout
<1>9. CASE Update(r) \/ WriteRole(r) \/ WriteStatus(r) \/ Sweep(r)
  <2>1. Own(r)'
    BY <1>1, <1>2, <1>3, <1>9 DEF Update, WriteRole, WriteStatus, Sweep, Active, SessionsTypeOK
  <2> QED
    BY <1>4, <1>9, <2>1 DEF Update, WriteRole, WriteStatus, Sweep
<1>10. CASE LoginCreate(r)
  <2>1. /\ CreateSession(req[r].who, Nil) /\ Active(r) /\ req[r].who \in Accounts
        /\ jar' = jar /\ req' = req /\ cookie' = [cookie EXCEPT ![r] = issued + 1]
    BY <1>3, <1>10 DEF LoginCreate, Active
  <2>2. /\ issued' = issued + 1 /\ owner'[issued'] = req[r].who /\ issued' \in 1..issued'
        /\ \A t \in 1..issued : t \in 1..issued' /\ owner'[t] = owner[t]
    <3>1. issued' \in 1..MaxTokens /\ issued' = issued + 1 /\ owner'[issued'] = req[r].who
          /\ \A t \in 1..issued : t \in 1..issued' /\ owner'[t] = owner[t]
      BY <2>1, Created
    <3> QED
      BY <3>1
  <2>3. Own(r)'
    BY <1>1, <1>3, <2>1, <2>2 DEF Active, SessionsTypeOK
  <2> QED
    BY <1>5, <2>1, <2>3
<1>11. CASE RotateCreate(r)
  <2>1. /\ CreateSession(req[r].who, req[r].tok) /\ Active(r) /\ req[r].who \in Accounts
        /\ jar' = jar /\ cookie' = cookie /\ cookie[r] = Nil
        /\ req' = [req EXCEPT ![r].fresh = issued + 1]
        /\ req[r].tok \in 1..issued /\ owner[req[r].tok] = req[r].who
    BY <1>1, <1>3, <1>11 DEF RotateCreate, Active, Shape, Inside, Ruling
  <2>2. /\ issued' = issued + 1 /\ owner'[issued'] = req[r].who /\ issued' \in 1..issued'
        /\ \A t \in 1..issued : t \in 1..issued' /\ owner'[t] = owner[t]
    <3>1. issued' \in 1..MaxTokens /\ issued' = issued + 1 /\ owner'[issued'] = req[r].who
          /\ \A t \in 1..issued : t \in 1..issued' /\ owner'[t] = owner[t]
      BY <2>1, Created
    <3> QED
      BY <3>1
  <2>3. Own(r)'
    BY <1>1, <1>2, <1>3, <2>1, <2>2 DEF Active, SessionsTypeOK, RequestType
  <2> QED
    BY <1>5, <2>1, <2>3
<1>12. CASE Respond(r)
  <2>1. \A s \in Requests : Own(s)'
    BY <1>1, <1>3, <1>12, OthersStay DEF Respond, Active, SessionsTypeOK
  <2>2. cookie[r] \notin {Nil, Clear} => cookie[r] \in 1..issued /\ owner[cookie[r]] = req[r].who
    BY <1>1, <1>3, <1>12 DEF Respond, Active, SessionsTypeOK
  <2> QED
    BY <1>1, <1>12, <2>1, <2>2 DEF Respond, OwnTokens, SessionsTypeOK
<1> QED
  BY <1>6, <1>7, <1>8, <1>9, <1>10, <1>11, <1>12 DEF SessionStep

\* What a new request is.
LEMMA Sent ==
    ASSUME Shapely, NEW r \in Requests, NEW u \in Accounts, NEW k \in Kinds, Send(r, u, k)
    PROVE  /\ pc[r] = "idle" /\ req[r] = NoRequest
           /\ req' = [req EXCEPT ![r] = req'[r]] /\ req'[r] \in RequestType
           /\ req'[r].kind = k /\ req'[r].who = u /\ req'[r].tok = jar[u] /\ req'[r].fresh = Nil
           /\ k = "update" => req'[r].target \in Accounts
           /\ pc' = [pc EXCEPT ![r] = IF k = "login" THEN "login" ELSE "find"]
           /\ k # "login" => jar[u] # Nil
           /\ cookie' = [cookie EXCEPT ![r] = Nil]
           /\ disturbed' = IF Quiet(u) THEN disturbed ELSE disturbed \union {u}
           /\ UNCHANGED <<statusOf, roleOf, rows, jar, missed, raced>>
<1>1. SessionsTypeOK /\ Shape(r)
  BY DEF Shapely
<1>2. PICK v \in Accounts, c \in Changes :
        req' = [req EXCEPT ![r] = [NoRequest EXCEPT !.kind = k, !.who = u, !.tok = jar[u],
                        !.target = IF k = "update" THEN v ELSE Nil,
                        !.change = IF k = "update" THEN c ELSE NoRequest.change]]
  BY DEF Send
<1>3. c \in [role : Roles \union {Nil}, status : {"active", "disabled", Nil}]
  BY SessionsAssumption
<1>4. /\ req' = [req EXCEPT ![r] = req'[r]] /\ req'[r] \in RequestType
      /\ req'[r].kind = k /\ req'[r].who = u /\ req'[r].tok = jar[u] /\ req'[r].fresh = Nil
      /\ k = "update" => req'[r].target \in Accounts
  BY <1>1, <1>2, <1>3 DEF NoRequest, RequestType, SessionsTypeOK
<1> QED
  BY <1>1, <1>4 DEF Send, Proceed, Shape, Active

LEMMA SendShapely ==
    ASSUME Shapely, NEW r \in Requests, NEW u \in Accounts, NEW k \in Kinds, Send(r, u, k)
    PROVE  Shapely'
<1>1. SessionsTypeOK /\ OwnTokens /\ \A s \in Requests : Shape(s)
  BY DEF Shapely
<1>2. \A s \in Requests : s # r => pc'[s] = pc[s] /\ req'[s] = req[s] /\ cookie'[s] = cookie[s]
  BY <1>1, Sent DEF SessionsTypeOK
<1>3. SessionsTypeOK'
  <2>1. PICK x \in RequestType : req' = [req EXCEPT ![r] = x]
    BY Sent
  <2>2. req' \in [Requests -> RequestType]
    BY <1>1, <2>1 DEF SessionsTypeOK
  <2>3. /\ pc' = [pc EXCEPT ![r] = IF k = "login" THEN "login" ELSE "find"]
        /\ cookie' = [cookie EXCEPT ![r] = Nil]
        /\ disturbed' \subseteq disturbed \union {u}
        /\ UNCHANGED <<statusOf, roleOf, rows, jar, missed, raced>>
    BY Sent
  <2> QED
    BY <1>1, <2>2, <2>3 DEF SessionsTypeOK, Places, rows
<1>4. Nil \notin Tokens /\ Nil \notin Accounts
  BY SessionsAssumption
<1>5. pc'[r] \in {"login", "find"} /\ cookie'[r] = Nil /\ (pc'[r] = "find" => jar[u] # Nil)
  BY <1>1, Sent DEF SessionsTypeOK
<1>6. Shape(r)'
  <2>1. /\ req'[r].kind = k /\ req'[r].tok = jar[u] /\ req'[r].fresh = Nil
        /\ k = "update" => req'[r].target \in Accounts
    BY Sent
  <2> QED
    BY <1>4, <1>5, <2>1 DEF Shape, Active, Inside, Ruling
<1>7. \A s \in Requests : s # r => Shape(s)'
  BY <1>1, <1>2 DEF Shape, Active
<1>8. OwnTokens'
  BY <1>1, <1>2, <1>4, <1>5, Sent DEF OwnTokens, Active, rows
<1> QED
  BY <1>3, <1>6, <1>7, <1>8 DEF Shapely

LEMMA CleanupShapely == Shapely /\ Cleanup => Shapely'
<1> SUFFICES ASSUME Shapely, Cleanup PROVE Shapely'
  OBVIOUS
<1>1. PICK old \in SUBSET live \ {{}} :
        /\ live' = live \ old
        /\ disturbed' = disturbed \union {owner[t] : t \in old}
  BY DEF Cleanup, DeleteExpiredSessions
<1>2. SessionsTypeOK'
  BY <1>1 DEF Cleanup, Shapely, SessionsTypeOK
<1>3. OwnTokens' /\ \A s \in Requests : Shape(s)'
  BY DEF Cleanup, Shapely, OwnTokens, Shape, Active
<1> QED
  BY <1>2, <1>3 DEF Shapely

LEMMA ShapelyKept == Shapely /\ [SessionsNext]_sessionVars => Shapely'
<1> SUFFICES ASSUME Shapely, [SessionsNext]_sessionVars PROVE Shapely'
  OBVIOUS
<1>1. ASSUME NEW r \in Requests, SessionStep(r) PROVE Shapely'
  BY <1>1, SessionsTypeStep, ShapeStep, OwnTokensStep DEF Shapely
<1>2. CASE UNCHANGED sessionVars
  BY <1>2 DEF sessionVars, rows, notes, Shapely, SessionsTypeOK, OwnTokens, Shape, Active
<1> QED
  BY <1>1, <1>2, SendShapely, CleanupShapely DEF SessionsNext

\* Nobody is disabled and every browser holds its session when the server starts.
LEMMA SessionsInitShapely == SessionsInit => Shapely
<1> SUFFICES ASSUME SessionsInit PROVE Shapely
  OBVIOUS
<1>1. SessionsTypeOK
  BY SessionsInitType
<1>2. \A u \in Accounts : jar[u] # Nil => jar[u] \in 1..issued /\ owner[jar[u]] = u
  <2>1. PICK who \in Bijection(live, Accounts \ Newcomers) :
          /\ owner = [t \in Tokens |-> IF t \in live THEN who[t] ELSE Nil]
          /\ jar = [u \in Accounts |-> IF u \in Newcomers THEN Nil
                                   ELSE CHOOSE t \in live : who[t] = u]
    BY DEF SessionsInit
  <2>2. \A u \in Accounts \ Newcomers : \E t \in live : who[t] = u
    BY <2>1 DEF Bijection, Surjection
  <2>3. \A u \in Accounts \ Newcomers : jar[u] \in live /\ who[jar[u]] = u
    BY <2>1, <2>2
  <2>4. live = 1..issued
    BY DEF SessionsInit
  <2>5. live \subseteq Tokens
    BY <1>1, SessionsAssumption DEF SessionsTypeOK, Tokens
  <2> QED
    BY <2>1, <2>3, <2>4, <2>5
<1>3. \A r \in Requests : pc[r] = "idle" /\ req[r] = NoRequest
  BY DEF SessionsInit
<1>4. \A t \in 1..issued : login[t] = t
  <2>1. 1..issued \subseteq Tokens
    BY <1>1, SessionsAssumption DEF SessionsTypeOK, Tokens
  <2> QED
    BY <2>1 DEF SessionsInit
<1> QED
  BY <1>1, <1>2, <1>3, <1>4 DEF Shapely, OwnTokens, Shape, Active, Inside, Ruling, NoRequest

\* As long as no two changes overlap, the author of a change that is past the check of
\* its role is an active administrator.
InCommand ==
    ~raced => \A r \in Requests : req[r].kind = "update" /\ pc[r] \in Ruling =>
        roleOf[req[r].who] = "admin" /\ statusOf[req[r].who] = "active"

Governed == Shapely /\ DisabledIsSwept /\ InCommand /\ SomeAdmin

LEMMA DisabledIsSweptStep ==
    ASSUME Shapely, DisabledIsSwept, NEW r \in Requests, SessionStep(r)
    PROVE  DisabledIsSwept'
<1>1. SessionsTypeOK /\ OwnTokens /\ Shape(r)
  BY DEF Shapely
<1>2. \A s \in Requests : s # r => pc'[s] = pc[s] /\ req'[s] = req[s]
  BY <1>1, OthersStay
<1> USE DEF Proceed, Answer, rows, notes
\* Steps that disable nobody, create nothing and are not the sweep.
<1>3. ASSUME live' \subseteq live, owner' = owner, missed' = missed, pc[r] # "sweep",
             \A u \in Accounts : statusOf'[u] = "disabled" => statusOf[u] = "disabled"
      PROVE  DisabledIsSwept'
  <2> SUFFICES ASSUME NEW t \in live', statusOf'[owner[t]] = "disabled", t \notin missed
               PROVE  \E s \in Requests : pc'[s] = "sweep" /\ req'[s].target = owner[t]
    BY <1>3 DEF DisabledIsSwept
  <2>1. t \in live /\ owner[t] \in Accounts
    BY <1>1, <1>3 DEF SessionsTypeOK
  <2>2. PICK s \in Requests : pc[s] = "sweep" /\ req[s].target = owner[t]
    BY <1>3, <2>1 DEF DisabledIsSwept
  <2> QED
    BY <1>2, <1>3, <2>2
<1>4. CASE Register(r) \/ LoginRead(r) \/ Unknown(r) \/ Stale(r) \/ Found(r)
  <2>1. live' \subseteq live
    BY <1>4 DEF Register, LoginRead, Unknown, Stale, Found, DeleteSession
  <2> QED
    BY <1>1, <1>3, <1>4, <2>1 DEF Register, LoginRead, Unknown, Stale, Found, SessionsTypeOK
<1>5. CASE CheckUser(r) \/ AuthenticateFails(r) \/ RotateDelete(r)
  <2>1. live' \subseteq live
    BY <1>5 DEF CheckUser, AuthenticateFails, RotateDelete, DeleteSession
  <2> QED
    BY <1>3, <1>5, <2>1 DEF CheckUser, AuthenticateFails, RotateDelete
<1>6. CASE Limited(r) \/ Admit(r) \/ Connect(r) \/ Read(r) \/ Logout(r)
  <2>1. live' \subseteq live
    BY <1>6 DEF Limited, Admit, Connect, Read, Logout, DeleteSession
  <2> QED
    BY <1>3, <1>6, <2>1 DEF Limited, Admit, Connect, Read, Logout
<1>7. CASE Update(r) \/ WriteRole(r) \/ Respond(r)
  BY <1>3, <1>7 DEF Update, WriteRole, Respond
<1>8. ASSUME NEW u \in Accounts, NEW from, from = Nil \/ from \in 1..issued,
             CreateSession(u, from), statusOf' = statusOf, pc[r] # "sweep"
      PROVE  DisabledIsSwept'
  <2>1. /\ live' = live \union {issued'}
        /\ \A t \in 1..issued : owner'[t] = owner[t]
        /\ owner'[issued'] = u
    BY <1>8, Created
  <2>2. missed \subseteq missed' /\ (statusOf[u] = "disabled" => issued' \in missed')
    BY <1>8 DEF CreateSession
  <2> SUFFICES ASSUME NEW t \in live', statusOf[owner'[t]] = "disabled", t \notin missed'
               PROVE  \E s \in Requests : pc'[s] = "sweep" /\ req'[s].target = owner'[t]
    BY <1>8 DEF DisabledIsSwept
  <2>3. t \in live /\ owner'[t] = owner[t]
    BY <1>1, <2>1, <2>2 DEF SessionsTypeOK
  <2>4. PICK s \in Requests : pc[s] = "sweep" /\ req[s].target = owner[t]
    BY <2>2, <2>3 DEF DisabledIsSwept
  <2> QED
    BY <1>2, <1>8, <2>3, <2>4
<1>9. CASE LoginCreate(r)
  <2>1. req[r].who \in Accounts /\ CreateSession(req[r].who, Nil)
    BY <1>1, <1>9 DEF LoginCreate, OwnTokens, Active
  <2> QED
    BY <1>8, <1>9, <2>1 DEF LoginCreate
<1>10. CASE RotateCreate(r)
  <2>1. /\ owner[req[r].tok] \in Accounts /\ req[r].tok \in 1..issued
        /\ CreateSession(owner[req[r].tok], req[r].tok)
    BY <1>1, <1>10 DEF RotateCreate, OwnTokens, Active, Shape, Inside, Ruling
  <2> QED
    BY <1>8, <1>10, <2>1 DEF RotateCreate
<1>11. CASE WriteStatus(r)
  <2>1. /\ live' = live /\ owner' = owner /\ missed' = missed /\ req' = req
        /\ statusOf' = [statusOf EXCEPT ![req[r].target] = req[r].change.status]
        /\ req[r].change.status = "disabled" => pc'[r] = "sweep"
    BY <1>1, <1>11 DEF WriteStatus, UpdateUserStatus, SessionsTypeOK
  <2> SUFFICES ASSUME NEW t \in live, statusOf'[owner[t]] = "disabled", t \notin missed
               PROVE  \E s \in Requests : pc'[s] = "sweep" /\ req'[s].target = owner[t]
    BY <2>1 DEF DisabledIsSwept
  <2>2. owner[t] \in Accounts
    BY <1>1 DEF SessionsTypeOK
  <2>3. CASE owner[t] = req[r].target
    BY <1>1, <2>1, <2>2, <2>3 DEF SessionsTypeOK
  <2>4. CASE owner[t] # req[r].target
    <3>1. statusOf[owner[t]] = "disabled"
      BY <1>1, <2>1, <2>2, <2>4 DEF SessionsTypeOK
    <3>2. PICK s \in Requests : pc[s] = "sweep" /\ req[s].target = owner[t]
      BY <3>1 DEF DisabledIsSwept
    <3> QED
      BY <1>2, <1>11, <3>2 DEF WriteStatus
  <2> QED
    BY <2>3, <2>4
<1>12. CASE Sweep(r)
  <2>1. /\ live' \subseteq live /\ owner' = owner /\ statusOf' = statusOf /\ missed \subseteq missed'
        /\ \A t \in live' : owner[t] = req[r].target => t \in missed'
    BY <1>12 DEF Sweep, DeleteUserSessions
  <2> SUFFICES ASSUME NEW t \in live', statusOf[owner[t]] = "disabled", t \notin missed'
               PROVE  \E s \in Requests : pc'[s] = "sweep" /\ req'[s].target = owner[t]
    BY <2>1 DEF DisabledIsSwept
  <2>2. PICK s \in Requests : pc[s] = "sweep" /\ req[s].target = owner[t]
    BY <2>1 DEF DisabledIsSwept
  <2> QED
    BY <1>2, <2>1, <2>2
<1> QED
  BY <1>4, <1>5, <1>6, <1>7, <1>9, <1>10, <1>11, <1>12 DEF SessionStep

LEMMA InCommandStep ==
    ASSUME Shapely, InCommand, NEW r \in Requests, SessionStep(r)
    PROVE  InCommand'
<1>1. SessionsTypeOK /\ OwnTokens /\ Shape(r)
  BY DEF Shapely
<1>2. \A s \in Requests : s # r => pc'[s] = pc[s] /\ req'[s] = req[s]
  BY <1>1, OthersStay
<1> USE DEF Proceed, Answer, rows, notes
<1>3. req[r] \in RequestType
  BY <1>1 DEF SessionsTypeOK
\* Steps that change nobody's role and only let go of a request.
<1>4. ASSUME raced' = raced, roleOf' = roleOf,
             \A u \in Accounts : statusOf[u] = "active" => statusOf'[u] = "active",
             req'[r].kind = "update" /\ pc'[r] \in Ruling =>
                 /\ req[r].kind = "update" /\ pc[r] \in Ruling /\ req'[r].who = req[r].who
      PROVE  InCommand'
  <2>1. \A s \in Requests : pc[s] \in Ruling => req[s].who \in Accounts
    BY <1>1 DEF OwnTokens, Active, Ruling
  <2> QED
    BY <1>2, <1>4, <2>1 DEF InCommand
<1>5. CASE Register(r) \/ LoginRead(r) \/ LoginCreate(r) \/ Unknown(r) \/ Stale(r) \/ Found(r)
  <2>1. pc'[r] \notin Ruling
    BY <1>1, <1>5 DEF Register, LoginRead, LoginCreate, Unknown, Stale, Found, SessionsTypeOK, Ruling
  <2>2. raced' = raced /\ roleOf' = roleOf
        /\ \A u \in Accounts : statusOf[u] = "active" => statusOf'[u] = "active"
    BY <1>1, <1>5 DEF Register, LoginRead, LoginCreate, Unknown, Stale, Found, SessionsTypeOK
  <2> QED
    BY <1>4, <2>1, <2>2
<1>6. CASE CheckUser(r)
  <2>1. /\ raced' = raced /\ roleOf' = roleOf /\ statusOf' = statusOf /\ req'[r].who = req[r].who
        /\ pc'[r] \in Ruling /\ req'[r].kind = "update" =>
              roleOf[owner[req[r].tok]] = "admin" /\ statusOf[owner[req[r].tok]] = "active"
    BY <1>1, <1>3, <1>6 DEF CheckUser, SessionsTypeOK, RequestType, Ruling
  <2>2. owner[req[r].tok] = req[r].who
    BY <1>1, <1>6 DEF CheckUser, OwnTokens, Shape, Active, Inside, Ruling
  <2> QED
    BY <1>2, <2>1, <2>2 DEF InCommand
<1>7. CASE AuthenticateFails(r) \/ RotateCreate(r) \/ RotateDelete(r) \/ Limited(r) \/ Admit(r) \/ Connect(r)
  <2>1. raced' = raced /\ roleOf' = roleOf /\ statusOf' = statusOf
    BY <1>7 DEF AuthenticateFails, RotateCreate, RotateDelete, Limited, Admit, Connect
  <2>2. pc'[r] \in Ruling => pc[r] \in Ruling
    BY <1>1, <1>7 DEF AuthenticateFails, RotateCreate, RotateDelete, Limited, Admit, Connect, SessionsTypeOK, Ruling
  <2>3. req'[r].who = req[r].who /\ req'[r].kind = req[r].kind
    BY <1>1, <1>3, <1>7 DEF AuthenticateFails, RotateCreate, RotateDelete, Limited, Admit, Connect,
                            SessionsTypeOK, RequestType
  <2> QED
    BY <1>4, <2>1, <2>2, <2>3
<1>8. CASE Read(r) \/ Logout(r) \/ Update(r) \/ Sweep(r)
  <2>1. raced' = raced /\ roleOf' = roleOf /\ statusOf' = statusOf /\ req' = req
    BY <1>8 DEF Read, Logout, Update, Sweep
  <2>2. pc'[r] \in Ruling => pc[r] \in Ruling
    BY <1>1, <1>8 DEF Read, Logout, Update, Sweep, SessionsTypeOK, Ruling
  <2> QED
    BY <1>4, <2>1, <2>2
<1>9. CASE Respond(r)
  <2>1. raced' = raced /\ roleOf' = roleOf /\ statusOf' = statusOf /\ pc'[r] \notin Ruling
    BY <1>1, <1>9 DEF Respond, SessionsTypeOK, Ruling
  <2> QED
    BY <1>4, <2>1
<1>10. CASE WriteRole(r) \/ WriteStatus(r)
  <2>1. /\ req' = req /\ req[r].kind = "update" /\ pc[r] \in Ruling /\ req[r].target # req[r].who
        /\ req[r].who \in Accounts
        /\ raced => raced'
        /\ \A u \in Accounts : u # req[r].target => roleOf'[u] = roleOf[u] /\ statusOf'[u] = statusOf[u]
        /\ roleOf' # roleOf \/ statusOf' # statusOf => raced' \/ ~Overlaps(r)
    <3>1. /\ req' = req /\ req[r].kind = "update" /\ pc[r] \in Ruling /\ req[r].target # req[r].who
          /\ req[r].who \in Accounts
      BY <1>1, <1>10 DEF WriteRole, WriteStatus, Shape, OwnTokens, Active, Ruling
    <3>2. \A u \in Accounts : u # req[r].target => roleOf'[u] = roleOf[u] /\ statusOf'[u] = statusOf[u]
      BY <1>1, <1>10 DEF WriteRole, WriteStatus, UpdateUserRole, UpdateUserStatus, SessionsTypeOK
    <3>3. raced \/ (Overlaps(r) /\ (roleOf' # roleOf \/ statusOf' # statusOf)) => raced'
      <4>1. CASE WriteRole(r)
        <5>1. /\ raced' = (raced \/ (req[r].change.role # Nil /\ Overlaps(r)))
              /\ statusOf' = statusOf
          BY <4>1 DEF WriteRole
        <5>2. req[r].change.role = Nil => roleOf' = roleOf
          BY <4>1 DEF WriteRole
        <5> QED
          BY <5>1, <5>2, Zenon
      <4>2. CASE WriteStatus(r)
        BY <4>2, Zenon DEF WriteStatus
      <4> QED
        BY <1>10, <4>1, <4>2
    <3> QED
      BY <3>1, <3>2, <3>3
  <2> SUFFICES ASSUME ~raced', NEW s \in Requests, req[s].kind = "update", pc'[s] \in Ruling
               PROVE  roleOf'[req[s].who] = "admin" /\ statusOf'[req[s].who] = "active"
    BY <2>1 DEF InCommand
  <2>2. pc[s] \in Ruling /\ req[s].who \in Accounts
    BY <1>1, <1>2, <2>1 DEF OwnTokens, Active, Ruling
  <2>3. roleOf[req[s].who] = "admin" /\ statusOf[req[s].who] = "active"
    <3>1. ~raced /\ req[s].kind = "update"
      BY <2>1
    <3> QED
      BY <2>2, <3>1 DEF InCommand
  <2>4. CASE s = r
    BY <2>1, <2>2, <2>3, <2>4
  <2>5. CASE s # r
    BY <2>1, <2>2, <2>3, <2>5 DEF Overlaps, Ruling
  <2> QED
    BY <2>4, <2>5
<1> QED
  BY <1>5, <1>6, <1>7, <1>8, <1>9, <1>10 DEF SessionStep

\* The author of an update is not its target: when nobody else is changing users, an
\* administrator is left, the author.
LEMMA SomeAdminStep ==
    ASSUME Shapely, InCommand, SomeAdmin, NEW r \in Requests, SessionStep(r)
    PROVE  SomeAdmin'
<1>1. SessionsTypeOK /\ OwnTokens /\ Shape(r)
  BY DEF Shapely
<1> USE DEF Proceed, Answer, rows, notes
<1>2. CASE WriteRole(r) \/ WriteStatus(r)
  <2> SUFFICES ASSUME ~raced' PROVE \E u \in Accounts : roleOf'[u] = "admin" /\ statusOf'[u] = "active"
    BY DEF SomeAdmin
  <2>1. ~raced
    <3>1. CASE WriteRole(r)
      BY <3>1, Zenon DEF WriteRole
    <3>2. CASE WriteStatus(r)
      BY <3>2, Zenon DEF WriteStatus
    <3> QED
      BY <1>2, <3>1, <3>2
  <2>2. /\ req[r].kind = "update" /\ pc[r] \in Ruling /\ req[r].target # req[r].who
        /\ req[r].who \in Accounts
    BY <1>1, <1>2 DEF WriteRole, WriteStatus, Shape, OwnTokens, Active, Ruling
  <2>3. roleOf[req[r].who] = "admin" /\ statusOf[req[r].who] = "active"
    BY <2>1, <2>2 DEF InCommand
  <2>4. \A u \in Accounts : u # req[r].target => roleOf'[u] = roleOf[u] /\ statusOf'[u] = statusOf[u]
    BY <1>1, <1>2 DEF WriteRole, WriteStatus, UpdateUserRole, UpdateUserStatus, SessionsTypeOK
  <2> QED
    BY <2>2, <2>3, <2>4
<1>3. CASE \/ LoginRead(r) \/ LoginCreate(r) \/ Unknown(r) \/ Stale(r) \/ Found(r)
           \/ CheckUser(r) \/ AuthenticateFails(r) \/ RotateCreate(r) \/ RotateDelete(r)
  BY <1>3, Zenon DEF LoginRead, LoginCreate, Unknown, Stale, Found, CheckUser, AuthenticateFails, RotateCreate,
              RotateDelete, SomeAdmin
<1>4. CASE \/ Limited(r) \/ Admit(r) \/ Connect(r) \/ Read(r) \/ Logout(r) \/ Update(r) \/ Sweep(r)
           \/ Respond(r)
  BY <1>4, Zenon DEF Limited, Admit, Connect, Read, Logout, Update, Sweep, Respond, SomeAdmin
<1>5. CASE Register(r)
  <2>1. raced' = raced /\ roleOf' = roleOf
    BY <1>5 DEF Register
  <2>2. \A u \in Accounts : statusOf[u] = "active" => statusOf'[u] = "active"
    BY <1>1, <1>5 DEF Register, SessionsTypeOK
  <2> QED
    BY <2>1, <2>2 DEF SomeAdmin
<1> QED
  BY <1>2, <1>3, <1>4, <1>5 DEF SessionStep

LEMMA SendGoverned ==
    ASSUME Governed, NEW r \in Requests, NEW u \in Accounts, NEW k \in Kinds, Send(r, u, k)
    PROVE  Governed'
<1>1. Shapely /\ SessionsTypeOK
  BY DEF Governed, Shapely
<1>2. \A s \in Requests : s # r => pc'[s] = pc[s] /\ req'[s] = req[s]
  BY <1>1, Sent DEF SessionsTypeOK
<1>3. /\ pc[r] = "idle" /\ pc'[r] \in {"login", "find"}
      /\ UNCHANGED <<statusOf, roleOf, live, owner, missed, raced>>
  BY <1>1, Sent DEF SessionsTypeOK, rows
<1>4. DisabledIsSwept'
  BY <1>2, <1>3 DEF Governed, DisabledIsSwept
<1>5. InCommand'
  BY <1>2, <1>3 DEF Governed, InCommand, Ruling
<1>6. SomeAdmin'
  BY <1>3 DEF Governed, SomeAdmin
<1> QED
  BY <1>1, <1>4, <1>5, <1>6, SendShapely DEF Governed

LEMMA CleanupGoverned == Governed /\ Cleanup => Governed'
<1> SUFFICES ASSUME Governed, Cleanup PROVE Governed'
  OBVIOUS
<1>1. live' \subseteq live /\ UNCHANGED <<statusOf, roleOf, owner, pc, req, missed, raced>>
  BY DEF Cleanup, DeleteExpiredSessions
<1>2. DisabledIsSwept' /\ InCommand' /\ SomeAdmin'
  BY <1>1 DEF Governed, DisabledIsSwept, InCommand, SomeAdmin
<1> QED
  BY <1>2, CleanupShapely DEF Governed

LEMMA GovernedKept == Governed /\ [SessionsNext]_sessionVars => Governed'
<1> SUFFICES ASSUME Governed, [SessionsNext]_sessionVars PROVE Governed'
  OBVIOUS
<1>1. Shapely /\ DisabledIsSwept /\ InCommand /\ SomeAdmin
  BY DEF Governed
<1>2. Shapely'
  BY <1>1, ShapelyKept
<1>3. ASSUME NEW r \in Requests, SessionStep(r) PROVE Governed'
  BY <1>1, <1>2, <1>3, DisabledIsSweptStep, InCommandStep, SomeAdminStep DEF Governed
<1>4. CASE UNCHANGED sessionVars
  <2>1. DisabledIsSwept' /\ InCommand' /\ SomeAdmin'
    BY <1>1, <1>4, Zenon DEF sessionVars, rows, notes, DisabledIsSwept, InCommand, SomeAdmin
  <2> QED
    BY <1>2, <2>1 DEF Governed
<1> QED
  BY <1>3, <1>4, SendGoverned, CleanupGoverned DEF SessionsNext

\* The state of users, sessions, cookies and requests is well formed: every token in a
\* cookie or a request was issued to the user it is of (SessionsTypeOK in Shapely).
THEOREM SessionsWellFormed == SessionsSpec => []Shapely
BY SessionsInitShapely, ShapelyKept, PTL DEF SessionsSpec

\* Whoever is disabled has no session left but those no sweep could reach, and
\* administrators who change users one after the other never lock everybody out
\* (UpdateUser, DeleteUserSessions).
THEOREM AccountsGoverned == SessionsSpec => []AccountsAreGoverned
<1>1. SessionsInit => Governed
  <2> SUFFICES ASSUME SessionsInit PROVE Governed
    OBVIOUS
  <2>1. Shapely
    BY SessionsInitShapely
  <2>2. \A u \in Accounts : statusOf[u] # "disabled"
    BY DEF SessionsInit
  <2>3. DisabledIsSwept
    BY <2>1, <2>2 DEF DisabledIsSwept, Shapely, SessionsTypeOK
  <2>4. InCommand
    BY DEF SessionsInit, InCommand, Ruling
  <2>5. SomeAdmin
    <3>1. PICK u \in Admins : u \in Accounts /\ u \notin Newcomers
      BY SessionsAssumption
    <3> QED
      BY <3>1 DEF SessionsInit, SomeAdmin
  <2> QED
    BY <2>1, <2>3, <2>4, <2>5 DEF Governed
<1>2. Governed => AccountsAreGoverned
  BY DEF Governed, AccountsAreGoverned
<1> QED
  BY <1>1, <1>2, GovernedKept, PTL DEF SessionsSpec

\* The token a browser will hold when the answer of its request has come, as things stand.
Current(r) ==
    IF pc[r] \in {"find", "user", "rotate", "rotated"} THEN req[r].tok
    ELSE IF pc[r] \in Inside THEN IF req[r].fresh = Nil THEN req[r].tok ELSE req[r].fresh
    ELSE IF cookie[r] = Nil THEN jar[req[r].who] ELSE cookie[r]

\* Two requests of one browser at a time disturb it.
Alone ==
    \A r, s \in Requests :
        Active(r) /\ Active(s) /\ r # s /\ req[r].who = req[s].who => req[r].who \in disturbed

\* An undisturbed request leads to a session that is there; it came with its browser's
\* token, and its rotated token is of the same login.
Holding(r) ==
    Active(r) /\ req[r].who \notin disturbed =>
        /\ Current(r) \in live \union {Nil, Clear}
        /\ pc[r] \in Inside => jar[req[r].who] = req[r].tok
        /\ pc[r] = "rotated" =>
              req[r].fresh \in live \ {req[r].tok} /\ login[req[r].fresh] = login[req[r].tok]

\* The two sessions of a rotation under way are the only ones of one login.
OneEach ==
    \A u \in Accounts \ disturbed : \A s, t \in live :
        owner[s] = u /\ login[s] = login[t] =>
            \/ s = t
            \/ \E r \in Requests : pc[r] = "rotated" /\ req[r].who = u /\ {s, t} = {req[r].tok, req[r].fresh}

Matched == Shapely /\ Alone /\ (\A r \in Requests : Holding(r)) /\ InSync /\ OneEach

\* What a step of a request does to the sessions of the table and the cookies.
LEMMA StepEffects ==
    ASSUME Shapely, NEW r \in Requests, SessionStep(r)
    PROVE  /\ Active(r) /\ disturbed \subseteq disturbed'
           /\ \A u \in Accounts : u # req[r].who => jar'[u] = jar[u]
           /\ \A t \in live : t \in live' \/ owner[t] \in disturbed' \/ t = req[r].tok
           /\ \A t \in 1..issued : owner'[t] = owner[t] /\ login'[t] = login[t]
           /\ \A t \in live' : t \in live \/ (t = issued' /\ pc[r] \in {"create", "rotate"})
           /\ pc'[r] # "done" => Active(r)' /\ req'[r].who = req[r].who /\ jar' = jar
<1>1. SessionsTypeOK /\ OwnTokens /\ Shape(r) /\ req[r] \in RequestType
  BY DEF Shapely, SessionsTypeOK
<1> USE DEF Proceed, Answer, Disturb, Active, rows, notes
<1>2. ASSUME NEW u \in Accounts, NEW from, from = Nil \/ from \in 1..issued, CreateSession(u, from)
      PROVE  /\ \A t \in 1..issued : owner'[t] = owner[t] /\ login'[t] = login[t]
             /\ live' = live \union {issued'}
  BY <1>2, Created
<1>3. CASE LoginCreate(r)
  <2>1. req[r].who \in Accounts /\ CreateSession(req[r].who, Nil)
    BY <1>1, <1>3 DEF LoginCreate, OwnTokens
  <2> QED
    BY <1>1, <1>2, <1>3, <2>1 DEF LoginCreate, SessionsTypeOK
<1>4. CASE RotateCreate(r)
  <2>1. /\ owner[req[r].tok] \in Accounts /\ req[r].tok \in 1..issued
        /\ CreateSession(owner[req[r].tok], req[r].tok)
    BY <1>1, <1>4 DEF RotateCreate, OwnTokens, Shape, Inside, Ruling
  <2> QED
    BY <1>1, <1>2, <1>4, <2>1 DEF RotateCreate, SessionsTypeOK, RequestType
<1>5. CASE Register(r) \/ LoginRead(r) \/ Unknown(r) \/ Found(r)
  BY <1>1, <1>5 DEF Register, LoginRead, Unknown, Found, SessionsTypeOK
<1>6. CASE CheckUser(r)
  BY <1>1, <1>6 DEF CheckUser, SessionsTypeOK, RequestType
<1>7. CASE Stale(r) \/ AuthenticateFails(r) \/ RotateDelete(r) \/ Logout(r)
  BY <1>1, <1>7 DEF Stale, AuthenticateFails, RotateDelete, Logout, DeleteSession, SessionsTypeOK
<1>8. CASE Limited(r) \/ Admit(r) \/ Connect(r) \/ Read(r)
  BY <1>1, <1>8 DEF Limited, Admit, Connect, Read, SessionsTypeOK
<1>9. CASE Update(r) \/ WriteRole(r) \/ WriteStatus(r)
  BY <1>1, <1>9 DEF Update, WriteRole, WriteStatus, SessionsTypeOK
<1>10. CASE Sweep(r)
  <2>1. /\ \A t \in live : t \in live' \/ owner[t] = req[r].target
        /\ live' \subseteq live /\ disturbed' = disturbed \union {req[r].target}
    BY <1>10 DEF Sweep, DeleteUserSessions
  <2> QED
    BY <1>1, <1>10, <2>1 DEF Sweep, SessionsTypeOK
<1>11. CASE Respond(r)
  BY <1>1, <1>11 DEF Respond, SessionsTypeOK
<1> QED
  BY <1>3, <1>4, <1>5, <1>6, <1>7, <1>8, <1>9, <1>10, <1>11 DEF SessionStep

LEMMA AloneStep ==
    ASSUME Matched, NEW r \in Requests, SessionStep(r)
    PROVE  Alone'
<1>1. SessionsTypeOK /\ Alone /\ Shapely
  BY DEF Matched, Shapely
<1>2. \A s \in Requests : s # r => pc'[s] = pc[s] /\ req'[s] = req[s]
  BY <1>1, OthersStay
<1>3. Active(r) /\ disturbed \subseteq disturbed' /\ (Active(r)' => req'[r].who = req[r].who)
  BY <1>1, StepEffects DEF Active
<1> QED
  BY <1>1, <1>2, <1>3 DEF Alone, Active

\* The requests of other browsers hold on to what they had.
LEMMA HoldingOthers ==
    ASSUME Matched, NEW r \in Requests, SessionStep(r), NEW s \in Requests, s # r
    PROVE  Holding(s)'
<1>1. SessionsTypeOK /\ Alone /\ Shapely /\ OwnTokens /\ Holding(s) /\ Shape(s)
  BY DEF Matched, Shapely
<1>2. pc'[s] = pc[s] /\ req'[s] = req[s] /\ cookie'[s] = cookie[s]
  BY <1>1, OthersStay
<1> SUFFICES ASSUME Active(s), req[s].who \notin disturbed'
             PROVE  Holding(s)'
  BY <1>2 DEF Holding, Active
<1>3. /\ req[s].who \notin disturbed /\ req[s].who # req[r].who /\ req[s].who \in Accounts
      /\ jar'[req[s].who] = jar[req[s].who]
  BY <1>1, StepEffects DEF Alone, OwnTokens
<1>4. \A t \in live : owner[t] = req[s].who => t \in live'
  <2>1. req[r].tok # Nil => owner[req[r].tok] = req[r].who
    BY <1>1, StepEffects DEF OwnTokens
  <2>2. \A t \in live : t # Nil
    BY <1>1, SessionsAssumption DEF SessionsTypeOK, Tokens
  <2> QED
    BY <1>3, <2>1, <2>2, StepEffects, <1>1
<1>5. \A t \in {req[s].tok, req[s].fresh, cookie[s], jar[req[s].who]} : t \in live => t \in live'
  <2>1. live \subseteq 1..issued /\ live \subseteq Tokens /\ Nil \notin Tokens
    BY <1>1, SessionsAssumption DEF SessionsTypeOK, Tokens
  <2> QED
    BY <1>1, <1>3, <1>4, <2>1 DEF OwnTokens
<1>6. Current(s)' = Current(s) /\ Current(s) \in {req[s].tok, req[s].fresh, cookie[s], jar[req[s].who]}
  BY <1>2, <1>3 DEF Current
<1>7. pc[s] = "rotated" => login'[req[s].fresh] = login[req[s].fresh] /\ login'[req[s].tok] = login[req[s].tok]
  BY <1>1, StepEffects DEF OwnTokens, Shape, Inside, Ruling
<1> QED
  BY <1>1, <1>2, <1>3, <1>5, <1>6, <1>7 DEF Holding

LEMMA HoldingSelf ==
    ASSUME Matched, NEW r \in Requests, SessionStep(r)
    PROVE  Holding(r)'
<1>1. SessionsTypeOK /\ OwnTokens /\ Holding(r) /\ Shape(r) /\ Shapely /\ req[r] \in RequestType
  BY DEF Matched, Shapely, SessionsTypeOK
<1> USE DEF Proceed, Answer, Disturb, Active, rows, notes
<1>2. CASE pc'[r] = "done"
  BY <1>2 DEF Holding
<1> SUFFICES ASSUME pc'[r] # "done", req'[r].who \notin disturbed'
             PROVE  Holding(r)'
  BY <1>2 DEF Holding
<1>3. /\ req'[r].who = req[r].who /\ req[r].who \notin disturbed /\ jar' = jar /\ Active(r)
      /\ req[r].who \in Accounts
  BY <1>1, StepEffects DEF OwnTokens
<1>4. /\ Current(r) \in live \union {Nil, Clear}
      /\ pc[r] \in Inside => jar[req[r].who] = req[r].tok
      /\ pc[r] = "rotated" =>
            req[r].fresh \in live \ {req[r].tok} /\ login[req[r].fresh] = login[req[r].tok]
  BY <1>1, <1>3 DEF Holding
<1>5. CASE LoginCreate(r)
  <2>1. issued + 1 \in live' /\ cookie'[r] = issued + 1 /\ pc'[r] = "answered"
    BY <1>1, <1>5 DEF LoginCreate, CreateSession, SessionsTypeOK
  <2>2. issued + 1 # Nil
    BY <1>5, SessionsAssumption DEF LoginCreate, CreateSession
  <2> QED
    BY <2>1, <2>2 DEF Holding, Current, Inside, Ruling
<1>6. CASE RotateCreate(r)
  <2>1. /\ owner[req[r].tok] \in Accounts /\ req[r].tok \in 1..issued
        /\ CreateSession(owner[req[r].tok], req[r].tok) /\ req[r].tok # Nil
        /\ pc'[r] = "rotated" /\ pc[r] = "rotate"
    BY <1>1, <1>6 DEF RotateCreate, OwnTokens, Shape, Inside, Ruling, SessionsTypeOK
  <2>2. /\ req'[r].tok = req[r].tok /\ req'[r].fresh = issued + 1 /\ issued' = issued + 1
    BY <1>1, <1>6, <2>1, Created DEF RotateCreate, SessionsTypeOK, RequestType
  <2>3. /\ live' = live \union {issued'} /\ login'[req[r].tok] = login[req[r].tok]
        /\ login'[issued'] = login[req[r].tok] /\ issued' # req[r].tok
    BY <1>1, <2>1, Created
  <2>4. /\ Current(r)' = req[r].tok /\ req[r].tok \in live' \union {Nil, Clear}
        /\ jar'[req'[r].who] = req'[r].tok
    BY <1>3, <1>4, <2>1, <2>2, <2>3 DEF Current, Inside, Ruling
  <2>5. req'[r].fresh \in live' \ {req'[r].tok} /\ login'[req'[r].fresh] = login'[req'[r].tok]
    BY <2>2, <2>3
  <2> QED
    BY <2>2, <2>4, <2>5 DEF Holding
<1>7. CASE RotateDelete(r)
  <2>1. /\ pc[r] = "rotated" /\ pc'[r] = "limit" /\ req' = req
        /\ live' = live \ {req[r].tok}
    BY <1>1, <1>3, <1>7 DEF RotateDelete, DeleteSession, SessionsTypeOK
  <2>2. req[r].fresh \in live' /\ req[r].fresh # Nil
    BY <1>1, <1>4, <2>1 DEF Shape
  <2> QED
    BY <1>3, <1>4, <2>1, <2>2 DEF Holding, Current, Inside, Ruling
<1>8. CASE Register(r) \/ LoginRead(r) \/ Unknown(r) \/ Found(r)
  BY <1>1, <1>3, <1>4, <1>8 DEF Register, LoginRead, Unknown, Found, SessionsTypeOK, Shape, Holding, Current, Inside, Ruling
<1>9. CASE Stale(r) \/ AuthenticateFails(r)
  BY <1>1, <1>3, <1>9 DEF Stale, AuthenticateFails
<1>10. CASE CheckUser(r)
  <2>1. /\ pc[r] = "user" /\ live' = live
        /\ req'[r].tok = req[r].tok /\ req'[r].fresh = req[r].fresh
        /\ \/ pc'[r] = "answered" /\ cookie'[r] = Clear
           \/ pc'[r] \in {"rotate", "limit"}
    BY <1>1, <1>10 DEF CheckUser, SessionsTypeOK, RequestType
  <2>2. req[r].fresh = Nil /\ req[r].tok # Nil /\ Clear # Nil
    BY <1>1, <2>1, SessionsAssumption DEF Shape, Inside, Ruling
  <2> QED
    BY <1>3, <1>4, <2>1, <2>2 DEF Holding, Current, Inside, Ruling
<1>11. CASE Limited(r) \/ Admit(r) \/ Connect(r)
  BY <1>1, <1>3, <1>4, <1>11 DEF Limited, Admit, Connect, SessionsTypeOK, Shape, Holding, Current, Inside, Ruling
<1>12. CASE Read(r) \/ Logout(r)
  <2>1. /\ pc[r] = "handle" /\ pc'[r] = "answered" /\ req' = req
        /\ \/ cookie'[r] = Clear
           \/ live' = live /\ cookie'[r] = cookie[r]
    BY <1>1, <1>12 DEF Read, Logout, SessionsTypeOK
  <2>2. cookie[r] = req[r].fresh /\ req[r].tok # Nil /\ Clear # Nil
    BY <1>1, <2>1, SessionsAssumption DEF Shape, Inside, Ruling
  <2> QED
    BY <1>3, <1>4, <2>1, <2>2 DEF Holding, Current, Inside, Ruling
<1>13. CASE Update(r) \/ WriteRole(r) \/ WriteStatus(r)
  BY <1>1, <1>3, <1>4, <1>13 DEF Update, WriteRole, WriteStatus, SessionsTypeOK, Shape, Holding, Current, Inside, Ruling
<1>14. CASE Sweep(r)
  <2>1. /\ pc[r] = "sweep" /\ pc'[r] = "answered" /\ req' = req /\ cookie' = cookie
        /\ disturbed' = disturbed \union {req[r].target}
        /\ \A t \in live : owner[t] # req[r].target => t \in live'
    BY <1>1, <1>14 DEF Sweep, DeleteUserSessions, SessionsTypeOK
  <2>2. /\ cookie[r] = req[r].fresh /\ req[r].tok # Nil /\ req[r].tok \in 1..issued
        /\ owner[req[r].tok] = req[r].who
        /\ req[r].fresh # Nil => req[r].fresh \in 1..issued /\ owner[req[r].fresh] = req[r].who
    BY <1>1, <1>3, <2>1 DEF Shape, OwnTokens, Inside, Ruling
  <2>3. req[r].who # req[r].target
    BY <1>3, <2>1
  <2> QED
    BY <1>3, <1>4, <2>1, <2>2, <2>3 DEF Holding, Current, Inside, Ruling
<1>15. CASE Respond(r)
  BY <1>1, <1>15 DEF Respond, SessionsTypeOK
<1> QED
  BY <1>5, <1>6, <1>7, <1>8, <1>9, <1>10, <1>11, <1>12, <1>13, <1>14, <1>15 DEF SessionStep

LEMMA InSyncStep ==
    ASSUME Matched, NEW r \in Requests, SessionStep(r)
    PROVE  InSync'
<1>1. SessionsTypeOK /\ OwnTokens /\ Shapely /\ InSync /\ Alone /\ Holding(r)
  BY DEF Matched, Shapely
<1>2. \A s \in Requests : s # r => pc'[s] = pc[s] /\ req'[s] = req[s]
  BY <1>1, OthersStay
<1> SUFFICES ASSUME NEW u \in Accounts, u \notin disturbed', Quiet(u)', jar'[u] # Nil
             PROVE  jar'[u] \in live'
  BY DEF InSync
<1>3. u \notin disturbed /\ Active(r)
  BY <1>1, StepEffects
<1>4. CASE u # req[r].who
  <2>1. Quiet(u)
    BY <1>2, <1>4 DEF Quiet
  <2>2. jar'[u] = jar[u] /\ jar[u] \in live /\ owner[jar[u]] = u
    BY <1>1, <1>3, <1>4, <2>1, StepEffects DEF InSync, OwnTokens
  <2>3. req[r].tok # Nil => owner[req[r].tok] = req[r].who
    BY <1>1, <1>3 DEF OwnTokens
  <2> QED
    BY <1>1, <1>4, <2>2, <2>3, StepEffects
<1>5. CASE u = req[r].who
  <2>1. pc'[r] = "done"
    BY <1>1, <1>5, StepEffects DEF Quiet, Active
  <2>2. Respond(r)
    BY <1>1, <2>1 DEF SessionStep, Register, LoginRead, LoginCreate, Unknown, Stale, Found, CheckUser,
          AuthenticateFails, RotateCreate, RotateDelete, Limited, Admit, Connect, Read, Logout, Update,
          WriteRole, WriteStatus, Sweep, Proceed, Answer, SessionsTypeOK
  <2>3. /\ pc[r] = "answered" /\ live' = live
        /\ jar'[u] = IF cookie[r] = Nil THEN jar[u] ELSE IF cookie[r] = Clear THEN Nil ELSE cookie[r]
    BY <1>1, <1>5, <2>2 DEF Respond, rows, SessionsTypeOK
  <2>4. jar[u] # Clear
    BY <1>1, SessionsAssumption DEF SessionsTypeOK
  <2> QED
    BY <1>1, <1>3, <1>5, <2>3, <2>4 DEF Holding, Current, Inside, Ruling
<1> QED
  BY <1>4, <1>5

LEMMA OneEachStep ==
    ASSUME Matched, NEW r \in Requests, SessionStep(r)
    PROVE  OneEach'
<1>1. SessionsTypeOK /\ OwnTokens /\ Shapely /\ OneEach /\ Alone /\ Holding(r) /\ Shape(r)
  BY DEF Matched, Shapely
<1>2. \A s \in Requests : s # r => pc'[s] = pc[s] /\ req'[s] = req[s]
  BY <1>1, OthersStay
<1> SUFFICES ASSUME NEW u \in Accounts, u \notin disturbed', NEW s \in live', NEW t \in live',
                    owner'[s] = u, login'[s] = login'[t], s # t
             PROVE  \E x \in Requests : pc'[x] = "rotated" /\ req'[x].who = u
                        /\ {s, t} = {req'[x].tok, req'[x].fresh}
  BY DEF OneEach
<1>3. /\ u \notin disturbed /\ Active(r)
      /\ \A x \in live' : x \in live \/ (x = issued' /\ pc[r] \in {"create", "rotate"})
      /\ \A x \in 1..issued : owner'[x] = owner[x] /\ login'[x] = login[x]
  BY <1>1, StepEffects
<1>4. CASE s \in live /\ t \in live
  <2>1. s \in 1..issued /\ t \in 1..issued
    BY <1>1, <1>4 DEF SessionsTypeOK
  <2>2. PICK x \in Requests : pc[x] = "rotated" /\ req[x].who = u /\ {s, t} = {req[x].tok, req[x].fresh}
    BY <1>1, <1>3, <1>4, <2>1 DEF OneEach
  <2>3. CASE x # r
    BY <1>2, <2>2, <2>3
  <2>4. CASE x = r
    <3>1. RotateDelete(r)
      BY <2>2, <2>4 DEF SessionStep, Register, LoginRead, LoginCreate, Unknown, Stale, Found, CheckUser,
          AuthenticateFails, RotateCreate, Limited, Admit, Connect, Read, Logout, Update,
          WriteRole, WriteStatus, Sweep, Respond
    <3>2. req[r].tok \notin live'
      BY <1>1, <2>2, <2>4, <3>1 DEF RotateDelete, DeleteSession, Disturb
    <3> QED
      BY <2>2, <2>4, <3>2
  <2> QED
    BY <2>3, <2>4
<1>5. CASE s \notin live \/ t \notin live
  <2>1. pc[r] \in {"create", "rotate"} /\ (s = issued' \/ t = issued') /\ (s \in live \/ t \in live)
    BY <1>3, <1>5
  <2>2. /\ req[r].who \in Accounts
        /\ pc[r] = "rotate" =>
              req[r].tok \in 1..issued /\ owner[req[r].tok] = req[r].who /\ req[r].tok # Nil
    BY <1>1, <1>3, <2>1 DEF OwnTokens, Shape, Inside, Ruling
  <2>3. (LoginCreate(r) /\ pc[r] = "create") \/ (RotateCreate(r) /\ pc[r] = "rotate")
    <3>1. CASE pc[r] = "create"
      BY <3>1 DEF SessionStep, Register, LoginRead, Unknown, Stale, Found, CheckUser,
          AuthenticateFails, RotateCreate, RotateDelete, Limited, Admit, Connect, Read, Logout, Update,
          WriteRole, WriteStatus, Sweep, Respond
    <3>2. CASE pc[r] = "rotate" /\ ~RotateCreate(r)
      <4>1. AuthenticateFails(r)
        BY <3>2 DEF SessionStep, Register, LoginRead, LoginCreate, Unknown, Stale, Found, CheckUser,
          RotateDelete, Limited, Admit, Connect, Read, Logout, Update,
          WriteRole, WriteStatus, Sweep, Respond
      <4> QED
        BY <1>5, <4>1 DEF AuthenticateFails, rows
    <3> QED
      BY <2>1, <3>1, <3>2
  <2>4. CASE LoginCreate(r)
    <3>1. /\ issued' \notin 1..issued /\ login'[issued'] = issued'
      BY <1>1, <2>2, <2>4, Created DEF LoginCreate
    <3>2. \A x \in live : login'[x] \in 1..issued
      BY <1>1, <1>3 DEF OwnTokens, SessionsTypeOK
    <3> QED
      BY <2>1, <3>1, <3>2
  <2>5. CASE RotateCreate(r) /\ pc[r] = "rotate"
    <3>1. CreateSession(req[r].who, req[r].tok)
      BY <2>2, <2>5 DEF RotateCreate
    <3>2. /\ owner'[issued'] = req[r].who /\ login'[issued'] = login[req[r].tok]
          /\ issued' = issued + 1
      BY <1>1, <2>2, <2>5, <3>1, Created
    <3>3. PICK x \in live : (s = x /\ t = issued') \/ (t = x /\ s = issued')
      BY <1>3, <1>5
    <3>0. x \in 1..issued /\ login'[x] = login[x] /\ owner'[x] = owner[x]
      BY <1>1, <1>3 DEF SessionsTypeOK
    <3>4. x \in 1..issued /\ login[x] = login[req[r].tok]
      BY <3>0, <3>2, <3>3
    <3>5. owner[x] = req[r].who
      <4>1. /\ owner[login[x]] = owner[x]
            /\ owner[login[req[r].tok]] = owner[req[r].tok] /\ owner[req[r].tok] = req[r].who
        BY <1>1, <2>2, <2>5, <3>4 DEF OwnTokens
      <4> QED
        BY <3>4, <4>1
    <3>6. u = req[r].who
      BY <3>0, <3>2, <3>3, <3>5
    <3>7. req[r].tok \in live
      <4>1. req[r].tok \in live \union {Nil, Clear}
        BY <1>1, <1>3, <2>5, <3>6 DEF Holding, Current
      <4>2. req[r].tok \in Tokens
        BY <1>1, <2>2, <2>5, SessionsAssumption DEF SessionsTypeOK, Tokens
      <4> QED
        BY <4>1, <4>2, SessionsAssumption
    <3>8. x = req[r].tok
      <4>1. SUFFICES ASSUME x # req[r].tok PROVE FALSE
        OBVIOUS
      <4>2. PICK y \in Requests : pc[y] = "rotated" /\ req[y].who = u
        <5>1. \A a, b \in live : owner[a] = u /\ login[a] = login[b] =>
                a = b \/ \E y \in Requests : pc[y] = "rotated" /\ req[y].who = u
          BY <1>1, <1>3 DEF OneEach
        <5> QED
          BY <3>3, <3>4, <3>5, <3>6, <3>7, <4>1, <5>1
      <4> QED
        BY <1>1, <1>3, <2>5, <3>6, <4>2 DEF Alone, Active
    <3>9. req'[r].tok = req[r].tok /\ req'[r].fresh = issued' /\ req'[r].who = u /\ pc'[r] = "rotated"
      BY <1>1, <2>5, <3>2, <3>6 DEF RotateCreate, Proceed, SessionsTypeOK, RequestType
    <3> QED
      BY <3>3, <3>8, <3>9
  <2> QED
    BY <2>3, <2>4, <2>5
<1> QED
  BY <1>4, <1>5

LEMMA SendMatched ==
    ASSUME Matched, NEW r \in Requests, NEW u \in Accounts, NEW k \in Kinds, Send(r, u, k)
    PROVE  Matched'
<1>1. /\ Shapely /\ SessionsTypeOK /\ Alone /\ InSync /\ OneEach
      /\ \A s \in Requests : Holding(s)
  BY DEF Matched, Shapely
<1>2. \A s \in Requests : s # r => pc'[s] = pc[s] /\ req'[s] = req[s] /\ cookie'[s] = cookie[s]
  BY <1>1, Sent DEF SessionsTypeOK
<1>3. /\ pc[r] = "idle" /\ pc'[r] \in {"login", "find"} /\ cookie'[r] = Nil
      /\ UNCHANGED <<live, issued, owner, login, jar>>
      /\ req'[r].who = u /\ req'[r].tok = jar[u] /\ req'[r].fresh = Nil
      /\ disturbed' = IF Quiet(u) THEN disturbed ELSE disturbed \union {u}
  BY <1>1, Sent DEF SessionsTypeOK, rows
<1>4. Alone'
  BY <1>1, <1>2, <1>3 DEF Alone, Quiet, Active
<1>5. \A s \in Requests : s # r => Holding(s)'
  BY <1>1, <1>2, <1>3 DEF Holding, Current, Active
<1>6. Holding(r)'
  <2> SUFFICES ASSUME u \notin disturbed' PROVE Holding(r)'
    BY <1>3 DEF Holding
  <2>1. u \notin disturbed /\ jar[u] \in live \union {Nil}
    BY <1>1, <1>3 DEF InSync
  <2> QED
    BY <1>3, <2>1 DEF Holding, Current, Inside, Ruling
<1>7. InSync'
  <2> SUFFICES ASSUME NEW v \in Accounts, v \notin disturbed', Quiet(v)', jar[v] # Nil
               PROVE  jar[v] \in live
    BY <1>3 DEF InSync
  <2>1. Quiet(v) /\ v \notin disturbed
    BY <1>2, <1>3 DEF Quiet
  <2> QED
    BY <1>1, <2>1 DEF InSync
<1>8. OneEach'
  <2> SUFFICES ASSUME NEW v \in Accounts, v \notin disturbed', NEW s \in live, NEW t \in live,
                      owner[s] = v, login[s] = login[t], s # t
               PROVE  \E x \in Requests : pc'[x] = "rotated" /\ req'[x].who = v
                          /\ {s, t} = {req'[x].tok, req'[x].fresh}
    BY <1>3 DEF OneEach
  <2>1. PICK x \in Requests : pc[x] = "rotated" /\ req[x].who = v /\ {s, t} = {req[x].tok, req[x].fresh}
    BY <1>1, <1>3 DEF OneEach
  <2> QED
    BY <1>2, <1>3, <2>1
<1> QED
  BY <1>4, <1>5, <1>6, <1>7, <1>8, <1>1, SendShapely DEF Matched

LEMMA CleanupMatched == Matched /\ Cleanup => Matched'
<1> SUFFICES ASSUME Matched, Cleanup PROVE Matched'
  OBVIOUS
<1>1. /\ Shapely /\ SessionsTypeOK /\ OwnTokens /\ Alone /\ InSync /\ OneEach
      /\ \A r \in Requests : Holding(r) /\ Shape(r)
  BY DEF Matched, Shapely
<1>2. PICK old \in SUBSET live \ {{}} :
        /\ live' = live \ old
        /\ disturbed' = disturbed \union {owner[t] : t \in old}
  BY DEF Cleanup, DeleteExpiredSessions
<1>3. UNCHANGED <<owner, login, jar, pc, req, cookie>>
  BY DEF Cleanup
<1>4. \A t \in live : owner[t] \notin disturbed' => t \in live'
  BY <1>2
<1>5. Alone' /\ OneEach'
  BY <1>1, <1>2, <1>3 DEF Alone, OneEach, Active
<1>6. InSync'
  BY <1>1, <1>2, <1>3, <1>4 DEF InSync, Quiet, OwnTokens
<1>7. ASSUME NEW r \in Requests PROVE Holding(r)'
  <2> SUFFICES ASSUME Active(r), req[r].who \notin disturbed' PROVE Holding(r)'
    BY <1>3 DEF Holding, Active
  <2>1. req[r].who \notin disturbed /\ req[r].who \in Accounts
    BY <1>1, <1>2 DEF OwnTokens
  <2>2. \A t \in {req[r].tok, req[r].fresh, cookie[r], jar[req[r].who]} : t \in live => t \in live'
    <3>1. live \subseteq 1..issued /\ live \subseteq Tokens /\ Nil \notin Tokens
      BY <1>1, SessionsAssumption DEF SessionsTypeOK, Tokens
    <3> QED
      BY <1>1, <1>4, <2>1, <3>1 DEF OwnTokens
  <2>3. Current(r)' = Current(r) /\ Current(r) \in {req[r].tok, req[r].fresh, cookie[r], jar[req[r].who]}
    BY <1>3 DEF Current
  <2> QED
    BY <1>1, <1>3, <2>1, <2>2, <2>3 DEF Holding
<1> QED
  BY <1>1, <1>5, <1>6, <1>7, CleanupShapely DEF Matched

LEMMA MatchedKept == Matched /\ [SessionsNext]_sessionVars => Matched'
<1> SUFFICES ASSUME Matched, [SessionsNext]_sessionVars PROVE Matched'
  OBVIOUS
<1>1. Shapely'
  BY ShapelyKept DEF Matched
<1>2. ASSUME NEW r \in Requests, SessionStep(r) PROVE Matched'
  <2>1. \A s \in Requests : Holding(s)'
    BY <1>2, HoldingOthers, HoldingSelf
  <2> QED
    BY <1>1, <1>2, <2>1, AloneStep, InSyncStep, OneEachStep DEF Matched
<1>3. CASE UNCHANGED sessionVars
  BY <1>1, <1>3 DEF sessionVars, rows, notes, Matched, Alone, Holding, Current, Active, InSync, Quiet, OneEach
<1> QED
  BY <1>2, <1>3, SendMatched, CleanupMatched DEF SessionsNext

\* A browser that sends its requests one by one holds a session that is there between
\* them, and a login never leaves two sessions behind, whatever requests of others,
\* administrators and the cleanup do meanwhile (rotate, Logout, setSessionCookie).
THEOREM CookiesMatch == SessionsSpec => []CookiesMatchSessions
<1>1. SessionsInit => Matched
  <2> SUFFICES ASSUME SessionsInit PROVE Matched
    OBVIOUS
  <2>1. Shapely /\ SessionsTypeOK /\ OwnTokens
    BY SessionsInitShapely DEF Shapely
  <2>2. live = 1..issued /\ \A r \in Requests : pc[r] = "idle"
    BY DEF SessionsInit
  <2>3. Alone /\ (\A r \in Requests : Holding(r)) /\ InSync
    BY <2>1, <2>2 DEF Alone, Holding, Active, InSync, OwnTokens
  <2>4. live \subseteq Tokens
    BY <2>1, SessionsAssumption DEF SessionsTypeOK, Tokens
  <2>5. OneEach
    BY <2>4 DEF OneEach, SessionsInit
  <2> QED
    BY <2>1, <2>3, <2>5 DEF Matched
<1>2. Matched => CookiesMatchSessions
  <2> SUFFICES ASSUME Matched PROVE OneSessionPerLogin
    BY DEF Matched, Shapely, CookiesMatchSessions
  <2> QED
    BY DEF Matched, OneEach, OneSessionPerLogin, Quiet
<1> QED
  BY <1>1, <1>2, MatchedKept, PTL DEF SessionsSpec

-----------------------------------------------------------------------------
(* AdminApi *)

\* What the proofs need of the table of routes: codes of success and of refusal, the
\* queries that write nothing, and the operations that need a right.
LEMMA RouteCodes ==
    \A op \in Op : Routes[op].ok \in 200..204 /\ Routes[op].refuse \subseteq {400, 422}
BY DEF Op, Routes, Route, HandleListUsers, HandleUpdateUser, HandleAdminOverview, HandleGetSettings,
       HandleUpdateSettings, HandleExport, HandleListApiKeys, HandleCreateApiKey, HandleRevokeApiKey,
       HandleCreateOrder, HandleListMyOrders, HandleAdminListOrders, HandleAdminUpdateOrderStatus,
       HandleAdminListTestimonials, HandleAdminCreateTestimonial, HandleAdminUpdateTestimonial,
       HandleAdminDeleteTestimonial, HandleListTenantAudit, HandleRecordAudit, HandleListEndpoints,
       HandleCreateEndpoint, HandleDeleteEndpoint, HandleStoreExportCAD, HandleGetObject, HandleDeleteObject,
       HandleUsageAnalytics, HandleProjectsAnalytics, HandleManufacturingAnalytics, HandleCostAnalytics,
       HandlePublicListTestimonials, HandleCreateConsultation

Reading == {"list_users", "overview", "get_settings", "export", "list_keys", "my_orders", "list_orders",
            "list_testimonials", "list_audit", "list_endpoints", "get_object", "usage", "projects",
            "manufacturing", "cost", "published"}

LEMMA RoutesThatRead == \A op \in Reading : op \in Op /\ op \notin Writing
BY DEF Reading, Writing, Op, Routes, Route, HandleListUsers, HandleAdminOverview, HandleGetSettings,
       HandleExport, HandleListApiKeys, HandleListMyOrders, HandleAdminListOrders,
       HandleAdminListTestimonials, HandleListTenantAudit, HandleListEndpoints, HandleGetObject,
       HandleUsageAnalytics, HandleProjectsAnalytics, HandleManufacturingAnalytics, HandleCostAnalytics,
       HandlePublicListTestimonials

Guarded == {"update_user", "update_settings", "create_key", "revoke_key", "order_status",
            "create_testimonial", "update_testimonial", "delete_testimonial", "create_endpoint",
            "delete_endpoint", "delete_object"}

LEMMA RoutesThatNeedARight ==
    /\ \A op \in Guarded : op \in Op /\ ~Free(op)
    /\ Routes["update_user"].needs = "users.manage" /\ Routes["create_order"].needs = "user"
BY DEF Guarded, Free, Op, Routes, Route, HandleUpdateUser, HandleUpdateSettings, HandleCreateApiKey,
       HandleRevokeApiKey, HandleAdminUpdateOrderStatus, HandleAdminCreateTestimonial,
       HandleAdminUpdateTestimonial, HandleAdminDeleteTestimonial, HandleCreateEndpoint,
       HandleDeleteEndpoint, HandleDeleteObject, HandleCreateOrder

\* Before the first statement that writes, and between the statements of a handler.
Early == {"idle", "admitted", "barred", "checked"}
Underway == {"admitted", "checked", "role_set"}

\* How far a request is tells what it has left in the tables, and whom it may act on.
Progress(r) ==
    LET c == adminCall[r] IN
    /\ c.step \in Early => r \notin wrote /\ r \notin gone /\ key[r] = NoKey /\ testimonial[r] = NoTestimonial
    /\ c.step \in {"role_set", "stored"} => r \in wrote
    /\ c.step # "done" => c.shown = {} /\ \A x \in {"ok", "denied"} : <<r, x>> \notin journal
    /\ c.step = "role_set" => c.op = "update_user"
    /\ c.step = "checked" => c.op \in {"update_user", "update_testimonial"}
    /\ c.op = "update_user" /\ c.step \in {"checked", "role_set"} =>
          c.target \in People \ Outside /\ c.target # c.subject
    /\ c.op = "update_testimonial" /\ c.step = "checked" => c.target \in Rows
    /\ c.step # "idle" => c.subject \in (People \ Outside) \union Rows \union {Nothing}

AwayRows == key[Away].tenant = Away /\ order[Away].tenant = Away

Basis == AdminTypeOK /\ AwayRows /\ AwayUntouched /\ \A r \in AdminRequests : Progress(r)

(* Every step of a request is one of three.  It passes: nothing but the request       *)
(* itself changes, and no effect has been promised.                                   *)
Passes(r, c) ==
    /\ adminCall' = [adminCall EXCEPT ![r] = c] /\ Silent
    /\ adminCall[r].step \in Early /\ c.step \in {"admitted", "barred", "checked", "done"}
    /\ c.step = "done" /\ c.op \in Writing => c.answer >= 300
    /\ c.subject \in (People \ Outside) \union Rows \union {Nothing}
    /\ c.step # "done" => c.shown = {}
    /\ c.shown \intersect (Outside \union {Away}) = {}
    /\ c.op = "published" => c.shown \subseteq {i \in OfHome(testimonial) : testimonial[i].published}
    /\ c.step = "checked" => \/ c.op = "update_user" /\ c.target \in People \ Outside /\ c.target # c.subject
                             \/ c.op = "update_testimonial" /\ c.target \in Rows
    /\ c.step \in Underway =>
          \/ adminCall[r].step \in Underway /\ c.op = adminCall[r].op /\ c.subject = adminCall[r].subject
          \/ Free(c.op)
          \/ Entitled(c.subject, c.op) /\ c.subject \in People \union OfHome(key)

TablesTyped ==
    /\ person \in [People -> [role : AdminRole, active : BOOLEAN]]
    /\ key \in [Rows -> [tenant : Tenants \union {Nothing}, scopes : KeyScopes \union {{}}, active : BOOLEAN]]
    /\ \A i \in Rows : key[i].active => key[i].tenant # Nothing
    /\ policy \in AdminRequests \union {Nothing}
    /\ order \in [Rows -> [tenant : Tenants \union {Nothing}, owner : People \union {Nothing}, status : Status]]
    /\ testimonial \in [Rows -> [tenant : Tenants \union {Nothing}, text : Rows \union {Nothing},
                                 published : BOOLEAN]]
    /\ endpoint \in [Rows -> Tenants \union {Nothing}] /\ object \in [Rows -> Tenants \union {Nothing}]
    /\ gone \subseteq Rows

(* It writes: rows of its own or of Home, the account of another, and, unless its     *)
(* route is free, only with a right.                                                  *)
Writes(r, s) ==
    LET c == adminCall[r]
        Kept(table, new) == \A i \in Rows \ {r} : table[i].tenant # Home => new[i] = table[i]
    IN
    /\ adminCall' = [adminCall EXCEPT ![r].step = s] /\ (s = "role_set" => c.op = "update_user" /\ c.step # "admitted")
    /\ c.step \in Underway /\ Changed(r) /\ UNCHANGED <<journal, doubtful>> /\ TablesTyped'
    /\ \A u \in People : person'[u] # person[u] =>
          u = c.target /\ u \notin Outside /\ c.op = "update_user" /\ u # c.subject
    /\ Kept(key, key') /\ Kept(order, order') /\ Kept(testimonial, testimonial')
    /\ endpoint'[Away] = endpoint[Away] /\ object'[Away] = object[Away]
    /\ gone \subseteq gone' /\ \A i \in gone' : testimonial'[i] = NoTestimonial
    /\ \A i \in gone' : i \in gone \/ testimonial[i].tenant = Home
    /\ Free(c.op) =>
          /\ UNCHANGED <<person, key, policy, testimonial, endpoint>>
          /\ order'[Home] = order[Home] /\ object'[Home] = object[Home]

(* Or it ends the request: with an event, with a doubt, or without either.            *)
Ends(r, a) ==
    LET c == adminCall[r] IN
    /\ adminCall' = [adminCall EXCEPT ![r].step = "done", ![r].answer = a] /\ c.step \notin {"idle", "done"}
    /\ UNCHANGED <<tables, wrote, stale, gone>>
    /\ journal \subseteq journal' /\ journal' \subseteq journal \union {<<r, "ok">>, <<r, "denied">>}
    /\ doubtful \subseteq doubtful' /\ doubtful' \subseteq doubtful \union {r}
    /\ r \notin wrote /\ c.op \in Writing => a >= 300
    /\ r \in wrote /\ r \notin doubtful' => a < 300 /\ (c.op \in Audited => <<r, "ok">> \in journal')
    /\ <<r, "denied">> \in journal' => a >= 400 /\ r \notin wrote
    /\ <<r, "ok">> \in journal' => r \in wrote \/ c.op = "record_audit"

LEMMA NamesApart ==
    /\ Home \in Rows /\ Away \in Rows /\ Home # Away /\ Nothing \notin Tenants
    /\ Nothing \notin People /\ Nothing \notin Rows
    /\ \A r \in AdminRequests : r \in Rows /\ r \notin Tenants /\ r \notin People
    /\ \A i \in Rows : i \notin People
    /\ Outside \subseteq People
BY NamesAssumption, CallersAssumption DEF Rows, Tenants

\* The queries show rows of Home.
LEMMA ShowPasses ==
    ASSUME Basis, NEW r \in AdminRequests, NEW what, Show(r, what), what \subseteq People \union Rows,
           adminCall[r].step = "admitted", adminCall[r].op \in Reading,
           what \intersect (Outside \union {Away}) = {},
           adminCall[r].op = "published" => what \subseteq {i \in OfHome(testimonial) : testimonial[i].published}
    PROVE  \E c \in CallType : Passes(r, c)
<1>1. adminCall[r] \in CallType /\ Progress(r)
  BY DEF Basis, AdminTypeOK
<1> DEFINE c == [adminCall[r] EXCEPT !.step = "done", !.answer = Routes[adminCall[r].op].ok, !.shown = what]
<1>2. Routes[adminCall[r].op].ok \in 200..204 /\ adminCall[r].op \notin Writing
  BY RouteCodes, RoutesThatRead
<1>3. /\ c \in CallType /\ c.step = "done" /\ c.op = adminCall[r].op
      /\ c.subject = adminCall[r].subject /\ c.shown = what
  <2>1. Routes[adminCall[r].op].ok \in 0..599 /\ what \in SUBSET (People \union Rows)
    BY <1>2
  <2>2. c \in CallType
    BY <1>1, <2>1 DEF CallType
  <2> QED
    BY <1>1, <2>2 DEF CallType
<1>4. adminCall' = [adminCall EXCEPT ![r] = c] /\ Silent
  BY DEF Show
<1>5. Passes(r, c)
  BY <1>1, <1>2, <1>3, <1>4 DEF Passes, Early, Underway, Progress
<1> QED
  BY <1>3, <1>5

\* A request is refused.
LEMMA ReplyPasses ==
    ASSUME Basis, NEW r \in AdminRequests, NEW code \in 300..599, Reply(r, code), Silent,
           adminCall[r].step \in Early \ {"idle"}
    PROVE  \E c \in CallType : Passes(r, c)
<1>1. adminCall[r] \in CallType /\ Progress(r)
  BY DEF Basis, AdminTypeOK
<1> DEFINE c == [adminCall[r] EXCEPT !.step = "done", !.answer = code]
<1>2. /\ c \in CallType /\ c.step = "done" /\ c.op = adminCall[r].op /\ c.subject = adminCall[r].subject
      /\ c.shown = adminCall[r].shown /\ c.answer = code
  <2>1. code \in 0..599
    OBVIOUS
  <2>2. c \in CallType
    BY <1>1, <2>1 DEF CallType
  <2> QED
    BY <1>1, <2>2 DEF CallType
<1>3. adminCall' = [adminCall EXCEPT ![r] = c]
  BY DEF Reply
<1>4. Passes(r, c)
  BY <1>1, <1>2, <1>3 DEF Passes, Early, Underway, Progress
<1> QED
  BY <1>2, <1>4

LEMMA QueriesPass ==
    ASSUME Basis, NEW r \in AdminRequests, Query(r)
    PROVE  \E c \in CallType : Passes(r, c)
<1> USE DEF Ready, At, Reading
<1>1. /\ People \ Outside \subseteq People \union Rows
      /\ (People \ Outside) \intersect (Outside \union {Away}) = {}
      /\ {Home} \subseteq People \union Rows /\ {Home} \intersect (Outside \union {Away}) = {}
      /\ OfHome(key) \intersect (Outside \union {Away}) = {}
      /\ OfHome(order) \intersect (Outside \union {Away}) = {}
      /\ OfHome(testimonial) \intersect (Outside \union {Away}) = {}
      /\ \A i \in Rows : endpoint[i] = Home \/ object[i] = Home => i \notin Outside \union {Away}
  BY NamesApart DEF Basis, AwayRows, AwayUntouched, OfHome
<1>2. OfHome(key) \subseteq Rows /\ OfHome(order) \subseteq Rows /\ OfHome(testimonial) \subseteq Rows
  BY DEF OfHome
<1>3. CASE ListUsers(r) \/ AdminOverview(r) \/ GetPolicy(r) \/ Export(r)
  BY <1>1, <1>2, <1>3, ShowPasses DEF ListUsers, AdminOverview, GetPolicy, Export
<1>4. CASE ListApiKeys(r) \/ ListAll(r) \/ ListTestimonials(r) \/ ListTenantAudit(r)
  BY <1>1, <1>2, <1>4, ShowPasses DEF ListApiKeys, ListAll, ListTestimonials, ListTenantAudit
<1>5. CASE ListByUser(r)
  <2> DEFINE what == {i \in OfHome(order) : order[i].owner = adminCall[r].subject}
  <2>1. what \subseteq Rows /\ what \intersect (Outside \union {Away}) = {}
    BY <1>1, <1>2
  <2>2. Show(r, what) /\ adminCall[r].step = "admitted" /\ adminCall[r].op = "my_orders"
    BY <1>5 DEF ListByUser
  <2> HIDE DEF what
  <2> QED
    BY <2>1, <2>2, ShowPasses
<1>6. CASE ListEndpoints(r)
  <2> DEFINE what == {i \in Rows : endpoint[i] = Home}
  <2>1. what \subseteq Rows /\ what \intersect (Outside \union {Away}) = {}
    BY <1>1
  <2>2. Show(r, what) /\ adminCall[r].step = "admitted" /\ adminCall[r].op = "list_endpoints"
    BY <1>6 DEF ListEndpoints
  <2> HIDE DEF what
  <2> QED
    BY <2>1, <2>2, ShowPasses
<1>7. CASE ListPublished(r)
  <2> DEFINE what == {i \in OfHome(testimonial) : testimonial[i].published}
  <2>1. what \subseteq Rows /\ what \intersect (Outside \union {Away}) = {}
    BY <1>1, <1>2
  <2>2. Show(r, what) /\ adminCall[r].step = "admitted" /\ adminCall[r].op = "published"
    BY <1>7 DEF ListPublished
  <2> QED
    BY <2>1, <2>2, ShowPasses
<1>8. CASE Usage(r) \/ Projects(r) \/ Manufacturing(r) \/ Cost(r)
  BY <1>1, <1>8, ShowPasses DEF Usage, Projects, Manufacturing, Cost
<1>9. ASSUME NEW i \in Rows, Load(r, i)
      PROVE  \E c \in CallType : Passes(r, c)
  <2>1. CASE object[i] = Home
    <3>1. Show(r, {i}) /\ {i} \subseteq Rows /\ {i} \intersect (Outside \union {Away}) = {}
      BY <1>1, <1>9, <2>1 DEF Load
    <3> QED
      BY <1>9, <3>1, ShowPasses DEF Load
  <2>2. CASE object[i] # Home
    BY <1>9, <2>2, ReplyPasses DEF Load, Early
  <2> QED
    BY <2>1, <2>2
<1> QED
  BY <1>3, <1>4, <1>5, <1>6, <1>7, <1>8, <1>9 DEF Query

LEMMA AdmissionPasses ==
    ASSUME Basis, NEW r \in AdminRequests, NEW op \in Op,
           \/ LimitRate(r, op)
           \/ \E u \in (People \ Outside) \union OfHome(key) : Authenticate(r, op, u)
    PROVE  \E c \in CallType : Passes(r, c)
<1>1. adminCall[r].step = "idle" /\ Silent
  BY DEF LimitRate, Authenticate
<1>2. OfHome(key) \subseteq Rows
  BY DEF OfHome
<1>3. ASSUME NEW s \in (People \ Outside) \union Rows \union {Nothing},
             NEW step \in {"admitted", "barred", "done"}, NEW code \in 0..599, Begin(r, op, s, step, code),
             step = "done" => code >= 300,
             step = "admitted" => \/ Free(op)
                                  \/ Entitled(s, op) /\ s \in People \union OfHome(key)
      PROVE  \E c \in CallType : Passes(r, c)
  <2> DEFINE c == [op |-> op, subject |-> s, step |-> step, target |-> Nothing, answer |-> code, shown |-> {}]
  <2>1. c \in CallType
    BY DEF CallType
  <2>2. /\ c.op = op /\ c.subject = s /\ c.step = step /\ c.answer = code /\ c.shown = {}
        /\ adminCall' = [adminCall EXCEPT ![r] = c]
    BY <1>3 DEF Begin
  <2> HIDE DEF c
  <2>3. Passes(r, c)
    BY <1>1, <1>3, <2>2 DEF Passes, Early, Underway
  <2> QED
    BY <2>1, <2>3
<1>4. CASE LimitRate(r, op)
  <2>1. Free(op) /\ (Begin(r, op, Nothing, "admitted", 0) \/ Begin(r, op, Nothing, "done", 429))
    BY <1>4 DEF LimitRate, Public, Free
  <2>2. CASE Begin(r, op, Nothing, "admitted", 0)
    BY <1>3, <2>1, <2>2, SMTT(30)
  <2>3. CASE Begin(r, op, Nothing, "done", 429)
    BY <1>3, <2>3
  <2> QED
    BY <2>1, <2>2, <2>3
<1>5. ASSUME NEW u \in (People \ Outside) \union OfHome(key), Authenticate(r, op, u)
      PROVE  \E c \in CallType : Passes(r, c)
  BY <1>2, <1>3, <1>5 DEF Authenticate
<1> QED
  BY <1>4, <1>5

\* LookUp and GetTestimonial find the row that a later statement is to write.
LEMMA LookUpPasses ==
    ASSUME Basis, NEW r \in AdminRequests, NEW i, adminCall[r].step = "admitted", Silent,
           adminCall' = [adminCall EXCEPT ![r].step = "checked", ![r].target = i],
           \/ adminCall[r].op = "update_user" /\ i \in People \ Outside /\ i # adminCall[r].subject
           \/ adminCall[r].op = "update_testimonial" /\ i \in Rows
    PROVE  \E c \in CallType : Passes(r, c)
<1>1. adminCall[r] \in CallType /\ Progress(r)
  BY DEF Basis, AdminTypeOK
<1> DEFINE c == [adminCall[r] EXCEPT !.step = "checked", !.target = i]
<1>2. /\ c \in CallType /\ c.step = "checked" /\ c.op = adminCall[r].op /\ c.subject = adminCall[r].subject
      /\ c.shown = adminCall[r].shown /\ c.target = i
  <2>1. c \in CallType
    BY <1>1 DEF CallType
  <2> QED
    BY <1>1, <2>1 DEF CallType
<1>3. Passes(r, c)
  BY <1>1, <1>2 DEF Passes, Early, Underway, Progress
<1> QED
  BY <1>2, <1>3


\* The statements on the accounts and on the rows of one table, each with its WHERE.
LEMMA AccountsAreWritten ==
    ASSUME Basis, DeletedStaysDeleted, NEW r \in AdminRequests,
           \/ \E role \in AdminRole : SetRole(r, role)
           \/ \E active \in BOOLEAN : SetStatus(r, active)
    PROVE  \E s \in {"stored", "role_set"} : Writes(r, s)
<1>1. TablesTyped /\ adminCall[r] \in CallType /\ Progress(r)
  BY DEF Basis, AdminTypeOK, TablesTyped
<1>2. adminCall[r].op = "update_user" /\ adminCall[r].step \in {"checked", "role_set"} /\ ~Free(adminCall[r].op)
  BY RoutesThatNeedARight DEF SetRole, SetStatus, At, Guarded
<1>3. adminCall[r].target \in People \ Outside /\ adminCall[r].target # adminCall[r].subject
  BY <1>1, <1>2 DEF Progress
<1>4. ASSUME NEW s \in {"stored", "role_set"}, Changed(r), GoOn(r, s),
             NEW a \in [role : AdminRole, active : BOOLEAN],
             person' = [person EXCEPT ![adminCall[r].target] = a],
             UNCHANGED <<key, policy, order, testimonial, endpoint, object, journal, doubtful, gone>>
      PROVE  Writes(r, s)
  <2>1. person' \in [People -> [role : AdminRole, active : BOOLEAN]]
    BY <1>1, <1>3, <1>4 DEF TablesTyped
  <2>2. TablesTyped'
    BY <1>1, <1>4, <2>1 DEF TablesTyped
  <2>3. \A u \in People : person'[u] # person[u] => u = adminCall[r].target
    BY <1>1, <1>4 DEF TablesTyped
  <2> QED
    BY <1>2, <1>3, <1>4, <2>2, <2>3 DEF Writes, GoOn, Underway, DeletedStaysDeleted
<1>5. CASE \E role \in AdminRole : SetRole(r, role)
  <2>1. PICK role \in AdminRole : SetRole(r, role)
    BY <1>5
  <2>2. PICK s \in {"stored", "role_set"} : GoOn(r, s)
    BY <2>1 DEF SetRole
  <2> DEFINE a == [person[adminCall[r].target] EXCEPT !.role = role]
  <2>3. a \in [role : AdminRole, active : BOOLEAN]
    BY <1>1, <1>3 DEF TablesTyped
  <2>4. person' = [person EXCEPT ![adminCall[r].target] = a]
    BY <2>1 DEF SetRole
  <2>5. Changed(r) /\ UNCHANGED <<key, policy, order, testimonial, endpoint, object, journal, doubtful, gone>>
    BY <2>1 DEF SetRole
  <2> HIDE DEF a
  <2> QED
    BY <1>4, <2>2, <2>3, <2>4, <2>5
<1>6. CASE \E active \in BOOLEAN : SetStatus(r, active)
  <2>1. PICK active \in BOOLEAN : SetStatus(r, active)
    BY <1>6
  <2> DEFINE a == [person[adminCall[r].target] EXCEPT !.active = active]
  <2>2. a \in [role : AdminRole, active : BOOLEAN]
    BY <1>1, <1>3 DEF TablesTyped
  <2>3. person' = [person EXCEPT ![adminCall[r].target] = a]
    BY <2>1 DEF SetStatus
  <2>4. /\ Changed(r) /\ GoOn(r, "stored")
        /\ UNCHANGED <<key, policy, order, testimonial, endpoint, object, journal, doubtful, gone>>
    BY <2>1 DEF SetStatus, Stored
  <2> HIDE DEF a
  <2> QED
    BY <1>4, <2>2, <2>3, <2>4
<1> QED
  BY <1>5, <1>6

LEMMA RowsAreWritten ==
    ASSUME Basis, DeletedStaysDeleted, NEW r \in AdminRequests,
           \/ UpdatePolicy(r)
           \/ \E scopes \in KeyScopes : CreateApiKey(r, scopes)
           \/ CreateOrder(r)
           \/ CreateConsultation(r)
           \/ CreateTestimonial(r)
           \/ RegisterEndpoint(r)
    PROVE  Writes(r, "stored")
<1>1. TablesTyped /\ adminCall[r] \in CallType /\ Progress(r)
  BY DEF Basis, AdminTypeOK, TablesTyped
<1>2. Stored(r) /\ adminCall[r].step = "admitted" /\ r \notin gone /\ UNCHANGED gone
  BY <1>1 DEF UpdatePolicy, CreateApiKey, CreateOrder, CreateConsultation, CreateTestimonial,
              RegisterEndpoint, Ready, At, Progress, Early
<1>3. /\ adminCall' = [adminCall EXCEPT ![r].step = "stored"]
      /\ adminCall[r].step \in Underway /\ Changed(r) /\ UNCHANGED <<journal, doubtful>>
  BY <1>2 DEF Stored, GoOn, Underway
<1>4. r \in Rows /\ r # Home /\ r # Away /\ Home \in Rows /\ Away \in Rows
  BY NamesApart DEF Tenants
<1>5. CASE UpdatePolicy(r)
  <2>1. TablesTyped'
    BY <1>1, <1>5 DEF UpdatePolicy, TablesTyped
  <2>2. ~Free(adminCall[r].op)
    BY <1>5, RoutesThatNeedARight DEF UpdatePolicy, Ready, At, Guarded
  <2> QED
    BY <1>3, <1>5, <2>1, <2>2 DEF Writes, UpdatePolicy, DeletedStaysDeleted
<1>6. CASE \E scopes \in KeyScopes : CreateApiKey(r, scopes)
  <2>1. TablesTyped'
    <3>1. PICK k \in [tenant : Tenants \union {Nothing}, scopes : KeyScopes \union {{}}, active : BOOLEAN] :
            k.tenant # Nothing /\ key' = [key EXCEPT ![r] = k]
      BY <1>6, NamesApart DEF CreateApiKey, Tenants
    <3>2. key' \in [Rows -> [tenant : Tenants \union {Nothing}, scopes : KeyScopes \union {{}}, active : BOOLEAN]]
      BY <1>1, <3>1 DEF TablesTyped
    <3>3. \A i \in Rows : key'[i].active => key'[i].tenant # Nothing
      BY <1>1, <3>1 DEF TablesTyped
    <3> QED
      BY <1>1, <1>6, <3>2, <3>3 DEF CreateApiKey, TablesTyped
  <2>2. ~Free(adminCall[r].op)
    BY <1>6, RoutesThatNeedARight DEF CreateApiKey, Ready, At, Guarded
  <2>3. \A i \in Rows \ {r} : key'[i] = key[i]
    BY <1>1, <1>6 DEF CreateApiKey, TablesTyped
  <2> QED
    BY <1>3, <1>6, <2>1, <2>2, <2>3 DEF Writes, CreateApiKey, DeletedStaysDeleted
<1>7. CASE CreateOrder(r) \/ CreateConsultation(r)
  <2>1. PICK o \in [tenant : Tenants \union {Nothing}, owner : People \union {Nothing}, status : Status] :
            order' = [order EXCEPT ![r] = o]
    <3>1. CASE CreateOrder(r)
      <4>1. adminCall[r].subject \in People
        BY <3>1, RoutesThatNeedARight DEF CreateOrder, Ready, At
      <4> QED
        BY <3>1, <4>1 DEF CreateOrder, Tenants, Status
    <3>2. CASE CreateConsultation(r)
      BY <3>2 DEF CreateConsultation, Tenants, Status
    <3> QED
      BY <1>7, <3>1, <3>2
  <2>2. UNCHANGED <<person, key, policy, testimonial, endpoint, object, gone>>
    BY <1>7 DEF CreateOrder, CreateConsultation
  <2>3. order' \in [Rows -> [tenant : Tenants \union {Nothing}, owner : People \union {Nothing}, status : Status]]
    BY <1>1, <2>1 DEF TablesTyped
  <2>4. TablesTyped'
    BY <1>1, <2>2, <2>3 DEF TablesTyped
  <2>5. \A i \in Rows \ {r} : order'[i] = order[i]
    BY <1>1, <2>1 DEF TablesTyped
  <2> QED
    BY <1>3, <1>4, <2>2, <2>4, <2>5 DEF Writes, DeletedStaysDeleted
<1>8. CASE CreateTestimonial(r)
  <2>1. PICK t \in [tenant : Tenants \union {Nothing}, text : Rows \union {Nothing}, published : BOOLEAN] :
            testimonial' = [testimonial EXCEPT ![r] = t]
    BY <1>4, <1>8 DEF CreateTestimonial, Tenants
  <2>2. testimonial' \in [Rows -> [tenant : Tenants \union {Nothing}, text : Rows \union {Nothing},
                                   published : BOOLEAN]]
    BY <1>1, <2>1 DEF TablesTyped
  <2>3. TablesTyped'
    BY <1>1, <1>8, <2>2 DEF TablesTyped, CreateTestimonial
  <2>4. ~Free(adminCall[r].op)
    BY <1>8, RoutesThatNeedARight DEF CreateTestimonial, Ready, At, Guarded
  <2>5. \A i \in Rows \ {r} : testimonial'[i] = testimonial[i]
    BY <1>1, <2>1 DEF TablesTyped
  <2>6. \A i \in gone' : testimonial'[i] = NoTestimonial
    BY <1>1, <1>2, <2>5 DEF DeletedStaysDeleted, TablesTyped
  <2> QED
    BY <1>2, <1>3, <1>8, <2>3, <2>4, <2>5, <2>6 DEF Writes, CreateTestimonial
<1>9. CASE RegisterEndpoint(r)
  <2>1. TablesTyped'
    BY <1>1, <1>9 DEF RegisterEndpoint, TablesTyped, Tenants
  <2>2. ~Free(adminCall[r].op)
    BY <1>9, RoutesThatNeedARight DEF RegisterEndpoint, Ready, At, Guarded
  <2>3. endpoint'[Away] = endpoint[Away]
    BY <1>1, <1>4, <1>9 DEF RegisterEndpoint, TablesTyped
  <2> QED
    BY <1>3, <1>9, <2>1, <2>2, <2>3 DEF Writes, RegisterEndpoint, DeletedStaysDeleted
<1> QED
  BY <1>5, <1>6, <1>7, <1>8, <1>9

\* Statements that name a row, found by its tenant.
LEMMA NamedRowsAreWritten ==
    ASSUME Basis, DeletedStaysDeleted, NEW r \in AdminRequests, NEW i \in Rows, Stored(r),
           \/ RevokeApiKey(r, i) /\ key[i].tenant = Home
           \/ \E status \in Status : UpdateStatus(r, i, status) /\ order[i].tenant = Home
           \/ DeleteTestimonial(r, i) /\ testimonial[i].tenant = Home
           \/ DeleteEndpoint(r, i) /\ endpoint[i] = Home
           \/ DeleteObject(r, i) /\ object' = [object EXCEPT ![i] = Nothing] /\ object[i] \in {Home, Nothing}
              /\ UNCHANGED <<person, key, policy, order, testimonial, endpoint, gone>>
    PROVE  Writes(r, "stored")
<1>1. TablesTyped /\ adminCall[r] \in CallType /\ Progress(r)
  BY DEF Basis, AdminTypeOK, TablesTyped
<1>2. adminCall[r].step = "admitted" /\ ~Free(adminCall[r].op)
  BY RoutesThatNeedARight DEF RevokeApiKey, UpdateStatus, DeleteTestimonial, DeleteEndpoint, DeleteObject,
                              Ready, At, Guarded
<1>3. /\ adminCall' = [adminCall EXCEPT ![r].step = "stored"]
      /\ adminCall[r].step \in Underway /\ Changed(r) /\ UNCHANGED <<journal, doubtful>>
  BY <1>2 DEF Stored, GoOn, Underway
<1>4. /\ Home \in Rows /\ Away \in Rows /\ Home # Away /\ Nothing # Home /\ Nothing # Away
      /\ endpoint[Away] = Away /\ object[Away] = Away
  BY NamesApart DEF Tenants, Basis, AwayUntouched
<1>5. CASE RevokeApiKey(r, i) /\ key[i].tenant = Home
  <2> DEFINE k == [key[i] EXCEPT !.active = FALSE]
  <2>0. adminCall'[r].step = "stored"
    BY <1>1, <1>3 DEF Basis, AdminTypeOK, CallType
  <2>1. key[i].active
    BY <1>5, <2>0, <1>1 DEF RevokeApiKey, Deny, Reply, Basis, AdminTypeOK, CallType
  <2>2. /\ key' = [key EXCEPT ![i] = k]
        /\ UNCHANGED <<person, policy, order, testimonial, endpoint, object, gone>>
    BY <1>5, <2>1 DEF RevokeApiKey
  <2>3. k \in [tenant : Tenants \union {Nothing}, scopes : KeyScopes \union {{}}, active : BOOLEAN]
    <3>1. key[i] \in [tenant : Tenants \union {Nothing}, scopes : KeyScopes \union {{}}, active : BOOLEAN]
      BY <1>1 DEF TablesTyped
    <3> QED
      BY <3>1
  <2>4. k.tenant = Home
    BY <1>1, <1>5 DEF TablesTyped
  <2> HIDE DEF k
  <2>5. key' \in [Rows -> [tenant : Tenants \union {Nothing}, scopes : KeyScopes \union {{}}, active : BOOLEAN]]
    BY <1>1, <2>2, <2>3 DEF TablesTyped
  <2>6. \A j \in Rows : key'[j].active => key'[j].tenant # Nothing
    BY <1>1, <1>4, <2>2, <2>4 DEF TablesTyped
  <2>7. TablesTyped'
    BY <1>1, <2>2, <2>5, <2>6 DEF TablesTyped
  <2>8. \A j \in Rows : key[j].tenant # Home => key'[j] = key[j]
    BY <1>1, <1>5, <2>2 DEF TablesTyped
  <2> QED
    BY <1>2, <1>3, <2>2, <2>7, <2>8 DEF Writes, DeletedStaysDeleted
<1>6. CASE \E status \in Status : UpdateStatus(r, i, status) /\ order[i].tenant = Home
  <2>1. PICK status \in Status : UpdateStatus(r, i, status)
    BY <1>6
  <2> DEFINE o == [order[i] EXCEPT !.status = status]
  <2>2. /\ order' = [order EXCEPT ![i] = o]
        /\ UNCHANGED <<person, key, policy, testimonial, endpoint, object, gone>>
    BY <1>6, <2>1 DEF UpdateStatus
  <2>3. o \in [tenant : Tenants \union {Nothing}, owner : People \union {Nothing}, status : Status]
    BY <1>1 DEF TablesTyped
  <2> HIDE DEF o
  <2>4. order' \in [Rows -> [tenant : Tenants \union {Nothing}, owner : People \union {Nothing}, status : Status]]
    BY <1>1, <2>2, <2>3 DEF TablesTyped
  <2>5. TablesTyped'
    BY <1>1, <2>2, <2>4 DEF TablesTyped
  <2>6. \A j \in Rows : order[j].tenant # Home => order'[j] = order[j]
    BY <1>1, <1>6, <2>2 DEF TablesTyped
  <2> QED
    BY <1>2, <1>3, <2>2, <2>5, <2>6 DEF Writes, DeletedStaysDeleted
<1>7. CASE DeleteTestimonial(r, i) /\ testimonial[i].tenant = Home
  <2>1. /\ testimonial' = [testimonial EXCEPT ![i] = NoTestimonial] /\ gone' = gone \union {i}
        /\ UNCHANGED <<person, key, policy, order, endpoint, object>>
    BY <1>7 DEF DeleteTestimonial
  <2>2. NoTestimonial \in [tenant : Tenants \union {Nothing}, text : Rows \union {Nothing}, published : BOOLEAN]
    BY DEF NoTestimonial
  <2>3. TablesTyped'
    BY <1>1, <2>1, <2>2 DEF TablesTyped
  <2>4. \A j \in Rows : testimonial[j].tenant # Home => testimonial'[j] = testimonial[j]
    BY <1>1, <1>7, <2>1 DEF TablesTyped
  <2>5. \A j \in gone' : testimonial'[j] = NoTestimonial
    BY <1>1, <2>1 DEF TablesTyped, DeletedStaysDeleted
  <2> QED
    BY <1>2, <1>3, <1>7, <2>1, <2>3, <2>4, <2>5 DEF Writes
<1>8. CASE DeleteEndpoint(r, i) /\ endpoint[i] = Home
  <2>1. /\ endpoint' = [endpoint EXCEPT ![i] = Nothing]
        /\ UNCHANGED <<person, key, policy, order, testimonial, object, gone>>
    BY <1>8 DEF DeleteEndpoint
  <2>2. TablesTyped' /\ endpoint'[Away] = endpoint[Away]
    BY <1>1, <1>4, <1>8, <2>1 DEF TablesTyped
  <2> QED
    BY <1>2, <1>3, <2>1, <2>2 DEF Writes, DeletedStaysDeleted
<1>9. CASE /\ object' = [object EXCEPT ![i] = Nothing] /\ object[i] \in {Home, Nothing}
           /\ UNCHANGED <<person, key, policy, order, testimonial, endpoint, gone>>
  <2>1. TablesTyped' /\ object'[Away] = object[Away]
    BY <1>1, <1>4, <1>9 DEF TablesTyped
  <2> QED
    BY <1>2, <1>3, <1>9, <2>1 DEF Writes, DeletedStaysDeleted
<1> QED
  BY <1>5, <1>6, <1>7, <1>8, <1>9

\* The second statement of an update of a testimonial, which finds the row once more.
LEMMA TestimonialIsWritten ==
    ASSUME Basis, DeletedStaysDeleted, NEW r \in AdminRequests, NEW published \in BOOLEAN,
           UpdateTestimonial(r, published), testimonial[adminCall[r].target].tenant = Home
    PROVE  Writes(r, "stored")
<1>1. TablesTyped /\ adminCall[r] \in CallType /\ Progress(r)
  BY DEF Basis, AdminTypeOK, TablesTyped
<1>2. /\ adminCall[r].step = "checked" /\ adminCall[r].target \in Rows /\ ~Free(adminCall[r].op)
      /\ UNCHANGED <<person, key, policy, order, endpoint, object, gone>>
  BY <1>1, RoutesThatNeedARight DEF UpdateTestimonial, At, Guarded, Progress
<1>3. /\ adminCall' = [adminCall EXCEPT ![r].step = "stored"]
      /\ adminCall[r].step \in Underway /\ Changed(r) /\ UNCHANGED <<journal, doubtful>>
  BY <1>2 DEF Stored, GoOn, Underway, UpdateTestimonial
<1> DEFINE i == adminCall[r].target
           t == [testimonial[i] EXCEPT !.text = r, !.published = published]
<1>4. t \in [tenant : Tenants \union {Nothing}, text : Rows \union {Nothing}, published : BOOLEAN]
  <2>1. /\ testimonial[i] \in [tenant : Tenants \union {Nothing}, text : Rows \union {Nothing}, published : BOOLEAN]
        /\ r \in Rows
    BY <1>1, <1>2, NamesApart DEF TablesTyped
  <2> QED
    BY <2>1
<1>5. testimonial' = [testimonial EXCEPT ![i] = t]
  BY DEF UpdateTestimonial
<1> HIDE DEF t
<1>6. testimonial' \in [Rows -> [tenant : Tenants \union {Nothing}, text : Rows \union {Nothing},
                                 published : BOOLEAN]]
  BY <1>1, <1>4, <1>5 DEF TablesTyped
<1>7. TablesTyped'
  BY <1>1, <1>2, <1>6 DEF TablesTyped
<1>8. \A j \in Rows : testimonial[j].tenant # Home => testimonial'[j] = testimonial[j]
  BY <1>1, <1>5 DEF TablesTyped
<1>9. i \notin gone
  BY NamesApart DEF DeletedStaysDeleted, NoTestimonial, Tenants
<1>10. \A j \in gone : testimonial'[j] = NoTestimonial
  BY <1>1, <1>5, <1>9 DEF TablesTyped, DeletedStaysDeleted
<1> QED
  BY <1>2, <1>3, <1>7, <1>8, <1>10 DEF Writes

\* An export is stored under the caller's own prefix, as an object of its own.
LEMMA ExportIsWritten ==
    ASSUME Basis, DeletedStaysDeleted, NEW r \in AdminRequests, adminCall[r].step = "admitted", Stored(r),
           object' = [object EXCEPT ![r] = Home],
           UNCHANGED <<person, key, policy, order, testimonial, endpoint, gone>>
    PROVE  Writes(r, "stored")
<1>1. TablesTyped
  BY DEF Basis, AdminTypeOK, TablesTyped
<1>2. r # Home /\ r # Away /\ Home \in Rows /\ Away \in Rows
  BY NamesApart DEF Tenants
<1>3. TablesTyped' /\ object'[Away] = object[Away] /\ object'[Home] = object[Home]
  BY <1>1, <1>2 DEF TablesTyped, Tenants
<1> QED
  BY <1>1, <1>3 DEF Writes, Stored, GoOn, Underway, DeletedStaysDeleted

\* Denials, errors, and the end of a request that has written.
LEMMA RequestsEnd ==
    ASSUME Basis, NEW r \in AdminRequests,
           \/ adminCall[r].step = "admitted" /\ \E code \in {403, 404} : Deny(r, code)
           \/ AdminFail(r)
           \/ Record(r)
           \/ LoseReply(r)
           \/ RecordAudit(r)
    PROVE  \E a \in 0..599 : Ends(r, a)
<1>1. adminCall[r] \in CallType /\ adminCall[r].op \in Op /\ Progress(r)
  BY DEF Basis, AdminTypeOK, CallType
<1>2. ASSUME adminCall[r].step = "admitted", NEW code \in {403, 404}, Deny(r, code)
      PROVE  Ends(r, code)
  BY <1>1, <1>2 DEF Ends, Deny, Reply, Progress, Early
<1>3. CASE AdminFail(r)
  <2>1. Ends(r, 500)
    BY <1>1, <1>3 DEF Ends, AdminFail, Reply, Progress, Early
  <2> QED
    BY <2>1
<1>4. CASE Record(r)
  <2> DEFINE a == Routes[adminCall[r].op].ok
  <2>1. a \in 200..204
    BY <1>1, RouteCodes
  <2> HIDE DEF a
  <2>2. Reply(r, a) /\ r \in wrote /\ adminCall[r].step = "stored"
    BY <1>1, <1>4 DEF Record, Progress, a
  <2>3. UNCHANGED <<tables, wrote, stale, gone>> /\ \A x \in {"ok", "denied"} : <<r, x>> \notin journal
    BY <1>1, <1>4, <2>2 DEF Record, Progress
  <2>4. \/ adminCall[r].op \notin Audited /\ UNCHANGED <<journal, doubtful>>
        \/ adminCall[r].op \in Audited /\ journal' = journal \union {<<r, "ok">>} /\ UNCHANGED doubtful
        \/ adminCall[r].op \in Audited /\ doubtful' = doubtful \union {r} /\ UNCHANGED journal
    BY <1>4 DEF Record
  <2>5. Ends(r, a)
    BY <2>1, <2>2, <2>3, <2>4 DEF Ends, Reply
  <2> QED
    BY <2>1, <2>5
<1>5. CASE LoseReply(r)
  <2>1. Ends(r, 500)
    BY <1>1, <1>5 DEF Ends, LoseReply, Reply, Progress
  <2> QED
    BY <2>1
<1>6. CASE RecordAudit(r)
  <2>1. adminCall[r].op = "record_audit" /\ adminCall[r].op \notin Writing
    BY <1>6 DEF RecordAudit, Ready, At, Writing
  <2>2. Ends(r, 201)
    BY <1>1, <1>6, <2>1 DEF Ends, RecordAudit, Reply, Progress, Early, Ready, At, history
  <2> QED
    BY <2>2
<1> QED
  BY <1>2, <1>3, <1>4, <1>5, <1>6

\* Every step of a request passes, writes or ends it.
LEMMA EffectKinds ==
    ASSUME Basis, DeletedStaysDeleted, NEW r \in AdminRequests, Effect(r)
    PROVE  \/ \E c \in CallType : Passes(r, c)
           \/ \E s \in {"stored", "role_set"} : Writes(r, s)
           \/ \E a \in 0..599 : Ends(r, a)
<1>1. ASSUME NEW who \in People, LookUp(r, who)
      PROVE  \/ \E c \in CallType : Passes(r, c)
             \/ \E a \in 0..599 : Ends(r, a)
  BY <1>1, LookUpPasses, RequestsEnd DEF LookUp, Ready, At
<1>2. CASE \/ \E role \in AdminRole : SetRole(r, role)
           \/ \E active \in BOOLEAN : SetStatus(r, active)
  BY <1>2, AccountsAreWritten
<1>3. ASSUME NEW active \in BOOLEAN, UpdateTestimonial(r, active)
      PROVE  \/ \E c \in CallType : Passes(r, c)
             \/ Writes(r, "stored")
  <2>1. CASE testimonial[adminCall[r].target].tenant = Home
    BY <1>3, <2>1, TestimonialIsWritten
  <2>2. CASE testimonial[adminCall[r].target].tenant # Home
    <3>1. Reply(r, 404) /\ Silent /\ adminCall[r].step = "checked"
      BY <1>3, <2>2 DEF UpdateTestimonial, NotFound, At
    <3> QED
      BY <3>1, ReplyPasses DEF Early
  <2> QED
    BY <2>1, <2>2
<1>4. CASE \/ UpdatePolicy(r) \/ CreateOrder(r) \/ CreateConsultation(r) \/ CreateTestimonial(r)
           \/ RegisterEndpoint(r)
           \/ \E scopes \in KeyScopes : CreateApiKey(r, scopes)
  BY <1>4, RowsAreWritten
<1>5. CASE RecordAudit(r)
  BY <1>5, RequestsEnd
<1>6. CASE SaveExport(r)
  <2>1. CASE \E code \in {403, 404} : Reply(r, code) /\ Silent
    BY <1>6, <2>1, ReplyPasses DEF SaveExport, Ready, At, Early
  <2>2. CASE ~ \E code \in {403, 404} : Reply(r, code) /\ Silent
    BY <1>6, <2>2, ExportIsWritten DEF SaveExport, Ready, At
  <2> QED
    BY <2>1, <2>2
<1>7. ASSUME NEW i \in Rows, RevokeApiKey(r, i) \/ DeleteTestimonial(r, i) \/ DeleteEndpoint(r, i)
      PROVE  \/ \E c \in CallType : Passes(r, c)
             \/ Writes(r, "stored")
             \/ \E a \in 0..599 : Ends(r, a)
  <2>1. adminCall[r].step = "admitted"
    BY <1>7 DEF RevokeApiKey, DeleteTestimonial, DeleteEndpoint, Ready, At
  <2>2. CASE Deny(r, 404)
    BY <2>1, <2>2, RequestsEnd
  <2>3. CASE NotFound(r)
    BY <2>1, <2>3, ReplyPasses DEF NotFound, Early
  <2>4. CASE ~Deny(r, 404) /\ ~NotFound(r)
    <3>1. CASE RevokeApiKey(r, i)
      <4>1. key[i].tenant = Home /\ Stored(r)
        BY <2>4, <3>1 DEF RevokeApiKey
      <4> QED
        BY <3>1, <4>1, NamedRowsAreWritten
    <3>2. CASE DeleteTestimonial(r, i)
      <4>1. testimonial[i].tenant = Home /\ Stored(r)
        BY <2>4, <3>2 DEF DeleteTestimonial
      <4> QED
        BY <3>2, <4>1, NamedRowsAreWritten
    <3>3. CASE DeleteEndpoint(r, i)
      <4>1. endpoint[i] = Home /\ Stored(r)
        BY <2>4, <3>3 DEF DeleteEndpoint
      <4> QED
        BY <3>3, <4>1, NamedRowsAreWritten
    <3> QED
      BY <1>7, <3>1, <3>2, <3>3
  <2> QED
    BY <2>2, <2>3, <2>4
<1>8. ASSUME NEW i \in Rows, NEW status \in Status, UpdateStatus(r, i, status)
      PROVE  \/ \E c \in CallType : Passes(r, c)
             \/ Writes(r, "stored")
  <2>1. CASE order[i].tenant = Home
    BY <1>8, <2>1, NamedRowsAreWritten DEF UpdateStatus
  <2>2. CASE order[i].tenant # Home
    BY <1>8, <2>2, ReplyPasses DEF UpdateStatus, NotFound, Ready, At, Early
  <2> QED
    BY <2>1, <2>2
<1>9. ASSUME NEW i \in Rows, DeleteObject(r, i)
      PROVE  \/ \E c \in CallType : Passes(r, c)
             \/ Writes(r, "stored")
  <2>1. CASE \E code \in {403, 404} : Reply(r, code) /\ Silent
    BY <1>9, <2>1, ReplyPasses DEF DeleteObject, Ready, At, Early
  <2>2. CASE ~ \E code \in {403, 404} : Reply(r, code) /\ Silent
    BY <1>9, <2>2, NamedRowsAreWritten DEF DeleteObject
  <2> QED
    BY <2>1, <2>2
<1>10. ASSUME NEW i \in Rows, GetTestimonial(r, i)
       PROVE  \E c \in CallType : Passes(r, c)
  BY <1>10, LookUpPasses, ReplyPasses DEF GetTestimonial, NotFound, Ready, At, Early
<1> QED
  BY <1>1, <1>2, <1>3, <1>4, <1>5, <1>6, <1>7, <1>8, <1>9, <1>10 DEF Effect

LEMMA StepKinds ==
    ASSUME Basis, DeletedStaysDeleted, NEW r \in AdminRequests, AdminStep(r)
    PROVE  \/ \E c \in CallType : Passes(r, c)
           \/ \E s \in {"stored", "role_set"} : Writes(r, s)
           \/ \E a \in 0..599 : Ends(r, a)
<1>1. adminCall[r].op \in Op
  BY DEF Basis, AdminTypeOK, CallType
<1>2. CASE \E op \in Op : \/ \E u \in People \ Outside : Authenticate(r, op, u)
                          \/ \E i \in OfHome(key) : Authenticate(r, op, i)
  BY <1>2, AdmissionPasses
<1>3. CASE \E op \in Op : LimitRate(r, op)
  BY <1>3, AdmissionPasses
<1>4. CASE RefuseWithoutToken(r) \/ Bar(r)
  BY <1>4, ReplyPasses DEF RefuseWithoutToken, Bar, Early
<1>5. CASE Refuse(r)
  <2>1. PICK code \in Routes[adminCall[r].op].refuse : Reply(r, code)
    BY <1>5 DEF Refuse
  <2>2. code \in 300..599
    BY <1>1, <2>1, RouteCodes
  <2>3. Silent /\ adminCall[r].step \in Early \ {"idle"}
    BY <1>5 DEF Refuse, Ready, At, Early
  <2> QED
    BY <2>1, <2>2, <2>3, ReplyPasses
<1>6. CASE AdminFail(r) \/ Record(r) \/ LoseReply(r)
  BY <1>6, RequestsEnd
<1>7. CASE Query(r)
  BY <1>7, QueriesPass
<1>8. CASE Effect(r)
  BY <1>8, EffectKinds
<1> QED
  BY <1>2, <1>3, <1>4, <1>5, <1>6, <1>7, <1>8 DEF AdminStep

-----------------------------------------------------------------------------
(* While none who had rights at the start has used one, whoever is on the way to a    *)
(* statement needs no right or is one of them: this is what keeps power contained.    *)
Untold == \A r \in wrote : Free(adminCall[r].op) \/ adminCall[r].subject \notin chiefs

Contained ==
    /\ Home \in chiefs
    /\ Untold => \A r \in AdminRequests :
          adminCall[r].step \in Underway => Free(adminCall[r].op) \/ adminCall[r].subject \in chiefs

Truth == AdminAnswersAreTrue /\ AdminJournalIsTrue
AdminInv ==
    Basis /\ DeletedStaysDeleted /\ Truth /\ AdministratorRemains /\ Contained /\ PowerComesFromPower

LEMMA AdminInitInv == AdminInit => AdminInv
<1> SUFFICES ASSUME AdminInit PROVE AdminInv
  OBVIOUS
<1> USE NamesApart
<1>1. PICK role \in AdminRole, scopes \in KeyScopes :
        /\ person = [u \in People |-> [role |-> IF u \in Outside \union {First} THEN "admin" ELSE role,
                                       active |-> TRUE]]
        /\ key = [i \in Rows |-> IF i \in Tenants
                    THEN [tenant |-> i, scopes |-> scopes, active |-> TRUE] ELSE NoKey]
  BY DEF AdminInit
<1>2. "list_users" \in Op /\ "list_users" # "published"
  BY RoutesThatRead DEF Reading
<1>3. AdminIdle \in CallType
  BY <1>2, CallersAssumption DEF AdminIdle, CallType
<1>4. \A r \in AdminRequests : adminCall[r] = AdminIdle
  BY DEF AdminInit
<1>5. AdminTypeOK
  <2>1. person \in [People -> [role : AdminRole, active : BOOLEAN]]
    BY <1>1 DEF AdminRole
  <2>2. /\ key \in [Rows -> [tenant : Tenants \union {Nothing}, scopes : KeyScopes \union {{}}, active : BOOLEAN]]
        /\ \A i \in Rows : key[i].active => key[i].tenant # Nothing
    BY <1>1 DEF NoKey
  <2>3. order \in [Rows -> [tenant : Tenants \union {Nothing}, owner : People \union {Nothing}, status : Status]]
    BY DEF AdminInit, NoOrder, Status
  <2>4. testimonial \in [Rows -> [tenant : Tenants \union {Nothing}, text : Rows \union {Nothing},
                                  published : BOOLEAN]]
    BY DEF AdminInit, NoTestimonial
  <2>5. adminCall \in [AdminRequests -> CallType]
    BY <1>3 DEF AdminInit
  <2>6. /\ policy \in AdminRequests \union {Nothing} /\ journal = {} /\ wrote = {} /\ doubtful = {}
        /\ stale = FALSE /\ gone = {}
        /\ endpoint \in [Rows -> Tenants \union {Nothing}] /\ object \in [Rows -> Tenants \union {Nothing}]
    BY DEF AdminInit
  <2> QED
    BY <2>1, <2>2, <2>3, <2>4, <2>5, <2>6 DEF AdminTypeOK
<1>6. \A r \in AdminRequests : Progress(r)
  BY <1>1, <1>4 DEF AdminInit, Progress, AdminIdle, Early
<1>7. AwayRows /\ AwayUntouched
  <2>1. key[Away].tenant = Away /\ key[Away].active
    BY <1>1 DEF Tenants
  <2>2. \A u \in Outside : person[u] = [role |-> "admin", active |-> TRUE]
    BY <1>1
  <2>3. \A r \in AdminRequests : adminCall[r].shown = {}
    BY <1>4 DEF AdminIdle
  <2>4. /\ order[Away].tenant = Away /\ order[Away].status = "new"
        /\ testimonial[Away] = [tenant |-> Away, text |-> Away, published |-> FALSE]
        /\ endpoint[Away] = Away /\ object[Away] = Away
    BY DEF AdminInit, Tenants
  <2> QED
    BY <2>1, <2>2, <2>3, <2>4 DEF AwayRows, AwayUntouched
<1>8. DeletedStaysDeleted /\ Truth /\ AdministratorRemains
  <2>1. person[First].role = "admin" /\ person[First].active /\ First \in People \ Outside
    BY <1>1, CallersAssumption
  <2> QED
    BY <1>4, <2>1 DEF AdminInit, DeletedStaysDeleted, Truth, AdminAnswersAreTrue, AdminJournalIsTrue,
                      AdministratorRemains, AdminIdle
<1>9. Contained
  BY <1>4 DEF AdminInit, Contained, Underway, AdminIdle
<1>10. PowerComesFromPower
  <2>1. \A u \in People : person[u].active /\ (person[u].role = "admin" => u \in chiefs)
    BY <1>1 DEF AdminInit
  <2>2. key[Home].active /\ \A i \in AdminRequests : key[i] = NoKey
    BY <1>1 DEF Tenants
  <2>3. \A i \in AdminRequests : endpoint[i] = Nothing /\ testimonial[i] = NoTestimonial
    BY DEF AdminInit
  <2>4. /\ policy = Nothing
        /\ order[Home].status = "new" /\ endpoint[Home] = Home /\ object[Home] = Home
        /\ testimonial[Home] = [tenant |-> Home, text |-> Home, published |-> FALSE]
    BY DEF AdminInit, Tenants
  <2>5. \A r \in AdminRequests : adminCall[r].op # "published"
    BY <1>4 DEF AdminIdle
  <2> QED
    BY <2>1, <2>2, <2>3, <2>4, <2>5 DEF PowerComesFromPower
<1> QED
  BY <1>5, <1>6, <1>7, <1>8, <1>9, <1>10 DEF AdminInv, Basis

\* What a right comes from: an administrator's account, or a key of the tenant.
LEMMA RightsHaveAHolder ==
    ASSUME AdminInv, Untold, NEW s \in People \union OfHome(key), NEW op \in Op, Entitled(s, op), ~Free(op)
    PROVE  s \in chiefs
<1>1. CASE s \in People
  <2>1. person[s].role = "admin"
    BY <1>1 DEF Entitled, Grants, AdminPermissions
  <2> QED
    BY <1>1, <2>1 DEF AdminInv, PowerComesFromPower, Untold
<1>2. CASE s \in OfHome(key)
  <2>1. key[Away].tenant # Home /\ \A i \in AdminRequests : key[i].tenant # Home
    BY NamesApart DEF AdminInv, Basis, AwayRows, PowerComesFromPower, Untold, NoKey, Tenants
  <2>2. s = Home
    BY <1>2, <2>1 DEF OfHome, Rows, Tenants
  <2> QED
    BY <2>2 DEF AdminInv, Contained
<1> QED
  BY <1>1, <1>2

LEMMA PassesKeeps ==
    ASSUME AdminInv, NEW r \in AdminRequests, NEW c \in CallType, Passes(r, c), UNCHANGED chiefs
    PROVE  AdminInv'
<1>1. /\ AdminTypeOK /\ AwayRows /\ AwayUntouched /\ \A q \in AdminRequests : Progress(q)
      /\ DeletedStaysDeleted /\ AdminAnswersAreTrue /\ AdminJournalIsTrue
  BY DEF AdminInv, Basis, Truth
<1>2. /\ adminCall'[r] = c /\ \A q \in AdminRequests \ {r} : adminCall'[q] = adminCall[q]
      /\ adminCall' \in [AdminRequests -> CallType]
  BY <1>1 DEF Passes, AdminTypeOK
<1>3. /\ UNCHANGED <<person, key, policy, order, testimonial, endpoint, object>>
      /\ UNCHANGED <<journal, wrote, doubtful, stale, gone>>
  BY DEF Passes, Silent, tables, history
<1>4. r \notin wrote /\ r \notin gone /\ \A x \in {"ok", "denied"} : <<r, x>> \notin journal
  BY <1>1 DEF Progress, Passes, Early
<1>5. AdminTypeOK'
  BY <1>1, <1>2, <1>3 DEF AdminTypeOK
<1>6. \A q \in AdminRequests : Progress(q)'
  <2>1. Progress(r)'
    BY <1>1, <1>2, <1>3, <1>4 DEF Progress, Passes, Early
  <2>2. \A q \in AdminRequests \ {r} : Progress(q)'
    BY <1>1, <1>2, <1>3 DEF Progress
  <2> QED
    BY <2>1, <2>2
<1>7. AwayRows' /\ AwayUntouched' /\ DeletedStaysDeleted'
  <2>1. \A q \in AdminRequests : adminCall'[q].shown \intersect (Outside \union {Away}) = {}
    BY <1>1, <1>2 DEF AwayUntouched, Passes
  <2> QED
    BY <1>1, <1>3, <2>1 DEF AwayRows, AwayUntouched, DeletedStaysDeleted
<1>8. AdminAnswersAreTrue'
  BY <1>1, <1>2, <1>3, <1>4 DEF AdminAnswersAreTrue, Passes, CallType
<1>9. AdminJournalIsTrue'
  <2>1. \A q \in AdminRequests : <<q, "ok">> \in journal \/ <<q, "denied">> \in journal \/ q \in wrote =>
           adminCall'[q] = adminCall[q]
    BY <1>2, <1>4
  <2>2. wrote \subseteq AdminRequests
    BY <1>1 DEF AdminTypeOK
  <2> QED
    BY <1>1, <1>3, <2>1, <2>2 DEF AdminJournalIsTrue
<1>10. \A q \in wrote : adminCall'[q] = adminCall[q]
  BY <1>1, <1>2, <1>4 DEF AdminTypeOK
<1>11. AdministratorRemains'
  BY <1>3, <1>10 DEF AdministratorRemains, AdminInv
<1>12. Untold' => Untold
  BY <1>3, <1>10 DEF Untold
<1>13. Contained'
  <2>1. Home \in chiefs'
    BY DEF AdminInv, Contained
  <2>2. ASSUME Untold'
        PROVE  \A q \in AdminRequests :
                 adminCall'[q].step \in Underway => Free(adminCall'[q].op) \/ adminCall'[q].subject \in chiefs'
    <3>1. \A q \in AdminRequests :
            adminCall[q].step \in Underway => Free(adminCall[q].op) \/ adminCall[q].subject \in chiefs
      BY <1>12, <2>2 DEF AdminInv, Contained
    <3>2. c.op \in Op
      BY DEF CallType
    <3>3. c.step \in Underway => Free(c.op) \/ c.subject \in chiefs
      BY <1>12, <2>2, <3>1, <3>2, RightsHaveAHolder DEF Passes
    <3> QED
      BY <1>2, <3>1, <3>3
  <2> QED
    BY <2>1, <2>2 DEF Contained
<1>14. PowerComesFromPower'
  <2>1. ASSUME Untold'
        PROVE  \A q \in AdminRequests : adminCall'[q].op = "published" => adminCall'[q].shown = {}
    <3>1. PowerComesFromPower /\ Untold
      BY <1>12, <2>1 DEF AdminInv
    <3>2. {i \in OfHome(testimonial) : testimonial[i].published} = {}
      BY <1>1, <3>1 DEF PowerComesFromPower, Untold, NoTestimonial, OfHome, Rows, Tenants, AwayUntouched
    <3>3. c.op = "published" => c.shown = {}
      BY <3>2 DEF Passes
    <3> QED
      BY <1>2, <3>1, <3>3 DEF PowerComesFromPower, Untold
  <2> QED
    BY <1>3, <1>12, <2>1 DEF PowerComesFromPower, Untold, AdminInv
<1> QED
  BY <1>5, <1>6, <1>7, <1>8, <1>9, <1>11, <1>13, <1>14 DEF AdminInv, Basis, Truth

LEMMA WritesKeeps ==
    ASSUME AdminInv, NEW r \in AdminRequests, NEW s \in {"stored", "role_set"}, Writes(r, s), UNCHANGED chiefs
    PROVE  AdminInv'
<1> DEFINE c == adminCall[r]
<1>1. /\ AdminTypeOK /\ AwayRows /\ AwayUntouched /\ \A q \in AdminRequests : Progress(q)
      /\ DeletedStaysDeleted /\ AdminAnswersAreTrue /\ AdminJournalIsTrue
  BY DEF AdminInv, Basis, Truth
<1>2. /\ adminCall' \in [AdminRequests -> CallType]
      /\ \A q \in AdminRequests \ {r} : adminCall'[q] = adminCall[q]
      /\ adminCall'[r].op = c.op /\ adminCall'[r].subject = c.subject /\ adminCall'[r].step = s
      /\ adminCall'[r].target = c.target /\ adminCall'[r].shown = c.shown
  <2> DEFINE d == [c EXCEPT !.step = s]
  <2>1. c \in CallType
    BY <1>1 DEF AdminTypeOK
  <2>2. d \in CallType
    BY <2>1 DEF CallType
  <2>3. /\ d.op = c.op /\ d.subject = c.subject /\ d.step = s
        /\ d.target = c.target /\ d.shown = c.shown
    BY <2>1 DEF CallType
  <2>4. adminCall' = [adminCall EXCEPT ![r] = d]
    BY DEF Writes
  <2> HIDE DEF d
  <2> QED
    BY <1>1, <2>2, <2>3, <2>4 DEF AdminTypeOK
<1>3. /\ wrote' = wrote \union {r} /\ UNCHANGED <<journal, doubtful>> /\ TablesTyped'
      /\ stale' = (stale \/ ~(Alive(c.subject) /\ Entitled(c.subject, c.op)))
      /\ c.step \in Underway
  BY DEF Writes, Changed
<1>4. /\ \A i \in Rows \ {r} : key[i].tenant # Home => key'[i] = key[i]
      /\ \A i \in Rows \ {r} : order[i].tenant # Home => order'[i] = order[i]
      /\ \A i \in Rows \ {r} : testimonial[i].tenant # Home => testimonial'[i] = testimonial[i]
  BY DEF Writes
<1>5. AdminTypeOK'
  <2>1. stale' \in BOOLEAN
    BY <1>3, Zenon
  <2> QED
    BY <1>1, <1>2, <1>3, <2>1 DEF AdminTypeOK, TablesTyped
<1>6. \A q \in AdminRequests : Progress(q)'
  <2>1. Progress(r)'
    BY <1>1, <1>2, <1>3 DEF Progress, Underway, Early, Writes
  <2>2. ASSUME NEW q \in AdminRequests \ {r}
        PROVE  Progress(q)'
    <3>1. q \in Rows \ {r} /\ Home # Nothing
      BY NamesApart DEF Tenants
    <3>2. ASSUME adminCall[q].step \in Early
          PROVE  q \notin gone' /\ key'[q] = NoKey /\ testimonial'[q] = NoTestimonial
      <4>1. q \notin gone /\ key[q] = NoKey /\ testimonial[q] = NoTestimonial
        BY <1>1, <3>2 DEF Progress
      <4> QED
        BY <1>4, <3>1, <4>1 DEF NoKey, NoTestimonial, Writes
    <3> QED
      BY <1>1, <1>2, <1>3, <3>2 DEF Progress
  <2> QED
    BY <2>1, <2>2
<1>7. AwayRows' /\ AwayUntouched'
  <2>1. Away \in Rows \ {r} /\ Away # Home
    BY NamesApart DEF Tenants
  <2>2. key'[Away] = key[Away] /\ order'[Away] = order[Away] /\ testimonial'[Away] = testimonial[Away]
    BY <1>1, <1>4, <2>1 DEF AwayRows, AwayUntouched
  <2>3. \A u \in Outside : person'[u] = person[u]
    BY CallersAssumption DEF Writes
  <2>4. \A q \in AdminRequests : adminCall'[q].shown = adminCall[q].shown
    BY <1>2
  <2>5. endpoint'[Away] = endpoint[Away] /\ object'[Away] = object[Away]
    BY DEF Writes
  <2> QED
    BY <1>1, <2>2, <2>3, <2>4, <2>5 DEF AwayRows, AwayUntouched
<1>8. DeletedStaysDeleted'
  BY DEF DeletedStaysDeleted, Writes
<1>9. AdminAnswersAreTrue' /\ AdminJournalIsTrue'
  <2>1. \A q \in AdminRequests \ {r} : adminCall'[q] = adminCall[q] /\ (q \in wrote' <=> q \in wrote)
    BY <1>2, <1>3
  <2>2. s # "done" /\ r \in wrote' /\ \A x \in {"ok", "denied"} : <<r, x>> \notin journal
    BY <1>1, <1>3 DEF Progress, Underway
  <2>3. wrote \subseteq AdminRequests
    BY <1>1 DEF AdminTypeOK
  <2>4. AdminAnswersAreTrue'
    BY <1>1, <1>2, <1>3, <2>1, <2>2 DEF AdminAnswersAreTrue
  <2>5. AdminJournalIsTrue'
    BY <1>1, <1>2, <1>3, <2>1, <2>2, <2>3 DEF AdminJournalIsTrue
  <2> QED
    BY <2>4, <2>5
<1>10. \A q \in AdminRequests : adminCall'[q].op = adminCall[q].op /\ adminCall'[q].subject = adminCall[q].subject
  BY <1>2
<1>11. wrote \subseteq AdminRequests /\ wrote' = wrote \union {r}
  BY <1>1, <1>3 DEF AdminTypeOK
<1>12. AdministratorRemains'
  <2>1. SUFFICES ASSUME ~stale', \A q \in wrote' : adminCall'[q].op = "update_user" => adminCall'[q].subject \in People
                 PROVE  \E u \in People \ Outside : person'[u].role = "admin" /\ person'[u].active
    BY DEF AdministratorRemains
  <2>2. ~stale /\ Alive(c.subject) /\ Entitled(c.subject, c.op)
    BY <1>3, <2>1, Zenon
  <2>3. CASE \A u \in People : person'[u] = person[u]
    BY <1>10, <1>11, <2>1, <2>2, <2>3 DEF AdministratorRemains, AdminInv
  <2>4. CASE \E u \in People : person'[u] # person[u]
    <3>1. c.op = "update_user" /\ c.target # c.subject /\ \A u \in People \ {c.target} : person'[u] = person[u]
      BY <2>4 DEF Writes
    <3>2. c.subject \in People \ Outside
      BY <1>1, <1>3, <1>10, <1>11, <2>1, <3>1, NamesApart DEF Progress, Underway
    <3>3. "users.manage" \in AdminPermissions(person[c.subject].role) /\ person[c.subject].active
      BY <2>2, <3>1, <3>2, RoutesThatNeedARight DEF Entitled, Alive, Grants, Guarded
    <3>4. person[c.subject].role = "admin"
      BY <3>3 DEF AdminPermissions
    <3> QED
      BY <3>1, <3>2, <3>3, <3>4
  <2> QED
    BY <2>3, <2>4
<1>13. Untold' => Untold /\ Free(c.op)
  BY <1>3, <1>10, <1>11 DEF Untold, AdminInv, Contained
<1>14. Contained'
  BY <1>2, <1>3, <1>10, <1>13 DEF AdminInv, Contained
<1>15. PowerComesFromPower'
  <2>1. SUFFICES ASSUME Untold'
                 PROVE  PowerComesFromPower'
    BY DEF PowerComesFromPower, Untold
  <2>2. PowerComesFromPower /\ Untold /\ Free(c.op)
    BY <1>13, <2>1 DEF AdminInv
  <2>3. /\ UNCHANGED <<person, key, policy, testimonial, endpoint>>
        /\ order'[Home] = order[Home] /\ object'[Home] = object[Home]
    BY <2>2 DEF Writes
  <2>4. \A q \in AdminRequests : adminCall'[q].op = adminCall[q].op /\ adminCall'[q].shown = adminCall[q].shown
    BY <1>2
  <2> QED
    BY <2>2, <2>3, <2>4 DEF PowerComesFromPower, Untold
<1> QED
  BY <1>5, <1>6, <1>7, <1>8, <1>9, <1>12, <1>14, <1>15 DEF AdminInv, Basis, Truth

LEMMA EndsKeeps ==
    ASSUME AdminInv, NEW r \in AdminRequests, NEW a \in 0..599, Ends(r, a), UNCHANGED chiefs
    PROVE  AdminInv'
<1> DEFINE c == adminCall[r]
<1>1. /\ AdminTypeOK /\ AwayRows /\ AwayUntouched /\ \A q \in AdminRequests : Progress(q)
      /\ DeletedStaysDeleted /\ AdminAnswersAreTrue /\ AdminJournalIsTrue
  BY DEF AdminInv, Basis, Truth
<1>2. /\ adminCall' \in [AdminRequests -> CallType]
      /\ \A q \in AdminRequests \ {r} : adminCall'[q] = adminCall[q]
      /\ adminCall'[r].op = c.op /\ adminCall'[r].subject = c.subject /\ adminCall'[r].step = "done"
      /\ adminCall'[r].answer = a /\ adminCall'[r].shown = c.shown
  <2> DEFINE d == [c EXCEPT !.step = "done", !.answer = a]
  <2>1. c \in CallType
    BY <1>1 DEF AdminTypeOK
  <2>2. d \in CallType
    BY <2>1 DEF CallType
  <2>3. /\ d.op = c.op /\ d.subject = c.subject /\ d.step = "done"
        /\ d.answer = a /\ d.shown = c.shown
    BY <2>1 DEF CallType
  <2>4. adminCall' = [adminCall EXCEPT ![r] = d]
    BY DEF Ends
  <2> HIDE DEF d
  <2> QED
    BY <1>1, <2>2, <2>3, <2>4 DEF AdminTypeOK
<1>3. /\ UNCHANGED <<person, key, policy, order, testimonial, endpoint, object>>
      /\ UNCHANGED <<wrote, stale, gone>>
      /\ journal \subseteq journal' /\ journal' \subseteq journal \union {<<r, "ok">>, <<r, "denied">>}
      /\ doubtful \subseteq doubtful' /\ doubtful' \subseteq doubtful \union {r}
  BY DEF Ends, tables
<1>4. wrote \subseteq AdminRequests
  BY <1>1 DEF AdminTypeOK
<1>5. AdminTypeOK'
  BY <1>1, <1>2, <1>3 DEF AdminTypeOK
<1>6. \A q \in AdminRequests : Progress(q)'
  <2>1. Progress(r)'
    BY <1>1, <1>2, <1>3 DEF Progress, Early, Ends
  <2>2. ASSUME NEW q \in AdminRequests \ {r}
        PROVE  Progress(q)'
    <3>1. \A x \in {"ok", "denied"} : <<q, x>> \in journal' => <<q, x>> \in journal
      BY <1>3
    <3> QED
      BY <1>1, <1>2, <1>3, <3>1 DEF Progress
  <2> QED
    BY <2>1, <2>2
<1>7. AwayRows' /\ AwayUntouched' /\ DeletedStaysDeleted'
  <2>1. \A q \in AdminRequests : adminCall'[q].shown = adminCall[q].shown
    BY <1>2
  <2> QED
    BY <1>1, <1>3, <2>1 DEF AwayRows, AwayUntouched, DeletedStaysDeleted
<1>8. AdminAnswersAreTrue'
  <2>1. a >= 300 \/ r \in wrote \/ c.op \notin Writing
    BY DEF Ends
  <2>2. a < 300 \/ r \notin wrote \/ r \in doubtful'
    BY DEF Ends
  <2>3. \A q \in AdminRequests \ {r} : q \in doubtful' <=> q \in doubtful
    BY <1>3
  <2> QED
    BY <1>1, <1>2, <1>3, <2>1, <2>2, <2>3 DEF AdminAnswersAreTrue
<1>9. AdminJournalIsTrue'
  <2>1. /\ <<r, "ok">> \in journal' => r \in wrote \/ c.op = "record_audit"
        /\ <<r, "denied">> \in journal' => a >= 400 /\ r \notin wrote
        /\ r \in wrote /\ r \notin doubtful' => (c.op \in Audited => <<r, "ok">> \in journal')
    BY DEF Ends
  <2>2. \A q \in AdminRequests \ {r} :
          /\ \A x \in {"ok", "denied"} : <<q, x>> \in journal' <=> <<q, x>> \in journal
          /\ q \in doubtful' <=> q \in doubtful
    BY <1>3
  <2> QED
    BY <1>1, <1>2, <1>3, <1>4, <2>1, <2>2 DEF AdminJournalIsTrue
<1>10. \A q \in AdminRequests : adminCall'[q].op = adminCall[q].op /\ adminCall'[q].subject = adminCall[q].subject
  BY <1>2
<1>11. AdministratorRemains' /\ Contained' /\ PowerComesFromPower'
  <2>1. Untold' <=> Untold
    BY <1>3, <1>4, <1>10 DEF Untold
  <2>2. AdministratorRemains'
    BY <1>3, <1>4, <1>10 DEF AdminInv, AdministratorRemains
  <2>3. Contained'
    BY <1>2, <2>1 DEF AdminInv, Contained, Underway
  <2>4. \A q \in AdminRequests : adminCall'[q].op = adminCall[q].op /\ adminCall'[q].shown = adminCall[q].shown
    BY <1>2
  <2>5. PowerComesFromPower'
    BY <1>3, <2>1, <2>4 DEF AdminInv, PowerComesFromPower, Untold
  <2> QED
    BY <2>2, <2>3, <2>5
<1> QED
  BY <1>5, <1>6, <1>7, <1>8, <1>9, <1>11 DEF AdminInv, Basis, Truth

LEMMA AdminInvariant == AdminSpec => []AdminInv
<1>1. AdminInv /\ [AdminNext]_adminVars => AdminInv'
  <2> SUFFICES ASSUME AdminInv, [AdminNext]_adminVars PROVE AdminInv'
    OBVIOUS
  <2>1. CASE AdminNext
    <3>1. PICK r \in AdminRequests : AdminStep(r)
      BY <2>1 DEF AdminNext
    <3>2. Basis /\ DeletedStaysDeleted /\ UNCHANGED chiefs
      BY <2>1 DEF AdminInv, AdminNext
    <3> QED
      BY <3>1, <3>2, StepKinds, PassesKeeps, WritesKeeps, EndsKeeps
  <2>2. CASE UNCHANGED adminVars
    BY <2>2 DEF adminVars, tables, history, AdminInv, Basis, Truth, AdminTypeOK, AwayRows, AwayUntouched,
                Progress, DeletedStaysDeleted, AdminAnswersAreTrue, AdminJournalIsTrue, AdministratorRemains,
                Contained, Untold, PowerComesFromPower, OfHome
  <2> QED
    BY <2>1, <2>2
<1> QED
  BY <1>1, AdminInitInv, PTL DEF AdminSpec

\* Of every request that is through, the answer, the tables and the journal tell the
\* same, however the handlers interleave.
THEOREM AdminTellsIt == AdminSpec => []AdminTellsTheTruth
<1>1. AdminInv => AdminTellsTheTruth
  BY DEF AdminInv, Basis, Truth, AdminTellsTheTruth
<1> QED
  BY <1>1, AdminInvariant, PTL

\* The WHERE of each statement keeps the rows of others, what needs a right and what has
\* been deleted, although it was looked up by an earlier statement.
THEOREM TablesGuarded == AdminSpec => []TablesAreGuarded
<1>1. AdminInv => TablesAreGuarded
  BY DEF AdminInv, Basis, TablesAreGuarded
<1> QED
  BY <1>1, AdminInvariant, PTL

\* UpdateUser never leaves the tenant without an active administrator, unless a key is used
\* or a request writes after its caller has lost the right.
THEOREM AdministratorStays == AdminSpec => []AdministratorRemains
<1>1. AdminInv => AdministratorRemains
  BY DEF AdminInv
<1> QED
  BY <1>1, AdminInvariant, PTL
=============================================================================
