------------------------------ MODULE AdminApi ------------------------------
(***************************************************************************)
(* The routes of the administration and of the shop: internal/transport/   *)
(* http (users.go, admin.go, orders.go, testimonials.go, audit.go,         *)
(* integrations.go, storage.go, analytics.go), the services behind them    *)
(* and their PostgreSQL repositories.                                      *)
(*                                                                         *)
(* The caller is a user with a session or an API key.  What the caller may *)
(* do is read when the request is authenticated and used in later calls;   *)
(* other requests run in between, and one of them may take it away.  All   *)
(* callers belong to the tenant Home; rows of Away may be named in paths.  *)
(***************************************************************************)
EXTENDS Naturals, FiniteSets

CONSTANTS
    People,     \* the accounts
    First,      \* an administrator of Home from the start
    Outside,    \* the accounts of Away
    AdminRequests,  \* requests; the row a request inserts is named after it
    Home, Away, \* two tenants; each starts with one row of each kind, named after it
    KeyScopes,  \* the sets of permissions API keys are given
    Nothing

Permission ==
    {"audit.read_all", "users.list", "users.update_role", "users.manage",
     "settings.read", "settings.write", "data.export", "api_keys.manage",
     "integrations.manage", "analytics.read", "orders.list", "orders.manage",
     "testimonials.list", "testimonials.manage"}

ASSUME CallersAssumption == First \in People /\ Outside \subseteq People \ {First}
ASSUME ScopesAssumption == KeyScopes \subseteq SUBSET Permission
ASSUME NamesAssumption ==
    /\ Home # Away
    /\ {Home, Away} \intersect AdminRequests = {}
    /\ (AdminRequests \union {Home, Away}) \intersect People = {}
    /\ Nothing \notin AdminRequests \union {Home, Away} \union People

VARIABLES
    person,     \* users: role and whether the account is active
    key,        \* api_keys
    policy,     \* tenant_settings of Home: the request that wrote them, or Nothing
    order,      \* orders
    testimonial,\* testimonials
    endpoint,   \* integration_endpoints: row -> tenant, or Nothing
    object,     \* objects in the store: key prefix, or Nothing
    journal,    \* audit_events: the requests they are about, and their result
    adminCall,       \* the requests
    wrote,      \* history: requests with an effect in the tables
    doubtful,   \* history: requests cut short, or whose event or reply got lost
    stale,      \* history: a request has written after its caller lost the right to
    gone,       \* history: testimonials that have been deleted
    chiefs      \* history: the callers that had rights at the start

tables == <<person, key, policy, order, testimonial, endpoint, object>>
history == <<wrote, doubtful, stale, gone>>
adminVars == <<tables, journal, adminCall, history, chiefs>>

Tenants == {Home, Away}
Rows == AdminRequests \union Tenants
AdminRole == {"user", "admin"}
Status == {"new", "priced", "confirmed", "in_progress", "completed", "cancelled"}
NoKey == [tenant |-> Nothing, scopes |-> {}, active |-> FALSE]
NoOrder == [tenant |-> Nothing, owner |-> Nothing, status |-> "new"]
NoTestimonial == [tenant |-> Nothing, text |-> Nothing, published |-> FALSE]

\* Mutant of Permissions: members may see to the testimonials.
PermissionsForAll(role) == IF role = "admin" THEN Permission ELSE {"testimonials.manage"}

AdminPermissions(role) == IF role = "admin" THEN Permission ELSE {}

-----------------------------------------------------------------------------
(* The handlers: the permission asked for (or "user": the caller must be a  *)
(* user, "any": none), whether the route demands a CSRF token, the codes    *)
(* for a body that is refused, and the code of success.  ErrNotFound is 404 *)
(* everywhere and any other error 500.                                      *)

Route(needs, mutating, refuse, ok) ==
    [needs |-> needs, mutating |-> mutating, refuse |-> refuse, ok |-> ok]

HandleListUsers == Route("users.list", FALSE, {}, 200)
HandleUpdateUser == Route("users.manage", TRUE, {400, 422}, 200)
HandleAdminOverview == Route("users.list", FALSE, {}, 200)
HandleGetSettings == Route("settings.read", FALSE, {}, 200)
HandleUpdateSettings == Route("settings.write", TRUE, {400, 422}, 200)
HandleExport == Route("data.export", FALSE, {422}, 200)
HandleListApiKeys == Route("api_keys.manage", FALSE, {}, 200)
HandleCreateApiKey == Route("api_keys.manage", TRUE, {400, 422}, 201)
HandleRevokeApiKey == Route("api_keys.manage", TRUE, {}, 200)
HandleCreateOrder == Route("user", TRUE, {400, 422}, 201)
HandleListMyOrders == Route("user", FALSE, {}, 200)
HandleAdminListOrders == Route("orders.list", FALSE, {}, 200)
HandleAdminUpdateOrderStatus == Route("orders.manage", TRUE, {400, 422}, 200)
HandleAdminListTestimonials == Route("testimonials.list", FALSE, {}, 200)
HandleAdminCreateTestimonial == Route("testimonials.manage", TRUE, {400, 422}, 201)
HandleAdminUpdateTestimonial == Route("testimonials.manage", TRUE, {400, 422}, 200)
HandleAdminDeleteTestimonial == Route("testimonials.manage", TRUE, {}, 204)
HandleListTenantAudit == Route("audit.read_all", FALSE, {}, 200)
HandleRecordAudit == Route("user", TRUE, {400}, 201)
HandleListEndpoints == Route("integrations.manage", FALSE, {}, 200)
HandleCreateEndpoint == Route("integrations.manage", TRUE, {400, 422}, 201)
HandleDeleteEndpoint == Route("integrations.manage", TRUE, {}, 204)
HandleStoreExportCAD == Route("any", TRUE, {400}, 201)
HandleGetObject == Route("any", FALSE, {}, 200)
HandleDeleteObject == Route("integrations.manage", TRUE, {}, 204)
HandleUsageAnalytics == Route("analytics.read", FALSE, {422}, 200)
HandleProjectsAnalytics == Route("analytics.read", FALSE, {422}, 200)
HandleManufacturingAnalytics == Route("analytics.read", FALSE, {422}, 200)
HandleCostAnalytics == Route("analytics.read", FALSE, {422}, 200)
HandlePublicListTestimonials == Route("nothing", FALSE, {}, 200)
HandleCreateConsultation == Route("nothing", FALSE, {400, 422}, 201)

Routes ==
    [list_users |-> HandleListUsers, update_user |-> HandleUpdateUser,
     overview |-> HandleAdminOverview, get_settings |-> HandleGetSettings,
     update_settings |-> HandleUpdateSettings, export |-> HandleExport,
     list_keys |-> HandleListApiKeys, create_key |-> HandleCreateApiKey,
     revoke_key |-> HandleRevokeApiKey, create_order |-> HandleCreateOrder,
     my_orders |-> HandleListMyOrders, list_orders |-> HandleAdminListOrders,
     order_status |-> HandleAdminUpdateOrderStatus,
     list_testimonials |-> HandleAdminListTestimonials,
     create_testimonial |-> HandleAdminCreateTestimonial,
     update_testimonial |-> HandleAdminUpdateTestimonial,
     delete_testimonial |-> HandleAdminDeleteTestimonial,
     list_audit |-> HandleListTenantAudit, record_audit |-> HandleRecordAudit,
     list_endpoints |-> HandleListEndpoints, create_endpoint |-> HandleCreateEndpoint,
     delete_endpoint |-> HandleDeleteEndpoint, store_export |-> HandleStoreExportCAD,
     get_object |-> HandleGetObject, delete_object |-> HandleDeleteObject,
     usage |-> HandleUsageAnalytics, projects |-> HandleProjectsAnalytics,
     manufacturing |-> HandleManufacturingAnalytics, cost |-> HandleCostAnalytics,
     published |-> HandlePublicListTestimonials, consultation |-> HandleCreateConsultation]

Op == DOMAIN Routes
Public == {op \in Op : Routes[op].needs = "nothing"}
Writing == ({op \in Op : Routes[op].mutating} \union {"consultation"}) \ {"record_audit"}

\* No right is asked for.
Free(op) == Routes[op].needs \in {"user", "any", "nothing"}

\* Operations that record an event when they are through.  Orders, endpoints,
\* stored objects and exports of data leave none.
Audited == {"update_user", "update_settings", "create_key", "revoke_key", "order_status",
            "create_testimonial", "update_testimonial", "delete_testimonial"}

\* The permissions the caller has at this moment.
Grants(s) == IF s \in People THEN AdminPermissions(person[s].role) ELSE key[s].scopes
Alive(s) == IF s \in People THEN person[s].active ELSE s = Nothing \/ key[s].active

\* hasPermission; the tenant's journal is for users only, whatever a key's scopes.
Entitled(s, op) ==
    \/ Free(op)
    \/ Routes[op].needs \in Grants(s) /\ (op = "list_audit" => s \in People)

AdminIdle == [op |-> "list_users", subject |-> First, step |-> "idle", target |-> Nothing,
         answer |-> 0, shown |-> {}]

AdminInit ==
    /\ \E role \in AdminRole, scopes \in KeyScopes :
          /\ person = [u \in People |-> [role |-> IF u \in Outside \union {First} THEN "admin" ELSE role,
                                        active |-> TRUE]]
          /\ key = [i \in Rows |-> IF i \in Tenants
                        THEN [tenant |-> i, scopes |-> scopes, active |-> TRUE] ELSE NoKey]
    /\ policy = Nothing
    /\ order = [i \in Rows |-> IF i \in Tenants
                  THEN [tenant |-> i, owner |-> Nothing, status |-> "new"] ELSE NoOrder]
    /\ testimonial = [i \in Rows |-> IF i \in Tenants
                  THEN [tenant |-> i, text |-> i, published |-> FALSE] ELSE NoTestimonial]
    /\ endpoint = [i \in Rows |-> IF i \in Tenants THEN i ELSE Nothing]
    /\ object = [i \in Rows |-> IF i \in Tenants THEN i ELSE Nothing]
    /\ journal = {}
    /\ adminCall = [r \in AdminRequests |-> AdminIdle]
    /\ wrote = {} /\ doubtful = {} /\ stale = FALSE /\ gone = {}
    /\ chiefs = {u \in People : person[u].role = "admin"} \union {Home}

-----------------------------------------------------------------------------
(* The way of a request *)

At(r, step, op) == adminCall[r].step = step /\ adminCall[r].op = op
Begin(r, op, s, step, code) ==
    adminCall' = [adminCall EXCEPT ![r] =
        [op |-> op, subject |-> s, step |-> step, target |-> Nothing, answer |-> code, shown |-> {}]]
GoOn(r, step) == adminCall' = [adminCall EXCEPT ![r].step = step]
Reply(r, code) == adminCall' = [adminCall EXCEPT ![r].step = "done", ![r].answer = code]
Silent == UNCHANGED <<tables, journal, history>>
NotFound(r) == Reply(r, 404) /\ Silent
Show(r, what) ==
    /\ adminCall' = [adminCall EXCEPT ![r].step = "done", ![r].answer = Routes[adminCall[r].op].ok,
                            ![r].shown = what]
    /\ Silent

\* A statement of r has changed a table; whether its caller still had the right to.
Changed(r) ==
    /\ wrote' = wrote \union {r}
    /\ stale' = (stale \/ ~(Alive(adminCall[r].subject) /\ Entitled(adminCall[r].subject, adminCall[r].op)))
Stored(r) == Changed(r) /\ GoOn(r, "stored") /\ UNCHANGED <<journal, doubtful>>

\* The events of a denial, which may get lost.
Deny(r, code) ==
    /\ Reply(r, code)
    /\ \/ journal' = journal \union {<<r, "denied">>} /\ UNCHANGED doubtful
       \/ doubtful' = doubtful \union {r} /\ UNCHANGED journal
    /\ UNCHANGED <<tables, wrote, stale, gone>>

\* requireAuth: a user whose account is active or a key that is not revoked, and
\* the limiter of that caller.  The rights are those of this moment.
Authenticate(r, op, s) ==
    /\ adminCall[r].step = "idle" /\ op \notin Public
    /\ \/ Alive(s) /\ Entitled(s, op) /\ Begin(r, op, s, "admitted", 0)
       \/ Alive(s) /\ ~Entitled(s, op) /\ Begin(r, op, s, "barred", 0)
       \/ ~Alive(s) /\ Begin(r, op, s, "done", 401)
       \/ Begin(r, op, s, "done", 429)
    /\ Silent

\* limitRate: the public routes ask for nothing, but count the requests of an address.
LimitRate(r, op) ==
    /\ adminCall[r].step = "idle" /\ op \in Public
    /\ Begin(r, op, Nothing, "admitted", 0) \/ Begin(r, op, Nothing, "done", 429)
    /\ Silent

\* requireCSRF asks every caller of a mutating route, keys too, for the cookie.
RefuseWithoutToken(r) ==
    /\ adminCall[r].step \in {"admitted", "barred"}
    /\ Routes[adminCall[r].op].mutating
    /\ Reply(r, 403)
    /\ Silent

\* hasPermission says no, without an event; where only a user will do, a key gets 401.
Bar(r) ==
    /\ Silent
    /\ \/ adminCall[r].step = "barred" /\ Reply(r, 403)
       \/ /\ adminCall[r].step = "admitted"
          /\ Routes[adminCall[r].op].needs = "user" /\ adminCall[r].subject \notin People
          /\ Reply(r, 401)

\* The request may go on to its service.
Ready(r, op) ==
    At(r, "admitted", op) /\ (Routes[op].needs = "user" => adminCall[r].subject \in People)

Refuse(r) ==
    /\ Ready(r, adminCall[r].op)
    /\ \E code \in Routes[adminCall[r].op].refuse : Reply(r, code)
    /\ Silent

\* A call fails; a user's role may have been changed already.
AdminFail(r) ==
    /\ adminCall[r].step \in {"admitted", "checked", "role_set"}
    /\ Reply(r, 500)
    /\ doubtful' = IF r \in wrote THEN doubtful \union {r} ELSE doubtful
    /\ UNCHANGED <<tables, journal, wrote, stale, gone>>

\* Mutant of Record: the event of an update is written before the update.
RecordEarly(r) ==
    /\ adminCall[r].step \in {"checked", "stored"}
    /\ adminCall[r].op \in Audited
    /\ Reply(r, Routes[adminCall[r].op].ok)
    /\ journal' = journal \union {<<r, "ok">>}
    /\ UNCHANGED <<tables, history>>

\* The event, which may get lost, and the answer.
Record(r) ==
    /\ adminCall[r].step = "stored"
    /\ Reply(r, Routes[adminCall[r].op].ok)
    /\ \/ adminCall[r].op \notin Audited /\ UNCHANGED <<journal, doubtful>>
       \/ adminCall[r].op \in Audited /\ journal' = journal \union {<<r, "ok">>} /\ UNCHANGED doubtful
       \/ adminCall[r].op \in Audited /\ doubtful' = doubtful \union {r} /\ UNCHANGED journal
    /\ UNCHANGED <<tables, wrote, stale, gone>>

\* The reply of the database is lost, or the order cannot be read back.
LoseReply(r) ==
    /\ adminCall[r].step = "stored"
    /\ Reply(r, 500)
    /\ doubtful' = doubtful \union {r}
    /\ UNCHANGED <<tables, journal, wrote, stale, gone>>

-----------------------------------------------------------------------------
(* Queries: WHERE tenant_id = the caller's *)

OfHome(table) == {i \in Rows : table[i].tenant = Home}

ListUsers(r) == Ready(r, "list_users") /\ Show(r, People \ Outside)
AdminOverview(r) == Ready(r, "overview") /\ Show(r, (People \ Outside) \union OfHome(key))
GetPolicy(r) == Ready(r, "get_settings") /\ Show(r, {Home})
Export(r) == Ready(r, "export") /\ (Show(r, People \ Outside) \/ Show(r, {Home}))
ListApiKeys(r) == Ready(r, "list_keys") /\ Show(r, OfHome(key))
ListByUser(r) ==
    Ready(r, "my_orders") /\ Show(r, {i \in OfHome(order) : order[i].owner = adminCall[r].subject})
ListAll(r) == Ready(r, "list_orders") /\ Show(r, OfHome(order))
ListTestimonials(r) == Ready(r, "list_testimonials") /\ Show(r, OfHome(testimonial))
ListTenantAudit(r) == Ready(r, "list_audit") /\ Show(r, {Home})
ListEndpoints(r) == Ready(r, "list_endpoints") /\ Show(r, {i \in Rows : endpoint[i] = Home})

ListPublished(r) ==
    /\ Ready(r, "published")
    /\ Show(r, {i \in OfHome(testimonial) : testimonial[i].published})

\* The reports: two queries without a transaction, every subquery over the tenant.
Usage(r) == Ready(r, "usage") /\ Show(r, {Home})
Projects(r) == Ready(r, "projects") /\ Show(r, {Home})
Manufacturing(r) == Ready(r, "manufacturing") /\ Show(r, {Home})
Cost(r) == Ready(r, "cost") /\ Show(r, {Home})

\* Objects outside the caller's prefix are refused, missing ones not found.
Load(r, i) ==
    /\ Ready(r, "get_object")
    /\ IF object[i] = Home THEN Show(r, {i})
       ELSE \E code \in {403, 404} : Reply(r, code) /\ Silent

-----------------------------------------------------------------------------
(* Effects *)

\* Mutant of LookUp: an administrator may change the own account.
LookUpAnybody(r, who) ==
    /\ Ready(r, "update_user")
    /\ IF who \in Outside THEN Deny(r, 404)
       ELSE adminCall' = [adminCall EXCEPT ![r].step = "checked", ![r].target = who] /\ Silent

\* UpdateUser: not the own account, and only one of the tenant.
LookUp(r, who) ==
    /\ Ready(r, "update_user")
    /\ IF who = adminCall[r].subject THEN Deny(r, 403)
       ELSE IF who \in Outside THEN Deny(r, 404)
       ELSE adminCall' = [adminCall EXCEPT ![r].step = "checked", ![r].target = who] /\ Silent

SetRole(r, role) ==
    /\ At(r, "checked", "update_user")
    /\ person' = [person EXCEPT ![adminCall[r].target].role = role]
    /\ Changed(r)
    /\ \E step \in {"stored", "role_set"} : GoOn(r, step)
    /\ UNCHANGED <<key, policy, order, testimonial, endpoint, object, journal, doubtful, gone>>

\* The second half when both are asked for, or the only one.
SetStatus(r, active) ==
    /\ adminCall[r].op = "update_user" /\ adminCall[r].step \in {"checked", "role_set"}
    /\ person' = [person EXCEPT ![adminCall[r].target].active = active]
    /\ UNCHANGED <<key, policy, order, testimonial, endpoint, object, gone>>
    /\ Stored(r)

UpdatePolicy(r) ==
    /\ Ready(r, "update_settings")
    /\ policy' = r
    /\ UNCHANGED <<person, key, order, testimonial, endpoint, object, gone>>
    /\ Stored(r)

CreateApiKey(r, scopes) ==
    /\ Ready(r, "create_key")
    /\ key' = [key EXCEPT ![r] = [tenant |-> Home, scopes |-> scopes, active |-> TRUE]]
    /\ UNCHANGED <<person, policy, order, testimonial, endpoint, object, gone>>
    /\ Stored(r)

\* UPDATE ... WHERE tenant_id = ... AND revoked_at IS NULL.
RevokeApiKey(r, i) ==
    /\ Ready(r, "revoke_key")
    /\ IF key[i].tenant # Home \/ ~key[i].active THEN Deny(r, 404)
       ELSE /\ key' = [key EXCEPT ![i].active = FALSE]
            /\ UNCHANGED <<person, policy, order, testimonial, endpoint, object, gone>>
            /\ Stored(r)

CreateOrder(r) ==
    /\ Ready(r, "create_order")
    /\ order' = [order EXCEPT ![r] = [tenant |-> Home, owner |-> adminCall[r].subject, status |-> "new"]]
    /\ UNCHANGED <<person, key, policy, testimonial, endpoint, object, gone>>
    /\ Stored(r)

\* An order of nobody, in the default tenant.
CreateConsultation(r) ==
    /\ Ready(r, "consultation")
    /\ order' = [order EXCEPT ![r] = [tenant |-> Home, owner |-> Nothing, status |-> "new"]]
    /\ UNCHANGED <<person, key, policy, testimonial, endpoint, object, gone>>
    /\ Stored(r)

\* Any status may follow any other.
UpdateStatus(r, i, status) ==
    /\ Ready(r, "order_status")
    /\ IF order[i].tenant # Home THEN NotFound(r)
       ELSE /\ order' = [order EXCEPT ![i].status = status]
            /\ UNCHANGED <<person, key, policy, testimonial, endpoint, object, gone>>
            /\ Stored(r)

CreateTestimonial(r) ==
    /\ Ready(r, "create_testimonial")
    /\ testimonial' = [testimonial EXCEPT ![r] = [tenant |-> Home, text |-> r, published |-> FALSE]]
    /\ UNCHANGED <<person, key, policy, order, endpoint, object, gone>>
    /\ Stored(r)

\* Update reads the row in one call ...
GetTestimonial(r, i) ==
    /\ Ready(r, "update_testimonial")
    /\ IF testimonial[i].tenant # Home THEN NotFound(r)
       ELSE adminCall' = [adminCall EXCEPT ![r].step = "checked", ![r].target = i] /\ Silent

\* Mutant of UpdateTestimonial: an upsert.
UpsertTestimonial(r, published) ==
    /\ At(r, "checked", "update_testimonial")
    /\ testimonial' = [testimonial EXCEPT
            ![adminCall[r].target] = [tenant |-> Home, text |-> r, published |-> published]]
    /\ UNCHANGED <<person, key, policy, order, endpoint, object, gone>>
    /\ Stored(r)

\* ... and writes it whole in another one; the row may be gone by then.
UpdateTestimonial(r, published) ==
    /\ At(r, "checked", "update_testimonial")
    /\ IF testimonial[adminCall[r].target].tenant # Home THEN NotFound(r)
       ELSE /\ testimonial' = [testimonial EXCEPT ![adminCall[r].target].text = r,
                                                  ![adminCall[r].target].published = published]
            /\ UNCHANGED <<person, key, policy, order, endpoint, object, gone>>
            /\ Stored(r)

\* Mutant of DeleteTestimonial: that no row was deleted is not noticed.
DeleteBlindly(r, i) ==
    /\ Ready(r, "delete_testimonial")
    /\ IF testimonial[i].tenant # Home THEN Reply(r, 204) /\ Silent
       ELSE /\ testimonial' = [testimonial EXCEPT ![i] = NoTestimonial]
            /\ gone' = gone \union {i}
            /\ UNCHANGED <<person, key, policy, order, endpoint, object>>
            /\ Stored(r)

DeleteTestimonial(r, i) ==
    /\ Ready(r, "delete_testimonial")
    /\ IF testimonial[i].tenant # Home THEN NotFound(r)
       ELSE /\ testimonial' = [testimonial EXCEPT ![i] = NoTestimonial]
            /\ gone' = gone \union {i}
            /\ UNCHANGED <<person, key, policy, order, endpoint, object>>
            /\ Stored(r)

\* A client's own event: here the journal is the effect, and its error is told.
RecordAudit(r) ==
    /\ Ready(r, "record_audit")
    /\ journal' = journal \union {<<r, "ok">>}
    /\ Reply(r, 201)
    /\ UNCHANGED <<tables, history>>

RegisterEndpoint(r) ==
    /\ Ready(r, "create_endpoint")
    /\ endpoint' = [endpoint EXCEPT ![r] = Home]
    /\ UNCHANGED <<person, key, policy, order, testimonial, object, gone>>
    /\ Stored(r)

DeleteEndpoint(r, i) ==
    /\ Ready(r, "delete_endpoint")
    /\ IF endpoint[i] # Home THEN NotFound(r)
       ELSE /\ endpoint' = [endpoint EXCEPT ![i] = Nothing]
            /\ UNCHANGED <<person, key, policy, order, testimonial, object, gone>>
            /\ Stored(r)

\* The key is built from the caller's tenant; the project may be out of reach.
SaveExport(r) ==
    /\ Ready(r, "store_export")
    /\ \/ \E code \in {403, 404} : Reply(r, code) /\ Silent
       \/ /\ object' = [object EXCEPT ![r] = Home]
          /\ UNCHANGED <<person, key, policy, order, testimonial, endpoint, gone>>
          /\ Stored(r)

\* Mutant of DeleteObject: the prefix of the key is not compared.
DeleteAnyObject(r, i) ==
    /\ Ready(r, "delete_object")
    /\ object' = [object EXCEPT ![i] = Nothing]
    /\ UNCHANGED <<person, key, policy, order, testimonial, endpoint, gone>>
    /\ Stored(r)

\* Only below the caller's prefix.  The file store misses an absent object, the
\* S3 store does not.
DeleteObject(r, i) ==
    /\ Ready(r, "delete_object")
    /\ \/ object[i] # Home /\ \E code \in {403, 404} : Reply(r, code) /\ Silent
       \/ /\ object[i] \in {Home, Nothing}
          /\ object' = [object EXCEPT ![i] = Nothing]
          /\ UNCHANGED <<person, key, policy, order, testimonial, endpoint, gone>>
          /\ Stored(r)

-----------------------------------------------------------------------------
Query(r) ==
    \/ ListUsers(r) \/ AdminOverview(r) \/ GetPolicy(r) \/ Export(r) \/ ListApiKeys(r)
    \/ ListByUser(r) \/ ListAll(r) \/ ListTestimonials(r) \/ ListTenantAudit(r)
    \/ ListEndpoints(r) \/ ListPublished(r) \/ Usage(r) \/ Projects(r) \/ Manufacturing(r) \/ Cost(r)
    \/ \E i \in Rows : Load(r, i)

Effect(r) ==
    \/ \E who \in People : LookUp(r, who)
    \/ \E role \in AdminRole : SetRole(r, role)
    \/ \E active \in BOOLEAN : SetStatus(r, active) \/ UpdateTestimonial(r, active)
    \/ UpdatePolicy(r) \/ CreateOrder(r) \/ CreateConsultation(r) \/ CreateTestimonial(r) \/ RecordAudit(r)
    \/ RegisterEndpoint(r) \/ SaveExport(r)
    \/ \E scopes \in KeyScopes : CreateApiKey(r, scopes)
    \/ \E i \in Rows : \/ RevokeApiKey(r, i) \/ GetTestimonial(r, i) \/ DeleteTestimonial(r, i)
                      \/ DeleteEndpoint(r, i) \/ DeleteObject(r, i)
                      \/ \E status \in Status : UpdateStatus(r, i, status)

AdminStep(r) ==
    \/ \E op \in Op :
          \/ \E u \in People \ Outside : Authenticate(r, op, u)
          \/ \E i \in OfHome(key) : Authenticate(r, op, i)
    \/ \E op \in Op : LimitRate(r, op)
    \/ RefuseWithoutToken(r) \/ Bar(r) \/ Refuse(r) \/ AdminFail(r)
    \/ Query(r) \/ Effect(r) \/ Record(r) \/ LoseReply(r)

AdminNext == UNCHANGED chiefs /\ \E r \in AdminRequests : AdminStep(r)

AdminSpec == AdminInit /\ [][AdminNext]_adminVars

-----------------------------------------------------------------------------
(* Properties *)

CallType ==
    [op : Op, subject : People \union Rows \union {Nothing},
     step : {"idle", "admitted", "barred", "checked", "role_set", "stored", "done"},
     target : People \union Rows \union {Nothing}, answer : 0..599, shown : SUBSET (People \union Rows)]

\* The type of the tables and of the requests.
AdminTypeOK ==
    /\ person \in [People -> [role : AdminRole, active : BOOLEAN]]
    /\ key \in [Rows -> [tenant : Tenants \union {Nothing}, scopes : KeyScopes \union {{}}, active : BOOLEAN]]
    /\ \A i \in Rows : key[i].active => key[i].tenant # Nothing
    /\ policy \in AdminRequests \union {Nothing}
    /\ order \in [Rows -> [tenant : Tenants \union {Nothing}, owner : People \union {Nothing}, status : Status]]
    /\ testimonial \in [Rows -> [tenant : Tenants \union {Nothing}, text : Rows \union {Nothing},
                                 published : BOOLEAN]]
    /\ endpoint \in [Rows -> Tenants \union {Nothing}] /\ object \in [Rows -> Tenants \union {Nothing}]
    /\ journal \subseteq AdminRequests \X {"ok", "denied"}
    /\ adminCall \in [AdminRequests -> CallType]
    /\ wrote \union doubtful \subseteq AdminRequests /\ stale \in BOOLEAN /\ gone \subseteq Rows

\* What the caller is told is what happened, whatever the others do in between:
\* 2xx exactly if the effect is in the tables, unless the request was cut short.
AdminAnswersAreTrue ==
    \A r \in AdminRequests \ doubtful :
        adminCall[r].step = "done" /\ adminCall[r].op \in Writing =>
            (adminCall[r].answer < 300 <=> r \in wrote)

\* No request of Home shows or changes a row or an account of Away, whatever
\* identifier it names (the tenant in every statement, the prefix of the keys).
AwayUntouched ==
    /\ \A u \in Outside : person[u] = [role |-> "admin", active |-> TRUE]
    /\ key[Away].active /\ order[Away].status = "new"
    /\ testimonial[Away] = [tenant |-> Away, text |-> Away, published |-> FALSE]
    /\ endpoint[Away] = Away /\ object[Away] = Away
    /\ \A r \in AdminRequests : adminCall[r].shown \intersect (Outside \union {Away}) = {}

\* That nobody changes the own account keeps an administrator in the tenant, as
\* long as no key is used for it and no request writes after its caller has lost
\* the right: only overlapping requests of administrators can leave it without.
AdministratorRemains ==
    ~stale /\ (\A r \in wrote : adminCall[r].op = "update_user" => adminCall[r].subject \in People) =>
        \E u \in People \ Outside : person[u].role = "admin" /\ person[u].active

\* Power comes from power: while none of those who had rights at the start has used
\* one to change anything, whatever needs a right is as it was, nobody else has got
\* one, and the public sees no draft.
PowerComesFromPower ==
    (\A r \in wrote : Free(adminCall[r].op) \/ adminCall[r].subject \notin chiefs) =>
        /\ policy = Nothing
        /\ \A u \in People : person[u].active /\ (person[u].role = "admin" => u \in chiefs)
        /\ \A i \in AdminRequests : key[i] = NoKey /\ endpoint[i] = Nothing /\ testimonial[i] = NoTestimonial
        /\ key[Home].active /\ order[Home].status = "new" /\ endpoint[Home] = Home /\ object[Home] = Home
        /\ testimonial[Home] = [tenant |-> Home, text |-> Home, published |-> FALSE]
        /\ \A r \in AdminRequests : adminCall[r].op = "published" => adminCall[r].shown = {}

\* A testimonial that has been deleted does not come back, although updates that
\* have read it are still under way (Get and UPDATE are two statements).
DeletedStaysDeleted == \A i \in gone : testimonial[i] = NoTestimonial

\* The journal is true: success is told only of what was done, denial only of what
\* was refused, and what is audited and answered 2xx has its event unless it got lost.
AdminJournalIsTrue ==
    /\ \A r \in AdminRequests : <<r, "ok">> \in journal => r \in wrote \/ adminCall[r].op = "record_audit"
    /\ \A r \in AdminRequests : <<r, "denied">> \in journal => adminCall[r].answer >= 400 /\ r \notin wrote
    /\ \A r \in wrote \ doubtful :
          adminCall[r].step = "done" /\ adminCall[r].op \in Audited => <<r, "ok">> \in journal

\* Answer, table and journal tell the same story of every request.
AdminTellsTheTruth == AdminTypeOK /\ AdminAnswersAreTrue /\ AdminJournalIsTrue
\* Nothing of another tenant, nothing without a right, and nothing deleted is touched,
\* whatever the requests that overlap have read before (the WHERE of every statement).
TablesAreGuarded == AwayUntouched /\ PowerComesFromPower /\ DeletedStaysDeleted

\* A request with an API key that holds the scope is never refused with 403: keys
\* are not asked for a CSRF token (EDR-0016, 7).
KeysNeedNoToken ==
    \A r \in AdminRequests :
        adminCall[r].step = "done" /\ adminCall[r].subject \notin People /\ adminCall[r].op = "create_testimonial"
            /\ "testimonials.manage" \in key[adminCall[r].subject].scopes
        => adminCall[r].answer # 403

\* An export of the tenant's data leaves its event (EDR-0016, 4.7).
ExportRecorded ==
    \A r \in AdminRequests \ doubtful :
        adminCall[r].step = "done" /\ adminCall[r].op = "export" /\ adminCall[r].answer = 200 =>
            <<r, "ok">> \in journal
=============================================================================
