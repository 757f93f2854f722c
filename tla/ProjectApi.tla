----------------------------- MODULE ProjectApi -----------------------------
(***************************************************************************)
(* The routes /api/v1/projects/{id}/...: the handlers of                   *)
(* internal/transport/http (projects.go, integrations.go, payments.go,     *)
(* audit.go), the project service behind them with its audit record, and   *)
(* the queries of the PostgreSQL repository.                               *)
(*                                                                         *)
(* A request reads the caller's membership, works in one or two later      *)
(* calls, and records an audit event in another one; other requests run in *)
(* between.  All requests are about the project Mine.  The identifiers in  *)
(* their paths may name rows of the project Other.                         *)
(***************************************************************************)
EXTENDS Naturals, FiniteSets

CONSTANTS
    People,     \* everybody who calls
    Founder,    \* the owner of the project Mine
    Outside,    \* users of another tenant
    ApiRequests,\* requests; the row a request inserts is named after it
    Mine, Other,\* two projects; each starts with one row of each kind, named after it
    NoRow

ASSUME UsersAssumption == Founder \in People /\ Outside \subseteq People \ {Founder}
ASSUME RowsAssumption ==
    /\ Mine # Other
    /\ {Mine, Other} \intersect ApiRequests = {}
    /\ NoRow \notin ApiRequests \union {Mine, Other} \union People

VARIABLES
    member,     \* project_members of Mine: user -> role, "none" without a row
    state,      \* projects.status of Mine
    config,     \* stair_configurations: row -> project_id, NoRow without a row
    currentId,  \* projects.current_configuration_id of Mine
    latest,     \* the configuration of the newest row of calculations
    approval,   \* configuration_approvals: configuration -> project_id, or NoRow
    comment,    \* project_comments: row -> project_id and author
    review,     \* project_reviews: row -> project_id, requester and decision
    audit,      \* audit_events: the requests they are about, and their result
    request,    \* the requests
    wrote,      \* history: requests whose effect is in the store
    doubtful    \* history: requests whose reply or audit event got lost

tables == <<member, state, config, currentId, latest, approval, comment, review>>
apiVars == <<tables, audit, request, wrote, doubtful>>

Projects == {Mine, Other}
Rows == ApiRequests \union Projects
ApiRole == {"owner", "editor", "viewer"}
ApiVerdict == {"approved", "changes_requested"}
NoComment == [project |-> NoRow, author |-> NoRow]
NoReview == [project |-> NoRow, requester |-> NoRow, decision |-> "none"]

ApiPermissions(r) ==
    CASE r = "owner" -> {"read", "edit", "manage"}
      [] r = "editor" -> {"read", "edit"}
      [] r = "viewer" -> {"read"}
      [] OTHER -> {}

-----------------------------------------------------------------------------
(* What the handlers answer: refuse, the codes given before the service is  *)
(* called (a body that does not decode, a value that does not validate);    *)
(* conflict and fault, the codes for ErrConflict and for any other error of *)
(* the service; ok.  ErrNotFound is 404 and ErrForbidden 403 everywhere.    *)

Answers(refuse, conflict, fault, ok) ==
    [refuse |-> refuse, conflict |-> conflict, fault |-> fault, ok |-> ok]

HandleListProjects == Answers({}, 500, 500, 200)
HandleGetProject == Answers({}, 500, 500, 200)
HandleListMembers == Answers({}, 500, 500, 200)
HandleAddMember == Answers({400, 422}, 409, 409, 201)
HandleUpdateMemberRole == Answers({400, 422}, 409, 409, 200)
HandleRemoveMember == Answers({}, 409, 409, 204)
HandleAddComment == Answers({400, 422}, 422, 409, 201)
HandleListComments == Answers({}, 500, 500, 200)
HandleDeleteComment == Answers({}, 409, 409, 204)
HandleRequestReview == Answers({400}, 422, 500, 201)
HandleSignOffReview == Answers({400}, 422, 500, 200)
HandleRequestChanges == Answers({400}, 422, 500, 200)
HandleListReviews == Answers({}, 500, 500, 200)
HandleApproveConfiguration == Answers({400}, 422, 500, 201)
HandleGetConfigurationApproval == Answers({}, 500, 500, 200)
HandleListApprovals == Answers({}, 500, 500, 200)
HandleListConfigurations == Answers({}, 500, 500, 200)
HandleGetConfiguration == Answers({}, 500, 500, 200)
HandleRestoreConfiguration == Answers({}, 500, 500, 200)
HandleCalculateProject == Answers({400, 422}, 422, 422, 200)
HandlePreviewProject == Answers({400, 422}, 422, 422, 200)
HandleOptimizeProject == Answers({400, 422}, 422, 422, 200)
HandleExportProject == Answers({}, 500, 500, 200)
HandleExportCAD == Answers({400}, 500, 500, 200)
HandleQuoteSend == Answers({}, 500, 500, 202)
HandleProjectSync == Answers({}, 500, 500, 202)
HandleOrderSend == Answers({}, 500, 500, 202)
HandleCheckout == Answers({}, 500, 500, 201)
HandleListPayments == Answers({}, 500, 500, 200)
HandleListProjectAudit == Answers({}, 500, 500, 200)

Handler ==
    [list_projects |-> HandleListProjects, get |-> HandleGetProject,
     list_members |-> HandleListMembers, add_member |-> HandleAddMember,
     add_by_email |-> HandleAddMember, set_role |-> HandleUpdateMemberRole,
     remove_member |-> HandleRemoveMember, add_comment |-> HandleAddComment,
     list_comments |-> HandleListComments, delete_comment |-> HandleDeleteComment,
     request_review |-> HandleRequestReview, sign_off |-> HandleSignOffReview,
     request_changes |-> HandleRequestChanges, list_reviews |-> HandleListReviews,
     approve |-> HandleApproveConfiguration,
     get_approval |-> HandleGetConfigurationApproval,
     list_approvals |-> HandleListApprovals, list_configs |-> HandleListConfigurations,
     get_config |-> HandleGetConfiguration, restore |-> HandleRestoreConfiguration,
     calculate |-> HandleCalculateProject, preview |-> HandlePreviewProject,
     optimize |-> HandleOptimizeProject, export |-> HandleExportProject,
     export_cad |-> HandleExportCAD, quote |-> HandleQuoteSend,
     sync |-> HandleProjectSync, order |-> HandleOrderSend,
     checkout |-> HandleCheckout, list_payments |-> HandleListPayments,
     list_audit |-> HandleListProjectAudit]

Op == DOMAIN Handler
OwnerOp == {"add_member", "add_by_email", "set_role", "remove_member",
            "sign_off", "request_changes", "approve"}
EditorOp == {"request_review", "calculate", "optimize", "restore"}
Sending == {"quote", "sync", "order", "checkout"}
Writing == OwnerOp \union EditorOp \union Sending \union {"add_comment", "delete_comment"}

\* Operations that record an event once they are through.  Exporting CAD does,
\* inviting by e-mail and everything about comments does not.
Audited == (OwnerOp \ {"add_by_email"}) \union EditorOp \union {"export_cad"}

Needed(op) == CASE op \in OwnerOp -> "manage" [] op \in EditorOp -> "edit" [] OTHER -> "read"

ApiIdle == [op |-> "get", user |-> Founder, step |-> "idle", answer |-> 0, shown |-> {}]

\* The project has been created with its owner, calculated and discussed; a
\* colleague may be a member, and a review may be open.
ApiInit ==
    /\ \E u \in People \ (Outside \union {Founder}), r \in {"none", "editor", "viewer"},
          asked \in BOOLEAN :
          /\ member = [v \in People |-> IF v = Founder THEN "owner" ELSE IF v = u THEN r ELSE "none"]
          /\ asked => r = "editor"
          /\ state = IF asked THEN "in_review" ELSE "draft"
          /\ review = [i \in Rows |-> IF i = Other \/ (i = Mine /\ asked)
                THEN [project |-> i, requester |-> u, decision |-> "requested"] ELSE NoReview]
          /\ comment = [i \in Rows |->
                IF i \in Projects THEN [project |-> i, author |-> u] ELSE NoComment]
    /\ config = [i \in Rows |-> IF i \in Projects THEN i ELSE NoRow]
    /\ currentId = Mine
    /\ latest = Mine
    /\ approval = [i \in Rows |-> IF i = Other THEN Other ELSE NoRow]
    /\ audit = {}
    /\ request = [r \in ApiRequests |-> ApiIdle]
    /\ wrote = {}
    /\ doubtful = {}

-----------------------------------------------------------------------------
(* The way of a request through handler and service *)

At(r, step, ops) == request[r].step = step /\ request[r].op \in ops
ApiGoto(r, step) == request' = [request EXCEPT ![r].step = step]
Reply(r, code) == request' = [request EXCEPT ![r].step = "done", ![r].answer = code]
NotFound(r) == Reply(r, 404) /\ UNCHANGED <<tables, audit, wrote, doubtful>>
Conflict(r) == Reply(r, Handler[request[r].op].conflict) /\ UNCHANGED <<tables, audit, wrote, doubtful>>
Show(r, rows) ==
    /\ request' = [request EXCEPT ![r].step = "done", ![r].shown = rows,
                                  ![r].answer = Handler[request[r].op].ok]
    /\ UNCHANGED <<tables, audit, wrote, doubtful>>

\* The effect of a request is in the store; the event and the reply are to come.
ApiStored(r) ==
    /\ ApiGoto(r, "stored")
    /\ wrote' = wrote \union {r}
    /\ UNCHANGED <<audit, doubtful>>

\* The rows and users a request names are chosen where they are first looked at.
Receive(r, op, u) ==
    /\ request[r].step = "idle"
    /\ request' = [request EXCEPT ![r].op = op, ![r].user = u, ![r].step = "received"]
    /\ UNCHANGED <<tables, audit, wrote, doubtful>>

Refuse(r) ==
    /\ request[r].step = "received"
    /\ \E code \in Handler[request[r].op].refuse : Reply(r, code)
    /\ UNCHANGED <<tables, audit, wrote, doubtful>>

\* Any call may fail, and the engines may refuse the input.
ApiFail(r) ==
    /\ request[r].step \in {"received", "admitted", "checked"}
    /\ Reply(r, Handler[request[r].op].fault)
    /\ UNCHANGED <<tables, audit, wrote, doubtful>>

\* The membership of the caller decides: unknown 404, too low a role 403 with
\* an event that may get lost (the error of the journal is ignored).
Member(r) ==
    LET q == request[r] IN
    /\ q.step = "received" /\ q.op # "list_projects"
    /\ UNCHANGED <<tables, wrote>>
    /\ \/ /\ member[q.user] = "none"
          /\ Reply(r, 404)
          /\ UNCHANGED <<audit, doubtful>>
       \/ /\ member[q.user] # "none"
          /\ Needed(q.op) \notin ApiPermissions(member[q.user])
          /\ Reply(r, 403)
          /\ \/ audit' = audit \union {<<r, "denied">>} /\ UNCHANGED doubtful
             \/ doubtful' = doubtful \union {r} /\ UNCHANGED audit
       \/ /\ Needed(q.op) \in ApiPermissions(member[q.user])
          /\ ApiGoto(r, "admitted")
          /\ UNCHANGED <<audit, doubtful>>

\* Mutant of Record: the event is written whether or not the repository agreed.
RecordEarly(r) ==
    /\ request[r].step \in {"admitted", "stored"}
    /\ request[r].op \in Audited
    /\ Reply(r, Handler[request[r].op].ok)
    /\ audit' = audit \union {<<r, "ok">>}
    /\ UNCHANGED <<tables, wrote, doubtful>>

\* The event of what has been done, which may get lost, and the answer.
Record(r) ==
    /\ request[r].step = "stored"
    /\ Reply(r, Handler[request[r].op].ok)
    /\ \/ request[r].op \notin Audited /\ UNCHANGED <<audit, doubtful>>
       \/ request[r].op \in Audited /\ audit' = audit \union {<<r, "ok">>} /\ UNCHANGED doubtful
       \/ request[r].op \in Audited /\ doubtful' = doubtful \union {r} /\ UNCHANGED audit
    /\ UNCHANGED <<tables, wrote>>

\* The store did it and its reply got lost: the caller sees an error.
LoseReply(r) ==
    /\ request[r].step = "stored" /\ request[r].op # "export_cad"
    /\ Reply(r, Handler[request[r].op].fault)
    /\ doubtful' = doubtful \union {r}
    /\ UNCHANGED <<tables, audit, wrote>>

-----------------------------------------------------------------------------
(* Queries *)

ListProjects(r) ==
    /\ At(r, "received", {"list_projects"})
    /\ Show(r, IF member[request[r].user] # "none" THEN {Mine} ELSE {})

GetProject(r) == At(r, "admitted", {"get"}) /\ Show(r, {Mine})
ListMembers(r) == At(r, "admitted", {"list_members"}) /\ Show(r, {Mine})
ListComments(r) ==
    At(r, "admitted", {"list_comments"}) /\ Show(r, {i \in Rows : comment[i].project = Mine})
ListReviews(r) ==
    At(r, "admitted", {"list_reviews"}) /\ Show(r, {i \in Rows : review[i].project = Mine})
ListApprovals(r) ==
    At(r, "admitted", {"list_approvals"}) /\ Show(r, {i \in Rows : approval[i] = Mine})
ListConfigurations(r) ==
    At(r, "admitted", {"list_configs"}) /\ Show(r, {i \in Rows : config[i] = Mine})

\* SELECT ... WHERE id = $1 AND project_id = $2, and the project is of the tenant.
ConfigurationByID(i) == config[i] = Mine

GetConfiguration(r, i) ==
    /\ At(r, "admitted", {"get_config"})
    /\ IF ConfigurationByID(i) THEN Show(r, {i}) ELSE NotFound(r)

GetConfigurationApproval(r, i) ==
    /\ At(r, "admitted", {"get_approval"})
    /\ IF approval[i] = Mine THEN Show(r, {i}) ELSE NotFound(r)

\* GetResult: the newest calculation, which need not be that of the current revision.
ExportProject(r) == At(r, "admitted", {"export"}) /\ Show(r, {latest})

\* The current configuration is calculated again; the export is recorded as a
\* modification of the project.
ExportCAD(r) ==
    /\ At(r, "admitted", {"export_cad"})
    /\ request' = [request EXCEPT ![r].step = "stored", ![r].shown = {currentId}]
    /\ UNCHANGED <<tables, audit, wrote, doubtful>>

Preview(r) == At(r, "admitted", {"preview"}) /\ Show(r, {})
ListPayments(r) == At(r, "admitted", {"list_payments"}) /\ Show(r, {Mine})
ListProjectAudit(r) == At(r, "admitted", {"list_audit"}) /\ Show(r, {Mine})

-----------------------------------------------------------------------------
(* Effects *)

\* The partial unique index on role = 'owner'.
ApiOwnerIndexAdmits(as) == as = "owner" => \A u \in People : member[u] # "owner"

\* Mutant of MemberOfTenant: users are looked up in all tenants.
MemberOfAnyTenant(who) == who \in People

\* SELECT id FROM users WHERE ... AND tenant_id = (the project's).
MemberOfTenant(who) == who \in People \ Outside

\* By identifier or by e-mail; the key of project_members and the index on the
\* owner refuse a second row.  Only the first of the two is recorded.
ApiAddMember(r, who, as) ==
    /\ At(r, "admitted", {"add_member", "add_by_email"})
    /\ IF ~MemberOfTenant(who) THEN NotFound(r)
       ELSE IF member[who] # "none" \/ ~ApiOwnerIndexAdmits(as) THEN Conflict(r)
       ELSE /\ member' = [member EXCEPT ![who] = as]
            /\ UNCHANGED <<state, config, currentId, latest, approval, comment, review>>
            /\ ApiStored(r)

\* UPDATE ... WHERE role <> 'owner'; no row changed means not found.
ApiUpdateMemberRole(r, who, as) ==
    /\ At(r, "admitted", {"set_role"})
    /\ IF member[who] \in {"none", "owner"} THEN NotFound(r)
       ELSE IF ~ApiOwnerIndexAdmits(as) THEN Conflict(r)
       ELSE /\ member' = [member EXCEPT ![who] = as]
            /\ UNCHANGED <<state, config, currentId, latest, approval, comment, review>>
            /\ ApiStored(r)

ApiRemoveMember(r, who) ==
    /\ At(r, "admitted", {"remove_member"})
    /\ IF member[who] \in {"none", "owner"} THEN NotFound(r)
       ELSE /\ member' = [member EXCEPT ![who] = "none"]
            /\ UNCHANGED <<state, config, currentId, latest, approval, comment, review>>
            /\ ApiStored(r)

AddComment(r) ==
    /\ At(r, "admitted", {"add_comment"})
    /\ comment' = [comment EXCEPT ![r] = [project |-> Mine, author |-> request[r].user]]
    /\ UNCHANGED <<member, state, config, currentId, latest, approval, review>>
    /\ ApiStored(r)

\* Mutant of Deletable: the comment is not looked for within the project.
DeletableAnywhere(i, u) == comment[i].author = u \/ member[u] = "owner"

\* The conditions of the DELETE: within the project, by the author or by who is
\* owner at that moment.
Deletable(i, u) == comment[i].project = Mine /\ (comment[i].author = u \/ member[u] = "owner")

\* Mutant of DeleteComment: that no row was deleted is not noticed.
DeleteCommentBlindly(r, i) ==
    /\ At(r, "admitted", {"delete_comment"})
    /\ IF ~Deletable(i, request[r].user)
       THEN Reply(r, 204) /\ UNCHANGED <<tables, audit, wrote, doubtful>>
       ELSE /\ comment' = [comment EXCEPT ![i] = NoComment]
            /\ UNCHANGED <<member, state, config, currentId, latest, approval, review>>
            /\ ApiStored(r)

DeleteComment(r, i) ==
    /\ At(r, "admitted", {"delete_comment"})
    /\ IF ~Deletable(i, request[r].user) THEN NotFound(r)
       ELSE /\ comment' = [comment EXCEPT ![i] = NoComment]
            /\ UNCHANGED <<member, state, config, currentId, latest, approval, review>>
            /\ ApiStored(r)

\* GetProject asks for the membership again; a project in review refuses.
CheckStatus(r) ==
    /\ At(r, "admitted", {"calculate", "optimize"})
    /\ IF member[request[r].user] = "none" THEN NotFound(r)
       ELSE IF state = "in_review" THEN Conflict(r)
       ELSE ApiGoto(r, "checked") /\ UNCHANGED <<tables, audit, wrote, doubtful>>

\* One transaction: the configuration, the project's pointer, the calculation.
SaveCalculation(r) ==
    /\ At(r, "checked", {"calculate", "optimize"})
    /\ config' = [config EXCEPT ![r] = Mine]
    /\ currentId' = r
    /\ latest' = r
    /\ UNCHANGED <<member, state, approval, comment, review>>
    /\ ApiStored(r)

\* The search found no valid candidate: 200 and nothing saved.
OptimizeInVain(r) == At(r, "checked", {"optimize"}) /\ Show(r, {})

\* The revision is looked up, looked up again, and made the current one.
ApiRestoreConfiguration(r, i) ==
    /\ At(r, "admitted", {"restore"})
    /\ IF ~ConfigurationByID(i) THEN NotFound(r)
       ELSE /\ currentId' = i
            /\ UNCHANGED <<member, state, config, latest, approval, comment, review>>
            /\ ApiStored(r)

ApiRequestReview(r) ==
    /\ At(r, "admitted", {"request_review"})
    /\ IF state \notin {"draft", "changes_requested"} THEN Conflict(r)
       ELSE /\ state' = "in_review"
            /\ review' = [review EXCEPT ![r] = [project |-> Mine, requester |-> request[r].user,
                                                decision |-> "requested"]]
            /\ UNCHANGED <<member, config, currentId, latest, approval, comment>>
            /\ ApiStored(r)

\* SELECT ... WHERE id = $1 AND project_id = $2 AND decision = 'requested' FOR UPDATE.
PendingReview(i) == review[i].project = Mine /\ review[i].decision = "requested"

\* SignOffReview and RequestChanges; who asked for the review may not decide.
ApiDecideReview(r, i) ==
    LET verdict == IF request[r].op = "sign_off" THEN "approved" ELSE "changes_requested" IN
    /\ At(r, "admitted", {"sign_off", "request_changes"})
    /\ IF ~PendingReview(i) THEN NotFound(r)
       ELSE IF review[i].requester = request[r].user
       THEN Reply(r, 403) /\ UNCHANGED <<tables, audit, wrote, doubtful>>
       ELSE IF state # "in_review" THEN Conflict(r)
       ELSE /\ review' = [review EXCEPT ![i].decision = verdict]
            /\ state' = verdict
            /\ UNCHANGED <<member, config, currentId, latest, approval, comment>>
            /\ ApiStored(r)

\* UNIQUE (configuration_id) refuses a second approval.
ApiApproveConfiguration(r, i) ==
    /\ At(r, "admitted", {"approve"})
    /\ IF ~ConfigurationByID(i) THEN NotFound(r)
       ELSE IF approval[i] # NoRow THEN Conflict(r)
       ELSE /\ approval' = [approval EXCEPT ![i] = Mine]
            /\ UNCHANGED <<member, state, config, currentId, latest, comment, review>>
            /\ ApiStored(r)

\* Quote, CRM record, production order, payment: made from what was read of the
\* project, in tables of their own.
SendOut(r) ==
    /\ At(r, "admitted", Sending)
    /\ UNCHANGED tables
    /\ ApiStored(r)

\* No endpoint of that kind, no production data; the body of a checkout is
\* looked at only here.
RefuseLate(r) ==
    /\ At(r, "admitted", Sending)
    /\ \E code \in IF request[r].op = "checkout" THEN {400, 422} ELSE {422} : Reply(r, code)
    /\ UNCHANGED <<tables, audit, wrote, doubtful>>

-----------------------------------------------------------------------------
Query(r) ==
    \/ ListProjects(r) \/ GetProject(r) \/ ListMembers(r) \/ ListComments(r)
    \/ ListReviews(r) \/ ListApprovals(r) \/ ListConfigurations(r)
    \/ \E i \in Rows : GetConfiguration(r, i) \/ GetConfigurationApproval(r, i)
    \/ ExportProject(r) \/ ExportCAD(r) \/ Preview(r)
    \/ ListPayments(r) \/ ListProjectAudit(r)

Effect(r) ==
    \/ \E who \in People, as \in ApiRole : ApiAddMember(r, who, as) \/ ApiUpdateMemberRole(r, who, as)
    \/ \E who \in People : ApiRemoveMember(r, who)
    \/ \E i \in Rows : \/ DeleteComment(r, i) \/ ApiRestoreConfiguration(r, i)
                      \/ ApiDecideReview(r, i) \/ ApiApproveConfiguration(r, i)
    \/ AddComment(r) \/ ApiRequestReview(r)
    \/ CheckStatus(r) \/ SaveCalculation(r) \/ OptimizeInVain(r)
    \/ SendOut(r) \/ RefuseLate(r)

ApiNext == \E r \in ApiRequests :
    \/ \E op \in Op, u \in People : Receive(r, op, u)
    \/ Refuse(r) \/ ApiFail(r) \/ Member(r)
    \/ Query(r) \/ Effect(r) \/ Record(r) \/ LoseReply(r)

ApiSpec == ApiInit /\ [][ApiNext]_apiVars

-----------------------------------------------------------------------------
(* Properties *)

\* The type of the tables and of the requests.
ApiTypeOK ==
    /\ member \in [People -> ApiRole \union {"none"}]
    /\ state \in {"draft", "in_review"} \union ApiVerdict
    /\ config \in [Rows -> Projects \union {NoRow}]
    /\ {currentId, latest} \subseteq Rows
    /\ approval \in [Rows -> Projects \union {NoRow}]
    /\ comment \in [Rows -> [project : Projects, author : People] \union {NoComment}]
    /\ review \in [Rows -> [project : Projects, requester : People,
                            decision : {"requested"} \union ApiVerdict] \union {NoReview}]
    /\ audit \subseteq ApiRequests \X {"ok", "denied"}
    /\ request \in [ApiRequests ->
          [op : Op, user : People, step : {"idle", "received", "admitted", "checked", "stored", "done"},
           answer : 0..599, shown : SUBSET Rows]]
    /\ wrote \subseteq ApiRequests /\ doubtful \subseteq ApiRequests

\* What the caller is told is what happened: a request that may change something
\* is answered 2xx exactly if its effect is in the store, whatever the others
\* do in between; the exceptions are a reply that got lost and a search
\* without a result (the switch in every handler, RowsAffected in the repository).
AnswersAreTrue ==
    \A r \in ApiRequests :
        request[r].step = "done" /\ request[r].op \in Writing /\ r \notin doubtful =>
            /\ request[r].answer >= 300 => r \notin wrote
            /\ request[r].answer < 300 => r \in wrote \/ request[r].op = "optimize"

\* A path that names a row of another project neither shows nor changes it, and
\* no row of it gets into this project (the project_id in every query).
ProjectsKeptApart ==
    /\ config[currentId] = Mine /\ config[latest] = Mine
    /\ \A i \in Rows : approval[i] # NoRow => approval[i] = config[i]
    /\ comment[Other].project = Other
    /\ review[Other].decision = "requested"
    /\ \A r \in ApiRequests : Other \notin request[r].shown

\* However members are invited, changed and removed, nobody of another tenant is
\* a member, and their requests end with 404, a refusal or an error (SEC-0005).
TenantsKeptApart ==
    /\ \A u \in Outside : member[u] = "none"
    /\ \A r \in ApiRequests :
          request[r].step = "done" /\ request[r].user \in Outside =>
              /\ request[r].shown = {}
              /\ \/ request[r].answer \in {400, 404, 409, 422, 500}
                 \/ request[r].op = "list_projects"

\* The journal is true: an event of success has its effect, an event of denial
\* its 403, and what is audited and answered 2xx has its event unless that got
\* lost (record after the repository's answer, in every method of the service).
JournalIsTrue ==
    /\ \A r \in ApiRequests : <<r, "ok">> \in audit => r \in wrote \/ request[r].op = "export_cad"
    /\ \A r \in ApiRequests : <<r, "denied">> \in audit => request[r].answer = 403 /\ r \notin wrote
    /\ \A r \in wrote \ doubtful :
          request[r].step = "done" /\ request[r].op \in Audited => <<r, "ok">> \in audit

\* Answer, store and journal tell the same story of every request.
ApiTellsTheTruth == ApiTypeOK /\ AnswersAreTrue /\ JournalIsTrue
\* Rows stay within their project and members within their tenant, on every route and
\* in whatever order two requests make their statements.
BordersHold == ProjectsKeptApart /\ TenantsKeptApart

\* Adding a member is recorded, however it is done.
MemberAddedRecorded ==
    \A r \in wrote \ doubtful :
        request[r].step = "done" /\ request[r].op \in {"add_member", "add_by_email"} =>
            <<r, "ok">> \in audit
=============================================================================
