--------------------------- MODULE ProjectReview ---------------------------
(***************************************************************************)
(* One project: its members, the revisions of its configuration, and the   *)
(* review that freezes it (internal/application/project, with its          *)
(* PostgreSQL repository).                                                 *)
(*                                                                         *)
(* A request that needs the edit permission first reads the caller's       *)
(* membership and then works through further calls of the repository, so   *)
(* other requests run in between; a call in Calls is one such request.     *)
(* Requests that need the owner are one step each: the role they read is   *)
(* the owner's own, which nothing changes (OneOwner), so only their write  *)
(* can interfere with others.                                              *)
(***************************************************************************)
EXTENDS Naturals, Sequences, FiniteSets

CONSTANTS
    Users,      \* users of the project's tenant
    Creator,    \* the user who created the project
    Calls,      \* requests by editors; a Calculate call names the revision it saves
    None

ASSUME CreatorAssumption == Creator \in Users
ASSUME NoneAssumption == None \notin Calls \union Users
ASSUME CallsAssumption == IsFiniteSet(Calls)

VARIABLES
    role,       \* project_members: user -> role, "none" without a row
    status,     \* projects.status
    reviews,    \* project_reviews in the order of their creation
    revision,   \* stair_configurations: call -> revision number, 0 when not saved
    current,    \* projects.current_configuration_id
    approved,   \* configuration_approvals: approved configurations
    call,       \* where each request is
    number      \* the revision number inserted by a request's open transaction

vars == <<role, status, reviews, revision, current, approved, call, number>>

Role == {"owner", "editor", "viewer"}
ProjectStatus == {"draft", "in_review", "approved", "changes_requested"}
Verdict == {"approved", "changes_requested"}
Operation == {"calculate", "restore", "request_review"}
Step == {"idle", "authorized", "checked", "saving", "done"}

Review == [requester : Users, reviewer : Users \union {None},
           decision : {"requested"} \union Verdict]
Call == [step : Step, op : Operation \union {None}, user : Users \union {None}]

Idle == [step |-> "idle", op |-> None, user |-> None]

Permissions(r) ==
    CASE r = "owner" -> {"read", "edit", "manage"}
      [] r = "editor" -> {"read", "edit"}
      [] r = "viewer" -> {"read"}
      [] OTHER -> {}

HasPermission(u, p) == p \in Permissions(role[u])

Saved == {c \in Calls : revision[c] # 0}

NextRevision == CHOOSE n \in 1..(Cardinality(Calls) + 1) :
                    /\ \A c \in Calls : revision[c] < n
                    /\ n = 1 \/ \E c \in Calls : revision[c] = n - 1

Init ==
    /\ role = [u \in Users |-> IF u = Creator THEN "owner" ELSE "none"]
    /\ status = "draft"
    /\ reviews = <<>>
    /\ revision = [c \in Calls |-> 0]
    /\ current = None
    /\ approved = {}
    /\ call = [c \in Calls |-> Idle]
    /\ number = [c \in Calls |-> 0]

-----------------------------------------------------------------------------
(* Requests of editors *)

Goto(c, s) == call' = [call EXCEPT ![c].step = s]

\* The caller's membership carries the edit permission.
Authorize(c, u, op) ==
    /\ call[c].step = "idle"
    /\ HasPermission(u, "edit")
    /\ call' = [call EXCEPT ![c] = [step |-> "authorized", op |-> op, user |-> u]]
    /\ UNCHANGED <<number, role, status, reviews, revision, current, approved>>

\* Any call of the repository may fail and the pipeline may refuse the input:
\* the request ends, its open transaction is rolled back.
Fail(c) ==
    /\ call[c].step \in {"authorized", "checked", "saving"}
    /\ Goto(c, "done")
    /\ UNCHANGED <<number, role, status, reviews, revision, current, approved>>

\* GetProject answers members only; a project in review takes no calculation.
CalculateCheck(c) ==
    /\ call[c].step = "authorized" /\ call[c].op = "calculate"
    /\ HasPermission(call[c].user, "read")
    /\ status # "in_review"
    /\ Goto(c, "checked")
    /\ UNCHANGED <<number, role, status, reviews, revision, current, approved>>

\* The pipeline has run; the transaction inserts the configuration with the
\* number that follows the committed ones.
SaveInsert(c) ==
    /\ call[c].step = "checked"
    /\ number' = [number EXCEPT ![c] = NextRevision]
    /\ Goto(c, "saving")
    /\ UNCHANGED <<role, status, reviews, revision, current, approved>>

\* Mutant of SaveCommit: the index on (project, revision) is not unique.
SaveCommitUnchecked(c) ==
    /\ call[c].step = "saving"
    /\ revision' = [revision EXCEPT ![c] = number[c]]
    /\ current' = c
    /\ Goto(c, "done")
    /\ UNCHANGED <<number, role, status, reviews, approved>>

\* The unique index on (project, revision) lets one of two equal numbers in.
SaveCommit(c) ==
    /\ call[c].step = "saving"
    /\ \A d \in Calls : revision[d] # number[c]
    /\ revision' = [revision EXCEPT ![c] = number[c]]
    /\ current' = c
    /\ Goto(c, "done")
    /\ UNCHANGED <<number, role, status, reviews, approved>>

\* Mutant of RestoreConfiguration: the existence check is left out.
RestoreAnything(c, target) ==
    /\ call[c].step = "authorized" /\ call[c].op = "restore"
    /\ current' = target
    /\ Goto(c, "done")
    /\ UNCHANGED <<number, role, status, reviews, revision, approved>>

RestoreConfiguration(c, target) ==
    /\ call[c].step = "authorized" /\ call[c].op = "restore"
    /\ target \in Saved
    /\ current' = target
    /\ Goto(c, "done")
    /\ UNCHANGED <<number, role, status, reviews, revision, approved>>

\* Mutant of RequestReview: the status is read without FOR UPDATE, so that of
\* two requests both see the project open.
RequestReviewUnlocked(c) ==
    /\ call[c].step = "authorized" /\ call[c].op = "request_review"
    /\ status' = "in_review"
    /\ reviews' = Append(reviews, [requester |-> call[c].user, reviewer |-> None,
                                   decision |-> "requested"])
    /\ Goto(c, "done")
    /\ UNCHANGED <<number, role, revision, current, approved>>

\* SELECT ... FOR UPDATE makes the check of the status and both writes one step.
RequestReview(c) ==
    /\ call[c].step = "authorized" /\ call[c].op = "request_review"
    /\ status \in {"draft", "changes_requested"}
    /\ status' = "in_review"
    /\ reviews' = Append(reviews, [requester |-> call[c].user, reviewer |-> None,
                                   decision |-> "requested"])
    /\ Goto(c, "done")
    /\ UNCHANGED <<number, role, revision, current, approved>>

-----------------------------------------------------------------------------
(* Requests of the owner *)

\* Mutant of DecideReview: the row is not required to be pending.
DecideReviewAgain(u, i, verdict) ==
    /\ HasPermission(u, "manage")
    /\ reviews[i].requester # u
    /\ status = "in_review"
    /\ reviews' = [reviews EXCEPT ![i].reviewer = u, ![i].decision = verdict]
    /\ status' = verdict
    /\ UNCHANGED <<number, role, revision, current, approved, call>>

\* Mutant of DecideReview: any editor may decide.
DecideReviewByEditor(u, i, verdict) ==
    /\ HasPermission(u, "edit")
    /\ reviews[i].decision = "requested"
    /\ reviews[i].requester # u
    /\ status = "in_review"
    /\ reviews' = [reviews EXCEPT ![i].reviewer = u, ![i].decision = verdict]
    /\ status' = verdict
    /\ UNCHANGED <<number, role, revision, current, approved, call>>

\* Signs a review off or sends the project back.  The row must still be
\* pending, the project in review, and the author of the request may not decide.
DecideReview(u, i, verdict) ==
    /\ HasPermission(u, "manage")
    /\ reviews[i].decision = "requested"
    /\ reviews[i].requester # u
    /\ status = "in_review"
    /\ reviews' = [reviews EXCEPT ![i].reviewer = u, ![i].decision = verdict]
    /\ status' = verdict
    /\ UNCHANGED <<number, role, revision, current, approved, call>>

\* UNIQUE (configuration_id): a configuration is approved once.
ApproveConfiguration(u, c) ==
    /\ HasPermission(u, "manage")
    /\ c \in Saved \ approved
    /\ approved' = approved \union {c}
    /\ UNCHANGED <<number, role, status, reviews, revision, current, call>>

\* The partial unique index on role = 'owner' refuses a second owner.
OwnerIndexAdmits(r) == r = "owner" => \A u \in Users : role[u] # "owner"

AddMember(u, v, r) ==
    /\ HasPermission(u, "manage")
    /\ role[v] = "none"
    /\ OwnerIndexAdmits(r)
    /\ role' = [role EXCEPT ![v] = r]
    /\ UNCHANGED <<number, status, reviews, revision, current, approved, call>>

\* Mutant of UpdateMemberRole: the owner's row is not excluded.
UpdateAnyRole(u, v, r) ==
    /\ HasPermission(u, "manage")
    /\ role[v] # "none"
    /\ OwnerIndexAdmits(r)
    /\ role' = [role EXCEPT ![v] = r]
    /\ UNCHANGED <<number, status, reviews, revision, current, approved, call>>

UpdateMemberRole(u, v, r) ==
    /\ HasPermission(u, "manage")
    /\ role[v] \notin {"none", "owner"}
    /\ OwnerIndexAdmits(r)
    /\ role' = [role EXCEPT ![v] = r]
    /\ UNCHANGED <<number, status, reviews, revision, current, approved, call>>

RemoveMember(u, v) ==
    /\ HasPermission(u, "manage")
    /\ role[v] \notin {"none", "owner"}
    /\ role' = [role EXCEPT ![v] = "none"]
    /\ UNCHANGED <<number, status, reviews, revision, current, approved, call>>

-----------------------------------------------------------------------------
EditorRequest(c) ==
    \/ \E u \in Users, op \in Operation : Authorize(c, u, op)
    \/ Fail(c)
    \/ CalculateCheck(c)
    \/ SaveInsert(c)
    \/ SaveCommit(c)
    \/ \E target \in Calls : RestoreConfiguration(c, target)
    \/ RequestReview(c)

OwnerRequest(u) ==
    \/ \E i \in 1..Len(reviews), verdict \in Verdict : DecideReview(u, i, verdict)
    \/ \E c \in Calls : ApproveConfiguration(u, c)
    \/ \E v \in Users, r \in Role : AddMember(u, v, r) \/ UpdateMemberRole(u, v, r)
    \/ \E v \in Users : RemoveMember(u, v)

Next ==
    \/ \E c \in Calls : EditorRequest(c)
    \/ \E u \in Users : OwnerRequest(u)

Spec == Init /\ [][Next]_vars

-----------------------------------------------------------------------------
(* Properties *)

\* The type of the state: one row per user, review, configuration and request.
TypeOK ==
    /\ role \in [Users -> Role \union {"none"}]
    /\ status \in ProjectStatus
    /\ reviews \in Seq(Review)
    /\ revision \in [Calls -> Nat]
    /\ current \in Calls \union {None}
    /\ approved \subseteq Calls
    /\ call \in [Calls -> Call]
    /\ number \in [Calls -> Nat]

\* Whatever members are added, changed and removed, the project has exactly
\* one owner, and it is its creator (the partial index and the owner guards of
\* UpdateMemberRole and RemoveMember).
OneOwner == \A u \in Users : role[u] = "owner" <=> u = Creator

\* However saves overlap, the committed configurations are numbered 1, 2, 3...
\* without a gap or a repetition (SaveCalculationWithConfig and its index).
RevisionsDense ==
    /\ {revision[c] : c \in Saved} = 1..Cardinality(Saved)
    /\ \A c, d \in Saved : revision[c] = revision[d] => c = d

\* The status of the project is what its reviews say: every review but the
\* last was sent back, and the last one decides between draft, in review,
\* approved and sent back (RequestReview and DecideReview write two tables).
StatusFollowsReviews ==
    /\ \A i \in 1..Len(reviews) - 1 : reviews[i].decision = "changes_requested"
    /\ status = IF reviews = <<>> THEN "draft"
                ELSE IF reviews[Len(reviews)].decision = "requested" THEN "in_review"
                ELSE reviews[Len(reviews)].decision

\* Four eyes: a decided review was decided by the project's owner, who did not
\* ask for it, even when roles changed between the request and the decision.
DecidedByAnother ==
    \A i \in 1..Len(reviews) :
        reviews[i].decision # "requested" =>
            /\ reviews[i].reviewer = Creator
            /\ reviews[i].requester # Creator

\* Owner, reviews and status of a project agree, through every change of members.
ReviewsAreSafe == TypeOK /\ OneOwner /\ StatusFollowsReviews /\ DecidedByAnother

\* The current configuration is a saved one, and there is one as soon as any
\* configuration is saved (SaveCalculationWithConfig and RestoreConfiguration).
CurrentIsSaved ==
    IF Saved = {} THEN current = None ELSE current \in Saved

\* The revisions are numbered without a gap and one of them is current.
RevisionsAreKept == RevisionsDense /\ CurrentIsSaved

\* Nothing rewrites the history: a saved revision keeps its number, a decided
\* review its decision, and an approved project stays approved.
HistoryKept ==
    [][/\ \A c \in Saved : revision'[c] = revision[c]
       /\ \A i \in 1..Len(reviews) :
             reviews[i].decision # "requested" => reviews'[i] = reviews[i]
       /\ status = "approved" => status' = "approved"]_vars

\* The configuration is frozen while a review is open: what the reviewer looks
\* at stays the current configuration until the decision (the check in Calculate).
FrozenInReview ==
    [][status = "in_review" /\ status' = "in_review" => current' = current]_vars
=============================================================================
