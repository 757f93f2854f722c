---------------------------- MODULE ProjectProofs ----------------------------
(***************************************************************************)
(* Proofs about projects: reviews and revisions (ProjectReview), for any   *)
(* set of users and any number of overlapping requests, and the routes     *)
(* (ProjectApi), for any people, requests and rows.                        *)
(***************************************************************************)
EXTENDS ProjectReview, ProjectApi, FiniteSetTheorems, TLAPS

-----------------------------------------------------------------------------
(* Reviews and revisions.  The inductive invariant is Consistent: the shape *)
(* of the tables, the three safety properties, and two facts about          *)
(* requests: an authorised request has a user, and a configuration is       *)
(* saved by a request that is over.                                         *)

\* The shape of the state the arguments below rest on.
Shape ==
    /\ role \in [Users -> Role \union {"none"}]
    /\ reviews \in Seq(Review)
    /\ revision = [c \in Calls |-> revision[c]]
    /\ call \in [Calls -> Call]

\* A request past its authorisation knows who made it.
RequestHasUser == \A c \in Calls : call[c].step # "idle" => call[c].user \in Users

\* A configuration is saved by the last step of its request.
SavedIsDone == \A c \in Calls : revision[c] # 0 => call[c].step = "done"

Consistent ==
    /\ Shape
    /\ RequestHasUser
    /\ SavedIsDone
    /\ OneOwner
    /\ StatusFollowsReviews
    /\ DecidedByAnother

-----------------------------------------------------------------------------
\* Moving one request on keeps the table of requests well formed.
LEMMA GotoShape ==
    ASSUME call \in [Calls -> Call], NEW c \in Calls, NEW s \in Step, Goto(c, s)
    PROVE  /\ call' \in [Calls -> Call]
           /\ call'[c].step = s
           /\ call'[c].user = call[c].user
           /\ \A d \in Calls \ {c} : call'[d] = call[d]
<1>1. call' = [call EXCEPT ![c] = [call[c] EXCEPT !.step = s]]
  BY DEF Goto
<1>2. call[c] \in Call
  OBVIOUS
<1> DEFINE r == [call[c] EXCEPT !.step = s]
<1>3. r \in Call /\ r.step = s /\ r.user = call[c].user
  BY <1>2 DEF Call
<1> HIDE DEF r
<1>4. call' = [call EXCEPT ![c] = r]
  BY <1>1 DEF r
<1> QED
  BY <1>3, <1>4

\* A step of a request that leaves the revisions alone keeps the facts about
\* requests.
LEMMA GotoRequests ==
    ASSUME Shape, RequestHasUser, SavedIsDone, NEW c \in Calls, NEW s \in Step,
           call[c].step \notin {"idle", "done"}, Goto(c, s), revision' = revision
    PROVE  /\ call' \in [Calls -> Call]
           /\ RequestHasUser'
           /\ SavedIsDone'
<1> USE DEF Shape
<1>1. /\ call' \in [Calls -> Call]
      /\ call'[c].step = s
      /\ call'[c].user = call[c].user
      /\ \A d \in Calls \ {c} : call'[d] = call[d]
  BY GotoShape
<1>2. RequestHasUser'
  BY <1>1 DEF RequestHasUser
<1>3. SavedIsDone'
  BY <1>1 DEF SavedIsDone
<1> QED
  BY <1>1, <1>2, <1>3

\* What the properties say of the tables depends on nothing else.
LEMMA TablesUnchanged ==
    ASSUME Consistent, UNCHANGED <<role, status, reviews>>
    PROVE  OneOwner' /\ StatusFollowsReviews' /\ DecidedByAnother'
BY DEF Consistent, OneOwner, StatusFollowsReviews, DecidedByAnother

THEOREM InitConsistent == Init => Consistent
<1> SUFFICES ASSUME Init PROVE Consistent
  OBVIOUS
<1> USE DEF Init
<1>1. Idle \in Call
  BY DEF Idle, Call, Step
<1>2. Shape
  BY <1>1 DEF Shape, Role
<1>3. RequestHasUser /\ SavedIsDone
  BY DEF RequestHasUser, SavedIsDone, Idle
<1>4. OneOwner
  BY DEF OneOwner
<1>5. StatusFollowsReviews /\ DecidedByAnother
  BY DEF StatusFollowsReviews, DecidedByAnother
<1> QED
  BY <1>2, <1>3, <1>4, <1>5 DEF Consistent

-----------------------------------------------------------------------------
(* Requests of editors *)

LEMMA AuthorizeStep ==
    ASSUME Consistent, NEW c \in Calls, NEW u \in Users, NEW op \in Operation,
           Authorize(c, u, op)
    PROVE  Consistent'
<1> DEFINE r == [step |-> "authorized", op |-> op, user |-> u]
<1>1. r \in Call /\ r.step = "authorized" /\ r.user = u
  BY DEF Call, Step
<1> HIDE DEF r
<1>2. call' = [call EXCEPT ![c] = r]
  BY DEF Authorize, r
<1>3. Shape'
  BY <1>1, <1>2 DEF Shape, Consistent, Authorize
<1>4. RequestHasUser'
  BY <1>1, <1>2 DEF RequestHasUser, Shape, Consistent
<1>5. revision[c] = 0
  BY DEF Authorize, Consistent, SavedIsDone
<1>6. SavedIsDone'
  BY <1>1, <1>2, <1>5 DEF SavedIsDone, Shape, Consistent, Authorize
<1>7. OneOwner' /\ StatusFollowsReviews' /\ DecidedByAnother'
  BY TablesUnchanged DEF Authorize
<1> QED
  BY <1>3, <1>4, <1>6, <1>7 DEF Consistent

\* A step that only moves its request on.
LEMMA QuietStep ==
    ASSUME Consistent, NEW c \in Calls, NEW s \in Step,
           call[c].step \notin {"idle", "done"}, Goto(c, s),
           UNCHANGED <<role, status, reviews, revision>>
    PROVE  Consistent'
<1>1. call' \in [Calls -> Call] /\ RequestHasUser' /\ SavedIsDone'
  BY GotoRequests DEF Consistent
<1>2. Shape'
  BY <1>1 DEF Shape, Consistent
<1>3. OneOwner' /\ StatusFollowsReviews' /\ DecidedByAnother'
  BY TablesUnchanged
<1> QED
  BY <1>1, <1>2, <1>3 DEF Consistent

LEMMA SaveCommitStep ==
    ASSUME Consistent, NEW c \in Calls, SaveCommit(c)
    PROVE  Consistent'
<1>1. /\ call' \in [Calls -> Call]
      /\ call'[c].step = "done"
      /\ call'[c].user = call[c].user
      /\ \A d \in Calls \ {c} : call'[d] = call[d]
  BY GotoShape DEF SaveCommit, Step, Consistent, Shape
<1>2. /\ revision' = [d \in Calls |-> revision'[d]]
      /\ \A d \in Calls \ {c} : revision'[d] = revision[d]
  BY DEF SaveCommit, Consistent, Shape
<1>3. Shape'
  BY <1>1, <1>2 DEF Shape, Consistent, SaveCommit
<1>4. RequestHasUser'
  BY <1>1 DEF RequestHasUser, Consistent, SaveCommit
<1>5. SavedIsDone'
  BY <1>1, <1>2 DEF SavedIsDone, Consistent
<1>6. OneOwner' /\ StatusFollowsReviews' /\ DecidedByAnother'
  BY TablesUnchanged DEF SaveCommit
<1> QED
  BY <1>3, <1>4, <1>5, <1>6 DEF Consistent

LEMMA RequestReviewStep ==
    ASSUME Consistent, NEW c \in Calls, RequestReview(c)
    PROVE  Consistent'
<1> DEFINE r == [requester |-> call[c].user, reviewer |-> None, decision |-> "requested"]
<1>1. call[c].user \in Users
  BY DEF Consistent, RequestHasUser, RequestReview
<1>2. r \in Review /\ r.decision = "requested"
  BY <1>1 DEF Review
<1> HIDE DEF r
<1>3. reviews' = Append(reviews, r) /\ reviews \in Seq(Review)
  BY DEF RequestReview, r, Consistent, Shape
<1>4. /\ reviews' \in Seq(Review)
      /\ Len(reviews) \in Nat
      /\ Len(reviews') = Len(reviews) + 1
      /\ reviews'[Len(reviews) + 1] = r
      /\ \A i \in 1..Len(reviews) : reviews'[i] = reviews[i]
      /\ reviews' # <<>>
  BY <1>2, <1>3
<1>5. call' \in [Calls -> Call] /\ RequestHasUser' /\ SavedIsDone'
  BY GotoRequests DEF Consistent, RequestReview, Step
<1>6. Shape'
  BY <1>4, <1>5 DEF Shape, Consistent, RequestReview
<1>7. OneOwner'
  BY DEF OneOwner, Consistent, RequestReview
<1>8. \A i \in 1..Len(reviews) : reviews[i].decision = "changes_requested"
  <2>1. status \in {"draft", "changes_requested"}
    BY DEF RequestReview
  <2>2. CASE reviews = <<>>
    BY <2>2, <1>4
  <2>3. CASE reviews # <<>>
    <3>1. Len(reviews) >= 1
      BY <2>3, <1>3
    <3>a. reviews[Len(reviews)] \in Review
      BY <3>1, <1>3, <1>4
    <3>2. reviews[Len(reviews)].decision \in {"requested"} \union Verdict
      BY <3>a DEF Review
    <3>3. reviews[Len(reviews)].decision = "changes_requested"
      BY <2>1, <2>3, <3>2 DEF Consistent, StatusFollowsReviews, Verdict
    <3>4. \A i \in 1..Len(reviews) - 1 : reviews[i].decision = "changes_requested"
      BY DEF Consistent, StatusFollowsReviews
    <3> QED
      BY <3>1, <3>3, <3>4, <1>4
  <2> QED
    BY <2>2, <2>3
<1>9. StatusFollowsReviews'
  <2>1. \A i \in 1..Len(reviews') - 1 : reviews'[i].decision = "changes_requested"
    BY <1>4, <1>8
  <2>2. reviews'[Len(reviews')].decision = "requested" /\ status' = "in_review"
    BY <1>2, <1>4 DEF RequestReview
  <2> QED
    BY <2>1, <2>2, <1>4 DEF StatusFollowsReviews
<1>10. DecidedByAnother'
  BY <1>2, <1>4 DEF DecidedByAnother, Consistent
<1> QED
  BY <1>5, <1>6, <1>7, <1>9, <1>10 DEF Consistent

-----------------------------------------------------------------------------
(* Requests of the owner *)

\* What a decision does to the sequence of reviews.
LEMMA DecideReviews ==
    ASSUME Consistent, NEW u \in Users, NEW i \in 1..Len(reviews),
           NEW verdict \in Verdict, DecideReview(u, i, verdict)
    PROVE  /\ reviews' \in Seq(Review)
           /\ Len(reviews') = Len(reviews)
           /\ Len(reviews) \in Nat
           /\ reviews'[i].reviewer = u
           /\ reviews'[i].decision = verdict
           /\ reviews'[i].requester = reviews[i].requester
           /\ \A j \in 1..Len(reviews) : j # i => reviews'[j] = reviews[j]
           /\ i = Len(reviews)
<1> DEFINE r == [reviews[i] EXCEPT !.reviewer = u, !.decision = verdict]
<1>1. reviews \in Seq(Review) /\ Len(reviews) \in Nat
  BY DEF Consistent, Shape
<1>2. reviews[i] \in Review
  BY <1>1
<1>3. /\ r \in Review
      /\ r.reviewer = u
      /\ r.decision = verdict
      /\ r.requester = reviews[i].requester
  BY <1>2 DEF Review
<1> HIDE DEF r
<1>4. reviews' = [reviews EXCEPT ![i] = r]
  BY DEF DecideReview, r
<1>5. /\ reviews' \in Seq(Review)
      /\ Len(reviews') = Len(reviews)
      /\ reviews'[i] = r
      /\ \A j \in 1..Len(reviews) : j # i => reviews'[j] = reviews[j]
  BY <1>1, <1>3, <1>4
<1>6. reviews[i].decision # "changes_requested"
  BY DEF DecideReview
<1>7. i = Len(reviews)
  BY <1>1, <1>6 DEF Consistent, StatusFollowsReviews
<1> QED
  BY <1>1, <1>3, <1>5, <1>7

LEMMA DecideReviewStep ==
    ASSUME Consistent, NEW u \in Users, NEW i \in 1..Len(reviews),
           NEW verdict \in Verdict, DecideReview(u, i, verdict)
    PROVE  Consistent'
<1>1. /\ reviews' \in Seq(Review)
      /\ Len(reviews') = Len(reviews)
      /\ Len(reviews) \in Nat
      /\ reviews'[i].reviewer = u
      /\ reviews'[i].decision = verdict
      /\ reviews'[i].requester = reviews[i].requester
      /\ \A j \in 1..Len(reviews) : j # i => reviews'[j] = reviews[j]
      /\ i = Len(reviews)
  BY DecideReviews
<1>2. Shape' /\ RequestHasUser' /\ SavedIsDone' /\ OneOwner'
  BY <1>1 DEF Consistent, Shape, RequestHasUser, SavedIsDone, OneOwner, DecideReview
<1>3. role[u] = "owner"
  BY DEF DecideReview, HasPermission, Permissions
<1>4. u = Creator /\ reviews[i].requester # Creator
  BY <1>3 DEF Consistent, OneOwner, DecideReview
<1>5. DecidedByAnother'
  BY <1>1, <1>4 DEF Consistent, DecidedByAnother
<1>6. StatusFollowsReviews'
  <2>1. \A j \in 1..Len(reviews') - 1 : reviews'[j].decision = "changes_requested"
    BY <1>1 DEF Consistent, StatusFollowsReviews
  <2>2. reviews' # <<>>
    BY <1>1
  <2>3. reviews'[Len(reviews')].decision = verdict /\ verdict # "requested"
    BY <1>1 DEF Verdict
  <2>4. status' = verdict
    BY DEF DecideReview
  <2> QED
    BY <2>1, <2>2, <2>3, <2>4 DEF StatusFollowsReviews
<1> QED
  BY <1>2, <1>5, <1>6 DEF Consistent

\* A change of members touches only one row, which is not the owner's.
LEMMA MemberStep ==
    ASSUME Consistent, NEW v \in Users, NEW r \in Role \union {"none"},
           role[v] # "owner", r # "owner", role' = [role EXCEPT ![v] = r],
           UNCHANGED <<status, reviews, revision, call>>
    PROVE  Consistent'
<1>1. Shape'
  BY DEF Consistent, Shape
<1>2. OneOwner'
  BY DEF Consistent, Shape, OneOwner
<1>3. RequestHasUser' /\ SavedIsDone' /\ StatusFollowsReviews' /\ DecidedByAnother'
  BY DEF Consistent, RequestHasUser, SavedIsDone, StatusFollowsReviews, DecidedByAnother
<1> QED
  BY <1>1, <1>2, <1>3 DEF Consistent

\* The index admits no further owner, since the project always has one.
LEMMA NoSecondOwner ==
    ASSUME Consistent, NEW r, OwnerIndexAdmits(r)
    PROVE  r # "owner"
BY CreatorAssumption DEF Consistent, OneOwner, OwnerIndexAdmits

-----------------------------------------------------------------------------
LEMMA EditorRequestStep ==
    ASSUME Consistent, NEW c \in Calls, EditorRequest(c)
    PROVE  Consistent'
<1>1. ASSUME NEW u \in Users, NEW op \in Operation, Authorize(c, u, op)
      PROVE  Consistent'
  BY <1>1, AuthorizeStep
<1>2. CASE Fail(c)
  BY <1>2, QuietStep DEF Fail, Step
<1>3. CASE CalculateCheck(c)
  BY <1>3, QuietStep DEF CalculateCheck, Step
<1>4. CASE SaveInsert(c)
  BY <1>4, QuietStep DEF SaveInsert, Step
<1>5. CASE SaveCommit(c)
  BY <1>5, SaveCommitStep
<1>6. ASSUME NEW target \in Calls, RestoreConfiguration(c, target)
      PROVE  Consistent'
  BY <1>6, QuietStep DEF RestoreConfiguration, Step
<1>7. CASE RequestReview(c)
  BY <1>7, RequestReviewStep
<1> QED
  BY <1>1, <1>2, <1>3, <1>4, <1>5, <1>6, <1>7 DEF EditorRequest

LEMMA OwnerRequestStep ==
    ASSUME Consistent, NEW u \in Users, OwnerRequest(u)
    PROVE  Consistent'
<1>1. ASSUME NEW i \in 1..Len(reviews), NEW verdict \in Verdict,
             DecideReview(u, i, verdict)
      PROVE  Consistent'
  BY <1>1, DecideReviewStep
<1>2. ASSUME NEW c \in Calls, ApproveConfiguration(u, c)
      PROVE  Consistent'
  BY <1>2 DEF ApproveConfiguration, Consistent, Shape, RequestHasUser, SavedIsDone,
              OneOwner, StatusFollowsReviews, DecidedByAnother
<1>3. ASSUME NEW v \in Users, NEW r \in Role, AddMember(u, v, r)
      PROVE  Consistent'
  <2>1. r # "owner"
    BY <1>3, NoSecondOwner DEF AddMember
  <2> QED
    BY <1>3, <2>1, MemberStep DEF AddMember
<1>4. ASSUME NEW v \in Users, NEW r \in Role, UpdateMemberRole(u, v, r)
      PROVE  Consistent'
  <2>1. r # "owner"
    BY <1>4, NoSecondOwner DEF UpdateMemberRole
  <2> QED
    BY <1>4, <2>1, MemberStep DEF UpdateMemberRole
<1>5. ASSUME NEW v \in Users, RemoveMember(u, v)
      PROVE  Consistent'
  BY <1>5, MemberStep DEF RemoveMember
<1> QED
  BY <1>1, <1>2, <1>3, <1>4, <1>5 DEF OwnerRequest

\* Every step of the project preserves Consistent.
THEOREM NextConsistent == Consistent /\ [Next]_vars => Consistent'
<1> SUFFICES ASSUME Consistent, [Next]_vars PROVE Consistent'
  OBVIOUS
<1>1. CASE Next
  BY <1>1, EditorRequestStep, OwnerRequestStep DEF Next
<1>2. CASE UNCHANGED vars
  BY <1>2 DEF vars, Consistent, Shape, RequestHasUser, SavedIsDone, OneOwner,
              StatusFollowsReviews, DecidedByAnother
<1> QED
  BY <1>1, <1>2

\* Consistent holds in every reachable state of the project.
THEOREM AlwaysConsistent == Spec => []Consistent
BY InitConsistent, NextConsistent, PTL DEF Spec

\* The project keeps exactly one owner, its creator, whatever members are
\* added, changed and removed.
THEOREM OneOwnerHolds == Spec => []OneOwner
<1>1. Consistent => OneOwner
  BY DEF Consistent
<1> QED
  BY <1>1, AlwaysConsistent, PTL

\* The project's status agrees with its reviews at all times, for any number of
\* overlapping requests and decisions.
THEOREM StatusFollowsReviewsHolds == Spec => []StatusFollowsReviews
<1>1. Consistent => StatusFollowsReviews
  BY DEF Consistent
<1> QED
  BY <1>1, AlwaysConsistent, PTL

\* A review is only ever decided by the owner, and never by its author.
THEOREM DecidedByAnotherHolds == Spec => []DecidedByAnother
<1>1. Consistent => DecidedByAnother
  BY DEF Consistent
<1> QED
  BY <1>1, AlwaysConsistent, PTL

-----------------------------------------------------------------------------
(* The history *)

\* What HistoryKept allows a step to do.
KeepsHistory ==
    /\ \A c \in Saved : revision'[c] = revision[c]
    /\ \A i \in 1..Len(reviews) :
          reviews[i].decision # "requested" => reviews'[i] = reviews[i]
    /\ status = "approved" => status' = "approved"

\* A step of an editor's request keeps the history.
LEMMA EditorKeepsHistory ==
    ASSUME Consistent, NEW c \in Calls, EditorRequest(c)
    PROVE  KeepsHistory
<1>1. CASE UNCHANGED <<status, reviews, revision>>
  BY <1>1 DEF KeepsHistory
<1>2. CASE SaveCommit(c)
  <2>1. revision[c] = 0
    BY <1>2 DEF SaveCommit, Consistent, SavedIsDone
  <2>2. \A d \in Saved : revision'[d] = revision[d]
    BY <1>2, <2>1 DEF SaveCommit, Saved, Consistent, Shape
  <2> QED
    BY <1>2, <2>2 DEF SaveCommit, KeepsHistory
<1>3. CASE RequestReview(c)
  <2> DEFINE r == [requester |-> call[c].user, reviewer |-> None,
                   decision |-> "requested"]
  <2>1. reviews' = Append(reviews, r) /\ reviews \in Seq(Review)
    BY <1>3 DEF RequestReview, Consistent, Shape
  <2>2. r \in Review
    BY <1>3 DEF Review, RequestReview, Consistent, RequestHasUser
  <2> HIDE DEF r
  <2>3. \A i \in 1..Len(reviews) : reviews'[i] = reviews[i]
    BY <2>1, <2>2
  <2> QED
    BY <1>3, <2>3 DEF RequestReview, KeepsHistory
<1> QED
  BY <1>1, <1>2, <1>3 DEF EditorRequest, Authorize, Fail, CalculateCheck, SaveInsert,
                          RestoreConfiguration

\* A step of the owner's request keeps the history.
LEMMA OwnerKeepsHistory ==
    ASSUME Consistent, NEW u \in Users, OwnerRequest(u)
    PROVE  KeepsHistory
<1>1. CASE UNCHANGED <<status, reviews, revision>>
  BY <1>1 DEF KeepsHistory
<1>2. ASSUME NEW i \in 1..Len(reviews), NEW verdict \in Verdict,
             DecideReview(u, i, verdict)
      PROVE  KeepsHistory
  <2>1. \A j \in 1..Len(reviews) : j # i => reviews'[j] = reviews[j]
    BY <1>2, DecideReviews
  <2>2. reviews[i].decision = "requested"
    BY <1>2 DEF DecideReview
  <2> QED
    BY <1>2, <2>1, <2>2 DEF DecideReview, KeepsHistory
<1> QED
  BY <1>1, <1>2 DEF OwnerRequest, ApproveConfiguration, AddMember, UpdateMemberRole,
                    RemoveMember

\* No step rewrites a saved revision, a decided review or an approval of the
\* project.
THEOREM HistoryKeptHolds == Spec => HistoryKept
<1>1. Consistent /\ [Next]_vars => [KeepsHistory]_vars
  BY EditorKeepsHistory, OwnerKeepsHistory DEF Next
<1>2. HistoryKept <=> [][KeepsHistory]_vars
  BY DEF HistoryKept, KeepsHistory
<1> QED
  BY <1>1, <1>2, AlwaysConsistent, PTL DEF Spec
-----------------------------------------------------------------------------
(* The numbering *)

\* While a save is open its number is at most the next one: others may commit
\* meanwhile and use it up, but no gap opens below it.
Numbering ==
    /\ revision \in [Calls -> Nat]
    /\ number \in [Calls -> Nat]
    /\ RevisionsDense
    /\ \A c \in Calls :
          call[c].step = "saving" => number[c] \in 1..(Cardinality(Saved) + 1)
    /\ CurrentIsSaved

LEMMA SavedFinite ==
    /\ IsFiniteSet(Saved)
    /\ Cardinality(Saved) \in Nat
    /\ Cardinality(Calls) \in Nat
    /\ Cardinality(Saved) <= Cardinality(Calls)
BY CallsAssumption, FS_Subset, FS_CardinalityType DEF Saved

\* MAX(revision) + 1 of a dense numbering is the number of revisions plus one.
LEMMA NextRevisionIs ==
    ASSUME revision \in [Calls -> Nat], RevisionsDense
    PROVE  NextRevision = Cardinality(Saved) + 1
<1> DEFINE K == Cardinality(Saved)
           P(n) == /\ \A c \in Calls : revision[c] < n
                   /\ n = 1 \/ \E c \in Calls : revision[c] = n - 1
           S == 1..(Cardinality(Calls) + 1)
<1>1. K \in Nat /\ K + 1 \in S
  BY SavedFinite
<1>2. \A c \in Saved : revision[c] \in 1..K
  BY DEF RevisionsDense
<1>3. \A n \in 1..K : \E c \in Calls : revision[c] = n
  BY DEF RevisionsDense, Saved
<1>4. \A c \in Calls : revision[c] \in 0..K
  BY <1>1, <1>2 DEF Saved
<1>5. P(K + 1)
  BY <1>1, <1>3, <1>4
<1>6. \A n \in S : P(n) => n = K + 1
  BY <1>1, <1>3, <1>4
<1> HIDE DEF P, K, S
<1>7. (CHOOSE n \in S : P(n)) \in S /\ P(CHOOSE n \in S : P(n))
  BY <1>1, <1>5
<1>8. NextRevision = CHOOSE n \in S : P(n)
  BY DEF NextRevision, P, S
<1> QED
  BY <1>6, <1>7, <1>8 DEF K

\* A step that commits nothing and opens no save keeps the numbering.
LEMMA QuietNumbering ==
    ASSUME Numbering, UNCHANGED <<revision, number>>,
           \A c \in Calls : call'[c].step = "saving" => call[c].step = "saving",
           current' = current \/ current' \in Saved
    PROVE  Numbering'
<1>1. Saved' = Saved
  BY DEF Saved
<1> QED
  BY <1>1 DEF Numbering, RevisionsDense, CurrentIsSaved

\* The insert takes the number that follows the committed ones.
LEMMA InsertNumbering ==
    ASSUME Consistent, Numbering, NEW c \in Calls, SaveInsert(c)
    PROVE  Numbering'
<1>1. Saved' = Saved
  BY DEF Saved, SaveInsert
<1>2. number' = [number EXCEPT ![c] = Cardinality(Saved) + 1]
  BY NextRevisionIs DEF SaveInsert, Numbering
<1>3. \A d \in Calls \ {c} : call'[d] = call[d]
  BY DEF SaveInsert, Goto, Consistent, Shape
<1>4. number' \in [Calls -> Nat]
  BY <1>2, SavedFinite DEF Numbering
<1>5. \A d \in Calls : call'[d].step = "saving" => number'[d] \in 1..(Cardinality(Saved) + 1)
  BY <1>2, <1>3, SavedFinite DEF Numbering
<1> QED
  BY <1>1, <1>4, <1>5 DEF Numbering, RevisionsDense, CurrentIsSaved, SaveInsert

\* The unique index lets the number in only if it is the next one still.
LEMMA CommitNumbering ==
    ASSUME Consistent, Numbering, NEW c \in Calls, SaveCommit(c)
    PROVE  Numbering'
<1> DEFINE K == Cardinality(Saved)
<1>1. K \in Nat /\ number[c] \in 1..(K + 1)
  BY SavedFinite DEF SaveCommit, Numbering
<1>2. {revision[d] : d \in Saved} = 1..K
  BY DEF Numbering, RevisionsDense
<1>3. number[c] \notin 1..K
  BY <1>2 DEF SaveCommit, Saved
<1>4. number[c] = K + 1
  BY <1>1, <1>3
<1>5. revision' = [revision EXCEPT ![c] = K + 1] /\ c \notin Saved
  BY <1>4 DEF SaveCommit, Consistent, SavedIsDone, Saved
<1>6. revision' \in [Calls -> Nat] /\ Saved' = Saved \union {c}
  <2>1. revision' \in [Calls -> Nat]
    BY <1>1, <1>5 DEF Numbering
  <2>2. revision'[c] # 0 /\ \A d \in Calls \ {c} : revision'[d] = revision[d]
    BY <1>1, <1>5 DEF Numbering
  <2>3. \A d \in Calls : d \in Saved' <=> d = c \/ d \in Saved
    BY <1>1, <2>2 DEF Saved
  <2> QED
    BY <2>1, <2>3 DEF Saved
<1>7. Cardinality(Saved') = K + 1
  BY <1>5, <1>6, SavedFinite, FS_AddElement
<1>8. \A d \in Saved : revision'[d] = revision[d]
  BY <1>5 DEF Numbering, Saved
<1>9. revision'[c] = K + 1
  BY <1>5 DEF Numbering
<1>10. {revision'[d] : d \in Saved'} = {revision[d] : d \in Saved} \union {K + 1}
  BY <1>6, <1>8, <1>9
<1>11. {revision'[d] : d \in Saved'} = 1..(K + 1)
  BY <1>1, <1>2, <1>10
<1>12. \A d \in Saved : revision[d] \in 1..K
  BY <1>2
<1>13. \A d, e \in Saved' : revision'[d] = revision'[e] => d = e
  BY <1>1, <1>6, <1>8, <1>9, <1>12 DEF Numbering, RevisionsDense
<1>14. RevisionsDense'
  BY <1>7, <1>11, <1>13 DEF RevisionsDense
<1>15. \A d \in Calls \ {c} : call'[d] = call[d]
  BY DEF SaveCommit, Goto, Consistent, Shape
<1>16. call'[c].step = "done"
  BY GotoShape DEF SaveCommit, Consistent, Shape, Step
<1>17. \A d \in Calls : call'[d].step = "saving" => number'[d] \in 1..(Cardinality(Saved') + 1)
  BY <1>1, <1>7, <1>15, <1>16 DEF SaveCommit, Numbering
<1>18. CurrentIsSaved'
  BY <1>6 DEF CurrentIsSaved, SaveCommit
<1> QED
  BY <1>6, <1>14, <1>17, <1>18 DEF Numbering, SaveCommit

LEMMA EditorNumbering ==
    ASSUME Consistent, Numbering, NEW c \in Calls, EditorRequest(c)
    PROVE  Numbering'
<1> USE DEF Consistent, Shape, Step
<1>1. ASSUME NEW u \in Users, NEW op \in Operation, Authorize(c, u, op)
      PROVE  Numbering'
  BY <1>1, QuietNumbering DEF Authorize
<1>2. ASSUME NEW s \in Step \ {"saving"}, Goto(c, s), UNCHANGED <<revision, number>>,
             current' = current \/ current' \in Saved
      PROVE  Numbering'
  BY <1>2, GotoShape, QuietNumbering
<1>3. CASE Fail(c)
  BY <1>2, <1>3 DEF Fail
<1>4. CASE CalculateCheck(c)
  BY <1>2, <1>4 DEF CalculateCheck
<1>5. ASSUME NEW target \in Calls, RestoreConfiguration(c, target) PROVE Numbering'
  BY <1>2, <1>5 DEF RestoreConfiguration
<1>6. CASE RequestReview(c)
  BY <1>2, <1>6 DEF RequestReview
<1> QED
  BY <1>1, <1>3, <1>4, <1>5, <1>6, InsertNumbering, CommitNumbering DEF EditorRequest

LEMMA NextNumbering == Consistent /\ Numbering /\ [Next]_vars => Numbering'
<1> SUFFICES ASSUME Consistent, Numbering, [Next]_vars PROVE Numbering'
  OBVIOUS
<1>1. ASSUME NEW u \in Users, OwnerRequest(u) PROVE Numbering'
  BY <1>1, QuietNumbering DEF OwnerRequest, DecideReview, ApproveConfiguration, AddMember,
                              UpdateMemberRole, RemoveMember
<1>2. CASE UNCHANGED vars
  BY <1>2, QuietNumbering DEF vars
<1> QED
  BY <1>1, <1>2, EditorNumbering DEF Next

LEMMA InitNumbering == Init => Numbering
<1> SUFFICES ASSUME Init PROVE Numbering
  OBVIOUS
<1>1. Saved = {} /\ Cardinality(Saved) = 0
  BY FS_EmptySet DEF Init, Saved
<1>2. RevisionsDense
  BY <1>1 DEF RevisionsDense
<1>3. \A c \in Calls : call[c].step = "idle"
  BY DEF Init, Idle
<1> QED
  BY <1>1, <1>2, <1>3 DEF Init, Numbering, CurrentIsSaved

THEOREM AlwaysNumbering == Spec => []Numbering
BY InitNumbering, NextNumbering, AlwaysConsistent, PTL DEF Spec

\* However saves overlap, the committed revisions are numbered without a gap or
\* a repetition.
THEOREM RevisionsDenseHolds == Spec => []RevisionsDense
<1>1. Numbering => RevisionsDense
  BY DEF Numbering
<1> QED
  BY <1>1, AlwaysNumbering, PTL

\* The current configuration is a saved one as soon as there is any.
THEOREM CurrentIsSavedHolds == Spec => []CurrentIsSaved
<1>1. Numbering => CurrentIsSaved
  BY DEF Numbering
<1> QED
  BY <1>1, AlwaysNumbering, PTL

\* Only saved configurations are approved, and every request saves at most one.
LEMMA ApprovedAreCalls == Spec => [](approved \subseteq Calls)
<1>1. Init => approved \subseteq Calls
  BY DEF Init
<1>2. approved \subseteq Calls /\ [Next]_vars => (approved \subseteq Calls)'
  <2> SUFFICES ASSUME approved \subseteq Calls, [Next]_vars PROVE approved' \subseteq Calls
    OBVIOUS
  <2>1. ASSUME NEW c \in Calls, EditorRequest(c) PROVE approved' \subseteq Calls
    BY <2>1 DEF EditorRequest, Authorize, Fail, CalculateCheck, SaveInsert, SaveCommit,
                RestoreConfiguration, RequestReview
  <2>2. ASSUME NEW u \in Users, OwnerRequest(u) PROVE approved' \subseteq Calls
    <3>1. ASSUME NEW c \in Calls, ApproveConfiguration(u, c) PROVE approved' \subseteq Calls
      BY <3>1 DEF ApproveConfiguration
    <3>2. CASE UNCHANGED approved
      BY <3>2
    <3> QED
      BY <2>2, <3>1, <3>2 DEF OwnerRequest, DecideReview, AddMember, UpdateMemberRole,
                              RemoveMember
  <2> QED
    BY <2>1, <2>2 DEF Next, vars
<1> QED
  BY <1>1, <1>2, PTL DEF Spec

\* The variables are well typed in every reachable state: the status is one of
\* the four, since it is what the reviews say, and every number is a number.
THEOREM TypeCorrect == Spec => []TypeOK
<1>1. Consistent /\ Numbering /\ approved \subseteq Calls => TypeOK
  <2> SUFFICES ASSUME Consistent, Numbering, approved \subseteq Calls PROVE TypeOK
    OBVIOUS
  <2>1. status \in ProjectStatus
    <3>1. CASE reviews = <<>>
      BY <3>1 DEF Consistent, StatusFollowsReviews, ProjectStatus
    <3>2. CASE reviews # <<>>
      <4>1. reviews[Len(reviews)] \in Review
        BY <3>2 DEF Consistent, Shape
      <4>2. reviews[Len(reviews)].decision \in {"requested"} \union Verdict
        BY <4>1 DEF Review
      <4> QED
        BY <3>2, <4>2 DEF Consistent, StatusFollowsReviews, ProjectStatus, Verdict
    <3> QED
      BY <3>1, <3>2
  <2>2. current \in Calls \union {None}
    BY DEF Numbering, CurrentIsSaved, Saved
  <2> QED
    BY <2>1, <2>2 DEF TypeOK, Consistent, Shape, Numbering
<1> QED
  BY <1>1, AlwaysConsistent, AlwaysNumbering, ApprovedAreCalls, PTL

\* For any users and overlapping calls owner, reviews and status agree
\* (project_repo.go: RequestReview, DecideReview, UpdateMemberRole).
THEOREM ReviewsAreSafeHolds == Spec => []ReviewsAreSafe
BY TypeCorrect, OneOwnerHolds, StatusFollowsReviewsHolds, DecidedByAnotherHolds, PTL DEF ReviewsAreSafe

\* For any number of overlapping saves and restores the numbering has no gap and the
\* current configuration is one of the saved (SaveCalculationWithConfig).
THEOREM RevisionsAreKeptHolds == Spec => []RevisionsAreKept
BY RevisionsDenseHolds, CurrentIsSavedHolds, PTL DEF RevisionsAreKept

-----------------------------------------------------------------------------
(* The routes.                                                             *)

LEMMA NamesApart ==
    /\ Mine \in Rows /\ Other \in Rows /\ Mine # Other /\ NoRow # Mine /\ NoRow # Other
    /\ \A r \in ApiRequests : r \in Rows /\ r # Mine /\ r # Other /\ r # NoRow
    /\ \A u \in People : u # NoRow
    /\ Founder \in People /\ Founder \notin Outside /\ Outside \subseteq People
BY RowsAssumption, UsersAssumption DEF Rows, Projects

LEMMA HandlerCodes ==
    \A op \in Op :
        /\ Handler[op].ok \in 200..204 /\ Handler[op].refuse \subseteq {400, 422}
        /\ Handler[op].conflict \in {409, 422, 500} /\ Handler[op].fault \in {409, 422, 500}
BY DEF Op, Handler, Answers, HandleListProjects, HandleGetProject, HandleListMembers, HandleAddMember,
       HandleUpdateMemberRole, HandleRemoveMember, HandleAddComment, HandleListComments, HandleDeleteComment,
       HandleRequestReview, HandleSignOffReview, HandleRequestChanges, HandleListReviews,
       HandleApproveConfiguration, HandleGetConfigurationApproval, HandleListApprovals,
       HandleListConfigurations, HandleGetConfiguration, HandleRestoreConfiguration, HandleCalculateProject,
       HandlePreviewProject, HandleOptimizeProject, HandleExportProject, HandleExportCAD, HandleQuoteSend,
       HandleProjectSync, HandleOrderSend, HandleCheckout, HandleListPayments, HandleListProjectAudit

\* What each table is made of, and where the project ends.
CallType ==
    [op : Op, user : People, step : {"idle", "received", "admitted", "checked", "stored", "done"},
     answer : 0..599, shown : SUBSET Rows]

TablesTyped ==
    /\ member \in [People -> ApiRole \union {"none"}]
    /\ state \in {"draft", "in_review"} \union ApiVerdict
    /\ config \in [Rows -> Projects \union {NoRow}]
    /\ {currentId, latest} \subseteq Rows
    /\ approval \in [Rows -> Projects \union {NoRow}]
    /\ comment \in [Rows -> [project : Projects, author : People] \union {NoComment}]
    /\ review \in [Rows -> [project : Projects, requester : People,
                            decision : {"requested"} \union ApiVerdict] \union {NoReview}]

Fenced ==
    /\ config[currentId] = Mine /\ config[latest] = Mine /\ config[Other] = Other
    /\ \A r \in ApiRequests : config[r] \in {NoRow, Mine}
    /\ \A i \in Rows : approval[i] # NoRow => approval[i] = config[i]
    /\ comment[Other].project = Other
    /\ review[Other].project = Other /\ review[Other].decision = "requested"
    /\ \A u \in Outside : member[u] = "none"

\* A request that has not been checked or has not written has left nothing; one of
\* another tenant gets no further than the check of its membership.
Early == {"idle", "received", "admitted", "checked"}
Turned == {400, 404, 409, 422, 500}

Progress(r) ==
    LET q == request[r] IN
    /\ q.step \in Early => r \notin wrote
    /\ q.step = "stored" => r \in wrote \/ q.op = "export_cad"
    /\ q.step # "done" => \A x \in {"ok", "denied"} : <<r, x>> \notin audit
    /\ Other \notin q.shown
    /\ q.step \in Early => q.shown = {}
    /\ q.user \in Outside =>
          /\ q.shown = {} /\ q.step \in {"idle", "received", "done"}
          /\ q.step = "done" => q.answer \in Turned \/ q.op = "list_projects"

Basis == ApiTypeOK /\ Fenced /\ \A r \in ApiRequests : Progress(r)
Inv == Basis /\ AnswersAreTrue /\ JournalIsTrue

(* Every step of a request is one of three.  It passes: only the request changes.     *)
Passes(r, c) ==
    /\ request' = [request EXCEPT ![r] = c] /\ UNCHANGED <<tables, audit, wrote, doubtful>>
    /\ request[r].step \in Early /\ c.step # "idle"
    /\ c.step = "stored" => c.op = "export_cad"
    /\ c.step = "done" /\ c.op \in Writing => c.answer >= 300 \/ c.op = "optimize"
    /\ Other \notin c.shown
    /\ c.step \in Early => c.shown = {}
    /\ c.user \in Outside =>
          /\ c.shown = {} /\ c.step \in {"received", "done"}
          /\ c.step = "done" => c.answer \in Turned \/ c.op = "list_projects"

(* It writes rows of this project and for its own tenant.                             *)
Writes(r) ==
    /\ request[r].step \in {"admitted", "checked"} /\ ApiStored(r)
    /\ TablesTyped' /\ Fenced'

(* Or it ends with an event, or with one that is lost.                                *)
Ends(r, a) ==
    LET q == request[r] IN
    /\ request' = [request EXCEPT ![r].step = "done", ![r].answer = a] /\ q.step \in {"received", "stored"}
    /\ q.user \notin Outside /\ UNCHANGED <<tables, wrote>>
    /\ audit \subseteq audit' /\ audit' \subseteq audit \union {<<r, "ok">>, <<r, "denied">>}
    /\ doubtful \subseteq doubtful' /\ doubtful' \subseteq doubtful \union {r}
    /\ r \notin doubtful' =>
          /\ q.op \in Writing => (a < 300 <=> r \in wrote)
          /\ q.op \in Audited /\ r \in wrote => <<r, "ok">> \in audit'
    /\ <<r, "ok">> \in audit' => r \in wrote \/ q.op = "export_cad"
    /\ <<r, "denied">> \in audit' => a = 403 /\ r \notin wrote

\* A query shows rows of this project.
LEMMA ShowPasses ==
    ASSUME Basis, NEW r \in ApiRequests, NEW what \in SUBSET Rows, Show(r, what),
           request[r].step \in Early, Other \notin what,
           request[r].op \notin Writing \/ request[r].op = "optimize",
           request[r].user \in Outside => what = {} /\ request[r].op = "list_projects"
    PROVE  \E c \in CallType : Passes(r, c)
<1>1. request[r] \in CallType /\ Progress(r)
  BY DEF Basis, ApiTypeOK, CallType
<1>2. PICK a \in 0..599 : a = Handler[request[r].op].ok
  <2>1. request[r].op \in Op
    BY <1>1 DEF CallType
  <2>2. Handler[request[r].op].ok \in 200..204
    BY <2>1, HandlerCodes
  <2> QED
    BY <2>2
<1> DEFINE c == [request[r] EXCEPT !.step = "done", !.shown = what, !.answer = a]
<1>3. c \in CallType
  BY <1>1 DEF CallType
<1>4. c.step = "done" /\ c.op = request[r].op /\ c.user = request[r].user /\ c.shown = what
  BY <1>1 DEF CallType
<1>5. request' = [request EXCEPT ![r] = c] /\ UNCHANGED <<tables, audit, wrote, doubtful>>
  BY <1>2 DEF Show
<1> HIDE DEF c
<1>6. Passes(r, c)
  BY <1>4, <1>5 DEF Passes, Early
<1> QED
  BY <1>3, <1>6

LEMMA ReplyPasses ==
    ASSUME Basis, NEW r \in ApiRequests, NEW a \in 300..599, Reply(r, a),
           UNCHANGED <<tables, audit, wrote, doubtful>>, request[r].step \in Early,
           request[r].user \in Outside => a \in Turned
    PROVE  \E c \in CallType : Passes(r, c)
<1>1. request[r] \in CallType /\ Progress(r)
  BY DEF Basis, ApiTypeOK, CallType
<1> DEFINE c == [request[r] EXCEPT !.step = "done", !.answer = a]
<1>2. a \in 0..599
  OBVIOUS
<1>3. c \in CallType
  BY <1>1, <1>2 DEF CallType
<1>4. /\ c.step = "done" /\ c.op = request[r].op /\ c.user = request[r].user /\ c.shown = request[r].shown
      /\ c.answer = a /\ request' = [request EXCEPT ![r] = c]
  BY <1>1 DEF CallType, Reply
<1> HIDE DEF c
<1>5. Passes(r, c)
  BY <1>1, <1>4 DEF Passes, Early, Progress
<1> QED
  BY <1>3, <1>5

\* On its way: received, admitted, or checked.
LEMMA StepPasses ==
    ASSUME Basis, NEW r \in ApiRequests, NEW step \in {"admitted", "checked"}, ApiGoto(r, step),
           UNCHANGED <<tables, audit, wrote, doubtful>>, request[r].step \in Early, request[r].user \notin Outside
    PROVE  \E c \in CallType : Passes(r, c)
<1>1. request[r] \in CallType /\ Progress(r)
  BY DEF Basis, ApiTypeOK, CallType
<1> DEFINE c == [request[r] EXCEPT !.step = step]
<1>2. c \in CallType
  BY <1>1 DEF CallType
<1>3. /\ c.step = step /\ c.op = request[r].op /\ c.user = request[r].user /\ c.shown = request[r].shown
      /\ request' = [request EXCEPT ![r] = c]
  BY <1>1 DEF CallType, ApiGoto
<1> HIDE DEF c
<1>4. Passes(r, c)
  BY <1>1, <1>3 DEF Passes, Early, Progress
<1> QED
  BY <1>2, <1>4

LEMMA ReceivePasses ==
    ASSUME Basis, NEW r \in ApiRequests, NEW op \in Op, NEW u \in People, Receive(r, op, u)
    PROVE  \E c \in CallType : Passes(r, c)
<1>1. request[r] \in CallType /\ Progress(r)
  BY DEF Basis, ApiTypeOK, CallType
<1> DEFINE c == [request[r] EXCEPT !.op = op, !.user = u, !.step = "received"]
<1>2. c \in CallType
  BY <1>1 DEF CallType
<1>3. /\ c.step = "received" /\ c.op = op /\ c.user = u /\ c.shown = request[r].shown
      /\ request' = [request EXCEPT ![r] = c]
  BY <1>1 DEF CallType, Receive
<1>4. request[r].step = "idle" /\ UNCHANGED <<tables, audit, wrote, doubtful>>
  BY DEF Receive
<1> HIDE DEF c
<1>5. Passes(r, c)
  BY <1>1, <1>3, <1>4 DEF Passes, Early, Progress
<1> QED
  BY <1>2, <1>5

\* Who has been admitted is of the tenant, and has written nothing yet.
LEMMA Admitted ==
    ASSUME Basis, NEW r \in ApiRequests, NEW ops, At(r, "admitted", ops) \/ At(r, "checked", ops)
    PROVE  request[r].step \in {"admitted", "checked"} /\ request[r].user \notin Outside /\ request[r].op \in ops
BY DEF Basis, Progress, At

\* 404 and 409, without an event.
LEMMA RefusalPasses ==
    ASSUME Basis, NEW r \in ApiRequests, NotFound(r) \/ Conflict(r), request[r].step \in Early
    PROVE  \E c \in CallType : Passes(r, c)
<1>1. request[r].op \in Op
  BY DEF Basis, ApiTypeOK
<1>2. CASE NotFound(r)
  BY <1>2, ReplyPasses DEF NotFound, Turned
<1>3. CASE Conflict(r)
  <2>1. PICK a \in {409, 422, 500} : a = Handler[request[r].op].conflict
    BY <1>1, HandlerCodes
  <2>2. a \in 300..599 /\ a \in Turned
    BY DEF Turned
  <2> QED
    BY <1>3, <2>1, <2>2, ReplyPasses DEF Conflict
<1> QED
  BY <1>2, <1>3

LEMMA QueriesPass ==
    ASSUME Basis, NEW r \in ApiRequests, Query(r)
    PROVE  \E c \in CallType : Passes(r, c)
<1> USE Admitted, NamesApart DEF Writing, OwnerOp, EditorOp, Sending, Early
<1>1. /\ Fenced /\ approval[Other] # Mine
      /\ currentId \in Rows /\ latest \in Rows
  BY DEF Basis, Fenced, ApiTypeOK
<1>2. CASE ListProjects(r)
  <2>1. PICK what \in {{Mine}, {}} : /\ what = IF member[request[r].user] # "none" THEN {Mine} ELSE {}
                                     /\ Show(r, what)
    BY <1>2 DEF ListProjects
  <2>2. request[r].step = "received" /\ request[r].op = "list_projects"
    BY <1>2 DEF ListProjects, At
  <2>3. request[r].user \in Outside => what = {}
    BY <1>1, <2>1 DEF Fenced
  <2>4. what \in SUBSET Rows /\ Other \notin what
    OBVIOUS
  <2> QED
    BY <2>1, <2>2, <2>3, <2>4, ShowPasses
<1>3. CASE GetProject(r) \/ ListMembers(r) \/ Preview(r) \/ ListPayments(r) \/ ListProjectAudit(r)
  BY <1>3, ShowPasses DEF GetProject, ListMembers, Preview, ListPayments, ListProjectAudit
<1>4. CASE ListComments(r) \/ ListReviews(r) \/ ListApprovals(r) \/ ListConfigurations(r)
  <2>1. PICK what \in SUBSET Rows : Show(r, what) /\ Other \notin what
    BY <1>1, <1>4 DEF ListComments, ListReviews, ListApprovals, ListConfigurations, Fenced
  <2>2. /\ request[r].op \in {"list_comments", "list_reviews", "list_approvals", "list_configs"}
        /\ request[r].step = "admitted" /\ request[r].user \notin Outside
    BY <1>4 DEF ListComments, ListReviews, ListApprovals, ListConfigurations, At
  <2> QED
    BY <2>1, <2>2, ShowPasses
<1>5. ASSUME NEW i \in Rows, GetConfiguration(r, i) \/ GetConfigurationApproval(r, i)
      PROVE  \E c \in CallType : Passes(r, c)
  <2>1. /\ request[r].op \in {"get_config", "get_approval"}
        /\ request[r].step = "admitted" /\ request[r].user \notin Outside
    BY <1>5 DEF GetConfiguration, GetConfigurationApproval, At
  <2>2. CASE NotFound(r)
    BY <2>1, <2>2, RefusalPasses
  <2>3. CASE Show(r, {i}) /\ i # Other
    BY <2>1, <2>3, ShowPasses
  <2> QED
    BY <1>1, <1>5, <2>2, <2>3 DEF GetConfiguration, GetConfigurationApproval, ConfigurationByID, Fenced
<1>6. CASE ExportProject(r)
  <2>1. Show(r, {latest}) /\ latest # Other
    BY <1>1, <1>6 DEF ExportProject, Fenced
  <2>2. request[r].op = "export" /\ request[r].step = "admitted" /\ request[r].user \notin Outside
    BY <1>6 DEF ExportProject, At
  <2> QED
    BY <1>1, <2>1, <2>2, ShowPasses
<1>7. CASE ExportCAD(r)
  <2>1. request[r] \in CallType /\ request[r].op = "export_cad" /\ request[r].step = "admitted"
    BY <1>7 DEF Basis, ApiTypeOK, CallType, ExportCAD, At
  <2> DEFINE c == [request[r] EXCEPT !.step = "stored", !.shown = {currentId}]
  <2>2. c \in CallType
    BY <1>1, <2>1 DEF CallType
  <2>3. c.step = "stored" /\ c.op = "export_cad" /\ c.user = request[r].user /\ c.shown = {currentId}
    BY <2>1 DEF CallType
  <2>4. request' = [request EXCEPT ![r] = c] /\ UNCHANGED <<tables, audit, wrote, doubtful>>
    BY <1>7 DEF ExportCAD
  <2>5. c.user \notin Outside /\ currentId # Other
    BY <1>1, <1>7, <2>3 DEF ExportCAD, Fenced
  <2> HIDE DEF c
  <2>6. Passes(r, c)
    BY <2>1, <2>3, <2>4, <2>5 DEF Passes
  <2> QED
    BY <2>2, <2>6
<1> QED
  BY <1>2, <1>3, <1>4, <1>5, <1>6, <1>7 DEF Query

\* The check of the membership, and the ends with an event or with a doubt.
LEMMA MemberPassesOrEnds ==
    ASSUME Basis, NEW r \in ApiRequests, Member(r)
    PROVE  (\E c \in CallType : Passes(r, c)) \/ Ends(r, 403)
<1> DEFINE q == request[r]
<1>1. q.step = "received" /\ UNCHANGED <<tables, wrote>> /\ Progress(r)
  BY DEF Member, Basis
<1>2. \A u \in Outside : member[u] = "none"
  BY DEF Basis, Fenced
<1>3. CASE member[q.user] = "none"
  <2>1. Needed(q.op) \notin ApiPermissions(member[q.user])
    BY <1>3 DEF ApiPermissions
  <2>2. Reply(r, 404) /\ UNCHANGED <<audit, doubtful>>
    BY <1>3, <2>1 DEF Member
  <2> QED
    BY <1>1, <2>2, ReplyPasses DEF Early, Turned
<1>4. CASE member[q.user] # "none" /\ Needed(q.op) \notin ApiPermissions(member[q.user])
  <2>1. q.user \notin Outside
    BY <1>2, <1>4
  <2>2. Reply(r, 403)
    BY <1>4 DEF Member
  <2>3. \/ audit' = audit \union {<<r, "denied">>} /\ UNCHANGED doubtful
        \/ doubtful' = doubtful \union {r} /\ UNCHANGED audit
    BY <1>4 DEF Member
  <2>4. r \notin wrote /\ \A x \in {"ok", "denied"} : <<r, x>> \notin audit
    BY <1>1 DEF Progress, Early
  <2>5. Ends(r, 403)
    BY <1>1, <2>1, <2>2, <2>3, <2>4 DEF Ends, Reply
  <2> QED
    BY <2>5
<1>5. CASE member[q.user] # "none" /\ Needed(q.op) \in ApiPermissions(member[q.user])
  <2>1. q.user \notin Outside
    BY <1>2, <1>5
  <2>2. ApiGoto(r, "admitted") /\ UNCHANGED <<audit, doubtful>>
    BY <1>5 DEF Member
  <2> QED
    BY <1>1, <2>1, <2>2, StepPasses DEF Early
<1> QED
  BY <1>3, <1>4, <1>5

LEMMA StoredEnds ==
    ASSUME Basis, NEW r \in ApiRequests, Record(r) \/ LoseReply(r)
    PROVE  \E a \in 0..599 : Ends(r, a)
<1> DEFINE q == request[r]
<1>1. /\ q.step = "stored" /\ UNCHANGED <<tables, wrote>> /\ Progress(r) /\ q.op \in Op
      /\ q.user \notin Outside
  BY DEF Record, LoseReply, Basis, Progress, ApiTypeOK
<1>2. /\ r \in wrote \/ q.op = "export_cad"
      /\ \A x \in {"ok", "denied"} : <<r, x>> \notin audit
      /\ "export_cad" \notin Writing
  BY <1>1 DEF Progress, Writing, OwnerOp, EditorOp, Sending
<1>3. CASE Record(r)
  <2>1. PICK a \in 200..204 : a = Handler[q.op].ok
    BY <1>1, HandlerCodes
  <2>2. request' = [request EXCEPT ![r].step = "done", ![r].answer = a]
    BY <1>3, <2>1 DEF Record, Reply
  <2>3. \/ q.op \notin Audited /\ UNCHANGED <<audit, doubtful>>
        \/ q.op \in Audited /\ audit' = audit \union {<<r, "ok">>} /\ UNCHANGED doubtful
        \/ q.op \in Audited /\ doubtful' = doubtful \union {r} /\ UNCHANGED audit
    BY <1>3 DEF Record
  <2>4. Ends(r, a)
    BY <1>1, <1>2, <2>2, <2>3 DEF Ends
  <2> QED
    BY <2>4
<1>4. CASE LoseReply(r)
  <2>1. PICK a \in {409, 422, 500} : a = Handler[q.op].fault
    BY <1>1, HandlerCodes
  <2>2. /\ request' = [request EXCEPT ![r].step = "done", ![r].answer = a]
        /\ doubtful' = doubtful \union {r} /\ UNCHANGED audit /\ q.op # "export_cad"
    BY <1>4, <2>1 DEF LoseReply, Reply
  <2>3. Ends(r, a)
    BY <1>1, <1>2, <2>2 DEF Ends
  <2> QED
    BY <2>3
<1> QED
  BY <1>3, <1>4

\* The statements, each within the project and the tenant.
LEMMA MembersAreWritten ==
    ASSUME Basis, NEW r \in ApiRequests, NEW who \in People, NEW given \in ApiRole \union {"none"},
           member' = [member EXCEPT ![who] = given], who \notin Outside,
           UNCHANGED <<state, config, currentId, latest, approval, comment, review>>
    PROVE  TablesTyped' /\ Fenced'
<1>1. TablesTyped /\ Fenced
  BY DEF Basis, ApiTypeOK, TablesTyped
<1>2. TablesTyped'
  BY <1>1 DEF TablesTyped
<1>3. \A u \in Outside : member'[u] = member[u]
  BY <1>1, NamesApart DEF TablesTyped
<1> QED
  BY <1>1, <1>2, <1>3 DEF Fenced

LEMMA CommentsAreWritten ==
    ASSUME Basis, NEW r \in ApiRequests, NEW i \in Rows \ {Other},
           NEW m \in [project : Projects, author : People] \union {NoComment},
           comment' = [comment EXCEPT ![i] = m],
           UNCHANGED <<member, state, config, currentId, latest, approval, review>>
    PROVE  TablesTyped' /\ Fenced'
<1>1. TablesTyped /\ Fenced
  BY DEF Basis, ApiTypeOK, TablesTyped
<1>2. TablesTyped'
  BY <1>1 DEF TablesTyped
<1>3. comment'[Other] = comment[Other]
  BY <1>1, NamesApart DEF TablesTyped
<1> QED
  BY <1>1, <1>2, <1>3 DEF Fenced

LEMMA ReviewsAreWritten ==
    ASSUME Basis, NEW r \in ApiRequests, NEW i \in Rows \ {Other}, state' \in {"in_review"} \union ApiVerdict,
           NEW v \in [project : Projects, requester : People, decision : {"requested"} \union ApiVerdict],
           review' = [review EXCEPT ![i] = v],
           UNCHANGED <<member, config, currentId, latest, approval, comment>>
    PROVE  TablesTyped' /\ Fenced'
<1>1. TablesTyped /\ Fenced
  BY DEF Basis, ApiTypeOK, TablesTyped
<1>2. TablesTyped'
  BY <1>1 DEF TablesTyped
<1>3. review'[Other] = review[Other]
  BY <1>1, NamesApart DEF TablesTyped
<1> QED
  BY <1>1, <1>2, <1>3 DEF Fenced

LEMMA ConfigurationsAreWritten ==
    ASSUME Basis, NEW r \in ApiRequests, UNCHANGED <<member, state, comment, review>>,
           \/ /\ config' = [config EXCEPT ![r] = Mine] /\ currentId' = r /\ latest' = r /\ UNCHANGED approval
           \/ \E i \in Rows : config[i] = Mine /\ currentId' = i /\ UNCHANGED <<config, latest, approval>>
           \/ \E i \in Rows : /\ config[i] = Mine /\ approval' = [approval EXCEPT ![i] = Mine]
                             /\ UNCHANGED <<config, currentId, latest>>
    PROVE  TablesTyped' /\ Fenced'
<1> USE NamesApart
<1>1. TablesTyped /\ Fenced
  BY DEF Basis, ApiTypeOK, TablesTyped
<1>2. CASE config' = [config EXCEPT ![r] = Mine] /\ currentId' = r /\ latest' = r /\ UNCHANGED approval
  <2>1. TablesTyped'
    BY <1>1, <1>2 DEF TablesTyped, Projects
  <2>2. config'[r] = Mine /\ \A i \in Rows \ {r} : config'[i] = config[i]
    BY <1>1, <1>2 DEF TablesTyped
  <2>3. \A i \in Rows : approval'[i] # NoRow => approval'[i] = config'[i]
    BY <1>1, <1>2, <2>2 DEF Fenced, TablesTyped
  <2> QED
    BY <1>1, <1>2, <2>1, <2>2, <2>3 DEF Fenced
<1>3. ASSUME NEW i \in Rows, config[i] = Mine, currentId' = i, UNCHANGED <<config, latest, approval>>
      PROVE  TablesTyped' /\ Fenced'
  BY <1>1, <1>3 DEF TablesTyped, Fenced
<1>4. ASSUME NEW i \in Rows, config[i] = Mine, approval' = [approval EXCEPT ![i] = Mine],
             UNCHANGED <<config, currentId, latest>>
      PROVE  TablesTyped' /\ Fenced'
  <2>1. TablesTyped'
    BY <1>1, <1>4 DEF TablesTyped, Projects
  <2>2. approval'[i] = Mine /\ \A j \in Rows \ {i} : approval'[j] = approval[j]
    BY <1>1, <1>4 DEF TablesTyped
  <2>3. \A j \in Rows : approval'[j] # NoRow => approval'[j] = config'[j]
    BY <1>1, <1>4, <2>2 DEF Fenced
  <2> QED
    BY <1>1, <1>4, <2>1, <2>3 DEF Fenced
<1> QED
  BY <1>2, <1>3, <1>4

LEMMA EffectKinds ==
    ASSUME Basis, NEW r \in ApiRequests, Effect(r)
    PROVE  (\E c \in CallType : Passes(r, c)) \/ Writes(r)
<1> DEFINE q == request[r]
<1> USE Admitted, RefusalPasses DEF Writes, Early
<1>1. TablesTyped /\ Fenced /\ q \in CallType /\ q.user \in People
  BY DEF Basis, ApiTypeOK, TablesTyped, CallType
<1>2. ASSUME NEW who \in People, NEW given \in ApiRole, ApiAddMember(r, who, given) \/ ApiUpdateMemberRole(r, who, given)
      PROVE  (\E c \in CallType : Passes(r, c)) \/ Writes(r)
  <2>1. q.step = "admitted"
    BY <1>2 DEF ApiAddMember, ApiUpdateMemberRole, At
  <2>2. CASE NotFound(r) \/ Conflict(r)
    BY <2>1, <2>2
  <2>3. CASE ~NotFound(r) /\ ~Conflict(r)
    <3>1. /\ member' = [member EXCEPT ![who] = given]
          /\ UNCHANGED <<state, config, currentId, latest, approval, comment, review>> /\ ApiStored(r)
      BY <1>2, <2>3 DEF ApiAddMember, ApiUpdateMemberRole
    <3>2. who \notin Outside
      BY <1>1, <1>2, <2>3 DEF ApiAddMember, ApiUpdateMemberRole, MemberOfTenant, Fenced
    <3> QED
      BY <2>1, <3>1, <3>2, MembersAreWritten
  <2> QED
    BY <2>2, <2>3
<1>3. ASSUME NEW who \in People, ApiRemoveMember(r, who)
      PROVE  (\E c \in CallType : Passes(r, c)) \/ Writes(r)
  <2>1. q.step = "admitted"
    BY <1>3 DEF ApiRemoveMember, At
  <2>2. CASE member[who] \in {"none", "owner"}
    BY <1>3, <2>1, <2>2 DEF ApiRemoveMember
  <2>3. CASE member[who] \notin {"none", "owner"}
    <3>1. /\ member' = [member EXCEPT ![who] = "none"] /\ who \notin Outside
          /\ UNCHANGED <<state, config, currentId, latest, approval, comment, review>> /\ ApiStored(r)
      BY <1>1, <1>3, <2>3 DEF ApiRemoveMember, Fenced
    <3> QED
      BY <2>1, <3>1, MembersAreWritten
  <2> QED
    BY <2>2, <2>3
<1>4. CASE AddComment(r)
  <2>1. q.step = "admitted" /\ ApiStored(r)
    BY <1>4 DEF AddComment, At
  <2> DEFINE m == [project |-> Mine, author |-> q.user]
  <2>2. m \in [project : Projects, author : People]
    BY <1>1 DEF Projects
  <2>3. comment' = [comment EXCEPT ![r] = m] /\ UNCHANGED <<member, state, config, currentId, latest, approval, review>>
    BY <1>4 DEF AddComment
  <2> HIDE DEF m
  <2> QED
    BY <2>1, <2>2, <2>3, NamesApart, CommentsAreWritten
<1>5. ASSUME NEW i \in Rows, DeleteComment(r, i)
      PROVE  (\E c \in CallType : Passes(r, c)) \/ Writes(r)
  <2>1. q.step = "admitted"
    BY <1>5 DEF DeleteComment, At
  <2>2. CASE ~Deletable(i, q.user)
    BY <1>5, <2>1, <2>2 DEF DeleteComment
  <2>3. CASE Deletable(i, q.user)
    <3>1. /\ comment' = [comment EXCEPT ![i] = NoComment] /\ i # Other
          /\ UNCHANGED <<member, state, config, currentId, latest, approval, review>> /\ ApiStored(r)
      BY <1>1, <1>5, <2>3, NamesApart DEF DeleteComment, Deletable, Fenced
    <3> QED
      BY <2>1, <3>1, CommentsAreWritten
  <2> QED
    BY <2>2, <2>3
<1>6. CASE CheckStatus(r)
  <2>1. q.step = "admitted" /\ q.user \notin Outside
    BY <1>6 DEF CheckStatus, At
  <2>2. \/ NotFound(r)
        \/ Conflict(r)
        \/ ApiGoto(r, "checked") /\ UNCHANGED <<tables, audit, wrote, doubtful>>
    BY <1>6 DEF CheckStatus
  <2> QED
    BY <2>1, <2>2, StepPasses
<1>7. CASE SaveCalculation(r)
  <2>1. q.step = "checked" /\ ApiStored(r)
    BY <1>7 DEF SaveCalculation, At
  <2> QED
    BY <1>7, <2>1, ConfigurationsAreWritten DEF SaveCalculation
<1>8. CASE OptimizeInVain(r)
  <2>1. q.step = "checked" /\ q.op = "optimize" /\ q.user \notin Outside /\ Show(r, {})
    BY <1>8 DEF OptimizeInVain, At
  <2> QED
    BY <2>1, ShowPasses
<1>9. ASSUME NEW i \in Rows, ApiRestoreConfiguration(r, i) \/ ApiApproveConfiguration(r, i)
      PROVE  (\E c \in CallType : Passes(r, c)) \/ Writes(r)
  <2>1. q.step = "admitted"
    BY <1>9 DEF ApiRestoreConfiguration, ApiApproveConfiguration, At
  <2>2. CASE NotFound(r) \/ Conflict(r)
    BY <2>1, <2>2
  <2>3. CASE ~NotFound(r) /\ ~Conflict(r)
    <3>1. ApiStored(r) /\ UNCHANGED <<member, state, comment, review>> /\ config[i] = Mine
      BY <1>9, <2>3 DEF ApiRestoreConfiguration, ApiApproveConfiguration, ConfigurationByID
    <3>2. \/ currentId' = i /\ UNCHANGED <<config, latest, approval>>
          \/ approval' = [approval EXCEPT ![i] = Mine] /\ UNCHANGED <<config, currentId, latest>>
      BY <1>9, <2>3 DEF ApiRestoreConfiguration, ApiApproveConfiguration
    <3> QED
      BY <2>1, <3>1, <3>2, ConfigurationsAreWritten
  <2> QED
    BY <2>2, <2>3
<1>10. CASE ApiRequestReview(r)
  <2>1. q.step = "admitted"
    BY <1>10 DEF ApiRequestReview, At
  <2>2. CASE Conflict(r)
    BY <2>1, <2>2
  <2>3. CASE ~Conflict(r)
    <3> DEFINE v == [project |-> Mine, requester |-> q.user, decision |-> "requested"]
    <3>1. v \in [project : Projects, requester : People, decision : {"requested"} \union ApiVerdict]
      BY <1>1 DEF Projects
    <3>2. /\ review' = [review EXCEPT ![r] = v] /\ state' = "in_review" /\ ApiStored(r)
          /\ UNCHANGED <<member, config, currentId, latest, approval, comment>>
      BY <1>10, <2>3 DEF ApiRequestReview
    <3> HIDE DEF v
    <3> QED
      BY <2>1, <3>1, <3>2, NamesApart, ReviewsAreWritten
  <2> QED
    BY <2>2, <2>3
<1>11. ASSUME NEW i \in Rows, ApiDecideReview(r, i)
       PROVE  (\E c \in CallType : Passes(r, c)) \/ Writes(r)
  <2> DEFINE verdict == IF q.op = "sign_off" THEN "approved" ELSE "changes_requested"
             v == [review[i] EXCEPT !.decision = verdict]
  <2>1. q.step = "admitted" /\ q.user \notin Outside
    BY <1>11 DEF ApiDecideReview, At
  <2>2. CASE NotFound(r) \/ Conflict(r)
    BY <2>1, <2>2
  <2>3. CASE Reply(r, 403) /\ UNCHANGED <<tables, audit, wrote, doubtful>>
    BY <2>1, <2>3, ReplyPasses
  <2>4. CASE PendingReview(i) /\ ApiStored(r) /\ review' = [review EXCEPT ![i] = v] /\ state' = verdict
             /\ UNCHANGED <<member, config, currentId, latest, approval, comment>>
    <3>1. i # Other /\ review[i] \in [project : Projects, requester : People,
                                      decision : {"requested"} \union ApiVerdict]
      BY <1>1, <2>4, NamesApart DEF PendingReview, Fenced, TablesTyped, NoReview
    <3>2. verdict \in ApiVerdict
      BY DEF ApiVerdict
    <3> HIDE DEF verdict
    <3>3. v \in [project : Projects, requester : People, decision : {"requested"} \union ApiVerdict]
      BY <3>1, <3>2
    <3> HIDE DEF v
    <3> QED
      BY <2>1, <2>4, <3>1, <3>2, <3>3, ReviewsAreWritten
  <2> QED
    BY <1>11, <2>2, <2>3, <2>4 DEF ApiDecideReview
<1>12. CASE SendOut(r)
  <2>1. q.step = "admitted" /\ ApiStored(r) /\ UNCHANGED tables
    BY <1>12 DEF SendOut, At
  <2>2. TablesTyped' /\ Fenced'
    BY <1>1, <2>1 DEF tables, TablesTyped, Fenced
  <2> QED
    BY <2>1, <2>2
<1>13. CASE RefuseLate(r)
  <2>1. PICK code \in {400, 422} : Reply(r, code)
    BY <1>13 DEF RefuseLate
  <2>2. q.step = "admitted" /\ q.user \notin Outside /\ UNCHANGED <<tables, audit, wrote, doubtful>>
    BY <1>13 DEF RefuseLate, At
  <2> QED
    BY <2>1, <2>2, ReplyPasses
<1> QED
  BY <1>2, <1>3, <1>4, <1>5, <1>6, <1>7, <1>8, <1>9, <1>10, <1>11, <1>12, <1>13 DEF Effect

\* Every step of a request passes, writes or ends it.
LEMMA StepKinds ==
    ASSUME Basis, ApiNext
    PROVE  \E r \in ApiRequests : \/ \E c \in CallType : Passes(r, c)
                                \/ Writes(r)
                                \/ \E a \in 0..599 : Ends(r, a)
<1>1. PICK r \in ApiRequests :
        \/ \E op \in Op, u \in People : Receive(r, op, u)
        \/ Refuse(r)
        \/ ApiFail(r)
        \/ Member(r)
        \/ Query(r)
        \/ Effect(r)
        \/ Record(r) \/ LoseReply(r)
  BY DEF ApiNext
<1>2. request[r].op \in Op
  BY DEF Basis, ApiTypeOK
<1>3. CASE Refuse(r)
  <2>1. PICK code \in Handler[request[r].op].refuse : Reply(r, code)
    BY <1>3 DEF Refuse
  <2>2. code \in {400, 422}
    BY <1>2, <2>1, HandlerCodes
  <2>3. request[r].step = "received" /\ UNCHANGED <<tables, audit, wrote, doubtful>>
    BY <1>3 DEF Refuse
  <2> QED
    BY <2>1, <2>2, <2>3, ReplyPasses DEF Early, Turned
<1>4. CASE ApiFail(r)
  <2>1. PICK code \in {409, 422, 500} : code = Handler[request[r].op].fault
    BY <1>2, HandlerCodes
  <2>2. /\ Reply(r, code) /\ request[r].step \in Early
        /\ UNCHANGED <<tables, audit, wrote, doubtful>>
    BY <1>4, <2>1 DEF ApiFail, Early
  <2> QED
    BY <2>1, <2>2, ReplyPasses DEF Turned
<1>5. CASE Member(r)
  BY <1>5, MemberPassesOrEnds
<1> QED
  BY <1>1, <1>3, <1>4, <1>5, ReceivePasses, QueriesPass, EffectKinds, StoredEnds

LEMMA PassesKeeps ==
    ASSUME Inv, NEW r \in ApiRequests, NEW c \in CallType, Passes(r, c)
    PROVE  Inv'
<1>1. ApiTypeOK /\ Fenced /\ (\A q \in ApiRequests : Progress(q)) /\ AnswersAreTrue /\ JournalIsTrue
  BY DEF Inv, Basis
<1>2. /\ request'[r] = c /\ \A q \in ApiRequests \ {r} : request'[q] = request[q]
      /\ request' \in [ApiRequests -> CallType]
  BY <1>1 DEF Passes, ApiTypeOK, CallType
<1>3. /\ UNCHANGED <<member, state, config, currentId, latest, approval, comment, review>>
      /\ UNCHANGED <<audit, wrote, doubtful>>
  BY DEF Passes, tables
<1>4. r \notin wrote /\ \A x \in {"ok", "denied"} : <<r, x>> \notin audit
  BY <1>1 DEF Progress, Passes, Early
<1>5. ApiTypeOK'
  BY <1>1, <1>2, <1>3 DEF ApiTypeOK, CallType
<1>6. Fenced'
  BY <1>1, <1>3 DEF Fenced
<1>7. \A q \in ApiRequests : Progress(q)'
  <2>1. Progress(r)'
    BY <1>1, <1>2, <1>3, <1>4 DEF Progress, Passes, Early
  <2>2. \A q \in ApiRequests \ {r} : Progress(q)'
    BY <1>1, <1>2, <1>3 DEF Progress
  <2> QED
    BY <2>1, <2>2
<1>8. AnswersAreTrue'
  BY <1>1, <1>2, <1>3, <1>4 DEF AnswersAreTrue, Passes, CallType
<1>9. JournalIsTrue'
  <2>1. JournalIsTrue /\ wrote \subseteq ApiRequests
    BY <1>1 DEF ApiTypeOK
  <2>2. ASSUME NEW q \in ApiRequests
        PROVE  /\ <<q, "ok">> \in audit => q \in wrote \/ request'[q].op = "export_cad"
               /\ <<q, "denied">> \in audit => request'[q].answer = 403 /\ q \notin wrote
               /\ q \in wrote \ doubtful =>
                    (request'[q].step = "done" /\ request'[q].op \in Audited => <<q, "ok">> \in audit)
    <3>1. CASE q = r
      BY <1>4, <3>1
    <3>2. CASE q # r
      <4>1. request'[q] = request[q]
        BY <1>2, <3>2
      <4> QED
        BY <2>1, <4>1 DEF JournalIsTrue
    <3> QED
      BY <3>1, <3>2
  <2> QED
    BY <1>3, <2>1, <2>2 DEF JournalIsTrue
<1> QED
  BY <1>5, <1>6, <1>7, <1>8, <1>9 DEF Inv, Basis

LEMMA WritesKeeps ==
    ASSUME Inv, NEW r \in ApiRequests, Writes(r)
    PROVE  Inv'
<1> DEFINE d == [request[r] EXCEPT !.step = "stored"]
<1>1. ApiTypeOK /\ (\A q \in ApiRequests : Progress(q)) /\ AnswersAreTrue /\ JournalIsTrue
  BY DEF Inv, Basis
<1>2. request[r] \in CallType
  BY <1>1 DEF ApiTypeOK, CallType
<1>3. d \in CallType
  BY <1>2 DEF CallType
<1>4. /\ d.op = request[r].op /\ d.user = request[r].user /\ d.step = "stored" /\ d.shown = request[r].shown
      /\ request' = [request EXCEPT ![r] = d]
  BY <1>2 DEF CallType, Writes, ApiStored, ApiGoto
<1> HIDE DEF d
<1>5. /\ request'[r] = d /\ \A q \in ApiRequests \ {r} : request'[q] = request[q]
      /\ request' \in [ApiRequests -> CallType]
  BY <1>1, <1>3, <1>4 DEF ApiTypeOK, CallType
<1>6. wrote' = wrote \union {r} /\ UNCHANGED <<audit, doubtful>> /\ TablesTyped' /\ Fenced'
  BY DEF Writes, ApiStored
<1>7. request[r].step \in {"admitted", "checked"} /\ \A x \in {"ok", "denied"} : <<r, x>> \notin audit
  BY <1>1 DEF Writes, Progress
<1>8. ApiTypeOK'
  BY <1>1, <1>5, <1>6 DEF ApiTypeOK, TablesTyped, CallType
<1>9. \A q \in ApiRequests : Progress(q)'
  <2>1. Progress(r)'
    BY <1>1, <1>4, <1>5, <1>6, <1>7 DEF Progress, Early
  <2>2. \A q \in ApiRequests \ {r} : Progress(q)'
    BY <1>1, <1>5, <1>6 DEF Progress
  <2> QED
    BY <2>1, <2>2
<1>10. \A q \in ApiRequests \ {r} : request'[q] = request[q] /\ (q \in wrote' <=> q \in wrote)
  BY <1>5, <1>6
<1>11. AnswersAreTrue'
  BY <1>1, <1>4, <1>5, <1>6, <1>10 DEF AnswersAreTrue
<1>12. JournalIsTrue'
  <2>1. wrote \subseteq ApiRequests /\ r \in wrote' /\ request'[r].step # "done"
    BY <1>1, <1>4, <1>5, <1>6 DEF ApiTypeOK
  <2> QED
    BY <1>1, <1>6, <1>7, <1>10, <2>1 DEF JournalIsTrue
<1> QED
  BY <1>6, <1>8, <1>9, <1>11, <1>12 DEF Inv, Basis

LEMMA EndsKeeps ==
    ASSUME Inv, NEW r \in ApiRequests, NEW a \in 0..599, Ends(r, a)
    PROVE  Inv'
<1> DEFINE d == [request[r] EXCEPT !.step = "done", !.answer = a]
<1>1. ApiTypeOK /\ Fenced /\ (\A q \in ApiRequests : Progress(q)) /\ AnswersAreTrue /\ JournalIsTrue
  BY DEF Inv, Basis
<1>2. request[r] \in CallType
  BY <1>1 DEF ApiTypeOK, CallType
<1>3. d \in CallType
  BY <1>2 DEF CallType
<1>4. /\ d.op = request[r].op /\ d.user = request[r].user /\ d.step = "done" /\ d.shown = request[r].shown
      /\ d.answer = a
  BY <1>2 DEF CallType
<1>5. request' = [request EXCEPT ![r] = d]
  BY DEF Ends
<1> HIDE DEF d
<1>6. /\ request'[r] = d /\ \A q \in ApiRequests \ {r} : request'[q] = request[q]
      /\ request' \in [ApiRequests -> CallType]
  BY <1>1, <1>3, <1>5 DEF ApiTypeOK, CallType
<1>7. /\ UNCHANGED <<member, state, config, currentId, latest, approval, comment, review, wrote>>
      /\ audit \subseteq audit' /\ audit' \subseteq audit \union {<<r, "ok">>, <<r, "denied">>}
      /\ doubtful \subseteq doubtful' /\ doubtful' \subseteq doubtful \union {r}
      /\ request[r].user \notin Outside
  BY DEF Ends, tables
<1>8. ApiTypeOK' /\ Fenced'
  <2>1. Fenced'
    BY <1>1, <1>7 DEF Fenced
  <2>2. ApiTypeOK'
    BY <1>1, <1>6, <1>7 DEF ApiTypeOK, CallType
  <2> QED
    BY <2>1, <2>2
<1>9. \A q \in ApiRequests \ {r} :
        /\ \A x \in {"ok", "denied"} : <<q, x>> \in audit' <=> <<q, x>> \in audit
        /\ q \in doubtful' <=> q \in doubtful
  BY <1>7
<1>10. \A q \in ApiRequests : Progress(q)'
  <2>1. Progress(r)'
    BY <1>1, <1>4, <1>6, <1>7 DEF Progress, Early
  <2>2. \A q \in ApiRequests \ {r} : Progress(q)'
    BY <1>1, <1>6, <1>7, <1>9 DEF Progress
  <2> QED
    BY <2>1, <2>2
<1>11. AnswersAreTrue'
  <2>1. r \in doubtful' \/ request[r].op \notin Writing \/ (a < 300 <=> r \in wrote)
    BY DEF Ends
  <2> QED
    BY <1>1, <1>4, <1>6, <1>7, <1>9, <2>1 DEF AnswersAreTrue
<1>12. JournalIsTrue'
  <2>1. /\ <<r, "ok">> \in audit' => r \in wrote \/ request[r].op = "export_cad"
        /\ <<r, "denied">> \in audit' => a = 403 /\ r \notin wrote
        /\ r \in doubtful' \/ request[r].op \notin Audited \/ r \notin wrote \/ <<r, "ok">> \in audit'
    BY DEF Ends
  <2>2. wrote \subseteq ApiRequests
    BY <1>1 DEF ApiTypeOK
  <2> QED
    BY <1>1, <1>4, <1>6, <1>7, <1>9, <2>1, <2>2 DEF JournalIsTrue
<1> QED
  BY <1>8, <1>10, <1>11, <1>12 DEF Inv, Basis

LEMMA ApiInitInv == ApiInit => Inv
<1> SUFFICES ASSUME ApiInit PROVE Inv
  OBVIOUS
<1>1. PICK u \in People \ (Outside \union {Founder}), given \in {"none", "editor", "viewer"}, asked \in BOOLEAN :
        /\ member = [v \in People |-> IF v = Founder THEN "owner" ELSE IF v = u THEN given ELSE "none"]
        /\ state = IF asked THEN "in_review" ELSE "draft"
        /\ review = [i \in Rows |-> IF i = Other \/ (i = Mine /\ asked)
              THEN [project |-> i, requester |-> u, decision |-> "requested"] ELSE NoReview]
        /\ comment = [i \in Rows |->
              IF i \in Projects THEN [project |-> i, author |-> u] ELSE NoComment]
  BY Zenon DEF ApiInit
<1> USE NamesApart
<1>2. /\ config = [i \in Rows |-> IF i \in Projects THEN i ELSE NoRow] /\ currentId = Mine /\ latest = Mine
      /\ approval = [i \in Rows |-> IF i = Other THEN Other ELSE NoRow]
      /\ audit = {} /\ request = [r \in ApiRequests |-> ApiIdle] /\ wrote = {} /\ doubtful = {}
  BY DEF ApiInit
<1>3. ApiIdle \in CallType
  <2>1. "get" \in Op
    BY DEF Op, Handler
  <2> QED
    BY <2>1 DEF ApiIdle, CallType
<1>4. member \in [People -> ApiRole \union {"none"}] /\ state \in {"draft", "in_review"}
  BY <1>1 DEF ApiRole
<1>5. comment \in [Rows -> [project : Projects, author : People] \union {NoComment}]
  BY <1>1 DEF Projects
<1>6. review \in [Rows -> [project : Projects, requester : People,
                           decision : {"requested"} \union ApiVerdict] \union {NoReview}]
  <2>1. \A d \in Projects : [project |-> d, requester |-> u, decision |-> "requested"] \in
           [project : Projects, requester : People, decision : {"requested"} \union ApiVerdict]
    OBVIOUS
  <2> DEFINE T == [project : Projects, requester : People, decision : {"requested"} \union ApiVerdict]
  <2>2. PICK R \in SUBSET (T \union {NoReview}) : R = T \union {NoReview}
    OBVIOUS
  <2>3. \A i \in Rows : review[i] \in R
    BY <1>1, <2>1, <2>2 DEF Projects
  <2>4. DOMAIN review = Rows /\ review = [i \in Rows |-> review[i]]
    BY <1>1
  <2>5. review \in [Rows -> R]
    BY <2>3, <2>4
  <2> QED
    BY <2>2, <2>5
<1>7. ApiTypeOK
  BY <1>2, <1>3, <1>4, <1>5, <1>6 DEF ApiTypeOK, CallType, Projects
<1>8. Fenced
  BY <1>1, <1>2 DEF Fenced, Projects
<1>9. (\A r \in ApiRequests : Progress(r)) /\ AnswersAreTrue /\ JournalIsTrue
  BY <1>2 DEF Progress, ApiIdle, Early, AnswersAreTrue, JournalIsTrue
<1> QED
  BY <1>7, <1>8, <1>9 DEF Inv, Basis

LEMMA ApiInvariant == ApiSpec => []Inv
<1>1. Inv /\ [ApiNext]_apiVars => Inv'
  <2> SUFFICES ASSUME Inv, [ApiNext]_apiVars PROVE Inv'
    OBVIOUS
  <2>1. CASE ApiNext
    <3>1. Basis
      BY DEF Inv
    <3> QED
      BY <2>1, <3>1, StepKinds, PassesKeeps, WritesKeeps, EndsKeeps
  <2>2. CASE UNCHANGED apiVars
    BY <2>2 DEF apiVars, tables, Inv, Basis, ApiTypeOK, Fenced, Progress, AnswersAreTrue, JournalIsTrue
  <2> QED
    BY <2>1, <2>2
<1> QED
  BY <1>1, ApiInitInv, PTL DEF ApiSpec

\* What a handler answers, what the repository has stored and what the journal says are one,
\* for any number of requests between whose statements any others run.
THEOREM ApiIsTruthful == ApiSpec => []ApiTellsTheTruth
<1>1. Inv => ApiTellsTheTruth
  BY DEF Inv, Basis, ApiTellsTheTruth
<1> QED
  BY <1>1, ApiInvariant, PTL

\* No route shows or changes a row of another project or lets somebody of another tenant in,
\* whatever row or user a path names (the project_id and tenant_id of every statement).
THEOREM BordersAreKept == ApiSpec => []BordersHold
<1>1. Inv => BordersHold
  <2> SUFFICES ASSUME Inv PROVE BordersHold
    OBVIOUS
  <2>1. ProjectsKeptApart
    BY DEF Inv, Basis, Fenced, Progress, ProjectsKeptApart
  <2>2. TenantsKeptApart
    <3>1. \A u \in Outside : member[u] = "none"
      BY DEF Inv, Basis, Fenced
    <3>2. ASSUME NEW r \in ApiRequests, request[r].step = "done", request[r].user \in Outside
          PROVE  request[r].shown = {} /\ (request[r].answer \in Turned \/ request[r].op = "list_projects")
      BY <3>2 DEF Inv, Basis, Progress
    <3> QED
      BY <3>1, <3>2 DEF TenantsKeptApart, Turned
  <2> QED
    BY <2>1, <2>2 DEF BordersHold
<1> QED
  BY <1>1, ApiInvariant, PTL
=============================================================================
