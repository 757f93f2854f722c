------------------------------- MODULE SsoLogin -------------------------------
(***************************************************************************)
(* Single sign-on (internal/application/auth/sso.go, the sso_states and     *)
(* oauth_accounts tables of auth_repo.go, internal/transport/http/sso.go).  *)
(* A flow saves a one-time state and sends the browser to the provider; the *)
(* callback, which a browser may deliver twice, consumes the state, learns  *)
(* a subject and an email, and finds, links or creates the account.  An     *)
(* email names its account: it is unique in the table.                      *)
(***************************************************************************)
EXTENDS Naturals, FiniteSets

CONSTANTS
    Flows,       \* bound: logins begun
    Returning,   \* bound: those that come back from the provider
    Repeated,    \* bound: those whose callback arrives twice
    Subjects,    \* identities at the provider
    Emails,
    MaxStates,   \* maxSsoStates
    Denied,
    Unset

Callbacks == Returning \X {1} \union Repeated \X {2}

ASSUME SsoAssumption ==
    /\ Repeated \subseteq Returning /\ Returning \subseteq Flows /\ IsFiniteSet(Flows)
    /\ MaxStates \in Nat \ {0}
    /\ Unset \notin Emails \union Subjects /\ Denied \notin Emails \union {Unset}

VARIABLES
    states,     \* the rows of sso_states, each with the flow it was saved for
    created,    \* created_at of a flow's row: its place among all the rows there were
    account,    \* per email: "absent", "active", "disabled" or, in another tenant, "foreign"
    link,       \* oauth_accounts: the account of a subject
    begun,      \* per flow: "no", "pruned", "sent" to the provider; "overtaken" and "late"
                \* if another flow inserted its state between its own two statements
    place, who, email,   \* per callback: place, subject and email of its claims
    result,     \* per callback: the account it logged in, or Denied
    barred,     \* history, per callback: accounts not to be entered when it had its claims
    moved       \* history: subjects whose callbacks overlapped with different emails

ssoVars == <<states, created, account, link, begun, place, who, email, result, barred, moved>>
CallbackPlaces == {"wait", "claims", "subject", "email", "provision", "link", "done"}
flows == <<place, who, email, result, barred, moved>>

SsoInit ==
    /\ states = {} /\ created = [f \in Flows |-> 0]
    /\ account \in [Emails -> {"absent", "active", "disabled", "foreign"}]
    /\ link = [s \in Subjects |-> Unset]
    /\ begun = [f \in Flows |-> "no"]
    /\ place = [c \in Callbacks |-> "wait"]
    /\ who = [c \in Callbacks |-> Unset] /\ email = [c \in Callbacks |-> Unset]
    /\ result = [c \in Callbacks |-> Unset]
    /\ barred = [c \in Callbacks |-> {}] /\ moved = {}

MoveOn(c, s) == place' = [place EXCEPT ![c] = s]
Finish(c, res) == MoveOn(c, "done") /\ result' = [result EXCEPT ![c] = res]

\* The rows the second statement leaves: all, or the newest MaxStates.
Newest(rows) ==
    IF Cardinality(rows) <= MaxStates THEN {rows}
    ELSE {kept \in SUBSET rows :
            /\ Cardinality(kept) = MaxStates
            /\ \A f \in kept, g \in rows \ kept : created[g] < created[f]}

\* Mutant of Prune: only the expired rows go.
PruneExpired(f) ==
    /\ begun[f] = "no"
    /\ states' \in SUBSET states
    /\ begun' = [begun EXCEPT ![f] = "pruned"]
    /\ UNCHANGED <<created, account, link, flows>>

\* CreateSsoState, before the insert: expired rows, then all but the newest.
Prune(f) ==
    /\ begun[f] = "no"
    /\ \E valid \in SUBSET states : states' \in Newest(valid)
    /\ begun' = [begun EXCEPT ![f] = "pruned"]
    /\ UNCHANGED <<created, account, link, flows>>

\* The insert, and the redirect to the provider.
SaveState(f) ==
    /\ begun[f] \in {"pruned", "overtaken"}
    /\ states' = states \union {f}
    /\ created' = [created EXCEPT ![f] = Cardinality({g \in Flows : created[g] > 0}) + 1]
    /\ begun' = [g \in Flows |-> IF g = f THEN IF begun[f] = "pruned" THEN "sent" ELSE "late"
                                ELSE IF begun[g] = "pruned" THEN "overtaken" ELSE begun[g]]
    /\ UNCHANGED <<account, link, flows>>

\* Mutant of Consume: the state is looked up and not deleted.
Look(c) ==
    /\ place[c] = "wait" /\ begun[c[1]] \in {"sent", "late"}
    /\ IF c[1] \in states THEN MoveOn(c, "claims") /\ UNCHANGED result
       ELSE Finish(c, Denied)
    /\ UNCHANGED <<states, created, account, link, begun, who, email, barred, moved>>

\* ConsumeSsoState: one statement deletes the state and returns it.
Consume(c) ==
    /\ place[c] = "wait" /\ begun[c[1]] \in {"sent", "late"}
    /\ IF c[1] \in states
       THEN states' = states \ {c[1]} /\ MoveOn(c, "claims") /\ UNCHANGED result
       ELSE Finish(c, Denied) /\ UNCHANGED states
    /\ UNCHANGED <<created, account, link, begun, who, email, barred, moved>>

\* The task of the worker that deletes the expired rows; to a callback a row that
\* has expired is one that is gone.
DeleteExpiredSsoStates ==
    /\ states' \in (SUBSET states) \ {states}
    /\ UNCHANGED <<created, account, link, begun, flows>>

\* Exchange and VerifyIDToken fail, or the claims have no email.
Reject(c) ==
    /\ place[c] = "claims"
    /\ Finish(c, Denied)
    /\ UNCHANGED <<states, created, account, link, begun, who, email, barred, moved>>

Claims(c) ==
    /\ place[c] = "claims"
    /\ \E s \in Subjects, e \in Emails :
          /\ who' = [who EXCEPT ![c] = s] /\ email' = [email EXCEPT ![c] = e]
          /\ moved' = IF \E d \in Callbacks \ {c} : who[d] = s /\ place[d] # "done" /\ email[d] # e
                      THEN moved \union {s} ELSE moved
    /\ barred' = [barred EXCEPT ![c] = {e \in Emails : account[e] \in {"disabled", "foreign"}}]
    /\ MoveOn(c, "subject")
    /\ UNCHANGED <<states, created, account, link, begun, result>>

\* Mutant of FindLinked: the email decides, not the link.
FindNone(c) ==
    /\ place[c] = "subject"
    /\ MoveOn(c, "email")
    /\ UNCHANGED <<states, created, account, link, begun, who, email, result, barred, moved>>

\* GetOAuthAccountByProviderSubject; a linked account that is disabled is denied.
FindLinked(c) ==
    LET u == link[who[c]] IN
    /\ place[c] = "subject"
    /\ IF u = Unset THEN MoveOn(c, "email") /\ UNCHANGED result
       ELSE Finish(c, IF account[u] # "disabled" THEN u ELSE Denied)
    /\ UNCHANGED <<states, created, account, link, begun, who, email, barred, moved>>

\* Mutant of FindEmail: the status of the account is not looked at.
FindEmailOnly(c) ==
    /\ place[c] = "email"
    /\ IF account[email[c]] = "absent" THEN MoveOn(c, "provision") /\ UNCHANGED result
       ELSE IF account[email[c]] = "foreign" THEN Finish(c, Denied)
       ELSE MoveOn(c, "link") /\ UNCHANGED result
    /\ UNCHANGED <<states, created, account, link, begun, who, email, barred, moved>>

\* GetUserByEmail: an account of another tenant or a disabled one is denied.
FindEmail(c) ==
    /\ place[c] = "email"
    /\ IF account[email[c]] = "absent" THEN MoveOn(c, "provision") /\ UNCHANGED result
       ELSE IF account[email[c]] = "active" THEN MoveOn(c, "link") /\ UNCHANGED result
       ELSE Finish(c, Denied)
    /\ UNCHANGED <<states, created, account, link, begun, who, email, barred, moved>>

\* CreateUser; if the email has been taken meanwhile, that account is used.
Provision(c) ==
    /\ place[c] = "provision"
    /\ account' = [account EXCEPT ![email[c]] = IF @ = "absent" THEN "active" ELSE @]
    /\ MoveOn(c, "link")
    /\ UNCHANGED <<states, created, link, begun, who, email, result, barred, moved>>

\* CreateOAuthAccount; that the subject is linked already counts as success.
Link(c) ==
    /\ place[c] = "link"
    /\ link' = [link EXCEPT ![who[c]] = IF @ = Unset THEN email[c] ELSE @]
    /\ Finish(c, email[c])
    /\ UNCHANGED <<states, created, account, begun, who, email, barred, moved>>

\* Elsewhere: a registration, and an administrator who disables an account.
Others ==
    \E e \in Emails :
        /\ \/ account[e] = "absent" /\ account' = [account EXCEPT ![e] = "active"]
           \/ account[e] = "active" /\ account' = [account EXCEPT ![e] = "disabled"]
        /\ UNCHANGED <<states, created, link, begun, flows>>

SsoStep(c) ==
    \/ Consume(c) \/ Reject(c) \/ Claims(c)
    \/ FindLinked(c) \/ FindEmail(c) \/ Provision(c) \/ Link(c)

SsoNext ==
    \/ \E f \in Flows : Prune(f) \/ SaveState(f)
    \/ \E c \in Callbacks : SsoStep(c)
    \/ DeleteExpiredSsoStates \/ Others

SsoSpec == SsoInit /\ [][SsoNext]_ssoVars

-----------------------------------------------------------------------------
(* Properties *)

\* The type of the state; a callback that is over has a result.
SsoTypeOK ==
    /\ states \subseteq Flows /\ created \in [Flows -> Nat]
    /\ begun \in [Flows -> {"no", "pruned", "sent", "overtaken", "late"}]
    /\ account \in [Emails -> {"absent", "active", "disabled", "foreign"}]
    /\ link \in [Subjects -> Emails \union {Unset}]
    /\ place \in [Callbacks -> CallbackPlaces]
    /\ who \in [Callbacks -> Subjects \union {Unset}] /\ email \in [Callbacks -> Emails \union {Unset}]
    /\ barred \in [Callbacks -> SUBSET Emails] /\ moved \subseteq Subjects
    /\ result \in [Callbacks -> Emails \union {Denied, Unset}]
    /\ \A c \in Callbacks : place[c] = "done" <=> result[c] # Unset

\* A state admits one callback, however often the browser delivers it.
OneLoginPerState ==
    \A f \in Repeated : ~(place[<<f, 1>>] = "done" /\ place[<<f, 2>>] = "done"
                       /\ result[<<f, 1>>] # Denied /\ result[<<f, 2>>] # Denied)

\* Whoever logs in by a subject gets the account the subject is linked to, even
\* after the email at the provider has changed; only overlapping first logins
\* with different emails part them.
LinkedLogin ==
    \A c \in Callbacks : result[c] \in Emails /\ who[c] \notin moved => result[c] = link[who[c]]

\* The table of states stays within its limit and the one just inserted, but for
\* the flows that were overtaken between the two statements.
StatesCapped ==
    Cardinality(states) <= MaxStates + 1 + Cardinality({f \in Flows : begun[f] = "late"})

\* SSO opens no account of another tenant, and none that was disabled before the
\* callback knew whose it is.
AccountsGuarded == \A c \in Callbacks : result[c] \notin barred[c]

\* A callback logs in once, into the account its subject is linked to, and into none
\* that is barred (completeLogin and ConsumeState, however the calls of two overlap).
LoginsAreGenuine ==
    SsoTypeOK /\ OneLoginPerState /\ LinkedLogin /\ StatesCapped /\ AccountsGuarded
=============================================================================
