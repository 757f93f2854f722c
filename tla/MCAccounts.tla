------------------------------ MODULE MCAccounts ------------------------------
(* Who may do what.  A behaviour of this instance is one of the sessions, of   *)
(* the routes of the administration or of one project's reviews, which share   *)
(* no state that matters to their properties.                                  *)
(*                                                                             *)
(*   sessions  two administrators are the least that can change each other,    *)
(*             and a newcomer registers; two requests are enough for every     *)
(*             overlap of two statements.                                      *)
(*   admin     an administrator, a user of another tenant, and either a member *)
(*             and a key that may manage users or a second administrator and a *)
(*             key that may manage testimonials and keys; two requests.        *)
(*   review    a project with its creator and two more users of the tenant;    *)
(*             each of its requests of editors is made once.                   *)
EXTENDS Sessions, AdminApi, ProjectReview, TLC

VARIABLE part

MCChanges ==
    {[role |-> "user", status |-> "active"], [role |-> Nil, status |-> "disabled"]}
MCKeyScopes == {{"users.manage"}, {"testimonials.manage", "api_keys.manage"}}

\* What the second account of the tenant and the key of a behaviour may do.
Second(scopes) == IF scopes = {"users.manage"} THEN "user" ELSE "admin"

\* Sessions left aside: accounts nobody has logged in to.
NoSessions ==
    /\ statusOf = [u \in Accounts |-> "active"]
    /\ roleOf = [u \in Accounts |-> IF u \in Admins THEN "admin" ELSE "user"]
    /\ live = {} /\ issued = 0
    /\ owner = [t \in Tokens |-> Nil] /\ login = [t \in Tokens |-> t]
    /\ jar = [u \in Accounts |-> Nil]
    /\ pc = [r \in Requests |-> "idle"] /\ req = [r \in Requests |-> NoRequest]
    /\ cookie = [r \in Requests |-> Nil]
    /\ missed = {} /\ disturbed = {} /\ raced = FALSE

MCInit ==
    /\ part \in {"sessions", "admin", "review"}
    /\ IF part = "sessions" THEN SessionsInit ELSE NoSessions
    /\ AdminInit /\ Init
    /\ \A u \in People \ (Outside \union {First}) : person[u].role = Second(key[Home].scopes)
    /\ part # "admin" => key[Home].scopes = {"users.manage"}

MCNext ==
    \/ part = "sessions" /\ SessionsNext /\ UNCHANGED <<adminVars, vars, part>>
    \/ part = "admin" /\ AdminNext /\ UNCHANGED <<sessionVars, vars, part>>
    \/ part = "review" /\ Next /\ UNCHANGED <<sessionVars, adminVars, part>>

MCSpec == MCInit /\ [][MCNext]_<<sessionVars, adminVars, vars, part>>

\* The administrators of "sessions" are the members of "review", its requests
\* two of the calls.
Symmetry == Permutations(Requests) \union Permutations(Admins)
=============================================================================
