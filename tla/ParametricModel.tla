---------------------------- MODULE ParametricModel ----------------------------
(***************************************************************************)
(* The parameters of an engineering model (internal/geometry/model.go): the *)
(* graph of their dependencies, values that are set or calculated, and the  *)
(* rebuild of what depends on the changed ones.  A value is known only by   *)
(* whether it still is what its formula gives; a formula reads what its     *)
(* parameter was declared to depend on.                                     *)
(***************************************************************************)
EXTENDS Graph

CONSTANT Derived   \* the parameters with a formula

\* Every instance assumes of its constants:
ModelAssumption == Derived \subseteq Nodes

VARIABLES
    stale,    \* parameters whose value is not what their formula gives now
    manual,   \* parameters with a formula whose value was set by hand
    taken     \* history: parameters with a formula that a rebuild marked clean without
              \* running it, since they were among the changed ones

modelVars == <<graphVars, stale, manual, taken>>

ModelInit == GraphInit /\ stale = {} /\ manual = {} /\ taken = {}

Calculated(S) == S \intersect Derived

\* Add: no formula is run, so that a derived parameter has no value yet.
Add(p) ==
    /\ p \notin nodes /\ AddNode(p)
    /\ stale' = stale \union Calculated({p})
    /\ UNCHANGED <<saved, misused, manual, taken>>

\* Set: whatever is calculated from the parameter no longer fits.
Set(p) ==
    /\ p \in nodes /\ AddNode(p)
    /\ stale' = (stale \ {p}) \union Calculated(Successors(p))
    /\ manual' = manual \union Calculated({p})
    /\ UNCHANGED <<saved, misused, taken>>

\* The edge of p to q would close a cycle.
Closes(p, q) == p = q \/ p \in Dependents(q)

\* Mutant of AddDependency: only a dependency of a parameter on itself is refused.
AddAnyDependency(dep, of) ==
    /\ dep # of /\ AddEdge(<<dep, of>>, dep, of)
    /\ UNCHANGED <<saved, misused, stale, manual, taken>>

\* A dependency that HasCycle objects to is taken back.
AddDependency(dep, of) ==
    /\ {dep, of} \subseteq nodes /\ ~Closes(dep, of)
    /\ AddEdge(<<dep, of>>, dep, of)
    /\ UNCHANGED <<saved, misused, stale, manual, taken>>

\* The effect of one formula: its parameter is right, and if it was not, what is
\* calculated from it no longer is.
Recompute(v, p) ==
    IF p \notin Derived THEN v
    ELSE [stale |-> (v.stale \ {p}) \union
                    (IF p \in v.stale \union v.manual THEN Calculated(Successors(p)) ELSE {}),
          manual |-> v.manual \ {p}]

\* What the first formulas of a plan leave.
Effects(plan) ==
    LET after[i \in 0..Len(plan)] ==
            IF i = 0 THEN [stale |-> stale, manual |-> manual] ELSE Recompute(after[i - 1], plan[i])
    IN  after

\* Mutant of Rebuild: every formula that was run marks its parameter clean at once,
\* as Scheduler.Execute does.
RebuildAsItGoes(changed) ==
    LET plan == Plan(changed) IN
    \E k \in 0..Len(plan) :
        LET after == Effects(plan)[k]
            done == {plan[i] : i \in 1..k} IN
        /\ stale' = after.stale /\ manual' = after.manual
        /\ \/ /\ k = Len(plan)
              /\ MarkClean(done \union changed)
              /\ taken' = (taken \ done) \union Calculated(changed)
           \/ /\ k < Len(plan) /\ plan[k + 1] \in Derived
              /\ MarkClean(done)
              /\ taken' = taken \ done
        /\ UNCHANGED <<nodes, edges, out, in, saved, misused>>

\* Rebuild: the formulas of the plan in its order, up to one that fails.  Only a
\* rebuild that gets to the end marks anything clean: what it calculated, and the
\* changed parameters, whose own formulas it does not run.
Rebuild(changed) ==
    LET plan == Plan(changed) IN
    \E k \in 0..Len(plan) :
        LET after == Effects(plan)[k] IN
        /\ stale' = after.stale /\ manual' = after.manual
        /\ \/ /\ k = Len(plan)
              /\ MarkClean(Range(plan) \union changed)
              /\ taken' = (taken \ Range(plan)) \union Calculated(changed)
           \/ /\ k < Len(plan) /\ plan[k + 1] \in Derived
              /\ UNCHANGED <<dirty, taken>>
        /\ UNCHANGED <<nodes, edges, out, in, saved, misused>>

\* A rebuild may be asked for with any parameters, dirty or not; ids that are not
\* registered change nothing.
ModelNext ==
    \/ \E p \in Nodes : Add(p) \/ Set(p)
    \/ \E p, q \in Nodes : AddDependency(p, q)
    \/ \E changed \in SUBSET nodes : Rebuild(changed)

ModelSpec == ModelInit /\ [][ModelNext]_modelVars

-----------------------------------------------------------------------------
(* Properties *)

\* No sequence of dependencies makes the model one that cannot be rebuilt.
AlwaysRebuildable == ~HasCycle

\* A value that does not fit its formula (never calculated, outdated, or left by a
\* rebuild whose formulas failed half-way) can be traced to a parameter that is still
\* dirty or was taken: handed to a rebuild as changed although it has a formula, and so
\* counted as set from outside (model.go:90).  As long as only parameters without a
\* formula are handed to rebuilds, the dirty marks explain everything.
DirtyExplains ==
    \A p \in stale : \E d \in dirty \union taken : p = d \/ p \in Dependents(d)

\* The model can always be rebuilt, and no value is out of date without a trace, whatever
\* was added, set, rebuilt in parts or failed (AddDependency and Rebuild of model.go).
RebuildRepairs == AlwaysRebuildable /\ DirtyExplains

\* In a model without dirty marks every value fits.  It does not hold: a parameter with a
\* formula is dirty when it is added, and a rebuild with the dirty ones marks it
\* clean without calculating it (scheduler.go:45, model.go:112).
CleanFits == dirty = {} => stale = {}
=============================================================================
