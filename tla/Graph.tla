-------------------------------- MODULE Graph --------------------------------
(***************************************************************************)
(* The dependency graph of the engines (internal/engine/graph): nodes, the  *)
(* registry of edges by id, and beside it the adjacency in both directions  *)
(* that every traversal uses.  Nodes are numbered in the order of their ids. *)
(* An edge without an id gets that of its ends, here the pair.              *)
(***************************************************************************)
EXTENDS Integers, Sequences, FiniteSets, FiniteSetsExt, Functions

CONSTANTS
    Nodes,     \* bound: the nodes there may be, numbers
    Ids        \* ids callers choose for edges themselves

\* Every instance assumes of its constants:
GraphAssumption == Nodes \subseteq Nat /\ IsFiniteSet(Nodes)

VARIABLES
    nodes,     \* g.nodes
    dirty,     \* those in the state "dirty"
    edges,     \* g.edges: triples of id, from and to
    out, in,   \* g.outgoing and g.incoming: pairs of from and to
    saved,     \* the last Snapshot
    misused    \* history: an id was given to a second edge, or a pair of nodes one more
               \* id, or an edge the id of another pair

graph == <<nodes, dirty, edges, out, in>>
graphVars == <<graph, saved, misused>>

NoGraph == [nodes |-> {}, dirty |-> {}, edges |-> {}]

GraphInit ==
    /\ nodes = {} /\ dirty = {} /\ edges = {} /\ out = {} /\ in = {}
    /\ saved = NoGraph /\ misused = FALSE

\* A node that is new, or changed: dirty in either case.
AddNode(n) ==
    /\ nodes' = nodes \union {n} /\ dirty' = dirty \union {n}
    /\ UNCHANGED <<edges, out, in>>

\* AddEdge: the edge that had the id is gone from the registry, not from the adjacency.
AddEdge(id, from, to) ==
    /\ {from, to} \subseteq nodes
    /\ edges' = {e \in edges : e[1] # id} \union {<<id, from, to>>}
    /\ out' = out \union {<<from, to>>} /\ in' = in \union {<<from, to>>}
    /\ UNCHANGED <<nodes, dirty>>

\* The edges removeEdgeFrom may remove: the one with the id of the pair or, if
\* there is none, the first between the nodes that the scan of the map meets.
Removable(from, to) ==
    LET named == {e \in edges : e[1] = <<from, to>>} IN
    IF named # {} THEN named ELSE {e \in edges : e[2] = from /\ e[3] = to}

RemoveEdge(from, to) ==
    \E e \in Removable(from, to) :
        /\ edges' = edges \ {e}
        /\ out' = out \ {<<from, to>>} /\ in' = in \ {<<from, to>>}
        /\ UNCHANGED <<nodes, dirty>>

\* RemoveNode takes, for each of its neighbours by the adjacency, one edge; what
\* it finds no edge for stays in the adjacency of the other end.
RemoveNode(n) ==
    /\ n \in nodes
    /\ LET pairs == {p \in in : p[2] = n} \union {p \in out : p[1] = n} IN
       \E gone \in SUBSET edges :
           /\ \A p \in pairs :
                 Removable(p[1], p[2]) # {} => Cardinality(gone \intersect Removable(p[1], p[2])) = 1
           /\ \A e \in gone : \E p \in pairs : e \in Removable(p[1], p[2])
           /\ edges' = edges \ gone
           /\ LET done == {p \in pairs : Removable(p[1], p[2]) # {}} IN
              /\ out' = {p \in out \ done : p[1] # n}
              /\ in' = {p \in in \ done : p[2] # n}
    /\ nodes' = nodes \ {n} /\ dirty' = dirty \ {n}

MarkClean(S) == dirty' = dirty \ S

\* Snapshot keeps nodes and edges; Restore derives the adjacency from the edges.
Snapshot ==
    /\ saved' = [nodes |-> nodes, dirty |-> dirty, edges |-> edges]
    /\ UNCHANGED <<graph, misused>>

EndsOf(E) == {<<e[2], e[3]>> : e \in E}

\* Mutant of Restore: the adjacency is left as it was.
RestoreRegistry ==
    /\ saved # NoGraph
    /\ nodes' = saved.nodes /\ dirty' = saved.dirty /\ edges' = saved.edges
    /\ UNCHANGED <<out, in, saved, misused>>

Restore ==
    /\ saved # NoGraph
    /\ nodes' = saved.nodes /\ dirty' = saved.dirty /\ edges' = saved.edges
    /\ out' = EndsOf(saved.edges) /\ in' = EndsOf(saved.edges)
    /\ UNCHANGED <<saved, misused>>

GraphNext ==
    \/ \E n \in Nodes : (AddNode(n) \/ RemoveNode(n)) /\ UNCHANGED <<saved, misused>>
    \/ \E n, m \in Nodes :
          \/ RemoveEdge(n, m) /\ UNCHANGED <<saved, misused>>
          \/ \E id \in Ids \union {<<n, m>>} :
                /\ AddEdge(id, n, m)
                /\ misused' = (misused \/ id \in (Nodes \X Nodes) \ {<<n, m>>}
                                       \/ \E e \in edges : (e[1] = id) # (e[2] = n /\ e[3] = m))
                /\ UNCHANGED saved
    \/ Snapshot \/ Restore

GraphSpec == GraphInit /\ [][GraphNext]_graphVars

-----------------------------------------------------------------------------
(* Traversal *)

Successors(n) == {m \in Nodes : <<n, m>> \in out}
Predecessors(n) == {m \in Nodes : <<m, n>> \in in}

\* What the depth-first search from the node meets.
Reached(n) ==
    LET met[k \in 0..Cardinality(Nodes)] ==
            IF k = 0 THEN {n} ELSE met[k - 1] \union UNION {Successors(m) : m \in met[k - 1]}
    IN  met[Cardinality(Nodes)]

\* TransitiveDependents.
Dependents(n) == Reached(n) \ {n}

\* The loop of TopologicalSort: the least ready node is next.  The degrees come from
\* the edges, what lowers them from the adjacency.
KahnStart ==
    [deg |-> [n \in Nodes |-> Cardinality({e \in edges : e[3] = n})],
     ready |-> {n \in nodes : \A e \in edges : e[3] # n}, order |-> <<>>]

Lowered(s, n) ==
    [m \in Nodes |-> IF m \in Successors(n) THEN s.deg[m] - 1 ELSE s.deg[m]]

KahnRound(s) ==
    IF s.ready = {} THEN s
    ELSE LET n == Min(s.ready)
             deg == Lowered(s, n)
         IN  [deg |-> deg, order |-> Append(s.order, n),
              ready |-> (s.ready \ {n}) \union {m \in Successors(n) : deg[m] = 0}]

\* Mutant of Kahn: a successor is ready as soon as one predecessor is done.
KahnEager ==
    LET step[k \in 0..Cardinality(Nodes)] ==
            IF k = 0 THEN KahnStart
            ELSE LET s == step[k - 1] IN
                 IF s.ready = {} THEN s
                 ELSE LET n == Min(s.ready) IN
                      [s EXCEPT !.order = Append(@, n),
                                !.ready = (@ \union Successors(n)) \ (Range(s.order) \union {n})]
    IN  step[Cardinality(Nodes)].order

Kahn ==
    LET step[k \in 0..Cardinality(Nodes)] ==
            IF k = 0 THEN KahnStart ELSE KahnRound(step[k - 1])
    IN  step[Cardinality(Nodes)].order

\* The error of TopologicalSort.
HasCycle == Len(Kahn) # Cardinality(nodes)

\* The nodes of a set as they come in an order.
Selected(order, S) ==
    LET kept[i \in 0..Len(order)] ==
            IF i = 0 THEN <<>>
            ELSE IF order[i] \in S THEN Append(kept[i - 1], order[i]) ELSE kept[i - 1]
    IN  kept[Len(order)]

\* Plan: what depends on the changed nodes, without them, in topological order.
Plan(changed) ==
    LET affected == UNION {Dependents(n) : n \in changed \intersect nodes} IN
    Selected(Kahn, affected \ changed)

-----------------------------------------------------------------------------
(* Properties *)

\* The type of the state; unless ids were misused an edge ends at nodes there are.
GraphTypeOK ==
    /\ nodes \subseteq Nodes /\ dirty \subseteq nodes
    /\ \A e \in edges : e[1] \in Ids \union (Nodes \X Nodes) /\ (misused \/ {e[2], e[3]} \subseteq nodes)
    /\ out \subseteq Nodes \X Nodes /\ in \subseteq Nodes \X Nodes

Faithful == out = EndsOf(edges) /\ in = out /\ \A p \in out : {p[1], p[2]} \subseteq nodes

\* As long as every id is used for one pair of nodes and every pair has one id, what
\* the traversals follow is what the registry holds.
AdjacencyFaithful == ~misused => Faithful

\* On such a graph the sort fails on cycles only, and what it returns has every node
\* once and no edge backwards.
SortIsRight ==
    ~misused =>
        /\ HasCycle = (\E n \in nodes : <<n, n>> \in out \/ \E m \in Dependents(n) : n \in Dependents(m))
        /\ ~HasCycle =>
              /\ Range(Kahn) = nodes
              /\ \A i, j \in 1..Len(Kahn) : <<Kahn[j], Kahn[i]>> \in EndsOf(edges) => j < i

\* The two copies of the edges agree after any operation, and the sort on them is one.
GraphIsFaithful == GraphTypeOK /\ AdjacencyFaithful /\ SortIsRight
=============================================================================
