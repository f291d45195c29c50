------------------------------- MODULE Graph -------------------------------
(***************************************************************************)
(* The relationships table as the graph that ExploreTopology and           *)
(* FindRelationshipPath traverse (internal/storage/sqlstore/store.go).     *)
(* A row is an edge of a multigraph; relationship_type, which only keeps   *)
(* parallel rows apart as the data source and the relation type already    *)
(* do, and the columns that are only displayed are left out.               *)
(***************************************************************************)
EXTENDS Naturals, FiniteSets

CONSTANTS Node,    \* internal ids
          Source,  \* data source ids
          Kind,    \* relation types
          Any      \* a filter that was not given

ASSUME GraphAssumption == Any \notin Source \union Kind

Row == [ds : Source, kind : Kind, src : Node, dst : Node]
Direction == {"incoming", "outgoing", "both"}
Filter == [ds : Source \union {Any}, kind : Kind \union {Any}, direction : Direction]

Matches(row, q) ==
    /\ q.ds \in {Any, row.ds}
    /\ q.kind \in {Any, row.kind}

(* The WHERE clause of frontierRelationships. *)
Touches(row, frontier, q) ==
    \/ q.direction # "incoming" /\ row.src \in frontier
    \/ q.direction # "outgoing" /\ row.dst \in frontier

(* Mutant: a LIMIT on the query of a level. *)
LimitedRelationships(rels, frontier, q) ==
    LET level == {row \in rels : Matches(row, q) /\ Touches(row, frontier, q)} IN
    IF level = {} THEN {} ELSE {CHOOSE row \in level : TRUE}

FrontierRelationships(rels, frontier, q) ==
    {row \in rels : Matches(row, q) /\ Touches(row, frontier, q)}

Endpoints(row) == {row.src, row.dst}
OppositeEndpoint(row, n) == IF row.src = n THEN row.dst ELSE row.src

(* relationshipNeighbors looks at the frontier only: the direction was     *)
(* applied by the WHERE clause.                                            *)
Neighbors(row, frontier) ==
    {n \in Endpoints(row) : row.src # row.dst /\ OppositeEndpoint(row, n) \in frontier}
-----------------------------------------------------------------------------
(* The graph a query asks about: row leads from node m to node n.          *)
Step(row, q, m, n) ==
    /\ Matches(row, q)
    /\ \/ q.direction # "incoming" /\ row.src = m /\ row.dst = n
       \/ q.direction # "outgoing" /\ row.dst = m /\ row.src = n

(* w is a walk of k steps from node m in the rows rels. *)
IsWalk(w, k, rels, q, m) ==
    /\ w \in [0..k -> Node]
    /\ w[0] = m
    /\ \A i \in 0..(k - 1) : \E row \in rels : Step(row, q, w[i], w[i + 1])

Walk(k, rels, q, m, n) == \E w \in [0..k -> Node] : IsWalk(w, k, rels, q, m) /\ w[k] = n

(* No walk of any length leads from m to n: some set of nodes that holds m *)
(* but not n is closed under the steps.                                    *)
Unreachable(rels, q, m, n) ==
    \E C \in SUBSET Node :
        /\ m \in C /\ n \notin C
        /\ \A row \in rels : \A u \in C : \A v \in Node : Step(row, q, u, v) => v \in C
=============================================================================
