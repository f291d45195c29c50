------------------------------ MODULE Topology ------------------------------
(***************************************************************************)
(* ExploreTopology (internal/storage/sqlstore/store.go): the neighbourhood *)
(* of an asset, one query per level, under bounds on the depth, the nodes  *)
(* and the relationships.  As in RelationshipPath, crawls may commit rows  *)
(* between two levels, with PostgreSQL.                                    *)
(***************************************************************************)
EXTENDS Graph

CONSTANTS Queries,          \* the explorations a client may ask for
          Rows,             \* the relationships crawls may store
          MaxCommits        \* bound on the crawls that commit meanwhile

Query == [ds : Source \union {Any}, kind : Kind \union {Any}, direction : Direction,
          root : Node, maxDepth : Nat \ {0}, maxNodes : Nat \ {0},
          maxRelationships : Nat \ {0}]

VARIABLES relationships,  \* the committed table
          start,          \* ghost: the table when the exploration began
          commits,        \* how many crawls committed during it
          query,          \* the exploration
          pc,             \* where ExploreTopology is
          depth, frontier, next,
          seen,           \* seenNodes
          edges,          \* result.Relationships, and seenEdges: its keys
          rows,           \* rows of the current level still to be scanned
          truncated, nodes

db == <<relationships, start, commits>>
vars == <<db, query, pc, depth, frontier, next, seen, edges, rows, truncated, nodes>>
-----------------------------------------------------------------------------
Init ==
    /\ relationships \in SUBSET Rows
    /\ start = relationships
    /\ commits = 0
    /\ query \in Queries
    /\ pc = "root"
    /\ depth = 0 /\ frontier = {} /\ next = {} /\ seen = {} /\ edges = {} /\ rows = {}
    /\ truncated = FALSE /\ nodes = {}

(* A crawl commits its transaction: rows appear, none goes.                *)
CrawlCommits ==
    /\ pc \in {"level", "scan", "nodes"}
    /\ commits < MaxCommits
    /\ commits' = commits + 1
    /\ \E new \in SUBSET (Rows \ relationships) : relationships' = relationships \union new
    /\ UNCHANGED <<start, query, pc, depth, frontier, next, seen, edges, rows, truncated, nodes>>

(* The root has an asset. *)
Root ==
    /\ pc = "root"
    /\ pc' = "level"
    /\ frontier' = {query.root}
    /\ seen' = {query.root}
    /\ UNCHANGED <<db, query, depth, next, edges, rows, truncated, nodes>>

QueryLevel ==
    /\ pc = "level"
    /\ frontier # {} /\ depth < query.maxDepth
    /\ rows' = FrontierRelationships(relationships, frontier, query)
    /\ next' = {}
    /\ pc' = "scan"
    /\ UNCHANGED <<db, query, depth, frontier, seen, edges, truncated, nodes>>

(* The number of nodes is checked before the number of relationships, and  *)
(* a row that is left out may come back at the next level.                 *)
TooManyNodes(row) == Cardinality(seen \union Endpoints(row)) > query.maxNodes
(* Mutant: off by one. *)
OneTooManyEdges == Cardinality(edges) > query.maxRelationships

TooManyEdges == Cardinality(edges) >= query.maxRelationships

SkipKnownRow(row) ==
    /\ row \in edges
    /\ UNCHANGED <<edges, seen, next, truncated>>

(* Mutant: the nodes are added before the relationships are counted. *)
LeaveOutEdge(row) ==
    /\ row \notin edges
    /\ TooManyNodes(row) \/ TooManyEdges
    /\ truncated' = TRUE
    /\ seen' = IF TooManyNodes(row) THEN seen ELSE seen \union Endpoints(row)
    /\ UNCHANGED <<edges, next>>

LeaveOutRow(row) ==
    /\ row \notin edges
    /\ TooManyNodes(row) \/ TooManyEdges
    /\ truncated' = TRUE
    /\ UNCHANGED <<edges, seen, next>>

AddRow(row) ==
    /\ row \notin edges
    /\ ~TooManyNodes(row) /\ ~TooManyEdges
    /\ edges' = edges \union {row}
    /\ seen' = seen \union Endpoints(row)
    /\ next' = next \union (Endpoints(row) \ seen)
    /\ UNCHANGED truncated

ScanRow(row) ==
    /\ pc = "scan"
    /\ row \in rows
    /\ rows' = rows \ {row}
    /\ SkipKnownRow(row) \/ LeaveOutRow(row) \/ AddRow(row)
    /\ UNCHANGED <<db, query, pc, depth, frontier, nodes>>

EndLevel ==
    /\ pc = "scan"
    /\ rows = {}
    /\ frontier' = next
    /\ depth' = depth + 1
    /\ pc' = "level"
    /\ UNCHANGED <<db, query, next, seen, edges, rows, truncated, nodes>>

(* Mutant: the depth does not truncate. *)
EndLoopSilently ==
    /\ pc = "level"
    /\ frontier = {} \/ depth >= query.maxDepth
    /\ pc' = "nodes"
    /\ UNCHANGED <<db, query, depth, frontier, next, seen, edges, rows, truncated, nodes>>

(* Out of the loop: a frontier that was not expanded truncates the answer. *)
EndLoop ==
    /\ pc = "level"
    /\ frontier = {} \/ depth >= query.maxDepth
    /\ truncated' = (truncated \/ frontier # {})
    /\ pc' = "nodes"
    /\ UNCHANGED <<db, query, depth, frontier, next, seen, edges, rows, nodes>>

(* topologyNodes: one node per id, resolved to an asset if there is one. *)
ResolveNodes ==
    /\ pc = "nodes"
    /\ nodes' = seen
    /\ pc' = "answered"
    /\ UNCHANGED <<db, query, depth, frontier, next, seen, edges, rows, truncated>>

(* Any query may fail: the transaction ends and the tool reports the error. *)
Fail ==
    /\ pc \in {"root", "level", "nodes"}
    /\ pc' = "failed"
    /\ UNCHANGED <<db, query, depth, frontier, next, seen, edges, rows, truncated, nodes>>

Explore ==
    \/ Root \/ QueryLevel \/ (\E row \in rows : ScanRow(row)) \/ EndLevel
    \/ EndLoop \/ ResolveNodes \/ Fail

Next == Explore \/ CrawlCommits

Spec == Init /\ [][Next]_vars /\ WF_vars(Explore)
-----------------------------------------------------------------------------
PC == {"root", "level", "scan", "nodes", "answered", "failed"}
Answered == pc = "answered"

(* Every variable has its type. *)
TypeOK ==
    /\ relationships \subseteq Rows
    /\ start \subseteq relationships
    /\ commits \in Nat
    /\ query \in Queries
    /\ pc \in PC
    /\ depth \in Nat
    /\ frontier \subseteq Node /\ next \subseteq Node /\ seen \subseteq Node
    /\ edges \subseteq Rows
    /\ rows \subseteq Rows
    /\ truncated \in BOOLEAN
    /\ nodes \subseteq Node

(* The answer stays within the bounds of the request, although rows that   *)
(* were refused come back at later levels and bring other nodes with them. *)
(* The variables keep their types all along.                               *)
WithinBounds ==
    /\ TypeOK
    /\ Cardinality(seen) <= query.maxNodes
    /\ Cardinality(edges) <= query.maxRelationships
    /\ depth <= query.maxDepth

(* The answer is a connected piece of the graph: both ends of each of its  *)
(* relationships are among its nodes, and each node is reached from the    *)
(* root over relationships of the answer, in the direction asked for and   *)
(* within the depth, whichever rows the bounds left out.                   *)
AnswerConnected ==
    Answered =>
        /\ \A row \in edges : Endpoints(row) \subseteq nodes
        /\ \A n \in nodes : \E k \in 0..query.maxDepth : Walk(k, edges, query, query.root, n)

(* An answer that is not marked truncated leaves out nothing of the graph  *)
(* as it was when the exploration began: every relationship that passes    *)
(* the filters and touches one of its nodes is in it.                      *)
CompleteUnlessTruncated ==
    Answered /\ ~truncated => FrontierRelationships(start, nodes, query) \subseteq edges
=============================================================================
