-------------------------- MODULE RelationshipPath --------------------------
(***************************************************************************)
(* FindRelationshipPath (internal/storage/sqlstore/store.go): a breadth    *)
(* first search that asks the database once per level, while crawls go on  *)
(* committing relationships.  The whole search is one transaction, but     *)
(* PostgreSQL's default READ COMMITTED gives every level the rows          *)
(* committed when its query starts.  SQLite's pool has a single connection *)
(* and nothing commits until the search is over: its behaviours are those  *)
(* here in which no crawl commits.  Rows are never deleted.                *)
(***************************************************************************)
EXTENDS Graph, Sequences

CONSTANTS Queries,         \* the searches a client may ask for
          Rows,            \* the relationships crawls may store
          MaxSnapshots     \* bound on the tables a search may see

Query == [ds : Source \union {Any}, kind : Kind \union {Any}, direction : Direction,
          from : Node, to : Node, maxHops : Nat \ {0}]

VARIABLES relationships,  \* the committed table
          query,          \* the search
          pc,             \* where FindRelationshipPath is
          hops, frontier, next, seen,
          previous,       \* the row through which a node was first seen
          parent,         \* the node at the other end of that row
          rows,           \* rows of the current level still to be scanned
          current,        \* the node buildPath has walked back to
          path,           \* the relationships of the answer
          found, truncated, nodes,
          start,          \* ghost: the table when the search began
          snapshots       \* ghost: every table committed during the search

db == <<relationships, start, snapshots>>
bfs == <<hops, frontier, next, seen, previous, parent, rows>>
answer == <<found, truncated, nodes>>
vars == <<db, query, pc, bfs, current, path, answer>>

Answered == pc = "answered"
-----------------------------------------------------------------------------
Init ==
    /\ relationships \in SUBSET Rows
    /\ start = relationships
    /\ snapshots = {relationships}
    /\ query \in Queries
    /\ pc = "resolve"
    /\ hops = 0 /\ frontier = {} /\ next = {} /\ seen = {} /\ rows = {}
    /\ previous = [n \in {} |-> n] /\ parent = [n \in {} |-> n]
    /\ current = query.to
    /\ path = <<>>
    /\ found = FALSE /\ truncated = FALSE /\ nodes = {}

(* A crawl commits its transaction: rows appear, none goes.                *)
CrawlCommits ==
    /\ pc \in {"level", "scan", "build"}
    /\ Cardinality(snapshots) < MaxSnapshots
    /\ \E new \in SUBSET (Rows \ relationships) : relationships' = relationships \union new
    /\ snapshots' = snapshots \union {relationships'}
    /\ UNCHANGED <<start, query, pc, bfs, current, path, answer>>

(* Both endpoints have an asset; the two look-ups change nothing. *)
Resolve ==
    /\ pc = "resolve"
    /\ IF query.from = query.to
       THEN /\ pc' = "answered"
            /\ found' = TRUE
            /\ nodes' = {query.from}
            /\ UNCHANGED <<bfs, truncated>>
       ELSE /\ pc' = "level"
            /\ frontier' = {query.from}
            /\ seen' = {query.from}
            /\ UNCHANGED <<hops, next, previous, parent, rows, answer>>
    /\ UNCHANGED <<db, query, current, path>>

(* The loop condition holds: one query for the whole frontier. *)
QueryLevel ==
    /\ pc = "level"
    /\ frontier # {} /\ hops < query.maxHops
    /\ rows' = FrontierRelationships(relationships, frontier, query)
    /\ next' = {}
    /\ pc' = "scan"
    /\ UNCHANGED <<db, query, hops, frontier, seen, previous, parent, current, path, answer>>

(* One row of the level, in whatever order last_seen puts them.  At most   *)
(* one of its endpoints is new, since the other one is in the frontier.    *)
ScanRow(row) ==
    /\ pc = "scan"
    /\ row \in rows
    /\ rows' = rows \ {row}
    /\ \/ /\ Neighbors(row, frontier) \subseteq seen
          /\ UNCHANGED <<pc, next, seen, previous, parent>>
       \/ \E n \in Neighbors(row, frontier) \ seen :
            /\ seen' = seen \union {n}
            /\ previous' = [m \in DOMAIN previous \union {n} |->
                               IF m = n THEN row ELSE previous[m]]
            /\ parent' = [m \in DOMAIN parent \union {n} |->
                             IF m = n THEN OppositeEndpoint(row, n) ELSE parent[m]]
            /\ \/ n = query.to /\ pc' = "build" /\ next' = next
               \/ n # query.to /\ pc' = pc /\ next' = next \union {n}
    /\ UNCHANGED <<db, query, hops, frontier, current, path, answer>>

(* Mutant: expanded nodes stay in the frontier, and a level that found      *)
(* nothing new is not counted.                                             *)
EndLevelKeeping ==
    /\ pc = "scan"
    /\ rows = {}
    /\ frontier' = frontier \union next
    /\ hops' = IF next = {} THEN hops ELSE hops + 1
    /\ pc' = "level"
    /\ UNCHANGED <<db, query, next, seen, previous, parent, rows, current, path, answer>>

EndLevel ==
    /\ pc = "scan"
    /\ rows = {}
    /\ frontier' = next
    /\ hops' = hops + 1
    /\ pc' = "level"
    /\ UNCHANGED <<db, query, next, seen, previous, parent, rows, current, path, answer>>

(* Mutant: one level too few. *)
NotFoundEarly ==
    /\ pc = "level"
    /\ frontier = {} \/ hops + 1 >= query.maxHops
    /\ nodes' = seen
    /\ truncated' = (frontier # {})
    /\ pc' = "answered"
    /\ UNCHANGED <<db, query, bfs, current, path, found>>

NotFound ==
    /\ pc = "level"
    /\ frontier = {} \/ hops >= query.maxHops
    /\ nodes' = seen
    /\ truncated' = (frontier # {})
    /\ pc' = "answered"
    /\ UNCHANGED <<db, query, bfs, current, path, found>>

(* Mutant: the collected relationships are not reversed. *)
WalkBackOnly ==
    /\ pc = "build"
    /\ current # query.from
    /\ path' = Append(path, previous[current])
    /\ current' = parent[current]
    /\ UNCHANGED <<db, query, pc, bfs, answer>>

(* buildPath walks back from the target and reverses what it collected. *)
WalkBack ==
    /\ pc = "build"
    /\ current # query.from
    /\ path' = <<previous[current]>> \o path
    /\ current' = parent[current]
    /\ UNCHANGED <<db, query, pc, bfs, answer>>

PathBuilt ==
    /\ pc = "build"
    /\ current = query.from
    /\ found' = TRUE
    /\ nodes' = UNION {Endpoints(path[i]) : i \in DOMAIN path}
    /\ pc' = "answered"
    /\ UNCHANGED <<db, query, bfs, current, path, truncated>>

(* Any query may fail (no such asset, a lost connection): the transaction  *)
(* is rolled back and the tool reports the error.                          *)
Fail ==
    /\ pc \in {"resolve", "level", "build"}
    /\ pc' = "failed"
    /\ UNCHANGED <<db, query, bfs, current, path, answer>>

Search ==
    \/ Resolve \/ QueryLevel \/ (\E row \in rows : ScanRow(row)) \/ EndLevel
    \/ NotFound \/ WalkBack \/ PathBuilt \/ Fail

Next == Search \/ CrawlCommits

Spec == Init /\ [][Next]_vars /\ WF_vars(Search)
-----------------------------------------------------------------------------
PC == {"resolve", "level", "scan", "build", "answered", "failed"}

(* Every variable has its type. *)
TypeOK ==
    /\ relationships \subseteq Rows
    /\ start \subseteq relationships
    /\ snapshots \subseteq SUBSET Rows
    /\ query \in Queries
    /\ pc \in PC
    /\ hops \in Nat
    /\ frontier \subseteq Node /\ next \subseteq Node /\ seen \subseteq Node
    /\ DOMAIN previous \subseteq seen /\ DOMAIN parent = DOMAIN previous
    /\ \A n \in DOMAIN previous : previous[n] \in Rows /\ parent[n] \in Node
    /\ rows \subseteq Rows
    /\ current \in Node
    /\ path \in Seq(Rows)
    /\ found \in BOOLEAN /\ truncated \in BOOLEAN /\ nodes \subseteq Node

(* A path that is returned leads from `from` to `to` through stored        *)
(* relationships that pass the filters, in the direction asked for, within *)
(* maxHops, never twice through a node, and its nodes are its endpoints.   *)
(* The variables keep their types all along.                               *)
PathNodes(w, k) == {w[i] : i \in 0..k}
FoundIsPath ==
    /\ TypeOK
    /\ Answered /\ found =>
        \E w \in [0..Len(path) -> Node] :
            /\ w[0] = query.from /\ w[Len(path)] = query.to
            /\ \A i \in 1..Len(path) : Step(path[i], query, w[i - 1], w[i])
            /\ \A i, j \in 0..Len(path) : i # j => w[i] # w[j]
            /\ \A i \in 1..Len(path) : path[i] \in relationships
            /\ Len(path) <= query.maxHops
            /\ nodes = PathNodes(w, Len(path))

(* Whatever commits while the levels are read, the path is no longer than  *)
(* any that existed when the search began; with SQLite, or when nothing    *)
(* commits, it is a shortest one.                                          *)
NoShorterAtStart ==
    Answered /\ found =>
        \A k \in 0..query.maxHops :
            Walk(k, start, query, query.from, query.to) => Len(path) <= k

(* An answer "not found" is right about the graph the search began with:   *)
(* no path within maxHops, and none at all unless the answer is marked     *)
(* truncated.                                                              *)
NotFoundIsRight ==
    Answered /\ ~found =>
        /\ \A k \in 0..query.maxHops : ~Walk(k, start, query, query.from, query.to)
        /\ ~truncated => Unreachable(start, query, query.from, query.to)

(* "one bounded shortest relationship path" (ports/repositories.go:221):   *)
(* the path is a shortest one of some state the table was in while the     *)
(* search ran.                                                             *)
ShortestInSomeSnapshot ==
    Answered /\ found =>
        \E s \in snapshots :
            /\ \A i \in DOMAIN path : path[i] \in s
            /\ \A k \in 0..(Len(path) - 1) : ~Walk(k, s, query, query.from, query.to)
=============================================================================
