--------------------------- MODULE Traversals_proofs --------------------------
(***************************************************************************)
(* Proofs about what the store answers while crawls commit, for any graph, *)
(* bounds, calls and commits between the queries.  ExploreTopology: the    *)
(* answer is within its bounds, connected, and complete unless it is       *)
(* marked truncated.  FindRelationshipPath: what it returns is a path, no  *)
(* longer than any that existed when the search began, and "not found" is  *)
(* right about that graph.  The tools: an asset is shown with the payload  *)
(* of one element, and what one answer shows the next ones find.           *)
(***************************************************************************)
EXTENDS Traversals, FiniteSetTheorems, WellFoundedInduction, TLAPS

(* What the traversal visits: seen holds the frontier and what was found   *)
(* of the next one; rows of a level touch its frontier.                    *)
Visited ==
    /\ pc = "root" => seen = {} /\ edges = {} /\ depth = 0
    /\ pc \in {"level", "scan"} => frontier \subseteq seen
    /\ pc = "scan" => next \subseteq seen
    /\ pc = "scan" => \A row \in rows : Matches(row, query) /\ Touches(row, frontier, query)
    /\ \A row \in edges : Endpoints(row) \subseteq seen
    /\ pc = "answered" => nodes = seen

Bounded ==
    /\ IsFiniteSet(seen) /\ Cardinality(seen) <= query.maxNodes
    /\ IsFiniteSet(edges) /\ Cardinality(edges) <= query.maxRelationships
    /\ depth <= query.maxDepth
    /\ pc = "scan" => depth < query.maxDepth

(* A node can be reached over the answer in at most so many steps.         *)
Near(n, far) == \E k \in 0..far : Walk(k, edges, query, query.root, n)

Reached ==
    /\ pc \in {"level", "scan"} => \A n \in frontier : Near(n, depth)
    /\ pc = "scan" => \A n \in next : Near(n, depth + 1)
    /\ \A n \in seen : Near(n, query.maxDepth)

(* The nodes that were expanded have their rows of the first graph in the  *)
(* answer or still ahead.                                                  *)
Expanded ==
    ~truncated =>
        /\ pc = "level" => FrontierRelationships(start, seen \ frontier, query) \subseteq edges
        /\ pc = "scan" => FrontierRelationships(start, seen \ next, query) \subseteq edges \union rows
        /\ pc \in {"nodes", "answered"} => FrontierRelationships(start, seen, query) \subseteq edges

IInv == TypeOK /\ Visited /\ Bounded /\ Reached /\ Expanded
-----------------------------------------------------------------------------
(* Touching a union of frontiers is touching one of them.                  *)
LEMMA TouchesUnion ==
    ASSUME NEW rels, NEW A, NEW B, NEW q
    PROVE  /\ FrontierRelationships(rels, A \union B, q) =
                FrontierRelationships(rels, A, q) \union FrontierRelationships(rels, B, q)
           /\ FrontierRelationships(rels, {}, q) = {}
           /\ A \subseteq B => FrontierRelationships(rels, A, q) \subseteq FrontierRelationships(rels, B, q)
  BY DEF FrontierRelationships, Touches

(* More rows lose no walk.                                                 *)
LEMMA WalkGrows ==
    ASSUME NEW k \in Nat, NEW rels, NEW more, rels \subseteq more, NEW q, NEW m, NEW n,
           Walk(k, rels, q, m, n)
    PROVE  Walk(k, more, q, m, n)
  BY DEF Walk, IsWalk

(* A step after a walk is a walk.                                          *)
LEMMA WalkExtends ==
    ASSUME NEW k \in Nat, NEW rels, NEW q, NEW m, NEW n, NEW to \in Node,
           NEW row \in rels, Step(row, q, n, to), Walk(k, rels, q, m, n)
    PROVE  Walk(k + 1, rels, q, m, to)
  <1>1. PICK w \in [0..k -> Node] : IsWalk(w, k, rels, q, m) /\ w[k] = n
    BY DEF Walk
  <1> DEFINE v == [i \in 0..(k + 1) |-> IF i = k + 1 THEN to ELSE w[i]]
  <1>2. /\ v \in [0..(k + 1) -> Node] /\ v[k + 1] = to
        /\ \A i \in 0..k : v[i] = w[i]
    OBVIOUS
  <1>3. v[0] = m
    BY <1>1, <1>2 DEF IsWalk
  <1> HIDE DEF v
  <1>4. \A i \in 0..k : \E r \in rels : Step(r, q, v[i], v[i + 1])
    <2> SUFFICES ASSUME NEW i \in 0..k PROVE \E r \in rels : Step(r, q, v[i], v[i + 1])
      OBVIOUS
    <2>1. CASE i = k
      <3>1. v[i] = n /\ v[i + 1] = to
        BY <1>1, <1>2, <2>1
      <3> QED
        BY <3>1
    <2>2. CASE i # k
      <3>1. i \in 0..(k - 1) /\ i + 1 \in 0..k
        BY <2>2
      <3>2. v[i] = w[i] /\ v[i + 1] = w[i + 1]
        BY <1>2, <3>1
      <3>3. \E r \in rels : Step(r, q, w[i], w[i + 1])
        BY <1>1, <3>1 DEF IsWalk
      <3> QED
        BY <3>2, <3>3
    <2> QED
      BY <2>1, <2>2
  <1>5. (k + 1) - 1 = k
    OBVIOUS
  <1>6. IsWalk(v, k + 1, rels, q, m)
    BY <1>2, <1>3, <1>4, <1>5 DEF IsWalk
  <1> QED
    BY <1>2, <1>6 DEF Walk

(* From the root to itself it is no step.                                  *)
LEMMA WalkNowhere ==
    ASSUME NEW rels, NEW q, NEW m \in Node
    PROVE  Walk(0, rels, q, m, m)
  <1> DEFINE w == [i \in 0..0 |-> m]
  <1>1. w \in [0..0 -> Node] /\ w[0] = m
    OBVIOUS
  <1>2. 0..(0 - 1) = {}
    OBVIOUS
  <1>3. IsWalk(w, 0, rels, q, m)
    BY <1>1, <1>2 DEF IsWalk
  <1> QED
    BY <1>1, <1>3 DEF Walk

(* Both ends of a row a level reads are one step from the frontier at most.*)
LEMMA EndsAreNear ==
    ASSUME query \in Query, Rows \subseteq Row, NEW row \in Rows, NEW more, row \in more, edges \subseteq more,
           Matches(row, query), Touches(row, frontier, query),
           depth \in Nat, \A n \in frontier : Near(n, depth), NEW e \in Endpoints(row)
    PROVE  \E k \in 0..(depth + 1) : Walk(k, more, query, query.root, e)
  <1>1. row \in Row /\ row.src \in Node /\ row.dst \in Node
    BY DEF Row
  <1>2. e \in Node /\ (e = row.src \/ e = row.dst)
    BY <1>1 DEF Endpoints
  <1>3. ASSUME NEW n \in frontier PROVE \E k \in 0..depth : Walk(k, more, query, query.root, n)
    <2>1. PICK k \in 0..depth : Walk(k, edges, query, query.root, n)
      BY <1>3 DEF Near
    <2>2. k \in Nat
      OBVIOUS
    <2>3. Walk(k, more, query, query.root, n)
      BY <2>1, <2>2, WalkGrows
    <2> QED
      BY <2>3
  <1>4. ASSUME NEW n \in frontier, Step(row, query, n, e) PROVE \E k \in 0..(depth + 1) : Walk(k, more, query, query.root, e)
    <2>1. PICK k \in 0..depth : Walk(k, more, query, query.root, n)
      BY <1>3, <1>4
    <2>2. k \in Nat /\ k + 1 \in 0..(depth + 1)
      OBVIOUS
    <2>3. Walk(k + 1, more, query, query.root, e)
      BY <1>2, <1>4, <2>1, <2>2, WalkExtends
    <2> QED
      BY <2>2, <2>3
  <1>5. CASE e \in frontier
    BY <1>3, <1>5
  <1>6. CASE e \notin frontier
    <2>1. \E n \in frontier : Step(row, query, n, e)
      BY <1>2, <1>6 DEF Touches, Step
    <2> QED
      BY <1>4, <2>1
  <1> QED
    BY <1>5, <1>6

(* An answer that grows brings nothing further away.                       *)
LEMMA NearStays ==
    ASSUME NEW n, NEW far \in Nat, NEW more \in Nat, far <= more, Near(n, far),
           edges \subseteq edges', query' = query
    PROVE  Near(n, more)'
  <1>1. PICK k \in 0..far : Walk(k, edges, query, query.root, n)
    BY DEF Near
  <1>2. k \in Nat /\ k \in 0..more
    OBVIOUS
  <1>3. Walk(k, edges', query, query.root, n)
    BY <1>1, <1>2, WalkGrows
  <1> QED
    BY <1>2, <1>3 DEF Near
-----------------------------------------------------------------------------
LEMMA InitIInv ==
    ASSUME Init, Queries \subseteq Query PROVE IInv
  <1>1. TypeOK
    BY DEF Init, TypeOK, PC
  <1>2. query \in Query
    BY DEF Init
  <1>3. Bounded
    BY <1>2, FS_EmptySet DEF Init, Bounded, Query
  <1>4. Visited /\ Reached /\ Expanded
    BY DEF Init, Visited, Reached, Expanded
  <1> QED
    BY <1>1, <1>3, <1>4 DEF IInv

(* A crawl that commits adds to the table; the first one stays as it was.  *)
LEMMA CommitIInv ==
    ASSUME IInv, Queries \subseteq Query, CrawlCommits PROVE IInv'
  <1>1. TypeOK'
    BY DEF IInv, TypeOK, CrawlCommits
  <1>2. /\ UNCHANGED <<start, query, pc, depth, frontier, next, seen, edges, rows, truncated, nodes>>
    BY DEF CrawlCommits
  <1>3. Visited' /\ Bounded'
    BY <1>2 DEF IInv, Visited, Bounded
  <1>4. Reached'
    BY <1>2 DEF IInv, Reached, Near
  <1>5. Expanded'
    BY <1>2 DEF IInv, Expanded
  <1> QED
    BY <1>1, <1>3, <1>4, <1>5 DEF IInv

(* The root alone is within any bound, and near itself.                    *)
LEMMA RootIInv ==
    ASSUME IInv, Queries \subseteq Query, Root PROVE IInv'
  <1>1. /\ query \in Query /\ query.root \in Node
        /\ query.maxNodes \in Nat \ {0} /\ query.maxDepth \in Nat \ {0}
    BY DEF IInv, TypeOK, Query
  <1>2. /\ pc = "root" /\ pc' = "level" /\ frontier' = {query.root} /\ seen' = {query.root}
        /\ UNCHANGED <<relationships, start, commits, query, depth, next, edges, rows, truncated, nodes>>
        /\ edges = {} /\ depth = 0
    BY DEF Root, db, IInv, Visited
  <1>3. TypeOK'
    BY <1>1, <1>2 DEF IInv, TypeOK, PC
  <1>4. Visited'
    BY <1>2 DEF IInv, Visited
  <1>5. Bounded'
    <2>1. IsFiniteSet({query.root}) /\ Cardinality({query.root}) = 1
      BY FS_Singleton
    <2> QED
      BY <1>1, <1>2, <2>1 DEF IInv, Bounded
  <1>6. Reached'
    <2>1. ASSUME NEW far \in Nat PROVE Near(query.root, far)'
      <3>1. 0 \in 0..far
        OBVIOUS
      <3> QED
        BY <1>1, <1>2, <3>1, WalkNowhere DEF Near
    <2>2. /\ \A n \in frontier' : Near(n, depth)'
          /\ \A n \in seen' : Near(n, query.maxDepth)'
      BY <1>1, <1>2, <2>1
    <2> QED
      BY <1>2, <2>2 DEF Reached, Near
  <1>7. Expanded'
    BY <1>2 DEF Expanded, FrontierRelationships, Touches
  <1> QED
    BY <1>3, <1>4, <1>5, <1>6, <1>7 DEF IInv

(* The rows of a level are those that touch the frontier now, so those     *)
(* that touched it at the start are among them.                            *)
LEMMA QueryIInv ==
    ASSUME IInv, Queries \subseteq Query, QueryLevel PROVE IInv'
  <1>1. /\ pc = "level" /\ pc' = "scan" /\ next' = {} /\ depth < query.maxDepth
        /\ rows' = FrontierRelationships(relationships, frontier, query)
        /\ UNCHANGED <<relationships, start, commits, query, depth, frontier, seen, edges, truncated, nodes>>
    BY DEF QueryLevel, db
  <1>2. TypeOK'
    BY <1>1 DEF IInv, TypeOK, PC, FrontierRelationships
  <1>3. Visited'
    BY <1>1 DEF IInv, Visited, FrontierRelationships
  <1>4. Bounded'
    BY <1>1 DEF IInv, Bounded
  <1>5. Reached'
    BY <1>1 DEF IInv, Reached, Near
  <1>6. Expanded'
    <2> SUFFICES ASSUME ~truncated
                 PROVE  FrontierRelationships(start, seen, query) \subseteq edges \union rows'
      BY <1>1 DEF Expanded
    <2>1. FrontierRelationships(start, seen \ frontier, query) \subseteq edges
      BY <1>1 DEF IInv, Expanded
    <2>2. FrontierRelationships(start, frontier, query) \subseteq rows'
      BY <1>1 DEF IInv, TypeOK, FrontierRelationships
    <2>3. seen = (seen \ frontier) \union frontier
      BY <1>1 DEF IInv, Visited
    <2> QED
      BY <2>1, <2>2, <2>3, TouchesUnion
  <1> QED
    BY <1>2, <1>3, <1>4, <1>5, <1>6 DEF IInv

(* A level that is scanned leaves its discoveries as the next frontier.    *)
LEMMA EndLevelIInv ==
    ASSUME IInv, Queries \subseteq Query, EndLevel PROVE IInv'
  <1>1. /\ pc = "scan" /\ rows = {} /\ frontier' = next /\ depth' = depth + 1 /\ pc' = "level"
        /\ UNCHANGED <<relationships, start, commits, query, next, seen, edges, rows, truncated, nodes>>
    BY DEF EndLevel, db
  <1>2. query \in Query /\ query.maxDepth \in Nat
    BY DEF IInv, TypeOK, Query
  <1>3. TypeOK'
    BY <1>1 DEF IInv, TypeOK, PC
  <1>4. Visited'
    BY <1>1 DEF IInv, Visited
  <1>5. Bounded'
    BY <1>1, <1>2 DEF IInv, Bounded, TypeOK
  <1>6. Reached'
    BY <1>1 DEF IInv, Reached, Near
  <1>7. Expanded'
    BY <1>1 DEF IInv, Expanded
  <1> QED
    BY <1>3, <1>4, <1>5, <1>6, <1>7 DEF IInv

(* Out of the loop with nothing left to expand, or marked truncated.       *)
LEMMA LeaveIInv ==
    ASSUME IInv, Queries \subseteq Query, EndLoop \/ ResolveNodes \/ Fail PROVE IInv'
  <1>1. CASE EndLoop
    <2>1. TypeOK' /\ Visited' /\ Bounded'
      BY <1>1 DEF EndLoop, db, IInv, TypeOK, PC, Visited, Bounded
    <2>2. Reached'
      BY <1>1 DEF EndLoop, db, IInv, Reached, Near
    <2>3. Expanded'
      <3> SUFFICES ASSUME ~truncated'
                   PROVE  FrontierRelationships(start, seen, query) \subseteq edges
        BY <1>1 DEF EndLoop, db, Expanded
      <3>1. ~truncated /\ frontier = {} /\ pc = "level"
        BY <1>1 DEF EndLoop, IInv, TypeOK
      <3>2. seen \ frontier = seen
        BY <3>1
      <3>3. FrontierRelationships(start, seen \ frontier, query) \subseteq edges
        BY <3>1 DEF IInv, Expanded
      <3> QED
        BY <3>2, <3>3
    <2> QED
      BY <2>1, <2>2, <2>3 DEF IInv
  <1>2. CASE ResolveNodes
    <2>1. TypeOK' /\ Visited' /\ Bounded'
      BY <1>2 DEF ResolveNodes, db, IInv, TypeOK, PC, Visited, Bounded
    <2>2. Reached'
      BY <1>2 DEF ResolveNodes, db, IInv, Reached, Near
    <2>3. Expanded'
      BY <1>2 DEF ResolveNodes, db, IInv, Expanded
    <2> QED
      BY <2>1, <2>2, <2>3 DEF IInv
  <1>3. CASE Fail
    <2>1. TypeOK' /\ Visited' /\ Bounded'
      BY <1>3 DEF Fail, db, IInv, TypeOK, PC, Visited, Bounded
    <2>2. Reached'
      BY <1>3 DEF Fail, db, IInv, Reached, Near
    <2>3. Expanded'
      BY <1>3 DEF Fail, db, IInv, Expanded
    <2> QED
      BY <2>1, <2>2, <2>3 DEF IInv
  <1> QED
    BY <1>1, <1>2, <1>3

(* A row that is known is in the answer; one left out truncates it.        *)
LEMMA PassRowIInv ==
    ASSUME IInv, Queries \subseteq Query, NEW row \in rows,
           ScanRow(row), SkipKnownRow(row) \/ LeaveOutRow(row)
    PROVE  IInv'
  <1>1. /\ pc = "scan" /\ pc' = "scan" /\ rows' = rows \ {row}
        /\ UNCHANGED <<relationships, start, commits, query, depth, frontier, nodes>>
        /\ UNCHANGED <<edges, seen, next>>
        /\ truncated' \in BOOLEAN
        /\ ~truncated' => ~truncated /\ row \in edges
    BY DEF ScanRow, db, SkipKnownRow, LeaveOutRow, IInv, TypeOK
  <1>2. TypeOK' /\ Visited' /\ Bounded'
    BY <1>1 DEF IInv, TypeOK, PC, Visited, Bounded
  <1>3. Reached'
    BY <1>1 DEF IInv, Reached, Near
  <1>4. Expanded'
    BY <1>1 DEF IInv, Expanded
  <1> QED
    BY <1>2, <1>3, <1>4 DEF IInv

(* A row that is added brings its ends, which are one step further.        *)
LEMMA AddRowIInv ==
    ASSUME IInv, Queries \subseteq Query, Rows \subseteq Row, NEW row \in rows,
           ScanRow(row), AddRow(row)
    PROVE  IInv'
  <1>1. /\ pc = "scan" /\ pc' = "scan" /\ rows' = rows \ {row}
        /\ UNCHANGED <<relationships, start, commits, query, depth, frontier, nodes, truncated>>
        /\ edges' = edges \union {row}
        /\ seen' = seen \union Endpoints(row)
        /\ next' = next \union (Endpoints(row) \ seen)
        /\ row \notin edges /\ ~TooManyNodes(row) /\ ~TooManyEdges
    BY DEF ScanRow, db, AddRow
  <1>2. /\ query \in Query /\ query.maxDepth \in Nat /\ query.maxNodes \in Nat
        /\ query.maxRelationships \in Nat /\ depth \in Nat /\ depth < query.maxDepth
        /\ row \in Rows
    BY <1>1 DEF IInv, TypeOK, Query, Bounded
  <1>3. row \in Row /\ Endpoints(row) \subseteq Node
    BY <1>2 DEF Row, Endpoints
  <1>4. TypeOK'
    BY <1>1, <1>2, <1>3 DEF IInv, TypeOK, PC
  <1>5. Visited'
    BY <1>1 DEF IInv, Visited
  <1>6. Bounded'
    <2>1. IsFiniteSet(seen \union Endpoints(row))
      <3>1. IsFiniteSet(Endpoints(row))
        <4>1. IsFiniteSet({row.src}) /\ IsFiniteSet({row.dst})
          BY FS_Singleton
        <4>2. Endpoints(row) = {row.src} \union {row.dst}
          BY DEF Endpoints
        <4> QED
          BY <4>1, <4>2, FS_Union
      <3> QED
        BY <3>1, FS_Union DEF IInv, Bounded
    <2>2. Cardinality(seen \union Endpoints(row)) <= query.maxNodes
      BY <1>1, <1>2, <2>1, FS_CardinalityType DEF TooManyNodes
    <2>3. IsFiniteSet(edges \union {row}) /\ Cardinality(edges \union {row}) = Cardinality(edges) + 1
      BY <1>1, FS_AddElement DEF IInv, Bounded
    <2>4. Cardinality(edges) + 1 <= query.maxRelationships
      BY <1>1, <1>2, FS_CardinalityType DEF TooManyEdges, IInv, Bounded
    <2> QED
      BY <1>1, <1>2, <2>1, <2>2, <2>3, <2>4 DEF IInv, Bounded
  <1>7. Reached'
    <2>1. /\ \A n \in frontier : Near(n, depth)
          /\ \A n \in next : Near(n, depth + 1)
          /\ \A n \in seen : Near(n, query.maxDepth)
      BY <1>1 DEF IInv, Reached
    <2>2. /\ edges \subseteq edges' /\ query' = query /\ depth' = depth /\ frontier' = frontier
          /\ depth + 1 \in Nat /\ depth + 1 <= query.maxDepth
      BY <1>1, <1>2
    <2>3. ASSUME NEW e \in Endpoints(row) PROVE Near(e, depth + 1)'
      <3>1. Matches(row, query) /\ Touches(row, frontier, query)
        BY <1>1 DEF IInv, Visited
      <3>2. row \in edges' /\ edges \subseteq edges'
        BY <1>1
      <3>3. \E k \in 0..(depth + 1) : Walk(k, edges', query, query.root, e)
        BY <1>2, <2>1, <3>1, <3>2, EndsAreNear
      <3> QED
        BY <2>2, <3>3 DEF Near
    <2>4. ASSUME NEW e \in Endpoints(row) PROVE Near(e, query.maxDepth)'
      <3>1. PICK k \in 0..(depth + 1) : Walk(k, edges', query', query'.root, e)
        BY <2>2, <2>3 DEF Near
      <3>2. k \in 0..query.maxDepth
        BY <1>2, <2>2
      <3> QED
        BY <2>2, <3>1, <3>2 DEF Near
    <2>5. \A n \in frontier' : Near(n, depth)'
      <3> SUFFICES ASSUME NEW n \in frontier PROVE Near(n, depth)'
        BY <2>2
      <3> QED
        BY <1>2, <2>1, <2>2, NearStays
    <2>6. \A n \in next' : Near(n, depth + 1)'
      <3> SUFFICES ASSUME NEW n, n \in next \/ n \in Endpoints(row) PROVE Near(n, depth + 1)'
        BY <1>1
      <3>1. CASE n \in next
        BY <2>1, <2>2, <3>1, NearStays
      <3> QED
        BY <2>3, <3>1
    <2>7. \A n \in seen' : Near(n, query.maxDepth)'
      <3> SUFFICES ASSUME NEW n, n \in seen \/ n \in Endpoints(row) PROVE Near(n, query.maxDepth)'
        BY <1>1
      <3>1. CASE n \in seen
        BY <1>2, <2>1, <2>2, <3>1, NearStays
      <3> QED
        BY <2>4, <3>1
    <2> QED
      BY <2>2, <2>5, <2>6, <2>7 DEF Reached, Near
  <1>8. Expanded'
    <2> SUFFICES ASSUME ~truncated
                 PROVE  FrontierRelationships(start, seen' \ next', query) \subseteq edges' \union rows'
      BY <1>1 DEF Expanded
    <2>1. FrontierRelationships(start, seen \ next, query) \subseteq edges \union rows
      BY <1>1 DEF IInv, Expanded
    <2>2. seen' \ next' = seen \ next
      BY <1>1
    <2> QED
      BY <1>1, <2>1, <2>2
  <1> QED
    BY <1>4, <1>5, <1>6, <1>7, <1>8 DEF IInv

LEMMA NextIInv ==
    ASSUME Queries \subseteq Query, Rows \subseteq Row PROVE IInv /\ [Next]_vars => IInv'
  <1> SUFFICES ASSUME IInv, [Next]_vars PROVE IInv'
    OBVIOUS
  <1>1. CASE UNCHANGED vars
    <2>1. TypeOK' /\ Visited' /\ Bounded'
      BY <1>1 DEF vars, db, IInv, TypeOK, Visited, Bounded
    <2>2. Reached'
      BY <1>1 DEF vars, db, IInv, Reached, Near
    <2>3. Expanded'
      BY <1>1 DEF vars, db, IInv, Expanded
    <2> QED
      BY <2>1, <2>2, <2>3 DEF IInv
  <1>2. ASSUME NEW row \in rows, ScanRow(row) PROVE IInv'
    <2>1. SkipKnownRow(row) \/ LeaveOutRow(row) \/ AddRow(row)
      BY <1>2 DEF ScanRow
    <2> QED
      BY <1>2, <2>1, PassRowIInv, AddRowIInv
  <1> QED
    BY <1>1, <1>2, CommitIInv, RootIInv, QueryIInv, EndLevelIInv, LeaveIInv DEF Next, Explore
-----------------------------------------------------------------------------
(* Every variable has its type, and what was visited is bounded, reached   *)
(* and expanded, in every reachable state.                                 *)
THEOREM Inductive == ASSUME Queries \subseteq Query, Rows \subseteq Row PROVE Spec => []IInv
  <1> QED
    BY InitIInv, NextIInv, PTL DEF Spec

(* Rows that were refused may come back, the bounds hold all the same.     *)
THEOREM StaysWithinBounds ==
    ASSUME Queries \subseteq Query, Rows \subseteq Row PROVE Spec => []WithinBounds
  <1>1. IInv => WithinBounds
    BY DEF IInv, Bounded, WithinBounds
  <1> QED
    BY <1>1, Inductive, PTL

(* Whichever rows were left out and committed meanwhile, each node of the  *)
(* answer is reached from the root over relationships of the answer.       *)
THEOREM StaysConnected ==
    ASSUME Queries \subseteq Query, Rows \subseteq Row PROVE Spec => []AnswerConnected
  <1>1. IInv => AnswerConnected
    BY DEF IInv, Visited, Reached, Near, Answered, AnswerConnected
  <1> QED
    BY <1>1, Inductive, PTL

(* What is not marked truncated has left nothing out.                      *)
THEOREM NothingLeftOut ==
    ASSUME Queries \subseteq Query, Rows \subseteq Row PROVE Spec => []CompleteUnlessTruncated
  <1>1. IInv => CompleteUnlessTruncated
    BY DEF IInv, Visited, Expanded, Answered, CompleteUnlessTruncated
  <1> QED
    BY <1>1, Inductive, PTL
-----------------------------------------------------------------------------
(* The path search, RelationshipPath as Traversals has it.  SearchIInv is  *)
(* its inductive invariant.                                                *)
(* The rows through which nodes were first seen lead from `from` to n.     *)
SearchIsTrail(w, k, n) ==
    /\ w \in [0..k -> seenNodes]
    /\ w[0] = search.from /\ w[k] = n
    /\ \A i \in 1..k : /\ w[i] \in DOMAIN previous
                       /\ parent[w[i]] = w[i - 1]
                       /\ Path!Step(previous[w[i]], search, w[i - 1], w[i])
    /\ \A i, j \in 0..k : i # j => w[i] # w[j]
SearchTrail(n, k) == \E w \in [0..k -> seenNodes] : SearchIsTrail(w, k, n)

(* Where buildPath is on the trail of the target.                          *)
SearchOnTrail(w, k) ==
    /\ Len(path) <= k
    /\ current = w[k - Len(path)]
    /\ \A i \in 1..Len(path) : path[i] = previous[w[k - Len(path) + i]]

(* What each phase of the search may rely on.                              *)
SearchPhases ==
    /\ step = "resolve" => hops = 0 /\ previous = [n \in {} |-> n] /\ path = <<>>
    /\ step \in {"resolve", "level", "scan"} => current = search.to /\ path = <<>>
    /\ step \in {"level", "scan", "build"} => search.from # search.to /\ search.from \in seenNodes
    /\ step \in {"level", "scan"} => search.to \notin seenNodes /\ levelNodes \subseteq seenNodes
    /\ step = "scan" =>
          /\ nextNodes \subseteq seenNodes
          /\ levelRows \subseteq table
          /\ \A row \in levelRows : Path!Matches(row, search) /\ Path!Touches(row, levelNodes, search)
    /\ step \in {"scan", "build"} => hops < search.maxHops
    /\ step \in {"resolve", "level", "scan", "build"} => ~found
    /\ \A n \in DOMAIN previous : previous[n] \in table

(* A node that is about to be expanded is as many steps away as levels     *)
(* were read.                                                              *)
SearchTrails ==
    /\ step \in {"level", "scan"} => \A n \in levelNodes : SearchTrail(n, hops)
    /\ step = "scan" => \A n \in nextNodes : SearchTrail(n, hops + 1)
    /\ step = "build" =>
          \E w \in [0..(hops + 1) -> seenNodes] :
              SearchIsTrail(w, hops + 1, search.to) /\ SearchOnTrail(w, hops + 1)

(* Nothing of the first graph is missed: whatever a walk of at most `hops` *)
(* steps reaches was seen, and the nodes expanded so far have no step to a *)
(* node that was not.                                                      *)
SearchWithin(C, k) == \A j \in 0..k : \A n \in Node : Path!Walk(j, began, search, search.from, n) => n \in C
SearchExpanded(C, left) ==
    \A u \in C : \A row \in began \ left : \A v \in Node : Path!Step(row, search, u, v) => v \in seenNodes
SearchCovered ==
    /\ step = "level" => SearchWithin(seenNodes, hops) /\ SearchExpanded(seenNodes \ levelNodes, {})
    /\ step = "scan" => SearchWithin(seenNodes \ nextNodes, hops) /\ SearchExpanded(seenNodes \ nextNodes, levelRows)
    /\ step = "build" => \A j \in 0..hops : ~Path!Walk(j, began, search, search.from, search.to)

SearchIInv ==
    /\ Path!TypeOK /\ SearchPhases /\ SearchTrails /\ SearchCovered
    /\ Path!FoundIsPath /\ Path!NoShorterAtStart /\ Path!NotFoundIsRight
-----------------------------------------------------------------------------
(* The least number principle, from the library's well-founded order.      *)
LEMMA LeastNumber ==
    ASSUME NEW S \in SUBSET Nat, S # {} PROVE \E m \in S : \A n \in S : m <= n
  <1> DEFINE less == {ss \in Nat \X Nat : ss[1] < ss[2]}
  <1>1. IsWellFoundedOn(less, Nat)
    BY NatLessThanWellFounded DEF OpToRel
  <1> HIDE DEF less
  <1>2. PICK m \in S : \A n \in S : <<n, m>> \notin less
    BY <1>1, WFMin
  <1>3. ASSUME NEW n \in S PROVE m <= n
    <2>1. <<n, m>> \in Nat \X Nat /\ m \in Nat /\ n \in Nat
      OBVIOUS
    <2>2. ~(n < m)
      BY <1>2, <2>1 DEF less
    <2> QED
      BY <2>1, <2>2
  <1> QED
    BY <1>3

LEMMA SearchWalkNowhere ==
    ASSUME NEW rels, NEW q, NEW m, NEW n, Path!Walk(0, rels, q, m, n) PROVE n = m
  BY DEF Path!Walk, Path!IsWalk

(* The last step of a walk.                                                *)
LEMMA SearchWalkSplits ==
    ASSUME NEW k \in Nat, NEW rels, NEW q, NEW m, NEW n, Path!Walk(k + 1, rels, q, m, n)
    PROVE  \E u \in Node : \E row \in rels : Path!Walk(k, rels, q, m, u) /\ Path!Step(row, q, u, n)
  <1>1. PICK w \in [0..(k + 1) -> Node] : Path!IsWalk(w, k + 1, rels, q, m) /\ w[k + 1] = n
    BY DEF Path!Walk
  <1> DEFINE v == [i \in 0..k |-> w[i]]
  <1>2. (k + 1) - 1 = k /\ k \in 0..k /\ 0 \in 0..k /\ 0..k \subseteq 0..(k + 1)
    OBVIOUS
  <1>3. v \in [0..k -> Node] /\ v[0] = m /\ v[k] = w[k] /\ w[k] \in Node
    BY <1>1, <1>2 DEF Path!IsWalk
  <1>4. \A i \in 0..k : \E row \in rels : Path!Step(row, q, w[i], w[i + 1])
    BY <1>1, <1>2 DEF Path!IsWalk
  <1>5. \A i \in 0..(k - 1) : i \in 0..k /\ i + 1 \in 0..k
    OBVIOUS
  <1>6. \A i \in 0..(k - 1) : v[i] = w[i] /\ v[i + 1] = w[i + 1]
    BY <1>5
  <1> HIDE DEF v
  <1>7. Path!IsWalk(v, k, rels, q, m)
    BY <1>3, <1>4, <1>5, <1>6 DEF Path!IsWalk
  <1>8. Path!Walk(k, rels, q, m, w[k])
    BY <1>3, <1>7 DEF Path!Walk
  <1>9. \E row \in rels : Path!Step(row, q, w[k], n)
    BY <1>1, <1>2, <1>4
  <1> QED
    BY <1>3, <1>8, <1>9

(* A walk does not leave a set that is closed under the steps.             *)
LEMMA SearchNoWayOut ==
    ASSUME NEW C, NEW rels, NEW q, NEW m \in C, NEW n, NEW k \in Nat,
           \A row \in rels : \A u \in C : \A v \in Node : Path!Step(row, q, u, v) => v \in C,
           Path!Walk(k, rels, q, m, n)
    PROVE  n \in C
  <1>1. PICK w \in [0..k -> Node] : Path!IsWalk(w, k, rels, q, m) /\ w[k] = n
    BY DEF Path!Walk
  <1> DEFINE Outside == {i \in 0..k : w[i] \notin C}
  <1>2. SUFFICES ASSUME Outside # {} PROVE FALSE
    BY <1>1
  <1>3. PICK i \in Outside : \A j \in Outside : i <= j
    <2>1. Outside \in SUBSET Nat
      OBVIOUS
    <2> QED
      BY <1>2, <2>1, LeastNumber
  <1>4. i \in 0..k /\ w[i] \notin C /\ i # 0
    BY <1>1, <1>3 DEF Path!IsWalk
  <1>5. i - 1 \in 0..(k - 1) /\ i - 1 \in 0..k /\ (i - 1) + 1 = i /\ ~(i <= i - 1)
    BY <1>4
  <1>6. w[i - 1] \in C
    BY <1>3, <1>5
  <1>7. \E row \in rels : Path!Step(row, q, w[i - 1], w[i])
    BY <1>1, <1>5 DEF Path!IsWalk
  <1> QED
    BY <1>4, <1>6, <1>7

(* A row of a level has at most one end that was not seen, and leads to it *)
(* from the frontier.                                                      *)
LEMMA SearchNewNeighbor ==
    ASSUME NEW row \in Path!Row, NEW q, NEW F, NEW S, F \subseteq S,
           Path!Matches(row, q), Path!Touches(row, F, q), NEW n \in Path!Neighbors(row, F) \ S
    PROVE  /\ n \in Node /\ Path!OppositeEndpoint(row, n) \in F
           /\ Path!Step(row, q, Path!OppositeEndpoint(row, n), n)
           /\ \A v \in Path!Neighbors(row, F) : v \in S \/ v = n
  <1>1. row.src \in Node /\ row.dst \in Node
    BY DEF Path!Row
  <1> QED
    BY <1>1 DEF Path!Neighbors, Path!Endpoints, Path!OppositeEndpoint, Path!Touches, Path!Step

LEMMA SearchStepFromFrontier ==
    ASSUME NEW row, NEW q, NEW F, NEW u \in F, NEW v, Path!Step(row, q, u, v)
    PROVE  Path!Matches(row, q) /\ Path!Touches(row, F, q) /\ (v = u \/ v \in Path!Neighbors(row, F))
  BY DEF Path!Step, Path!Touches, Path!Neighbors, Path!Endpoints, Path!OppositeEndpoint

(* Nodes that are seen later do not disturb a trail.                       *)
LEMMA SearchTrailStays ==
    ASSUME NEW n, NEW k \in Nat, NEW w \in [0..k -> seenNodes], SearchIsTrail(w, k, n),
           search' = search, seenNodes \subseteq seenNodes',
           \A m \in DOMAIN previous : /\ m \in DOMAIN previous'
                                      /\ previous'[m] = previous[m] /\ parent'[m] = parent[m]
    PROVE  w \in [0..k -> seenNodes'] /\ SearchIsTrail(w, k, n)'
  <1>1. w \in [0..k -> seenNodes']
    OBVIOUS
  <1>2. \A i \in 1..k : /\ w[i] \in DOMAIN previous'
                        /\ parent'[w[i]] = w[i - 1]
                        /\ Path!Step(previous'[w[i]], search, w[i - 1], w[i])
    BY DEF SearchIsTrail
  <1> QED
    BY <1>1, <1>2 DEF SearchIsTrail

LEMMA SearchTrailExtends ==
    ASSUME NEW m, NEW k \in Nat, SearchTrail(m, k), NEW n, n \notin seenNodes, NEW row,
           Path!Step(row, search, m, n),
           search' = search, seenNodes' = seenNodes \union {n}, DOMAIN previous \subseteq seenNodes,
           n \in DOMAIN previous', previous'[n] = row, parent'[n] = m,
           \A i \in DOMAIN previous : /\ i \in DOMAIN previous'
                                      /\ previous'[i] = previous[i] /\ parent'[i] = parent[i]
    PROVE  \E w \in [0..(k + 1) -> seenNodes'] : SearchIsTrail(w, k + 1, n)'
  <1>1. PICK v \in [0..k -> seenNodes] : SearchIsTrail(v, k, m)
    BY DEF SearchTrail
  <1> DEFINE w == [i \in 0..(k + 1) |-> IF i = k + 1 THEN n ELSE v[i]]
  <1>2. /\ k + 1 \in 0..(k + 1) /\ 0 \in 0..k /\ k \in 0..k /\ k + 1 \notin 0..k
        /\ 0..(k + 1) = 0..k \union {k + 1} /\ 1..(k + 1) = 1..k \union {k + 1}
        /\ \A i \in 1..k : i \in 0..k /\ i - 1 \in 0..k
        /\ (k + 1) - 1 = k
    OBVIOUS
  <1>3. w \in [0..(k + 1) -> seenNodes'] /\ w[k + 1] = n /\ \A i \in 0..k : w[i] = v[i] /\ v[i] \in seenNodes
    BY <1>1, <1>2
  <1> HIDE DEF w
  <1>4. w[0] = search.from /\ w[k] = m
    BY <1>1, <1>2, <1>3 DEF SearchIsTrail
  <1>5. \A i \in 1..(k + 1) : /\ w[i] \in DOMAIN previous'
                              /\ parent'[w[i]] = w[i - 1]
                              /\ Path!Step(previous'[w[i]], search, w[i - 1], w[i])
    <2>1. ASSUME NEW i \in 1..k
          PROVE  /\ w[i] \in DOMAIN previous' /\ parent'[w[i]] = w[i - 1]
                 /\ Path!Step(previous'[w[i]], search, w[i - 1], w[i])
      <3>1. w[i] = v[i] /\ w[i - 1] = v[i - 1]
        BY <1>2, <1>3
      <3> QED
        BY <1>1, <3>1 DEF SearchIsTrail
    <2>2. /\ w[k + 1] \in DOMAIN previous' /\ parent'[w[k + 1]] = w[k]
          /\ Path!Step(previous'[w[k + 1]], search, w[k], w[k + 1])
      BY <1>3, <1>4
    <2> QED
      BY <1>2, <2>1, <2>2
  <1>6. \A i, j \in 0..(k + 1) : i # j => w[i] # w[j]
    <2>1. \A i, j \in 0..k : i # j => v[i] # v[j]
      BY <1>1 DEF SearchIsTrail
    <2> QED
      BY <1>2, <1>3, <2>1
  <1> QED
    BY <1>3, <1>4, <1>5, <1>6 DEF SearchIsTrail
-----------------------------------------------------------------------------
(* Before the answer nothing is claimed of it.                             *)
LEMMA SearchUnanswered ==
    ASSUME Path!TypeOK', step' # "answered"
    PROVE  Path!FoundIsPath' /\ Path!NoShorterAtStart' /\ Path!NotFoundIsRight'
  BY DEF Path!FoundIsPath, Path!NoShorterAtStart, Path!NotFoundIsRight, Path!Answered

LEMMA SearchInitIInv ==
    ASSUME Path!Init, Searches \subseteq Path!Query PROVE SearchIInv
  <1>1. search \in Path!Query /\ search.to \in Node
    BY DEF Path!Init, Path!Query
  <1>2. Path!TypeOK
    <2>1. path \in Seq(PathRows) /\ hops \in Nat
      BY DEF Path!Init
    <2>2. /\ table \subseteq PathRows /\ began \subseteq table
          /\ snapshots \subseteq SUBSET PathRows /\ search \in Searches /\ step \in Path!PC
      BY DEF Path!Init, Path!PC
    <2>3. /\ levelNodes \subseteq Node /\ nextNodes \subseteq Node /\ seenNodes \subseteq Node
          /\ levelRows \subseteq PathRows /\ pathNodes \subseteq Node
          /\ found \in BOOLEAN /\ cut \in BOOLEAN /\ current \in Node
      BY <1>1 DEF Path!Init
    <2>4. DOMAIN previous = {} /\ DOMAIN parent = {}
      BY DEF Path!Init
    <2> QED
      BY <2>1, <2>2, <2>3, <2>4 DEF Path!TypeOK
  <1>3. SearchPhases
    BY DEF Path!Init, SearchPhases
  <1>4. SearchTrails /\ SearchCovered
    BY DEF Path!Init, SearchTrails, SearchCovered
  <1>5. Path!FoundIsPath /\ Path!NoShorterAtStart /\ Path!NotFoundIsRight
    BY <1>2 DEF Path!Init, Path!FoundIsPath, Path!NoShorterAtStart, Path!NotFoundIsRight,
       Path!Answered
  <1> QED
    BY <1>2, <1>3, <1>4, <1>5 DEF SearchIInv

(* A crawl that commits adds to the table; the first one stays as it was.  *)
LEMMA SearchCommitIInv ==
    ASSUME SearchIInv, Path!CrawlCommits PROVE SearchIInv'
  <1>1. /\ step \in {"level", "scan", "build"}
        /\ table \subseteq table' /\ table' \subseteq PathRows
        /\ snapshots' = snapshots \union {table'}
        /\ UNCHANGED <<began, search, step, hops, levelNodes, nextNodes, seenNodes, previous, parent, levelRows,
                       current, path, found, cut, pathNodes>>
    BY DEF Path!CrawlCommits, Path!bfs, Path!answer, SearchIInv, Path!TypeOK
  <1>2. Path!TypeOK'
    BY <1>1 DEF SearchIInv, Path!TypeOK
  <1>3. SearchPhases'
    BY <1>1 DEF SearchIInv, SearchPhases
  <1>4. SearchTrails'
    BY <1>1 DEF SearchIInv, SearchTrails, SearchTrail, SearchIsTrail, SearchOnTrail
  <1>5. SearchCovered'
    BY <1>1 DEF SearchIInv, SearchCovered, SearchWithin, SearchExpanded
  <1>6. Path!FoundIsPath' /\ Path!NoShorterAtStart' /\ Path!NotFoundIsRight'
    BY <1>1, <1>2, SearchUnanswered
  <1> QED
    BY <1>2, <1>3, <1>4, <1>5, <1>6 DEF SearchIInv

(* A path of no relationship from a node to itself, or the first level.    *)
LEMMA SearchResolveIInv ==
    ASSUME SearchIInv, Searches \subseteq Path!Query, Path!Resolve PROVE SearchIInv'
  <1>1. /\ step = "resolve" /\ hops = 0 /\ path = <<>> /\ current = search.to /\ ~found
        /\ DOMAIN previous = {}
        /\ UNCHANGED <<table, began, snapshots, search, current, path, hops, nextNodes,
                       previous, parent, levelRows>>
    BY DEF Path!Resolve, SearchIInv, SearchPhases, Path!db, Path!bfs, Path!answer
  <1>2. search \in Path!Query /\ search.from \in Node /\ search.to \in Node /\ search.maxHops \in Nat \ {0}
    BY DEF SearchIInv, Path!TypeOK, Path!Query
  <1>3. CASE search.from = search.to
    <2>1. /\ step' = "answered" /\ found' = TRUE /\ pathNodes' = {search.from}
          /\ UNCHANGED <<levelNodes, seenNodes, cut>>
      BY <1>3 DEF Path!Resolve, Path!bfs
    <2>2. Path!TypeOK'
      BY <1>1, <1>2, <2>1 DEF SearchIInv, Path!TypeOK, Path!PC
    <2>3. SearchPhases' /\ SearchTrails' /\ SearchCovered'
      BY <1>1, <2>1 DEF SearchPhases, SearchTrails, SearchCovered
    <2>4. Len(path) = 0 /\ 1..0 = {} /\ 0..0 = {0}
      BY <1>1
    <2>5. Path!FoundIsPath'
      <3> DEFINE w == [i \in 0..0 |-> search.from]
      <3>1. w \in [0..0 -> Node] /\ w[0] = search.from
        BY <1>2
      <3>2. Path!PathNodes(w, 0) = {search.from}
        BY <2>4, <3>1 DEF Path!PathNodes
      <3> HIDE DEF w
      <3>3. \E v \in [0..Len(path) -> Node] :
              /\ v[0] = search.from /\ v[Len(path)] = search.to
              /\ \A i \in 1..Len(path) : Path!Step(path[i], search, v[i - 1], v[i])
              /\ \A i, j \in 0..Len(path) : i # j => v[i] # v[j]
              /\ \A i \in 1..Len(path) : path[i] \in table
              /\ Len(path) <= search.maxHops
              /\ pathNodes' = Path!PathNodes(v, Len(path))
        BY <1>2, <1>3, <2>1, <2>4, <3>1, <3>2
      <3> QED
        BY <1>1, <2>2, <3>3 DEF Path!FoundIsPath, Path!PathNodes
    <2>6. Path!NoShorterAtStart' /\ Path!NotFoundIsRight'
      BY <1>1, <1>2, <2>1, <2>4 DEF Path!NoShorterAtStart, Path!NotFoundIsRight
    <2> QED
      BY <2>2, <2>3, <2>5, <2>6 DEF SearchIInv
  <1>4. CASE search.from # search.to
    <2>1. /\ step' = "level" /\ levelNodes' = {search.from} /\ seenNodes' = {search.from}
          /\ UNCHANGED <<found, cut, pathNodes>>
      BY <1>4 DEF Path!Resolve, Path!answer
    <2>2. Path!TypeOK'
      BY <1>1, <1>2, <2>1 DEF SearchIInv, Path!TypeOK, Path!PC
    <2>3. SearchPhases'
      BY <1>1, <1>4, <2>1 DEF SearchPhases
    <2>4. SearchTrails'
      <3> DEFINE w == [i \in 0..0 |-> search.from]
      <3>1. 0..0 = {0} /\ 1..0 = {}
        OBVIOUS
      <3>2. w \in [0..0 -> {search.from}] /\ w[0] = search.from
        BY <3>1
      <3> HIDE DEF w
      <3>3. SearchIsTrail(w, 0, search.from)'
        BY <1>1, <2>1, <3>1, <3>2 DEF SearchIsTrail
      <3>4. SearchTrail(search.from, 0)'
        BY SMTT(30), <1>1, <2>1, <3>2, <3>3 DEF SearchTrail
      <3> QED
        BY <1>1, <2>1, <3>4 DEF SearchTrails
    <2>5. SearchCovered'
      <3>1. ASSUME NEW j \in 0..0, NEW n, Path!Walk(j, began, search, search.from, n) PROVE n = search.from
        <4>1. j = 0
          OBVIOUS
        <4> QED
          BY <3>1, <4>1, SearchWalkNowhere
      <3> QED
        BY <1>1, <2>1, <3>1 DEF SearchCovered, SearchWithin, SearchExpanded
    <2>6. Path!FoundIsPath' /\ Path!NoShorterAtStart' /\ Path!NotFoundIsRight'
      BY <2>1, <2>2, SearchUnanswered
    <2> QED
      BY <2>2, <2>3, <2>4, <2>5, <2>6 DEF SearchIInv
  <1> QED
    BY <1>3, <1>4

(* The rows of a level are those through which its frontier has steps.     *)
LEMMA SearchQueryLevelIInv ==
    ASSUME SearchIInv, Path!QueryLevel PROVE SearchIInv'
  <1>1. /\ step = "level" /\ step' = "scan" /\ hops < search.maxHops
        /\ levelRows' = Path!FrontierRelationships(table, levelNodes, search) /\ nextNodes' = {}
        /\ UNCHANGED <<table, began, snapshots, search, hops, levelNodes, seenNodes, previous,
                       parent, current, path, found, cut, pathNodes>>
    BY DEF Path!QueryLevel, Path!db, Path!answer
  <1>2. levelRows' \subseteq table /\ levelRows' \subseteq PathRows /\ began \subseteq table
    BY <1>1 DEF Path!FrontierRelationships, SearchIInv, Path!TypeOK
  <1>3. Path!TypeOK'
    BY <1>1, <1>2 DEF SearchIInv, Path!TypeOK, Path!PC
  <1>4. SearchPhases'
    BY <1>1, <1>2 DEF SearchIInv, SearchPhases, Path!FrontierRelationships
  <1>5. SearchTrails'
    BY <1>1 DEF SearchIInv, SearchTrails, SearchTrail, SearchIsTrail
  <1>6. SearchCovered'
    <2>1. SearchWithin(seenNodes, hops) /\ SearchExpanded(seenNodes \ levelNodes, {})
      BY <1>1 DEF SearchIInv, SearchCovered
    <2>2. ASSUME NEW u \in seenNodes, NEW row \in began \ levelRows', NEW v \in Node, Path!Step(row, search, u, v)
          PROVE  v \in seenNodes
      <3>1. CASE u \in levelNodes
        BY <1>1, <1>2, <2>2, <3>1, SearchStepFromFrontier DEF Path!FrontierRelationships
      <3>2. CASE u \notin levelNodes
        BY <2>1, <2>2, <3>2 DEF SearchExpanded
      <3> QED
        BY <3>1, <3>2
    <2> QED
      BY <1>1, <2>1, <2>2 DEF SearchCovered, SearchWithin, SearchExpanded
  <1>7. Path!FoundIsPath' /\ Path!NoShorterAtStart' /\ Path!NotFoundIsRight'
    BY <1>1, <1>3, SearchUnanswered
  <1> QED
    BY <1>3, <1>4, <1>5, <1>6, <1>7 DEF SearchIInv

(* A row that leads nowhere new.                                           *)
LEMMA SearchOldRowIInv ==
    ASSUME SearchIInv, NEW row \in levelRows, step = "scan", Path!Neighbors(row,
           levelNodes) \subseteq seenNodes,
           levelRows' = levelRows \ {row},
           UNCHANGED <<table, began, snapshots, search, step, hops, levelNodes, nextNodes, seenNodes,
                       previous, parent, current, path, found, cut, pathNodes>>
    PROVE  SearchIInv'
  <1>1. Path!TypeOK'
    BY DEF SearchIInv, Path!TypeOK
  <1>2. SearchPhases'
    BY DEF SearchIInv, SearchPhases
  <1>3. SearchTrails'
    BY DEF SearchIInv, SearchTrails, SearchTrail, SearchIsTrail
  <1>4. SearchCovered'
    <2>1. SearchWithin(seenNodes \ nextNodes, hops) /\ SearchExpanded(seenNodes \ nextNodes, levelRows)
      BY DEF SearchIInv, SearchCovered
    <2>2. ASSUME NEW u \in seenNodes \ nextNodes, NEW r \in began \ (levelRows \ {row}), NEW v \in Node,
                 Path!Step(r, search, u, v)
          PROVE  v \in seenNodes
      <3>1. CASE r # row
        BY <2>1, <2>2, <3>1 DEF SearchExpanded
      <3>2. CASE r = row /\ u \in levelNodes
        BY <2>2, <3>2, SearchStepFromFrontier
      <3>3. CASE r = row /\ u \notin levelNodes
        <4>1. Path!Touches(row, levelNodes, search) /\ levelNodes \subseteq seenNodes
          BY DEF SearchIInv, SearchPhases
        <4> QED
          BY <2>2, <3>3, <4>1 DEF Path!Touches, Path!Step
      <3> QED
        BY <3>1, <3>2, <3>3
    <2> QED
      BY <2>1, <2>2 DEF SearchCovered, SearchWithin, SearchExpanded
  <1>5. Path!FoundIsPath' /\ Path!NoShorterAtStart' /\ Path!NotFoundIsRight'
    BY <1>1, SearchUnanswered
  <1> QED
    BY <1>1, <1>2, <1>3, <1>4, <1>5 DEF SearchIInv

(* A row that leads to a node nobody has seen: a step longer than the      *)
(* trail of the frontier's end, and the end of the search at the target.   *)
LEMMA SearchNewRowIInv ==
    ASSUME SearchIInv, PathRows \subseteq Path!Row, NEW row \in levelRows, step = "scan",
           NEW n \in Path!Neighbors(row, levelNodes) \ seenNodes, levelRows' = levelRows \ {row},
           seenNodes' = seenNodes \union {n},
           previous' = [m \in DOMAIN previous \union {n} |-> IF m = n THEN row ELSE previous[m]],
           parent' = [m \in DOMAIN parent \union {n} |->
                         IF m = n THEN Path!OppositeEndpoint(row, n) ELSE parent[m]],
           \/ n = search.to /\ step' = "build" /\ nextNodes' = nextNodes
           \/ n # search.to /\ step' = step /\ nextNodes' = nextNodes \union {n},
           UNCHANGED <<table, began, snapshots, search, hops, levelNodes, current, path,
                       found, cut, pathNodes>>
    PROVE  SearchIInv'
  <1> DEFINE m == Path!OppositeEndpoint(row, n)
  <1>1. /\ row \in PathRows /\ row \in Path!Row /\ row \in table /\ levelNodes \subseteq seenNodes
        /\ Path!Matches(row, search) /\ Path!Touches(row, levelNodes, search)
        /\ nextNodes \subseteq seenNodes /\ seenNodes \subseteq Node /\ DOMAIN previous \subseteq seenNodes
        /\ DOMAIN parent = DOMAIN previous /\ hops \in Nat
        /\ search.to \notin seenNodes /\ search.from \in seenNodes /\ search.from # search.to
        /\ path = <<>> /\ current = search.to /\ hops < search.maxHops /\ ~found
    BY DEF SearchIInv, Path!TypeOK, SearchPhases
  <1>2. /\ n \in Node /\ m \in levelNodes /\ Path!Step(row, search, m, n)
        /\ \A v \in Path!Neighbors(row, levelNodes) : v \in seenNodes \/ v = n
    BY <1>1, SearchNewNeighbor
  <1>3. /\ n \in DOMAIN previous' /\ previous'[n] = row /\ parent'[n] = m
        /\ DOMAIN previous' = DOMAIN previous \union {n} /\ DOMAIN parent' = DOMAIN previous'
        /\ \A i \in DOMAIN previous : /\ i \in DOMAIN previous'
                                      /\ previous'[i] = previous[i] /\ parent'[i] = parent[i]
    BY <1>1
  <1> HIDE DEF m
  <1>4. Path!TypeOK'
    <2>1. \A i \in DOMAIN previous' : previous'[i] \in PathRows /\ parent'[i] \in Node
      BY <1>1, <1>2, <1>3 DEF SearchIInv, Path!TypeOK
    <2>2. step' \in Path!PC /\ nextNodes' \subseteq Node /\ seenNodes' \subseteq Node /\ levelRows' \subseteq PathRows
      BY <1>1, <1>2 DEF SearchIInv, Path!TypeOK, Path!PC
    <2>3. DOMAIN previous' \subseteq seenNodes'
      BY <1>1, <1>3
    <2> QED
      BY <1>3, <2>1, <2>2, <2>3 DEF SearchIInv, Path!TypeOK
  <1>5. SearchPhases'
    <2>1. \A i \in DOMAIN previous' : previous'[i] \in table
      BY <1>1, <1>3 DEF SearchIInv, SearchPhases
    <2>2. n # search.to => search.to \notin seenNodes'
      BY <1>1
    <2>3. levelNodes \subseteq seenNodes' /\ nextNodes' \subseteq seenNodes' /\ search.from \in seenNodes'
      BY <1>1
    <2>4. \A r \in levelRows' : r \in table /\ Path!Matches(r, search) /\ Path!Touches(r, levelNodes, search)
      BY DEF SearchIInv, SearchPhases
    <2> QED
      BY <1>1, <2>1, <2>2, <2>3, <2>4 DEF SearchPhases
  <1>6. \E w \in [0..(hops + 1) -> seenNodes'] : SearchIsTrail(w, hops + 1, n)'
    <2>1. SearchTrail(m, hops)
      BY <1>2 DEF SearchIInv, SearchTrails
    <2> QED
      BY <1>1, <1>2, <1>3, <2>1, SearchTrailExtends
  <1>7. ASSUME NEW i, NEW k \in Nat, SearchTrail(i, k) PROVE SearchTrail(i, k)'
    <2>1. PICK w \in [0..k -> seenNodes] : SearchIsTrail(w, k, i)
      BY <1>7 DEF SearchTrail
    <2>2. w \in [0..k -> seenNodes'] /\ SearchIsTrail(w, k, i)'
      BY <1>3, <2>1, SearchTrailStays
    <2> QED
      BY <2>2 DEF SearchTrail
  <1>8. SearchTrails'
    <2>1. SearchTrail(n, hops + 1)'
      BY <1>6 DEF SearchTrail
    <2>2. CASE n # search.to
      <3>1. hops + 1 \in Nat /\ step' = "scan" /\ nextNodes' = nextNodes \union {n}
        BY <1>1, <2>2
      <3>2. \A i \in levelNodes : SearchTrail(i, hops)'
        BY <1>1, <1>7 DEF SearchIInv, SearchTrails
      <3>3. \A i \in nextNodes : SearchTrail(i, hops + 1)'
        BY <1>7, <3>1 DEF SearchIInv, SearchTrails
      <3> QED
        BY <2>1, <3>1, <3>2, <3>3 DEF SearchTrails
    <2>3. CASE n = search.to
      <3>1. step' = "build"
        BY <2>3
      <3>2. PICK w \in [0..(hops + 1) -> seenNodes'] : SearchIsTrail(w, hops + 1, n)'
        BY <1>6
      <3>3. Len(path) = 0 /\ 1..0 = {} /\ (hops + 1) - 0 = hops + 1 /\ 0 <= hops + 1
        BY <1>1
      <3>4. w[hops + 1] = search.to
        BY <2>3, <3>2 DEF SearchIsTrail
      <3>5. SearchOnTrail(w, hops + 1)'
        BY <1>1, <3>3, <3>4 DEF SearchOnTrail
      <3> QED
        BY <2>3, <3>1, <3>2, <3>5 DEF SearchTrails
    <2> QED
      BY <2>2, <2>3
  <1>9. SearchCovered'
    <2>1. SearchWithin(seenNodes \ nextNodes, hops) /\ SearchExpanded(seenNodes \ nextNodes, levelRows)
      BY DEF SearchIInv, SearchCovered
    <2>2. CASE n # search.to
      <3>1. step' = "scan" /\ seenNodes' \ nextNodes' = seenNodes \ nextNodes
        BY <1>1, <2>2
      <3>2. ASSUME NEW u \in seenNodes \ nextNodes, NEW r \in began \ (levelRows \ {row}), NEW v \in Node,
                   Path!Step(r, search, u, v)
            PROVE  v \in seenNodes'
        <4>1. CASE r # row
          BY <2>1, <3>2, <4>1 DEF SearchExpanded
        <4>2. CASE r = row /\ u \in levelNodes
          BY <1>2, <3>2, <4>2, SearchStepFromFrontier
        <4>3. CASE r = row /\ u \notin levelNodes
          BY <1>1, <3>2, <4>3 DEF Path!Touches, Path!Step
        <4> QED
          BY <4>1, <4>2, <4>3
      <3> QED
        BY <2>1, <3>1, <3>2 DEF SearchCovered, SearchWithin, SearchExpanded
    <2>3. CASE n = search.to
      <3>1. step' = "build" /\ search.to \in Node
        BY <1>2, <2>3
      <3>2. \A j \in 0..hops : ~Path!Walk(j, began, search, search.from, search.to)
        BY <1>1, <2>1, <3>1 DEF SearchWithin
      <3> QED
        BY <3>1, <3>2 DEF SearchCovered
    <2> QED
      BY <2>2, <2>3
  <1>10. Path!FoundIsPath' /\ Path!NoShorterAtStart' /\ Path!NotFoundIsRight'
    BY <1>4, SearchUnanswered
  <1> QED
    BY <1>4, <1>5, <1>8, <1>9, <1>10 DEF SearchIInv

LEMMA SearchScanRowIInv ==
    ASSUME SearchIInv, PathRows \subseteq Path!Row, NEW row \in levelRows,
           Path!ScanRow(row) PROVE SearchIInv'
  <1>1. /\ step = "scan" /\ levelRows' = levelRows \ {row}
        /\ UNCHANGED <<table, began, snapshots, search, hops, levelNodes, current, path,
                       found, cut, pathNodes>>
    BY DEF Path!ScanRow, Path!db, Path!answer
  <1>2. CASE Path!Neighbors(row, levelNodes) \subseteq seenNodes /\ UNCHANGED <<step, nextNodes, seenNodes, previous, parent>>
    BY <1>1, <1>2, SearchOldRowIInv
  <1>3. ASSUME NEW n \in Path!Neighbors(row, levelNodes) \ seenNodes,
               seenNodes' = seenNodes \union {n},
               previous' = [m \in DOMAIN previous \union {n} |-> IF m = n THEN row ELSE previous[m]],
               parent' = [m \in DOMAIN parent \union {n} |->
                             IF m = n THEN Path!OppositeEndpoint(row, n) ELSE parent[m]],
               \/ n = search.to /\ step' = "build" /\ nextNodes' = nextNodes
               \/ n # search.to /\ step' = step /\ nextNodes' = nextNodes \union {n}
        PROVE  SearchIInv'
    BY <1>1, <1>3, SearchNewRowIInv
  <1> QED
    BY <1>2, <1>3 DEF Path!ScanRow

(* One level further: a walk that is one step longer ends in a node that   *)
(* was seen, since all before its last step were expanded.                 *)
LEMMA SearchEndLevelIInv ==
    ASSUME SearchIInv, Path!EndLevel PROVE SearchIInv'
  <1>1. /\ step = "scan" /\ levelRows = {} /\ levelNodes' = nextNodes /\ hops' = hops + 1 /\ step' = "level"
        /\ hops \in Nat
        /\ UNCHANGED <<table, began, snapshots, search, nextNodes, seenNodes, previous, parent,
                       levelRows, current, path, found, cut, pathNodes>>
    BY DEF Path!EndLevel, Path!db, Path!answer, SearchIInv, Path!TypeOK
  <1>2. Path!TypeOK'
    BY <1>1 DEF SearchIInv, Path!TypeOK, Path!PC
  <1>3. SearchPhases'
    BY <1>1 DEF SearchIInv, SearchPhases
  <1>4. SearchTrails'
    BY <1>1 DEF SearchIInv, SearchTrails, SearchTrail, SearchIsTrail
  <1>5. SearchCovered'
    <2>1. SearchWithin(seenNodes \ nextNodes, hops) /\ SearchExpanded(seenNodes \ nextNodes, {})
      BY <1>1 DEF SearchIInv, SearchCovered
    <2>2. ASSUME NEW j \in 0..(hops + 1), NEW n \in Node, Path!Walk(j, began, search, search.from, n)
          PROVE  n \in seenNodes
      <3>1. CASE j \in 0..hops
        BY <2>1, <2>2, <3>1 DEF SearchWithin
      <3>2. CASE j \notin 0..hops
        <4>1. j = hops + 1
          BY <1>1, <3>2
        <4>2. PICK u \in Node : \E row \in began :
                  Path!Walk(hops, began, search, search.from, u) /\ Path!Step(row, search, u, n)
          BY <1>1, <2>2, <4>1, SearchWalkSplits
        <4>3. hops \in 0..hops
          BY <1>1
        <4>4. u \in seenNodes \ nextNodes
          BY <2>1, <4>2, <4>3 DEF SearchWithin
        <4> QED
          BY <2>1, <4>2, <4>4 DEF SearchExpanded
      <3> QED
        BY <3>1, <3>2
    <2> QED
      BY <1>1, <2>1, <2>2 DEF SearchCovered, SearchWithin, SearchExpanded
  <1>6. Path!FoundIsPath' /\ Path!NoShorterAtStart' /\ Path!NotFoundIsRight'
    BY <1>1, <1>2, SearchUnanswered
  <1> QED
    BY <1>2, <1>3, <1>4, <1>5, <1>6 DEF SearchIInv

(* "Not found": the target is beyond maxHops, or there is no way to it.    *)
LEMMA SearchNotFoundIInv ==
    ASSUME SearchIInv, Searches \subseteq Path!Query, Path!NotFound PROVE SearchIInv'
  <1>1. /\ step = "level" /\ (levelNodes = {} \/ hops >= search.maxHops)
        /\ pathNodes' = seenNodes /\ cut' = (levelNodes # {}) /\ step' = "answered"
        /\ UNCHANGED <<table, began, snapshots, search, hops, levelNodes, nextNodes, seenNodes,
                       previous, parent, levelRows, current, path, found>>
    BY DEF Path!NotFound, Path!db, Path!bfs
  <1>2. /\ search \in Path!Query /\ search.maxHops \in Nat /\ search.to \in Node /\ hops \in Nat
        /\ search.to \notin seenNodes /\ search.from \in seenNodes /\ seenNodes \subseteq Node /\ ~found
    BY <1>1 DEF SearchIInv, Path!TypeOK, SearchPhases, Path!Query
  <1>3. SearchWithin(seenNodes, hops) /\ SearchExpanded(seenNodes \ levelNodes, {})
    BY <1>1 DEF SearchIInv, SearchCovered
  <1>4. Path!TypeOK'
    BY <1>1 DEF SearchIInv, Path!TypeOK, Path!PC
  <1>5. SearchPhases' /\ SearchTrails' /\ SearchCovered'
    BY <1>1, <1>2 DEF SearchIInv, SearchPhases, SearchTrails, SearchCovered
  <1>6. ASSUME levelNodes = {} PROVE Path!Unreachable(began, search, search.from, search.to)
    BY <1>2, <1>3, <1>6 DEF Path!Unreachable, SearchExpanded
  <1>7. ASSUME NEW k \in 0..search.maxHops, Path!Walk(k, began, search, search.from, search.to) PROVE FALSE
    <2>1. CASE levelNodes = {}
      <3>1. \A row \in began : \A u \in seenNodes : \A v \in Node : Path!Step(row, search, u, v) => v \in seenNodes
        BY <1>3, <2>1 DEF SearchExpanded
      <3>2. k \in Nat
        BY <1>2
      <3> QED
        BY <1>2, <1>7, <3>1, <3>2, SearchNoWayOut
    <2>2. CASE hops >= search.maxHops
      <3>1. k \in 0..hops
        BY <1>2, <2>2
      <3> QED
        BY <1>2, <1>3, <1>7, <3>1 DEF SearchWithin
    <2> QED
      BY <1>1, <2>1, <2>2
  <1>8. Path!FoundIsPath' /\ Path!NoShorterAtStart' /\ Path!NotFoundIsRight'
    BY <1>1, <1>2, <1>4, <1>6, <1>7 DEF Path!FoundIsPath, Path!NoShorterAtStart,
       Path!NotFoundIsRight
  <1> QED
    BY <1>4, <1>5, <1>8 DEF SearchIInv

LEMMA Prepend ==
    ASSUME NEW S, NEW s \in Seq(S), NEW e \in S
    PROVE  /\ <<e>> \o s \in Seq(S) /\ Len(<<e>> \o s) = Len(s) + 1
           /\ (<<e>> \o s)[1] = e
           /\ \A i \in 2..(Len(s) + 1) : (<<e>> \o s)[i] = s[i - 1]
  OBVIOUS

(* buildPath goes one step back on the trail.                              *)
LEMMA SearchWalkBackIInv ==
    ASSUME SearchIInv, Path!WalkBack PROVE SearchIInv'
  <1>1. /\ step = "build" /\ current # search.from
        /\ path' = <<previous[current]>> \o path /\ current' = parent[current]
        /\ UNCHANGED <<table, began, snapshots, search, step, hops, levelNodes, nextNodes, seenNodes,
                       previous, parent, levelRows, found, cut, pathNodes>>
    BY DEF Path!WalkBack, Path!db, Path!bfs, Path!answer
  <1> DEFINE k == hops + 1
             j == k - Len(path)
  <1>2. hops \in Nat /\ path \in Seq(PathRows) /\ Len(path) \in Nat
    BY DEF SearchIInv, Path!TypeOK
  <1>3. PICK w \in [0..k -> seenNodes] : SearchIsTrail(w, k, search.to) /\ SearchOnTrail(w, k)
    BY <1>1 DEF SearchIInv, SearchTrails
  <1>4. j \in 0..k /\ current = w[j] /\ \A i \in 1..Len(path) : path[i] = previous[w[j + i]]
    BY <1>2, <1>3 DEF SearchOnTrail
  <1>5. j \in 1..k /\ j - 1 \in 0..k
    <2>1. j # 0
      BY <1>1, <1>3, <1>4 DEF SearchIsTrail
    <2> QED
      BY <1>2, <1>4, <2>1
  <1>6. w[j] \in DOMAIN previous /\ parent[w[j]] = w[j - 1]
    BY <1>3, <1>5 DEF SearchIsTrail
  <1>7. previous[current] \in PathRows /\ parent[current] \in Node
    BY <1>4, <1>6 DEF SearchIInv, Path!TypeOK
  <1>8. /\ path' \in Seq(PathRows) /\ Len(path') = Len(path) + 1 /\ path'[1] = previous[current]
        /\ \A i \in 2..(Len(path) + 1) : path'[i] = path[i - 1]
    BY <1>1, <1>2, <1>7, Prepend
  <1>9. Path!TypeOK'
    BY <1>1, <1>7, <1>8 DEF SearchIInv, Path!TypeOK
  <1>10. SearchPhases' /\ SearchCovered'
    BY <1>1 DEF SearchIInv, SearchPhases, SearchCovered
  <1>11. SearchTrails'
    <2>1. k - Len(path') = j - 1 /\ Len(path') <= k
      BY <1>2, <1>5, <1>8
    <2>2. current' = w[j - 1]
      BY <1>1, <1>4, <1>6
    <2>3. ASSUME NEW i \in 1..Len(path') PROVE path'[i] = previous[w[(j - 1) + i]]
      <3>1. CASE i = 1
        <4>1. (j - 1) + i = j
          BY <1>5, <3>1
        <4>2. w[(j - 1) + i] = current
          BY <1>4, <4>1
        <4> QED
          BY <1>8, <3>1, <4>2
      <3>2. CASE i # 1
        <4>1. Len(path') = Len(path) + 1
          BY <1>8
        <4>2. i \in 2..(Len(path) + 1) /\ i - 1 \in 1..Len(path)
          BY <1>2, <2>3, <3>2, <4>1
        <4>3. (j - 1) + i = j + (i - 1)
          BY <1>5, <4>2
        <4>4. path'[i] = path[i - 1] /\ path[i - 1] = previous[w[j + (i - 1)]]
          BY <1>4, <1>8, <4>2
        <4> QED
          BY <4>3, <4>4
      <3> QED
        BY <3>1, <3>2
    <2>4. SearchOnTrail(w, k)'
      <3> HIDE DEF j, k
      <3>1. \A i \in 1..Len(path') : path'[i] = previous[w[(k - Len(path')) + i]]
        BY <2>1, <2>3
      <3>2. current' = w[k - Len(path')]
        BY <2>1, <2>2
      <3>3. k' = k
        BY <1>1 DEF k
      <3> QED
        BY <1>1, <2>1, <3>1, <3>2, <3>3 DEF SearchOnTrail
    <2>5. SearchIsTrail(w, k, search.to)'
      BY <1>1, <1>3 DEF SearchIsTrail
    <2> QED
      BY <1>1, <2>4, <2>5 DEF SearchTrails
  <1>12. Path!FoundIsPath' /\ Path!NoShorterAtStart' /\ Path!NotFoundIsRight'
    BY <1>1, <1>9, SearchUnanswered
  <1> QED
    BY <1>9, <1>10, <1>11, <1>12 DEF SearchIInv

(* The whole trail is the answer.                                          *)
LEMMA SearchPathBuiltIInv ==
    ASSUME SearchIInv, Searches \subseteq Path!Query, PathRows \subseteq Path!Row,
           Path!PathBuilt PROVE SearchIInv'
  <1>1. /\ step = "build" /\ current = search.from /\ found' = TRUE /\ step' = "answered"
        /\ pathNodes' = UNION {Path!Endpoints(path[i]) : i \in DOMAIN path}
        /\ UNCHANGED <<table, began, snapshots, search, hops, levelNodes, nextNodes, seenNodes,
                       previous, parent, levelRows, current, path, cut>>
    BY DEF Path!PathBuilt, Path!db, Path!bfs
  <1> DEFINE k == hops + 1
  <1>2. /\ hops \in Nat /\ path \in Seq(PathRows) /\ Len(path) \in Nat /\ seenNodes \subseteq Node
        /\ search.maxHops \in Nat /\ hops < search.maxHops /\ search.from # search.to
    BY <1>1 DEF SearchIInv, Path!TypeOK, SearchPhases, Path!Query
  <1>3. PICK w \in [0..k -> seenNodes] : SearchIsTrail(w, k, search.to) /\ SearchOnTrail(w, k)
    BY <1>1 DEF SearchIInv, SearchTrails
  <1>4. Len(path) = k
    <2>1. k - Len(path) \in 0..k /\ 0 \in 0..k /\ w[k - Len(path)] = w[0]
      BY <1>1, <1>2, <1>3 DEF SearchOnTrail, SearchIsTrail
    <2>2. k - Len(path) = 0
      BY <1>3, <2>1 DEF SearchIsTrail
    <2> QED
      BY <1>2, <2>2
  <1>5. \A i \in 1..k : path[i] = previous[w[i]]
    <2>1. \A i \in 1..k : (k - Len(path)) + i = i
      BY <1>2, <1>4
    <2> QED
      BY <1>3, <1>4, <2>1 DEF SearchOnTrail
  <1>6. \A i \in 1..k : Path!Step(path[i], search, w[i - 1], w[i]) /\ path[i] \in table
    BY <1>3, <1>5 DEF SearchIsTrail, SearchIInv, SearchPhases
  <1>7. k \in Nat \ {0} /\ k <= search.maxHops /\ DOMAIN path = 1..k
    BY <1>2, <1>4
  <1>8. w \in [0..k -> Node] /\ w[0] = search.from /\ w[k] = search.to
        /\ \A i, j \in 0..k : i # j => w[i] # w[j]
    BY <1>2, <1>3 DEF SearchIsTrail
  <1> HIDE DEF k
  <1>9. pathNodes' = Path!PathNodes(w, k)
    <2>1. \A i \in 1..k : Path!Endpoints(path[i]) = {w[i - 1], w[i]}
      BY <1>6 DEF Path!Endpoints, Path!Step
    <2>2. \A i \in 1..k : i \in 0..k /\ i - 1 \in 0..k
      BY <1>7
    <2>3. pathNodes' \subseteq Path!PathNodes(w, k)
      <3>1. ASSUME NEW i \in 1..k PROVE Path!Endpoints(path[i]) \subseteq Path!PathNodes(w, k)
        BY <2>1, <2>2 DEF Path!PathNodes
      <3> QED
        BY <1>1, <1>7, <3>1
    <2>4. ASSUME NEW i \in 0..k PROVE w[i] \in pathNodes'
      <3>1. CASE i = 0
        <4>1. 1 \in 1..k /\ 1 - 1 = i
          BY <1>7, <3>1
        <4>2. w[i] \in Path!Endpoints(path[1])
          BY <2>1, <4>1
        <4> QED
          BY <1>1, <1>7, <4>1, <4>2
      <3>2. CASE i # 0
        <4>1. i \in 1..k
          BY <1>7, <3>2
        <4>2. w[i] \in Path!Endpoints(path[i])
          BY <2>1, <4>1
        <4> QED
          BY <1>1, <1>7, <4>1, <4>2
      <3> QED
        BY <3>1, <3>2
    <2> QED
      BY <2>3, <2>4 DEF Path!PathNodes
  <1>10. Path!TypeOK'
    <2>1. pathNodes' \subseteq Node
      BY <1>8, <1>9 DEF Path!PathNodes
    <2> QED
      BY <1>1, <2>1 DEF SearchIInv, Path!TypeOK, Path!PC
  <1>11. SearchPhases' /\ SearchTrails' /\ SearchCovered'
    BY <1>1 DEF SearchIInv, SearchPhases, SearchTrails, SearchCovered
  <1>12. Path!FoundIsPath'
    <2>1. \E v \in [0..k -> Node] :
            /\ v[0] = search.from /\ v[k] = search.to
            /\ \A i \in 1..k : Path!Step(path[i], search, v[i - 1], v[i])
            /\ \A i, j \in 0..k : i # j => v[i] # v[j]
            /\ \A i \in 1..k : path[i] \in table
            /\ k <= search.maxHops
            /\ pathNodes' = Path!PathNodes(v, k)
      BY <1>6, <1>7, <1>8, <1>9
    <2> QED
      BY ZenonT(60), <1>1, <1>4, <1>10, <2>1 DEF Path!FoundIsPath, Path!PathNodes
  <1>13. Path!NoShorterAtStart'
    <2>1. ASSUME NEW i \in 0..search.maxHops, Path!Walk(i, began, search, search.from, search.to)
          PROVE  Len(path) <= i
      <3>1. i \notin 0..hops
        BY <1>1, <2>1 DEF SearchIInv, SearchCovered
      <3> QED
        BY <1>2, <1>4, <3>1 DEF k
    <2> QED
      BY <1>1, <2>1 DEF Path!NoShorterAtStart
  <1>14. Path!NotFoundIsRight'
    BY <1>1 DEF Path!NotFoundIsRight
  <1> QED
    BY <1>10, <1>11, <1>12, <1>13, <1>14 DEF SearchIInv

LEMMA SearchFailIInv ==
    ASSUME SearchIInv, Path!Fail PROVE SearchIInv'
  <1>1. /\ step' = "failed"
        /\ UNCHANGED <<table, began, snapshots, search, hops, levelNodes, nextNodes, seenNodes,
                       previous, parent, levelRows, current, path, found, cut, pathNodes>>
    BY DEF Path!Fail, Path!db, Path!bfs, Path!answer
  <1>2. Path!TypeOK'
    BY <1>1 DEF SearchIInv, Path!TypeOK, Path!PC
  <1>3. SearchPhases' /\ SearchTrails' /\ SearchCovered'
    BY <1>1 DEF SearchIInv, SearchPhases, SearchTrails, SearchCovered
  <1>4. Path!FoundIsPath' /\ Path!NoShorterAtStart' /\ Path!NotFoundIsRight'
    BY <1>1, <1>2, SearchUnanswered
  <1> QED
    BY <1>2, <1>3, <1>4 DEF SearchIInv

LEMMA SearchNextIInv ==
    ASSUME SearchIInv, Searches \subseteq Path!Query, PathRows \subseteq Path!Row,
           [Path!Next]_(Path!vars) PROVE SearchIInv'
  <1>1. CASE Path!Search
    <2>1. ASSUME NEW row \in levelRows, Path!ScanRow(row) PROVE SearchIInv'
      BY <2>1, SearchScanRowIInv
    <2>2. CASE Path!Resolve \/ Path!QueryLevel \/ Path!EndLevel
      BY <2>2, SearchResolveIInv, SearchQueryLevelIInv, SearchEndLevelIInv
    <2>3. CASE Path!NotFound \/ Path!WalkBack \/ Path!PathBuilt \/ Path!Fail
      BY <2>3, SearchNotFoundIInv, SearchWalkBackIInv, SearchPathBuiltIInv, SearchFailIInv
    <2> QED
      BY <1>1, <2>1, <2>2, <2>3 DEF Path!Search
  <1>2. CASE Path!CrawlCommits
    BY <1>2, SearchCommitIInv
  <1>3. CASE UNCHANGED Path!vars
    <2>1. UNCHANGED <<table, began, snapshots, search, step, hops, levelNodes, nextNodes, seenNodes,
                      previous, parent, levelRows, current, path, found, cut, pathNodes>>
      BY <1>3 DEF Path!vars, Path!db, Path!bfs, Path!answer
    <2>2. Path!TypeOK' /\ SearchPhases'
      BY <2>1 DEF SearchIInv, Path!TypeOK, SearchPhases
    <2>3. SearchTrails' /\ SearchCovered'
      BY <2>1 DEF SearchIInv, SearchTrails, SearchTrail, SearchIsTrail, SearchOnTrail,
         SearchCovered, SearchWithin, SearchExpanded
    <2>4. Path!FoundIsPath'
      BY <2>1, <2>2 DEF SearchIInv, Path!FoundIsPath, Path!Answered, Path!PathNodes
    <2>5. Path!NoShorterAtStart' /\ Path!NotFoundIsRight'
      BY <2>1 DEF SearchIInv, Path!NoShorterAtStart, Path!NotFoundIsRight, Path!Answered
    <2> QED
      BY <2>2, <2>3, <2>4, <2>5 DEF SearchIInv
  <1> QED
    BY <1>1, <1>2, <1>3 DEF Path!Next
-----------------------------------------------------------------------------
(* The search keeps to its levels whatever commits between them.           *)
THEOREM SearchInductive ==
    ASSUME Searches \subseteq Path!Query,
           PathRows \subseteq Path!Row PROVE Path!Spec => []SearchIInv
  <1>1. Path!Init => SearchIInv
    BY SearchInitIInv
  <1>2. SearchIInv /\ [Path!Next]_(Path!vars) => SearchIInv'
    BY SearchNextIInv
  <1> QED
    BY <1>1, <1>2, PTL DEF Path!Spec

(* A path that is returned leads from one node to the other through stored *)
(* relationships, as the filters, the direction and maxHops ask for.       *)
THEOREM AnswersArePaths ==
    ASSUME Searches \subseteq Path!Query,
           PathRows \subseteq Path!Row PROVE Path!Spec => []Path!FoundIsPath
  <1>1. SearchIInv => Path!FoundIsPath
    BY DEF SearchIInv
  <1> QED
    BY <1>1, SearchInductive, PTL

(* No path that existed when the search began is shorter than the answer.  *)
THEOREM PathsAreShortest ==
    ASSUME Searches \subseteq Path!Query,
           PathRows \subseteq Path!Row PROVE Path!Spec => []Path!NoShorterAtStart
  <1>1. SearchIInv => Path!NoShorterAtStart
    BY DEF SearchIInv
  <1> QED
    BY <1>1, SearchInductive, PTL

(* "Not found" means that no walk of up to maxHops steps existed when the  *)
(* search began, and none of any length unless the answer is truncated.    *)
THEOREM NotFoundIsTrue ==
    ASSUME Searches \subseteq Path!Query,
           PathRows \subseteq Path!Row PROVE Path!Spec => []Path!NotFoundIsRight
  <1>1. SearchIInv => Path!NotFoundIsRight
    BY DEF SearchIInv
  <1> QED
    BY <1>1, SearchInductive, PTL
-----------------------------------------------------------------------------
(* Every step of Traversals while it searches is one of the search.        *)
SearchInv == traversal = "path" => SearchIInv

LEMMA SearchParameters == Searches \subseteq Path!Query /\ PathRows \subseteq Path!Row
  BY TraversalsAssumption DEF Row, Path!Row

LEMMA SearchStep == SearchInv /\ [TraversalsNext]_all => SearchInv'
<1> SUFFICES ASSUME SearchIInv, traversal = "path", [TraversalsNext]_all PROVE SearchIInv'
  <2>1. [TraversalsNext]_all => traversal' = traversal
    BY DEF TraversalsNext, Traverse, Commit, Client, OnlyPath, OnlyTopology, OnlyTools, all
  <2> QED
    BY <2>1 DEF SearchInv
<1>1. CASE TraversalsNext
  <2>1. Path!Search \/ Path!CrawlCommits
    BY <1>1 DEF TraversalsNext, Traverse, Commit, Client, OnlyTopology, OnlyTools
  <2> QED
    BY <2>1, SearchParameters, SearchNextIInv DEF Path!Next
<1>2. CASE UNCHANGED all
  <2>1. UNCHANGED Path!vars
    BY <1>2 DEF all, ofPath, Path!vars, Path!db, Path!bfs, Path!answer
  <2> QED
    BY <2>1, SearchParameters, SearchNextIInv
<1> QED
  BY <1>1, <1>2

LEMMA SearchStart == TraversalsInit => SearchInv
  BY SearchParameters, SearchInitIInv DEF TraversalsInit, SearchInv

LEMMA SearchAlways == TraversalsSpec => []SearchInv
  BY SearchStart, SearchStep, PTL DEF TraversalsSpec

(* findPath returns a path of the rows it saw, for any graph and search,   *)
(* whatever crawls commit between its queries.                             *)
THEOREM FoundPathsArePaths == TraversalsSpec => []FoundIsPath
<1>1. SearchInv => FoundIsPath
  BY DEF SearchInv, FoundIsPath, SearchIInv
<1> QED
  BY <1>1, SearchAlways, PTL

(* None that existed when the search began was shorter, and "not found" is *)
(* right about the table as it was then.                                   *)
THEOREM NoneWasShorter == TraversalsSpec => []NoShorterAtStart
<1>1. SearchInv => NoShorterAtStart
  BY DEF SearchInv, NoShorterAtStart, SearchIInv
<1> QED
  BY <1>1, SearchAlways, PTL
-----------------------------------------------------------------------------
(* The tools, over the same store.  ToolsIInv is their inductive           *)
(* invariant.                                                              *)
LEMMA ToolsSize == \A S : Tools!Cardinality(S) = Cardinality(S)
  BY DEF Tools!Cardinality, Cardinality

ToolsBatch == [ds : DataSource \union {NoSource}, at : Nat, data : Seq(Tools!Element \union {NilElement})]
ToolsRaw(k, h) == [asset |-> k, hash |-> h]

(* Batches are resolved in the order in which they were sent.              *)
ToolsInOrder ==
    /\ sent \in Seq(ToolsBatch)
    /\ status \in Seq({"queued", "stored", "lost"}) /\ Len(status) = Len(sent)
    /\ \A m, n \in 1..Len(status) : m < n /\ status[m] = "queued" => status[n] = "queued"
    /\ \A n \in 1..Len(status) : status[n] = "stored" => sent[n].ds \in DataSource

ToolsLastOf(w, W) == w \in W /\ \A v \in W : v = w \/ Tools!Precedes(v, w)
ToolsWritesOf(k, h) == {w \in Tools!Writes(k) : Tools!Written(w).hash = h}

(* An asset has the metadata of the element written last.                  *)
ToolsAssetsTrue ==
    /\ IsFiniteSet(DOMAIN stored.assets) /\ DOMAIN stored.assets \subseteq Tools!AssetKey
    /\ \A k \in DOMAIN stored.assets : \E w \in Tools!Writes(k) :
          /\ ToolsLastOf(w, Tools!Writes(k))
          /\ stored.assets[k].meta = Tools!Written(w).hash /\ stored.assets[k].last_seen = Tools!Written(w).at

(* A payload was seen last when the last element with it was retrieved.    *)
ToolsPayloadsTrue ==
    /\ IsFiniteSet(DOMAIN stored.raw_assets) /\ DOMAIN stored.raw_assets \subseteq Tools!RawKey
    /\ \A r \in DOMAIN stored.raw_assets : \E w \in ToolsWritesOf(r.asset, r.hash) :
          /\ ToolsLastOf(w, ToolsWritesOf(r.asset, r.hash))
          /\ stored.raw_assets[r].last_seen = Tools!Written(w).at
    /\ \A k \in Tools!AssetKey : \A w \in Tools!Writes(k) : ToolsRaw(k, Tools!Written(w).hash) \in DOMAIN stored.raw_assets

(* What was shown or resolved is there, and a tool that resolves goes on   *)
(* with one asset.                                                         *)
ToolsServing ==
    /\ step \in {"idle", "resolve", "read", "count", "answered", "failed"}
    /\ step # "idle" => call \in Calls
    /\ step = "resolve" => call.tool \in Tools!Resolving
    /\ step = "count" => call.tool = "summary"
    /\ step \in {"idle", "resolve"} => asset = Tools!NoAsset
    /\ step = "read" /\ call.tool \in Tools!Resolving => asset # Tools!NoAsset
    /\ asset # Tools!NoAsset => \E r \in asset :
          /\ asset = {r} /\ r.key \in Tools!AssetsOf(stored, call.id, call.type, call.ds)
          /\ ToolsRaw(r.key, r.hash) \in DOMAIN stored.raw_assets
    /\ shown \subseteq DOMAIN stored.assets

ToolsIInv ==
    /\ ToolsInOrder /\ ToolsAssetsTrue /\ ToolsPayloadsTrue /\ ToolsServing
    /\ Tools!AnswersOfOneElement /\ Tools!ShownStays
-----------------------------------------------------------------------------
ToolsGreatest(T) == CHOOSE i \in T : \A j \in T : j <= i

LEMMA GreatestNumber ==
    ASSUME NEW n \in Nat, NEW T \in SUBSET (0..n), T # {}
    PROVE  ToolsGreatest(T) \in T /\ \A j \in T : j <= ToolsGreatest(T)
<1> DEFINE U == {u \in Nat : \A j \in T : j <= u}
<1>1. n \in U /\ U \in SUBSET Nat
  OBVIOUS
<1>2. PICK m \in U : \A v \in U : m <= v
  BY <1>1, LeastNumber
<1>3. m \in Nat /\ \A j \in T : j \in Nat /\ j <= m
  BY <1>2
<1>4. m \in T
  <2> SUFFICES ASSUME m \notin T PROVE FALSE
    OBVIOUS
  <2>1. \A j \in T : j <= m - 1
    BY <1>3
  <2>2. PICK j \in T : TRUE
    OBVIOUS
  <2>3. m - 1 \in Nat
    BY <1>3, <2>1, <2>2
  <2>4. m <= m - 1
    BY <1>2, <2>1, <2>3
  <2> QED
    BY <1>3, <2>4
<1> QED
  BY <1>3, <1>4 DEF ToolsGreatest
-----------------------------------------------------------------------------
(* What a batch leaves of assets and payloads, from the abstract store.    *)
ToolsKeeps(b, k) == {i \in Tools!Ingest!Kept(b.data) : Tools!AssetOf(b.ds, b.data[i]) = k}
ToolsKeepsOf(b, r) == {i \in Tools!Ingest!Kept(b.data) : Tools!RawOf(b.ds, b.data[i]) = r}

LEMMA ToolsAssetsAfter ==
    ASSUME NEW c, NEW n, NEW b
    PROVE  /\ DOMAIN Tools!Ingest!Effect(c, n, b).assets =
                 DOMAIN c.assets \union {Tools!AssetOf(b.ds, b.data[i]) : i \in Tools!Ingest!Kept(b.data)}
           /\ \A k \in DOMAIN c.assets :
                 ToolsKeeps(b, k) = {} => Tools!Ingest!Effect(c, n, b).assets[k] = c.assets[k]
           /\ \A k : ToolsKeeps(b, k) # {} =>
                 /\ k \in DOMAIN Tools!Ingest!Effect(c, n, b).assets
                 /\ Tools!Ingest!Effect(c, n, b).assets[k].meta = b.data[ToolsGreatest(ToolsKeeps(b, k))].hash
                 /\ Tools!Ingest!Effect(c, n, b).assets[k].last_seen = b.data[ToolsGreatest(ToolsKeeps(b, k))].at
<1> DEFINE t == Tools!Ingest!Effect(c, n, b).assets
           S == {Tools!AssetOf(b.ds, b.data[i]) : i \in Tools!Ingest!Kept(b.data)}
           first(k) == IF k \in DOMAIN c.assets THEN c.assets[k].first_seen
                       ELSE b.data[CHOOSE i \in ToolsKeeps(b, k) : \A j \in ToolsKeeps(b, k) : i <= j].at
           last(k) == b.data[ToolsGreatest(ToolsKeeps(b, k))]
<1>1. \A k : k \in S <=> ToolsKeeps(b, k) # {}
  BY DEF ToolsKeeps
<1>2. t = [k \in DOMAIN c.assets \union S |->
              IF k \in S THEN [meta |-> last(k).hash, first_seen |-> first(k), last_seen |-> last(k).at]
              ELSE c.assets[k]]
  BY DEF Tools!Ingest!Effect, Tools!Ingest!Written, ToolsKeeps, ToolsGreatest,
     Tools!Ingest!AssetOf, Tools!AssetOf
<1> HIDE DEF t, S, first, last
<1>3. DOMAIN t = DOMAIN c.assets \union S
  BY <1>2
<1>4. \A k \in DOMAIN c.assets : k \notin S => t[k] = c.assets[k]
  BY <1>2
<1>5. \A k \in S : t[k] = [meta |-> last(k).hash, first_seen |-> first(k), last_seen |-> last(k).at]
  BY <1>2
<1>6. /\ DOMAIN t = DOMAIN c.assets \union S
      /\ \A k \in DOMAIN c.assets : ToolsKeeps(b, k) = {} => t[k] = c.assets[k]
      /\ \A k : ToolsKeeps(b, k) # {} => /\ k \in DOMAIN t
                                   /\ t[k].meta = last(k).hash /\ t[k].last_seen = last(k).at
  BY <1>1, <1>3, <1>4, <1>5
<1> QED
  BY <1>6 DEF t, S, last

LEMMA ToolsPayloadsAfter ==
    ASSUME NEW c, NEW n, NEW b
    PROVE  /\ DOMAIN Tools!Ingest!Effect(c, n, b).raw_assets =
                 DOMAIN c.raw_assets \union {Tools!RawOf(b.ds, b.data[i]) : i \in Tools!Ingest!Kept(b.data)}
           /\ \A r \in DOMAIN c.raw_assets :
                 ToolsKeepsOf(b, r) = {} => Tools!Ingest!Effect(c, n, b).raw_assets[r] = c.raw_assets[r]
           /\ \A r : ToolsKeepsOf(b, r) # {} =>
                 /\ r \in DOMAIN Tools!Ingest!Effect(c, n, b).raw_assets
                 /\ Tools!Ingest!Effect(c, n, b).raw_assets[r].last_seen = b.data[ToolsGreatest(ToolsKeepsOf(b, r))].at
<1> DEFINE t == Tools!Ingest!Effect(c, n, b).raw_assets
           S == {Tools!RawOf(b.ds, b.data[i]) : i \in Tools!Ingest!Kept(b.data)}
           of(r) == IF r \in DOMAIN c.raw_assets THEN c.raw_assets[r].run ELSE n
           first(r) == IF r \in DOMAIN c.raw_assets THEN c.raw_assets[r].first_seen
                       ELSE b.data[CHOOSE i \in ToolsKeepsOf(b, r) : \A j \in ToolsKeepsOf(b, r) : i <= j].at
           last(r) == b.data[ToolsGreatest(ToolsKeepsOf(b, r))]
<1>1. \A r : r \in S <=> ToolsKeepsOf(b, r) # {}
  BY DEF ToolsKeepsOf
<1>2. t = [r \in DOMAIN c.raw_assets \union S |->
              IF r \in S THEN [run |-> of(r), first_seen |-> first(r), last_seen |-> last(r).at]
              ELSE c.raw_assets[r]]
  BY DEF Tools!Ingest!Effect, Tools!Ingest!Written, ToolsKeepsOf, ToolsGreatest,
     Tools!Ingest!AssetOf, Tools!AssetOf,
         Tools!Ingest!RawOf, Tools!RawOf
<1> HIDE DEF t, S, of, first, last
<1>3. DOMAIN t = DOMAIN c.raw_assets \union S
  BY <1>2
<1>4. \A r \in DOMAIN c.raw_assets : r \notin S => t[r] = c.raw_assets[r]
  BY <1>2
<1>5. \A r \in S : t[r] = [run |-> of(r), first_seen |-> first(r), last_seen |-> last(r).at]
  BY <1>2
<1>6. /\ DOMAIN t = DOMAIN c.raw_assets \union S
      /\ \A r \in DOMAIN c.raw_assets : ToolsKeepsOf(b, r) = {} => t[r] = c.raw_assets[r]
      /\ \A r : ToolsKeepsOf(b, r) # {} => r \in DOMAIN t /\ t[r].last_seen = last(r).at
  BY <1>1, <1>3, <1>4, <1>5
<1> QED
  BY <1>6 DEF t, S, last
-----------------------------------------------------------------------------
(* What a kept element is.                                                 *)
LEMMA ToolsKeptIs ==
    ASSUME NEW b \in ToolsBatch, b.ds \in DataSource, NEW i \in Tools!Ingest!Kept(b.data)
    PROVE  /\ i \in 1..Len(b.data) /\ i \in Nat /\ Len(b.data) \in Nat
           /\ b.data[i].hash \in Payload /\ b.data[i].at \in Nat
           /\ Tools!AssetOf(b.ds, b.data[i]) \in Tools!AssetKey /\ Tools!RawOf(b.ds, b.data[i]) \in Tools!RawKey
           /\ Tools!RawOf(b.ds, b.data[i]) = ToolsRaw(Tools!AssetOf(b.ds, b.data[i]), b.data[i].hash)
<1>1. b.data \in Seq(Tools!Element \union {NilElement})
  BY DEF ToolsBatch
<1>2. i \in DOMAIN b.data /\ b.data[i] # NilElement
  BY DEF Tools!Ingest!Kept
<1>3. DOMAIN b.data = 1..Len(b.data) /\ Len(b.data) \in Nat
  BY <1>1
<1>4. i \in 1..Len(b.data) /\ i \in Nat
  BY <1>2, <1>3
<1>5. b.data[i] \in Tools!Element
  BY <1>1, <1>2, <1>4
<1>6. /\ b.data[i].hash \in Payload /\ b.data[i].at \in Nat
      /\ b.data[i].id \in Ident /\ b.data[i].type \in Tools!ElementType
  BY <1>5 DEF Tools!Element
<1>7. Tools!AssetOf(b.ds, b.data[i]) \in Tools!AssetKey
  BY <1>6 DEF Tools!AssetOf, Tools!AssetKey
<1>8. Tools!RawOf(b.ds, b.data[i]) \in Tools!RawKey
  BY <1>6, <1>7 DEF Tools!RawOf, Tools!RawKey
<1> QED
  BY <1>3, <1>4, <1>6, <1>7, <1>8 DEF Tools!RawOf, ToolsRaw

LEMMA ToolsKeptIsFinite ==
    ASSUME NEW b \in ToolsBatch
    PROVE  /\ IsFiniteSet(Tools!Ingest!Kept(b.data)) /\ Len(b.data) \in Nat
           /\ Tools!Ingest!Kept(b.data) \subseteq 0..Len(b.data)
<1>1. b.data \in Seq(Tools!Element \union {NilElement})
  BY DEF ToolsBatch
<1>2. DOMAIN b.data = 1..Len(b.data) /\ Len(b.data) \in Nat
  BY <1>1
<1>3. Tools!Ingest!Kept(b.data) \subseteq 0..Len(b.data)
  BY <1>2 DEF Tools!Ingest!Kept
<1>4. IsFiniteSet(0..Len(b.data))
  BY <1>2, FS_Interval
<1> QED
  BY ToolsSize, <1>2, <1>3, <1>4, FS_Subset

LEMMA ToolsGreatestKept ==
    ASSUME NEW b \in ToolsBatch, NEW T \in SUBSET Tools!Ingest!Kept(b.data), T # {}
    PROVE  ToolsGreatest(T) \in T /\ \A j \in T : j <= ToolsGreatest(T)
<1>1. Len(b.data) \in Nat /\ T \in SUBSET (0..Len(b.data))
  BY ToolsKeptIsFinite
<1> QED
  BY <1>1, GreatestNumber
-----------------------------------------------------------------------------
(* The writes of an asset, one by one.                                     *)
ToolsWriting(k, m, i) ==
    /\ m \in DOMAIN sent /\ status[m] = "stored"
    /\ i \in ToolsKeeps(sent[m], k)

LEMMA ToolsWritesAre ==
    ASSUME NEW k
    PROVE  /\ \A m, i : ToolsWriting(k, m, i) => <<m, i>> \in Tools!Writes(k)
           /\ \A w \in Tools!Writes(k) : w = <<w[1], w[2]>> /\ ToolsWriting(k, w[1], w[2])
<1> DEFINE storedNow == {m \in DOMAIN sent : status[m] = "stored"}
           of(m) == {<<m, i>> : i \in {j \in Tools!Ingest!Kept(sent[m].data) :
                                          Tools!AssetOf(sent[m].ds, sent[m].data[j]) = k}}
<1>1. Tools!Writes(k) = UNION {of(m) : m \in storedNow}
  BY DEF Tools!Writes
<1>2. \A m : of(m) = {<<m, i>> : i \in ToolsKeeps(sent[m], k)}
  BY DEF ToolsKeeps
<1>3. ASSUME NEW m, NEW i, ToolsWriting(k, m, i) PROVE <<m, i>> \in Tools!Writes(k)
  <2>1. m \in storedNow /\ <<m, i>> \in of(m)
    BY <1>2, <1>3 DEF ToolsWriting
  <2> QED
    BY <1>1, <2>1
<1>4. ASSUME NEW w \in Tools!Writes(k) PROVE w = <<w[1], w[2]>> /\ ToolsWriting(k, w[1], w[2])
  <2>1. PICK m \in storedNow : w \in of(m)
    BY <1>1
  <2>2. PICK i \in ToolsKeeps(sent[m], k) : w = <<m, i>>
    BY <1>2, <2>1
  <2>3. w[1] = m /\ w[2] = i
    BY <2>2
  <2> QED
    BY <2>1, <2>2, <2>3 DEF ToolsWriting
<1> QED
  BY <1>3, <1>4

(* A write is of a batch that was stored, of an element of that batch.     *)
LEMMA ToolsWriteIs ==
    ASSUME ToolsInOrder, NEW k, NEW w \in Tools!Writes(k)
    PROVE  /\ w = <<w[1], w[2]>> /\ w[1] \in 1..Len(sent) /\ w[1] \in Nat /\ w[2] \in Nat
           /\ status[w[1]] = "stored"
           /\ sent[w[1]] \in ToolsBatch /\ sent[w[1]].ds \in DataSource
           /\ w[2] \in Tools!Ingest!Kept(sent[w[1]].data)
           /\ k = Tools!AssetOf(sent[w[1]].ds, sent[w[1]].data[w[2]]) /\ k \in Tools!AssetKey
           /\ Tools!Written(w) = sent[w[1]].data[w[2]]
           /\ Tools!Written(w).hash \in Payload /\ Tools!Written(w).at \in Nat
           /\ Tools!RawOf(sent[w[1]].ds, Tools!Written(w)) = ToolsRaw(k, Tools!Written(w).hash)
<1>1. w = <<w[1], w[2]>> /\ ToolsWriting(k, w[1], w[2])
  BY ToolsWritesAre
<1>2. sent \in Seq(ToolsBatch) /\ w[1] \in DOMAIN sent
  BY <1>1 DEF ToolsInOrder, ToolsWriting
<1>3. w[1] \in 1..Len(sent) /\ w[1] \in Nat /\ sent[w[1]] \in ToolsBatch
  BY <1>2
<1>4. status[w[1]] = "stored" /\ sent[w[1]].ds \in DataSource
  BY <1>1, <1>3 DEF ToolsWriting, ToolsInOrder
<1>5. /\ w[2] \in Tools!Ingest!Kept(sent[w[1]].data)
      /\ k = Tools!AssetOf(sent[w[1]].ds, sent[w[1]].data[w[2]])
  BY <1>1 DEF ToolsWriting, ToolsKeeps
<1>6. /\ w[2] \in Nat /\ k \in Tools!AssetKey
      /\ sent[w[1]].data[w[2]].hash \in Payload /\ sent[w[1]].data[w[2]].at \in Nat
      /\ Tools!RawOf(sent[w[1]].ds, sent[w[1]].data[w[2]]) = ToolsRaw(k, sent[w[1]].data[w[2]].hash)
  BY <1>3, <1>4, <1>5, ToolsKeptIs
<1> QED
  BY <1>1, <1>3, <1>4, <1>5, <1>6 DEF Tools!Written

(* The order of the writes is total on each asset.                         *)
LEMMA ToolsOrder ==
    ASSUME ToolsInOrder, NEW k, NEW v \in Tools!Writes(k), NEW w \in Tools!Writes(k)
    PROVE  /\ v = w \/ Tools!Precedes(v, w) \/ Tools!Precedes(w, v)
           /\ ~(Tools!Precedes(v, w) /\ Tools!Precedes(w, v)) /\ ~Tools!Precedes(v, v)
<1>1. /\ v = <<v[1], v[2]>> /\ v[1] \in Nat /\ v[2] \in Nat
      /\ w = <<w[1], w[2]>> /\ w[1] \in Nat /\ w[2] \in Nat
  BY ToolsWriteIs
<1>2. \A a, b, c, d \in Nat :
        /\ (a = c /\ b = d) \/ (a < c \/ (a = c /\ b < d)) \/ (c < a \/ (c = a /\ d < b))
        /\ ~((a < c \/ (a = c /\ b < d)) /\ (c < a \/ (c = a /\ d < b)))
        /\ ~(a < a \/ (a = a /\ b < b))
  OBVIOUS
<1>3. v[1] = w[1] /\ v[2] = w[2] => v = w
  BY <1>1
<1> QED
  BY <1>1, <1>2, <1>3 DEF Tools!Precedes

(* As long as nothing is stored, the writes are what they were.            *)
LEMMA ToolsSameWrites ==
    ASSUME ToolsInOrder, DOMAIN sent \subseteq DOMAIN sent',
           \A m \in DOMAIN sent : sent'[m] = sent[m] /\ (status'[m] = "stored" <=> status[m] = "stored"),
           \A m \in DOMAIN sent' \ DOMAIN sent : status'[m] # "stored"
    PROVE  /\ \A k : Tools!Writes(k)' = Tools!Writes(k)
           /\ \A k : \A w \in Tools!Writes(k) : Tools!Written(w)' = Tools!Written(w)
<1>1. {m \in DOMAIN sent' : status'[m] = "stored"} = {m \in DOMAIN sent : status[m] = "stored"}
  OBVIOUS
<1>2. \A m \in {n \in DOMAIN sent : status[n] = "stored"} : sent'[m] = sent[m]
  OBVIOUS
<1>3. \A k : Tools!Writes(k)' = Tools!Writes(k)
  BY <1>1, <1>2 DEF Tools!Writes
<1>4. ASSUME NEW k, NEW w \in Tools!Writes(k) PROVE Tools!Written(w)' = Tools!Written(w)
  <2>1. w[1] \in DOMAIN sent
    BY ToolsWritesAre DEF ToolsWriting
  <2> QED
    BY <2>1 DEF Tools!Written
<1> QED
  BY <1>3, <1>4
-----------------------------------------------------------------------------
(* A batch that is stored comes after all that were stored before.         *)
LEMMA ToolsStoreIs ==
    ASSUME ToolsInOrder, NEW n \in DOMAIN status, Tools!Ingest!Store(n)
    PROVE  /\ n \in Nat /\ sent[n] \in ToolsBatch /\ sent[n].ds \in DataSource
           /\ stored' = Tools!Ingest!Effect(stored, n, sent[n])
           /\ ToolsInOrder'
           /\ \A k : \A w \in Tools!Writes(k) : w[1] \in Nat /\ w[1] < n /\ Tools!Written(w)' = Tools!Written(w)
           /\ \A k : Tools!Writes(k)' = Tools!Writes(k) \union {<<n, i>> : i \in ToolsKeeps(sent[n], k)}
           /\ \A i : Tools!Written(<<n, i>>)' = sent[n].data[i]
<1>1. /\ sent \in Seq(ToolsBatch) /\ Len(status) = Len(sent) /\ Len(status) \in Nat
      /\ DOMAIN status = 1..Len(status) /\ DOMAIN sent = 1..Len(status)
      /\ n \in 1..Len(status) /\ n \in Nat
      /\ status \in [1..Len(status) -> {"queued", "stored", "lost"}]
  BY DEF ToolsInOrder
<1>2. /\ status[n] = "queued" /\ \A m \in 1..(n - 1) : status[m] # "queued"
      /\ sent[n].ds # NoSource /\ sent' = sent
      /\ status' = [status EXCEPT ![n] = "stored"]
      /\ stored' = Tools!Ingest!Effect(stored, n, sent[n])
  BY DEF Tools!Ingest!Store, Tools!Ingest!Oldest
<1>3. sent[n] \in ToolsBatch /\ sent[n].ds \in DataSource
  <2>1. sent[n] \in ToolsBatch
    BY <1>1
  <2> QED
    BY <1>2, <2>1 DEF ToolsBatch
<1>4. /\ DOMAIN status' = 1..Len(status) /\ status'[n] = "stored"
      /\ \A m \in 1..Len(status) : m # n => status'[m] = status[m]
  BY <1>1, <1>2
<1>5. status' \in Seq({"queued", "stored", "lost"}) /\ Len(status') = Len(status)
  BY <1>1, <1>2 DEF ToolsInOrder
<1>6. ASSUME NEW m \in 1..Len(status), NEW p \in 1..Len(status), m < p, status'[m] = "queued"
      PROVE  status'[p] = "queued"
  <2>1. m # n /\ status[m] = "queued"
    BY <1>4, <1>6
  <2>2. n < m
    BY <1>1, <1>2, <2>1
  <2>3. p # n /\ status[p] = "queued"
    BY <1>1, <1>6, <2>1, <2>2 DEF ToolsInOrder
  <2> QED
    BY <1>4, <2>3
<1>7. \A m \in 1..Len(status) : status'[m] = "stored" => sent[m].ds \in DataSource
  BY <1>3, <1>4 DEF ToolsInOrder
<1>8. ToolsInOrder'
  BY <1>1, <1>2, <1>5, <1>6, <1>7 DEF ToolsInOrder
<1>9. ASSUME NEW k, NEW w \in Tools!Writes(k) PROVE w[1] \in Nat /\ w[1] < n /\ Tools!Written(w)' = Tools!Written(w)
  <2>1. w[1] \in 1..Len(sent) /\ w[1] \in Nat /\ status[w[1]] = "stored"
    BY ToolsWriteIs
  <2>2. ~(n < w[1])
    BY <1>1, <1>2, <2>1 DEF ToolsInOrder
  <2>3. w[1] # n
    BY <1>2, <2>1
  <2> QED
    BY <1>1, <1>2, <2>1, <2>2, <2>3 DEF Tools!Written
<1>10. ASSUME NEW k PROVE Tools!Writes(k)' = Tools!Writes(k) \union {<<n, i>> : i \in ToolsKeeps(sent[n], k)}
  <2> DEFINE of(m) == {<<m, i>> : i \in {j \in Tools!Ingest!Kept(sent[m].data) :
                                          Tools!AssetOf(sent[m].ds, sent[m].data[j]) = k}}
             S == {m \in DOMAIN sent : status[m] = "stored"}
             S1 == {m \in DOMAIN sent : status'[m] = "stored"}
  <2>1. S1 = S \union {n}
    BY <1>1, <1>2, <1>4
  <2>2. Tools!Writes(k) = UNION {of(m) : m \in S}
    BY DEF Tools!Writes
  <2>3. Tools!Writes(k)' = UNION {of(m) : m \in S1}
    BY <1>2 DEF Tools!Writes
  <2>4. of(n) = {<<n, i>> : i \in ToolsKeeps(sent[n], k)}
    BY DEF ToolsKeeps
  <2> HIDE DEF of, S, S1
  <2> QED
    BY <2>1, <2>2, <2>3, <2>4
<1>11. \A i : Tools!Written(<<n, i>>)' = sent[n].data[i]
  BY <1>2 DEF Tools!Written
<1> QED
  BY <1>1, <1>2, <1>3, <1>8, <1>9, <1>10, <1>11

LEMMA ToolsLastAdded ==
    ASSUME NEW n \in Nat, NEW W, \A w \in W : w[1] \in Nat /\ w[1] < n,
           NEW T \in SUBSET Nat, NEW g \in T, \A j \in T : j <= g
    PROVE  ToolsLastOf(<<n, g>>, W \union {<<n, i>> : i \in T})
<1>1. ASSUME NEW v \in W PROVE Tools!Precedes(v, <<n, g>>)
  BY <1>1 DEF Tools!Precedes
<1>2. ASSUME NEW i \in T PROVE <<n, i>> = <<n, g>> \/ Tools!Precedes(<<n, i>>, <<n, g>>)
  <2>1. i = g \/ i < g
    OBVIOUS
  <2> QED
    BY <2>1 DEF Tools!Precedes
<1> QED
  BY <1>1, <1>2 DEF ToolsLastOf

LEMMA ToolsAssetsStored ==
    ASSUME ToolsInOrder, ToolsAssetsTrue, NEW n \in DOMAIN status, Tools!Ingest!Store(n)
    PROVE  ToolsAssetsTrue' /\ DOMAIN stored.assets \subseteq DOMAIN stored'.assets
<1> DEFINE b == sent[n]
           new == {Tools!AssetOf(b.ds, b.data[i]) : i \in Tools!Ingest!Kept(b.data)}
<1>1. /\ n \in Nat /\ b \in ToolsBatch /\ b.ds \in DataSource /\ stored' = Tools!Ingest!Effect(stored, n, b)
      /\ \A k : \A w \in Tools!Writes(k) : w[1] \in Nat /\ w[1] < n /\ Tools!Written(w)' = Tools!Written(w)
      /\ \A k : Tools!Writes(k)' = Tools!Writes(k) \union {<<n, i>> : i \in ToolsKeeps(b, k)}
      /\ \A i : Tools!Written(<<n, i>>)' = b.data[i]
  BY ToolsStoreIs
<1> HIDE DEF b
<1>2. /\ DOMAIN stored'.assets = DOMAIN stored.assets \union new
      /\ \A k \in DOMAIN stored.assets : ToolsKeeps(b, k) = {} => stored'.assets[k] = stored.assets[k]
      /\ \A k : ToolsKeeps(b, k) # {} =>
            /\ k \in DOMAIN stored'.assets
            /\ stored'.assets[k].meta = b.data[ToolsGreatest(ToolsKeeps(b, k))].hash
            /\ stored'.assets[k].last_seen = b.data[ToolsGreatest(ToolsKeeps(b, k))].at
  BY <1>1, ToolsAssetsAfter
<1>3. IsFiniteSet(new) /\ new \subseteq Tools!AssetKey
  <2>1. IsFiniteSet(Tools!Ingest!Kept(b.data))
    BY <1>1, ToolsKeptIsFinite
  <2> DEFINE f == [i \in Tools!Ingest!Kept(b.data) |-> Tools!AssetOf(b.ds, b.data[i])]
  <2>2. f \in Surjection(Tools!Ingest!Kept(b.data), new)
    BY DEF Surjection
  <2>3. IsFiniteSet(new)
    BY <2>1, <2>2, FS_Surjection
  <2> QED
    BY <1>1, <2>3, ToolsKeptIs
<1>4. \A k \in new : ToolsKeeps(b, k) # {}
  BY DEF ToolsKeeps
<1> HIDE DEF new
<1>5. IsFiniteSet(DOMAIN stored'.assets) /\ DOMAIN stored'.assets \subseteq Tools!AssetKey
  <2>1. IsFiniteSet(DOMAIN stored.assets \union new)
    BY <1>3, FS_Union DEF ToolsAssetsTrue
  <2> QED
    BY <1>2, <1>3, <2>1 DEF ToolsAssetsTrue
<1>6. ASSUME NEW k \in DOMAIN stored'.assets
      PROVE  \E w \in Tools!Writes(k)' :
                /\ ToolsLastOf(w, Tools!Writes(k)')
                /\ stored'.assets[k].meta = Tools!Written(w)'.hash /\ stored'.assets[k].last_seen = Tools!Written(w)'.at
  <2>1. CASE ToolsKeeps(b, k) = {}
    <3>1. k \in DOMAIN stored.assets /\ stored'.assets[k] = stored.assets[k] /\ Tools!Writes(k)' = Tools!Writes(k)
      BY <1>1, <1>2, <1>4, <2>1
    <3>2. PICK w \in Tools!Writes(k) :
             /\ ToolsLastOf(w, Tools!Writes(k))
             /\ stored.assets[k].meta = Tools!Written(w).hash /\ stored.assets[k].last_seen = Tools!Written(w).at
      BY <3>1 DEF ToolsAssetsTrue
    <3>3. Tools!Written(w)' = Tools!Written(w)
      BY <1>1
    <3> QED
      BY <3>1, <3>2, <3>3
  <2>2. CASE ToolsKeeps(b, k) # {}
    <3> DEFINE T == ToolsKeeps(b, k)
    <3>1. T \in SUBSET Tools!Ingest!Kept(b.data) /\ T \in SUBSET Nat
      <4>1. T \in SUBSET Tools!Ingest!Kept(b.data)
        BY DEF ToolsKeeps
      <4> QED
        BY <1>1, <4>1, ToolsKeptIs
    <3>2. PICK g \in T : g = ToolsGreatest(T) /\ \A j \in T : j <= g
      BY <1>1, <2>2, <3>1, ToolsGreatestKept
    <3> HIDE DEF T
    <3>3. ToolsLastOf(<<n, g>>, Tools!Writes(k) \union {<<n, i>> : i \in T})
      BY <1>1, <3>1, <3>2, ToolsLastAdded
    <3>4. Tools!Writes(k)' = Tools!Writes(k) \union {<<n, i>> : i \in T}
      BY <1>1 DEF T
    <3>5. Tools!Written(<<n, g>>)' = b.data[g]
      BY <1>1
    <3>6. stored'.assets[k].meta = b.data[g].hash /\ stored'.assets[k].last_seen = b.data[g].at
      BY <1>2, <2>2, <3>2 DEF T
    <3>7. <<n, g>> \in Tools!Writes(k)'
      BY <3>2, <3>4
    <3> QED
      BY <3>3, <3>4, <3>5, <3>6, <3>7
  <2> QED
    BY <2>1, <2>2
<1> QED
  BY <1>2, <1>5, <1>6 DEF ToolsAssetsTrue

LEMMA ToolsPayloadsStored ==
    ASSUME ToolsInOrder, ToolsPayloadsTrue, NEW n \in DOMAIN status, Tools!Ingest!Store(n)
    PROVE  ToolsPayloadsTrue' /\ DOMAIN stored.raw_assets \subseteq DOMAIN stored'.raw_assets
<1> DEFINE b == sent[n]
           new == {Tools!RawOf(b.ds, b.data[i]) : i \in Tools!Ingest!Kept(b.data)}
<1>1. /\ n \in Nat /\ b \in ToolsBatch /\ b.ds \in DataSource /\ stored' = Tools!Ingest!Effect(stored, n, b)
      /\ \A k : \A w \in Tools!Writes(k) : w[1] \in Nat /\ w[1] < n /\ Tools!Written(w)' = Tools!Written(w)
      /\ \A k : Tools!Writes(k)' = Tools!Writes(k) \union {<<n, i>> : i \in ToolsKeeps(b, k)}
      /\ \A i : Tools!Written(<<n, i>>)' = b.data[i]
  BY ToolsStoreIs
<1> HIDE DEF b
<1>2. /\ DOMAIN stored'.raw_assets = DOMAIN stored.raw_assets \union new
      /\ \A r \in DOMAIN stored.raw_assets : ToolsKeepsOf(b, r) = {} => stored'.raw_assets[r] = stored.raw_assets[r]
      /\ \A r : ToolsKeepsOf(b, r) # {} =>
            /\ r \in DOMAIN stored'.raw_assets
            /\ stored'.raw_assets[r].last_seen = b.data[ToolsGreatest(ToolsKeepsOf(b, r))].at
  BY <1>1, ToolsPayloadsAfter
<1>3. IsFiniteSet(new) /\ new \subseteq Tools!RawKey
  <2>1. IsFiniteSet(Tools!Ingest!Kept(b.data))
    BY <1>1, ToolsKeptIsFinite
  <2> DEFINE f == [i \in Tools!Ingest!Kept(b.data) |-> Tools!RawOf(b.ds, b.data[i])]
  <2>2. f \in Surjection(Tools!Ingest!Kept(b.data), new)
    BY DEF Surjection
  <2>3. IsFiniteSet(new)
    BY <2>1, <2>2, FS_Surjection
  <2> QED
    BY <1>1, <2>3, ToolsKeptIs
<1>4. \A r \in new : ToolsKeepsOf(b, r) # {}
  BY DEF ToolsKeepsOf
<1>5. \A k : \A i \in ToolsKeeps(b, k) : ToolsRaw(k, b.data[i].hash) \in new
  <2> SUFFICES ASSUME NEW k, NEW i \in ToolsKeeps(b, k) PROVE ToolsRaw(k, b.data[i].hash) \in new
    OBVIOUS
  <2>1. i \in Tools!Ingest!Kept(b.data) /\ Tools!AssetOf(b.ds, b.data[i]) = k
    BY DEF ToolsKeeps
  <2>2. Tools!RawOf(b.ds, b.data[i]) = ToolsRaw(k, b.data[i].hash)
    BY <2>1 DEF Tools!RawOf, ToolsRaw
  <2> QED
    BY <2>1, <2>2
<1> HIDE DEF new
<1>6. IsFiniteSet(DOMAIN stored'.raw_assets) /\ DOMAIN stored'.raw_assets \subseteq Tools!RawKey
  <2>1. IsFiniteSet(DOMAIN stored.raw_assets \union new)
    BY <1>3, FS_Union DEF ToolsPayloadsTrue
  <2> QED
    BY <1>2, <1>3, <2>1 DEF ToolsPayloadsTrue
<1>7. ASSUME NEW r \in Tools!RawKey
      PROVE  ToolsWritesOf(r.asset, r.hash)' =
                 ToolsWritesOf(r.asset, r.hash) \union {<<n, i>> : i \in ToolsKeepsOf(b, r)}
  <2>1. \A i : i \in ToolsKeepsOf(b, r) <=> i \in ToolsKeeps(b, r.asset) /\ b.data[i].hash = r.hash
    <3>1. r = [asset |-> r.asset, hash |-> r.hash]
      BY DEF Tools!RawKey
    <3>2. \A k, h : [asset |-> k, hash |-> h] = r <=> k = r.asset /\ h = r.hash
      BY <3>1
    <3> QED
      BY <3>2 DEF ToolsKeepsOf, ToolsKeeps, Tools!RawOf
  <2>2. \A w \in Tools!Writes(r.asset) : Tools!Written(w)' = Tools!Written(w)
    BY <1>1
  <2>3. Tools!Writes(r.asset)' = Tools!Writes(r.asset) \union {<<n, i>> : i \in ToolsKeeps(b, r.asset)}
    BY <1>1
  <2>4. ToolsWritesOf(r.asset, r.hash)' = {w \in Tools!Writes(r.asset)' : Tools!Written(w)'.hash = r.hash}
    BY DEF ToolsWritesOf
  <2>5. \A i : Tools!Written(<<n, i>>)' = b.data[i]
    BY <1>1
  <2> QED
    BY <2>1, <2>2, <2>3, <2>4, <2>5 DEF ToolsWritesOf
<1>8. ASSUME NEW r \in DOMAIN stored'.raw_assets
      PROVE  \E w \in ToolsWritesOf(r.asset, r.hash)' :
                /\ ToolsLastOf(w, ToolsWritesOf(r.asset, r.hash)')
                /\ stored'.raw_assets[r].last_seen = Tools!Written(w)'.at
  <2> DEFINE W == ToolsWritesOf(r.asset, r.hash)
  <2>0. r \in Tools!RawKey /\ W' = W \union {<<n, i>> : i \in ToolsKeepsOf(b, r)}
    BY <1>6, <1>7
  <2>1. CASE ToolsKeepsOf(b, r) = {}
    <3>1. r \in DOMAIN stored.raw_assets /\ stored'.raw_assets[r] = stored.raw_assets[r] /\ W' = W
      BY <1>2, <1>4, <2>0, <2>1
    <3>2. PICK w \in W : ToolsLastOf(w, W) /\ stored.raw_assets[r].last_seen = Tools!Written(w).at
      BY <3>1 DEF ToolsPayloadsTrue
    <3>3. Tools!Written(w)' = Tools!Written(w)
      BY <1>1 DEF ToolsWritesOf
    <3> QED
      BY <3>1, <3>2, <3>3
  <2>2. CASE ToolsKeepsOf(b, r) # {}
    <3> DEFINE T == ToolsKeepsOf(b, r)
    <3>1. T \in SUBSET Tools!Ingest!Kept(b.data) /\ T \in SUBSET Nat
      <4>1. T \in SUBSET Tools!Ingest!Kept(b.data)
        BY DEF ToolsKeepsOf
      <4> QED
        BY <1>1, <4>1, ToolsKeptIs
    <3>2. PICK g \in T : g = ToolsGreatest(T) /\ \A j \in T : j <= g
      BY <1>1, <2>2, <3>1, ToolsGreatestKept
    <3>4. W' = W \union {<<n, i>> : i \in T}
      BY <2>0
    <3>6. stored'.raw_assets[r].last_seen = b.data[g].at
      BY <1>2, <2>2, <3>2
    <3> HIDE DEF T
    <3>0. \A v \in W : v[1] \in Nat /\ v[1] < n
      BY <1>1 DEF ToolsWritesOf
    <3> HIDE DEF W
    <3>3. ToolsLastOf(<<n, g>>, W \union {<<n, i>> : i \in T})
      BY <1>1, <3>0, <3>1, <3>2, ToolsLastAdded
    <3>5. Tools!Written(<<n, g>>)' = b.data[g]
      BY <1>1
    <3>7. <<n, g>> \in W'
      BY <3>2, <3>4
    <3>8. \E u \in W' : ToolsLastOf(u, W') /\ stored'.raw_assets[r].last_seen = Tools!Written(u)'.at
      BY <3>3, <3>4, <3>5, <3>6, <3>7
    <3> QED
      BY <3>8 DEF W
  <2> QED
    BY <2>1, <2>2
<1>9. ASSUME NEW k \in Tools!AssetKey, NEW w \in Tools!Writes(k)'
      PROVE  ToolsRaw(k, Tools!Written(w)'.hash) \in DOMAIN stored'.raw_assets
  <2>1. CASE w \in Tools!Writes(k)
    BY <1>1, <1>2, <2>1 DEF ToolsPayloadsTrue
  <2>2. CASE w \notin Tools!Writes(k)
    <3>1. PICK i \in ToolsKeeps(b, k) : w = <<n, i>>
      BY <1>1, <2>2
    <3>2. Tools!Written(w)' = b.data[i]
      BY <1>1, <3>1
    <3> QED
      BY <1>2, <1>5, <3>2
  <2> QED
    BY <2>1, <2>2
<1> QED
  BY <1>2, <1>6, <1>8, <1>9 DEF ToolsPayloadsTrue
-----------------------------------------------------------------------------
LEMMA ToolsAppended ==
    ASSUME NEW S, NEW q \in Seq(S), NEW e \in S, NEW a, a = Append(q, e)
    PROVE  /\ a \in Seq(S) /\ Len(a) = Len(q) + 1 /\ DOMAIN a = 1..(Len(q) + 1)
           /\ \A m \in 1..Len(q) : a[m] = q[m]
           /\ a[Len(q) + 1] = e
  OBVIOUS

(* A batch that is sent, lost or left behind by a restart changes no table.*)
LEMMA ToolsUnstored ==
    ASSUME Tools!Parameters, ToolsInOrder,
           \/ \E b \in Batches : Tools!Ingest!Send(b)
           \/ \E n \in DOMAIN status : Tools!Ingest!Lose(n)
           \/ Tools!Ingest!Restart
           \/ UNCHANGED <<sent, status, stored>>
    PROVE  /\ ToolsInOrder' /\ stored' = stored
           /\ \A k : Tools!Writes(k)' = Tools!Writes(k) /\ \A w \in Tools!Writes(k) : Tools!Written(w)' = Tools!Written(w)
<1>1. /\ sent \in Seq(ToolsBatch) /\ Len(status) = Len(sent) /\ Len(status) \in Nat
      /\ DOMAIN status = 1..Len(status) /\ DOMAIN sent = 1..Len(status)
      /\ status \in [1..Len(status) -> {"queued", "stored", "lost"}]
      /\ status \in Seq({"queued", "stored", "lost"})
  BY DEF ToolsInOrder
<1>2. CASE \E b \in Batches : Tools!Ingest!Send(b)
  <2>1. PICK b \in Batches : Tools!Ingest!Send(b)
    BY <1>2
  <2>2. /\ sent' = Append(sent, b) /\ status' = Append(status, "queued") /\ stored' = stored
        /\ b \in ToolsBatch
    BY <2>1 DEF Tools!Ingest!Send, Tools!Parameters, ToolsBatch
  <2>3. /\ sent' \in Seq(ToolsBatch) /\ Len(sent') = Len(sent) + 1
        /\ DOMAIN sent' = 1..(Len(sent) + 1) /\ \A m \in DOMAIN sent : sent'[m] = sent[m]
    <3>0. sent \in Seq(ToolsBatch) /\ b \in ToolsBatch /\ sent' = Append(sent, b)
      BY <1>1, <2>2
    <3>1. /\ sent' \in Seq(ToolsBatch) /\ Len(sent') = Len(sent) + 1
          /\ DOMAIN sent' = 1..(Len(sent) + 1)
          /\ \A m \in 1..Len(sent) : sent'[m] = sent[m]
      BY <3>0, ToolsAppended
    <3>2. DOMAIN sent = 1..Len(sent)
      BY <1>1
    <3> QED
      BY <3>1, <3>2
  <2>4. /\ status' \in Seq({"queued", "stored", "lost"}) /\ Len(status') = Len(status) + 1
        /\ \A m \in 1..Len(status) : status'[m] = status[m]
        /\ status'[Len(status) + 1] = "queued"
    <3>1. "queued" \in {"queued", "stored", "lost"}
      OBVIOUS
    <3> DEFINE S == {"queued", "stored", "lost"}
    <3>2. status \in Seq(S) /\ "queued" \in S /\ status' = Append(status, "queued")
      BY <1>1, <2>2, <3>1
    <3> HIDE DEF S
    <3>3. /\ status' \in Seq(S) /\ Len(status') = Len(status) + 1
          /\ \A m \in 1..Len(status) : status'[m] = status[m]
          /\ status'[Len(status) + 1] = "queued"
      BY <3>2, ToolsAppended
    <3> QED
      BY <3>3 DEF S
  <2>5. ASSUME NEW m \in 1..Len(status'), NEW p \in 1..Len(status'), m < p, status'[m] = "queued"
        PROVE  status'[p] = "queued"
    <3>1. CASE p = Len(status) + 1
      BY <2>4, <3>1
    <3>2. CASE p # Len(status) + 1
      <4>1. m \in 1..Len(status) /\ p \in 1..Len(status)
        BY <1>1, <2>4, <2>5, <3>2
      <4> QED
        BY <2>4, <2>5, <4>1 DEF ToolsInOrder
    <3> QED
      BY <3>1, <3>2
  <2>6. ASSUME NEW m \in 1..Len(status'), status'[m] = "stored"
        PROVE  sent'[m].ds \in DataSource
    <3>1. m # Len(status) + 1
      BY <2>4, <2>6
    <3>2. m \in 1..Len(status)
      BY <1>1, <2>4, <3>1
    <3> QED
      BY <1>1, <2>3, <2>4, <2>6, <3>2 DEF ToolsInOrder
  <2>7. ToolsInOrder'
    BY <1>1, <2>3, <2>4, <2>5, <2>6 DEF ToolsInOrder
  <2>8. /\ DOMAIN sent \subseteq DOMAIN sent'
        /\ \A m \in DOMAIN sent : sent'[m] = sent[m] /\ status'[m] = status[m]
        /\ \A m \in DOMAIN sent' \ DOMAIN sent : status'[m] # "stored"
    <3>1. \A m \in DOMAIN sent' \ DOMAIN sent : m = Len(status) + 1
      BY <1>1, <2>3
    <3> QED
      BY <1>1, <2>3, <2>4, <3>1
  <2> QED
    BY <2>2, <2>7, <2>8, ToolsSameWrites
<1>3. ASSUME sent' = sent, stored' = stored, Len(status') = Len(status),
             status' \in Seq({"queued", "stored", "lost"}), DOMAIN status' = DOMAIN status,
             \A m \in DOMAIN status : status'[m] = "stored" <=> status[m] = "stored",
             \A m, p \in 1..Len(status) :
                m < p /\ status'[m] = "queued" => status'[p] = "queued"
      PROVE  /\ ToolsInOrder' /\ stored' = stored
             /\ \A k : Tools!Writes(k)' = Tools!Writes(k) /\ \A w \in Tools!Writes(k) : Tools!Written(w)' = Tools!Written(w)
  <2>1. ToolsInOrder'
    BY <1>1, <1>3 DEF ToolsInOrder
  <2>2. \A k : Tools!Writes(k)' = Tools!Writes(k) /\ \A w \in Tools!Writes(k) : Tools!Written(w)' = Tools!Written(w)
    BY <1>1, <1>3, ToolsSameWrites
  <2> QED
    BY <1>3, <2>1, <2>2
<1>4. CASE \E n \in DOMAIN status : Tools!Ingest!Lose(n)
  <2>1. PICK n \in DOMAIN status : Tools!Ingest!Lose(n)
    BY <1>4
  <2>2. /\ status[n] = "queued" /\ \A m \in 1..(n - 1) : status[m] # "queued"
        /\ sent' = sent /\ stored' = stored /\ status' = [status EXCEPT ![n] = "lost"]
    BY <2>1 DEF Tools!Ingest!Lose, Tools!Ingest!Oldest
  <2>3. /\ DOMAIN status' = 1..Len(status) /\ status'[n] = "lost"
        /\ \A m \in 1..Len(status) : m # n => status'[m] = status[m]
    BY <1>1, <2>2
  <2>4. status' \in Seq({"queued", "stored", "lost"}) /\ Len(status') = Len(status)
    BY <1>1, <2>2
  <2>5. ASSUME NEW m \in 1..Len(status), NEW p \in 1..Len(status), m < p, status'[m] = "queued"
        PROVE  status'[p] = "queued"
    <3>1. m # n /\ status[m] = "queued"
      BY <2>3, <2>5
    <3>2. n < m
      BY <1>1, <2>2, <3>1
    <3>3. p # n /\ status[p] = "queued"
      BY <1>1, <2>5, <3>1, <3>2 DEF ToolsInOrder
    <3> QED
      BY <2>3, <3>3
  <2>6. \A m \in DOMAIN status : status'[m] = "stored" <=> status[m] = "stored"
    BY <1>1, <2>2, <2>3
  <2> QED
    BY <1>1, <1>3, <2>2, <2>3, <2>4, <2>5, <2>6
<1>5. CASE Tools!Ingest!Restart
  <2>1. /\ sent' = sent /\ stored' = stored
        /\ status' = [m \in 1..Len(status) |-> IF status[m] = "queued" THEN "lost" ELSE status[m]]
    BY <1>1, <1>5 DEF Tools!Ingest!Restart
  <2>2. /\ status' \in [1..Len(status) -> {"queued", "stored", "lost"}]
        /\ \A m \in 1..Len(status) : /\ status'[m] # "queued"
                                     /\ status'[m] = "stored" <=> status[m] = "stored"
    BY <1>1, <2>1
  <2>3. status' \in Seq({"queued", "stored", "lost"}) /\ Len(status') = Len(status)
    BY <1>1, <2>2
  <2> QED
    BY <1>1, <1>3, <2>1, <2>2, <2>3
<1>6. CASE UNCHANGED <<sent, status, stored>>
  BY <1>1, <1>3, <1>6 DEF ToolsInOrder
<1> QED
  BY <1>2, <1>4, <1>5, <1>6

(* Whatever a crawl does, rows stay and what they say stays true.          *)
ToolsStoreTrue == ToolsInOrder /\ ToolsAssetsTrue /\ ToolsPayloadsTrue

LEMMA ToolsStoreStep ==
    ASSUME Tools!Parameters, ToolsStoreTrue, Tools!Ingest!Next \/ UNCHANGED Tools!store
    PROVE  /\ ToolsStoreTrue'
           /\ DOMAIN stored.assets \subseteq DOMAIN stored'.assets
           /\ DOMAIN stored.raw_assets \subseteq DOMAIN stored'.raw_assets
           /\ \A k : Tools!Writes(k) \subseteq Tools!Writes(k)' /\ \A w \in Tools!Writes(k) : Tools!Written(w)' = Tools!Written(w)
<1>1. CASE \E n \in DOMAIN status : Tools!Ingest!Store(n)
  <2>1. PICK n \in DOMAIN status : Tools!Ingest!Store(n)
    BY <1>1
  <2> QED
    BY <2>1, ToolsStoreIs, ToolsAssetsStored, ToolsPayloadsStored DEF ToolsStoreTrue
<1>2. CASE ~(\E n \in DOMAIN status : Tools!Ingest!Store(n))
  <2>1. /\ ToolsInOrder' /\ stored' = stored
        /\ \A k : Tools!Writes(k)' = Tools!Writes(k) /\ \A w \in Tools!Writes(k) : Tools!Written(w)' = Tools!Written(w)
    BY <1>2, ToolsUnstored DEF Tools!Ingest!Next, Tools!store, ToolsStoreTrue
  <2>2. ToolsAssetsTrue'
    <3>1. ASSUME NEW k \in DOMAIN stored'.assets
          PROVE  \E w \in Tools!Writes(k)' :
                    /\ ToolsLastOf(w, Tools!Writes(k)')
                    /\ stored'.assets[k].meta = Tools!Written(w)'.hash
                    /\ stored'.assets[k].last_seen = Tools!Written(w)'.at
      <4>1. PICK w \in Tools!Writes(k) :
               /\ ToolsLastOf(w, Tools!Writes(k))
               /\ stored.assets[k].meta = Tools!Written(w).hash /\ stored.assets[k].last_seen = Tools!Written(w).at
        BY <2>1 DEF ToolsStoreTrue, ToolsAssetsTrue
      <4>2. Tools!Writes(k)' = Tools!Writes(k) /\ Tools!Written(w)' = Tools!Written(w)
        BY <2>1
      <4> QED
        BY <2>1, <4>1, <4>2
    <3> QED
      BY <2>1, <3>1 DEF ToolsStoreTrue, ToolsAssetsTrue
  <2>3. ToolsPayloadsTrue'
    <3>1. ASSUME NEW r \in DOMAIN stored'.raw_assets
          PROVE  \E w \in ToolsWritesOf(r.asset, r.hash)' :
                    /\ ToolsLastOf(w, ToolsWritesOf(r.asset, r.hash)')
                    /\ stored'.raw_assets[r].last_seen = Tools!Written(w)'.at
      <4>1. PICK w \in ToolsWritesOf(r.asset, r.hash) :
               /\ ToolsLastOf(w, ToolsWritesOf(r.asset, r.hash))
               /\ stored.raw_assets[r].last_seen = Tools!Written(w).at
        BY <2>1 DEF ToolsStoreTrue, ToolsPayloadsTrue
      <4>2. ToolsWritesOf(r.asset, r.hash)' = ToolsWritesOf(r.asset, r.hash) /\ Tools!Written(w)' = Tools!Written(w)
        BY <2>1 DEF ToolsWritesOf
      <4> QED
        BY <2>1, <4>1, <4>2
    <3>2. ASSUME NEW k \in Tools!AssetKey, NEW w \in Tools!Writes(k)'
          PROVE  ToolsRaw(k, Tools!Written(w)'.hash) \in DOMAIN stored'.raw_assets
      BY <2>1 DEF ToolsStoreTrue, ToolsPayloadsTrue
    <3> QED
      BY <2>1, <3>1, <3>2 DEF ToolsStoreTrue, ToolsPayloadsTrue
  <2> QED
    BY <2>1, <2>2, <2>3 DEF ToolsStoreTrue
<1> QED
  BY <1>1, <1>2

LEMMA ToolsStoreInit == Tools!Ingest!Init => ToolsStoreTrue
<1> SUFFICES ASSUME Tools!Ingest!Init PROVE ToolsStoreTrue
  OBVIOUS
<1>1. /\ sent = <<>> /\ status = <<>>
      /\ DOMAIN stored.assets = {} /\ DOMAIN stored.raw_assets = {}
  BY DEF Tools!Ingest!Init, Tools!Ingest!EmptyCatalog, Tools!Ingest!EmptyTable
<1>2. ToolsInOrder
  BY <1>1 DEF ToolsInOrder
<1>3. \A k : Tools!Writes(k) = {}
  BY <1>1, ToolsWritesAre DEF ToolsWriting
<1>4. ToolsAssetsTrue /\ ToolsPayloadsTrue
  BY ToolsSize, <1>1, <1>3, FS_EmptySet DEF ToolsAssetsTrue, ToolsPayloadsTrue
<1> QED
  BY <1>2, <1>4 DEF ToolsStoreTrue
-----------------------------------------------------------------------------
(* Of finitely many versions one is the newest, for versions are told      *)
(* apart by their hashes.                                                  *)
LEMMA ToolsNewestExists ==
    ASSUME Tools!Parameters, NEW S, IsFiniteSet(S), S # {},
           \A v \in S : v.last_seen \in Nat /\ v.hash \in Payload
    PROVE  \E v \in S : \A w \in S : ~Tools!NewerVersion(w, v)
<1> DEFINE above(v) == {w \in S : Tools!NewerVersion(w, v)}
           sizes == {Tools!Cardinality(above(v)) : v \in S}
<1>1. \A v \in S : IsFiniteSet(above(v)) /\ Tools!Cardinality(above(v)) \in Nat
  BY ToolsSize, FS_Subset, FS_CardinalityType
<1>2. \A v \in S : HashRank[v.hash] \in Nat
  BY DEF Tools!Parameters
<1>3. \A a, b, c, d, e, f \in Nat :
        /\ ~(a > a \/ (a = a /\ b > b))
        /\ (a > c \/ (a = c /\ b > d)) /\ (c > e \/ (c = e /\ d > f)) => a > e \/ (a = e /\ b > f)
  OBVIOUS
<1>4. \A u, v, w \in S : /\ ~Tools!NewerVersion(u, u)
                         /\ Tools!NewerVersion(u, v) /\ Tools!NewerVersion(v, w) => Tools!NewerVersion(u, w)
  BY <1>2, <1>3 DEF Tools!NewerVersion, Tools!Newer
<1>5. PICK v \in S : \A w \in S : Tools!Cardinality(above(v)) <= Tools!Cardinality(above(w))
  <2>1. sizes \in SUBSET Nat /\ sizes # {}
    BY <1>1
  <2>2. PICK m \in sizes : \A j \in sizes : m <= j
    BY <2>1, LeastNumber
  <2> QED
    BY <2>2
<1>6. ASSUME NEW w \in S, Tools!NewerVersion(w, v) PROVE FALSE
  <2>1. above(w) \in SUBSET above(v) /\ w \in above(v) /\ w \notin above(w)
    BY <1>4, <1>6
  <2>2. Tools!Cardinality(above(w)) <= Tools!Cardinality(above(v)) /\ Tools!Cardinality(above(w)) # Tools!Cardinality(above(v))
    <3>1. \A X, Y : IsFiniteSet(X) /\ Y \subseteq X /\ Y # X =>
                       Tools!Cardinality(Y) <= Tools!Cardinality(X) /\ Tools!Cardinality(Y) # Tools!Cardinality(X)
      BY ToolsSize, FS_Subset
    <3> HIDE DEF above
    <3>2. IsFiniteSet(above(v)) /\ above(w) \subseteq above(v) /\ above(w) # above(v)
      BY <1>1, <2>1
    <3> QED
      BY <3>1, <3>2
  <2>3. Tools!Cardinality(above(v)) <= Tools!Cardinality(above(w))
    BY <1>5
  <2>4. Tools!Cardinality(above(v)) \in Nat /\ Tools!Cardinality(above(w)) \in Nat
    BY <1>1
  <2> HIDE DEF above
  <2> QED
    BY <2>2, <2>3, <2>4
<1> QED
  BY <1>6

(* Versions as the tools list them, from the keys of the payloads.         *)
ToolsVersion(r) == [asset |-> r.asset, hash |-> r.hash, run |-> stored.raw_assets[r].run,
               first_seen |-> stored.raw_assets[r].first_seen, last_seen |-> stored.raw_assets[r].last_seen]
ToolsKeysOf(K) == {r \in DOMAIN stored.raw_assets : r.asset \in K}

LEMMA ToolsVersionsAre ==
    ASSUME ToolsStoreTrue, NEW K
    PROVE  /\ Tools!Versions(stored, K) = {ToolsVersion(r) : r \in ToolsKeysOf(K)}
           /\ IsFiniteSet(Tools!Versions(stored, K))
           /\ \A v \in Tools!Versions(stored, K) :
                 /\ v.asset \in K /\ v.hash \in Payload /\ v.last_seen \in Nat
                 /\ ToolsRaw(v.asset, v.hash) \in DOMAIN stored.raw_assets
                 /\ v = ToolsVersion(ToolsRaw(v.asset, v.hash))
           /\ \A k \in K, h \in Payload :
                 ToolsRaw(k, h) \in DOMAIN stored.raw_assets => ToolsVersion(ToolsRaw(k, h)) \in Tools!Versions(stored, K)
<1>1. Tools!Versions(stored, K) = {ToolsVersion(r) : r \in ToolsKeysOf(K)}
  BY DEF Tools!Versions, ToolsVersion, ToolsKeysOf
<1>2. IsFiniteSet(Tools!Versions(stored, K))
  <2> DEFINE f == [r \in ToolsKeysOf(K) |-> ToolsVersion(r)]
  <2>1. IsFiniteSet(ToolsKeysOf(K))
    BY ToolsSize, FS_Subset DEF ToolsStoreTrue, ToolsPayloadsTrue, ToolsKeysOf
  <2>2. f \in Surjection(ToolsKeysOf(K), Tools!Versions(stored, K))
    BY <1>1 DEF Surjection
  <2> QED
    BY <2>1, <2>2, FS_Surjection
<1>3. ASSUME NEW r \in ToolsKeysOf(K)
      PROVE  LET v == ToolsVersion(r) IN
             /\ v.asset \in K /\ v.hash \in Payload /\ v.last_seen \in Nat
             /\ ToolsRaw(v.asset, v.hash) \in DOMAIN stored.raw_assets
             /\ v = ToolsVersion(ToolsRaw(v.asset, v.hash))
  <2>1. r \in DOMAIN stored.raw_assets /\ r \in Tools!RawKey /\ r.asset \in K
    BY DEF ToolsStoreTrue, ToolsPayloadsTrue, ToolsKeysOf
  <2>2. r = ToolsRaw(r.asset, r.hash) /\ r.hash \in Payload
    BY <2>1 DEF Tools!RawKey, ToolsRaw
  <2>3. PICK w \in ToolsWritesOf(r.asset, r.hash) : stored.raw_assets[r].last_seen = Tools!Written(w).at
    BY <2>1 DEF ToolsStoreTrue, ToolsPayloadsTrue
  <2>4. Tools!Written(w).at \in Nat
    BY ToolsWriteIs DEF ToolsWritesOf, ToolsStoreTrue
  <2>5. ToolsVersion(r).asset = r.asset /\ ToolsVersion(r).hash = r.hash /\ ToolsVersion(r).last_seen \in Nat
    BY <2>3, <2>4 DEF ToolsVersion
  <2> QED
    BY <2>1, <2>2, <2>5
<1>4. ASSUME NEW k \in K, NEW h \in Payload, ToolsRaw(k, h) \in DOMAIN stored.raw_assets
      PROVE  ToolsVersion(ToolsRaw(k, h)) \in Tools!Versions(stored, K)
  <2>1. ToolsRaw(k, h).asset = k
    BY DEF ToolsRaw
  <2> QED
    BY <1>1, <1>4, <2>1 DEF ToolsKeysOf
<1> QED
  BY <1>1, <1>2, <1>3, <1>4

(* Each asset is shown with one payload.                                   *)
LEMMA ToolsOneLatest ==
    ASSUME Tools!Parameters, ToolsStoreTrue, NEW k \in DOMAIN stored.assets
    PROVE  \E v : /\ Tools!Latest(stored, k) = {v} /\ v.hash \in Payload
                  /\ ToolsRaw(k, v.hash) \in DOMAIN stored.raw_assets
<1> DEFINE S == Tools!Versions(stored, {k})
<1>1. /\ IsFiniteSet(S)
      /\ \A v \in S : /\ v.asset = k /\ v.hash \in Payload /\ v.last_seen \in Nat
                      /\ ToolsRaw(k, v.hash) \in DOMAIN stored.raw_assets
                      /\ v = ToolsVersion(ToolsRaw(k, v.hash))
  BY ToolsVersionsAre
<1>2. S # {}
  <2>1. PICK w \in Tools!Writes(k) : TRUE
    BY DEF ToolsStoreTrue, ToolsAssetsTrue
  <2>2. k \in Tools!AssetKey /\ Tools!Written(w).hash \in Payload
    BY ToolsWriteIs DEF ToolsStoreTrue
  <2>3. ToolsRaw(k, Tools!Written(w).hash) \in DOMAIN stored.raw_assets
    BY <2>2 DEF ToolsStoreTrue, ToolsPayloadsTrue
  <2> QED
    BY <2>2, <2>3, ToolsVersionsAre
<1> HIDE DEF S
<1>3. PICK v \in S : \A w \in S : ~Tools!NewerVersion(w, v)
  BY <1>1, <1>2, ToolsNewestExists
<1>4. ASSUME NEW u \in S, \A w \in S : ~Tools!NewerVersion(w, u) PROVE u = v
  <2>1. ~Tools!NewerVersion(u, v) /\ ~Tools!NewerVersion(v, u)
    BY <1>3, <1>4
  <2>2. HashRank[u.hash] \in Nat /\ HashRank[v.hash] \in Nat
    BY <1>1 DEF Tools!Parameters
  <2>3. u.last_seen = v.last_seen /\ HashRank[u.hash] = HashRank[v.hash]
    BY <1>1, <2>1, <2>2 DEF Tools!NewerVersion, Tools!Newer
  <2>4. u.hash = v.hash
    BY <1>1, <2>3 DEF Tools!Parameters
  <2> QED
    BY <1>1, <2>4
<1>5. Tools!Latest(stored, k) = {v}
  BY <1>3, <1>4 DEF Tools!Latest, S
<1> QED
  BY <1>1, <1>5

(* Unless an element was overtaken, the newest payload is that of the      *)
(* element written last.                                                   *)
LEMMA ToolsLatestIsLast ==
    ASSUME Tools!Parameters, ToolsStoreTrue, NEW k \in DOMAIN stored.assets, ~Tools!Overtaken(k),
           NEW v \in Tools!Latest(stored, k)
    PROVE  /\ v.hash = stored.assets[k].meta
           /\ \E w \in Tools!Writes(k) : Tools!Written(w).hash = v.hash /\ Tools!Written(w).at = stored.assets[k].last_seen
<1>1. PICK w \in Tools!Writes(k) :
         /\ ToolsLastOf(w, Tools!Writes(k))
         /\ stored.assets[k].meta = Tools!Written(w).hash /\ stored.assets[k].last_seen = Tools!Written(w).at
  BY DEF ToolsStoreTrue, ToolsAssetsTrue
<1> DEFINE h == Tools!Written(w).hash
<1>2. k \in Tools!AssetKey /\ h \in Payload /\ Tools!Written(w).at \in Nat
  BY ToolsWriteIs DEF ToolsStoreTrue
<1>3. ToolsRaw(k, h) \in DOMAIN stored.raw_assets
  BY <1>2 DEF ToolsStoreTrue, ToolsPayloadsTrue
<1>4. stored.raw_assets[ToolsRaw(k, h)].last_seen = Tools!Written(w).at
  <2>1. ToolsRaw(k, h).asset = k /\ ToolsRaw(k, h).hash = h
    BY DEF ToolsRaw
  <2>2. PICK u \in ToolsWritesOf(k, h) :
           ToolsLastOf(u, ToolsWritesOf(k, h)) /\ stored.raw_assets[ToolsRaw(k, h)].last_seen = Tools!Written(u).at
    BY <1>3, <2>1 DEF ToolsStoreTrue, ToolsPayloadsTrue
  <2>3. u \in Tools!Writes(k) /\ w \in ToolsWritesOf(k, h)
    BY DEF ToolsWritesOf
  <2>4. u = w
    BY <1>1, <2>2, <2>3, ToolsOrder DEF ToolsLastOf, ToolsStoreTrue
  <2> QED
    BY <2>2, <2>4
<1>5. v \in Tools!Versions(stored, {k}) /\ \A x \in Tools!Versions(stored, {k}) : ~Tools!NewerVersion(x, v)
  BY DEF Tools!Latest
<1>6. /\ v.hash \in Payload /\ ToolsRaw(k, v.hash) \in DOMAIN stored.raw_assets
      /\ v = ToolsVersion(ToolsRaw(k, v.hash))
  BY <1>5, ToolsVersionsAre
<1>7. v.hash = h
  <2> SUFFICES ASSUME v.hash # h PROVE FALSE
    OBVIOUS
  <2>1. ToolsRaw(k, v.hash).asset = k /\ ToolsRaw(k, v.hash).hash = v.hash
    BY DEF ToolsRaw
  <2>2. PICK u \in ToolsWritesOf(k, v.hash) : stored.raw_assets[ToolsRaw(k, v.hash)].last_seen = Tools!Written(u).at
    BY <1>6, <2>1 DEF ToolsStoreTrue, ToolsPayloadsTrue
  <2>3. u \in Tools!Writes(k) /\ Tools!Written(u).hash = v.hash
    BY DEF ToolsWritesOf
  <2>4. Tools!Precedes(u, w)
    BY <1>1, <2>3 DEF ToolsLastOf
  <2>5. Tools!Written(u).at \in Nat
    BY <2>3, ToolsWriteIs DEF ToolsStoreTrue
  <2>6. Tools!Written(u).at < Tools!Written(w).at
    BY <1>2, <2>3, <2>4, <2>5 DEF Tools!Overtaken
  <2>7. v.last_seen = Tools!Written(u).at
    BY <1>6, <2>2 DEF ToolsVersion
  <2>8. ToolsVersion(ToolsRaw(k, h)) \in Tools!Versions(stored, {k}) /\ ToolsVersion(ToolsRaw(k, h)).last_seen = Tools!Written(w).at
    BY <1>2, <1>3, <1>4, ToolsVersionsAre DEF ToolsVersion
  <2> QED
    BY <1>2, <1>5, <2>5, <2>6, <2>7, <2>8 DEF Tools!NewerVersion, Tools!Newer
<1> QED
  BY <1>1, <1>7

(* GetAssets returns one row of each asset asked for.                      *)
LEMMA ToolsGetAssetsIs ==
    ASSUME Tools!Parameters, ToolsStoreTrue, NEW q, NEW r \in Tools!GetAssets(stored, q)
    PROVE  /\ r.key \in Tools!AssetsOf(stored, q.id, q.type, q.ds) /\ r.key \in DOMAIN stored.assets
           /\ ToolsRaw(r.key, r.hash) \in DOMAIN stored.raw_assets
           /\ ~Tools!Overtaken(r.key) =>
                 /\ r.hash = r.meta
                 /\ \E w \in Tools!Writes(r.key) : Tools!Written(w).hash = r.hash /\ Tools!Written(w).at = r.last_seen
<1>1. PICK k \in Tools!AssetsOf(stored, q.id, q.type, q.ds) : \E v \in Tools!Latest(stored, k) :
         r = [key |-> k, meta |-> stored.assets[k].meta, last_seen |-> stored.assets[k].last_seen,
              hash |-> v.hash]
  BY DEF Tools!GetAssets
<1>2. PICK v \in Tools!Latest(stored, k) :
         r = [key |-> k, meta |-> stored.assets[k].meta, last_seen |-> stored.assets[k].last_seen,
              hash |-> v.hash]
  BY <1>1
<1>3. k \in DOMAIN stored.assets
  BY DEF Tools!AssetsOf
<1>4. r.key = k /\ r.meta = stored.assets[k].meta /\ r.last_seen = stored.assets[k].last_seen /\ r.hash = v.hash
  BY <1>2
<1>5. ToolsRaw(k, v.hash) \in DOMAIN stored.raw_assets
  BY <1>3, ToolsOneLatest
<1> QED
  BY <1>3, <1>4, <1>5, ToolsLatestIsLast

LEMMA ToolsGetOneAsset ==
    ASSUME Tools!Parameters, ToolsStoreTrue, NEW q, NEW k \in DOMAIN stored.assets,
           Tools!AssetsOf(stored, q.id, q.type, q.ds) = {k}
    PROVE  \E r : Tools!GetAssets(stored, q) = {r} /\ r.key = k
<1>1. PICK v : Tools!Latest(stored, k) = {v}
  BY ToolsOneLatest
<1> DEFINE r == [key |-> k, meta |-> stored.assets[k].meta, last_seen |-> stored.assets[k].last_seen,
                 hash |-> v.hash]
           rs(c) == {[key |-> c, meta |-> stored.assets[c].meta, last_seen |-> stored.assets[c].last_seen,
                        hash |-> u.hash] : u \in Tools!Latest(stored, c)}
<1>2. Tools!GetAssets(stored, q) = UNION {rs(c) : c \in {k}}
  BY DEF Tools!GetAssets
<1>3. rs(k) = {r}
  BY <1>1
<1>4. Tools!GetAssets(stored, q) = {r}
  <2> HIDE DEF rs
  <2> QED
    BY <1>2, <1>3
<1>5. r.key = k
  OBVIOUS
<1> QED
  BY <1>4, <1>5
-----------------------------------------------------------------------------
(* A page is all of the rows, or as many as were asked for.                *)
LEMMA ToolsPageIs ==
    ASSUME NEW rs, IsFiniteSet(rs), NEW n \in Nat \ {0}, NEW page \in SUBSET rs,
           Tools!Cardinality(page) = IF Tools!Cardinality(rs) < n THEN Tools!Cardinality(rs) ELSE n
    PROVE  /\ rs # {} => page # {}
           /\ page = rs \/ Tools!Cardinality(page) = n
<1>1. /\ IsFiniteSet(page) /\ (Tools!Cardinality(page) = 0 <=> page = {})
      /\ (Tools!Cardinality(rs) = 0 <=> rs = {})
      /\ Tools!Cardinality(rs) = Tools!Cardinality(page) => rs = page
      /\ Tools!Cardinality(rs) \in Nat
  BY ToolsSize, FS_Subset, FS_EmptySet, FS_CardinalityType
<1>2. Tools!Cardinality(page) = Tools!Cardinality(rs) \/ Tools!Cardinality(page) = n
  OBVIOUS
<1> QED
  BY <1>1, <1>2

LEMMA ToolsLimitIs ==
    ASSUME Tools!Parameters, NEW q \in Calls, Tools!LimitValid(q) PROVE Tools!Limit(q) \in Nat \ {0}
<1>1. q.limit \in Nat \union {Any} /\ DefaultLimit \in Nat \ {0} /\ MaxLimit \in Nat \ {0}
  BY DEF Tools!Parameters, Tools!Call
<1> QED
  BY <1>1 DEF Tools!Limit, Tools!LimitValid

(* The full key of an asset names that asset.                              *)
LEMMA ToolsFullKey ==
    ASSUME Tools!Parameters, ToolsStoreTrue, NEW k \in DOMAIN stored.assets
    PROVE  Tools!AssetsOf(stored, k.id, k.type, k.ds) = {k}
<1>1. DOMAIN stored.assets \subseteq Tools!AssetKey
  BY DEF ToolsStoreTrue, ToolsAssetsTrue
<1>2. /\ Any \notin Ident /\ Any \notin Tools!ElementType /\ Any \notin DataSource
  BY DEF Tools!Parameters
<1>3. k.id \in Ident /\ k.type \in Tools!ElementType /\ k.ds \in DataSource
  BY <1>1 DEF Tools!AssetKey
<1>4. ASSUME NEW l \in DOMAIN stored.assets, l.id = k.id, l.type = k.type, l.ds = k.ds PROVE l = k
  BY <1>1, <1>4 DEF Tools!AssetKey
<1>5. \A l : l \in Tools!AssetsOf(stored, k.id, k.type, k.ds)
                <=> l \in DOMAIN stored.assets /\ l.id = k.id /\ l.type = k.type /\ l.ds = k.ds
  <2>1. k.id # Any /\ k.type # Any /\ k.ds # Any
    BY <1>2, <1>3
  <2>2. \A x : /\ k.id \in {Any, x} <=> x = k.id
               /\ k.type \in {Any, x} <=> x = k.type
               /\ k.ds \in {Any, x} <=> x = k.ds
    BY <2>1
  <2> QED
    BY <2>2 DEF Tools!AssetsOf, Tools!Given
<1> QED
  BY <1>4, <1>5

LEMMA ToolsAssets ==
    ASSUME ToolsStoreTrue, NEW id, NEW type, NEW ds
    PROVE  /\ Tools!AssetsOf(stored, id, type, ds) \in SUBSET DOMAIN stored.assets
           /\ IsFiniteSet(Tools!AssetsOf(stored, id, type, ds))
           /\ IsFiniteSet(Tools!Summaries(stored, id, type, ds))
           /\ \A s \in Tools!Summaries(stored, id, type, ds) : s.key \in Tools!AssetsOf(stored, id, type, ds)
           /\ \A k \in Tools!AssetsOf(stored, id, type, ds) : Tools!Summary(stored, k) \in Tools!Summaries(stored, id, type, ds)
<1> DEFINE A == Tools!AssetsOf(stored, id, type, ds)
           f == [k \in A |-> Tools!Summary(stored, k)]
<1>1. A \in SUBSET DOMAIN stored.assets
  BY DEF Tools!AssetsOf
<1>2. IsFiniteSet(A)
  BY ToolsSize, <1>1, FS_Subset DEF ToolsStoreTrue, ToolsAssetsTrue
<1>3. f \in Surjection(A, Tools!Summaries(stored, id, type, ds))
  BY DEF Surjection, Tools!Summaries
<1>4. IsFiniteSet(Tools!Summaries(stored, id, type, ds))
  BY <1>2, <1>3, FS_Surjection
<1>5. \A s \in Tools!Summaries(stored, id, type, ds) : s.key \in A
  BY DEF Tools!Summaries, Tools!Summary
<1>6. \A k \in A : Tools!Summary(stored, k) \in Tools!Summaries(stored, id, type, ds)
  BY DEF Tools!Summaries
<1> QED
  BY <1>1, <1>2, <1>4, <1>5, <1>6

LEMMA ToolsFoundIsFinite ==
    ASSUME Tools!Parameters, ToolsStoreTrue, NEW q PROVE IsFiniteSet(Tools!GetAssets(stored, q))
<1> DEFINE A == Tools!AssetsOf(stored, q.id, q.type, q.ds)
           RowOf(k, v) == [key |-> k, meta |-> stored.assets[k].meta,
                         last_seen |-> stored.assets[k].last_seen, hash |-> v.hash]
           rs(k) == {RowOf(k, v) : v \in Tools!Latest(stored, k)}
           row(k) == RowOf(k, CHOOSE v : v \in Tools!Latest(stored, k))
           f == [k \in A |-> row(k)]
<1>1. Tools!GetAssets(stored, q) = UNION {rs(k) : k \in A}
  BY DEF Tools!GetAssets
<1>2. IsFiniteSet(A) /\ A \in SUBSET DOMAIN stored.assets
  BY ToolsAssets
<1>3. \A k \in A : Tools!Latest(stored, k) = {CHOOSE v : v \in Tools!Latest(stored, k)}
  <2> SUFFICES ASSUME NEW k \in A PROVE Tools!Latest(stored, k) = {CHOOSE v : v \in Tools!Latest(stored, k)}
    OBVIOUS
  <2>1. PICK v : Tools!Latest(stored, k) = {v}
    BY <1>2, ToolsOneLatest
  <2> QED
    BY <2>1
<1>4. \A k \in A : rs(k) = {row(k)}
  <2> SUFFICES ASSUME NEW k \in A PROVE rs(k) = {row(k)}
    OBVIOUS
  <2>1. PICK u : u = (CHOOSE v : v \in Tools!Latest(stored, k)) /\ Tools!Latest(stored, k) = {u}
    BY <1>3
  <2> HIDE DEF RowOf
  <2> QED
    BY <2>1
<1>5. Tools!GetAssets(stored, q) = {row(k) : k \in A}
  <2> HIDE DEF rs, row, A
  <2> QED
    BY <1>1, <1>4
<1>6. f \in Surjection(A, Tools!GetAssets(stored, q))
  <2> HIDE DEF row, A
  <2> QED
    BY <1>5 DEF Surjection
<1> QED
  BY <1>2, <1>6, FS_Surjection
-----------------------------------------------------------------------------
(* A row that is right stays right, whatever is stored.                    *)
ToolsRowTrue(r) ==
    ~Tools!Overtaken(r.key) =>
        /\ r.hash = r.meta
        /\ \E w \in Tools!Writes(r.key) : Tools!Written(w).hash = r.hash /\ Tools!Written(w).at = r.last_seen

LEMMA ToolsRowStays ==
    ASSUME Tools!Parameters, ToolsStoreTrue, Tools!Ingest!Next \/ UNCHANGED Tools!store, NEW r,
           ToolsRowTrue(r)
    PROVE  ToolsRowTrue(r)'
<1>1. /\ Tools!Writes(r.key) \subseteq Tools!Writes(r.key)'
      /\ \A w \in Tools!Writes(r.key) : Tools!Written(w)' = Tools!Written(w)
  BY ToolsStoreStep
<1>2. Tools!Overtaken(r.key) => Tools!Overtaken(r.key)'
  BY <1>1 DEF Tools!Overtaken, Tools!Precedes
<1> QED
  BY <1>1, <1>2 DEF ToolsRowTrue

(* The steps of a call, each of which leaves the store as it is.           *)
ToolsAnswering == Tools!AnswersOfOneElement /\ Tools!ShownStays

LEMMA ToolsAskKeeps ==
    ASSUME Tools!Parameters, ToolsIInv, NEW q \in Calls,
           Tools!Ask(q) PROVE ToolsServing' /\ ToolsAnswering'
<1> USE DEF Tools!Ask, Tools!store, Tools!NoAsset
<1>1. ToolsServing'
  BY DEF ToolsIInv, ToolsServing
<1>2. step' \notin {"answered", "count"}
  OBVIOUS
<1> QED
  BY <1>1, <1>2 DEF ToolsAnswering, Tools!AnswersOfOneElement, Tools!ShownStays, Tools!Answered

LEMMA ToolsResolveKeeps ==
    ASSUME Tools!Parameters, ToolsIInv, Tools!Resolve PROVE ToolsServing' /\ ToolsAnswering'
<1> DEFINE got == Tools!GetAssets(stored, call)
<1>1. /\ ToolsStoreTrue /\ ToolsServing /\ step = "resolve" /\ asset = {} /\ call.tool \in Tools!Resolving
  BY DEF ToolsIInv, ToolsStoreTrue, Tools!Resolve, ToolsServing, Tools!NoAsset
<1>2. CASE Tools!Refuse
  <2> USE DEF Tools!Refuse, Tools!store, Tools!NoAsset
  <2>1. ToolsServing'
    BY <1>1, <1>2 DEF ToolsServing
  <2>2. answer'.ok = FALSE /\ asset' = {} /\ call'.tool \notin {"asset"} /\ step' = "answered"
    BY <1>1, <1>2 DEF Tools!NoAnswer, Tools!Resolving
  <2> QED
    BY <2>1, <2>2 DEF ToolsAnswering, Tools!AnswersOfOneElement, Tools!ShownStays, Tools!Answered
<1>3. CASE /\ Tools!Cardinality(got) = 1 /\ asset' = got /\ step' = "read"
           /\ UNCHANGED <<Tools!store, call, assetCounts, answer, shown>>
  <2>1. PICK r : got = {r}
    BY ToolsSize, <1>1, <1>3, ToolsFoundIsFinite, FS_Singleton
  <2>2. /\ r.key \in Tools!AssetsOf(stored, call.id, call.type, call.ds)
        /\ ToolsRaw(r.key, r.hash) \in DOMAIN stored.raw_assets
    BY <1>1, <2>1, ToolsGetAssetsIs
  <2> HIDE DEF got
  <2>3. asset' = {r} /\ step' = "read" /\ call' = call /\ stored' = stored /\ shown' = shown
    BY <1>3, <2>1 DEF Tools!store
  <2>4. ToolsServing'
    BY <1>1, <2>2, <2>3 DEF ToolsServing, Tools!NoAsset, Tools!Given, Tools!AssetsOf
  <2> QED
    BY <2>3, <2>4 DEF ToolsAnswering, Tools!AnswersOfOneElement, Tools!ShownStays, Tools!Answered
<1> QED
  BY <1>2, <1>3 DEF Tools!Resolve

LEMMA ToolsBadArgumentsKeeps ==
    ASSUME Tools!Parameters, ToolsIInv, Tools!BadArguments PROVE ToolsServing' /\ ToolsAnswering'
<1>1. /\ ToolsServing /\ step = "read" /\ call.tool # "asset" /\ ~Tools!Valid(call)
      /\ answer'.ok = FALSE /\ step' = "answered" /\ call' = call /\ asset' = asset
      /\ shown' = shown /\ stored' = stored
  BY DEF ToolsIInv, Tools!BadArguments, Tools!Reading, Tools!Refuse, Tools!NoAnswer, Tools!store
<1>2. ToolsServing'
  BY <1>1 DEF ToolsServing, Tools!AssetsOf
<1>3. ~Tools!Valid(call)'
  BY <1>1 DEF Tools!Valid, Tools!LimitValid
<1> QED
  BY <1>1, <1>2, <1>3 DEF ToolsAnswering, Tools!AnswersOfOneElement, Tools!ShownStays,
     Tools!Answered

(* An answer that names only assets that are there, to a call of a tool    *)
(* that promises no more than that.                                        *)
LEMMA ToolsAnswerKeeps ==
    ASSUME Tools!Parameters, ToolsIInv, NEW rs, NEW names \in SUBSET DOMAIN stored.assets,
           step # "idle", call.tool \notin {"asset", "versions", "explore"},
           Tools!Answer(rs, names), asset' = asset
    PROVE  ToolsServing' /\ ToolsAnswering'
<1>1. /\ ToolsServing /\ call' = call /\ step' = "answered" /\ stored' = stored /\ shown' = shown \union names
      /\ asset' = asset
  BY DEF ToolsIInv, Tools!Answer, Tools!store
<1>2. shown' \subseteq DOMAIN stored'.assets
  BY <1>1 DEF ToolsServing
<1>3. ToolsServing'
  BY <1>1, <1>2 DEF ToolsServing, Tools!AssetsOf
<1> QED
  BY <1>1, <1>3 DEF ToolsAnswering, Tools!AnswersOfOneElement, Tools!ShownStays, Tools!Answered

LEMMA ToolsListDataSourcesKeeps ==
    ASSUME Tools!Parameters, ToolsIInv, Tools!ListDataSources PROVE ToolsServing' /\ ToolsAnswering'
<1>1. /\ step = "read" /\ call.tool = "sources" /\ asset' = asset
      /\ \E rs : Tools!Answer(rs, {})
  BY DEF Tools!ListDataSources, Tools!Reading
<1> QED
  BY <1>1, ToolsAnswerKeeps

LEMMA ToolsSearchAssetsKeeps ==
    ASSUME Tools!Parameters, ToolsIInv, Tools!SearchAssets PROVE ToolsServing' /\ ToolsAnswering'
<1>1. /\ step = "read" /\ call.tool = "search" /\ asset' = asset /\ ToolsStoreTrue
  BY DEF Tools!SearchAssets, Tools!Reading, ToolsIInv, ToolsStoreTrue
<1>2. PICK page \in SUBSET Tools!Summaries(stored, call.id, call.type, call.ds) :
         Tools!Answer(page, {r.key : r \in page})
  BY DEF Tools!SearchAssets, Tools!Pages
<1>3. \A r \in page : r.key \in DOMAIN stored.assets
  BY <1>1, ToolsAssets
<1> QED
  BY <1>1, <1>2, <1>3, ToolsAnswerKeeps

LEMMA ToolsGetRelationshipsKeeps ==
    ASSUME Tools!Parameters, ToolsIInv,
           Tools!GetRelationships PROVE ToolsServing' /\ ToolsAnswering'
<1>1. /\ step = "read" /\ call.tool = "relationships" /\ asset' = asset
      /\ \E rs : Tools!Answer(rs, {})
  BY DEF Tools!GetRelationships, Tools!Reading
<1> QED
  BY <1>1, ToolsAnswerKeeps

LEMMA ToolsListCrawlRunsKeeps ==
    ASSUME Tools!Parameters, ToolsIInv, Tools!ListCrawlRuns PROVE ToolsServing' /\ ToolsAnswering'
<1>1. /\ step = "read" /\ call.tool = "runs" /\ asset' = asset
      /\ \E rs : Tools!Answer(rs, {})
  BY DEF Tools!ListCrawlRuns, Tools!Reading
<1> QED
  BY <1>1, ToolsAnswerKeeps

LEMMA ToolsCountRelationshipsKeeps ==
    ASSUME Tools!Parameters, ToolsIInv,
           Tools!CountRelationships PROVE ToolsServing' /\ ToolsAnswering'
<1>1. /\ step = "count" /\ call.tool = "summary" /\ asset' = asset
      /\ \E rs : Tools!Answer(rs, {})
  BY DEF Tools!CountRelationships, ToolsIInv, ToolsServing
<1> QED
  BY <1>1, ToolsAnswerKeeps

LEMMA ToolsCountAssetsKeeps ==
    ASSUME Tools!Parameters, ToolsIInv, Tools!CountAssets PROVE ToolsServing' /\ ToolsAnswering'
<1>1. /\ ToolsStoreTrue /\ ToolsServing /\ step = "read" /\ call.tool = "summary"
      /\ step' = "count" /\ call' = call /\ asset' = asset /\ shown' = shown /\ stored' = stored
      /\ assetCounts' = {<<t, Tools!Cardinality(Tools!AssetsOf(stored, Any, t, call.ds))>> : t \in Tools!ElementType}
  BY DEF ToolsIInv, ToolsStoreTrue, Tools!CountAssets, Tools!Reading, Tools!store
<1>2. ToolsServing'
  BY <1>1 DEF ToolsServing, Tools!AssetsOf
<1>3. ASSUME NEW t \in Tools!ElementType
      PROVE  Tools!Cardinality(Tools!AssetsOf(stored, Any, t, call.ds))
                 >= Tools!Cardinality({k \in shown : k.type = t /\ Tools!Given(call.ds, k.ds)})
  <2> DEFINE A == Tools!AssetsOf(stored, Any, t, call.ds)
             S == {k \in shown : k.type = t /\ Tools!Given(call.ds, k.ds)}
  <2>1. S \in SUBSET A
    BY <1>1 DEF ToolsServing, Tools!AssetsOf, Tools!Given
  <2>2. IsFiniteSet(A)
    BY <1>1, ToolsAssets
  <2> HIDE DEF A, S
  <2>3. /\ Tools!Cardinality(S) <= Tools!Cardinality(A) /\ Tools!Cardinality(S) \in Nat /\ Tools!Cardinality(A) \in Nat
    BY ToolsSize, <2>1, <2>2, FS_Subset, FS_CardinalityType
  <2> QED
    BY <2>3 DEF A, S
<1>4. ASSUME NEW c \in assetCounts'
      PROVE  c[2] >= Tools!Cardinality({k \in shown' : k.type = c[1] /\ Tools!Given(call'.ds, k.ds)})
  <2>1. PICK t \in Tools!ElementType : c = <<t, Tools!Cardinality(Tools!AssetsOf(stored, Any, t, call.ds))>>
    BY <1>1
  <2> QED
    BY <1>1, <1>3, <2>1
<1>5. step' # "answered"
  BY <1>1
<1> QED
  BY <1>2, <1>4, <1>5 DEF ToolsAnswering, Tools!AnswersOfOneElement, Tools!ShownStays,
     Tools!Answered, Tools!Given

LEMMA ToolsGetAssetKeeps ==
    ASSUME Tools!Parameters, ToolsIInv, Tools!GetAsset PROVE ToolsServing' /\ ToolsAnswering'
<1> DEFINE got == Tools!GetAssets(stored, call)
<1>1. /\ ToolsStoreTrue /\ ToolsServing /\ step = "read" /\ call.tool = "asset" /\ UNCHANGED Tools!store
  BY DEF ToolsIInv, ToolsStoreTrue, Tools!GetAsset, Tools!Reading, Tools!Refuse, Tools!Answer
<1>2. ASSUME NEW k \in DOMAIN stored.assets, call.id = k.id, call.type = k.type, call.ds = k.ds
      PROVE  \E r : got = {r} /\ r.key = k
  <2>1. Tools!AssetsOf(stored, call.id, call.type, call.ds) = {k}
    BY <1>1, <1>2, ToolsFullKey
  <2> QED
    BY <1>1, <2>1, ToolsGetOneAsset
<1>3. IsFiniteSet(got)
  BY <1>1, ToolsFoundIsFinite
<1>4. CASE Tools!Refuse /\ Tools!Cardinality(got) # 1
  <2>1. /\ answer'.rows = {} /\ call' = call /\ step' = "answered" /\ asset' = asset
        /\ shown' = shown /\ stored' = stored
    BY <1>4 DEF Tools!Refuse, Tools!NoAnswer, Tools!store
  <2>2. ToolsServing'
    BY <1>1, <2>1 DEF ToolsServing, Tools!AssetsOf
  <2>3. \A k \in shown' : ~(call'.id = k.id /\ call'.type = k.type /\ call'.ds = k.ds)
    <3> SUFFICES ASSUME NEW k \in shown, call.id = k.id, call.type = k.type, call.ds = k.ds
                 PROVE  FALSE
      BY <2>1
    <3>1. k \in DOMAIN stored.assets
      BY <1>1 DEF ToolsServing
    <3>2. PICK r : got = {r}
      BY <1>2, <3>1
    <3> HIDE DEF got
    <3> QED
      BY ToolsSize, <1>4, <3>2, FS_Singleton
  <2> QED
    BY <1>1, <2>1, <2>2, <2>3 DEF ToolsAnswering, Tools!AnswersOfOneElement, Tools!ShownStays,
       Tools!Answered
<1>5. CASE /\ Tools!Cardinality(got) = 1 /\ Tools!Answer(got, {r.key : r \in got}) /\ UNCHANGED asset
  <2>1. PICK r : got = {r}
    BY ToolsSize, <1>3, <1>5, FS_Singleton
  <2>2. r.key \in DOMAIN stored.assets /\ ToolsRowTrue(r)
    BY <1>1, <2>1, ToolsGetAssetsIs DEF ToolsRowTrue
  <2>3. ToolsRowTrue(r)'
    BY <1>1, <2>2, ToolsRowStays
  <2> HIDE DEF got
  <2>4. /\ answer' = [ok |-> TRUE, rows |-> {r}] /\ call' = call /\ step' = "answered"
        /\ asset' = asset /\ shown' = shown \union {r.key} /\ stored' = stored
    BY <1>5, <2>1 DEF Tools!Answer, Tools!store
  <2>5. shown' \subseteq DOMAIN stored.assets
    BY <1>1, <2>2, <2>4 DEF ToolsServing
  <2>6. ToolsServing'
    BY <1>1, <2>4, <2>5 DEF ToolsServing, Tools!AssetsOf
  <2>7. Tools!AnswersOfOneElement'
    BY <2>3, <2>4 DEF Tools!AnswersOfOneElement, ToolsRowTrue
  <2>8. ASSUME NEW k \in shown', call'.id = k.id, call'.type = k.type, call'.ds = k.ds
        PROVE  r.key = k
    BY <1>2, <2>1, <2>4, <2>5, <2>8
  <2> QED
    BY <1>1, <2>4, <2>6, <2>7, <2>8 DEF ToolsAnswering, Tools!ShownStays, Tools!Answered
<1> QED
  BY <1>4, <1>5 DEF Tools!GetAsset

LEMMA ToolsGetVersionsKeeps ==
    ASSUME Tools!Parameters, ToolsIInv, Tools!GetVersions PROVE ToolsServing' /\ ToolsAnswering'
<1>1. /\ ToolsStoreTrue /\ ToolsServing /\ step = "read" /\ call.tool = "versions" /\ Tools!Valid(call)
      /\ call \in Calls /\ UNCHANGED Tools!store /\ asset' = asset
  BY DEF ToolsIInv, ToolsStoreTrue, Tools!GetVersions, Tools!Reading, Tools!Answer, ToolsServing
<1>2. PICK r \in asset : /\ asset = {r} /\ ToolsRaw(r.key, r.hash) \in DOMAIN stored.raw_assets
  BY <1>1 DEF ToolsServing, Tools!Resolving
<1> DEFINE V == Tools!Versions(stored, {r.key})
<1>3. PICK page \in SUBSET V :
         /\ Tools!Cardinality(page) = IF Tools!Cardinality(V) < Tools!Limit(call) THEN Tools!Cardinality(V) ELSE Tools!Limit(call)
         /\ Tools!Answer(page, {})
  <2>1. {x.key : x \in asset} = {r.key}
    BY <1>2
  <2> QED
    BY <2>1 DEF Tools!GetVersions, Tools!Pages
<1>4. r.hash \in Payload
  BY <1>1, <1>2 DEF ToolsStoreTrue, ToolsPayloadsTrue, Tools!RawKey, ToolsRaw
<1>5. /\ IsFiniteSet(V) /\ \A v \in V : v.asset = r.key
      /\ ToolsVersion(ToolsRaw(r.key, r.hash)) \in V
  BY <1>1, <1>2, <1>4, ToolsVersionsAre
<1>6. ToolsVersion(ToolsRaw(r.key, r.hash)).hash = r.hash
  BY DEF ToolsVersion, ToolsRaw
<1>7. Tools!Limit(call) \in Nat \ {0}
  BY <1>1, ToolsLimitIs DEF Tools!Valid
<1> HIDE DEF V
<1>8. page # {} /\ (page = V \/ Tools!Cardinality(page) = Tools!Limit(call))
  BY <1>3, <1>5, <1>7, ToolsPageIs
<1>9. /\ answer' = [ok |-> TRUE, rows |-> page] /\ call' = call /\ step' = "answered"
      /\ asset' = {r} /\ shown' = shown /\ stored' = stored
  BY <1>1, <1>2, <1>3 DEF Tools!Answer, Tools!store
<1>10. ToolsServing'
  BY <1>1, <1>2, <1>9 DEF ToolsServing, Tools!AssetsOf
<1>11. /\ answer'.rows # {} /\ \A v \in answer'.rows : v.asset = r.key
       /\ (\E v \in answer'.rows : v.hash = r.hash) \/ Tools!Cardinality(answer'.rows) = Tools!Limit(call)
  BY <1>5, <1>6, <1>8, <1>9
<1>12. Tools!Limit(call)' = Tools!Limit(call)
  BY <1>9 DEF Tools!Limit
<1> QED
  BY <1>1, <1>9, <1>10, <1>11, <1>12 DEF ToolsAnswering, Tools!AnswersOfOneElement,
     Tools!ShownStays, Tools!Answered

LEMMA ToolsFindRootKeeps ==
    ASSUME Tools!Parameters, ToolsIInv, Tools!FindRoot PROVE ToolsServing' /\ ToolsAnswering'
<1> DEFINE ds == IF call.tool = "path" THEN Any ELSE call.ds
           S == Tools!Summaries(stored, call.id, Any, ds)
<1>1. /\ ToolsStoreTrue /\ ToolsServing /\ step = "read" /\ call.tool \in {"explore", "path"} /\ Tools!Valid(call)
  BY DEF ToolsIInv, ToolsStoreTrue, Tools!FindRoot, Tools!Reading
<1>2. PICK page \in SUBSET S :
         /\ Tools!Cardinality(page) = IF Tools!Cardinality(S) < 1 THEN Tools!Cardinality(S) ELSE 1
         /\ \/ page # {} /\ Tools!Answer(page, {r.key : r \in page}) /\ UNCHANGED asset
            \/ page = {} /\ Tools!Refuse
  BY DEF Tools!FindRoot, Tools!Roots, Tools!Pages
<1>3. /\ IsFiniteSet(S) /\ \A s \in S : s.key \in Tools!AssetsOf(stored, call.id, Any, ds)
      /\ \A k \in Tools!AssetsOf(stored, call.id, Any, ds) : Tools!Summary(stored, k) \in S
  BY <1>1, ToolsAssets
<1> HIDE DEF S
<1>4. CASE page # {} /\ Tools!Answer(page, {r.key : r \in page}) /\ UNCHANGED asset
  <2>1. /\ answer' = [ok |-> TRUE, rows |-> page] /\ call' = call /\ step' = "answered"
        /\ asset' = asset /\ shown' = shown \union {r.key : r \in page} /\ stored' = stored
    BY <1>4 DEF Tools!Answer, Tools!store
  <2>2. \A r \in page : r.key \in DOMAIN stored.assets /\ Tools!Given(ds, r.key.ds)
    BY <1>3 DEF Tools!AssetsOf
  <2>3. shown' \subseteq DOMAIN stored.assets
    BY <1>1, <2>1, <2>2 DEF ToolsServing
  <2>4. ToolsServing'
    BY <1>1, <2>1, <2>3 DEF ToolsServing, Tools!AssetsOf
  <2>5. call.tool = "explore" => \A r \in answer'.rows : Tools!Given(call'.ds, r.key.ds)
    BY <2>1, <2>2
  <2> QED
    BY <1>1, <2>1, <2>4, <2>5 DEF ToolsAnswering, Tools!AnswersOfOneElement, Tools!ShownStays,
       Tools!Answered, Tools!Given
<1>5. CASE page = {} /\ Tools!Refuse
  <2>1. /\ call' = call /\ step' = "answered" /\ asset' = asset /\ shown' = shown /\ stored' = stored
    BY <1>5 DEF Tools!Refuse, Tools!store
  <2>2. ToolsServing'
    BY <1>1, <2>1 DEF ToolsServing, Tools!AssetsOf
  <2>3. call.tool = "explore" => asset = Tools!NoAsset
    <3> SUFFICES ASSUME call.tool = "explore", asset # Tools!NoAsset PROVE FALSE
      OBVIOUS
    <3>1. PICK r \in asset : r.key \in Tools!AssetsOf(stored, call.id, call.type, call.ds)
      BY <1>1 DEF ToolsServing
    <3>2. r.key \in Tools!AssetsOf(stored, call.id, Any, ds)
      <4>1. r.key \in DOMAIN stored.assets /\ Tools!Given(call.id, r.key.id) /\ Tools!Given(call.ds, r.key.ds)
        BY <3>1 DEF Tools!AssetsOf
      <4>2. \A x : Tools!Given(Any, x)
        BY DEF Tools!Given
      <4> QED
        BY <4>1, <4>2 DEF Tools!AssetsOf
    <3>3. S # {}
      BY <1>3, <3>2
    <3> QED
      BY <1>2, <1>3, <1>5, <3>3, ToolsPageIs
  <2> QED
    BY <1>1, <2>1, <2>2, <2>3 DEF ToolsAnswering, Tools!AnswersOfOneElement, Tools!ShownStays,
       Tools!Answered
<1> QED
  BY <1>2, <1>4, <1>5

LEMMA ToolsFailKeeps ==
    ASSUME Tools!Parameters, ToolsIInv, Tools!Fail PROVE ToolsServing' /\ ToolsAnswering'
<1>1. /\ ToolsServing /\ step' = "failed" /\ step # "idle" /\ call' = call /\ asset' = asset
      /\ shown' = shown /\ stored' = stored
  BY DEF ToolsIInv, Tools!Fail, Tools!store
<1>2. ToolsServing'
  BY <1>1 DEF ToolsServing, Tools!AssetsOf
<1> QED
  BY <1>1, <1>2 DEF ToolsAnswering, Tools!AnswersOfOneElement, Tools!ShownStays, Tools!Answered

LEMMA ToolsTakeKeeps ==
    ASSUME Tools!Parameters, ToolsIInv, Tools!Take PROVE ToolsServing' /\ ToolsAnswering'
<1>1. /\ ToolsServing /\ step' = "idle" /\ asset' = Tools!NoAsset /\ shown' = shown /\ stored' = stored
  BY DEF ToolsIInv, Tools!Take, Tools!store
<1>2. ToolsServing'
  BY <1>1 DEF ToolsServing
<1> QED
  BY <1>1, <1>2 DEF ToolsAnswering, Tools!AnswersOfOneElement, Tools!ShownStays, Tools!Answered

(* Meanwhile assets and payloads come, but none goes.                      *)
LEMMA ToolsCrawlKeeps ==
    ASSUME Tools!Parameters, ToolsIInv,
           Tools!Crawl \/ UNCHANGED Tools!vars PROVE ToolsServing' /\ ToolsAnswering'
<1>1. /\ ToolsStoreTrue /\ ToolsServing /\ Tools!AnswersOfOneElement /\ Tools!ShownStays
      /\ call' = call /\ step' = step /\ asset' = asset /\ assetCounts' = assetCounts
      /\ answer' = answer /\ shown' = shown /\ (Tools!Ingest!Next \/ UNCHANGED Tools!store)
  BY DEF ToolsIInv, ToolsStoreTrue, Tools!Crawl, Tools!vars
<1>2. /\ DOMAIN stored.assets \subseteq DOMAIN stored'.assets
      /\ DOMAIN stored.raw_assets \subseteq DOMAIN stored'.raw_assets
  BY <1>1, ToolsStoreStep
<1>3. Tools!AssetsOf(stored, call.id, call.type, call.ds) \subseteq Tools!AssetsOf(stored, call.id, call.type, call.ds)'
  BY <1>1, <1>2 DEF Tools!AssetsOf, Tools!Given
<1>4. ToolsServing'
  <2>1. /\ step' \in {"idle", "resolve", "read", "count", "answered", "failed"}
        /\ step' # "idle" => call' \in Calls
        /\ step' = "resolve" => call'.tool \in Tools!Resolving
        /\ step' = "count" => call'.tool = "summary"
        /\ step' \in {"idle", "resolve"} => asset' = Tools!NoAsset
        /\ step' = "read" /\ call'.tool \in Tools!Resolving => asset' # Tools!NoAsset
        /\ shown' \subseteq DOMAIN stored'.assets
    BY <1>1, <1>2 DEF ToolsServing
  <2>2. asset' # Tools!NoAsset => \E r \in asset' :
           /\ asset' = {r} /\ r.key \in Tools!AssetsOf(stored, call.id, call.type, call.ds)'
           /\ ToolsRaw(r.key, r.hash) \in DOMAIN stored'.raw_assets
    BY <1>1, <1>2, <1>3 DEF ToolsServing
  <2> QED
    BY <2>1, <2>2 DEF ToolsServing
<1>5. Tools!AnswersOfOneElement'
  <2> SUFFICES ASSUME Tools!Answered("asset"), NEW r \in answer.rows PROVE ToolsRowTrue(r)'
    BY <1>1 DEF Tools!AnswersOfOneElement, Tools!Answered, ToolsRowTrue
  <2>1. ToolsRowTrue(r)
    BY <1>1 DEF Tools!AnswersOfOneElement, ToolsRowTrue
  <2> QED
    BY <1>1, <2>1, ToolsRowStays
<1>6. Tools!ShownStays'
  BY <1>1 DEF Tools!ShownStays, Tools!Answered, Tools!Given, Tools!Limit, Tools!Valid,
     Tools!LimitValid
<1> QED
  BY <1>4, <1>5, <1>6 DEF ToolsAnswering
-----------------------------------------------------------------------------
LEMMA ToolsNextIInv == Tools!Parameters /\ ToolsIInv /\ [Tools!Next]_(Tools!vars) => ToolsIInv'
<1> SUFFICES ASSUME Tools!Parameters, ToolsIInv, [Tools!Next]_(Tools!vars) PROVE ToolsIInv'
  OBVIOUS
<1>1. ToolsStoreTrue'
  <2>1. Tools!Ingest!Next \/ UNCHANGED Tools!store
    BY DEF Tools!Next, Tools!Serve, Tools!Use, Tools!Ask, Tools!Take, Tools!Crawl, Tools!Resolve,
       Tools!BadArguments, Tools!ListDataSources, Tools!SearchAssets,
           Tools!GetAsset, Tools!GetRelationships, Tools!ListCrawlRuns, Tools!CountAssets, Tools!CountRelationships, Tools!GetVersions,
           Tools!FindRoot, Tools!Fail, Tools!Refuse, Tools!Answer, Tools!vars
  <2> QED
    BY <2>1, ToolsStoreStep DEF ToolsIInv, ToolsStoreTrue
<1>2. ToolsServing' /\ ToolsAnswering'
  BY ToolsAskKeeps, ToolsResolveKeeps, ToolsBadArgumentsKeeps, ToolsListDataSourcesKeeps,
     ToolsSearchAssetsKeeps,
     ToolsGetAssetKeeps, ToolsGetRelationshipsKeeps, ToolsListCrawlRunsKeeps, ToolsCountAssetsKeeps,
     ToolsCountRelationshipsKeeps, ToolsGetVersionsKeeps, ToolsFindRootKeeps, ToolsFailKeeps, ToolsTakeKeeps, ToolsCrawlKeeps
     DEF Tools!Next, Tools!Serve, Tools!Use
<1> QED
  BY <1>1, <1>2 DEF ToolsIInv, ToolsStoreTrue, ToolsAnswering

LEMMA ToolsInitIInv == Tools!Init => ToolsIInv
<1> SUFFICES ASSUME Tools!Init PROVE ToolsIInv
  OBVIOUS
<1>1. ToolsStoreTrue
  BY ToolsStoreInit DEF Tools!Init
<1>2. ToolsServing
  BY DEF Tools!Init, ToolsServing
<1>3. Tools!AnswersOfOneElement /\ Tools!ShownStays
  BY DEF Tools!Init, Tools!AnswersOfOneElement, Tools!ShownStays, Tools!Answered
<1> QED
  BY <1>1, <1>2, <1>3 DEF ToolsIInv, ToolsStoreTrue

LEMMA ToolsInvariant == ASSUME Tools!Parameters PROVE Tools!Spec => []ToolsIInv
<1>1. Tools!Init => ToolsIInv
  BY ToolsInitIInv
<1>2. ToolsIInv /\ [Tools!Next]_(Tools!vars) => ToolsIInv'
  BY ToolsNextIInv
<1> QED
  BY <1>1, <1>2, PTL DEF Tools!Spec

(* The asset that is shown is one that was crawled, for any batches, calls *)
(* and orders of hashes.                                                   *)
THEOREM ShownAsCrawled == ASSUME Tools!Parameters PROVE Tools!Spec => []Tools!AnswersOfOneElement
<1>1. ToolsIInv => Tools!AnswersOfOneElement
  BY DEF ToolsIInv
<1> QED
  BY <1>1, ToolsInvariant, PTL

(* What one answer shows the next calls find, whatever is stored, lost or  *)
(* restarted meanwhile.                                                    *)
THEOREM ShownIsFound == ASSUME Tools!Parameters PROVE Tools!Spec => []Tools!ShownStays
<1>1. ToolsIInv => Tools!ShownStays
  BY DEF ToolsIInv
<1> QED
  BY <1>1, ToolsInvariant, PTL
-----------------------------------------------------------------------------
(* Every step of Traversals while it serves the tools is one of theirs.    *)
ToolsInv == traversal = "tools" => ToolsIInv

LEMMA ToolsStep == ToolsInv /\ [TraversalsNext]_all => ToolsInv'
<1> SUFFICES ASSUME ToolsIInv, traversal = "tools", [TraversalsNext]_all PROVE ToolsIInv'
  <2>1. [TraversalsNext]_all => traversal' = traversal
    BY DEF TraversalsNext, Traverse, Commit, Client, OnlyPath, OnlyTopology, OnlyTools, all
  <2> QED
    BY <2>1 DEF ToolsInv
<1>1. CASE TraversalsNext
  <2>1. Tools!Serve \/ Tools!Use \/ Tools!Crawl
    BY <1>1 DEF TraversalsNext, Traverse, Commit, Client, OnlyTopology, OnlyPath
  <2> QED
    BY <2>1, TraversalsAssumption, ToolsNextIInv DEF Tools!Next
<1>2. CASE UNCHANGED all
  <2>1. UNCHANGED Tools!vars
    BY <1>2 DEF all, ofTools, Tools!vars, Tools!store
  <2> QED
    BY <2>1, TraversalsAssumption, ToolsNextIInv
<1> QED
  BY <1>1, <1>2

LEMMA ToolsStart == TraversalsInit => ToolsInv
  BY ToolsInitIInv DEF TraversalsInit, ToolsInv

LEMMA ToolsAlways == TraversalsSpec => []ToolsInv
  BY ToolsStart, ToolsStep, PTL DEF TraversalsSpec

(* Metadata and payload of an asset that the asset tool shows are of one   *)
(* element, for any batches and calls.                                     *)
THEOREM ShownAssetsAreCrawled == TraversalsSpec => []AnswersOfOneElement
<1>1. ToolsInv => AnswersOfOneElement
  BY DEF ToolsInv, AnswersOfOneElement, ToolsIInv
<1> QED
  BY <1>1, ToolsAlways, PTL

(* What one answer of the tools shows their next calls find, whatever is   *)
(* stored, lost or restarted meanwhile.                                    *)
THEOREM ShownAssetsStay == TraversalsSpec => []ShownStays
<1>1. ToolsInv => ShownStays
  BY DEF ToolsInv, ShownStays, ToolsIInv
<1> QED
  BY <1>1, ToolsAlways, PTL
=============================================================================
