---------------------------- MODULE MCTraversals ----------------------------
(* Tables of six rows for the two traversals, and batches and calls for    *)
(* the tools.                                                              *)
EXTENDS Traversals

CONSTANTS s1, s2, k1, k2, a, b, c, d, vm, pod, h1, h2
-----------------------------------------------------------------------------
R(ds, kind, src, dst) == [ds |-> ds, kind |-> kind, src |-> src, dst |-> dst]

(* Two ways from a to d, of one and of three steps, a self loop, and       *)
(* rows that the filters on data source and kind leave out.                *)
SearchedRows ==
    {R(s1, k1, a, b), R(s1, k1, b, c), R(s1, k1, c, d), R(s1, k2, b, d),
     R(s2, k1, a, d), R(s1, k1, b, b)}
Searching(ds, kind, direction, from, to, maxHops) ==
    [ds |-> ds, kind |-> kind, direction |-> direction, from |-> from, to |-> to, maxHops |-> maxHops]

SomeSearches ==
    {Searching(Any, Any, "outgoing", a, d, 3), Searching(Any, Any, "both", a, d, 2),
     Searching(s1, k1, "outgoing", a, d, 2), Searching(Any, Any, "incoming", d, a, 3),
     Searching(Any, Any, "both", b, b, 1)}

(* A chain, a shortcut closing a cycle, a parallel row, a self loop; and   *)
(* bounds that never bite, or one of which bites.                          *)
TopologyRows ==
    {R(s1, k1, a, b), R(s2, k1, a, b), R(s1, k1, b, c), R(s1, k2, c, a),
     R(s1, k1, c, d), R(s1, k1, b, b)}
Exploration(ds, kind, direction, maxDepth, maxNodes, maxRelationships) ==
    [ds |-> ds, kind |-> kind, direction |-> direction, root |-> a,
     maxDepth |-> maxDepth, maxNodes |-> maxNodes, maxRelationships |-> maxRelationships]

Explorations ==
    {Exploration(Any, Any, "both", 4, 9, 9), Exploration(Any, Any, "outgoing", 3, 3, 9),
     Exploration(s1, k1, "outgoing", 2, 9, 9), Exploration(Any, Any, "both", 3, 9, 3),
     Exploration(Any, k1, "incoming", 2, 2, 2)}

(* A payload that comes back, an id that becomes ambiguous or is found in  *)
(* a second data source, an element stored after a newer one.              *)
Asset(type, hash, at) == [id |-> a, type |-> type, hash |-> hash, at |-> at, rel |-> NoRelation]
Link(at) ==
    [id |-> b, type |-> RelationshipType, hash |-> h1, at |-> at, rel |-> [src |-> a, dst |-> b, kind |-> k1]]
Batch(ds, at, data) == [ds |-> ds, at |-> at, data |-> data]
Ask(tool, type, ds, limit, direction) ==
    [tool |-> tool, id |-> a, type |-> type, ds |-> ds, limit |-> limit, direction |-> direction]

SomeBatches ==
    {Batch(s1, 1, <<Asset(vm, h1, 1), Link(1)>>), Batch(s1, 2, <<Asset(vm, h2, 2)>>),
     Batch(s1, 3, <<Asset(vm, h1, 3), Asset(pod, h1, 3)>>), Batch(s2, 2, <<Asset(vm, h2, 2)>>)}
SomeCalls ==
    {Ask("sources", Any, Any, Any, Any), Ask("search", Any, Any, 1, Any),
     Ask("asset", vm, s1, Any, Any), Ask("asset", Any, Any, Any, Any),
     Ask("relationships", Any, Any, 3, "outgoing"), Ask("relationships", Any, Any, 1, "other"),
     Ask("summary", Any, s1, Any, Any), Ask("runs", Any, s1, Any, Any),
     Ask("versions", vm, Any, Any, Any), Ask("versions", Any, s1, 1, Any),
     Ask("versions", Any, Any, 0, Any), Ask("explore", vm, s1, Any, Any),
     Ask("path", Any, Any, Any, "incoming")}
ByHash == [h \in {h1, h2} |-> IF h = h1 THEN 1 ELSE 2]
=============================================================================
