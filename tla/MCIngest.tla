------------------------------ MODULE MCIngest ------------------------------
EXTENDS IngestRefinement

CONSTANTS d1, d2, a, b, ab, vm, h1, h2, x, y

Vm(id, hash, at) ==
    [id |-> id, type |-> vm, hash |-> hash, at |-> at, rel |-> NoRelation]
Rel(kind, hash, at) ==
    [id |-> ab, type |-> RelationshipType, hash |-> hash, at |-> at,
     rel |-> [src |-> a, dst |-> b, kind |-> kind]]
BadRel(hash, at) ==
    [id |-> ab, type |-> RelationshipType, hash |-> hash, at |-> at, rel |-> NoRelation]
Of(ds, at, data) == [ds |-> ds, at |-> at, data |-> data]

(* Two relationships of one batch share an asset row (their id is "a.b");  *)
(* duplicates with and without a conflicting hash; an element seen earlier *)
(* than the one already stored; the same ids under two data sources.       *)
SomeBatches ==
    {Of(d1, 2, <<Vm(a, h1, 2), Rel(x, h1, 2), Rel(y, h2, 2), Rel(x, h1, 1)>>),
     Of(d1, 1, <<Vm(a, h2, 1), NilElement, Vm(a, h1, 2)>>),
     Of(d1, 3, <<BadRel(h2, 3), Rel(x, h1, 3), BadRel(h1, 3)>>),
     Of(d2, 1, <<Vm(a, h1, 1)>>),
     Of(NoSource, 1, <<Vm(a, h1, 1)>>)}
=============================================================================
