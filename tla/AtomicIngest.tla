---------------------------- MODULE AtomicIngest ----------------------------
(***************************************************************************)
(* What storing crawls promises, with no transaction, no loop and no       *)
(* intermediate state: batches are resolved one by one in the order they   *)
(* were sent, each at most once; a batch is either lost without a trace or *)
(* its whole effect appears in the catalog in one step.  Ingest implements *)
(* it.                                                                     *)
(***************************************************************************)
EXTENDS Catalog

CONSTANTS NoSource, NilElement, Batches, MaxSent

VARIABLES sent, status, db

vars == <<sent, status, db>>

Item(e, f) ==
    IF IsRelationship(e) THEN IsRelationship(f) /\ e.rel = f.rel
    ELSE ~IsRelationship(f) /\ <<e.type, e.id>> = <<f.type, f.id>>

(* The indexes of the elements that are stored: the first of each item. *)
Kept(data) ==
    {i \in DOMAIN data :
        /\ data[i] # NilElement
        /\ \A j \in 1..(i - 1) : data[j] # NilElement => ~Item(data[j], data[i])}

(* Table t after the kept elements of a batch, keyed by K(_), were written *)
(* in order, all at once: a key that is touched keeps first_seen and takes *)
(* last_seen from the last element with that key; row(old, first, last)    *)
(* gives its other columns from the old row and those two elements.        *)
Written(t, data, S, Key(_), NewRow(_, _, _)) ==
    LET touched == {Key(data[i]) : i \in S}
        Indexes(k) == {i \in S : Key(data[i]) = k}
        First(k) == data[CHOOSE i \in Indexes(k) : \A j \in Indexes(k) : i <= j]
        Last(k) == data[CHOOSE i \in Indexes(k) : \A j \in Indexes(k) : j <= i]
    IN [k \in DOMAIN t \union touched |->
           IF k \in touched THEN NewRow(k, First(k), Last(k)) ELSE t[k]]

Effect(c, n, b) ==
    LET kept == Kept(b.data)
        rels == {i \in kept : IsRelationship(b.data[i])}
        First(t, k, e) == IF k \in DOMAIN t THEN t[k].first_seen ELSE e.at
    IN [data_sources |->
            Put(c.data_sources, b.ds,
                [first_seen |-> FirstSeen(c.data_sources, b.ds, b.at), last_seen |-> b.at]),
        crawl_runs |->
            Put(c.crawl_runs, n, [ds |-> b.ds, element_count |-> Cardinality(kept),
                                  relationship_count |-> Cardinality(rels)]),
        assets |->
            Written(c.assets, b.data, kept, LAMBDA e : AssetOf(b.ds, e),
                LAMBDA k, f, l : [meta |-> l.hash, first_seen |-> First(c.assets, k, f),
                                  last_seen |-> l.at]),
        raw_assets |->
            Written(c.raw_assets, b.data, kept, LAMBDA e : RawOf(b.ds, e),
                LAMBDA k, f, l :
                    [run |-> IF k \in DOMAIN c.raw_assets THEN c.raw_assets[k].run ELSE n,
                     first_seen |-> First(c.raw_assets, k, f), last_seen |-> l.at]),
        relationships |->
            Written(c.relationships, b.data, rels, LAMBDA e : RelationshipOf(b.ds, e),
                LAMBDA k, f, l : [run |-> n, first_seen |-> First(c.relationships, k, f),
                                  last_seen |-> l.at])]
-----------------------------------------------------------------------------
Init == sent = <<>> /\ status = <<>> /\ db = EmptyCatalog

Send(b) ==
    /\ Len(sent) < MaxSent
    /\ sent' = Append(sent, b)
    /\ status' = Append(status, "queued")
    /\ UNCHANGED db

Oldest(n) == status[n] = "queued" /\ \A m \in 1..(n - 1) : status[m] # "queued"

Store(n) ==
    /\ Oldest(n)
    /\ sent[n].ds # NoSource
    /\ db' = Effect(db, n, sent[n])
    /\ status' = [status EXCEPT ![n] = "stored"]
    /\ UNCHANGED sent

Lose(n) ==
    /\ Oldest(n)
    /\ status' = [status EXCEPT ![n] = "lost"]
    /\ UNCHANGED <<sent, db>>

(* A restart loses every batch that is still queued. *)
Restart ==
    /\ status' = [n \in DOMAIN status |->
                    IF status[n] = "queued" THEN "lost" ELSE status[n]]
    /\ UNCHANGED <<sent, db>>

Next ==
    \/ \E b \in Batches : Send(b)
    \/ \E n \in DOMAIN status : Store(n) \/ Lose(n)
    \/ Restart

Spec == Init /\ [][Next]_vars
=============================================================================
