------------------------------ MODULE Catalog ------------------------------
(***************************************************************************)
(* The relational schema of the local store and the SQL statements of the  *)
(* ingest path (internal/storage/sqlstore/store.go and the migrations of   *)
(* internal/storage/{sqlite,postgres}/store.go), as operators on a value   *)
(* that holds the five tables.  A table is a function whose domain is the  *)
(* set of primary keys present, so a row that was never written is a key   *)
(* outside the domain.  Timestamps are naturals.  updated_at is left out:  *)
(* every statement writes it together with last_seen, with the same value. *)
(***************************************************************************)
EXTENDS Naturals, Sequences, FiniteSets

CONSTANTS DataSource,        \* ids of configured data sources
          Ident,             \* internal ids of assets and relationships
          AssetType,         \* element types other than RelationshipType
          RelationshipType,  \* agent.RelationshipType
          Payload,           \* content hashes of elements
          Kind,              \* (relationship_type, relation_type) pairs
          NoRelation         \* the payload decodes to no RelationshipElement

ASSUME CatalogAssumption ==
    /\ RelationshipType \notin AssetType
    /\ NoRelation \notin [src : Ident, dst : Ident, kind : Kind]

ElementType == AssetType \union {RelationshipType}
Relation == [src : Ident, dst : Ident, kind : Kind]

(* One crawled element.  `at` is RetrievedAt, which every crawler sets;    *)
(* `rel` is the outcome of json.Unmarshal(elem.Data) as a relationship;    *)
(* the hash stands for everything else that is stored of the element.      *)
Element == [id : Ident, type : ElementType, hash : Payload, at : Nat,
            rel : Relation \union {NoRelation}]

IsRelationship(e) == e.type = RelationshipType /\ e.rel # NoRelation

(* Primary keys. *)
AssetKey == [ds : DataSource, id : Ident, type : ElementType]
RawKey == [asset : AssetKey, hash : Payload]
RelationshipKey == [ds : DataSource, rel : Relation]

AssetOf(ds, e) == [ds |-> ds, id |-> e.id, type |-> e.type]
RawOf(ds, e) == [asset |-> AssetOf(ds, e), hash |-> e.hash]
RelationshipOf(ds, e) == [ds |-> ds, rel |-> e.rel]

(* Table t with the row of key k set to row: INSERT, or the UPDATE of its  *)
(* ON CONFLICT clause.                                                     *)
Put(t, k, row) == [x \in DOMAIN t \union {k} |-> IF x = k THEN row ELSE t[x]]

EmptyTable == [k \in {} |-> k]

EmptyCatalog == [data_sources  |-> EmptyTable, crawl_runs    |-> EmptyTable,
                 assets        |-> EmptyTable, raw_assets    |-> EmptyTable,
                 relationships |-> EmptyTable]
-----------------------------------------------------------------------------
(* Mutant: first_seen = excluded.first_seen. *)
LatestSeen(t, k, at) == at

(* first_seen survives a conflict; last_seen is excluded.last_seen. *)
FirstSeen(t, k, at) == IF k \in DOMAIN t THEN t[k].first_seen ELSE at

(* dataSourceRepository.Upsert *)
UpsertSource(c, ds, at) ==
    [c EXCEPT !.data_sources =
        Put(@, ds, [first_seen |-> FirstSeen(@, ds, at), last_seen |-> at])]

(* crawlRunRepository.Insert: a plain INSERT under a fresh uuid. *)
InsertRun(c, run, ds, elems) ==
    [c EXCEPT !.crawl_runs =
        Put(@, run, [ds |-> ds, element_count |-> Len(elems),
                     relationship_count |->
                         Cardinality({i \in DOMAIN elems : IsRelationship(elems[i])})])]

(* assetRepository.Upsert: metadata is that of the element written last.   *)
UpsertAsset(c, ds, e) ==
    LET k == AssetOf(ds, e) IN
    [c EXCEPT !.assets =
        Put(@, k, [meta |-> e.hash, first_seen |-> FirstSeen(@, k, e.at),
                   last_seen |-> e.at])]

(* Mutant: crawl_run_id = excluded.crawl_run_id for payloads too. *)
UpsertRawRetagged(c, run, ds, e) ==
    LET k == RawOf(ds, e) IN
    [c EXCEPT !.raw_assets =
        Put(@, k, [run |-> run, first_seen |-> FirstSeen(@, k, e.at), last_seen |-> e.at])]

(* assetRepository.UpsertRawAsset: crawl_run_id is not in the DO UPDATE    *)
(* list, so a payload keeps the run that stored it first.                  *)
UpsertRaw(c, run, ds, e) ==
    LET k == RawOf(ds, e) IN
    [c EXCEPT !.raw_assets =
        Put(@, k, [run |-> IF k \in DOMAIN @ THEN @[k].run ELSE run,
                   first_seen |-> FirstSeen(@, k, e.at), last_seen |-> e.at])]

(* relationshipRepository.Upsert: crawl_run_id = excluded.crawl_run_id. *)
UpsertRelation(c, run, ds, e) ==
    LET k == RelationshipOf(ds, e) IN
    [c EXCEPT !.relationships =
        Put(@, k, [run |-> run, first_seen |-> FirstSeen(@, k, e.at),
                   last_seen |-> e.at])]
-----------------------------------------------------------------------------
(* The REFERENCES clauses, checked by both databases at each statement.    *)
RunAllowed(c, ds) == ds \in DOMAIN c.data_sources
AssetAllowed(c, ds) == ds \in DOMAIN c.data_sources
RawAllowed(c, run, ds, e) ==
    AssetOf(ds, e) \in DOMAIN c.assets /\ run \in DOMAIN c.crawl_runs
RelationAllowed(c, run, ds) ==
    ds \in DOMAIN c.data_sources /\ run \in DOMAIN c.crawl_runs
-----------------------------------------------------------------------------
(* The columns of every table, over a set Run of run ids. *)
SourceRow == [first_seen : Nat, last_seen : Nat]
RunRow == [ds : DataSource, element_count : Nat, relationship_count : Nat]
AssetRow == [meta : Payload, first_seen : Nat, last_seen : Nat]
StoredRow(Run) == [run : Run, first_seen : Nat, last_seen : Nat]

Table(t, Key, Row) == DOMAIN t \subseteq Key /\ \A k \in DOMAIN t : t[k] \in Row

CatalogOK(c, Run) ==
    /\ DOMAIN c = DOMAIN EmptyCatalog
    /\ Table(c.data_sources, DataSource, SourceRow)
    /\ Table(c.crawl_runs, Run, RunRow)
    /\ Table(c.assets, AssetKey, AssetRow)
    /\ Table(c.raw_assets, RawKey, StoredRow(Run))
    /\ Table(c.relationships, RelationshipKey, StoredRow(Run))
=============================================================================
