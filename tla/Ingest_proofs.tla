---------------------------- MODULE Ingest_proofs ----------------------------
(***************************************************************************)
(* Ingest, for every set of batches, every channel capacity and every      *)
(* number of batches, errors and crashes: type correctness, the integrity  *)
(* of what is committed, and what the committed catalog says of the past.  *)
(* The module goes from the statements of Catalog, through the invariants  *)
(* Typed, Integrity and History, each built on the one before it, to the   *)
(* refinement: what storeCrawls does statement by statement is, batch by   *)
(* batch, one step that stores all of the batch's effect or none.          *)
(***************************************************************************)
EXTENDS IngestRefinement, FiniteSetTheorems, WellFoundedInduction, TLAPS

(* The statements: what each leaves in the tables, and that it keeps a     *)
(* catalog well-formed.                                                    *)
Tables == {"data_sources", "crawl_runs", "assets", "raw_assets", "relationships"}

LEMMA PutIs ==
    ASSUME NEW t, NEW k, NEW row
    PROVE  /\ DOMAIN Put(t, k, row) = DOMAIN t \union {k}
           /\ Put(t, k, row)[k] = row
           /\ \A x \in DOMAIN t : x # k => Put(t, k, row)[x] = t[x]
  BY DEF Put

LEMMA EmptyCatalogOK == ASSUME NEW Run PROVE CatalogOK(EmptyCatalog, Run)
  BY DEF CatalogOK, EmptyCatalog, EmptyTable, Table
-----------------------------------------------------------------------------
(* Each statement writes one table and no other. *)
LEMMA UpsertSourceIs ==
    ASSUME NEW c, DOMAIN c = Tables, NEW ds, NEW at
    PROVE  LET u == UpsertSource(c, ds, at) IN
           /\ DOMAIN u = Tables
           /\ u.data_sources = Put(c.data_sources, ds,
                 [first_seen |-> FirstSeen(c.data_sources, ds, at), last_seen |-> at])
           /\ u.crawl_runs = c.crawl_runs /\ u.assets = c.assets
           /\ u.raw_assets = c.raw_assets /\ u.relationships = c.relationships
  BY DEF UpsertSource, Tables

LEMMA InsertRunIs ==
    ASSUME NEW c, DOMAIN c = Tables, NEW n, NEW ds, NEW elems
    PROVE  LET u == InsertRun(c, n, ds, elems) IN
           /\ DOMAIN u = Tables
           /\ u.crawl_runs = Put(c.crawl_runs, n,
                 [ds |-> ds, element_count |-> Len(elems),
                  relationship_count |->
                      Cardinality({i \in DOMAIN elems : IsRelationship(elems[i])})])
           /\ u.data_sources = c.data_sources /\ u.assets = c.assets
           /\ u.raw_assets = c.raw_assets /\ u.relationships = c.relationships
  BY DEF InsertRun, Tables

LEMMA UpsertAssetIs ==
    ASSUME NEW c, DOMAIN c = Tables, NEW ds, NEW e
    PROVE  LET u == UpsertAsset(c, ds, e) IN
           /\ DOMAIN u = Tables
           /\ u.assets = Put(c.assets, AssetOf(ds, e),
                 [meta |-> e.hash, first_seen |-> FirstSeen(c.assets, AssetOf(ds, e), e.at),
                  last_seen |-> e.at])
           /\ u.data_sources = c.data_sources /\ u.crawl_runs = c.crawl_runs
           /\ u.raw_assets = c.raw_assets /\ u.relationships = c.relationships
  BY DEF UpsertAsset, Tables

LEMMA UpsertRawIs ==
    ASSUME NEW c, DOMAIN c = Tables, NEW n, NEW ds, NEW e
    PROVE  LET u == UpsertRaw(c, n, ds, e)  k == RawOf(ds, e) IN
           /\ DOMAIN u = Tables
           /\ u.raw_assets = Put(c.raw_assets, k,
                 [run |-> IF k \in DOMAIN c.raw_assets THEN c.raw_assets[k].run ELSE n,
                  first_seen |-> FirstSeen(c.raw_assets, k, e.at), last_seen |-> e.at])
           /\ u.data_sources = c.data_sources /\ u.crawl_runs = c.crawl_runs
           /\ u.assets = c.assets /\ u.relationships = c.relationships
  BY DEF UpsertRaw, Tables

LEMMA UpsertRelationIs ==
    ASSUME NEW c, DOMAIN c = Tables, NEW n, NEW ds, NEW e
    PROVE  LET u == UpsertRelation(c, n, ds, e)  k == RelationshipOf(ds, e) IN
           /\ DOMAIN u = Tables
           /\ u.relationships = Put(c.relationships, k,
                 [run |-> n, first_seen |-> FirstSeen(c.relationships, k, e.at),
                  last_seen |-> e.at])
           /\ u.data_sources = c.data_sources /\ u.crawl_runs = c.crawl_runs
           /\ u.assets = c.assets /\ u.raw_assets = c.raw_assets
  BY DEF UpsertRelation, Tables
-----------------------------------------------------------------------------
(* A table in which a row of the right type is written. *)
LEMMA PutTable ==
    ASSUME NEW t, NEW K, NEW R, Table(t, K, R), NEW k \in K, NEW row \in R
    PROVE  Table(Put(t, k, row), K, R)
<1>1. DOMAIN Put(t, k, row) \subseteq K
  BY DEF Put, Table
<1>2. ASSUME NEW x \in DOMAIN Put(t, k, row) PROVE Put(t, k, row)[x] \in R
  <2>1. CASE x = k
    BY <2>1 DEF Put
  <2>2. CASE x # k
    BY <1>2, <2>2 DEF Put, Table
  <2> QED BY <2>1, <2>2
<1> QED
  BY <1>1, <1>2 DEF Table

LEMMA FirstSeenIsTime ==
    ASSUME NEW t, NEW k, NEW at \in Nat, \A x \in DOMAIN t : t[x].first_seen \in Nat
    PROVE  FirstSeen(t, k, at) \in Nat
  BY DEF FirstSeen

LEMMA ElementKeys ==
    ASSUME NEW ds \in DataSource, NEW e \in Element
    PROVE  /\ AssetOf(ds, e) \in AssetKey
           /\ RawOf(ds, e) \in RawKey
           /\ IsRelationship(e) => RelationshipOf(ds, e) \in RelationshipKey
           /\ e.hash \in Payload /\ e.at \in Nat
  BY DEF Element, AssetOf, AssetKey, RawOf, RawKey, RelationshipOf, RelationshipKey,
         IsRelationship

(* Each statement, given values of the right type, keeps CatalogOK. *)
LEMMA SourceKeepsOK ==
    ASSUME NEW c, NEW Run, CatalogOK(c, Run), NEW ds \in DataSource, NEW at \in Nat
    PROVE  CatalogOK(UpsertSource(c, ds, at), Run)
<1>1. DOMAIN c = Tables /\ DOMAIN EmptyCatalog = Tables
  BY DEF CatalogOK, EmptyCatalog, Tables
<1>2. FirstSeen(c.data_sources, ds, at) \in Nat
  BY FirstSeenIsTime DEF CatalogOK, Table, SourceRow
<1> DEFINE row == [first_seen |-> FirstSeen(c.data_sources, ds, at), last_seen |-> at]
<1>3. Table(Put(c.data_sources, ds, row), DataSource, SourceRow)
  BY <1>2, PutTable DEF CatalogOK, SourceRow
<1> QED
  BY <1>1, <1>3, UpsertSourceIs DEF CatalogOK

LEMMA RunKeepsOK ==
    ASSUME NEW c, NEW Run, CatalogOK(c, Run), NEW n \in Run, NEW ds \in DataSource,
           NEW elems \in Seq(Element)
    PROVE  CatalogOK(InsertRun(c, n, ds, elems), Run)
<1>1. DOMAIN c = Tables /\ DOMAIN EmptyCatalog = Tables
  BY DEF CatalogOK, EmptyCatalog, Tables
<1> DEFINE S == {i \in DOMAIN elems : IsRelationship(elems[i])}
<1>2. Cardinality(S) \in Nat
  <2>1. IsFiniteSet(1..Len(elems)) /\ S \subseteq 1..Len(elems)
    BY FS_Interval
  <2> QED
    BY <2>1, FS_Subset, FS_CardinalityType
<1> DEFINE row == [ds |-> ds, element_count |-> Len(elems),
                   relationship_count |-> Cardinality(S)]
<1>3. row \in RunRow
  BY <1>2 DEF RunRow
<1>4. Table(Put(c.crawl_runs, n, row), Run, RunRow)
  BY <1>3, PutTable DEF CatalogOK
<1> QED
  BY <1>1, <1>4, InsertRunIs DEF CatalogOK

LEMMA AssetKeepsOK ==
    ASSUME NEW c, NEW Run, CatalogOK(c, Run), NEW ds \in DataSource, NEW e \in Element
    PROVE  CatalogOK(UpsertAsset(c, ds, e), Run)
<1>1. DOMAIN c = Tables /\ DOMAIN EmptyCatalog = Tables
  BY DEF CatalogOK, EmptyCatalog, Tables
<1>2. FirstSeen(c.assets, AssetOf(ds, e), e.at) \in Nat
  BY FirstSeenIsTime, ElementKeys DEF CatalogOK, Table, AssetRow
<1> DEFINE k == AssetOf(ds, e)
           row == [meta |-> e.hash, first_seen |-> FirstSeen(c.assets, k, e.at),
                   last_seen |-> e.at]
<1>3. Table(Put(c.assets, k, row), AssetKey, AssetRow)
  BY <1>2, PutTable, ElementKeys DEF CatalogOK, AssetRow
<1> QED
  BY <1>1, <1>3, UpsertAssetIs DEF CatalogOK

LEMMA RawKeepsOK ==
    ASSUME NEW c, NEW Run, CatalogOK(c, Run), NEW n \in Run, NEW ds \in DataSource,
           NEW e \in Element
    PROVE  CatalogOK(UpsertRaw(c, n, ds, e), Run)
<1>1. DOMAIN c = Tables /\ DOMAIN EmptyCatalog = Tables
  BY DEF CatalogOK, EmptyCatalog, Tables
<1> DEFINE k == RawOf(ds, e)
           row == [run |-> IF k \in DOMAIN c.raw_assets THEN c.raw_assets[k].run ELSE n,
                   first_seen |-> FirstSeen(c.raw_assets, k, e.at), last_seen |-> e.at]
<1>2. FirstSeen(c.raw_assets, k, e.at) \in Nat
  BY FirstSeenIsTime, ElementKeys DEF CatalogOK, Table, StoredRow
<1>3. row \in StoredRow(Run)
  BY <1>2, ElementKeys DEF CatalogOK, Table, StoredRow
<1>4. Table(Put(c.raw_assets, k, row), RawKey, StoredRow(Run))
  BY <1>3, PutTable, ElementKeys DEF CatalogOK
<1> QED
  BY <1>1, <1>4, UpsertRawIs DEF CatalogOK

LEMMA RelationKeepsOK ==
    ASSUME NEW c, NEW Run, CatalogOK(c, Run), NEW n \in Run, NEW ds \in DataSource,
           NEW e \in Element, IsRelationship(e)
    PROVE  CatalogOK(UpsertRelation(c, n, ds, e), Run)
<1>1. DOMAIN c = Tables /\ DOMAIN EmptyCatalog = Tables
  BY DEF CatalogOK, EmptyCatalog, Tables
<1> DEFINE k == RelationshipOf(ds, e)
           row == [run |-> n, first_seen |-> FirstSeen(c.relationships, k, e.at),
                   last_seen |-> e.at]
<1>2. FirstSeen(c.relationships, k, e.at) \in Nat
  BY FirstSeenIsTime, ElementKeys DEF CatalogOK, Table, StoredRow
<1>3. Table(Put(c.relationships, k, row), RelationshipKey, StoredRow(Run))
  BY <1>2, PutTable, ElementKeys DEF CatalogOK, StoredRow
<1> QED
  BY <1>1, <1>3, UpsertRelationIs DEF CatalogOK

(* A catalog stays well-formed when more runs become possible. *)
LEMMA MoreRuns ==
    ASSUME NEW c, NEW Run, NEW More, CatalogOK(c, Run), Run \subseteq More
    PROVE  CatalogOK(c, More)
  BY DEF CatalogOK, Table, StoredRow
-----------------------------------------------------------------------------
(* Where storeCrawls is, relative to its batch and to its element loop. *)
Control ==
    /\ pc # "receive" => received \in 1..Len(sent) /\ batch.ds \in DataSource
    /\ pc \in {"asset", "raw", "relationship"} => pos \in 1..Len(out)
    /\ pc = "relationship" => IsRelationship(out[pos])

Typed == TypeOK /\ Control

LEMMA LoopStepIs ==
    ASSUME NEW i \in Nat \ {0}, out \in Seq(Element)
    PROVE  \/ LoopStep(i) = "asset" /\ i \in 1..Len(out)
           \/ LoopStep(i) = "commit"
  BY DEF LoopStep

(* The elements, batch and run a typed state works on. *)
LEMMA Current ==
    ASSUME Typed, pc # "receive"
    PROVE  /\ batch.ds \in DataSource /\ batch.at \in Nat
           /\ batch.data \in Seq(Element \union {NilElement})
           /\ run \in 1..Len(sent)
           /\ pc \in {"asset", "raw", "relationship"} => out[pos] \in Element
  BY IngestAssumption DEF Typed, TypeOK, Control, batch, run, Batch

LEMMA TypedInit == Init => Typed
  BY EmptyCatalogOK, IngestAssumption
  DEF Init, Typed, TypeOK, Control, PC, EmptyTable

LEMMA TypedStep == Typed /\ [Next]_vars => Typed'
<1> SUFFICES ASSUME Typed, [Next]_vars PROVE Typed'
  OBVIOUS
<1> USE DEF Typed
<1>1. ASSUME NEW b \in Batches, Send(b) PROVE Typed'
  <2>1. sent' \in Seq(Batches) /\ Len(sent') = Len(sent) + 1
    BY <1>1 DEF Send, TypeOK
  <2>2. CatalogOK(tx, 1..Len(sent')) /\ CatalogOK(db, 1..Len(sent'))
    BY <2>1, MoreRuns DEF TypeOK
  <2>3. TypeOK'
    BY <1>1, <2>1, <2>2 DEF Send, TypeOK
  <2>4. pc # "receive" => sent'[received] = sent[received]
    BY <1>1 DEF Send, TypeOK, Control
  <2> QED
    BY <1>1, <2>1, <2>3, <2>4 DEF Send, TypeOK, Control, batch
<1>2. CASE Receive
  <2>1. TypeOK'
    BY <1>2 DEF Receive, TypeOK, PC
  <2>2. pc' # "receive" => received' \in 1..Len(sent') /\ sent[received'].ds \in DataSource
    <3>1. received' \in 1..Len(sent)
      BY <1>2 DEF Receive, TypeOK
    <3>2. sent[received'] \in Batch
      BY <3>1, IngestAssumption DEF TypeOK
    <3> QED
      BY <1>2, <3>1, <3>2 DEF Receive, Batch
  <2> QED
    BY <1>2, <2>1, <2>2 DEF Receive, Control, batch
<1>3. CASE DedupElement
  <2>1. batch.data[pos] \in Element \union {NilElement}
    BY <1>3, Current DEF DedupElement, TypeOK
  <2>2. out' \in Seq(Element)
    BY <1>3, <2>1 DEF DedupElement, TypeOK
  <2> QED
    BY <1>3, <2>2 DEF DedupElement, TypeOK, Control, batch
<1>4. CASE DedupDone
  BY <1>4 DEF DedupDone, TypeOK, Control, PC, batch
<1>5. CASE Begin
  BY <1>5 DEF Begin, Statement, TypeOK, Control, PC, InTx, batch
<1>6. CASE UpsertDataSource
  <2>1. CatalogOK(tx', 1..Len(sent))
    BY <1>6, Current, SourceKeepsOK DEF UpsertDataSource, Statement, TypeOK
  <2> QED
    BY <1>6, <2>1 DEF UpsertDataSource, Statement, TypeOK, Control, PC, InTx, batch
<1>7. CASE InsertCrawlRun
  <2>1. CatalogOK(tx', 1..Len(sent))
    BY <1>7, Current, RunKeepsOK DEF InsertCrawlRun, Statement, TypeOK
  <2> QED
    BY <1>7, <2>1, LoopStepIs DEF InsertCrawlRun, Statement, TypeOK, Control, PC, InTx, batch
<1>8. CASE StoreAsset
  <2>1. CatalogOK(tx', 1..Len(sent))
    BY <1>8, Current, AssetKeepsOK DEF StoreAsset, Statement, TypeOK
  <2> QED
    BY <1>8, <2>1 DEF StoreAsset, Statement, TypeOK, Control, PC, InTx, batch
<1>9. CASE StoreRaw
  <2>1. CatalogOK(tx', 1..Len(sent))
    BY <1>9, Current, RawKeepsOK DEF StoreRaw, Statement, TypeOK
  <2> QED
    BY <1>9, <2>1, LoopStepIs DEF StoreRaw, Statement, TypeOK, Control, PC, InTx, batch
<1>10. CASE StoreRelationship
  <2>1. CatalogOK(tx', 1..Len(sent))
    BY <1>10, Current, RelationKeepsOK DEF StoreRelationship, Statement, TypeOK, Control
  <2> QED
    BY <1>10, <2>1, LoopStepIs DEF StoreRelationship, Statement, TypeOK, Control, PC, InTx, batch
<1>11. CASE Commit
  <2>1. DOMAIN contents' = DOMAIN contents \union {run} /\ run \in 1..Len(sent)
    BY <1>11, Current DEF Commit, Put
  <2>2. \A r \in DOMAIN contents' : contents'[r] \in Seq(Element)
    BY <1>11, <2>1 DEF Commit, TypeOK, Put
  <2> QED
    BY <1>11, <2>1, <2>2 DEF Commit, Idle, TypeOK, Control, PC
<1>12. CASE Fail
  BY <1>12 DEF Fail, Idle, TypeOK, Control, PC
<1>13. CASE Crash
  BY <1>13 DEF Crash, Idle, TypeOK, Control, PC
<1>14. CASE UNCHANGED vars
  BY <1>14 DEF vars, TypeOK, Control, batch
<1> QED
  BY <1>1, <1>2, <1>3, <1>4, <1>5, <1>6, <1>7, <1>8, <1>9, <1>10, <1>11, <1>12, <1>13, <1>14
  DEF Next, StoreCrawls

(* Type correctness: in every reachable state the catalogs are well-formed *)
(* tables, and the loops of storeCrawls index inside their sequences.      *)
THEOREM TypeCorrect == Spec => []TypeOK
<1>1. Spec => []Typed
  BY TypedInit, TypedStep, PTL DEF Spec
<1>2. Typed => TypeOK
  BY DEF Typed
<1> QED
  BY <1>1, <1>2, PTL
-----------------------------------------------------------------------------
(* Referential integrity of the committed catalog and of every working     *)
(* copy, and that each asset a reader can find has its payload.            *)

AfterSource == {"run", "asset", "raw", "relationship", "commit"}
AfterRun == {"asset", "raw", "relationship", "commit"}

(* The run of the current batch is in no catalog before it is inserted. *)
FreshRun ==
    /\ DOMAIN db.crawl_runs \subseteq 1..received
    /\ pc # "receive" => run \notin DOMAIN db.crawl_runs
    /\ pc \in InTx => DOMAIN tx.crawl_runs \subseteq 1..received
    /\ pc \in {"source", "run"} => run \notin DOMAIN tx.crawl_runs

(* What the statements executed so far have put into the working copy. *)
Progress ==
    /\ pc \in AfterSource => batch.ds \in DOMAIN tx.data_sources
    /\ pc \in AfterRun => /\ run \in DOMAIN tx.crawl_runs
                          /\ tx.crawl_runs[run].ds = batch.ds
    /\ pc = "raw" => LET k == AssetOf(batch.ds, out[pos]) IN
                     k \in DOMAIN tx.assets /\ tx.assets[k].meta = out[pos].hash

(* Every asset but those of P has the payload its metadata came with. *)
PayloadsBut(c, P) ==
    \A k \in DOMAIN c.assets \ P :
        [asset |-> k, hash |-> c.assets[k].meta] \in DOMAIN c.raw_assets

Pending == IF pc = "raw" THEN {AssetOf(batch.ds, out[pos])} ELSE {}

Integrity ==
    /\ Typed
    /\ FreshRun
    /\ Progress
    /\ ForeignKeys(db) /\ PayloadsBut(db, {})
    /\ pc \in InTx => ForeignKeys(tx) /\ PayloadsBut(tx, Pending)
-----------------------------------------------------------------------------
(* What each statement leaves of the rows, in the terms of ForeignKeys.    *)
LEMMA SourceLeaves ==
    ASSUME NEW c, DOMAIN c = Tables, NEW ds, NEW at
    PROVE  LET u == UpsertSource(c, ds, at) IN
           /\ DOMAIN u.data_sources = DOMAIN c.data_sources \union {ds}
           /\ u.crawl_runs = c.crawl_runs /\ u.assets = c.assets
           /\ u.raw_assets = c.raw_assets /\ u.relationships = c.relationships
  BY DEF UpsertSource, Put, Tables

LEMMA RunLeaves ==
    ASSUME NEW c, DOMAIN c = Tables, NEW n, NEW ds, NEW elems
    PROVE  LET u == InsertRun(c, n, ds, elems) IN
           /\ DOMAIN u.crawl_runs = DOMAIN c.crawl_runs \union {n}
           /\ u.crawl_runs[n].ds = ds /\ u.crawl_runs[n].element_count = Len(elems)
           /\ \A r \in DOMAIN c.crawl_runs : r # n => u.crawl_runs[r] = c.crawl_runs[r]
           /\ u.data_sources = c.data_sources /\ u.assets = c.assets
           /\ u.raw_assets = c.raw_assets /\ u.relationships = c.relationships
  BY DEF InsertRun, Put, Tables

LEMMA AssetLeaves ==
    ASSUME NEW c, DOMAIN c = Tables, NEW ds, NEW e
    PROVE  LET u == UpsertAsset(c, ds, e)  k == AssetOf(ds, e) IN
           /\ DOMAIN u.assets = DOMAIN c.assets \union {k}
           /\ u.assets[k].meta = e.hash
           /\ \A x \in DOMAIN c.assets : x # k => u.assets[x] = c.assets[x]
           /\ u.data_sources = c.data_sources /\ u.crawl_runs = c.crawl_runs
           /\ u.raw_assets = c.raw_assets /\ u.relationships = c.relationships
  BY DEF UpsertAsset, Put, Tables

LEMMA RawLeaves ==
    ASSUME NEW c, DOMAIN c = Tables, NEW n, NEW ds, NEW e
    PROVE  LET u == UpsertRaw(c, n, ds, e)  k == RawOf(ds, e) IN
           /\ DOMAIN u.raw_assets = DOMAIN c.raw_assets \union {k}
           /\ k \in DOMAIN c.raw_assets => u.raw_assets[k].run = c.raw_assets[k].run
           /\ k \notin DOMAIN c.raw_assets => u.raw_assets[k].run = n
           /\ \A x \in DOMAIN c.raw_assets : x # k => u.raw_assets[x] = c.raw_assets[x]
           /\ u.data_sources = c.data_sources /\ u.crawl_runs = c.crawl_runs
           /\ u.assets = c.assets /\ u.relationships = c.relationships
  BY DEF UpsertRaw, Put, Tables

LEMMA RelationLeaves ==
    ASSUME NEW c, DOMAIN c = Tables, NEW n, NEW ds, NEW e
    PROVE  LET u == UpsertRelation(c, n, ds, e)  k == RelationshipOf(ds, e) IN
           /\ DOMAIN u.relationships = DOMAIN c.relationships \union {k}
           /\ u.relationships[k].run = n
           /\ \A x \in DOMAIN c.relationships : x # k => u.relationships[x] = c.relationships[x]
           /\ u.data_sources = c.data_sources /\ u.crawl_runs = c.crawl_runs
           /\ u.assets = c.assets /\ u.raw_assets = c.raw_assets
  BY DEF UpsertRelation, Put, Tables

(* The statements keep the foreign keys, given what each refers to. *)
LEMMA SourceKeepsFK ==
    ASSUME NEW c, DOMAIN c = Tables, ForeignKeys(c), NEW ds, NEW at
    PROVE  ForeignKeys(UpsertSource(c, ds, at))
  BY SourceLeaves DEF ForeignKeys

LEMMA RunKeepsFK ==
    ASSUME NEW c, DOMAIN c = Tables, ForeignKeys(c), NEW n, n \notin DOMAIN c.crawl_runs,
           NEW ds \in DOMAIN c.data_sources, NEW elems
    PROVE  ForeignKeys(InsertRun(c, n, ds, elems))
  BY RunLeaves DEF ForeignKeys

LEMMA AssetKeepsFK ==
    ASSUME NEW c, DOMAIN c = Tables, ForeignKeys(c), NEW ds \in DOMAIN c.data_sources, NEW e
    PROVE  ForeignKeys(UpsertAsset(c, ds, e))
<1> DEFINE u == UpsertAsset(c, ds, e)  k == AssetOf(ds, e)
<1>1. k.ds = ds
  BY DEF AssetOf
<1>2. /\ DOMAIN u.assets = DOMAIN c.assets \union {k}
      /\ u.data_sources = c.data_sources /\ u.crawl_runs = c.crawl_runs
      /\ u.raw_assets = c.raw_assets /\ u.relationships = c.relationships
  BY AssetLeaves
<1> HIDE DEF u, k
<1>3. ForeignKeys(u)
  BY <1>1, <1>2 DEF ForeignKeys
<1> QED
  BY <1>3 DEF u

LEMMA RawKeepsFK ==
    ASSUME NEW c, DOMAIN c = Tables, ForeignKeys(c), NEW n \in DOMAIN c.crawl_runs,
           NEW ds, c.crawl_runs[n].ds = ds, NEW e, AssetOf(ds, e) \in DOMAIN c.assets
    PROVE  ForeignKeys(UpsertRaw(c, n, ds, e))
<1> DEFINE u == UpsertRaw(c, n, ds, e)  k == RawOf(ds, e)
<1>1. k.asset \in DOMAIN c.assets /\ k.asset.ds = ds
  BY DEF RawOf, AssetOf
<1>2. /\ DOMAIN u.raw_assets = DOMAIN c.raw_assets \union {k}
      /\ k \in DOMAIN c.raw_assets => u.raw_assets[k].run = c.raw_assets[k].run
      /\ k \notin DOMAIN c.raw_assets => u.raw_assets[k].run = n
      /\ \A x \in DOMAIN c.raw_assets : x # k => u.raw_assets[x] = c.raw_assets[x]
      /\ u.data_sources = c.data_sources /\ u.crawl_runs = c.crawl_runs
      /\ u.assets = c.assets /\ u.relationships = c.relationships
  BY RawLeaves
<1> HIDE DEF u, k
<1>3. ASSUME NEW x \in DOMAIN u.raw_assets
      PROVE  /\ x.asset \in DOMAIN u.assets
             /\ u.raw_assets[x].run \in DOMAIN u.crawl_runs
             /\ u.crawl_runs[u.raw_assets[x].run].ds = x.asset.ds
  <2>1. CASE x \in DOMAIN c.raw_assets
    <3>1. u.raw_assets[x].run = c.raw_assets[x].run
      BY <1>2, <2>1
    <3> QED
      BY <1>2, <2>1, <3>1 DEF ForeignKeys
  <2>2. CASE x \notin DOMAIN c.raw_assets
    BY <1>1, <1>2, <1>3, <2>2
  <2> QED
    BY <2>1, <2>2
<1>4. ForeignKeys(u)
  BY <1>2, <1>3 DEF ForeignKeys
<1> QED
  BY <1>4 DEF u

LEMMA RelationKeepsFK ==
    ASSUME NEW c, DOMAIN c = Tables, ForeignKeys(c), NEW n \in DOMAIN c.crawl_runs,
           NEW ds, c.crawl_runs[n].ds = ds, NEW e
    PROVE  ForeignKeys(UpsertRelation(c, n, ds, e))
<1>1. RelationshipOf(ds, e).ds = ds
  BY DEF RelationshipOf
<1> QED
  BY <1>1, RelationLeaves DEF ForeignKeys

(* The pair of statements in the loop opens and closes one payload gap. *)
LEMMA AssetOpensPayload ==
    ASSUME NEW c, DOMAIN c = Tables, PayloadsBut(c, {}), NEW ds, NEW e
    PROVE  PayloadsBut(UpsertAsset(c, ds, e), {AssetOf(ds, e)})
  BY AssetLeaves DEF PayloadsBut

LEMMA RawClosesPayload ==
    ASSUME NEW c, DOMAIN c = Tables, NEW n, NEW ds, NEW e,
           PayloadsBut(c, {AssetOf(ds, e)}), c.assets[AssetOf(ds, e)].meta = e.hash
    PROVE  PayloadsBut(UpsertRaw(c, n, ds, e), {})
<1> DEFINE u == UpsertRaw(c, n, ds, e)  k == AssetOf(ds, e)
<1>1. DOMAIN u.raw_assets = DOMAIN c.raw_assets \union {RawOf(ds, e)} /\ u.assets = c.assets
  BY RawLeaves
<1>2. RawOf(ds, e) = [asset |-> k, hash |-> u.assets[k].meta]
  BY <1>1 DEF RawOf
<1> HIDE DEF u, k
<1>3. ASSUME NEW x \in DOMAIN u.assets
      PROVE  [asset |-> x, hash |-> u.assets[x].meta] \in DOMAIN u.raw_assets
  <2>1. CASE x = k
    BY <1>1, <1>2, <2>1
  <2>2. CASE x # k
    BY <1>1, <1>3, <2>2 DEF PayloadsBut, k
  <2> QED
    BY <2>1, <2>2
<1> QED
  BY <1>3 DEF PayloadsBut, u
-----------------------------------------------------------------------------
LEMMA IntegrityInit == Init => Integrity
<1> SUFFICES ASSUME Init PROVE Integrity
  OBVIOUS
<1>1. ForeignKeys(EmptyCatalog) /\ PayloadsBut(EmptyCatalog, {})
  BY DEF ForeignKeys, PayloadsBut, EmptyCatalog, EmptyTable
<1>2. DOMAIN EmptyCatalog.crawl_runs = {}
  BY DEF EmptyCatalog, EmptyTable
<1> QED
  BY <1>1, <1>2, TypedInit DEF Init, Integrity, FreshRun, Progress, InTx, AfterSource, AfterRun

LEMMA IntegrityStep == Integrity /\ [Next]_vars => Integrity'
<1> SUFFICES ASSUME Integrity, [Next]_vars PROVE Integrity'
  OBVIOUS
<1> DEFINE Rest == /\ FreshRun /\ Progress
                   /\ ForeignKeys(db) /\ PayloadsBut(db, {})
                   /\ pc \in InTx => ForeignKeys(tx) /\ PayloadsBut(tx, Pending)
<1>0. Typed /\ Typed' /\ Rest
  BY TypedStep DEF Integrity
<1>t. DOMAIN tx = Tables /\ DOMAIN db = Tables
  BY <1>0 DEF Typed, TypeOK, CatalogOK, EmptyCatalog, Tables
<1>s. SUFFICES Rest'
  BY <1>0 DEF Integrity
<1>r. received \in Nat
  BY <1>0 DEF Typed, TypeOK
<1>1. ASSUME NEW b \in Batches, Send(b) PROVE Rest'
  <2>1. pc # "receive" => batch' = batch
    BY <1>0, <1>1 DEF Send, Typed, TypeOK, Control, batch
  <2>2. pc \in InTx => pc # "receive"
    BY DEF InTx
  <2> QED
    BY <1>0, <1>1, <2>1, <2>2
    DEF Send, FreshRun, Progress, Pending, run, InTx, AfterSource, AfterRun
<1>2. CASE Receive
  <2>1. pc' \in {"receive", "dedup"} /\ received' = received + 1
    BY <1>2 DEF Receive
  <2> QED
    BY <1>0, <1>2, <1>r, <2>1
    DEF Receive, FreshRun, Progress, run, InTx, AfterSource, AfterRun
<1>3. CASE DedupElement
  BY <1>0, <1>3 DEF DedupElement, FreshRun, Progress, run, InTx, AfterSource, AfterRun
<1>4. CASE DedupDone
  BY <1>0, <1>4 DEF DedupDone, FreshRun, Progress, run, InTx, AfterSource, AfterRun
<1>5. CASE Begin
  BY <1>0, <1>5
  DEF Begin, Statement, FreshRun, Progress, run, InTx, AfterSource, AfterRun, Pending
<1>6. CASE UpsertDataSource
  <2>1. ForeignKeys(tx')
    BY <1>0, <1>6, <1>t, SourceKeepsFK DEF UpsertDataSource, Statement, InTx
  <2>2. /\ batch.ds \in DOMAIN tx'.data_sources
        /\ tx'.crawl_runs = tx.crawl_runs
        /\ tx'.assets = tx.assets /\ tx'.raw_assets = tx.raw_assets
    BY <1>6, <1>t, SourceLeaves DEF UpsertDataSource, Statement
  <2>3. PayloadsBut(tx', {})
    BY <1>0, <1>6, <2>2 DEF UpsertDataSource, InTx, PayloadsBut, Pending
  <2> QED
    BY <1>0, <1>6, <2>1, <2>2, <2>3
    DEF UpsertDataSource, Statement, FreshRun, Progress, run, batch, InTx, AfterSource,
        AfterRun, Pending
<1>7. CASE InsertCrawlRun
  <2>1. batch.ds \in DOMAIN tx.data_sources /\ run \notin DOMAIN tx.crawl_runs
    BY <1>0, <1>7 DEF InsertCrawlRun, Progress, FreshRun, AfterSource
  <2>2. ForeignKeys(tx')
    BY <1>0, <1>7, <1>t, <2>1, RunKeepsFK DEF InsertCrawlRun, Statement, InTx
  <2>3. /\ DOMAIN tx'.crawl_runs = DOMAIN tx.crawl_runs \union {run}
        /\ tx'.crawl_runs[run].ds = batch.ds
        /\ tx'.data_sources = tx.data_sources
        /\ tx'.assets = tx.assets /\ tx'.raw_assets = tx.raw_assets
    BY <1>7, <1>t, RunLeaves DEF InsertCrawlRun, Statement
  <2>4. PayloadsBut(tx', {})
    BY <1>0, <1>7, <2>3 DEF InsertCrawlRun, InTx, PayloadsBut, Pending
  <2>5. pc' \in {"asset", "commit"}
    BY <1>7 DEF InsertCrawlRun, Statement, LoopStep
  <2>6. run \in 1..received
    BY <1>0, <1>7 DEF InsertCrawlRun, Typed, Control, TypeOK, run
  <2> QED
    BY <1>0, <1>7, <2>1, <2>2, <2>3, <2>4, <2>5, <2>6
    DEF InsertCrawlRun, Statement, FreshRun, Progress, run, batch, InTx, AfterSource,
        AfterRun, Pending
<1>8. CASE StoreAsset
  <2> DEFINE e == out[pos]  k == AssetOf(batch.ds, e)
  <2>1. ForeignKeys(tx')
    BY <1>0, <1>8, <1>t, AssetKeepsFK
    DEF StoreAsset, Statement, Progress, AfterSource, InTx
  <2>2. /\ tx'.data_sources = tx.data_sources /\ tx'.crawl_runs = tx.crawl_runs
        /\ PayloadsBut(tx', {k})
        /\ k \in DOMAIN tx'.assets /\ tx'.assets[k].meta = e.hash
    BY <1>0, <1>8, <1>t, AssetLeaves, AssetOpensPayload
    DEF StoreAsset, Statement, InTx, Pending
  <2> QED
    BY <1>0, <1>8, <2>1, <2>2
    DEF StoreAsset, Statement, FreshRun, Progress, run, batch, InTx, AfterSource,
        AfterRun, Pending
<1>9. CASE StoreRaw
  <2> DEFINE e == out[pos]  k == AssetOf(batch.ds, e)
  <2>1. /\ k \in DOMAIN tx.assets /\ tx.assets[k].meta = e.hash
        /\ run \in DOMAIN tx.crawl_runs /\ tx.crawl_runs[run].ds = batch.ds
        /\ ForeignKeys(tx) /\ PayloadsBut(tx, {k})
    BY <1>0, <1>9 DEF StoreRaw, Progress, AfterRun, InTx, Pending
  <2>2. tx' = UpsertRaw(tx, run, batch.ds, e)
    BY <1>9 DEF StoreRaw, Statement
  <2>3. ForeignKeys(tx') /\ PayloadsBut(tx', {})
    BY <1>t, <2>1, <2>2, RawKeepsFK, RawClosesPayload
  <2>4. tx'.data_sources = tx.data_sources /\ tx'.crawl_runs = tx.crawl_runs
    BY <1>t, <2>2, RawLeaves
  <2>5. pc' \in {"asset", "relationship", "commit"}
    BY <1>9 DEF StoreRaw, Statement, LoopStep
  <2>6. UNCHANGED <<sent, received, out, db>>
    BY <1>9 DEF StoreRaw, Statement
  <2> QED
    BY <1>0, <1>9, <2>3, <2>4, <2>5, <2>6
    DEF StoreRaw, FreshRun, Progress, run, batch, InTx, AfterSource, AfterRun, Pending
<1>10. CASE StoreRelationship
  <2>1. /\ run \in DOMAIN tx.crawl_runs /\ tx.crawl_runs[run].ds = batch.ds
        /\ ForeignKeys(tx) /\ PayloadsBut(tx, {})
    BY <1>0, <1>10 DEF StoreRelationship, Progress, AfterRun, InTx, Pending
  <2>2. tx' = UpsertRelation(tx, run, batch.ds, out[pos])
    BY <1>10 DEF StoreRelationship, Statement
  <2>3. ForeignKeys(tx')
    BY <1>t, <2>1, <2>2, RelationKeepsFK
  <2>4. /\ tx'.data_sources = tx.data_sources /\ tx'.crawl_runs = tx.crawl_runs
        /\ tx'.assets = tx.assets /\ tx'.raw_assets = tx.raw_assets
    BY <1>t, <2>2, RelationLeaves
  <2>5. PayloadsBut(tx', {})
    BY <2>1, <2>4 DEF PayloadsBut
  <2>6. pc' \in {"asset", "commit"}
    BY <1>10 DEF StoreRelationship, Statement, LoopStep
  <2>7. UNCHANGED <<sent, received, out, db>>
    BY <1>10 DEF StoreRelationship, Statement
  <2> QED
    BY <1>0, <1>10, <2>3, <2>4, <2>5, <2>6, <2>7
    DEF StoreRelationship, FreshRun, Progress, run, batch, InTx, AfterSource, AfterRun,
        Pending
<1>11. CASE Commit
  <2>1. ForeignKeys(tx) /\ PayloadsBut(tx, {}) /\ DOMAIN tx.crawl_runs \subseteq 1..received
    BY <1>0, <1>11 DEF Commit, InTx, Pending, FreshRun
  <2> QED
    BY <1>11, <2>1 DEF Commit, Idle, FreshRun, Progress, InTx, AfterSource, AfterRun
<1>12. CASE Fail
  BY <1>0, <1>12 DEF Fail, Idle, FreshRun, Progress, InTx, AfterSource, AfterRun
<1>13. CASE Crash
  <2>1. received' \in Nat /\ received <= received'
    BY <1>0, <1>13 DEF Crash, Typed, TypeOK
  <2> QED
    BY <1>0, <1>r, <1>13, <2>1 DEF Crash, Idle, FreshRun, Progress, InTx, AfterSource, AfterRun
<1>14. CASE UNCHANGED vars
  BY <1>0, <1>14 DEF vars, FreshRun, Progress, run, batch, Pending
<1> QED
  BY <1>s, <1>1, <1>2, <1>3, <1>4, <1>5, <1>6, <1>7, <1>8, <1>9, <1>10, <1>11, <1>12, <1>13, <1>14
  DEF Next, StoreCrawls
-----------------------------------------------------------------------------
(* In every reachable state the run being stored is new, the working copy  *)
(* holds what the executed statements put there, and both catalogs keep    *)
(* the foreign keys and the payloads; the three theorems below follow.     *)
THEOREM Integral == Spec => []Integrity
  BY IntegrityInit, IntegrityStep, PTL DEF Spec

(* Whatever fails and whenever the process dies, what a reader can see has *)
(* no row that refers to a missing row or to one of another data source.   *)
THEOREM CommittedForeignKeys == Spec => []ForeignKeys(db)
<1>1. Integrity => ForeignKeys(db)
  BY DEF Integrity
<1> QED
  BY <1>1, Integral, PTL

(* Every statement of StoreCrawl finds the rows it refers to, so no batch  *)
(* is ever refused by a foreign key.                                       *)
THEOREM NoStatementRefused == Spec => []StatementsAllowed
<1>1. Integrity => StatementsAllowed
  BY DEF Integrity, Progress, AfterSource, AfterRun, StatementsAllowed, RunAllowed,
         AssetAllowed, RawAllowed, RelationAllowed
<1> QED
  BY <1>1, Integral, PTL

(* Each asset a reader can find has the payload its metadata came with. *)
THEOREM PayloadsPresent == Spec => []AssetsHavePayload
<1>1. Integrity => AssetsHavePayload
  BY DEF Integrity, PayloadsBut, AssetsHavePayload
<1> QED
  BY <1>1, Integral, PTL
-----------------------------------------------------------------------------
(* What the committed catalog says about the past: rows and their          *)
(* first_seen survive, a run is there with all of its rows, and the        *)
(* crawl_run_id columns name the right run.                                *)

(* The row of key k is the committed one, or the current run stored it.    *)
RawOrigin ==
    \A k \in DOMAIN tx.raw_assets :
        \/ /\ k \in DOMAIN db.raw_assets
           /\ tx.raw_assets[k].run = db.raw_assets[k].run
        \/ /\ k \notin DOMAIN db.raw_assets
           /\ tx.raw_assets[k].run = run
           /\ \E i \in DOMAIN out : RawOf(batch.ds, out[i]) = k
RelationOrigin ==
    \A k \in DOMAIN tx.relationships :
        \/ /\ k \in DOMAIN db.relationships
           /\ tx.relationships[k].run = db.relationships[k].run
        \/ /\ tx.relationships[k].run = run
           /\ \E i \in DOMAIN out : IsRelationship(out[i]) /\ RelationshipOf(batch.ds, out[i]) = k

(* What an open transaction has made of the committed catalog.             *)
Working ==
    /\ CatalogKept(db, tx)
    /\ DOMAIN tx.crawl_runs \subseteq DOMAIN db.crawl_runs \union {run}
    /\ RawOrigin
    /\ RelationOrigin

(* Element e of data source ds is stored in c, its relationship by run n.  *)
StoredAs(c, n, ds, e) ==
    /\ AssetOf(ds, e) \in DOMAIN c.assets
    /\ RawOf(ds, e) \in DOMAIN c.raw_assets
    /\ IsRelationship(e) => /\ RelationshipOf(ds, e) \in DOMAIN c.relationships
                            /\ c.relationships[RelationshipOf(ds, e)].run = n

(* How many elements of the loop are done. *)
Done == IF pc = "commit" THEN Len(out) ELSE pos - 1

Loop ==
    /\ tx.crawl_runs[run].element_count = Len(out)
    /\ \A i \in 1..Done : StoredAs(tx, run, batch.ds, out[i])
    /\ pc = "relationship" => /\ AssetOf(batch.ds, out[pos]) \in DOMAIN tx.assets
                              /\ RawOf(batch.ds, out[pos]) \in DOMAIN tx.raw_assets

Committed ==
    /\ DOMAIN contents = DOMAIN db.crawl_runs
    /\ CommittedRunsComplete
    /\ RunProvenance

History ==
    /\ Integrity
    /\ Committed
    /\ pc \in InTx => Working
    /\ pc \in AfterRun => Loop
-----------------------------------------------------------------------------
LEMMA KeptTrans ==
    ASSUME NEW c, NEW d, NEW e, CatalogKept(c, d), CatalogKept(d, e)
    PROVE  CatalogKept(c, e)
<1>1. ASSUME NEW t, NEW u, NEW v, Keeps(t, u), Keeps(u, v) PROVE Keeps(t, v)
  BY <1>1 DEF Keeps
<1> QED
  BY <1>1 DEF CatalogKept

LEMMA KeptRefl == ASSUME NEW c PROVE CatalogKept(c, c)
  BY DEF CatalogKept, Keeps

LEMMA PutKeeps ==
    ASSUME NEW t, NEW k, NEW at, NEW row, row.first_seen = FirstSeen(t, k, at)
    PROVE  Keeps(t, Put(t, k, row))
  BY DEF Keeps, Put, FirstSeen

(* Every statement keeps what the catalog holds. *)
LEMMA SourceKept ==
    ASSUME NEW c, DOMAIN c = Tables, NEW ds, NEW at
    PROVE  CatalogKept(c, UpsertSource(c, ds, at))
<1> DEFINE t == c.data_sources
           row == [first_seen |-> FirstSeen(t, ds, at), last_seen |-> at]
<1>1. row.first_seen = FirstSeen(t, ds, at)
  OBVIOUS
<1>2. UpsertSource(c, ds, at).data_sources = Put(t, ds, row)
  BY UpsertSourceIs
<1> HIDE DEF row
<1>3. Keeps(t, UpsertSource(c, ds, at).data_sources)
  BY <1>1, <1>2, PutKeeps
<1> QED
  BY <1>3, SourceLeaves DEF CatalogKept, Keeps

LEMMA RunKept ==
    ASSUME NEW c, DOMAIN c = Tables, NEW n, n \notin DOMAIN c.crawl_runs, NEW ds, NEW elems
    PROVE  CatalogKept(c, InsertRun(c, n, ds, elems))
  BY RunLeaves DEF CatalogKept, Keeps

LEMMA AssetKept ==
    ASSUME NEW c, DOMAIN c = Tables, NEW ds, NEW e
    PROVE  CatalogKept(c, UpsertAsset(c, ds, e))
<1> DEFINE t == c.assets
           k == AssetOf(ds, e)
           row == [meta |-> e.hash, first_seen |-> FirstSeen(t, k, e.at), last_seen |-> e.at]
<1>1. row.first_seen = FirstSeen(t, k, e.at)
  OBVIOUS
<1>2. UpsertAsset(c, ds, e).assets = Put(t, k, row)
  BY UpsertAssetIs
<1> HIDE DEF row
<1>3. Keeps(t, UpsertAsset(c, ds, e).assets)
  BY <1>1, <1>2, PutKeeps
<1> QED
  BY <1>3, AssetLeaves DEF CatalogKept, Keeps

LEMMA RawKept ==
    ASSUME NEW c, DOMAIN c = Tables, NEW n, NEW ds, NEW e
    PROVE  CatalogKept(c, UpsertRaw(c, n, ds, e))
<1> DEFINE t == c.raw_assets
           k == RawOf(ds, e)
           row == [run |-> IF k \in DOMAIN t THEN t[k].run ELSE n,
                   first_seen |-> FirstSeen(t, k, e.at), last_seen |-> e.at]
<1>1. row.first_seen = FirstSeen(t, k, e.at)
  OBVIOUS
<1>2. UpsertRaw(c, n, ds, e).raw_assets = Put(t, k, row)
  BY UpsertRawIs
<1> HIDE DEF row
<1>3. Keeps(t, UpsertRaw(c, n, ds, e).raw_assets)
  BY <1>1, <1>2, PutKeeps
<1> QED
  BY <1>3, RawLeaves DEF CatalogKept, Keeps

LEMMA RelationKept ==
    ASSUME NEW c, DOMAIN c = Tables, NEW n, NEW ds, NEW e
    PROVE  CatalogKept(c, UpsertRelation(c, n, ds, e))
<1> DEFINE t == c.relationships
           k == RelationshipOf(ds, e)
           row == [run |-> n, first_seen |-> FirstSeen(t, k, e.at), last_seen |-> e.at]
<1>1. row.first_seen = FirstSeen(t, k, e.at)
  OBVIOUS
<1>2. UpsertRelation(c, n, ds, e).relationships = Put(t, k, row)
  BY UpsertRelationIs
<1> HIDE DEF row
<1>3. Keeps(t, UpsertRelation(c, n, ds, e).relationships)
  BY <1>1, <1>2, PutKeeps
<1> QED
  BY <1>3, RelationLeaves DEF CatalogKept, Keeps

(* An element stays stored, as long as later statements are of this run.   *)
LEMMA StaysStored ==
    ASSUME NEW c, NEW d, NEW n, NEW ds, NEW e, StoredAs(c, n, ds, e), CatalogKept(c, d),
           \A k \in DOMAIN c.relationships :
               d.relationships[k].run = c.relationships[k].run \/ d.relationships[k].run = n
    PROVE  StoredAs(d, n, ds, e)
  BY DEF StoredAs, CatalogKept, Keeps

(* After element i the loop goes to the next one, or i was the last one.   *)
LEMMA LoopEnds ==
    ASSUME NEW i \in 1..Len(out), Len(out) \in Nat
    PROVE  /\ LoopStep(i + 1) \in {"asset", "commit"}
           /\ LoopStep(i + 1) = "commit" => Len(out) = i
           /\ (i + 1) - 1 = i
  BY DEF LoopStep
-----------------------------------------------------------------------------
LEMMA HistoryInit == Init => History
<1> SUFFICES ASSUME Init PROVE History
  OBVIOUS
<1>1. Integrity
  BY IntegrityInit
<1>2. /\ DOMAIN db.crawl_runs = {} /\ DOMAIN contents = {}
      /\ DOMAIN db.raw_assets = {} /\ DOMAIN db.relationships = {}
  BY DEF Init, EmptyCatalog, EmptyTable
<1> QED
  BY <1>1, <1>2
  DEF Init, History, Committed, CommittedRunsComplete, RunProvenance, InTx, AfterRun

(* Nothing committed: readers see the same past. *)
LEMMA CommittedStays ==
    ASSUME Committed, UNCHANGED <<db, contents>>,
           \A r \in DOMAIN contents : sent'[r] = sent[r]
    PROVE  Committed'
<1>1. CommittedRunsComplete'
  BY DEF Committed, CommittedRunsComplete
<1>2. ASSUME NEW k PROVE RunsWithRaw(k)' = RunsWithRaw(k)
  BY DEF RunsWithRaw
<1>3. ASSUME NEW k PROVE RunsWithRelationship(k)' = RunsWithRelationship(k)
  BY DEF RunsWithRelationship
<1>4. RunProvenance'
  BY <1>2, <1>3 DEF Committed, RunProvenance
<1> QED
  BY <1>1, <1>4 DEF Committed

(* The run that commits is there with all its rows, the others as before.  *)
LEMMA CommitCompletes ==
    ASSUME History, Commit
    PROVE  DOMAIN contents' = DOMAIN db'.crawl_runs /\ CommittedRunsComplete'
<1>1. /\ db' = tx /\ contents' = Put(contents, run, out) /\ sent' = sent
      /\ pc = "commit" /\ run' = run
  BY DEF Commit, run
<1>2. /\ CatalogKept(db, tx) /\ DOMAIN tx.crawl_runs \subseteq DOMAIN db.crawl_runs \union {run}
      /\ DOMAIN contents = DOMAIN db.crawl_runs
      /\ run \in DOMAIN tx.crawl_runs
      /\ tx.crawl_runs[run].element_count = Len(out)
      /\ \A i \in 1..Len(out) : StoredAs(tx, run, batch.ds, out[i])
  BY <1>1 DEF History, Working, Committed, Loop, Done, InTx, AfterRun, Integrity, Progress
<1>3. DOMAIN contents' = DOMAIN db'.crawl_runs
  BY <1>1, <1>2 DEF Put, CatalogKept
<1>4. out \in Seq(Element)
  BY DEF History, Integrity, Typed, TypeOK
<1>5. ASSUME NEW r \in DOMAIN db'.crawl_runs
      PROVE  /\ tx.crawl_runs[r].element_count = Len(contents'[r])
             /\ \A i \in DOMAIN contents'[r] : LET e == contents'[r][i]  ds == sent[r].ds IN
                   /\ AssetOf(ds, e) \in DOMAIN tx.assets
                   /\ RawOf(ds, e) \in DOMAIN tx.raw_assets
                   /\ IsRelationship(e) => RelationshipOf(ds, e) \in DOMAIN tx.relationships
  <2>1. CASE r = run
    <3>1. contents'[r] = out /\ DOMAIN out = 1..Len(out) /\ sent[r].ds = batch.ds
      BY <1>1, <1>4, <2>1 DEF Put, run, batch
    <3> QED
      BY <1>2, <2>1, <3>1 DEF StoredAs
  <2>2. CASE r # run
    <3>1. r \in DOMAIN db.crawl_runs /\ contents'[r] = contents[r]
      BY <1>1, <1>2, <2>2, <1>5 DEF Put
    <3> QED
      BY <1>2, <3>1 DEF History, Committed, CommittedRunsComplete, CatalogKept, Keeps
  <2> QED
    BY <2>1, <2>2
<1> QED
  BY <1>1, <1>3, <1>5 DEF CommittedRunsComplete

(* A payload that was there keeps the oldest of its runs, a new one gets   *)
(* the run that commits, the only one that holds it.                       *)
LEMMA CommitKeepsProvenance ==
    ASSUME History, Commit
    PROVE  RunProvenance'
<1>1. /\ db' = tx /\ contents' = Put(contents, run, out) /\ sent' = sent /\ pc = "commit"
  BY DEF Commit
<1>2. /\ RawOrigin /\ RelationOrigin
      /\ DOMAIN contents = DOMAIN db.crawl_runs
      /\ DOMAIN db.crawl_runs \subseteq 1..received /\ run \notin DOMAIN db.crawl_runs
      /\ \A i \in 1..Len(out) : StoredAs(tx, run, batch.ds, out[i])
  BY <1>1 DEF History, Working, Committed, Loop, Done, InTx, AfterRun, Integrity, FreshRun
<1>3. out \in Seq(Element) /\ received \in Nat /\ DOMAIN out = 1..Len(out)
  BY DEF History, Integrity, Typed, TypeOK
<1>4. CommittedRunsComplete /\ RunProvenance
  BY DEF History, Committed
<1>5. \A r \in DOMAIN contents : r \in Nat /\ r <= run /\ r # run
  BY <1>2, <1>3 DEF run
<1>6. /\ DOMAIN contents' = DOMAIN contents \union {run} /\ contents'[run] = out
      /\ \A r \in DOMAIN contents : contents'[r] = contents[r]
  BY <1>1, <1>5 DEF Put
<1>7. ASSUME NEW k \in DOMAIN tx.raw_assets
      PROVE  LET R == RunsWithRaw(k)' IN
             tx.raw_assets[k].run \in R /\ \A r \in R : tx.raw_assets[k].run <= r
  <2>1. RunsWithRaw(k) \subseteq RunsWithRaw(k)' /\ RunsWithRaw(k)' \subseteq RunsWithRaw(k) \union {run}
    BY <1>1, <1>5, <1>6 DEF RunsWithRaw
  <2>2. RunsWithRaw(k) \subseteq DOMAIN contents
    BY DEF RunsWithRaw
  <2>3. CASE k \in DOMAIN db.raw_assets
    <3>1. tx.raw_assets[k].run = db.raw_assets[k].run
      BY <1>2, <1>7, <2>3 DEF RawOrigin
    <3>2. db.raw_assets[k].run \in RunsWithRaw(k)
          /\ \A r \in RunsWithRaw(k) : db.raw_assets[k].run <= r
      BY <1>4, <2>3 DEF RunProvenance
    <3> QED
      BY <1>5, <2>1, <2>2, <3>1, <3>2
  <2>4. CASE k \notin DOMAIN db.raw_assets
    <3>1. tx.raw_assets[k].run = run /\ \E i \in DOMAIN out : RawOf(batch.ds, out[i]) = k
      BY <1>2, <1>7, <2>4 DEF RawOrigin
    <3>2. RunsWithRaw(k) = {}
      BY <1>2, <1>4, <2>4 DEF RunsWithRaw, CommittedRunsComplete
    <3>3. run \in RunsWithRaw(k)'
      BY <1>1, <1>6, <3>1 DEF RunsWithRaw, batch, run
    <3> QED
      BY <1>3, <2>1, <3>1, <3>2, <3>3 DEF run
  <2> QED
    BY <2>3, <2>4
<1>8. ASSUME NEW k \in DOMAIN tx.relationships
      PROVE  LET R == RunsWithRelationship(k)' IN
             tx.relationships[k].run \in R /\ \A r \in R : r <= tx.relationships[k].run
  <2>1. /\ RunsWithRelationship(k) \subseteq RunsWithRelationship(k)'
        /\ RunsWithRelationship(k)' \subseteq RunsWithRelationship(k) \union {run}
    BY <1>1, <1>5, <1>6 DEF RunsWithRelationship
  <2>2. RunsWithRelationship(k) \subseteq DOMAIN contents
    BY DEF RunsWithRelationship
  <2>3. run \in RunsWithRelationship(k)' <=>
            \E i \in DOMAIN out : IsRelationship(out[i]) /\ RelationshipOf(batch.ds, out[i]) = k
    BY <1>1, <1>6 DEF RunsWithRelationship, batch, run
  <2>4. CASE run \in RunsWithRelationship(k)'
    <3>1. tx.relationships[k].run = run
      BY <1>2, <1>3, <2>3, <2>4 DEF StoredAs
    <3> QED
      BY <1>3, <1>5, <2>1, <2>2, <2>4, <3>1 DEF run
  <2>5. CASE run \notin RunsWithRelationship(k)'
    <3>1. k \in DOMAIN db.relationships /\ tx.relationships[k].run = db.relationships[k].run
      BY <1>2, <1>8, <2>3, <2>5 DEF RelationOrigin
    <3>2. db.relationships[k].run \in RunsWithRelationship(k)
          /\ \A r \in RunsWithRelationship(k) : r <= db.relationships[k].run
      BY <1>4, <3>1 DEF RunProvenance
    <3> QED
      BY <2>1, <2>5, <3>1, <3>2
  <2> QED
    BY <2>4, <2>5
<1> QED
  BY <1>1, <1>7, <1>8 DEF RunProvenance
-----------------------------------------------------------------------------
(* A statement of the loop or before it leaves the committed catalog alone. *)
LEMMA StatementStays ==
    ASSUME History, UNCHANGED <<sent, received, db, contents>>
    PROVE  Committed'
  BY CommittedStays DEF History

LEMMA HistoryStep == History /\ [Next]_vars => History'
<1> SUFFICES ASSUME History, [Next]_vars PROVE History'
  OBVIOUS
<1>0. Integrity /\ Integrity' /\ Committed
  BY IntegrityStep DEF History
<1>t. /\ DOMAIN tx = Tables /\ received \in Nat /\ out \in Seq(Element)
      /\ pos \in Nat /\ Len(out) \in Nat /\ DOMAIN out = 1..Len(out)
  BY <1>0 DEF Integrity, Typed, TypeOK, CatalogOK, EmptyCatalog, Tables
<1>p. pc \in {"asset", "raw", "relationship"} => pos \in 1..Len(out)
  BY <1>0 DEF Integrity, Typed, Control
<1> DEFINE Open == /\ pc \in InTx => Working
                   /\ pc \in AfterRun => Loop
<1>o. Open
  BY DEF History
<1>s. SUFFICES Committed' /\ Open'
  BY <1>0 DEF History
<1>1. ASSUME NEW b \in Batches, Send(b) PROVE Committed' /\ Open'
  <2>1. \A n \in 1..Len(sent) : sent'[n] = sent[n]
    BY <1>0, <1>1 DEF Send, Integrity, Typed, TypeOK
  <2>2. Committed'
    BY <1>0, <1>1, <2>1, CommittedStays DEF Send, Integrity, Typed, TypeOK
  <2>3. pc # "receive" => batch' = batch
    BY <1>0, <2>1, <1>1 DEF Send, Integrity, Typed, Control, batch
  <2>4. pc \in InTx => pc # "receive"
    BY DEF InTx
  <2> QED
    BY <1>o, <1>1, <2>2, <2>3, <2>4
    DEF Send, Working, RawOrigin, RelationOrigin, Loop, Done, run, InTx, AfterRun
<1>2. CASE Receive
  BY <1>0, <1>2, CommittedStays DEF Receive, InTx, AfterRun
<1>3. CASE DedupElement
  BY <1>3, StatementStays DEF DedupElement, InTx, AfterRun
<1>4. CASE DedupDone
  BY <1>4, StatementStays DEF DedupDone, InTx, AfterRun
<1>5. CASE Begin
  <2>1. Committed' /\ tx' = db /\ db' = db /\ pc' = "source"
    BY <1>5, StatementStays DEF Begin, Statement
  <2>2. Working'
    BY <2>1, KeptRefl DEF Working, RawOrigin, RelationOrigin
  <2> QED
    BY <2>1, <2>2 DEF AfterRun
<1>6. CASE UpsertDataSource
  <2>1. /\ tx' = UpsertSource(tx, batch.ds, batch.at) /\ pc' = "run" /\ pc \in InTx
        /\ UNCHANGED <<sent, received, out, db, contents>>
    BY <1>6 DEF UpsertDataSource, Statement, InTx
  <2>2. /\ tx'.crawl_runs = tx.crawl_runs /\ tx'.raw_assets = tx.raw_assets
        /\ tx'.relationships = tx.relationships /\ CatalogKept(tx, tx')
    BY <1>t, <2>1, SourceLeaves, SourceKept
  <2>3. CatalogKept(db, tx')
    BY <1>o, <2>1, <2>2, KeptTrans DEF Working
  <2>4. Working'
    BY <1>o, <2>1, <2>2, <2>3 DEF Working, RawOrigin, RelationOrigin, run, batch
  <2> QED
    BY <2>1, <2>4, StatementStays DEF AfterRun
<1>7. CASE InsertCrawlRun
  <2>1. /\ tx' = InsertRun(tx, run, batch.ds, out) /\ pc' = LoopStep(1) /\ pos' = 1
        /\ pc = "run" /\ pc \in InTx /\ UNCHANGED <<sent, received, out, db, contents>>
    BY <1>7 DEF InsertCrawlRun, Statement, InTx
  <2>2. run \notin DOMAIN tx.crawl_runs
    BY <1>0, <2>1 DEF Integrity, FreshRun
  <2>3. /\ DOMAIN tx'.crawl_runs = DOMAIN tx.crawl_runs \union {run}
        /\ tx'.crawl_runs[run].element_count = Len(out)
        /\ tx'.raw_assets = tx.raw_assets /\ tx'.relationships = tx.relationships
        /\ CatalogKept(tx, tx')
    BY <1>t, <2>1, <2>2, RunLeaves, RunKept
  <2>4. CatalogKept(db, tx')
    BY <1>o, <2>1, <2>3, KeptTrans DEF Working
  <2>5. Working'
    BY <1>o, <2>1, <2>3, <2>4 DEF Working, RawOrigin, RelationOrigin, run, batch
  <2>6. pc' \in {"asset", "commit"} /\ (pc' = "commit" => Len(out) = 0)
    BY <1>t, <2>1 DEF LoopStep
  <2>7. Loop'
    BY <1>t, <2>1, <2>3, <2>6 DEF Loop, Done, run
  <2> QED
    BY <2>1, <2>5, <2>7, StatementStays
<1>8. CASE StoreAsset
  <2> DEFINE k == AssetOf(batch.ds, out[pos])
  <2>1. /\ tx' = UpsertAsset(tx, batch.ds, out[pos]) /\ pc' = "raw" /\ pos' = pos
        /\ pc = "asset" /\ pc \in InTx /\ pc \in AfterRun
        /\ UNCHANGED <<sent, received, out, db, contents>>
    BY <1>8 DEF StoreAsset, Statement, InTx, AfterRun
  <2>2. /\ tx'.crawl_runs = tx.crawl_runs /\ tx'.raw_assets = tx.raw_assets
        /\ tx'.relationships = tx.relationships /\ CatalogKept(tx, tx')
    BY <1>t, <2>1, AssetLeaves, AssetKept
  <2>3. CatalogKept(db, tx')
    BY <1>o, <2>1, <2>2, KeptTrans DEF Working
  <2>4. Working'
    BY <1>o, <2>1, <2>2, <2>3 DEF Working, RawOrigin, RelationOrigin, run, batch
  <2>5. \A i \in 1..(pos - 1) : StoredAs(tx', run, batch.ds, out[i])
    BY <1>o, <2>1, <2>2, StaysStored DEF Loop, Done
  <2>6. Loop'
    BY <1>o, <2>1, <2>2, <2>5 DEF Loop, Done, run, batch
  <2> QED
    BY <2>1, <2>4, <2>6, StatementStays
<1>9. CASE StoreRaw
  <2> DEFINE e == out[pos]  k == RawOf(batch.ds, e)
  <2>1. /\ tx' = UpsertRaw(tx, run, batch.ds, e)
        /\ pc = "raw" /\ pc \in InTx /\ pc \in AfterRun
        /\ UNCHANGED <<sent, received, out, db, contents>>
    BY <1>9 DEF StoreRaw, Statement, InTx, AfterRun
  <2>2. /\ DOMAIN tx'.raw_assets = DOMAIN tx.raw_assets \union {k}
        /\ k \in DOMAIN tx.raw_assets => tx'.raw_assets[k].run = tx.raw_assets[k].run
        /\ k \notin DOMAIN tx.raw_assets => tx'.raw_assets[k].run = run
        /\ \A x \in DOMAIN tx.raw_assets : x # k => tx'.raw_assets[x] = tx.raw_assets[x]
        /\ tx'.crawl_runs = tx.crawl_runs /\ tx'.assets = tx.assets
        /\ tx'.relationships = tx.relationships /\ CatalogKept(tx, tx')
    BY <1>t, <2>1, RawLeaves, RawKept
  <2>3. CatalogKept(db, tx) /\ CatalogKept(db, tx')
    BY <1>o, <2>1, <2>2, KeptTrans DEF Working
  <2>4. RawOrigin'
    <3> SUFFICES ASSUME NEW x \in DOMAIN tx'.raw_assets
                 PROVE  \/ /\ x \in DOMAIN db.raw_assets
                           /\ tx'.raw_assets[x].run = db.raw_assets[x].run
                        \/ /\ x \notin DOMAIN db.raw_assets
                           /\ tx'.raw_assets[x].run = run
                           /\ \E i \in DOMAIN out : RawOf(batch.ds, out[i]) = x
      BY <2>1 DEF RawOrigin, run, batch
    <3>1. CASE x \in DOMAIN tx.raw_assets
      BY <1>o, <2>1, <2>2, <3>1 DEF Working, RawOrigin
    <3>2. CASE x \notin DOMAIN tx.raw_assets
      <4>1. x = k /\ x \notin DOMAIN db.raw_assets
        BY <2>2, <2>3, <3>2 DEF CatalogKept, Keeps
      <4>2. pos \in DOMAIN out
        BY <1>t, <1>p, <2>1
      <4> QED
        BY <2>2, <3>2, <4>1, <4>2
    <3> QED
      BY <3>1, <3>2
  <2>5. Working'
    BY <1>o, <2>1, <2>2, <2>3, <2>4 DEF Working, RelationOrigin, run, batch
  <2>6. \A i \in 1..(pos - 1) : StoredAs(tx', run, batch.ds, out[i])
    BY <1>o, <2>1, <2>2, StaysStored DEF Loop, Done
  <2>7. AssetOf(batch.ds, e) \in DOMAIN tx'.assets /\ k \in DOMAIN tx'.raw_assets
    BY <1>0, <2>1, <2>2 DEF Integrity, Progress
  <2>8. CASE IsRelationship(e)
    <3>1. pc' = "relationship" /\ pos' = pos
      BY <1>9, <2>8 DEF StoreRaw, Statement
    <3>2. Loop'
      BY <1>o, <2>1, <2>2, <2>6, <2>7, <3>1 DEF Loop, Done, run, batch
    <3> QED
      BY <2>1, <2>5, <3>2, StatementStays
  <2>9. CASE ~IsRelationship(e)
    <3>1. pc' = LoopStep(pos + 1) /\ pos' = pos + 1
      BY <1>9, <2>9 DEF StoreRaw, Statement
    <3>2. pc' \in {"asset", "commit"} /\ (pc' = "commit" => Len(out) = pos)
      BY <1>t, <1>p, <2>1, <3>1, LoopEnds
    <3>3. StoredAs(tx', run, batch.ds, e)
      BY <2>7, <2>9 DEF StoredAs
    <3>4. \A i \in 1..pos : StoredAs(tx', run, batch.ds, out[i])
      BY <1>t, <2>6, <3>3
    <3>5. Done' = pos
      BY <1>t, <1>p, <2>1, <3>1, <3>2, LoopEnds DEF Done
    <3>6. Loop'
      BY <1>o, <2>1, <2>2, <3>2, <3>4, <3>5 DEF Loop, run, batch
    <3> QED
      BY <2>1, <2>5, <3>6, StatementStays
  <2> QED
    BY <2>8, <2>9
<1>10. CASE StoreRelationship
  <2> DEFINE e == out[pos]  k == RelationshipOf(batch.ds, e)
  <2>1. /\ tx' = UpsertRelation(tx, run, batch.ds, e)
        /\ pc' = LoopStep(pos + 1) /\ pos' = pos + 1
        /\ pc = "relationship" /\ pc \in InTx /\ pc \in AfterRun
        /\ UNCHANGED <<sent, received, out, db, contents>>
    BY <1>10 DEF StoreRelationship, Statement, InTx, AfterRun
  <2>2. /\ DOMAIN tx'.relationships = DOMAIN tx.relationships \union {k}
        /\ tx'.relationships[k].run = run
        /\ \A x \in DOMAIN tx.relationships : x # k => tx'.relationships[x] = tx.relationships[x]
        /\ tx'.crawl_runs = tx.crawl_runs /\ tx'.assets = tx.assets
        /\ tx'.raw_assets = tx.raw_assets /\ CatalogKept(tx, tx')
    BY <1>t, <2>1, RelationLeaves, RelationKept
  <2>3. CatalogKept(db, tx')
    BY <1>o, <2>1, <2>2, KeptTrans DEF Working
  <2>4. IsRelationship(e) /\ pos \in DOMAIN out
    BY <1>0, <1>t, <1>p, <2>1 DEF Integrity, Typed, Control
  <2>5. RelationOrigin'
    BY <1>o, <2>1, <2>2, <2>4 DEF Working, RelationOrigin, run, batch
  <2>6. Working'
    BY <1>o, <2>1, <2>2, <2>3, <2>5 DEF Working, RawOrigin, run, batch
  <2>7. \A i \in 1..(pos - 1) : StoredAs(tx', run, batch.ds, out[i])
    BY <1>o, <2>1, <2>2, StaysStored DEF Loop, Done
  <2>8. StoredAs(tx', run, batch.ds, e)
    BY <1>o, <2>1, <2>2 DEF Loop, StoredAs
  <2>9. \A i \in 1..pos : StoredAs(tx', run, batch.ds, out[i])
    BY <1>t, <2>7, <2>8
  <2>10. pc' \in {"asset", "commit"} /\ (pc' = "commit" => Len(out) = pos)
    BY <1>t, <1>p, <2>1, LoopEnds
  <2>11. Done' = pos
    BY <1>t, <1>p, <2>1, <2>10, LoopEnds DEF Done
  <2>12. Loop'
    BY <1>o, <2>1, <2>2, <2>9, <2>10, <2>11 DEF Loop, run, batch
  <2> QED
    BY <2>1, <2>6, <2>12, StatementStays
<1>11. CASE Commit
  BY <1>11, CommitCompletes, CommitKeepsProvenance DEF Commit, Idle, Committed, InTx, AfterRun
<1>12. CASE Fail
  BY <1>12, StatementStays DEF Fail, Idle, InTx, AfterRun
<1>13. CASE Crash
  BY <1>0, <1>13, CommittedStays DEF Crash, Idle, InTx, AfterRun
<1>14. CASE UNCHANGED vars
  BY <1>o, <1>14, StatementStays
  DEF vars, Working, RawOrigin, RelationOrigin, Loop, Done, run, batch
<1> QED
  BY <1>s, <1>1, <1>2, <1>3, <1>4, <1>5, <1>6, <1>7, <1>8, <1>9, <1>10, <1>11, <1>12, <1>13, <1>14
  DEF Next, StoreCrawls
-----------------------------------------------------------------------------
(* What a reader sees of the past is right, and the working copy extends   *)
(* it by the current run alone; the three theorems below follow.           *)
THEOREM Historical == Spec => []History
  BY HistoryInit, HistoryStep, PTL DEF Spec

(* A run a reader can list is there with every row of its batch, and its   *)
(* element count is that of its batch, whatever failed before or since.    *)
THEOREM RunsComplete == Spec => []CommittedRunsComplete
<1>1. History => CommittedRunsComplete
  BY DEF History, Committed
<1> QED
  BY <1>1, Historical, PTL

(* A payload version names the first run that observed it, a relationship  *)
(* the last one, across rolled back batches and restarts.                  *)
THEOREM Provenance == Spec => []RunProvenance
<1>1. History => RunProvenance
  BY DEF History, Committed
<1> QED
  BY <1>1, Historical, PTL

(* No step loses a committed row, changes its first_seen or a run.         *)
THEOREM HistoryIsKept == Spec => HistoryKept
<1>1. History /\ [Next]_vars => [CatalogKept(db, db')]_db
  <2> SUFFICES ASSUME History, [Next]_vars, db' # db PROVE CatalogKept(db, db')
    OBVIOUS
  <2>1. Commit
    BY DEF Next, StoreCrawls, Send, Receive, DedupElement, DedupDone, Begin, UpsertDataSource,
           InsertCrawlRun, StoreAsset, StoreRaw, StoreRelationship, Statement, Fail, Crash, vars
  <2> QED
    BY <2>1 DEF Commit, History, Working, InTx
<1> QED
  BY <1>1, Historical, PTL DEF Spec, HistoryKept
-----------------------------------------------------------------------------
(* The refinement of AtomicIngest, in its terms.                           *)
Kept(data) == Atomic!Kept(data)

Least(T) == CHOOSE i \in T : \A j \in T : i <= j
Greatest(T) == CHOOSE i \in T : \A j \in T : j <= i

(* The tables after the elements of data with indexes in S were stored, in *)
(* the order of the indexes: a key keeps its first_seen and has the other  *)
(* columns from the last element with that key.                            *)
AssetsAfter(t, ds, data, S) ==
    [k \in DOMAIN t \union {AssetOf(ds, data[i]) : i \in S} |->
        IF k \in {AssetOf(ds, data[i]) : i \in S}
        THEN LET T == {i \in S : AssetOf(ds, data[i]) = k} IN
             [meta |-> data[Greatest(T)].hash,
              first_seen |-> IF k \in DOMAIN t THEN t[k].first_seen
                             ELSE data[Least(T)].at,
              last_seen |-> data[Greatest(T)].at]
        ELSE t[k]]

RawAfter(t, n, ds, data, S) ==
    [k \in DOMAIN t \union {RawOf(ds, data[i]) : i \in S} |->
        IF k \in {RawOf(ds, data[i]) : i \in S}
        THEN LET T == {i \in S : RawOf(ds, data[i]) = k} IN
             [run |-> IF k \in DOMAIN t THEN t[k].run ELSE n,
              first_seen |-> IF k \in DOMAIN t THEN t[k].first_seen
                             ELSE data[Least(T)].at,
              last_seen |-> data[Greatest(T)].at]
        ELSE t[k]]

RelationshipsAfter(t, n, ds, data, S) ==
    [k \in DOMAIN t \union {RelationshipOf(ds, data[i]) : i \in S} |->
        IF k \in {RelationshipOf(ds, data[i]) : i \in S}
        THEN LET T == {i \in S : RelationshipOf(ds, data[i]) = k} IN
             [run |-> n,
              first_seen |-> IF k \in DOMAIN t THEN t[k].first_seen
                             ELSE data[Least(T)].at,
              last_seen |-> data[Greatest(T)].at]
        ELSE t[k]]

Increasing(f, n) == \A i, j \in 1..n : i < j => f[i] < f[j]

ImageOf(f, S) == {f[i] : i \in S}

Relations(o, p) == {i \in 1..p : IsRelationship(o[i])}

(* o holds the elements kept of the first p of data, in their order, and   *)
(* each of those p elements is the same item as one of o.                  *)
Picks(f, o, data, p) ==
    /\ \A i \in 1..Len(o) : f[i] \in 1..p /\ f[i] \in Kept(data) /\ o[i] = data[f[i]]
    /\ Increasing(f, Len(o))
    /\ \A j \in Kept(data) : j <= p => \E i \in 1..Len(o) : f[i] = j
Deduplicated(o, data, p) ==
    /\ \E f : Picks(f, o, data, p)
    /\ \A j \in 1..p : data[j] # NilElement =>
          \E i \in 1..Len(o) : SameItem(o[i], data[j])

Dedup ==
    /\ pc = "receive" => out = <<>> /\ pos = 1
    /\ pc = "dedup" => /\ pos <= Len(batch.data) + 1
                       /\ Deduplicated(out, batch.data, pos - 1)
    /\ pc \in InTx \union {"begin"} => Deduplicated(out, batch.data, Len(batch.data))

(* How much of the batch the working copy holds: p elements in assets, q   *)
(* in raw_assets, r in relationships.                                      *)
Holds(p, q, r) ==
    /\ tx.assets = AssetsAfter(db.assets, batch.ds, out, 1..p)
    /\ tx.raw_assets = RawAfter(db.raw_assets, run, batch.ds, out, 1..q)
    /\ tx.relationships =
          RelationshipsAfter(db.relationships, run, batch.ds, out, Relations(out, r))
Headed ==
    /\ tx.data_sources = UpsertSource(db, batch.ds, batch.at).data_sources
    /\ tx.crawl_runs = InsertRun(db, run, batch.ds, out).crawl_runs

WorkingCopy ==
    /\ pc = "source" => tx = db
    /\ pc = "run" => tx = UpsertSource(db, batch.ds, batch.at)
    /\ pc \in AfterRun => Headed
    /\ pc = "asset" => Holds(pos - 1, pos - 1, pos - 1)
    /\ pc = "raw" => Holds(pos, pos - 1, pos - 1)
    /\ pc = "relationship" => Holds(pos, pos, pos - 1)
    /\ pc = "commit" => Holds(Len(out), Len(out), Len(out))

IsCatalog(c) ==
    /\ c = [t \in Tables |-> c[t]]
    /\ \A t \in Tables : c[t] = [k \in DOMAIN c[t] |-> c[t][k]]

Refined == Integrity /\ IsCatalog(tx) /\ IsCatalog(db) /\ Dedup /\ WorkingCopy
-----------------------------------------------------------------------------
(* A set of naturals with a member has a least one. *)
LEMMA LeastNumber ==
    ASSUME NEW T \in SUBSET Nat, T # {}
    PROVE  Least(T) \in T /\ \A j \in T : Least(T) <= j
<1> DEFINE less == {ss \in Nat \X Nat : ss[1] < ss[2]}
<1>1. IsWellFoundedOn(less, Nat)
  BY NatLessThanWellFounded DEF OpToRel
<1> HIDE DEF less
<1>2. PICK m \in T : \A j \in T : <<j, m>> \notin less
  BY <1>1, WFMin
<1>3. ASSUME NEW j \in T PROVE m <= j
  <2>1. <<j, m>> \in Nat \X Nat /\ m \in Nat /\ j \in Nat
    OBVIOUS
  <2>2. ~(j < m)
    BY <1>2, <2>1 DEF less
  <2> QED
    BY <2>1, <2>2
<1> QED
  BY <1>3 DEF Least

(* A set of naturals with a member and a bound has a greatest one. *)
LEMMA GreatestNumber ==
    ASSUME NEW n \in Nat, NEW T \in SUBSET (0..n), T # {}
    PROVE  Greatest(T) \in T /\ \A j \in T : j <= Greatest(T)
<1> DEFINE U == {u \in Nat : \A j \in T : j <= u}
<1>1. n \in U /\ U \in SUBSET Nat
  OBVIOUS
<1> DEFINE m == Least(U)
<1>2. m \in U /\ \A v \in U : m <= v
  BY <1>1, LeastNumber
<1> HIDE DEF m
<1>3. m \in Nat /\ \A j \in T : j \in Nat /\ j <= m
  BY <1>2
<1>4. m \in T
  <2> SUFFICES ASSUME m \notin T PROVE FALSE
    OBVIOUS
  <2>1. \A j \in T : j <= m - 1
    BY <1>3
  <2>2. PICK j \in T : TRUE
    OBVIOUS
  <2>4. m - 1 \in Nat
    BY <1>3, <2>1, <2>2
  <2>3. m <= m - 1
    BY <1>2, <2>1, <2>4
  <2> QED
    BY <1>3, <2>3
<1> QED
  BY <1>3, <1>4 DEF Greatest

LEMMA LeastIs ==
    ASSUME NEW T \in SUBSET Nat, NEW i \in T, \A j \in T : i <= j
    PROVE  Least(T) = i
<1>1. Least(T) \in T /\ Least(T) <= i
  BY LeastNumber
<1>2. Least(T) \in Nat /\ i \in Nat /\ i <= Least(T)
  BY <1>1
<1> QED
  BY <1>1, <1>2

LEMMA GreatestIs ==
    ASSUME NEW T \in SUBSET Nat, NEW i \in T, \A j \in T : j <= i
    PROVE  Greatest(T) = i
<1>1. i \in Nat /\ T \in SUBSET (0..i)
  OBVIOUS
<1>2. Greatest(T) \in T /\ i <= Greatest(T)
  BY <1>1, GreatestNumber
<1>3. Greatest(T) \in Nat /\ Greatest(T) <= i
  BY <1>2
<1> QED
  BY <1>1, <1>2, <1>3

(* One more number above the others. *)
LEMMA OneMore ==
    ASSUME NEW T \in SUBSET Nat, NEW p \in Nat, \A i \in T : i < p
    PROVE  /\ Greatest(T \union {p}) = p
           /\ T # {} => Least(T \union {p}) = Least(T)
           /\ T = {} => Least(T \union {p}) = p
<1> DEFINE U == T \union {p}
<1>0. U \in SUBSET Nat /\ p \in U /\ \A j \in U : j <= p
  OBVIOUS
<1>1. Greatest(U) = p
  BY <1>0, GreatestIs
<1>2. T = {} => Least(U) = p
  BY <1>0, LeastIs
<1>3. ASSUME T # {} PROVE Least(T \union {p}) = Least(T)
  <2>1. Least(T) \in T /\ \A j \in T : Least(T) <= j
    BY <1>3, LeastNumber
  <2>4. Least(T) \in Nat /\ Least(T) < p
    BY <2>1
  <2>5. Least(T) <= p
    BY <2>4
  <2>2. \A j \in U : Least(T) <= j
    BY <2>1, <2>5
  <2>3. Least(U) = Least(T)
    BY <1>0, <2>1, <2>2, LeastIs
  <2> QED
    BY <2>3
<1> QED
  BY <1>1, <1>2, <1>3

(* An increasing function takes the ends of a set to those of its image. *)
LEMMA ImageEnds ==
    ASSUME NEW n \in Nat, NEW f, \A i \in 1..n : f[i] \in Nat, Increasing(f, n),
           NEW T \in SUBSET (1..n), T # {}
    PROVE  /\ Greatest({f[i] : i \in T}) = f[Greatest(T)] /\ Greatest(T) \in T
           /\ Least({f[i] : i \in T}) = f[Least(T)] /\ Least(T) \in T
<1> DEFINE U == {f[i] : i \in T}
<1>1. U \in SUBSET Nat /\ T \in SUBSET Nat
  OBVIOUS
<1>2. \A i, j \in 1..n : i <= j => f[i] <= f[j]
  BY DEF Increasing
<1>3. Greatest(T) \in T /\ \A j \in T : j <= Greatest(T)
  <2>1. T \in SUBSET (0..n)
    OBVIOUS
  <2> QED
    BY <2>1, GreatestNumber
<1>4. Least(T) \in T /\ \A j \in T : Least(T) <= j
  BY <1>1, LeastNumber
<1>5. f[Greatest(T)] \in U /\ \A u \in U : u <= f[Greatest(T)]
  BY <1>2, <1>3
<1>6. f[Least(T)] \in U /\ \A u \in U : f[Least(T)] <= u
  BY <1>2, <1>4
<1> HIDE DEF U
<1>7. Greatest(U) = f[Greatest(T)] /\ Least(U) = f[Least(T)]
  BY <1>1, <1>5, <1>6, GreatestIs, LeastIs
<1> QED
  BY <1>3, <1>4, <1>7 DEF U
-----------------------------------------------------------------------------
(* Storing one more element of data, after those of S, in one table.       *)
LEMMA AssetsAfterOneMore ==
    ASSUME NEW t, NEW ds, NEW data, NEW S \in SUBSET Nat, NEW p \in Nat,
           \A i \in S : i < p
    PROVE  LET a == AssetsAfter(t, ds, data, S)  k == AssetOf(ds, data[p]) IN
           AssetsAfter(t, ds, data, S \union {p}) =
               Put(a, k, [meta |-> data[p].hash,
                          first_seen |-> FirstSeen(a, k, data[p].at),
                          last_seen |-> data[p].at])
<1> DEFINE a == AssetsAfter(t, ds, data, S)
           k == AssetOf(ds, data[p])
           row == [meta |-> data[p].hash,
                   first_seen |-> FirstSeen(a, k, data[p].at),
                   last_seen |-> data[p].at]
           D == DOMAIN t \union {AssetOf(ds, data[i]) : i \in S}
           E == DOMAIN t \union {AssetOf(ds, data[i]) : i \in S \union {p}}
           On(x) == {i \in S : AssetOf(ds, data[i]) = x}
           Row(x, T) == [meta |-> data[Greatest(T)].hash,
                         first_seen |-> IF x \in DOMAIN t THEN t[x].first_seen
                                        ELSE data[Least(T)].at,
                         last_seen |-> data[Greatest(T)].at]
<1>1. E = D \union {k}
  OBVIOUS
<1>2. ASSUME NEW x \in D
      PROVE  a[x] = IF On(x) # {} THEN Row(x, On(x)) ELSE t[x]
  <2>1. x \in {AssetOf(ds, data[i]) : i \in S} <=> On(x) # {}
    OBVIOUS
  <2> QED
    BY <2>1 DEF AssetsAfter
<1>3. DOMAIN a = D
  BY DEF AssetsAfter
<1>4. On(k) \in SUBSET Nat /\ \A i \in On(k) : i < p
  OBVIOUS
<1>5. row = Row(k, On(k) \union {p})
  <2>1. CASE On(k) # {}
    <3>1. k \in D
      BY <2>1
    <3> HIDE DEF On, a, D, k
    <3>2. a[k] = Row(k, On(k))
      BY <1>2, <2>1, <3>1
    <3> QED
      BY <1>3, <1>4, <2>1, <3>1, <3>2, OneMore DEF FirstSeen
  <2>2. CASE On(k) = {}
    <3>1. k \in D <=> k \in DOMAIN t
      BY <2>2
    <3>2. k \in D => a[k] = t[k]
      BY <1>2, <2>2
    <3> HIDE DEF On, a, D, k
    <3> QED
      BY <1>3, <1>4, <2>2, <3>1, <3>2, OneMore DEF FirstSeen
  <2> QED
    BY <2>1, <2>2
<1> DEFINE r == AssetsAfter(t, ds, data, S \union {p})
<1>6. DOMAIN r = E /\ r = [x \in E |-> r[x]]
  BY DEF AssetsAfter
<1>7. r[k] = row
  <2>1. {i \in S \union {p} : AssetOf(ds, data[i]) = k} = On(k) \union {p}
    OBVIOUS
  <2>2. r[k] = Row(k, {i \in S \union {p} : AssetOf(ds, data[i]) = k})
    BY DEF AssetsAfter
  <2> QED
    BY <1>5, <2>1, <2>2
<1>8. ASSUME NEW x \in D, x # k PROVE r[x] = a[x]
  <2>1. {i \in S \union {p} : AssetOf(ds, data[i]) = x} = On(x)
    BY <1>8
  <2>2. x \in {AssetOf(ds, data[i]) : i \in S \union {p}} <=> On(x) # {}
    BY <1>8
  <2>3. r[x] = IF On(x) # {} THEN Row(x, On(x)) ELSE t[x]
    BY <1>8, <2>1, <2>2 DEF AssetsAfter
  <2> QED
    BY <1>2, <2>3
<1> HIDE DEF r, a, E, D, k, row
<1>9. r = Put(a, k, row)
  BY <1>1, <1>3, <1>6, <1>7, <1>8 DEF Put
<1> QED
  BY <1>9 DEF r, a, k, row

LEMMA RawAfterOneMore ==
    ASSUME NEW t, NEW n, NEW ds, NEW data, NEW S \in SUBSET Nat,
           NEW p \in Nat, \A i \in S : i < p
    PROVE  LET a == RawAfter(t, n, ds, data, S)  k == RawOf(ds, data[p]) IN
           RawAfter(t, n, ds, data, S \union {p}) =
               Put(a, k, [run |-> IF k \in DOMAIN a THEN a[k].run ELSE n,
                          first_seen |-> FirstSeen(a, k, data[p].at),
                          last_seen |-> data[p].at])
<1> DEFINE a == RawAfter(t, n, ds, data, S)
           k == RawOf(ds, data[p])
           row == [run |-> IF k \in DOMAIN a THEN a[k].run ELSE n,
                   first_seen |-> FirstSeen(a, k, data[p].at),
                   last_seen |-> data[p].at]
           D == DOMAIN t \union {RawOf(ds, data[i]) : i \in S}
           E == DOMAIN t \union {RawOf(ds, data[i]) : i \in S \union {p}}
           On(x) == {i \in S : RawOf(ds, data[i]) = x}
           Row(x, T) == [run |-> IF x \in DOMAIN t THEN t[x].run ELSE n,
                         first_seen |-> IF x \in DOMAIN t THEN t[x].first_seen
                                        ELSE data[Least(T)].at,
                         last_seen |-> data[Greatest(T)].at]
<1>1. E = D \union {k}
  OBVIOUS
<1>2. ASSUME NEW x \in D
      PROVE  a[x] = IF On(x) # {} THEN Row(x, On(x)) ELSE t[x]
  <2>1. x \in {RawOf(ds, data[i]) : i \in S} <=> On(x) # {}
    OBVIOUS
  <2> QED
    BY <2>1 DEF RawAfter
<1>3. DOMAIN a = D
  BY DEF RawAfter
<1>4. On(k) \in SUBSET Nat /\ \A i \in On(k) : i < p
  OBVIOUS
<1>5. row = Row(k, On(k) \union {p})
  <2>1. CASE On(k) # {}
    <3>1. k \in D
      BY <2>1
    <3> HIDE DEF On, a, D, k
    <3>2. a[k] = Row(k, On(k))
      BY <1>2, <2>1, <3>1
    <3> QED
      BY <1>3, <1>4, <2>1, <3>1, <3>2, OneMore DEF FirstSeen
  <2>2. CASE On(k) = {}
    <3>1. k \in D <=> k \in DOMAIN t
      BY <2>2
    <3>2. k \in D => a[k] = t[k]
      BY <1>2, <2>2
    <3> HIDE DEF On, a, D, k
    <3> QED
      BY <1>3, <1>4, <2>2, <3>1, <3>2, OneMore DEF FirstSeen
  <2> QED
    BY <2>1, <2>2
<1> DEFINE r == RawAfter(t, n, ds, data, S \union {p})
<1>6. DOMAIN r = E /\ r = [x \in E |-> r[x]]
  BY DEF RawAfter
<1>7. r[k] = row
  <2>1. {i \in S \union {p} : RawOf(ds, data[i]) = k} = On(k) \union {p}
    OBVIOUS
  <2>2. r[k] = Row(k, {i \in S \union {p} : RawOf(ds, data[i]) = k})
    BY DEF RawAfter
  <2> QED
    BY <1>5, <2>1, <2>2
<1>8. ASSUME NEW x \in D, x # k PROVE r[x] = a[x]
  <2>1. {i \in S \union {p} : RawOf(ds, data[i]) = x} = On(x)
    BY <1>8
  <2>2. x \in {RawOf(ds, data[i]) : i \in S \union {p}} <=> On(x) # {}
    BY <1>8
  <2>3. r[x] = IF On(x) # {} THEN Row(x, On(x)) ELSE t[x]
    BY <1>8, <2>1, <2>2 DEF RawAfter
  <2> QED
    BY <1>2, <2>3
<1> HIDE DEF r, a, E, D, k, row
<1>9. r = Put(a, k, row)
  BY <1>1, <1>3, <1>6, <1>7, <1>8 DEF Put
<1> QED
  BY <1>9 DEF r, a, k, row

LEMMA RelationshipsAfterOneMore ==
    ASSUME NEW t, NEW n, NEW ds, NEW data, NEW S \in SUBSET Nat,
           NEW p \in Nat, \A i \in S : i < p
    PROVE  LET a == RelationshipsAfter(t, n, ds, data, S)
               k == RelationshipOf(ds, data[p]) IN
           RelationshipsAfter(t, n, ds, data, S \union {p}) =
               Put(a, k, [run |-> n,
                          first_seen |-> FirstSeen(a, k, data[p].at),
                          last_seen |-> data[p].at])
<1> DEFINE a == RelationshipsAfter(t, n, ds, data, S)
           k == RelationshipOf(ds, data[p])
           row == [run |-> n,
                   first_seen |-> FirstSeen(a, k, data[p].at),
                   last_seen |-> data[p].at]
           D == DOMAIN t \union {RelationshipOf(ds, data[i]) : i \in S}
           E == DOMAIN t \union {RelationshipOf(ds, data[i]) : i \in S \union {p}}
           On(x) == {i \in S : RelationshipOf(ds, data[i]) = x}
           Row(x, T) == [run |-> n,
                         first_seen |-> IF x \in DOMAIN t THEN t[x].first_seen
                                        ELSE data[Least(T)].at,
                         last_seen |-> data[Greatest(T)].at]
<1>1. E = D \union {k}
  OBVIOUS
<1>2. ASSUME NEW x \in D
      PROVE  a[x] = IF On(x) # {} THEN Row(x, On(x)) ELSE t[x]
  <2>1. x \in {RelationshipOf(ds, data[i]) : i \in S} <=> On(x) # {}
    OBVIOUS
  <2> QED
    BY <2>1 DEF RelationshipsAfter
<1>3. DOMAIN a = D
  BY DEF RelationshipsAfter
<1>4. On(k) \in SUBSET Nat /\ \A i \in On(k) : i < p
  OBVIOUS
<1>5. row = Row(k, On(k) \union {p})
  <2>1. CASE On(k) # {}
    <3>1. k \in D
      BY <2>1
    <3> HIDE DEF On, a, D, k
    <3>2. a[k] = Row(k, On(k))
      BY <1>2, <2>1, <3>1
    <3> QED
      BY <1>3, <1>4, <2>1, <3>1, <3>2, OneMore DEF FirstSeen
  <2>2. CASE On(k) = {}
    <3>1. k \in D <=> k \in DOMAIN t
      BY <2>2
    <3>2. k \in D => a[k] = t[k]
      BY <1>2, <2>2
    <3> HIDE DEF On, a, D, k
    <3> QED
      BY <1>3, <1>4, <2>2, <3>1, <3>2, OneMore DEF FirstSeen
  <2> QED
    BY <2>1, <2>2
<1> DEFINE r == RelationshipsAfter(t, n, ds, data, S \union {p})
<1>6. DOMAIN r = E /\ r = [x \in E |-> r[x]]
  BY DEF RelationshipsAfter
<1>7. r[k] = row
  <2>1. {i \in S \union {p} : RelationshipOf(ds, data[i]) = k} = On(k) \union {p}
    OBVIOUS
  <2>2. r[k] = Row(k, {i \in S \union {p} : RelationshipOf(ds, data[i]) = k})
    BY DEF RelationshipsAfter
  <2> QED
    BY <1>5, <2>1, <2>2
<1>8. ASSUME NEW x \in D, x # k PROVE r[x] = a[x]
  <2>1. {i \in S \union {p} : RelationshipOf(ds, data[i]) = x} = On(x)
    BY <1>8
  <2>2. x \in {RelationshipOf(ds, data[i]) : i \in S \union {p}} <=> On(x) # {}
    BY <1>8
  <2>3. r[x] = IF On(x) # {} THEN Row(x, On(x)) ELSE t[x]
    BY <1>8, <2>1, <2>2 DEF RelationshipsAfter
  <2> QED
    BY <1>2, <2>3
<1> HIDE DEF r, a, E, D, k, row
<1>9. r = Put(a, k, row)
  BY <1>1, <1>3, <1>6, <1>7, <1>8 DEF Put
<1> QED
  BY <1>9 DEF r, a, k, row

(* The same elements, found in data or in what dedup kept of it.           *)
LEMMA AssetsAfterImage ==
    ASSUME NEW t, NEW ds, NEW data, NEW o, NEW m \in Nat, NEW f, Increasing(f, m),
           \A i \in 1..m : f[i] \in Nat /\ o[i] = data[f[i]], NEW S \in SUBSET (1..m)
    PROVE  AssetsAfter(t, ds, o, S) = AssetsAfter(t, ds, data, ImageOf(f, S))
<1> DEFINE U == {f[i] : i \in S}
           D == DOMAIN t \union {AssetOf(ds, o[i]) : i \in S}
           On(x) == {i \in S : AssetOf(ds, o[i]) = x}
           Up(x) == {j \in U : AssetOf(ds, data[j]) = x}
           a == AssetsAfter(t, ds, o, S)
           b == AssetsAfter(t, ds, data, U)
<1>1. {AssetOf(ds, o[i]) : i \in S} = {AssetOf(ds, data[j]) : j \in U}
  <2>1. \A i \in S : AssetOf(ds, o[i]) = AssetOf(ds, data[f[i]])
    OBVIOUS
  <2> QED
    BY <2>1
<1>2. /\ DOMAIN a = D /\ a = [x \in D |-> a[x]]
      /\ DOMAIN b = D /\ b = [x \in D |-> b[x]]
  BY <1>1 DEF AssetsAfter
<1>3. ASSUME NEW x \in D PROVE a[x] = b[x]
  <2>1. Up(x) = {f[i] : i \in On(x)}
    OBVIOUS
  <2>2. CASE On(x) = {}
    <3>1. x \notin {AssetOf(ds, o[i]) : i \in S}
      BY <2>2
    <3>2. a[x] = t[x]
      BY <3>1 DEF AssetsAfter
    <3>3. b[x] = t[x]
      BY <1>1, <3>1 DEF AssetsAfter
    <3> QED
      BY <3>2, <3>3
  <2>3. CASE On(x) # {}
    <3>1. x \in {AssetOf(ds, o[i]) : i \in S}
      BY <2>3
    <3>2. On(x) \in SUBSET (1..m)
      OBVIOUS
    <3> DEFINE T == On(x)  V == Up(x)
               Row(d, g, l) ==
                   [meta |-> d[g].hash,
                    first_seen |-> IF x \in DOMAIN t THEN t[x].first_seen ELSE d[l].at,
                    last_seen |-> d[g].at]
    <3>3. a[x] = Row(o, Greatest(T), Least(T))
      BY <3>1 DEF AssetsAfter
    <3>4. b[x] = Row(data, Greatest(V), Least(V))
      BY <1>1, <3>1 DEF AssetsAfter
    <3>5. /\ Greatest(V) = f[Greatest(T)] /\ Greatest(T) \in 1..m
          /\ Least(V) = f[Least(T)] /\ Least(T) \in 1..m
      <4> HIDE DEF On, Up
      <4> QED
        BY SMTT(30), <2>1, <2>3, <3>2, ImageEnds
    <3> HIDE DEF T, V, a, b
    <3>6. o[Greatest(T)] = data[Greatest(V)] /\ o[Least(T)] = data[Least(V)]
      BY <3>5
    <3> QED
      BY <3>3, <3>4, <3>6
  <2> QED
    BY <2>2, <2>3
<1> HIDE DEF a, b, D
<1>4. a = b
  BY <1>2, <1>3
<1> QED
  BY <1>4 DEF a, b, ImageOf

LEMMA RawAfterImage ==
    ASSUME NEW t, NEW n, NEW ds, NEW data, NEW o, NEW m \in Nat, NEW f, Increasing(f, m),
           \A i \in 1..m : f[i] \in Nat /\ o[i] = data[f[i]], NEW S \in SUBSET (1..m)
    PROVE  RawAfter(t, n, ds, o, S) = RawAfter(t, n, ds, data, ImageOf(f, S))
<1> DEFINE U == {f[i] : i \in S}
           D == DOMAIN t \union {RawOf(ds, o[i]) : i \in S}
           On(x) == {i \in S : RawOf(ds, o[i]) = x}
           Up(x) == {j \in U : RawOf(ds, data[j]) = x}
           a == RawAfter(t, n, ds, o, S)
           b == RawAfter(t, n, ds, data, U)
<1>1. {RawOf(ds, o[i]) : i \in S} = {RawOf(ds, data[j]) : j \in U}
  <2>1. \A i \in S : RawOf(ds, o[i]) = RawOf(ds, data[f[i]])
    OBVIOUS
  <2> QED
    BY <2>1
<1>2. /\ DOMAIN a = D /\ a = [x \in D |-> a[x]]
      /\ DOMAIN b = D /\ b = [x \in D |-> b[x]]
  BY <1>1 DEF RawAfter
<1>3. ASSUME NEW x \in D PROVE a[x] = b[x]
  <2>1. Up(x) = {f[i] : i \in On(x)}
    OBVIOUS
  <2>2. CASE On(x) = {}
    <3>1. x \notin {RawOf(ds, o[i]) : i \in S}
      BY <2>2
    <3>2. a[x] = t[x]
      BY <3>1 DEF RawAfter
    <3>3. b[x] = t[x]
      BY <1>1, <3>1 DEF RawAfter
    <3> QED
      BY <3>2, <3>3
  <2>3. CASE On(x) # {}
    <3>1. x \in {RawOf(ds, o[i]) : i \in S}
      BY <2>3
    <3>2. On(x) \in SUBSET (1..m)
      OBVIOUS
    <3> DEFINE T == On(x)  V == Up(x)
               Row(d, g, l) ==
                   [run |-> IF x \in DOMAIN t THEN t[x].run ELSE n,
                    first_seen |-> IF x \in DOMAIN t THEN t[x].first_seen ELSE d[l].at,
                    last_seen |-> d[g].at]
    <3>3. a[x] = Row(o, Greatest(T), Least(T))
      BY <3>1 DEF RawAfter
    <3>4. b[x] = Row(data, Greatest(V), Least(V))
      BY <1>1, <3>1 DEF RawAfter
    <3>5. /\ Greatest(V) = f[Greatest(T)] /\ Greatest(T) \in 1..m
          /\ Least(V) = f[Least(T)] /\ Least(T) \in 1..m
      <4> HIDE DEF On, Up
      <4> QED
        BY SMTT(30), <2>1, <2>3, <3>2, ImageEnds
    <3> HIDE DEF T, V, a, b
    <3>6. o[Greatest(T)] = data[Greatest(V)] /\ o[Least(T)] = data[Least(V)]
      BY <3>5
    <3> QED
      BY <3>3, <3>4, <3>6
  <2> QED
    BY <2>2, <2>3
<1> HIDE DEF a, b, D
<1>4. a = b
  BY <1>2, <1>3
<1> QED
  BY <1>4 DEF a, b, ImageOf

LEMMA RelationshipsAfterImage ==
    ASSUME NEW t, NEW n, NEW ds, NEW data, NEW o, NEW m \in Nat, NEW f, Increasing(f, m),
           \A i \in 1..m : f[i] \in Nat /\ o[i] = data[f[i]], NEW S \in SUBSET (1..m)
    PROVE  RelationshipsAfter(t, n, ds, o, S) =
               RelationshipsAfter(t, n, ds, data, ImageOf(f, S))
<1> DEFINE U == {f[i] : i \in S}
           D == DOMAIN t \union {RelationshipOf(ds, o[i]) : i \in S}
           On(x) == {i \in S : RelationshipOf(ds, o[i]) = x}
           Up(x) == {j \in U : RelationshipOf(ds, data[j]) = x}
           a == RelationshipsAfter(t, n, ds, o, S)
           b == RelationshipsAfter(t, n, ds, data, U)
<1>1. {RelationshipOf(ds, o[i]) : i \in S} = {RelationshipOf(ds, data[j]) : j \in U}
  <2>1. \A i \in S : RelationshipOf(ds, o[i]) = RelationshipOf(ds, data[f[i]])
    OBVIOUS
  <2> QED
    BY <2>1
<1>2. /\ DOMAIN a = D /\ a = [x \in D |-> a[x]]
      /\ DOMAIN b = D /\ b = [x \in D |-> b[x]]
  BY <1>1 DEF RelationshipsAfter
<1>3. ASSUME NEW x \in D PROVE a[x] = b[x]
  <2>1. Up(x) = {f[i] : i \in On(x)}
    OBVIOUS
  <2>2. CASE On(x) = {}
    <3>1. x \notin {RelationshipOf(ds, o[i]) : i \in S}
      BY <2>2
    <3>2. a[x] = t[x]
      BY <3>1 DEF RelationshipsAfter
    <3>3. b[x] = t[x]
      BY <1>1, <3>1 DEF RelationshipsAfter
    <3> QED
      BY <3>2, <3>3
  <2>3. CASE On(x) # {}
    <3>1. x \in {RelationshipOf(ds, o[i]) : i \in S}
      BY <2>3
    <3>2. On(x) \in SUBSET (1..m)
      OBVIOUS
    <3> DEFINE T == On(x)  V == Up(x)
               Row(d, g, l) ==
                   [run |-> n,
                    first_seen |-> IF x \in DOMAIN t THEN t[x].first_seen ELSE d[l].at,
                    last_seen |-> d[g].at]
    <3>3. a[x] = Row(o, Greatest(T), Least(T))
      BY <3>1 DEF RelationshipsAfter
    <3>4. b[x] = Row(data, Greatest(V), Least(V))
      BY <1>1, <3>1 DEF RelationshipsAfter
    <3>5. /\ Greatest(V) = f[Greatest(T)] /\ Greatest(T) \in 1..m
          /\ Least(V) = f[Least(T)] /\ Least(T) \in 1..m
      <4> HIDE DEF On, Up
      <4> QED
        BY SMTT(30), <2>1, <2>3, <3>2, ImageEnds
    <3> HIDE DEF T, V, a, b
    <3>6. o[Greatest(T)] = data[Greatest(V)] /\ o[Least(T)] = data[Least(V)]
      BY <3>5
    <3> QED
      BY <3>3, <3>4, <3>6
  <2> QED
    BY <2>2, <2>3
<1> HIDE DEF a, b, D
<1>4. a = b
  BY <1>2, <1>3
<1> QED
  BY <1>4 DEF a, b, ImageOf
-----------------------------------------------------------------------------
(* The atomic specification writes with the same operators.                *)
LEMMA Same ==
    /\ \A t, k, row : Atomic!Put(t, k, row) = Put(t, k, row)
    /\ \A t, k, at : Atomic!FirstSeen(t, k, at) = FirstSeen(t, k, at)
    /\ \A e : Atomic!IsRelationship(e) = IsRelationship(e)
    /\ \A S : Atomic!Cardinality(S) = Cardinality(S)
    /\ Atomic!EmptyCatalog = EmptyCatalog
  BY DEF Atomic!Put, Put, Atomic!FirstSeen, FirstSeen, Atomic!IsRelationship,
         IsRelationship, Atomic!Cardinality, Cardinality, Atomic!EmptyCatalog, EmptyCatalog,
         Atomic!EmptyTable, EmptyTable

LEMMA SameItems == \A e, f : Atomic!Item(e, f) <=> SameItem(e, f)
  BY Same DEF Atomic!Item, SameItem

LEMMA KeptIs ==
    ASSUME NEW data
    PROVE  Kept(data) = {i \in DOMAIN data :
               /\ data[i] # NilElement
               /\ \A j \in 1..(i - 1) :
                     data[j] # NilElement => ~SameItem(data[j], data[i])}
  BY SameItems DEF Kept, Atomic!Kept

KeptRelations(data) == {i \in Kept(data) : IsRelationship(data[i])}

LEMMA EffectIsRecord ==
    ASSUME NEW c, NEW n, NEW b
    PROVE  Atomic!Effect(c, n, b) = [t \in Tables |-> Atomic!Effect(c, n, b)[t]]
  BY DEF Atomic!Effect, Tables

(* What a batch leaves in the catalog, table by table.                     *)
LEMMA EffectOnSources ==
    ASSUME NEW c, NEW n, NEW b
    PROVE  Atomic!Effect(c, n, b).data_sources = Put(c.data_sources, b.ds,
               [first_seen |-> FirstSeen(c.data_sources, b.ds, b.at), last_seen |-> b.at])
  BY Same DEF Atomic!Effect

LEMMA EffectOnRuns ==
    ASSUME NEW c, NEW n, NEW b
    PROVE  Atomic!Effect(c, n, b).crawl_runs = Put(c.crawl_runs, n,
               [ds |-> b.ds, element_count |-> Cardinality(Kept(b.data)),
                relationship_count |-> Cardinality(KeptRelations(b.data))])
<1>1. {i \in Kept(b.data) : Atomic!IsRelationship(b.data[i])} = KeptRelations(b.data)
  BY Same DEF KeptRelations
<1> QED
  BY <1>1, Same DEF Atomic!Effect, Kept

LEMMA EffectOnAssets ==
    ASSUME NEW c, NEW n, NEW b
    PROVE  Atomic!Effect(c, n, b).assets =
               AssetsAfter(c.assets, b.ds, b.data, Kept(b.data))
  BY DEF Atomic!Effect, Atomic!Written, AssetsAfter, Least, Greatest, Atomic!AssetOf,
         AssetOf, Kept

LEMMA EffectOnRaw ==
    ASSUME NEW c, NEW n, NEW b
    PROVE  Atomic!Effect(c, n, b).raw_assets =
               RawAfter(c.raw_assets, n, b.ds, b.data, Kept(b.data))
  BY DEF Atomic!Effect, Atomic!Written, RawAfter, Least, Greatest, Atomic!AssetOf,
         AssetOf, Atomic!RawOf, RawOf, Kept

LEMMA EffectOnRelationships ==
    ASSUME NEW c, NEW n, NEW b
    PROVE  Atomic!Effect(c, n, b).relationships =
               RelationshipsAfter(c.relationships, n, b.ds, b.data, KeptRelations(b.data))
  BY DEF Atomic!Effect, Atomic!Written, RelationshipsAfter, Least, Greatest, Kept,
         Atomic!RelationshipOf, RelationshipOf, KeptRelations, Atomic!IsRelationship,
         IsRelationship
-----------------------------------------------------------------------------
(* One more element through dedup.                                         *)
LEMMA SameTrans ==
    ASSUME NEW e, NEW f, NEW g, SameItem(e, f), SameItem(f, g)
    PROVE  SameItem(e, g)
  BY DEF SameItem

LEMMA DedupStart ==
    ASSUME NEW data \in Seq(Element \union {NilElement})
    PROVE  Deduplicated(<<>>, data, 0)
<1>1. Len(<<>>) = 0 /\ \A j \in Kept(data) : ~(j <= 0)
  BY KeptIs
<1>2. Picks(<<>>, <<>>, data, 0)
  BY <1>1 DEF Picks, Increasing
<1> QED
  BY <1>2 DEF Deduplicated

LEMMA DedupSkips ==
    ASSUME NEW o, NEW data \in Seq(Element \union {NilElement}), NEW p \in Nat \ {0},
           Deduplicated(o, data, p - 1),
           data[p] = NilElement \/ \E i \in 1..Len(o) : SameItem(o[i], data[p])
    PROVE  Deduplicated(o, data, p)
<1>1. PICK f : Picks(f, o, data, p - 1)
  BY DEF Deduplicated
<1>2. p \notin Kept(data)
  <2>1. CASE data[p] = NilElement
    BY <2>1, KeptIs
  <2>2. CASE \E i \in 1..Len(o) : SameItem(o[i], data[p])
    <3>1. PICK i \in 1..Len(o) : SameItem(o[i], data[p])
      BY <2>2
    <3>2. f[i] \in 1..(p - 1) /\ f[i] \in Kept(data) /\ o[i] = data[f[i]]
      BY <1>1 DEF Picks
    <3>3. data[f[i]] # NilElement
      BY <3>2, KeptIs
    <3> QED
      BY <3>1, <3>2, <3>3, KeptIs
  <2> QED
    BY <2>1, <2>2
<1>3. \A j \in Kept(data) : j <= p => j <= p - 1
  <2>1. \A j \in Kept(data) : j # p /\ j \in Nat
    BY <1>2, KeptIs
  <2> QED
    BY <2>1
<1>4. Picks(f, o, data, p)
  BY <1>1, <1>3 DEF Picks
<1>5. \A j \in 1..p : j = p \/ j \in 1..(p - 1)
  OBVIOUS
<1> QED
  BY <1>4, <1>5 DEF Deduplicated

LEMMA DedupKeeps ==
    ASSUME NEW o \in Seq(Element), NEW data \in Seq(Element \union {NilElement}),
           NEW p \in DOMAIN data, Deduplicated(o, data, p - 1),
           data[p] # NilElement, ~\E i \in 1..Len(o) : SameItem(o[i], data[p])
    PROVE  Deduplicated(Append(o, data[p]), data, p)
<1>1. PICK f : Picks(f, o, data, p - 1)
  BY DEF Deduplicated
<1> DEFINE q == Append(o, data[p])
           n == Len(o)
           g == [i \in 1..(n + 1) |-> IF i = n + 1 THEN p ELSE f[i]]
<1>2. /\ n \in Nat /\ Len(q) = n + 1 /\ q[n + 1] = data[p]
      /\ \A i \in 1..n : q[i] = o[i]
  <2>1. data[p] \in Element
    OBVIOUS
  <2> QED
    BY <2>1
<1>3. p \in Nat \ {0}
  OBVIOUS
<1>4. p \in Kept(data)
  <2>1. ASSUME NEW j \in 1..(p - 1), data[j] # NilElement, SameItem(data[j], data[p])
        PROVE  FALSE
    <3>1. PICK i \in 1..n : SameItem(o[i], data[j])
      BY <2>1 DEF Deduplicated
    <3> QED
      BY <2>1, <3>1, SameTrans
  <2> QED
    BY <2>1, KeptIs
<1>5. /\ g[n + 1] = p /\ \A i \in 1..n : g[i] = f[i]
      /\ \A i \in 1..(n + 1) : i = n + 1 \/ i \in 1..n
  BY <1>2
<1>6. \A i \in 1..n : f[i] \in 1..(p - 1) /\ f[i] \in Kept(data) /\ o[i] = data[f[i]]
  BY <1>1 DEF Picks
<1> HIDE DEF q, g, n
<1>7. \A i \in 1..(n + 1) : g[i] \in 1..p /\ g[i] \in Kept(data) /\ q[i] = data[g[i]]
  BY <1>2, <1>3, <1>4, <1>5, <1>6
<1>8. Increasing(g, n + 1)
  <2> SUFFICES ASSUME NEW i \in 1..(n + 1), NEW j \in 1..(n + 1), i < j
               PROVE  g[i] < g[j]
    BY DEF Increasing
  <2>1. i \in 1..n
    BY <1>2
  <2>2. CASE j = n + 1
    BY <1>3, <1>5, <1>6, <2>1, <2>2
  <2>3. CASE j \in 1..n
    BY <1>1, <1>5, <2>1, <2>3 DEF Picks, Increasing, n
  <2> QED
    BY <1>5, <2>2, <2>3
<1>9. ASSUME NEW j \in Kept(data), j <= p PROVE \E i \in 1..(n + 1) : g[i] = j
  <2>1. CASE j = p
    BY <1>2, <1>5, <2>1
  <2>2. CASE j # p
    <3>1. j \in Nat
      BY KeptIs
    <3>2. j <= p - 1
      BY <1>3, <1>9, <2>2, <3>1
    <3>3. PICK i \in 1..n : f[i] = j
      BY <1>1, <3>2 DEF Picks, n
    <3>4. i \in 1..(n + 1) /\ g[i] = j
      BY <1>2, <1>5, <3>3
    <3> QED
      BY <3>4
  <2> QED
    BY <2>1, <2>2
<1>10. Picks(g, q, data, p)
  BY <1>2, <1>7, <1>8, <1>9 DEF Picks
<1>11. ASSUME NEW j \in 1..p, data[j] # NilElement
       PROVE  \E i \in 1..(n + 1) : SameItem(q[i], data[j])
  <2>1. CASE j = p
    <3>1. SameItem(q[n + 1], data[p])
      BY <1>2 DEF SameItem
    <3> QED
      BY <1>2, <2>1, <3>1
  <2>2. CASE j # p
    <3>1. j \in 1..(p - 1)
      BY <1>3, <2>2
    <3>2. PICK i \in 1..n : SameItem(o[i], data[j])
      BY <1>11, <3>1 DEF Deduplicated, n
    <3>3. i \in 1..(n + 1) /\ q[i] = o[i]
      BY <1>2
    <3> QED
      BY <3>2, <3>3
  <2> QED
    BY <2>1, <2>2
<1> QED
  BY <1>2, <1>10, <1>11 DEF Deduplicated, q

(* What dedup leaves is as many elements as are kept, in all and of those  *)
(* that are relationships; each table has the same rows from either.       *)
LEMMA Counted ==
    ASSUME NEW o \in Seq(Element), NEW data \in Seq(Element \union {NilElement}),
           NEW f, Picks(f, o, data, Len(data))
    PROVE  /\ Cardinality(Kept(data)) = Len(o)
           /\ Cardinality(KeptRelations(data)) =
                 Cardinality(Relations(o, Len(o)))
           /\ ImageOf(f, 1..Len(o)) = Kept(data)
           /\ ImageOf(f, Relations(o, Len(o))) = KeptRelations(data)
<1> DEFINE n == Len(o)
           R == Relations(o, n)
           g == [i \in 1..n |-> f[i]]
           h == [i \in R |-> f[i]]
<1>1. /\ n \in Nat /\ DOMAIN o = 1..n
      /\ \A i \in 1..n : f[i] \in Nat /\ f[i] \in Kept(data) /\ o[i] = data[f[i]]
      /\ Increasing(f, n)
  BY DEF Picks
<1>2. \A j \in Kept(data) : \E i \in 1..n : f[i] = j
  <2>1. \A j \in Kept(data) : j <= Len(data)
    BY KeptIs
  <2> QED
    BY <2>1 DEF Picks
<1>3. \A i, j \in 1..n : f[i] = f[j] => i = j
  <2> SUFFICES ASSUME NEW i \in 1..n, NEW j \in 1..n, i # j PROVE f[i] # f[j]
    OBVIOUS
  <2>1. i < j \/ j < i
    OBVIOUS
  <2> QED
    BY <1>1, <2>1 DEF Increasing
<1>4. /\ R \subseteq 1..n
      /\ \A i \in 1..n : f[i] \in KeptRelations(data) <=> i \in R
  BY <1>1 DEF KeptRelations, Relations
<1> HIDE DEF n, R
<1>5. ImageOf(f, 1..n) = Kept(data)
  BY <1>1, <1>2 DEF ImageOf
<1>6. ImageOf(f, R) = KeptRelations(data)
  BY <1>1, <1>2, <1>4 DEF KeptRelations, ImageOf
<1>7. g \in Bijection(1..n, Kept(data))
  BY <1>1, <1>2, <1>3 DEF Bijection, Injection, Surjection, IsInjective
<1>8. h \in Bijection(R, KeptRelations(data))
  BY <1>2, <1>3, <1>4 DEF Bijection, Injection, Surjection, IsInjective, KeptRelations
<1>9. Cardinality(Kept(data)) = n
  BY <1>1, <1>7, FS_CountingElements DEF ExistsBijection
<1>10. Cardinality(KeptRelations(data)) = Cardinality(R)
  <2>1. IsFiniteSet(1..n)
    BY <1>1, FS_Interval
  <2>2. IsFiniteSet(R)
    BY <1>4, <2>1, FS_Subset
  <2> QED
    BY <1>8, <2>2, FS_Bijection DEF ExistsBijection
<1> QED
  BY <1>1, <1>5, <1>6, <1>9, <1>10 DEF n, R
-----------------------------------------------------------------------------
(* The catalogs are records of tables; each statement leaves such a record *)
(* and writes one element more into its table.                             *)
LEMMA IsCatalogTables == ASSUME NEW c, IsCatalog(c) PROVE DOMAIN c = Tables
  BY DEF IsCatalog

LEMMA EmptyIsCatalog == IsCatalog(EmptyCatalog)
  BY DEF IsCatalog, EmptyCatalog, EmptyTable, Tables

LEMMA PutIsFunction ==
    ASSUME NEW t, NEW k, NEW row
    PROVE  Put(t, k, row) = [x \in DOMAIN Put(t, k, row) |-> Put(t, k, row)[x]]
  BY DEF Put

LEMMA StatementsAreCatalogs ==
    ASSUME NEW c, IsCatalog(c), NEW n, NEW ds, NEW at, NEW e, NEW elems
    PROVE  /\ IsCatalog(UpsertSource(c, ds, at))
           /\ IsCatalog(InsertRun(c, n, ds, elems))
           /\ IsCatalog(UpsertAsset(c, ds, e))
           /\ IsCatalog(UpsertRaw(c, n, ds, e))
           /\ IsCatalog(UpsertRelation(c, n, ds, e))
<1>1. ASSUME NEW x \in Tables, NEW k, NEW row, NEW u, u = [c EXCEPT ![x] = Put(@, k, row)]
      PROVE  IsCatalog(u)
  <2>1. DOMAIN c = Tables
    BY IsCatalogTables
  <2>2. u = [y \in Tables |-> IF y = x THEN Put(c[x], k, row) ELSE c[y]]
    BY <1>1, <2>1
  <2>3. u[x] = Put(c[x], k, row) /\ \A y \in Tables : y # x => u[y] = c[y]
    BY <2>2
  <2>4. u[x] = [k2 \in DOMAIN u[x] |-> u[x][k2]]
    BY <2>3, PutIsFunction
  <2> QED
    BY <2>2, <2>3, <2>4 DEF IsCatalog
<1>2. IsCatalog(UpsertSource(c, ds, at))
  BY <1>1 DEF UpsertSource, Tables
<1>3. IsCatalog(InsertRun(c, n, ds, elems))
  BY <1>1 DEF InsertRun, Tables
<1>4. IsCatalog(UpsertAsset(c, ds, e))
  BY <1>1 DEF UpsertAsset, Tables
<1>5. IsCatalog(UpsertRaw(c, n, ds, e))
  BY <1>1 DEF UpsertRaw, Tables
<1>6. IsCatalog(UpsertRelation(c, n, ds, e))
  BY <1>1 DEF UpsertRelation, Tables
<1> QED
  BY <1>2, <1>3, <1>4, <1>5, <1>6

LEMMA NothingAfter ==
    ASSUME NEW t, t = [k \in DOMAIN t |-> t[k]], NEW n, NEW ds, NEW data
    PROVE  /\ AssetsAfter(t, ds, data, {}) = t
           /\ RawAfter(t, n, ds, data, {}) = t
           /\ RelationshipsAfter(t, n, ds, data, {}) = t
<1>1. AssetsAfter(t, ds, data, {}) = t
  BY DEF AssetsAfter
<1>2. RawAfter(t, n, ds, data, {}) = t
  BY DEF RawAfter
<1>3. RelationshipsAfter(t, n, ds, data, {}) = t
  BY DEF RelationshipsAfter
<1> QED
  BY <1>1, <1>2, <1>3

(* The indexes of the loop.                                                *)
LEMMA Upto ==
    ASSUME NEW p \in Nat \ {0}
    PROVE  /\ 1..(p - 1) \in SUBSET Nat /\ \A i \in 1..(p - 1) : i < p
           /\ 1..p = 1..(p - 1) \union {p}
           /\ Relations(out, p - 1) \in SUBSET Nat /\ \A i \in Relations(out, p - 1) : i < p
           /\ IsRelationship(out[p]) => Relations(out, p) = Relations(out, p - 1) \union {p}
           /\ ~IsRelationship(out[p]) => Relations(out, p) = Relations(out, p - 1)
<1>1. 1..(p - 1) \in SUBSET Nat /\ \A i \in 1..(p - 1) : i < p
  OBVIOUS
<1>2. 1..p = 1..(p - 1) \union {p}
  OBVIOUS
<1> QED
  BY <1>1, <1>2 DEF Relations
-----------------------------------------------------------------------------
LEMMA RefinedInit == Init => Refined
<1> SUFFICES ASSUME Init PROVE Refined
  OBVIOUS
<1>1. pc = "receive" /\ out = <<>> /\ pos = 1 /\ tx = EmptyCatalog /\ db = EmptyCatalog
  BY DEF Init
<1>2. Dedup /\ WorkingCopy
  BY <1>1 DEF Dedup, WorkingCopy, InTx, AfterRun
<1> QED
  BY <1>1, <1>2, IntegrityInit, EmptyIsCatalog DEF Refined

(* Each statement of the loop stores its element in its table.             *)
LEMMA AssetStored ==
    ASSUME Refined, StoreAsset PROVE Holds(pos, pos - 1, pos - 1)'
<1>1. /\ pc = "asset" /\ pos' = pos /\ out' = out /\ batch' = batch /\ run' = run
      /\ db' = db /\ tx' = UpsertAsset(tx, batch.ds, out[pos])
  BY DEF StoreAsset, Statement, batch, run
<1>2. DOMAIN tx = Tables /\ Holds(pos - 1, pos - 1, pos - 1) /\ pos \in Nat \ {0}
  BY <1>1, IsCatalogTables
  DEF Refined, WorkingCopy, Integrity, Typed, TypeOK
<1> DEFINE k == AssetOf(batch.ds, out[pos])
<1>3. /\ tx'.assets = Put(tx.assets, k,
             [meta |-> out[pos].hash, first_seen |-> FirstSeen(tx.assets, k, out[pos].at),
              last_seen |-> out[pos].at])
      /\ tx'.raw_assets = tx.raw_assets /\ tx'.relationships = tx.relationships
  BY <1>1, <1>2, UpsertAssetIs
<1>4. tx'.assets = AssetsAfter(db.assets, batch.ds, out, 1..pos)
  BY <1>2, <1>3, AssetsAfterOneMore, Upto DEF Holds
<1> QED
  BY <1>1, <1>2, <1>3, <1>4 DEF Holds, Relations

LEMMA RawStored ==
    ASSUME Refined, StoreRaw
    PROVE  /\ tx'.assets = AssetsAfter(db.assets, batch.ds, out, 1..pos)
           /\ tx'.raw_assets = RawAfter(db.raw_assets, run, batch.ds, out, 1..pos)
           /\ tx'.relationships = RelationshipsAfter(db.relationships, run, batch.ds, out,
                                                     Relations(out, pos - 1))
<1>1. pc = "raw" /\ tx' = UpsertRaw(tx, run, batch.ds, out[pos])
  BY DEF StoreRaw, Statement
<1>2. DOMAIN tx = Tables /\ Holds(pos, pos - 1, pos - 1) /\ pos \in Nat \ {0}
  BY <1>1, IsCatalogTables
  DEF Refined, WorkingCopy, Integrity, Typed, TypeOK
<1> DEFINE t == tx.raw_assets
           k == RawOf(batch.ds, out[pos])
<1>3. /\ tx'.raw_assets = Put(t, k,
             [run |-> IF k \in DOMAIN t THEN t[k].run ELSE run,
              first_seen |-> FirstSeen(t, k, out[pos].at), last_seen |-> out[pos].at])
      /\ tx'.assets = tx.assets /\ tx'.relationships = tx.relationships
  BY <1>1, <1>2, UpsertRawIs
<1>4. tx'.raw_assets = RawAfter(db.raw_assets, run, batch.ds, out, 1..pos)
  BY <1>2, <1>3, RawAfterOneMore, Upto DEF Holds
<1> QED
  BY <1>2, <1>3, <1>4 DEF Holds

LEMMA RelationshipStored ==
    ASSUME Refined, StoreRelationship
    PROVE  /\ tx'.assets = AssetsAfter(db.assets, batch.ds, out, 1..pos)
           /\ tx'.raw_assets = RawAfter(db.raw_assets, run, batch.ds, out, 1..pos)
           /\ tx'.relationships = RelationshipsAfter(db.relationships, run, batch.ds, out,
                                                     Relations(out, pos))
<1>1. pc = "relationship" /\ tx' = UpsertRelation(tx, run, batch.ds, out[pos])
  BY DEF StoreRelationship, Statement
<1>2. DOMAIN tx = Tables /\ Holds(pos, pos, pos - 1) /\ pos \in Nat \ {0}
      /\ IsRelationship(out[pos])
  BY <1>1, IsCatalogTables
  DEF Refined, WorkingCopy, Integrity, Typed, TypeOK, Control
<1> DEFINE t == tx.relationships
           k == RelationshipOf(batch.ds, out[pos])
<1>3. /\ tx'.relationships = Put(t, k,
             [run |-> run, first_seen |-> FirstSeen(t, k, out[pos].at),
              last_seen |-> out[pos].at])
      /\ tx'.assets = tx.assets /\ tx'.raw_assets = tx.raw_assets
  BY <1>1, <1>2, UpsertRelationIs
<1>4. tx'.relationships = RelationshipsAfter(db.relationships, run, batch.ds, out,
                                             Relations(out, pos))
  <2>1. /\ Relations(out, pos) = Relations(out, pos - 1) \union {pos}
        /\ Relations(out, pos - 1) \in SUBSET Nat /\ \A i \in Relations(out, pos - 1) : i < pos
    BY <1>2, Upto
  <2> HIDE DEF t, k
  <2> QED
    BY <1>2, <1>3, <2>1, RelationshipsAfterOneMore DEF Holds, t, k
<1> QED
  BY <1>2, <1>3, <1>4 DEF Holds

LEMMA DedupStep ==
    ASSUME Refined, DedupElement PROVE Dedup'
<1>1. /\ pc = "dedup" /\ pc' = "dedup" /\ pos' = pos + 1 /\ batch' = batch
      /\ pos <= Len(batch.data) /\ Deduplicated(out, batch.data, pos - 1)
  BY DEF DedupElement, Refined, Dedup, batch
<1>2. /\ batch.data \in Seq(Element \union {NilElement}) /\ out \in Seq(Element)
      /\ pos \in Nat \ {0} /\ DOMAIN out = 1..Len(out) /\ Len(batch.data) \in Nat
  BY <1>1, Current DEF Refined, Integrity, Typed, TypeOK
<1>3. pos \in DOMAIN batch.data /\ pos' - 1 = pos /\ pos' <= Len(batch.data) + 1
  BY <1>1, <1>2
<1>4. Deduplicated(out', batch.data, pos)
  <2>1. CASE batch.data[pos] = NilElement \/ Duplicate(batch.data[pos])
    <3>1. out' = out
      BY <2>1 DEF DedupElement
    <3> QED
      BY <1>1, <1>2, <2>1, <3>1, DedupSkips DEF Duplicate
  <2>2. CASE ~(batch.data[pos] = NilElement \/ Duplicate(batch.data[pos]))
    <3>1. out' = Append(out, batch.data[pos])
      BY <2>2 DEF DedupElement
    <3> QED
      BY <1>1, <1>2, <1>3, <2>2, <3>1, DedupKeeps DEF Duplicate
  <2> QED
    BY <2>1, <2>2
<1> QED
  BY <1>1, <1>3, <1>4 DEF Dedup, InTx
-----------------------------------------------------------------------------
LEMMA RefinedStep == Refined /\ [Next]_vars => Refined'
<1> SUFFICES ASSUME Refined, [Next]_vars PROVE Refined'
  OBVIOUS
<1> DEFINE Rest == IsCatalog(tx) /\ IsCatalog(db) /\ Dedup /\ WorkingCopy
<1>0. Integrity /\ Integrity' /\ Rest
  BY IntegrityStep DEF Refined
<1>t. /\ DOMAIN tx = Tables /\ out \in Seq(Element) /\ Len(out) \in Nat
      /\ pos \in Nat \ {0} /\ received \in Nat /\ DOMAIN out = 1..Len(out)
  BY <1>0, IsCatalogTables DEF Integrity, Typed, TypeOK
<1>p. pc \in {"asset", "raw", "relationship"} => pos \in 1..Len(out)
  BY <1>0 DEF Integrity, Typed, Control
<1>e. pos \in 1..Len(out) => LoopStep(pos + 1) \in {"asset", "commit"}
                          /\ (LoopStep(pos + 1) = "commit" => Len(out) = pos)
                          /\ (pos + 1) - 1 = pos
  BY <1>t, LoopEnds
<1>s. SUFFICES Rest'
  BY <1>0 DEF Refined
<1>1. ASSUME NEW b \in Batches, Send(b) PROVE Rest'
  <2>1. pc # "receive" => batch' = batch
    BY <1>0, <1>1 DEF Send, Integrity, Typed, TypeOK, Control, batch
  <2>2. pc \in InTx \union {"begin"} => pc # "receive"
    BY DEF InTx
  <2>3. UNCHANGED <<received, pc, out, pos, tx, db, run>>
    BY <1>1 DEF Send, run
  <2>4. Dedup'
    BY <1>0, <2>1, <2>2, <2>3 DEF Dedup
  <2>5. WorkingCopy'
    BY <1>0, <2>1, <2>2, <2>3 DEF WorkingCopy, Headed, Holds, Relations, InTx, AfterRun
  <2> QED
    BY <1>0, <2>3, <2>4, <2>5
<1>2. CASE Receive
  <2>1. /\ pc' \in {"receive", "dedup"} /\ out' = <<>> /\ pos' = 1
        /\ tx' = tx /\ db' = db
    BY <1>0, <1>2 DEF Receive, Dedup
  <2>2. pc' = "dedup" => batch'.data \in Seq(Element \union {NilElement})
    <3>1. pc' = "dedup" => received' \in 1..Len(sent') /\ sent' \in Seq(Batches)
      BY <1>0 DEF Integrity, Typed, TypeOK, Control
    <3> QED
      BY <3>1, IngestAssumption DEF batch, Batch
  <2>3. pc' = "dedup" => Deduplicated(out', batch'.data, pos' - 1)
                         /\ pos' <= Len(batch'.data) + 1
    <3> SUFFICES ASSUME pc' = "dedup"
                 PROVE  Deduplicated(<<>>, batch'.data, 0) /\ 1 <= Len(batch'.data) + 1
      BY <2>1
    <3> QED
      BY <2>2, DedupStart
  <2>4. Dedup' /\ WorkingCopy'
    BY <2>1, <2>3 DEF Dedup, WorkingCopy, InTx, AfterRun
  <2> QED
    BY <1>0, <2>1, <2>4
<1>3. CASE DedupElement
  <2>1. pc' = "dedup" /\ tx' = tx /\ db' = db
    BY <1>3 DEF DedupElement
  <2> QED
    BY <1>0, <1>3, <2>1, DedupStep DEF WorkingCopy, AfterRun
<1>4. CASE DedupDone
  <2>1. /\ pc = "dedup" /\ pc' = "begin" /\ batch' = batch /\ pos > Len(batch.data)
        /\ UNCHANGED <<out, tx, db>>
    BY <1>4 DEF DedupDone, batch
  <2>2. Len(batch.data) \in Nat
    BY <1>0, <2>1, Current DEF Integrity
  <2>3. pos - 1 = Len(batch.data)
    BY <1>0, <1>t, <2>1, <2>2 DEF Dedup
  <2> QED
    BY <1>0, <2>1, <2>3 DEF Dedup, WorkingCopy, InTx, AfterRun
<1>5. CASE Begin
  <2>1. /\ pc = "begin" /\ pc' = "source" /\ tx' = db
        /\ UNCHANGED <<sent, received, out, db>> /\ batch' = batch
    BY <1>5 DEF Begin, Statement, batch
  <2> QED
    BY <1>0, <2>1 DEF Dedup, WorkingCopy, InTx, AfterRun
<1>6. CASE UpsertDataSource
  <2>1. /\ pc = "source" /\ pc' = "run" /\ tx' = UpsertSource(tx, batch.ds, batch.at)
        /\ UNCHANGED <<out, db>> /\ batch' = batch
    BY <1>6 DEF UpsertDataSource, Statement, batch
  <2>2. IsCatalog(tx')
    BY <1>0, <2>1, StatementsAreCatalogs
  <2> QED
    BY <1>0, <2>1, <2>2 DEF Dedup, WorkingCopy, InTx, AfterRun
<1>7. CASE InsertCrawlRun
  <2>1. /\ pc = "run" /\ pc' = LoopStep(1) /\ pos' = 1
        /\ tx' = InsertRun(tx, run, batch.ds, out)
        /\ tx = UpsertSource(db, batch.ds, batch.at)
        /\ UNCHANGED <<out, db, run>> /\ batch' = batch
    BY <1>0, <1>7 DEF InsertCrawlRun, Statement, WorkingCopy, batch, run
  <2>2. IsCatalog(tx')
    BY <1>0, <2>1, StatementsAreCatalogs
  <2>3. pc' \in {"asset", "commit"} /\ (pc' = "commit" => Len(out) = 0)
    BY <1>t, <2>1 DEF LoopStep
  <2>4. Dedup'
    BY <1>0, <2>1, <2>3 DEF Dedup, InTx
  <2>5. DOMAIN db = Tables
    BY <1>0, IsCatalogTables
  <2>6. /\ tx'.assets = db.assets /\ tx'.raw_assets = db.raw_assets
        /\ tx'.relationships = db.relationships /\ tx'.data_sources = tx.data_sources
    BY <1>t, <2>1, <2>5, RunLeaves, SourceLeaves
  <2>7. Headed'
    <3>1. tx'.crawl_runs = InsertRun(db, run, batch.ds, out).crawl_runs
      <4>1. tx.crawl_runs = db.crawl_runs
        BY <2>1, <2>5, SourceLeaves
      <4>2. tx'.crawl_runs = InsertRun(tx, run, batch.ds, out).crawl_runs
        BY <2>1
      <4> QED
        BY <1>t, <2>5, <4>1, <4>2 DEF InsertRun, Tables
    <3> QED
      BY <2>1, <2>6, <3>1 DEF Headed
  <2>8. Holds(0, 0, 0)'
    <3>1. Relations(out, 0)' = {} /\ 1..0 = {}
      BY DEF Relations
    <3>2. \A x \in {"assets", "raw_assets", "relationships"} :
              db[x] = [k \in DOMAIN db[x] |-> db[x][k]]
      BY <1>0 DEF IsCatalog, Tables
    <3>3. /\ tx'.assets = AssetsAfter(db.assets, batch.ds, out, {})
          /\ tx'.raw_assets = RawAfter(db.raw_assets, run, batch.ds, out, {})
          /\ tx'.relationships =
                RelationshipsAfter(db.relationships, run, batch.ds, out, {})
      BY <2>6, <3>2, NothingAfter
    <3> QED
      BY <2>1, <3>1, <3>3 DEF Holds
  <2>9. WorkingCopy'
    BY <2>1, <2>3, <2>7, <2>8 DEF WorkingCopy
  <2> QED
    BY <1>0, <2>1, <2>2, <2>4, <2>9
<1>8. CASE StoreAsset
  <2>1. /\ pc = "asset" /\ pc' = "raw" /\ pos' = pos
        /\ tx' = UpsertAsset(tx, batch.ds, out[pos])
        /\ UNCHANGED <<out, db, run>> /\ batch' = batch
    BY <1>8 DEF StoreAsset, Statement, batch, run
  <2>2. IsCatalog(tx') /\ Holds(pos, pos - 1, pos - 1)'
    BY <1>0, <1>8, <2>1, StatementsAreCatalogs, AssetStored
  <2>3. tx'.data_sources = tx.data_sources /\ tx'.crawl_runs = tx.crawl_runs
    BY <1>t, <2>1, AssetLeaves
  <2>4. Headed'
    BY <1>0, <2>1, <2>3 DEF WorkingCopy, Headed, AfterRun
  <2>5. Dedup'
    BY <1>0, <2>1 DEF Dedup, InTx
  <2>6. WorkingCopy'
    BY <2>1, <2>2, <2>4 DEF WorkingCopy
  <2> QED
    BY <1>0, <2>1, <2>2, <2>5, <2>6
<1>9. CASE StoreRaw
  <2>1. /\ pc = "raw" /\ tx' = UpsertRaw(tx, run, batch.ds, out[pos])
        /\ UNCHANGED <<out, db, run>> /\ batch' = batch
    BY <1>9 DEF StoreRaw, Statement, batch, run
  <2>2. IsCatalog(tx')
    BY <1>0, <2>1, StatementsAreCatalogs
  <2>3. tx'.data_sources = tx.data_sources /\ tx'.crawl_runs = tx.crawl_runs
    BY <1>t, <2>1, RawLeaves
  <2>4. Headed'
    BY <1>0, <2>1, <2>3 DEF WorkingCopy, Headed, AfterRun
  <2>5. pos \in 1..Len(out)
    BY <1>p, <2>1
  <2>6. CASE IsRelationship(out[pos])
    <3>1. pc' = "relationship" /\ pos' = pos
      BY <1>9, <2>6 DEF StoreRaw, Statement
    <3>2. Holds(pos, pos, pos - 1)'
      BY <1>9, <2>1, <3>1, RawStored DEF Holds, Relations
    <3>3. WorkingCopy'
      BY <2>4, <3>1, <3>2 DEF WorkingCopy
    <3>4. Dedup'
      BY <1>0, <2>1, <3>1 DEF Dedup, InTx
    <3> QED
      BY <1>0, <2>1, <2>2, <3>3, <3>4
  <2>7. CASE ~IsRelationship(out[pos])
    <3>1. pc' = LoopStep(pos + 1) /\ pos' = pos + 1
      BY <1>9, <2>7 DEF StoreRaw, Statement
    <3>2. pc' \in {"asset", "commit"} /\ (pc' = "commit" => Len(out) = pos)
          /\ pos' - 1 = pos
      BY <1>e, <2>5, <3>1
    <3>3. Relations(out, pos - 1) = Relations(out, pos)
      BY <1>t, <2>7, Upto
    <3>4. Holds(pos - 1, pos - 1, pos - 1)'
      BY <1>9, <2>1, <3>2, <3>3, RawStored DEF Holds, Relations
    <3>5. WorkingCopy'
      BY <2>1, <2>4, <3>2, <3>4 DEF WorkingCopy
    <3>6. Dedup'
      BY <1>0, <2>1, <3>2 DEF Dedup, InTx
    <3> QED
      BY <1>0, <2>1, <2>2, <3>5, <3>6
  <2> QED
    BY <2>6, <2>7
<1>10. CASE StoreRelationship
  <2>1. /\ pc = "relationship" /\ tx' = UpsertRelation(tx, run, batch.ds, out[pos])
        /\ pc' = LoopStep(pos + 1) /\ pos' = pos + 1
        /\ UNCHANGED <<out, db, run>> /\ batch' = batch
    BY <1>10 DEF StoreRelationship, Statement, batch, run
  <2>2. IsCatalog(tx')
    BY <1>0, <2>1, StatementsAreCatalogs
  <2>3. tx'.data_sources = tx.data_sources /\ tx'.crawl_runs = tx.crawl_runs
    BY <1>t, <2>1, RelationLeaves
  <2>4. Headed'
    BY <1>0, <2>1, <2>3 DEF WorkingCopy, Headed, AfterRun
  <2>5. pc' \in {"asset", "commit"} /\ (pc' = "commit" => Len(out) = pos) /\ pos' - 1 = pos
    BY <1>e, <1>p, <2>1
  <2>6. Holds(pos - 1, pos - 1, pos - 1)'
    BY <1>10, <2>1, <2>5, RelationshipStored DEF Holds, Relations
  <2>7. WorkingCopy'
    BY <2>1, <2>4, <2>5, <2>6 DEF WorkingCopy
  <2>8. Dedup'
    BY <1>0, <2>1, <2>5 DEF Dedup, InTx
  <2> QED
    BY <1>0, <2>1, <2>2, <2>7, <2>8
<1>11. CASE Commit
  BY <1>0, <1>11 DEF Commit, Idle, Dedup, WorkingCopy, InTx, AfterRun
<1>12. CASE Fail
  BY <1>0, <1>12 DEF Fail, Idle, Dedup, WorkingCopy, InTx, AfterRun
<1>13. CASE Crash
  BY <1>0, <1>13 DEF Crash, Idle, Dedup, WorkingCopy, InTx, AfterRun
<1>14. CASE UNCHANGED vars
  BY <1>0, <1>14 DEF vars, Dedup, WorkingCopy, Headed, Holds, Relations, run, batch
<1> QED
  BY <1>s, <1>1, <1>2, <1>3, <1>4, <1>5, <1>6, <1>7, <1>8, <1>9, <1>10, <1>11, <1>12, <1>13, <1>14
  DEF Next, StoreCrawls
-----------------------------------------------------------------------------
(* Steps of Ingest as steps of AtomicIngest.                               *)
Statuses == [n \in 1..Len(sent) |-> Status(n)]

LEMMA StatusIs ==
    ASSUME Refined, NEW n \in 1..Len(sent)
    PROVE  /\ ~Resolved(n) => Statuses[n] = "queued" /\ n \notin DOMAIN db.crawl_runs
           /\ Resolved(n) /\ n \in DOMAIN db.crawl_runs => Statuses[n] = "stored"
           /\ Resolved(n) /\ n \notin DOMAIN db.crawl_runs => Statuses[n] = "lost"
<1>1. received \in Nat /\ n \in Nat /\ FreshRun
  BY DEF Refined, Integrity, Typed, TypeOK
<1>2. ~Resolved(n) => n \notin DOMAIN db.crawl_runs
  <2> SUFFICES ASSUME ~Resolved(n) PROVE n \notin DOMAIN db.crawl_runs
    OBVIOUS
  <2>1. n > received \/ (n = received /\ pc # "receive")
    BY <1>1 DEF Resolved
  <2> QED
    BY <1>1, <2>1 DEF FreshRun, run
<1> QED
  BY <1>2 DEF Statuses, Status

LEMMA OldestIs ==
    ASSUME Refined, NEW n \in 1..Len(sent), ~Resolved(n), \A m \in 1..(n - 1) : Resolved(m)
    PROVE  Atomic!Oldest(n)
<1>1. Statuses[n] = "queued"
  BY StatusIs
<1>2. \A m \in 1..(n - 1) : m \in 1..Len(sent) /\ Statuses[m] # "queued"
  BY StatusIs
<1> QED
  BY <1>1, <1>2 DEF Atomic!Oldest, Statuses

(* The working copy at the commit is the effect of the batch.              *)
LEMMA CommitIsEffect ==
    ASSUME Refined, Commit PROVE tx = Atomic!Effect(db, run, batch)
<1>1. /\ pc = "commit" /\ Headed /\ Holds(Len(out), Len(out), Len(out))
      /\ Deduplicated(out, batch.data, Len(batch.data))
      /\ DOMAIN db = Tables /\ tx = [t \in Tables |-> tx[t]]
  BY IsCatalogTables DEF Commit, Refined, WorkingCopy, Dedup, AfterRun, InTx, IsCatalog
<1>2. out \in Seq(Element) /\ batch.data \in Seq(Element \union {NilElement})
  BY <1>1, Current DEF Refined, Integrity, Typed, TypeOK
<1>3. PICK f : Picks(f, out, batch.data, Len(batch.data))
  BY <1>1 DEF Deduplicated
<1> DEFINE m == Len(out)
           u == Atomic!Effect(db, run, batch)
<1>4. /\ m \in Nat /\ Increasing(f, m)
      /\ \A i \in 1..m : f[i] \in Nat /\ out[i] = batch.data[f[i]]
  BY <1>2, <1>3 DEF Picks
<1>5. Relations(out, m) \in SUBSET (1..m) /\ 1..m \in SUBSET (1..m)
  BY DEF Relations
<1>6. ImageOf(f, 1..m) = Kept(batch.data)
      /\ ImageOf(f, Relations(out, m)) = KeptRelations(batch.data)
  BY <1>2, <1>3, Counted
<1> HIDE DEF m
<1>7. tx.assets = u.assets
  <2>1. tx.assets = AssetsAfter(db.assets, batch.ds, batch.data, ImageOf(f, 1..m))
    BY <1>1, <1>4, <1>5, AssetsAfterImage DEF Holds, m
  <2> QED
    BY <1>6, <2>1, EffectOnAssets
<1>8. tx.raw_assets = u.raw_assets
  <2>1. tx.raw_assets = RawAfter(db.raw_assets, run, batch.ds, batch.data,
                                 ImageOf(f, 1..m))
    BY <1>1, <1>4, <1>5, RawAfterImage DEF Holds, m
  <2> QED
    BY <1>6, <2>1, EffectOnRaw
<1>9. tx.relationships = u.relationships
  <2>1. tx.relationships = RelationshipsAfter(db.relationships, run, batch.ds, batch.data,
                                              ImageOf(f, Relations(out, m)))
    BY <1>1, <1>4, <1>5, RelationshipsAfterImage DEF Holds, m
  <2> QED
    BY <1>6, <2>1, EffectOnRelationships
<1>10. tx.data_sources = u.data_sources
  BY <1>1, EffectOnSources DEF Headed, UpsertSource, Tables
<1>11. tx.crawl_runs = u.crawl_runs
  <2>1. /\ Cardinality(Kept(batch.data)) = m
        /\ Cardinality(KeptRelations(batch.data)) = Cardinality(Relations(out, m))
    BY <1>2, <1>3, Counted DEF m
  <2>3. {i \in DOMAIN out : IsRelationship(out[i])} = Relations(out, m)
    BY <1>2 DEF m, Relations
  <2>2. tx.crawl_runs = Put(db.crawl_runs, run,
            [ds |-> batch.ds, element_count |-> m,
             relationship_count |-> Cardinality(Relations(out, m))])
    BY <1>1, <2>3 DEF Headed, InsertRun, m, Tables
  <2> QED
    BY <2>1, <2>2, EffectOnRuns
<1>12. u = [t \in Tables |-> u[t]]
  BY EffectIsRecord
<1> HIDE DEF u
<1>13. \A t \in Tables : tx[t] = u[t]
  BY <1>7, <1>8, <1>9, <1>10, <1>11 DEF Tables
<1>14. tx = u
  BY <1>1, <1>12, <1>13
<1> QED
  BY <1>14 DEF u

LEMMA InitRefines == Init => Atomic!Init
<1> SUFFICES ASSUME Init PROVE Atomic!Init
  OBVIOUS
<1>1. sent = <<>> /\ db = Atomic!EmptyCatalog
  BY Same DEF Init
<1>2. [n \in 1..Len(sent) |-> Status(n)] = <<>>
  BY <1>1
<1> QED
  BY <1>1, <1>2 DEF Atomic!Init

LEMMA StepRefines == Refined /\ Refined' /\ [Next]_vars => [Atomic!Next]_(Atomic!vars)
<1> SUFFICES ASSUME Refined, Refined', [Next]_vars
             PROVE  Atomic!Next \/ UNCHANGED <<sent, Statuses, db>>
  BY DEF Atomic!vars, Statuses
<1>t. /\ sent \in Seq(Batches) /\ Len(sent) \in Nat /\ received \in Nat
      /\ received <= Len(sent) /\ FreshRun
      /\ pc # "receive" => received \in 1..Len(sent) /\ batch.ds \in DataSource
  BY DEF Refined, Integrity, Typed, TypeOK, Control
<1>d. DOMAIN Statuses = 1..Len(sent) /\ DOMAIN Statuses' = 1..Len(sent')
  BY DEF Statuses
(* Nothing is resolved and nothing committed: a stuttering step.           *)
<1>u. ASSUME UNCHANGED <<sent, received, db>>, pc # "receive", pc' # "receive"
      PROVE  UNCHANGED <<sent, Statuses, db>>
  <2>1. \A n \in 1..Len(sent) : Status(n)' = Status(n)
    BY <1>u DEF Status, Resolved
  <2> QED
    BY <1>u, <2>1 DEF Statuses
<1>1. ASSUME NEW b \in Batches, Send(b) PROVE Atomic!Next
  <2>1. /\ sent' = Append(sent, b) /\ UNCHANGED <<received, pc, db>> /\ Len(sent) < MaxSent
        /\ Len(sent') = Len(sent) + 1
    BY <1>1, <1>t DEF Send
  <2>2. \A n \in 1..Len(sent) : Statuses'[n] = Statuses[n] /\ n \in 1..Len(sent')
    BY <1>t, <2>1 DEF Statuses, Status, Resolved
  <2>3. Statuses'[Len(sent) + 1] = "queued"
    BY <1>t, <2>1 DEF Statuses, Status, Resolved
  <2>4. Statuses' = Append(Statuses, "queued")
    <3>1. Statuses \in Seq({"queued", "stored", "lost"}) /\ Len(Statuses) = Len(sent)
      BY <1>t DEF Statuses, Status
    <3>2. Statuses' = [n \in 1..(Len(sent) + 1) |-> Statuses'[n]]
      BY <2>1 DEF Statuses
    <3> QED
      BY <1>t, <2>2, <2>3, <3>1, <3>2
  <2>5. Atomic!Send(b)
    BY <2>1, <2>4 DEF Atomic!Send, Statuses
  <2> QED
    BY <2>5 DEF Atomic!Next
<1>2. CASE Receive
  <2> DEFINE n == received + 1
  <2>1. /\ pc = "receive" /\ n \in 1..Len(sent) /\ received' = n /\ UNCHANGED <<sent, db>>
        /\ pc' \in {"receive", "dedup"}
    BY <1>2, <1>t DEF Receive
  <2>2. CASE pc' = "dedup"
    <3>1. \A k \in 1..Len(sent) : Status(k)' = Status(k)
      BY <1>t, <2>1, <2>2 DEF Status, Resolved
    <3> QED
      BY <2>1, <3>1 DEF Statuses
  <2>3. CASE pc' = "receive"
    <3>1. ~Resolved(n) /\ \A k \in 1..(n - 1) : Resolved(k)
      BY <1>t, <2>1 DEF Resolved
    <3>2. Atomic!Oldest(n)
      BY <2>1, <3>1, OldestIs
    <3>3. n \notin DOMAIN db.crawl_runs
      BY <2>1, <3>1, StatusIs
    <3>4. \A k \in 1..Len(sent) : Statuses'[k] = IF k = n THEN "lost" ELSE Statuses[k]
      BY <1>t, <2>1, <2>3, <3>3 DEF Statuses, Status, Resolved
    <3>5. Statuses' = [Statuses EXCEPT ![n] = "lost"]
      BY <1>d, <2>1, <3>4 DEF Statuses
    <3>6. Atomic!Lose(n)
      BY <2>1, <3>2, <3>5 DEF Atomic!Lose, Statuses
    <3> QED
      BY <1>d, <2>1, <3>6 DEF Atomic!Next, Statuses
  <2> QED
    BY <2>1, <2>2, <2>3
<1>3. CASE DedupElement
  BY <1>3, <1>u DEF DedupElement
<1>4. CASE DedupDone
  BY <1>4, <1>u DEF DedupDone
<1>5. CASE Begin
  BY <1>5, <1>u DEF Begin, Statement
<1>6. CASE UpsertDataSource
  BY <1>6, <1>u DEF UpsertDataSource, Statement
<1>7. CASE InsertCrawlRun
  BY <1>7, <1>u DEF InsertCrawlRun, Statement, LoopStep
<1>8. CASE StoreAsset
  BY <1>8, <1>u DEF StoreAsset, Statement
<1>9. CASE StoreRaw
  BY <1>9, <1>u DEF StoreRaw, Statement, LoopStep
<1>10. CASE StoreRelationship
  BY <1>10, <1>u DEF StoreRelationship, Statement, LoopStep
<1>r. pc # "receive" => Atomic!Oldest(run)
  <2> SUFFICES ASSUME pc # "receive" PROVE Atomic!Oldest(run)
    OBVIOUS
  <2>1. run \in 1..Len(sent) /\ ~Resolved(run) /\ \A k \in 1..(run - 1) : Resolved(k)
    BY <1>t DEF run, Resolved
  <2> QED
    BY <2>1, OldestIs
<1>11. CASE Commit
  <2>1. /\ pc = "commit" /\ pc' = "receive" /\ UNCHANGED <<sent, received>> /\ db' = tx
        /\ run \in 1..Len(sent) /\ batch.ds \in DataSource
    BY <1>11, <1>t DEF Commit, Idle, run
  <2>2. db' = Atomic!Effect(db, run, sent[run]) /\ sent[run].ds # NoSource
    BY <1>11, <2>1, CommitIsEffect, IngestAssumption DEF batch, run
  <2>3. DOMAIN tx.crawl_runs = DOMAIN db.crawl_runs \union {run}
    <3>1. \E row : Atomic!Effect(db, run, batch).crawl_runs = Put(db.crawl_runs, run, row)
      BY EffectOnRuns
    <3> QED
      BY <1>11, <3>1, CommitIsEffect DEF Put
  <2>4. \A k \in 1..Len(sent) : Statuses'[k] = IF k = run THEN "stored" ELSE Statuses[k]
    BY <1>t, <2>1, <2>3 DEF Statuses, Status, Resolved, run
  <2>5. Statuses' = [Statuses EXCEPT ![run] = "stored"]
    BY <1>d, <2>1, <2>4 DEF Statuses
  <2>6. Atomic!Store(run)
    BY <1>r, <2>1, <2>2, <2>5 DEF Atomic!Store, Statuses
  <2> QED
    BY <1>d, <2>1, <2>6 DEF Atomic!Next, Statuses
<1>12. CASE Fail
  <2>1. /\ pc # "receive" /\ pc' = "receive" /\ UNCHANGED <<sent, received, db>>
        /\ run \in 1..Len(sent)
    BY <1>12, <1>t DEF Fail, Idle, InTx, run
  <2>2. run \notin DOMAIN db.crawl_runs
    BY <1>t, <2>1 DEF FreshRun
  <2>3. \A k \in 1..Len(sent) : Statuses'[k] = IF k = run THEN "lost" ELSE Statuses[k]
    BY <1>t, <2>1, <2>2 DEF Statuses, Status, Resolved, run
  <2>4. Statuses' = [Statuses EXCEPT ![run] = "lost"]
    BY <1>d, <2>1, <2>3 DEF Statuses
  <2>5. Atomic!Lose(run)
    BY <1>r, <2>1, <2>4 DEF Atomic!Lose, Statuses
  <2> QED
    BY <1>d, <2>1, <2>5 DEF Atomic!Next, Statuses
<1>13. CASE Crash
  <2>1. received' = Len(sent) /\ pc' = "receive" /\ UNCHANGED <<sent, db>>
    BY <1>13 DEF Crash, Idle
  <2>2. ASSUME NEW k \in 1..Len(sent)
        PROVE  Statuses'[k] = IF Statuses[k] = "queued" THEN "lost" ELSE Statuses[k]
    <3>1. Statuses'[k] = IF k \in DOMAIN db.crawl_runs THEN "stored" ELSE "lost"
      BY <1>t, <2>1 DEF Statuses, Status, Resolved
    <3> QED
      BY <3>1, StatusIs
  <2>3. Statuses' = [k \in DOMAIN Statuses |->
                        IF Statuses[k] = "queued" THEN "lost" ELSE Statuses[k]]
    BY <1>d, <2>1, <2>2 DEF Statuses
  <2>4. Atomic!Restart
    BY <2>1, <2>3 DEF Atomic!Restart, Statuses
  <2> QED
    BY <2>4 DEF Atomic!Next
<1>14. CASE UNCHANGED vars
  BY <1>14 DEF vars, Statuses, Status, Resolved
<1> QED
  BY <1>1, <1>2, <1>3, <1>4, <1>5, <1>6, <1>7, <1>8, <1>9, <1>10, <1>11, <1>12, <1>13, <1>14
  DEF Next, StoreCrawls
-----------------------------------------------------------------------------
(* In every reachable state dedup has kept the first element of each item, *)
(* in order, of the batch read so far, and the working copy is the         *)
(* committed catalog plus exactly the rows of the elements stored so far.  *)
THEOREM WorkingCopyIsPrefix == Spec => []Refined
  BY RefinedInit, RefinedStep, PTL DEF Spec

(* Storing crawls statement by statement, with errors, rollbacks and       *)
(* crashes at any point, is storing or losing each batch in one step, in   *)
(* the order of the channel and at most once.                              *)
THEOREM IngestIsAtomic == Spec => ImplementsAtomic
  BY WorkingCopyIsPrefix, InitRefines, StepRefines, PTL DEF Spec, ImplementsAtomic, Atomic!Spec
=============================================================================
