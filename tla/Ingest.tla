------------------------------- MODULE Ingest -------------------------------
(***************************************************************************)
(* From the crawlers' channel to committed rows: storeCrawls of            *)
(* cmd/coordimap-local/main.go, dedup.CloudCrawlData, ingest.StoreCrawl    *)
(* and store.WithTx.                                                       *)
(*                                                                         *)
(* One goroutine takes batches off a buffered channel, deduplicates each   *)
(* and stores it in one transaction, a repository call per step.  Any call *)
(* may return an error, which rolls the transaction back and drops the     *)
(* batch, and the process may die between any two steps and be started     *)
(* again on the same database with an empty channel.                       *)
(*                                                                         *)
(* The channel is the part of `sent` that was not received; batch number n *)
(* is sent[n], and n also stands for the uuid of the run that stores it.   *)
(***************************************************************************)
EXTENDS Catalog

CONSTANTS NoSource,    \* the empty DataSourceID
          NilElement,  \* a nil entry of a batch
          Batches,     \* the batches crawlers may send
          Capacity,    \* of the channel (5000 in main)
          MaxSent      \* bound on the number of batches ever sent

Batch == [ds : DataSource \union {NoSource}, at : Nat,
          data : Seq(Element \union {NilElement})]

ASSUME IngestAssumption ==
    /\ NoSource \notin DataSource
    /\ NilElement \notin Element
    /\ Batches \subseteq Batch
    /\ Capacity \in Nat \ {0}
    /\ MaxSent \in Nat

VARIABLES sent,      \* every batch put on the channel, in channel order
          received,  \* how many of them storeCrawls took, or a crash lost
          pc,        \* the next step of storeCrawls
          out,       \* the deduplicated elements of the current batch
          pos,       \* loop index, over the batch in dedup, then over out
          tx,        \* the catalog as the open transaction sees it
          db,        \* the committed catalog, what every reader sees
          contents   \* ghost: the elements stored by each committed run

vars == <<sent, received, pc, out, pos, tx, db, contents>>

InTx == {"source", "run", "asset", "raw", "relationship", "commit"}
PC == {"receive", "dedup", "begin"} \union InTx

batch == sent[received]
run == received
-----------------------------------------------------------------------------
Init ==
    /\ sent = <<>>
    /\ received = 0
    /\ pc = "receive"
    /\ out = <<>>
    /\ pos = 1
    /\ tx = EmptyCatalog
    /\ db = EmptyCatalog
    /\ contents = EmptyTable

(* A crawler sends a finished batch; the send blocks on a full channel. *)
Send(b) ==
    /\ Len(sent) < MaxSent
    /\ Len(sent) - received < Capacity
    /\ sent' = Append(sent, b)
    /\ UNCHANGED <<received, pc, out, pos, tx, db, contents>>

(* A batch without a data source id is logged and skipped. *)
Receive ==
    /\ pc = "receive"
    /\ received < Len(sent)
    /\ received' = received + 1
    /\ pc' = IF sent[received'].ds = NoSource THEN "receive" ELSE "dedup"
    /\ UNCHANGED <<sent, out, pos, tx, db, contents>>

(* relationshipKey identifies a decodable relationship, (Type, ID) the rest *)
SameItem(e, f) ==
    IF IsRelationship(e) THEN IsRelationship(f) /\ e.rel = f.rel
    ELSE ~IsRelationship(f) /\ e.type = f.type /\ e.id = f.id

Duplicate(e) == \E i \in DOMAIN out : SameItem(out[i], e)

DedupElement ==
    /\ pc = "dedup"
    /\ pos <= Len(batch.data)
    /\ LET e == batch.data[pos] IN
       out' = IF e = NilElement \/ Duplicate(e) THEN out ELSE Append(out, e)
    /\ pos' = pos + 1
    /\ UNCHANGED <<sent, received, pc, tx, db, contents>>

DedupDone ==
    /\ pc = "dedup"
    /\ pos > Len(batch.data)
    /\ pc' = "begin"
    /\ UNCHANGED <<sent, received, out, pos, tx, db, contents>>
-----------------------------------------------------------------------------
(* Back to the channel; the transaction, if any, is over. *)
Idle(catalog) ==
    /\ pc' = "receive"
    /\ out' = <<>>
    /\ pos' = 1
    /\ tx' = catalog

(* Mutant: the repositories work on the database, not on a transaction. *)
StatementAutocommit(catalog, next) ==
    /\ tx' = catalog
    /\ db' = catalog
    /\ pc' = next
    /\ UNCHANGED <<sent, received, out, contents>>

(* One repository call: what it leaves of the working copy, then where to. *)
Statement(catalog, next) ==
    /\ tx' = catalog
    /\ pc' = next
    /\ UNCHANGED <<sent, received, out, db, contents>>

(* The loop of StoreCrawl: element i, or the end of the closure. *)
LoopStep(i) == IF i <= Len(out) THEN "asset" ELSE "commit"

(* Mutant: the run is inserted without its data source. *)
BeginAtRun ==
    /\ pc = "begin"
    /\ Statement(db, "run")
    /\ UNCHANGED pos

Begin ==
    /\ pc = "begin"
    /\ Statement(db, "source")
    /\ UNCHANGED pos

UpsertDataSource ==
    /\ pc = "source"
    /\ Statement(UpsertSource(tx, batch.ds, batch.at), "run")
    /\ UNCHANGED pos

InsertCrawlRun ==
    /\ pc = "run"
    /\ RunAllowed(tx, batch.ds)
    /\ Statement(InsertRun(tx, run, batch.ds, out), LoopStep(1))
    /\ pos' = 1

StoreAsset ==
    /\ pc = "asset"
    /\ AssetAllowed(tx, batch.ds)
    /\ Statement(UpsertAsset(tx, batch.ds, out[pos]), "raw")
    /\ UNCHANGED pos

StoreRaw ==
    /\ pc = "raw"
    /\ RawAllowed(tx, run, batch.ds, out[pos])
    /\ \/ /\ IsRelationship(out[pos])
          /\ Statement(UpsertRaw(tx, run, batch.ds, out[pos]), "relationship")
          /\ UNCHANGED pos
       \/ /\ ~IsRelationship(out[pos])
          /\ Statement(UpsertRaw(tx, run, batch.ds, out[pos]), LoopStep(pos + 1))
          /\ pos' = pos + 1

StoreRelationship ==
    /\ pc = "relationship"
    /\ RelationAllowed(tx, run, batch.ds)
    /\ Statement(UpsertRelation(tx, run, batch.ds, out[pos]), LoopStep(pos + 1))
    /\ pos' = pos + 1

Commit ==
    /\ pc = "commit"
    /\ db' = tx
    /\ contents' = Put(contents, run, out)
    /\ Idle(tx)
    /\ UNCHANGED <<sent, received>>

(* Mutant: an element that cannot be stored is skipped. *)
FailSkips ==
    \/ /\ pc = "asset"
       /\ Statement(tx, LoopStep(pos + 1))
       /\ pos' = pos + 1
    \/ /\ pc \in InTx \union {"begin"}
       /\ Idle(db)
       /\ UNCHANGED <<sent, received, db, contents>>

(* Mutant: storeCrawls returns the error instead of logging it. *)
FailStops ==
    /\ pc \in InTx \union {"begin"}
    /\ pc' = "stopped"
    /\ UNCHANGED <<sent, received, out, pos, tx, db, contents>>

(* BeginTx, a statement (a violated foreign key included) or Commit returns *)
(* an error: rollback, and storeCrawls only logs it.                        *)
Fail ==
    /\ pc \in InTx \union {"begin"}
    /\ Idle(db)
    /\ UNCHANGED <<sent, received, db, contents>>

(* The process dies, and the channel with it; main starts again on db. *)
Crash ==
    /\ received' = Len(sent)
    /\ Idle(db)
    /\ UNCHANGED <<sent, db, contents>>

StoreCrawls ==
    \/ Receive \/ DedupElement \/ DedupDone
    \/ Begin \/ UpsertDataSource \/ InsertCrawlRun
    \/ StoreAsset \/ StoreRaw \/ StoreRelationship \/ Commit
    \/ Fail

Next == (\E b \in Batches : Send(b)) \/ StoreCrawls \/ Crash

(* The goroutine keeps running: every call it makes returns. *)
Spec == Init /\ [][Next]_vars /\ WF_vars(StoreCrawls)
-----------------------------------------------------------------------------
(* Every variable has its type; the catalogs are well-formed tables whose   *)
(* runs are batches that were sent.                                        *)
TypeOK ==
    /\ sent \in Seq(Batches)
    /\ received \in 0..Len(sent)
    /\ pc \in PC
    /\ out \in Seq(Element)
    /\ pos \in Nat \ {0}
    /\ CatalogOK(tx, 1..Len(sent))
    /\ CatalogOK(db, 1..Len(sent))
    /\ DOMAIN contents \subseteq 1..Len(sent)
    /\ \A r \in DOMAIN contents : contents[r] \in Seq(Element)

(* The REFERENCES clauses, sharpened to the same data source, hold of what *)
(* a reader can see: no orphan row survives a failed batch or a crash.     *)
ForeignKeys(c) ==
    /\ \A r \in DOMAIN c.crawl_runs : c.crawl_runs[r].ds \in DOMAIN c.data_sources
    /\ \A k \in DOMAIN c.assets : k.ds \in DOMAIN c.data_sources
    /\ \A k \in DOMAIN c.raw_assets :
          /\ k.asset \in DOMAIN c.assets
          /\ c.raw_assets[k].run \in DOMAIN c.crawl_runs
          /\ c.crawl_runs[c.raw_assets[k].run].ds = k.asset.ds
    /\ \A k \in DOMAIN c.relationships :
          /\ c.relationships[k].run \in DOMAIN c.crawl_runs
          /\ c.crawl_runs[c.relationships[k].run].ds = k.ds

(* The order of the calls in StoreCrawl never makes a statement violate a  *)
(* foreign key, so a batch is lost only to a failing call, never by itself.*)
StatementsAllowed ==
    /\ pc = "run" => RunAllowed(tx, batch.ds)
    /\ pc = "asset" => AssetAllowed(tx, batch.ds)
    /\ pc = "raw" => RawAllowed(tx, run, batch.ds, out[pos])
    /\ pc = "relationship" => RelationAllowed(tx, run, batch.ds)

(* "in a single transaction": a run a reader can list is there with every  *)
(* row of its batch, and its counters count exactly those elements.        *)
CommittedRunsComplete ==
    \A r \in DOMAIN db.crawl_runs :
        LET elems == contents[r]  ds == sent[r].ds IN
        /\ db.crawl_runs[r].element_count = Len(elems)
        /\ \A i \in DOMAIN elems :
              /\ AssetOf(ds, elems[i]) \in DOMAIN db.assets
              /\ RawOf(ds, elems[i]) \in DOMAIN db.raw_assets
              /\ IsRelationship(elems[i]) =>
                    RelationshipOf(ds, elems[i]) \in DOMAIN db.relationships

(* GetAssets joins assets with raw_assets, so an asset without a payload   *)
(* would be listed by SearchAssets and never be found: there is none, and  *)
(* there is one for the element that wrote the metadata.                   *)
AssetsHavePayload ==
    \A k \in DOMAIN db.assets :
        [asset |-> k, hash |-> db.assets[k].meta] \in DOMAIN db.raw_assets

(* The committed runs whose batch held a row of key k. *)
RunsWithRaw(k) ==
    {r \in DOMAIN contents :
        \E i \in DOMAIN contents[r] : RawOf(sent[r].ds, contents[r][i]) = k}
RunsWithRelationship(k) ==
    {r \in DOMAIN contents : \E i \in DOMAIN contents[r] :
        /\ IsRelationship(contents[r][i])
        /\ RelationshipOf(sent[r].ds, contents[r][i]) = k}

(* A payload version names the first committed run that observed it and a  *)
(* relationship the last one, across rolled back runs and restarts.        *)
RunProvenance ==
    /\ \A k \in DOMAIN db.raw_assets : LET R == RunsWithRaw(k) IN
          db.raw_assets[k].run \in R /\ \A r \in R : db.raw_assets[k].run <= r
    /\ \A k \in DOMAIN db.relationships : LET R == RunsWithRelationship(k) IN
          db.relationships[k].run \in R /\ \A r \in R : r <= db.relationships[k].run

(* Catalog d holds every row of c, with its first_seen; runs never change. *)
Keeps(t, u) == /\ DOMAIN t \subseteq DOMAIN u
               /\ \A k \in DOMAIN t : u[k].first_seen = t[k].first_seen
CatalogKept(c, d) ==
    /\ Keeps(c.data_sources, d.data_sources)
    /\ Keeps(c.assets, d.assets)
    /\ Keeps(c.raw_assets, d.raw_assets)
    /\ Keeps(c.relationships, d.relationships)
    /\ \A r \in DOMAIN c.crawl_runs :
          r \in DOMAIN d.crawl_runs /\ d.crawl_runs[r] = c.crawl_runs[r]

(* No table ever loses a row and no row its first_seen: a later batch, an  *)
(* error or a crash can only add rows or move the other columns.           *)
HistoryKept == [][CatalogKept(db, db')]_db

(* Every batch on the channel is eventually stored, skipped or lost: an    *)
(* error of one batch never stops the consumer.                            *)
Resolved(n) == received > n \/ (received = n /\ pc = "receive")
BatchesResolved == \A n \in 1..MaxSent : (Len(sent) >= n) ~> Resolved(n)
=============================================================================
