-------------------------- MODULE IngestRefinement --------------------------
(* Ingest, step by step, implements AtomicIngest, batch by batch. *)
EXTENDS Ingest

(* A batch that is queued, deduplicated or in an open transaction is still *)
(* "queued" for the abstract specification; its commit resolves it.        *)
Status(n) ==
    IF ~Resolved(n) THEN "queued"
    ELSE IF n \in DOMAIN db.crawl_runs THEN "stored" ELSE "lost"

Atomic == INSTANCE AtomicIngest WITH status <- [n \in 1..Len(sent) |-> Status(n)]

(* StoreCrawl's sequence of upserts, deduplication before it and rollback  *)
(* or crash in the middle of it included, is one atomic step per batch, in *)
(* the order of the channel, at most once per batch.                       *)
ImplementsAtomic == Atomic!Spec
=============================================================================
