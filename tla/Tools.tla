-------------------------------- MODULE Tools --------------------------------
(***************************************************************************)
(* The read tools of the MCP server (internal/mcp/server.go) and the       *)
(* queries behind them (sqlstore/store.go), called one after the other     *)
(* while crawls are stored.  A tool may take two transactions, the first   *)
(* to resolve the asset it was asked about, and each query sees what is    *)
(* committed when it starts.  Batches are stored as AtomicIngest says.     *)
(***************************************************************************)
EXTENDS Catalog

CONSTANTS Any,                     \* an argument that was not given
          NoSource, NilElement, Batches, MaxSent,
          HashRank,                \* the order of the hashes, as strings
          Calls,                   \* the calls a client may make
          DefaultLimit, MaxLimit   \* 25 and 100 of most tools, scaled down

VARIABLES sent, status, db,  \* the store
          call, pc,
          asset,             \* what resolveAsset found
          assetCounts,       \* what the first query of the summary found
          answer,
          shown              \* ghost: the assets some answer named

store == <<sent, status, db>>
vars == <<store, call, pc, asset, assetCounts, answer, shown>>

Ingest == INSTANCE AtomicIngest

Resolving == {"versions", "explore", "path"}
Call == [tool : {"sources", "search", "asset", "relationships", "summary", "runs"} \union Resolving,
         id : Ident \union {Any}, type : ElementType \union {Any},
         ds : DataSource \union {Any}, limit : Nat \union {Any},
         direction : {"incoming", "outgoing", "both", "other"} \union {Any}]

(* Crawlers send elements, hashes are strings in some order, and limits    *)
(* are numbers of rows.                                                    *)
Parameters ==
    /\ Batches \subseteq [ds : DataSource \union {NoSource}, at : Nat,
                         data : Seq(Element \union {NilElement})]
    /\ Calls \subseteq Call
    /\ Any \notin DataSource \union Ident \union ElementType
    /\ HashRank \in [Payload -> Nat]
    /\ \A g, h \in Payload : HashRank[g] = HashRank[h] => g = h
    /\ DefaultLimit \in Nat \ {0} /\ MaxLimit \in Nat \ {0}
-----------------------------------------------------------------------------
Given(filter, value) == filter \in {Any, value}

(* ORDER BY ... LIMIT n: a page holds nothing that comes after what it     *)
(* leaves out; ties may fall either way.                                   *)
Pages(rows, n, Before(_, _)) ==
    {page \in SUBSET rows :
        /\ Cardinality(page) = IF Cardinality(rows) < n THEN Cardinality(rows) ELSE n
        /\ \A r \in page : \A s \in rows \ page : ~Before(s, r)}

Newer(r, s) == r.last_seen > s.last_seen

(* ORDER BY last_seen DESC, updated_at DESC, hash DESC *)
NewerVersion(v, w) ==
    Newer(v, w) \/ (v.last_seen = w.last_seen /\ HashRank[v.hash] > HashRank[w.hash])

(* Mutant: ORDER BY first_seen DESC. *)
NewerFound(v, w) == v.first_seen > w.first_seen

(* The payloads of the assets K. *)
Versions(c, K) ==
    {[asset |-> k.asset, hash |-> k.hash, run |-> c.raw_assets[k].run,
      first_seen |-> c.raw_assets[k].first_seen, last_seen |-> c.raw_assets[k].last_seen] :
        k \in {r \in DOMAIN c.raw_assets : r.asset \in K}}

AssetsOf(c, id, type, ds) ==
    {k \in DOMAIN c.assets : Given(id, k.id) /\ Given(type, k.type) /\ Given(ds, k.ds)}

Summary(c, k) == [key |-> k, meta |-> c.assets[k].meta, last_seen |-> c.assets[k].last_seen]
Summaries(c, id, type, ds) == {Summary(c, k) : k \in AssetsOf(c, id, type, ds)}

(* Mutant: the partition forgets the type. *)
LatestOfID(c, k) ==
    {v \in Versions(c, AssetsOf(c, k.id, Any, k.ds)) :
        /\ v.asset = k
        /\ \A w \in Versions(c, AssetsOf(c, k.id, Any, k.ds)) : ~NewerVersion(w, v)}

(* Mutant: the payload found last is taken for the latest. *)
LatestFound(c, k) ==
    {v \in Versions(c, {k}) : \A w \in Versions(c, {k}) : ~NewerFound(w, v)}

(* row_number = 1 of latest_raw_assets *)
Latest(c, k) ==
    {v \in Versions(c, {k}) : \A w \in Versions(c, {k}) : ~NewerVersion(w, v)}

(* GetAssets: metadata of the asset, payload of the latest version.        *)
GetAssets(c, q) ==
    UNION {{[key |-> k, meta |-> c.assets[k].meta, last_seen |-> c.assets[k].last_seen,
             hash |-> v.hash] : v \in Latest(c, k)} : k \in AssetsOf(c, q.id, q.type, q.ds)}

(* normalizedLimit; the store bounds it again, to the same.                *)
LimitValid(q) == q.limit # Any => q.limit >= 1
Limit(q) ==
    IF q.limit = Any THEN DefaultLimit ELSE IF q.limit > MaxLimit THEN MaxLimit ELSE q.limit
-----------------------------------------------------------------------------
NoAnswer == [ok |-> FALSE, rows |-> {}]
NoAsset == {}
NoCall == [tool |-> "none", id |-> Any, type |-> Any, ds |-> Any, limit |-> Any, direction |-> Any]

Init ==
    /\ Ingest!Init
    /\ call = NoCall /\ pc = "idle" /\ asset = NoAsset /\ assetCounts = NoAsset
    /\ answer = NoAnswer /\ shown = {}

(* A crawl is sent, stored or lost meanwhile. *)
Crawl ==
    /\ Ingest!Next
    /\ UNCHANGED <<call, pc, asset, assetCounts, answer, shown>>

Ask(q) ==
    /\ pc = "idle"
    /\ call' = q
    /\ pc' = IF q.tool \in Resolving THEN "resolve" ELSE "read"
    /\ UNCHANGED <<store, asset, assetCounts, answer, shown>>

Answer(rows, names) ==
    /\ answer' = [ok |-> TRUE, rows |-> rows]
    /\ shown' = shown \union names
    /\ pc' = "answered"
    /\ UNCHANGED <<store, call, assetCounts>>

Refuse ==
    /\ answer' = NoAnswer
    /\ pc' = "answered"
    /\ UNCHANGED <<store, call, asset, assetCounts, shown>>

(* resolveAsset: not found, ambiguous, or the one.  The other end of a     *)
(* path is resolved in the same way.                                       *)
Resolve ==
    /\ pc = "resolve"
    /\ LET found == GetAssets(db, call) IN
       \/ /\ Cardinality(found) # 1
          /\ Refuse
       \/ /\ Cardinality(found) = 1
          /\ asset' = found
          /\ pc' = "read"
          /\ UNCHANGED <<store, call, assetCounts, answer, shown>>

Reading(tools) == pc = "read" /\ call.tool \in tools

(* Arguments are looked at before the query, but after the asset. *)
Valid(q) == LimitValid(q) /\ q.direction # "other"
BadArguments ==
    /\ Reading({"search", "relationships", "runs", "versions", "explore", "path"})
    /\ ~Valid(call)
    /\ Refuse

(* The run stored last is the one with the greatest completed_at. *)
ListDataSources ==
    /\ Reading({"sources"})
    /\ Answer({<<ds, {r \in DOMAIN db.crawl_runs :
                         /\ db.crawl_runs[r].ds = ds
                         /\ \A s \in DOMAIN db.crawl_runs : db.crawl_runs[s].ds = ds => s <= r}>> :
                  ds \in DOMAIN db.data_sources}, {})
    /\ UNCHANGED asset

SearchAssets ==
    /\ Reading({"search"}) /\ Valid(call)
    /\ \E page \in Pages(Summaries(db, call.id, call.type, call.ds), Limit(call), Newer) :
          Answer(page, {r.key : r \in page})
    /\ UNCHANGED asset

GetAsset ==
    /\ Reading({"asset"})
    /\ LET found == GetAssets(db, call) IN
       \/ /\ Cardinality(found) # 1
          /\ Refuse
       \/ /\ Cardinality(found) = 1
          /\ Answer(found, {r.key : r \in found})
          /\ UNCHANGED asset

Ends(rel, q) ==
    (IF q.direction = "incoming" THEN {} ELSE {rel.src})
        \union (IF q.direction = "outgoing" THEN {} ELSE {rel.dst})
GetRelationships ==
    /\ Reading({"relationships"}) /\ Valid(call)
    /\ \E page \in Pages({[key |-> k, last_seen |-> db.relationships[k].last_seen] :
                             k \in {r \in DOMAIN db.relationships : call.id \in Ends(r.rel, call)}},
                         Limit(call), Newer) :
          Answer(page, {})
    /\ UNCHANGED asset

(* Of runs started at the same time the greatest id, an arbitrary uuid,    *)
(* comes first.                                                            *)
ListCrawlRuns ==
    /\ Reading({"runs"}) /\ Valid(call)
    /\ \E page \in Pages({[run |-> r, last_seen |-> sent[r].at] :
                             r \in {s \in DOMAIN db.crawl_runs : Given(call.ds, db.crawl_runs[s].ds)}},
                         Limit(call), Newer) :
          Answer(page, {})
    /\ UNCHANGED asset

(* The two queries of the summary; ListRelationshipTypes is the second.    *)
CountAssets ==
    /\ Reading({"summary"})
    /\ assetCounts' = {<<t, Cardinality(AssetsOf(db, Any, t, call.ds))>> : t \in ElementType}
    /\ pc' = "count"
    /\ UNCHANGED <<store, call, asset, answer, shown>>
CountRelationships ==
    /\ pc = "count"
    /\ Answer({<<k, Cardinality({r \in DOMAIN db.relationships :
                                    r.rel.kind = k /\ Given(call.ds, r.ds)})>> : k \in Kind}, {})
    /\ UNCHANGED asset

(* Mutant: the versions of what the arguments name by now. *)
GetVersionsAsked ==
    /\ Reading({"versions"}) /\ Valid(call)
    /\ \E page \in Pages(Versions(db, AssetsOf(db, call.id, call.type, call.ds)),
                         Limit(call), NewerVersion) : Answer(page, {})
    /\ UNCHANGED asset

(* GetAssetVersions of the asset that was resolved. *)
GetVersions ==
    /\ Reading({"versions"}) /\ Valid(call)
    /\ \E page \in Pages(Versions(db, {r.key : r \in asset}), Limit(call), NewerVersion) :
          Answer(page, {})
    /\ UNCHANGED asset

(* latestAssetSummary, the root of the exploration: newest of that id, in  *)
(* the data source if one was given, of whatever type.  The traversals     *)
(* that follow are Topology and RelationshipPath; the path tool gives no   *)
(* data source.                                                            *)
Roots ==
    Pages(Summaries(db, call.id, Any, IF call.tool = "path" THEN Any ELSE call.ds), 1, Newer)
FindRoot ==
    /\ Reading({"explore", "path"}) /\ Valid(call)
    /\ \E page \in Roots :
          \/ /\ page # {}
             /\ Answer(page, {r.key : r \in page})
             /\ UNCHANGED asset
          \/ /\ page = {}
             /\ Refuse

(* A query or a transaction fails. *)
Fail ==
    /\ pc \in {"resolve", "read", "count"}
    /\ answer' = NoAnswer
    /\ pc' = "failed"
    /\ UNCHANGED <<store, call, asset, assetCounts, shown>>

(* The client takes the answer. *)
Take ==
    /\ pc \in {"answered", "failed"}
    /\ call' = NoCall /\ pc' = "idle" /\ asset' = NoAsset /\ assetCounts' = NoAsset
    /\ answer' = NoAnswer
    /\ UNCHANGED <<store, shown>>

Serve ==
    \/ Resolve \/ BadArguments \/ ListDataSources \/ SearchAssets \/ GetAsset
    \/ GetRelationships \/ ListCrawlRuns \/ CountAssets \/ CountRelationships
    \/ GetVersions \/ FindRoot \/ Fail

Use == Take \/ \E q \in Calls : Ask(q)

Next == Serve \/ Use \/ Crawl

Spec == Init /\ [][Next]_vars
-----------------------------------------------------------------------------
Answered(tool) == pc = "answered" /\ call.tool = tool

(* The writes of asset k, in the order they were stored.                   *)
Writes(k) ==
    UNION {{<<n, i>> : i \in {j \in Ingest!Kept(sent[n].data) :
                                 AssetOf(sent[n].ds, sent[n].data[j]) = k}} :
              n \in {m \in DOMAIN sent : status[m] = "stored"}}
Written(w) == sent[w[1]].data[w[2]]
Precedes(v, w) == v[1] < w[1] \/ (v[1] = w[1] /\ v[2] < w[2])
Overtaken(k) ==
    \E v, w \in Writes(k) :
        Precedes(v, w) /\ Written(v).hash # Written(w).hash /\ Written(v).at >= Written(w).at

(* The asset that is shown is one that was crawled: its metadata and the   *)
(* payload it is joined with are those of one element, also when a payload *)
(* comes back that the asset had before.  They may be of two elements only *)
(* if one was stored that was not retrieved after those stored before it.  *)
AnswersOfOneElement ==
    Answered("asset") =>
        \A r \in answer.rows : ~Overtaken(r.key) =>
            /\ r.hash = r.meta
            /\ \E w \in Writes(r.key) : Written(w).hash = r.hash /\ Written(w).at = r.last_seen

(* What one answer shows the next calls find, whatever is stored meanwhile:*)
(* an asset that was named is got, with one payload, by its full key, is   *)
(* counted in a summary, and is there as the root of an exploration once   *)
(* it was resolved.  The versions are those of the asset that was          *)
(* resolved, and the payload seen then is there unless as many newer ones  *)
(* fill the answer.                                                        *)
ShownStays ==
    /\ Answered("asset") =>
          \A k \in shown : (call.id = k.id /\ call.type = k.type /\ call.ds = k.ds) =>
              answer.ok /\ \A r \in answer.rows : r.key = k
    /\ pc = "count" =>
          \A c \in assetCounts :
              c[2] >= Cardinality({k \in shown : k.type = c[1] /\ Given(call.ds, k.ds)})
    /\ Answered("versions") /\ answer.ok =>
          \A r \in asset :
              /\ answer.rows # {} /\ \A v \in answer.rows : v.asset = r.key
              /\ (\E v \in answer.rows : v.hash = r.hash)
                     \/ Cardinality(answer.rows) = Limit(call)
    /\ Answered("explore") /\ Valid(call) /\ asset # NoAsset =>
          answer.ok /\ \A r \in answer.rows : Given(call.ds, r.key.ds)
=============================================================================
