# Verification of coordimap-local

TLA+ modules, TLC runs and TLAPS proofs about `coordimap-local`, the program that crawls
configured infrastructure (clouds, clusters, databases), stores what it finds in a local SQL
database and answers questions about it over MCP. Paths are relative to the repository, which
is `src/` in `PROJECT.json`.

## 1. The system

```
 config ──► runner.Start ──► one goroutine per data source: crawler.Crawl (ticker loop)
                 ▲                      │ CloudCrawlData batches
                 │ Run                  ▼
            MCP server          buffered channel (5000)
                 │                      │
                 │ read tx              ▼
                 └────► SQL store ◄── storeCrawls: dedup ─► ingest.StoreCrawl (one write tx)
```

| Component | State it keeps | Operations | Interacts by | Hard part | What makes it correct |
|---|---|---|---|---|---|
| Ingest (`cmd/coordimap-local/main.go`, `internal/app/ingest`, `internal/graph/dedup`) | the channel, the batch in hand, the open transaction | send, receive, dedup, `StoreCrawl`, commit / rollback | channel from the crawlers, transaction on the store | a failing statement, a crash, batches queued behind a slow one | a batch is stored whole, once, in order, or leaves no trace; one bad batch does not stop the next |
| Store: schema, writes, reads (`internal/storage/sqlstore/store.go`, schemas in `sqlite/`, `postgres/`) | five tables | upserts of data source, run, asset, payload, relationship; lists, searches, versions, counts | called inside `WithTx` | conflict clauses that differ per table, foreign keys checked at each statement, an asset joined with one of its payloads | history is never lost, provenance columns name the right run, metadata and payload are of one element |
| Store: traversals (same file) | none (locals of one call) | `ExploreTopology`, `FindRelationshipPath` | several queries in one read transaction, next to committing crawls | levels that see different snapshots, three bounds in one loop, cycles | answers are paths or connected pieces of the graph, complete unless marked truncated |
| Migrations (`store.Migrate`) | `schema_migrations` | one transaction per migration | several processes on one PostgreSQL | check-then-act, crash between migrations | what is recorded is what the schema has |
| Crawl runner (`internal/app/crawl`) | `mu`, `started`, `runID` | `Start`, `Run`, mapping validation | called by main and by MCP tool calls, starts the crawlers | lock released between check and use | each crawler is started once, all callers learn one id |
| MCP server (`internal/mcp/server.go`) | none | one handler per tool or resource | runner, store | an asset is resolved in one transaction and read in another | what one answer names the next ones find |
| AWS flow-log crawler (`internal/integrations/aws_flow_logs`) | `lastHandledKey`, the state file, a package-level column cache | tick, list, read files, write state, ship | S3, a file, the channel | overlapping ticks, state written before the batch is shipped | a flow file is shipped once, or lost for a known reason |
| AWS crawler (`internal/integrations/aws`) | the pool of one crawl | tick, one worker per kind and region, closer, collector | WaitGroup, results channel | a channel of limited size, early returns with workers running, answers that depend on each other | the crawl ends with every result; a failing call costs only what hangs on it |
| PostgreSQL, MariaDB/MySQL, MongoDB crawlers | the connection | tick, queries, send | channel | a query that fails or is cut short half way, a schema that changes between the queries | relations are true, keys are shown, what stays is shown |
| Kubernetes crawler | clients, node names of earlier crawls | tick, lists, look-ups, flows, metrics, send | channel, Prometheus | failing lists, objects that go before they are related | relations lead to elements of their batch |
| GCP crawler | clients, names of SQL addresses | tick, lists, policies, flow logs, metrics, send | channel, Logging, Monitoring | windows counted from the clock, second calls about what was listed | no flow is lost for an unknown reason |
| Metric rules (`internal/metrics`) | none | declare, validate, evaluate | Prometheus, Cloud Monitoring | defaults, names of triggers that coincide | an accepted rule is evaluated and its match shown |
| Configuration (`internal/config`, the constructors) | the crawlers | load, read the pairs of a data source, make a ticker | one process for all | zero, empty or huge intervals, an error of one data source | ticks as configured, errors are a data source's own |
| Mappings, names (`internal/cloud/utils`, `pkg/utils`) | none | split, resolve, hash | all crawlers | several patterns match one key | – |
| Web application (`web/topology-app`) | none | display | MCP App | – | – |

`PROJECT.json` lists the same components with their modelling status, and under `hazards`
every place found where the code is exposed to something a test hardly reaches.

## 2. The modules

| Module | Models | Kind |
|---|---|---|
| `Catalog` | the tables, keys and foreign keys of the store and the five write statements, as operators | data |
| `Ingest` | channel, `storeCrawls`, `dedup.CloudCrawlData`, `StoreCrawl`, `WithTx`, crash and restart | state machine |
| `AtomicIngest` | what storing crawls promises: one atomic effect per batch | abstract specification |
| `IngestRefinement` | the mapping from `Ingest` to `AtomicIngest` | refinement |
| `Graph` | the relationships table as a graph: level query, neighbours, walks | data |
| `RelationshipPath` | `FindRelationshipPath` next to committing crawls | state machine |
| `Topology` | `ExploreTopology` next to committing crawls | state machine |
| `Tools` | every read tool and resource of the MCP server, its transactions and queries, over the store of `AtomicIngest` | state machine, composition |
| `Traversals` | one search, one exploration or the tools, as one process serves them, next to crawls | composition |
| `Runner` | `Runner.Start`, `Runner.Run`, the order of `main` | state machine |
| `Migrations` | `store.Migrate` in several processes | state machine |
| `FlowLogs` | the AWS flow-log crawler: ticks, mutex, listing, state file, shipping, crash | state machine |
| `AwsPool` | the crawls of the AWS crawler: workers, results channel, WaitGroup, closer | state machine |
| `AwsCrawler` | what the workers ask and find: the calls of `vpc.go` and the relations made of the answers | state machine |
| `Aws` | the flow logs, or the crawler of resources on one of any number of accounts | composition |
| `PostgresCrawler`, `MariaCrawler`, `MongoCrawler` | the crawls of databases, query by query | state machines |
| `Databases` | one of the three on one of any number of databases | composition |
| `KubeCrawler`, `GcpCrawler` | the crawls of a cluster and of a project, call by call | state machines |
| `GcpFlowLogs` | the windows of GCP's flow logs and what is made of an entry | state machine |
| `Platforms` | one of the three on one of any number of clusters, projects and flow logs | composition |
| `IstioFlows` | the join of the two Istio queries | state machine |
| `MetricRules` | declarations, predefined rules, validation, evaluation into triggers | state machine |
| `CrawlerConfig` | from a configuration to running tickers | state machine |
| `Metrics` | processes migrating, the metric rules of a data source, or the join of two Istio answers | composition |
| `Startup` | `Start` racing with `Run`, or the loop of `Start` over the pairs of a configuration | composition |
| `Ingest_proofs`, `Traversals_proofs`, `Databases_proofs`, `Aws_proofs`, `AwsPool_proofs`, `Metrics_proofs`, `Startup_proofs`, `Platforms_proofs` | lemmas and theorems | proofs |
| `MC*` | constants of the runs; some put modules that run in one process side by side, one at a time | model values |

`Tools` is built on `AtomicIngest`, which `Ingest` implements (run `ingest`): what the tools may
see of the store is what the pipeline promises. The crawlers end at their `sent` batches, the
input of `Ingest`.

Each module names, per definition, the source it translates (`map` in `PROJECT.json`).
Operators marked "Mutant" in a comment are no part of a specification: each is a plausible bug
in the definition that follows it, and substituting it makes a checked property fail.

### Correspondence

**Ingest.** `sent` is every batch ever put on the channel and `received` how many left it, so the
channel is the difference and batch number *n* also serves as the uuid of the run that stores it
(uuids are fresh). `pc` follows `storeCrawls` from call to call, one action per repository call;
`tx` is the catalog as the open transaction sees it, `db` the committed one, all that other
connections can read. `Fail` is an error of `BeginTx`, of any statement or of `Commit`;
`Crash` loses the channel and the transaction and restarts `main` on the same database.
A nil entry of a batch, a relationship whose payload does not decode, two relationships with one
element id (they share an asset row but are not duplicates for `dedup`) and a batch without a
data source id are all among the inputs. The SQL types, the formatting of keys and the columns
that are only copied (name, status, version, raw bytes) are represented by one content hash per
element; `updated_at` always equals `last_seen`.

**RelationshipPath, Topology.** A row is scanned per step, in any order, which covers the
`ORDER BY` whatever the timestamps are. `CrawlCommits` adds rows between two queries:
PostgreSQL runs at READ COMMITTED, where each query takes a new snapshot. SQLite opens one
connection, so the read transaction excludes the writer; its behaviours are those in which no crawl
commits meanwhile.
Rows are never deleted anywhere in the program, which `HistoryKept` checks on the writing side.
The look-ups of the endpoints and of the displayed node columns are steps that may only fail.

**Tools.** A call takes the steps its handler takes: `Resolve` is the transaction of `resolveAsset`,
the action of the tool the second one; the summary has two queries. Each query sees what is
committed when it starts, so `Crawl`, a step of `AtomicIngest`, may come between any two of them.
`ORDER BY … LIMIT` is any page that leaves out nothing before what it holds. Names and statuses are
left out, so a search is one by type, data source and id. `Roots` is the row `latestAssetSummary`
finds; from there the traversals are `Topology` and `RelationshipPath`. Decoding of arguments and
rendering of JSON are not modelled.

**Runner.** One process per caller; `Peek`, `Lock` … `EndStart` and `ReadRunID` are the three
critical sections of `Run`, the middle one being `Start`. A configuration is what `Start` reads
of it: integrations, `scope_id`, `gcp_flows`, `external_mappings`, and whether the factory fails.

**FlowLogs.** One process per tick that overlaps (`Crawl` starts a goroutine per tick and waits for
none). The mutex is `Free`: at most one goroutine is between `Lock` and the end of `writeState`;
`Ship` is outside. `os.WriteFile` is two steps, and a crash between them leaves a file that
`loadState` rejects. `Die` is the end of the process and its next start in one step, for a crash
anywhere and for the panic of a file that is no gzip stream (`gzip.NewReader` returns nil) or has
a row with too few columns. Nothing removes such a file, so the process meets it again after every
restart. A batch is the set of files its flows come from; how rows are parsed and paired does not
affect control. A tick reads one page of the listing, a thousand objects (`Page`), and leaves what is behind it
to the next ticks, which list from the mark on: here the first page delays a file and, as `OldFilesHandled`
shows, does not lose it (but a whole page of objects that are no flow logs would, see `aws_live`). Modelled with
one flow-log data source: all of them use `./flowLogsState.json`, so
with two the mark of one moves the other's. The ghost `lost` collects the files the code gives up
with a cause – recent or not fetched when a later file was read, arrived behind a later key,
process dead between state and send, or a state that could not be written – and `NoSilentLoss`
says there is no other.
The model ends at the channel; what becomes of a batch there is the subject of `Ingest`.

**AwsCrawler.** A worker is a kind of resource in a region. `Describe` is its list, with an element and
relations for each resource; `todo` are the further calls it makes about what it listed
(targets and their health, classic load balancers, clusters and node groups, images, subnets and
load balancers of autoscaling groups), in the order of the loops of `vpc.go`. A failing call ends
the loop it is in where the code returns and goes on where it continues; `Costs` says which
resources hang on which calls. Workers interleave, and resources come and go between the calls.
No list is asked for its next page: `FirstPage` is what a list answers, all of it or any `PageSize` of
its resources, and what is `Beyond` is noted in the ghost `excused`, so that "beyond the page of its
list" is a cause `ResourcesShown` names next to failed calls. The lists of the target groups of a load
balancer, of images, of node groups and of what is looked up by name have pages, too. A node
group is never described (`NodeGroup`): the request lacks the name of the cluster, which it must have.

**AwsPool.** `pc` follows `crawl`; workers are numbered in the order they are started, so the workers
of a crawl are `1..Total(regions)` and a session can fail only at a multiple of `Kinds`. Channel,
WaitGroup and closer are indexed by crawl, since a crawl that returns early leaves its own behind.
A channel is the set of the senders of its messages: each sends once, and the order decides only the
order of elements in the batch. A failing account look-up is dereferenced and ends the process.
`Capacity > MaxRegions * Kinds + 1` is assumed, as 5000 is enough for 294 regions; without it the
crawl would block in the send of the owner element, with every worker.

**Migrations.** One process per program started on the database. The SQL of each migration creates
tables or indexes, or drops a column, without `IF NOT EXISTS`, so it works only on the schema of
its predecessor; a second transaction that tries it waits for the first (PostgreSQL) or fails
(SQLite, `Stop`), and then fails (`Refused`). A commit whose answer is lost may have happened.
The program ends on every error; that somebody starts it again is an assumption (strong fairness
of `Start`) needed for `ReadyInTheEnd` alone.

**PostgresCrawler, MariaCrawler, MongoCrawler.** A step per query, with its rows taken from the objects
alive at that moment. A query answers with all rows, or with some of them – the iteration ended
early and `rows.Err` is not asked – or fails, with what the code does then: leaves the function,
skips the table, ships a short batch, or panics. PostgreSQL ships a batch per schema, all from one
slice that grows; MariaDB one per crawl; MongoDB one per database, with columns and references
guessed from two samples of 64 documents (two, in the model).

**KubeCrawler, GcpCrawler.** A step per list or look-up. Cluster-wide objects are listed first and
go with every namespace's batch; charts made of labels are remembered within a crawl, node names
across crawls. The objects have the fields the crawler makes relations of. An ingress is `bare` if it has
a rule for a host alone, or in networking/v1 a path to a resource instead of a service; `ListIngresses`
answers, or dies on a bare ingress as the code does (`kube.go:795`, `831`, `865`), and the process starts
again. A service without a selector has every pod of its namespace. The GCP crawler
makes one batch per crawl; IAM policies are expanded into bindings, roles and identities. Its lists, but
that of the clusters of GKE, answer in pages of which it reads the first (`FirstPage`, `Beyond`), as do
the AWS ones; zones are asked for by how their names begin; the policy of a Cloud Run service
is asked for under its bare name, which the API refuses (`GetRunPolicy`).

**GcpFlowLogs.** Time is counted in seconds, the ticker's channel holds one tick, a window reaches
from the clock back by the crawl interval less five seconds. Entries may arrive late. Only the
first page of a window's entries is read and, unlike with the files of AWS, nobody comes back for the rest:
`ListFlows` takes any `PageSize` of them, and being beyond the page is one of the causes `FlowsShown`
names. Addresses of SQL instances may change hands; the crawler remembers the first
owner it saw.

**MetricRules, IstioFlows, CrawlerConfig.** Values are small records; what the code tells apart
(empty, unset, a variable, an unknown operator or unit) is kept. A `time.Duration` wraps at
`MaxDuration`. Go maps and answers of Prometheus are gone through in any order.

## 3. The runs

| Run | Asks | Bounds, and why they are enough |
|---|---|---|
| `ingest` | Is a batch stored whole, once, in order, or not at all, through every failing call and crash? (`StatementsAllowed`, `CommittedRunsComplete`, `RunProvenance`, `HistoryKept`, `ImplementsAtomic`, `BatchesResolved`) | three batches out of five: a row can be created, rewritten after a rolled-back attempt, and rewritten again by another data source; channel of two, so that the send blocks |
| `traversals` | Paths: are answers paths (`FoundIsPath`), not longer than any that existed at the start, and is "not found" right (`NoShorterAtStart`)? Explorations: bounded, connected to the root, complete unless marked truncated? Tools: are metadata and payload of one element (`AnswersOfOneElement`), and does what one answer shows stay (`ShownStays`)? Does every call end (`TraversalsEnd`)? | four nodes, six rows (shortcut, detour, self loop, parallel rows, rows the filters drop), any initial table, five searches with two commits, five explorations – one per bound that bites – with one commit; thirteen calls over three batches out of four: a payload that comes back, an id that becomes ambiguous, a batch stored after a newer one |
| `path_shortest` | Is a path a shortest one of some state of the table? **No** (findings) | as above, path part |
| `startup` | Does each crawler start once with one run id for all callers, nothing from a rejected configuration, without deadlock? Does the loop of `Start` tick as configured, and does one data source's error spare the others? | three callers, two data sources (one maps to the other), sixteen configurations; every type of data source with one or two of 33 settings next to an ordinary one |
| `metrics_migrations` | Can racing or dying processes leave a database that does not match what it records, or cannot be upgraded? Is an accepted rule evaluated, its match shown and kept, and Istio traffic shown between the pods that reported it? | three processes, the four versions, two errors or crashes, any initial version; every pair of thirteen declarations and every predefined rule, answers of up to two samples, two crawls; up to three Istio samples per answer |
| `aws` | In which ways can a flow file be lost, and can one be shipped twice? Does a failing call of the AWS crawler cost only what hangs on it? | two overlapping ticks, four objects of which one is no flow log and one panics, a page of two, two failures or crashes; one resource of every kind in groups that ask about each other, two failing calls, or resources that come and go; two machines, functions and classic load balancers with a page of one, so that a list may leave out either, and one failing call |
| `aws_live` | Are batches complete, is the channel closed after the last send, do crawls and workers end next to an abandoned crawl? Is every old flow file handled once errors cease? | two crawls, two regions with one kind, the bucket worker: a crawl may give up with one worker running; three objects, one failure (a full page of objects that are no flow logs would stop the crawler for good) |
| `aws_scopes` | Do all elements have the scope in their ID? **No** (findings) | the network resources of `aws` |
| `databases` | What may a failed or short query cost (`BatchesComplete`, `KeysShown`), is a relation ever untrue, and is what stays shown in the end? | PostgreSQL: two schemas with a foreign key between them; MariaDB: three tables, constraints that share a name; MongoDB: three databases, a collection larger than a sample; two failures, or one and two changes of the schema |
| `databases_all` | Are all tables retrieved when nothing fails? **No** (findings) | the PostgreSQL database with an index outside the search path |
| `platforms` | Kubernetes, GCP and GCP's flow logs: do relations lead to elements of their batch and are they true (`RelationsResolved`), is a failure local, is no flow lost for an unknown reason (`FlowsShown`), is what stays shown and what goes not (`ShownInTheEnd`)? | one object of every kind that takes part in a relation, two namespaces sharing a chart, any two failing calls; or some of them that come and go, a bare ingress among them; a headless service; a zone whose name begins like another region's; two machines, service accounts, members of a group and zones with a page of one; four windows of flow logs |
| `gcp_flow_ends` | Is a relation between two machines between the ends of a flow? **No** (findings) | the flow-log part of `platforms` |

Runs whose module puts several modules side by side choose one of them in the initial state; the
parts share nothing, as in the program, where a crawler meets the others only at the channel.

Every passing run visits every action of its modules, and every property of one is violated by at
least one mutant of the code (`mutants`).

**Fairness.** `StoreCrawls`, the traversals, `Serve` and each crawl are single goroutines whose calls
return, with a result or an error: weak fairness. Sends by clients, commits of other connections,
failures, changes of what is crawled and crashes get none; their numbers are bounded, which
reads "once errors cease" for what holds in the end. The ticker of a crawler goes on. Callers of the
runner and goroutines of `FlowLogs` get strong fairness each: a Go mutex in starvation mode hands over
in order, so a caller that finds it free again and again does get it. A process that migrates gets
strong fairness, `Start` included: that somebody restarts a program that ended is an assumption, needed
for `ReadyInTheEnd` alone. The run of the AWS pool needs less than `AwsPool` states.

Deadlock is not checked where the system may stop: traversals, calls, Start and rules that come to an
end, an AWS process that died, a flow-log clock at its bound.

### Findings

* `path_shortest` – `ports/repositories.go:221` promises a shortest path, but with PostgreSQL the
  levels are read from different snapshots, and a crawl that commits between them can make the answer
  longer than the shortest path in every state the table was in that holds the answer's
  relationships. `NoShorterAtStart` and `FoundIsPath` state what the search does guarantee.
* `databases_all` – `crawl_elements.go:274` of the PostgreSQL crawler casts a bare index name to
  `regclass`; an index outside the search path fails, and its table gets no element, in every crawl.
* `aws_scopes` – `vpc.go:60` mixes up name and ID, so the element of a VPC goes without the scope and
  the relations to it end nowhere.
* `gcp_flow_ends` – `flowlogs.go:53` makes both names of a flow between virtual machines of its
  destination.

**Lists are read to the end of their first page.** AWS and Google answer lists in pages and say where the
next one starts; the crawlers of both never ask for it (for example `vpc.go:433`, `599`, `652`, `722`, `845`,
`986`; `crawl_elements.go:75`, `184`, `254`, `295`, `321`, `351` and `iam_crawl_elements.go:207`, `228` of GCP;
`flowlogs.go:30`). In an account or project with more than a page of something, what is beyond it is in
no batch of any crawl, and no call fails. No doc of the repository says otherwise, so this is no finding, but
it limits what is checked and proved: `ResourcesShown`, `RelationsResolved`, `FailureIsLocal`, `FlowsShown`
and `ShownInTheEnd`, and the theorems that state them, are about what is on the page.

**An ingress can keep a cluster from being shown.** A rule for a host alone has no `http`, a path of
networking/v1 may name a resource instead of a service; the crawler dereferences both (`kube.go:795`, `830`,
`831`, `865`), and the process panics with all its crawlers, again in each crawl after a restart. So
`ShownInTheEnd` asks that no such ingress stays.

Other disagreements met while modelling, which no run is about: the zones of a region are asked for by prefix
(`crawl_elements.go:45` of GCP), so `europe-west1` gets those of `europe-west10`, too; the policy of a Cloud
Run service is asked for by its bare name (`iam_crawl_elements.go:290`), so its bindings are never shown;
the relations between a SQL instance
and a machine are reversed (`flowlogs.go:148-153`); five seconds between two windows of the GCP flow
logs are in neither (a cause of loss in `FlowsShown`); `runner.go:118` skips the validation of mappings
unless `gcp_flows` is `"true"`, while `gcp.go:75-76` enables flows for any value; comments of the
Kubernetes and MongoDB crawlers say that nothing is shipped after an error where a short batch is;
`DescribeNodegroup` is called without the name of its cluster (`vpc.go:890`), so node groups and
their autoscaling groups are never related to it; a database still being created has no
endpoint and is dereferenced all the same (`vpc.go:671`, not modelled); security groups of databases
and availability zones are related by name; the root of an exploration is chosen without the type the
tool was asked for (`store.go:658`), so another asset of the same id may become it;
`find_relationship_path` forgets the data sources once the ends are resolved (`server.go:396`); the
`crawl_run_id` that `run_crawl` returns is the runner's own and no id of `crawl_runs`; failed crawls
are not stored although `CrawlRunSummary` says "completed or failed" (`ports/repositories.go:151`).

## 4. The proofs

All theorems hold for every value of the constants under the assumptions named in the modules.

**Ingest.** The assumptions are `CatalogAssumption` and `IngestAssumption`; there is no bound on the
batches, the capacity, the number of failures or of crashes. `Ingest_proofs` goes through four
invariants, each stronger than the one before:

| Invariant | Adds | Needed because |
|---|---|---|
| `Typed` | `TypeOK`; `Control` ties the loop index to the sequence it indexes | `out[pos]` is an element only while the loop has not ended |
| `Integrity` | `FreshRun` (the run of the batch in hand is in no catalog before its INSERT), `Progress` (what the executed statements have put into the working copy), the foreign keys of both catalogs, payloads of all assets but the one in hand | a foreign key of the committed catalog follows only from those of the working copy it is replaced by, and these from the order of the statements |
| `History` | `Working` (the open transaction extends the committed catalog, and each row in it is the committed one or stored by the current run), `Loop` (elements before `pos` are stored as this run wants them), completeness and provenance of the committed catalog | what a commit publishes about its run is known only from what the loop has done; that older runs are still complete, only from the rows that are kept |
| `Refined` | `Integrity` and what both catalogs are shaped like (`IsCatalog`); `Dedup`: `out` is what `dedup` keeps of the part of the batch it has read; `WorkingCopy`: the open transaction is the committed catalog after exactly the elements stored so far | that a commit is the one atomic effect of its batch follows only if the working copy is, statement by statement, that effect cut short |

`Typed` gives `TypeCorrect`; `Integrity` gives `CommittedForeignKeys`, `NoStatementRefused` and
`PayloadsPresent`; `History` gives `RunsComplete`, `Provenance` and `HistoryIsKept`; `Refined` gives
`WorkingCopyIsPrefix` and the refinement. Lemmas about the operators of `Catalog` say what each
write statement leaves in each table and that the catalog stays well formed; `*Leaves`, `*KeepsFK` and
`*Kept` say which rows, references and `first_seen` values survive it. Each step lemma (`TypedStep`,
`IntegrityStep`, `HistoryStep`, `RefinedStep`) has one case per action.

**The refinement.** `IngestIsAtomic` is `Spec => Atomic!Spec` under the mapping of `IngestRefinement`.
`InitRefines` maps the initial states; `StepRefines` has one case per action: receiving, `dedup` and the
statements stutter, a commit is the abstract effect, a batch that is refused or lost to a crash is
dropped, and a restart stutters. The effect of a batch is defined over whole sets of elements, the code
works through a sequence, so the lemmas in between say how the tables after `n` elements become those
after `n + 1` (`AssetsAfterOneMore` and its siblings), that no element says the same twice after `dedup`,
and that the tables after all of them are the effect (`CommitIsEffect`). Where a last or first
position is needed, it is taken from the well-founded order of the natural numbers (`WFMin` of the
library), not from an induction.

**AWS pool.** `AwsPool_proofs` assumes `AwsPoolAssumption` only. Its invariant `IInv` ties the WaitGroup to
the set of active workers (`Counted`: the count is their number, so zero means that all have ended),
says that workers are started in order by the crawl in progress only (`Progress`), that a channel is
closed only after them (`Closing`), that the messages collected are those sent less those on the channel
(`Accounted`), and that the crawl of a batch is over (`Over`), so that a batch, once complete, stays so.

**Runner.** `Startup_proofs` has any number of callers and data sources. Its `IInv` says that at most one
caller holds the mutex (`Exclusive`), what comes with `started` – the run ID, valid mappings, and before
it nothing launched – (`StartedOnce`), that the loop in progress has launched exactly what it has visited
while nobody reads (`Launching`), that every data source with a crawler is launched once the loop has
ended (`Launched`), that whoever is done was given the run ID (`Answered`), and that a caller that came
after the start was completed finds it so (`LateOnes`). From it follow `NeverTwice`, `OneAnswer` and
`RejectionHolds`: the window between looking at `started` and taking the mutex again does no harm
because `Start` looks again under it. `RacesAreSafe` says the three of `Startup`.

**Configuration.** Assumed are the `Parameters` of `CrawlerConfig`: configurations are sequences of data sources
of the eight types, with any pairs. `LoopIInv` says what a constructor has read of the pairs so far: its
interval is that of the last crawl interval before the pair it is at, or the default (`IntervalRead`), and
a scope it holds is that of a scope pair before it (`ScopeRead`); and that the same is so of crawlers
whose goroutine has not run yet (`LoopConstructed`), with all pairs. The lemmas in front say what each constructor
makes of any pair (`PairReads` and its parts) and that an interval that did not wrap more than once is
positive only if it is what was configured (`WrappedOnce`). `ConfiguredAsLoaded` follows.

**Migrations.** `Metrics_proofs` assumes `Last` and `MaxStops` in `Nat` and any number of processes. Its
`IInv` says that every version before the one a process looks at is applied (`Passed`), that at most one
transaction has changed the schema, and that the schema is one short of it (`ChangesAlone`); so the commit
moves schema and record together (`RecordIsTrue`), and a process that has left the loop has a current
schema (`ReadyIsCurrent`).

**Metric rules and Istio flows.** Also in `Metrics_proofs`; assumed are the types of what is declared
and answered (`MetricsAssumption`). `RulesIInv` says that the crawler's rules are those of the accepted
configuration (`OfConfig`), so that an id means one rule (`RulesDiffer`); that a trigger, made or shipped, is
of such a rule and named after its id and its targets (`FromRules`), so that two of one name are one
(`NamesDiffer`); and that what a rule was answered in the crawl has its trigger (`Reported`). `IstioIInv`
says of the samples gone through, in whatever order, that the pairs and source pods remembered are theirs
(`Remembered`), that each relation is in the list as often as sources reported it, or once, counted
place by place (`Often`, with `TimesTwo` for what a sample appends), and that pods are related exactly as
they reported (`PodsOf`). `AnswersAreShown` and `TriggersStay` follow.

**Flow logs.** `Aws_proofs` assumes `FlowLogsAssumption`: any number of goroutines, keys, failures. Its
`IInv` says that a goroutine without a listing holds nothing and that the state file is truncated while it
is about to be written (`Quiet`), that marks are keys of objects that are there and the one in memory is
never behind (`Marks`), that what is left of a listing lies behind the mark and has left out nothing in
front of its last object that is not known to be so (`Listed`), that the mark of a crawl under way
accounts for what is in front of it (`MarkAccounted`), and that what was shipped, or is about to be, is in front
of the mark and in the hands of one goroutine, until a mark is lost (`Once`). `NothingLostSilently` and
`NeverShippedTwice` follow. The second is about goroutines that send after they have given up the
mutex: what they hold is in front of the mark written under it, so nobody lists it again. `FlowsAreKept`
says the same of the composition `Aws`, whose other steps leave the flow logs alone.

**AWS crawler.** `Aws_proofs` assumes `AwsAssumption`: any number of accounts, each with resources, failing
calls and changes of its own; the one thing asked of resources is that a function outside a VPC has no
subnets and no security groups. `RsIInv` says that a worker asks only about what it lists, in its region
(`RsControl`); that a resource that stayed is, with its relations, among what its worker found, or a call it
hangs on is still to be made, or one failed, or it was beyond the page, and it is excused (`RsFound`);
that the same holds of the relation of a cluster to each instance tagged with it, which comes from a later call about the cluster (`RsTagsFound`);
and that both hold of the batch sent last (`RsSent`). Most workers only add to what they found, so one lemma
about an answer that adds and one about a call that fails serve every action, and what is special about
a call is only what it settles. That relations between resources are among what the elements of either carry
(`RsLinked`) turns the invariant into `ResourcesAreShown`.

**Path search.** `Traversals_proofs` asks of `Searches` and `PathRows` only their types: any graph, any
number of hops, of commits between the levels, of snapshots. `SearchIInv` says where each phase of the
search stands (`SearchPhases`), that the rows through which nodes were first seen lead from the start to
each node to expand without a repetition, in as many steps as levels were read, and that `buildPath` walks
such a trail back (`SearchTrails`), and that nothing a walk of that many steps over the graph of the start
reaches was missed (`SearchCovered`). `AnswersArePaths`, `PathsAreShortest` and `NotFoundIsTrue` follow.
A walk is a function on `0..k`, so there is no recursion to unfold: that a walk leaves the nodes
seen, or enters them, at some step is the least number principle again.

**Topology.** `Traversals_proofs` asks of `Queries` and `Rows` only their types. Its `IInv` says that the
nodes seen are the root and the ends of the relationships kept (`Visited`), that both are counted within
the bounds of the query (`Bounded`), that each node is reached over the answer in at most as many hops as
levels were read (`Reached`), and that unless truncated, what has been expanded has every relationship it
had at the start among those kept or still to be scanned (`Expanded`). `StaysWithinBounds`,
`StaysConnected` and `NothingLeftOut` are its conjuncts at the end.

**Tools.** Assumed are the tools' `Parameters`, the types of what is stored and asked. `ToolsIInv` says that
batches are resolved in the order they were sent (`ToolsInOrder`), that an asset has the metadata of the
element that wrote it last (`ToolsAssetsTrue`), that its payload was the last seen when that was written and
that the payload of every write is there (`ToolsPayloadsTrue`), and that what was shown or resolved is there
and a tool goes on with the one asset it resolved (`ToolsServing`). The answer of `get_asset` joins an asset
to the newest of its payloads: `ToolsNewestExists`, `ToolsOneLatest` and `ToolsLatestIsLast` say that there is
one, and whose it is unless a batch was stored after a newer one. `ShownAsCrawled` and `ShownIsFound` follow:
what a tool shows of an asset is one element some crawl sent, and what one answer shows is found by later
calls.

**Traversals.** The run puts the search, the explorations and the tools side by side in `Traversals`; its
properties are those of the instances. The lemmas about the search and the tools are about the instances
`Path` and `Tools` themselves, so every step of the composition is a step of one of them or leaves it alone;
`FoundPathsArePaths`, `NoneWasShorter`, `ShownAssetsAreCrawled` and `ShownAssetsStay` are the theorems above,
stated of `TraversalsSpec` and the run's own properties.

**Databases.** `Databases_proofs` assumes `DatabasesAssumption`: any number of databases of the three kinds, each
with objects, failures and changes of its own. The crawlers are instances parametrised by the name of the
database, and each has an inductive invariant. PostgreSQL (`PgIInv`): while nothing changes, a table with no
cause to be missing is in a schema still to come, still to be read, in hand, or in the slice that grows
(`PgKept`, `PgSettled`); a table of the batch has its foreign keys there or still among those to be
read (`PgKeysKept`); and every relation leads to what the slice holds or what is above it
(`PgBatchesResolved`). MariaDB (`MaIInv`): a table there all the time is still to be read, in hand, or in the
batch (`MaKept`), with its indexes (`MaIndexesKept`) and keys (`MaKeysKept`) but those whose own query
failed; constraints are looked up by name, so a relation comes from some key of that name
(`MaTrueKeys`). MongoDB (`MoIInv`): one batch was sent for each database behind the crawl (`MoOrder`), the
collection in hand has what was asked for so far and small ones are whole (`MoSmalls`), and
references lead to collections of the database (`MoTrueRefs`). `Invariant` puts them together; a step
of one crawler is none of the others', because the names are disjoint.

**Kubernetes, GCP and its flow logs.** `Platforms_proofs` assumes `PlatformsAssumption`: any number of clusters,
projects and logs, each with the `Parameters` of its crawler – what an object of a kind refers to, that
a cluster names its nodes and its namespaces apart, that an address of a SQL instance is no pod's. Each crawler
has an inductive invariant.

Kubernetes (`KuIInv`): a cluster-wide object that stayed is among the global elements once its list was read
(`KuGlobalHas`), an object of the namespace in hand is in the batch once its kind was (`KuBatchHas`), or is
still among those whose pods are looked up (`KuTodoHas`), and all of them are in a batch that was shipped
(`KuSentHas`); a failed call excuses exactly its kind, and a crawl that dies on an ingress forgets all it held, like one
that dies on a failed call (`KuDiesIInv`). A chart is named after its namespace, so that what a crawl
remembers of another one hides none of this batch (`KuChartsKept`); the relations say only what is
shown or remembered of nodes (`KuSound`).

GCP (`GcIInv`): `GcIndex` puts the calls of a crawl in order, and for each resource that stayed, each call behind the
crawl has put into the batch what it owes it (`GcDue`: elements and links, zones of included regions, members
of groups and pools, bindings with their roles), or is excused, because the call failed or the resource was beyond
its page (`GcPageShown`: every list notes in `excused` what its page left out, so that each of its resources is
in the batch or noted). What `iam` holds apart is joined to the batch
only with the identities, so the invariant is about both (`GcGathered`), and about the batch sent last
(`GcShipped`).

Flow logs (`LoIInv`): listings are made at moments that have passed, in order (`LoClocked`), so that an entry whose
window has passed was in the window of a listing or fell between two (`LoSeen`); then it is missed for
a cause, or shipped, or about to be (`LoKept`). What is made of an entry is between its ends (`LoTrue`),
by an owner the address once had. `Invariant` puts them together, and `RelationsAreResolved`,
`FailuresAreLocal` and `FlowsAreShown` follow.

**Only model-checked**, and why:

* Liveness (`BatchesResolved`, `TraversalsEnd`, `CallsReturn`, `OthersLoaded`, `OldFilesHandled`, `CrawlsEnd`,
  `ReadyInTheEnd`, `ShownInTheEnd`): the prover does not know fairness and `ENABLED`.

The type correctness of the ingest pipeline is proved and in no run.

## 5. What is not modelled

* The web application: it displays one answer in a browser and shares nothing.
* Decoding of MCP arguments and YAML, rendering as JSON, formatting of names: libraries, or one
  record in and one out. Columns no statement looks at are one hash or left out.
* Several AWS flow-log data sources. They share `./flowLogsState.json` and the package-level column
  index, so each moves the other's mark; the properties of `FlowLogs` cannot hold for both buckets, and
  nothing in the code says how many may be configured.
* The `Mappings` type of `internal/cloud/utils`, which nothing in the program uses; the look-up it wraps is
  in `GcpFlowLogs` and its validation in `Runner`.
* Context cancellation (the write path has `context.Background()`), wall-clock time other than in
  the flow logs, and nil dereferences on answers an API does not document.
* The rows of a flow-log file, their pairing, and the SQL of a migration: represented by the file,
  and by the schema a migration needs and makes.
