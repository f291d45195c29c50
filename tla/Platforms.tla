----------------------------- MODULE Platforms -----------------------------
(***************************************************************************)
(* The crawlers of Kubernetes and of GCP and GCP's flow logs, one at a     *)
(* time: the process runs one for each data source, and they share nothing *)
(* but the channel.  A cluster, a project or its flow logs are given with  *)
(* what may exist in them, what may fail and what may change.              *)
(***************************************************************************)
EXTENDS Naturals, FiniteSets, Sequences, TLC

CONSTANTS Settings,                      \* what is crawled, by name
          Clusters, Projects, FlowLogs   \* name -> the constants of its crawler

VARIABLES setting,       \* the cluster, project or logs whose crawler runs
          live, changes, pc, batch, todo, failures, steady, excused,   \* of both crawlers
          nodeNames, global, namespaces, current, charts, legacyFailed, sent,  \* Kubernetes
          bindings, cache, iam, project,                               \* GCP
          now, tick, time, arrived, owner, internalIDMapper, relations, flows,
          owned, listings, missed                                      \* flow logs

common == <<live, changes, pc, batch, todo, failures, steady, excused>>
ofKube == <<nodeNames, global, namespaces, current, charts, legacyFailed, sent>>
ofGcp == <<bindings, cache, iam, project>>
ofLogs == <<now, tick, time, arrived, owner, internalIDMapper, relations, flows, owned, listings, missed>>
vars == <<setting, common, ofKube, ofGcp, ofLogs>>

Kube(c) == INSTANCE KubeCrawler WITH
    Object <- Clusters[c].Object, Initially <- Clusters[c].Initially,
    Mapped <- Clusters[c].Mapped, RetinaFlows <- Clusters[c].RetinaFlows,
    Fallible <- Clusters[c].Fallible,
    MaxFailures <- Clusters[c].MaxFailures, MaxChanges <- Clusters[c].MaxChanges
Gcp(p) == INSTANCE GcpCrawler WITH
    sent <- project, Resource <- Projects[p].Resource, Initially <- Projects[p].Initially,
    IncludedRegions <- Projects[p].IncludedRegions, Predefined <- Projects[p].Predefined,
    Spelled <- Projects[p].Spelled, PageSize <- Projects[p].PageSize,
    Fallible <- Projects[p].Fallible,
    MaxFailures <- Projects[p].MaxFailures, MaxChanges <- Projects[p].MaxChanges
Logs(l) == INSTANCE GcpFlowLogs WITH
    sent <- flows, Entry <- FlowLogs[l].Entry, Times <- FlowLogs[l].Times,
    ClusterUIDs <- FlowLogs[l].ClusterUIDs, Instance <- FlowLogs[l].Instance,
    Address <- FlowLogs[l].Address, PageSize <- FlowLogs[l].PageSize,
    Interval <- FlowLogs[l].Interval, Margin <- FlowLogs[l].Margin,
    MaxTime <- FlowLogs[l].MaxTime,
    MaxFailures <- FlowLogs[l].MaxFailures, MaxChanges <- FlowLogs[l].MaxChanges

ASSUME PlatformsAssumption ==
    /\ \A c \in DOMAIN Clusters : Kube(c)!Parameters /\ c \notin DOMAIN Projects \union DOMAIN FlowLogs
    /\ \A p \in DOMAIN Projects : Gcp(p)!Parameters /\ p \notin DOMAIN FlowLogs
    /\ \A l \in DOMAIN FlowLogs : Logs(l)!Parameters
-----------------------------------------------------------------------------
NoCommon == live = {} /\ batch = {} /\ todo = {} /\ steady = {} /\ excused = {}
NoKube ==
    /\ nodeNames = <<>> /\ global = {} /\ namespaces = {} /\ current = {}
    /\ charts = {} /\ legacyFailed = FALSE /\ sent = {}
NoGcp == bindings = {} /\ cache = {} /\ iam = {} /\ project = [elements |-> {}, relations |-> {}]
NoLogs ==
    /\ now = 0 /\ tick = FALSE /\ time = <<>> /\ arrived = {} /\ owner = <<>>
    /\ internalIDMapper = <<>> /\ relations = {} /\ flows = {} /\ owned = {}
    /\ listings = <<>> /\ missed = {}

Init ==
    /\ setting \in Settings
    /\ \/ \E c \in DOMAIN Clusters : setting = c /\ Kube(c)!Init /\ NoGcp /\ NoLogs
       \/ \E p \in DOMAIN Projects : setting = p /\ Gcp(p)!Init /\ NoKube /\ NoLogs
       \/ \E l \in DOMAIN FlowLogs : setting = l /\ Logs(l)!Init /\ NoCommon /\ NoKube /\ NoGcp

OnlyKube == UNCHANGED <<setting, ofGcp, ofLogs>>
OnlyGcp == UNCHANGED <<setting, ofKube, ofLogs>>
OnlyLogs == UNCHANGED <<setting, live, batch, todo, steady, excused, ofKube, ofGcp>>

Crawl ==
    \/ \E c \in DOMAIN Clusters : setting = c /\ Kube(c)!CrawlStep /\ OnlyKube
    \/ \E p \in DOMAIN Projects : setting = p /\ Gcp(p)!CrawlStep /\ OnlyGcp
    \/ \E l \in DOMAIN FlowLogs : setting = l /\ Logs(l)!CrawlStep /\ OnlyLogs

Change ==
    \/ \E c \in DOMAIN Clusters : setting = c /\ (\E o \in Clusters[c].Object : Kube(c)!Change(o)) /\ OnlyKube
    \/ \E p \in DOMAIN Projects : setting = p /\ (\E o \in Projects[p].Resource : Gcp(p)!Change(o)) /\ OnlyGcp
    \/ \E l \in DOMAIN FlowLogs : setting = l /\ Logs(l)!World /\ OnlyLogs

(* Time is bounded: the flow logs end.                                     *)
End == \E l \in DOMAIN FlowLogs : setting = l /\ now = FlowLogs[l].MaxTime /\ UNCHANGED vars

Next == Crawl \/ Change \/ End

(* Each crawler's own fairness: it ticks, and its calls return.            *)
Spec == Init /\ [][Next]_vars /\ WF_vars(Crawl)
-----------------------------------------------------------------------------
(* Types, and: a relation leads to elements of its batch, charts included, *)
(* whatever fails and changes; of what belongs together in a project and   *)
(* is in the batch, each on the page of its list, the relation is in it    *)
(* too; a relation made of a flow is between the ends of that flow.        *)
RelationsResolved ==
    /\ \A c \in DOMAIN Clusters : setting = c =>
          Kube(c)!TypeOK /\ Kube(c)!RelationsResolved /\ Kube(c)!ChartsPresent
    /\ \A p \in DOMAIN Projects : setting = p =>
          Gcp(p)!TypeOK /\ Gcp(p)!LinksShown /\ Gcp(p)!RolesShown
    /\ \A l \in DOMAIN FlowLogs : setting = l => Logs(l)!TypeOK /\ Logs(l)!FlowsTrue

(* A failing call costs the batches no more than what it would have        *)
(* listed: all else that stayed is there, in a project unless it was       *)
(* beyond the first page, the only one the crawler asks for.               *)
FailureIsLocal ==
    /\ \A c \in DOMAIN Clusters : setting = c => Kube(c)!FailureIsLocal
    /\ \A p \in DOMAIN Projects : setting = p => Gcp(p)!FailureIsLocal

(* A flow between mapped clusters is shown, or its loss has one of three   *)
(* causes: late or beyond the page, a failing call, a gap between windows. *)
FlowsShown == \A l \in DOMAIN FlowLogs : setting = l => Logs(l)!FlowsShown

(* "GCP VPC flow logs are collected" (README.md:162): a relation between   *)
(* two virtual machines is between the ends of a flow.                     *)
FlowsCollected == \A l \in DOMAIN FlowLogs : setting = l => Logs(l)!FlowsCollected
=============================================================================
