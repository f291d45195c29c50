---------------------------- MODULE GcpFlowLogs ----------------------------
(***************************************************************************)
(* The flow logs of the GCP crawler (internal/cloud/gcp): every crawl asks *)
(* Cloud Logging for the entries of a window counted back from the clock   *)
(* of that moment, and turns each into relations between virtual machines, *)
(* pods, deployments and SQL instances.  A crawl may take longer than the  *)
(* interval of its ticker, entries may arrive late, calls may fail, and a  *)
(* SQL instance may give its address to another.                           *)
(*                                                                         *)
(* An internal name is <<zone or cluster UID, type, name>>.  An end of a   *)
(* flow is [vm, cluster, pod, deployment, ip]: <<>> and "" stand for a     *)
(* part the entry does not have, and a pod has its namespace with it.      *)
(***************************************************************************)
EXTENDS Naturals, FiniteSets, Sequences

CONSTANTS Entry,         \* [src, dst, sql]: sql the ends whose port is 5432 or 3306
          Times,         \* when an entry may be logged
          ClusterUIDs,   \* cluster -> the values external_mappings may give for it
          Instance,      \* names of SQL instances
          Address,       \* their private addresses
          PageSize,      \* entries of the first page
          Interval,      \* crawlInterval
          Margin,        \* the 5 seconds
          MaxTime, MaxFailures, MaxChanges

NoVM == <<>>
Absent == ""
Nobody == <<>>

(* The clock starts where a window does not reach back beyond its start,   *)
(* and no pod has the address of a SQL instance.                           *)
Parameters ==
    /\ Times \subseteq Nat
    /\ Interval \in Nat /\ Margin \in Nat /\ MaxTime \in Nat /\ 4 * Interval <= MaxTime
    /\ MaxFailures \in Nat /\ MaxChanges \in Nat
    /\ \A e \in Entry : \A x \in {e.src, e.dst} : x.ip \in Address => x.pod = Absent
    /\ \A e \in Entry : e.sql \subseteq {"src", "dst"}

VARIABLES now,
          tick,              \* what the channel of the ticker holds: a tick or none
          pc,
          time,              \* when each entry is logged
          arrived,           \* the entries Cloud Logging knows
          owner,             \* the SQL instance that has an address
          internalIDMapper,  \* address -> name of a SQL instance
          relations,         \* what the crawl has made of the entries
          sent,              \* relations shipped so far
          failures, changes,
          owned,             \* ghost: pairs of an address and an owner it has had
          listings,          \* ghost: when each listing was made
          missed             \* ghost: entries of a window that its listing did not return

logging == <<time, arrived>>
address == <<owner, owned, changes>>
vars == <<now, tick, pc, logging, address, internalIDMapper, relations, sent,
          failures, listings, missed>>
-----------------------------------------------------------------------------
Vm(x) == <<x.vm[1], "instance", x.vm[2]>>
Pod(uid, x) == <<uid, "pod", x.pod>>
Deployment(uid, x) == <<uid, "deployment", x.deployment>>

(* GetMappingValue: a name that matches several patterns gets the value of *)
(* the one a Go map yields first.                                          *)
UIDs(x) == ClusterUIDs[x.cluster]

(* Both names are made of the destination.                                 *)
VmRelations(e) ==
    IF NoVM \in {e.src.vm, e.dst.vm} THEN {} ELSE {<<Vm(e.dst), Vm(e.dst)>>}

(* Mutant: the two clusters are mixed up. *)
GkeRelationsMixed(e, s, d) ==
    (IF Absent \in {e.src.pod, e.dst.pod} THEN {} ELSE {<<Pod(s, e.src), Pod(s, e.dst)>>})
    \union (IF Absent \in {e.src.deployment, e.dst.deployment} THEN {}
            ELSE {<<Deployment(s, e.src), Deployment(d, e.dst)>>})

GkeRelations(e, s, d) ==
    (IF Absent \in {e.src.pod, e.dst.pod} THEN {} ELSE {<<Pod(s, e.src), Pod(d, e.dst)>>})
    \union (IF Absent \in {e.src.deployment, e.dst.deployment} THEN {}
            ELSE {<<Deployment(s, e.src), Deployment(d, e.dst)>>})

SqlIP(e) == IF "dst" \in e.sql THEN e.dst.ip ELSE e.src.ip

(* Pods of deployments are related in the direction of the flow, the       *)
(* virtual machines against it.                                            *)
Workload(x, u) == {Pod(u, x), Deployment(u, x)}
Mappable(x) == x.pod # Absent /\ x.deployment # Absent /\ UIDs(x) # {}
Workloads(x) == IF Mappable(x) THEN {Workload(x, u) : u \in UIDs(x)} ELSE {{}}
Machines(x) == IF x.vm = NoVM THEN {} ELSE {Vm(x)}
SqlRelations(e, sql, from, to) ==
    {<<w, sql>> : w \in from} \union {<<sql, w>> : w \in to}
    \union {<<sql, v>> : v \in Machines(e.src)} \union {<<v, sql>> : v \in Machines(e.dst)}

(* An address that no listed instance has is not in the cache.             *)
Cached(a) == a \in Address /\ internalIDMapper[a] # Nobody

(* What the loop may make of an entry.                                     *)
BetweenClusters(e) == Absent \notin {e.src.cluster, e.dst.cluster}
Made(e) ==
    IF BetweenClusters(e)
    THEN IF {} \in {UIDs(e.src), UIDs(e.dst)} THEN {VmRelations(e)}
         ELSE {VmRelations(e) \union GkeRelations(e, s, d) : s \in UIDs(e.src), d \in UIDs(e.dst)}
    ELSE IF e.sql = {} \/ ~Cached(SqlIP(e)) THEN {VmRelations(e)}
         ELSE {VmRelations(e) \union SqlRelations(e, internalIDMapper[SqlIP(e)], from, to) :
                  from \in Workloads(e.src), to \in Workloads(e.dst)}

(* Mutant: the first moment of the window is not in it. *)
InWindowShort(t, at) == t + 4 * Interval > at /\ t + 3 * Interval + Margin <= at

(* The entries from four intervals ago to the margin before three.         *)
InWindow(t, at) == t + 4 * Interval >= at /\ t + 3 * Interval + Margin <= at
-----------------------------------------------------------------------------
SqlName(s) == <<"zone", "sql", s>>

Init ==
    /\ now = 4 * Interval
    /\ tick = FALSE
    /\ pc = "idle"
    /\ time \in [Entry -> Times] /\ arrived = {}
    /\ owner \in [Address -> {SqlName(s) : s \in Instance}]
    /\ internalIDMapper = [a \in Address |-> Nobody]
    /\ relations = {} /\ sent = {}
    /\ failures = 0 /\ changes = 0
    /\ owned = {<<a, owner[a]>> : a \in Address}
    /\ listings = <<>> /\ missed = {}

(* Time passes.  A tick nobody has taken makes the ticker drop the next.   *)
Pass ==
    /\ now < MaxTime
    /\ now' = now + 1
    /\ tick' = (tick \/ now' % Interval = 0)
    /\ UNCHANGED <<pc, logging, address, internalIDMapper, relations, sent, failures, listings, missed>>

(* An entry gets to Cloud Logging, at once or late.                        *)
Arrive(e) ==
    /\ e \notin arrived /\ time[e] <= now
    /\ arrived' = arrived \union {e}
    /\ UNCHANGED <<now, tick, pc, time, address, internalIDMapper, relations, sent, failures, listings, missed>>

Reassign(a, s) ==
    /\ changes < MaxChanges /\ owner[a] # SqlName(s)
    /\ changes' = changes + 1
    /\ owner' = [owner EXCEPT ![a] = SqlName(s)]
    /\ owned' = owned \union {<<a, owner'[a]>>}
    /\ UNCHANGED <<now, tick, pc, logging, internalIDMapper, relations, sent, failures, listings, missed>>

Tick ==
    /\ pc = "idle" /\ tick
    /\ tick' = FALSE
    /\ pc' = "sql"
    /\ UNCHANGED <<now, logging, address, internalIDMapper, relations, sent, failures, listings, missed>>

Fails ==
    /\ failures < MaxFailures
    /\ failures' = failures + 1

(* getSqlInstances: an address the cache has is never looked at again.     *)
ListSqlInstances ==
    /\ pc = "sql" /\ pc' = "flows"
    /\ \/ /\ internalIDMapper' = [a \in Address |-> IF internalIDMapper[a] = Nobody THEN owner[a]
                                                    ELSE internalIDMapper[a]]
          /\ UNCHANGED failures
       \/ Fails /\ UNCHANGED internalIDMapper
    /\ UNCHANGED <<now, tick, logging, address, relations, sent, listings, missed>>

(* getFlowLogsRelationships asks for one page and never for the next; with *)
(* an error the crawl goes on without the flows.                           *)
ListFlows ==
    /\ pc = "flows" /\ pc' = "ship"
    /\ listings' = Append(listings, now)
    /\ LET due == {e \in Entry : InWindow(time[e], now)}
           found == due \intersect arrived IN
       \/ \E page \in SUBSET found :
             /\ Cardinality(page) <= PageSize
             /\ Cardinality(page) = PageSize \/ page = found
             /\ \E made \in [page -> UNION {Made(e) : e \in page}] :
                   /\ \A e \in page : made[e] \in Made(e)
                   /\ relations' = UNION {made[e] : e \in page}
             /\ missed' = missed \union (due \ page)
             /\ UNCHANGED failures
       \/ /\ Fails
          /\ missed' = missed \union due
          /\ UNCHANGED relations
    /\ UNCHANGED <<now, tick, logging, address, internalIDMapper, sent>>

Ship ==
    /\ pc = "ship" /\ pc' = "idle"
    /\ sent' = sent \union relations
    /\ relations' = {}
    /\ UNCHANGED <<now, tick, logging, address, internalIDMapper, failures, listings, missed>>

CrawlStep == Tick \/ ListSqlInstances \/ ListFlows \/ Ship
World ==
    \/ Pass
    \/ \E e \in Entry : Arrive(e)
    \/ \E a \in Address, s \in Instance : Reassign(a, s)
Next == CrawlStep \/ World

Spec == Init /\ [][Next]_vars
-----------------------------------------------------------------------------
(* Every variable has its type, and the cache knows only owners there were. *)
TypeOK ==
    /\ now \in 0..MaxTime /\ tick \in BOOLEAN
    /\ arrived \subseteq Entry /\ missed \subseteq Entry
    /\ \A a \in Address : <<a, owner[a]>> \in owned
    /\ \A a \in Address : internalIDMapper[a] = Nobody \/ <<a, internalIDMapper[a]>> \in owned
    /\ relations # {} => pc = "ship"
    /\ failures \in 0..MaxFailures /\ changes \in 0..MaxChanges

(* The names an end of a flow may have, by what it is.                     *)
Kube(x) == {Pod(u, x) : u \in UIDs(x)} \union {Deployment(u, x) : u \in UIDs(x)}
Sql(x) == {o[2] : o \in {p \in owned : p[1] = x.ip}}
EndsOf(x) == Kube(x) \union Machines(x) \union Sql(x)

(* A relation with a pod or a deployment goes from the source of a logged  *)
(* flow to its destination, each under the UID of its own cluster; a SQL   *)
(* instance has, or has had, the address of that end.  Those of machines   *)
(* do not: see VmRelations and SqlRelations.                               *)
IsKube(n) == n[2] \in {"pod", "deployment"}
FlowsTrue ==
    \A r \in sent : IsKube(r[1]) \/ IsKube(r[2]) =>
        \E e \in arrived : r \in EndsOf(e.src) \X EndsOf(e.dst)

(* Nothing is lost but in three ways: the entry came after the listing or  *)
(* was not on its page, the call failed, or the entry fell between the     *)
(* windows of two listings further apart than a window is long.            *)
Between(e) == \E i \in 1..(Len(listings) - 1) :
    /\ listings[i + 1] - listings[i] > Interval - Margin
    /\ listings[i] < time[e] + 3 * Interval + Margin
    /\ time[e] + 4 * Interval < listings[i + 1]
Mapped(e) ==
    /\ BetweenClusters(e) /\ {} \notin {UIDs(e.src), UIDs(e.dst)}
    /\ Absent \notin {e.src.pod, e.dst.pod} \/ Absent \notin {e.src.deployment, e.dst.deployment}
Passed(e) ==
    /\ pc = "idle" /\ listings # <<>>
    /\ listings[1] <= time[e] + 4 * Interval
    /\ time[e] + 3 * Interval + Margin <= listings[Len(listings)]
Shown(e) == \E r \in sent : r \in Kube(e.src) \X Kube(e.dst)
FlowsShown ==
    \A e \in Entry : Mapped(e) /\ Passed(e) => Shown(e) \/ e \in missed \/ Between(e)

(* "GCP VPC flow logs are collected" (README.md:162): a relation between   *)
(* two virtual machines goes from the source of a flow to its destination. *)
FlowsCollected ==
    \A r \in sent : r[1][2] = "instance" /\ r[2][2] = "instance" =>
        \E e \in arrived : r \in Machines(e.src) \X Machines(e.dst)
=============================================================================
