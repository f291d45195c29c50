----------------------------- MODULE GcpCrawler -----------------------------
(***************************************************************************)
(* The GCP crawler (internal/cloud/gcp): a crawl lists one kind of         *)
(* resource of the project after the other, looks up the members of groups *)
(* and the policies of resources, and ships one batch of all it got.       *)
(* Every call is a step and may fail; Google answers in pages, and only    *)
(* the first one is asked for; resources come and go between the calls.    *)
(* The flows of a batch are in GcpFlowLogs, its triggers in MetricRules.   *)
(*                                                                         *)
(* An internal name is <<zone or region, type, name>>, the scope left out. *)
(* A resource is [kind, place, name] and what the crawler reads of it; its *)
(* place is the zone or region that its name has, or NoPlace.              *)
(***************************************************************************)
EXTENDS Naturals, FiniteSets, Sequences

CONSTANTS Resource,      \* what may exist
          Initially,     \* the resources there at the start
          IncludedRegions,
          Predefined,    \* the roles Google defines
          Spelled,       \* zone -> the zone as the API spells it
          PageSize,      \* call -> how much it answers with at most
          Fallible,      \* the calls that may fail
          MaxFailures,   \* bound on failing calls
          MaxChanges     \* bound on resources that come or go

(* A region, a zone and a network have no place, a policy is the project's,*)
(* a bucket's or a service's, and a cluster's zone is where it is.         *)
NoPlace == ""
Project == <<NoPlace, "project", "p">>
Compute == {"region", "zone", "instance", "nodegroup", "group", "disk", "network", "subnet"}
IAM == {"account", "role", "binding"}
Parameters ==
    /\ Initially \subseteq Resource /\ MaxFailures \in Nat /\ MaxChanges \in Nat
    /\ \A o \in Resource :
          /\ o.kind \in Compute \union IAM \union {"bucket", "cloudrun", "cluster", "sql"}
          /\ o.kind \in {"region", "zone", "network"} => o.place = NoPlace
          /\ o.kind = "binding" => o.of = Project \/ o.of[2] \in {"bucket", "cloudrun"}
          /\ o.kind = "cluster" => o.zone = o.place
          /\ o.kind = "zone" => o.region \in o.begins

VARIABLES live,          \* the resources of the project
          pc,            \* the next call
          todo,          \* what the second calls of a function are made for
          bindings,      \* of the policy read last, still to be gone through
          cache,         \* predefinedRoleCache
          iam,           \* allIAMElements
          batch,         \* allCrawledElemsAndRelationships
          sent,          \* the batch of the last crawl
          failures, changes,
          steady,        \* ghost: resources there ever since the crawl began
          excused        \* ghost: calls of the crawl that failed, and what
                         \* was beyond the page of one that answered

project == <<live, changes, steady>>
policies == <<bindings, cache, iam>>
vars == <<project, pc, todo, policies, batch, sent, failures, excused>>
-----------------------------------------------------------------------------
Empty == [elements |-> {}, relations |-> {}]
Plus(b, elements, relations) ==
    [elements |-> b.elements \union elements, relations |-> b.relations \union relations]

(* The zone of a node group is taken as the API spells it.                 *)
Place(o) == IF o.kind = "nodegroup" THEN Spelled[o.place] ELSE o.place
Name(o) == <<Place(o), o.kind, o.name>>
Zone(z) == <<NoPlace, "zone", z>>
Region(r) == <<NoPlace, "region", r>>
Network(n) == <<NoPlace, "network", n>>
Subnet(r, n) == <<r, "subnet", n>>
Pool(p) == <<NoPlace, "pool", p.name>>
Account(email) == <<NoPlace, "account", email>>

(* What makes a resource an element, and the relations made with it.       *)
InZone(o) == {<<Zone(Place(o)), Name(o)>>}
InRegion(o) == {<<Region(o.place), Name(o)>>}
InProject(o) == {<<Project, Name(o)>>}
WithDisks(o) == {<<Name(o), <<o.place, "disk", d>>>> : d \in o.disks}
(* Mutant: the region of the network, which has none. *)
WithSubnetsOfPlace(o) == {<<Name(o), Subnet(o.place, s[2])>> : s \in o.subnets}
WithSubnets(o) == {<<Name(o), Subnet(s[1], s[2])>> : s \in o.subnets}
SqlNetwork(o) == {<<Network(n), Name(o)>> : n \in o.network}

(* A cluster, its pools and their groups; the zone of a cluster is taken   *)
(* for a region, which it is for a regional cluster only.                  *)
ClusterLinks(o) ==
    {<<n, Name(o)>> : n \in {Region(o.zone), Network(o.network), Subnet(o.zone, o.subnet)}}
    \union {<<n, Pool(p)>> : n \in {Name(o), Network(o.network), Subnet(o.zone, o.subnet)}, p \in o.pools}
    \union UNION {{<<Pool(p), <<g[1], "group", g[2]>>>> : g \in p.groups} : p \in o.pools}

Elements(o) == {Name(o)} \union IF o.kind = "cluster" THEN {Pool(p) : p \in o.pools} ELSE {}
Links(o) ==
    CASE o.kind \in {"bucket", "subnet"} -> InRegion(o)
      [] o.kind = "instance" -> InZone(o) \union WithDisks(o)
      [] o.kind \in {"nodegroup", "group", "disk"} -> InZone(o)
      [] o.kind = "network" -> WithSubnets(o)
      [] o.kind = "cluster" -> ClusterLinks(o)
      [] o.kind = "sql" -> SqlNetwork(o)
      [] o.kind \in {"account", "role"} -> InProject(o)
      [] OTHER -> {}
-----------------------------------------------------------------------------
Of(kind) == {o \in live : o.kind = kind}
Added(b, found) == Plus(b, UNION {Elements(o) : o \in found}, UNION {Links(o) : o \in found})

(* The calls that follow another, one for each thing it answered with.     *)
In == [region |-> "zones", group |-> "members", cluster |-> "poolMembers",
       bucketPolicies |-> "bucketPolicy", runPolicies |-> "runPolicy"]

(* The first page of a list is all of it, or as much as fits.              *)
FirstPage(call, all) ==
    IF call \notin DOMAIN PageSize \/ Cardinality(all) <= PageSize[call] THEN {all}
    ELSE {page \in SUBSET all : Cardinality(page) = PageSize[call]}
Beyond(call, all, page) == {<<call, Name(o)>> : o \in all \ page}

(* An answer, and one that leaves out what was beyond its page.            *)
Answers == UNCHANGED <<failures, excused>>
AnswersPage(beyond) == UNCHANGED failures /\ excused' = excused \union beyond
Fails(call) ==
    /\ call[1] \in Fallible /\ failures < MaxFailures
    /\ failures' = failures + 1
    /\ excused' = excused \union {call}

(* A list that fails is left out of the batch, nothing else.               *)
List(kind, next) ==
    /\ pc = kind /\ pc' = next
    /\ \/ \E page \in FirstPage(kind, Of(kind)) :
             batch' = Added(batch, page) /\ AnswersPage(Beyond(kind, Of(kind), page))
       \/ UNCHANGED batch /\ Fails(<<kind>>)
    /\ UNCHANGED <<project, todo, policies, sent>>

(* The same for a list whose resources are looked up one by one.           *)
ListForLookup(kind) ==
    /\ pc = kind /\ pc' = In[kind]
    /\ \/ \E page \in FirstPage(kind, Of(kind)) :
             batch' = Added(batch, page) /\ todo' = page /\ AnswersPage(Beyond(kind, Of(kind), page))
       \/ UNCHANGED <<batch, todo>> /\ Fails(<<kind>>)
    /\ UNCHANGED <<project, policies, sent>>
Looked(kind, next) ==
    /\ pc = In[kind] /\ todo = {} /\ pc' = next
    /\ UNCHANGED <<project, todo, policies, batch, sent, failures, excused>>
LookUp(kind, o, elements, relations, beyond) ==
    /\ pc = In[kind] /\ o \in todo
    /\ todo' = todo \ {o}
    /\ \/ batch' = Plus(batch, elements, relations) /\ AnswersPage(beyond)
       \/ UNCHANGED batch /\ Fails(<<In[kind], Name(o)>>)
    /\ UNCHANGED <<project, pc, policies, sent>>
-----------------------------------------------------------------------------
Init ==
    /\ live = Initially /\ changes = 0 /\ steady = {}
    /\ pc = "idle" /\ todo = {}
    /\ bindings = {} /\ cache = {} /\ iam = Empty
    /\ batch = Empty /\ sent = Empty
    /\ failures = 0 /\ excused = {}

(* A resource comes or goes.                                               *)
Change(o) ==
    /\ changes < MaxChanges /\ changes' = changes + 1
    /\ live' = (live \ {o}) \union ({o} \ live)
    /\ steady' = steady \ {o}
    /\ UNCHANGED <<pc, todo, policies, batch, sent, failures, excused>>

(* Mutant: what the crawl before gathered is still in the batch. *)
TickKeeping ==
    /\ pc = "idle" /\ pc' = "bucket"
    /\ batch' = sent
    /\ cache' = {} /\ iam' = Empty
    /\ steady' = live /\ excused' = {}
    /\ UNCHANGED <<live, changes, todo, bindings, sent, failures>>

(* Mutant: the roles asked for are remembered from crawl to crawl. *)
TickCaching ==
    /\ pc = "idle" /\ pc' = "bucket"
    /\ batch' = Empty /\ iam' = Empty
    /\ steady' = live /\ excused' = {}
    /\ UNCHANGED <<live, changes, todo, bindings, cache, sent, failures>>

Tick ==
    /\ pc = "idle" /\ pc' = "bucket"
    /\ batch' = Empty /\ cache' = {} /\ iam' = Empty
    /\ steady' = live /\ excused' = {}
    /\ UNCHANGED <<live, changes, todo, bindings, sent, failures>>

GetBuckets == List("bucket", "cloudrun")
GetCloudRuns == List("cloudrun", "compute")

(* Without a client for Compute Engine none of its lists is asked for.     *)
GetComputeElems ==
    /\ pc = "compute"
    /\ \/ pc' = "region" /\ Answers
       \/ pc' = "cluster" /\ Fails(<<"compute">>)
    /\ UNCHANGED <<project, todo, policies, batch, sent>>

GetLocations ==
    /\ pc = "region" /\ pc' = "zones"
    /\ \/ \E page \in FirstPage("region", Of("region")) :
             LET included == {r \in page : r.name \in IncludedRegions} IN
             /\ batch' = Added(batch, included) /\ todo' = included
             /\ AnswersPage(Beyond("region", Of("region"), page))
       \/ UNCHANGED <<batch, todo>> /\ Fails(<<"region">>)
    /\ UNCHANGED <<project, policies, sent>>
(* Zones are asked for by how their names begin: those of "europe-west1"   *)
(* are those of "europe-west10" too.                                       *)
GetZones(r) ==
    LET zones == {z \in Of("zone") : r.name \in z.begins} IN
    \E page \in FirstPage("zones", zones) :
        LookUp("region", r, {Name(z) : z \in page}, {<<Name(r), Name(z)>> : z \in page},
               {<<"zones", Name(r), Name(z)>> : z \in zones \ page})
GetVMInstances == List("instance", "nodegroup")
GetNodeGroups == List("nodegroup", "group")
GetInstanceGroups == ListForLookup("group")
GetGroupMembers(g) ==
    LET members == IF g \in Of("group") THEN g.members ELSE {} IN
    \E page \in FirstPage("members", members) :
        LookUp("group", g, {}, {<<Name(g), <<g.place, "instance", m>>>> : m \in page},
               {<<"members", Name(g), m>> : m \in members \ page})
(* Mutant: without the disks the function returns. *)
GetDisksReturning ==
    /\ pc = "disk"
    /\ \/ /\ pc' = "network"
          /\ \E page \in FirstPage("disk", Of("disk")) :
                batch' = Added(batch, page) /\ AnswersPage(Beyond("disk", Of("disk"), page))
       \/ pc' = "cluster" /\ UNCHANGED batch /\ Fails(<<"disk">>)
    /\ UNCHANGED <<project, todo, policies, sent>>
GetDisks == List("disk", "network")
GetNetworks == List("network", "subnet")
GetSubNetworks == List("subnet", "cluster")

(* The members of the groups of each pool of each cluster: one call for    *)
(* each, the outcome of which concerns no other.  Of all lists only that   *)
(* of clusters has no pages.                                               *)
GroupsOf(c) == UNION {{[kind |-> "of pool", place |-> g[1], name |-> g[2], cluster |-> c, pool |-> p] :
                          g \in p.groups} : p \in c.pools}
GetGKEClusters ==
    /\ pc = "cluster" /\ pc' = "poolMembers"
    /\ \/ /\ batch' = Added(batch, Of("cluster"))
          /\ todo' = UNION {GroupsOf(c) : c \in Of("cluster")} /\ Answers
       \/ UNCHANGED <<batch, todo>> /\ Fails(<<"cluster">>)
    /\ UNCHANGED <<project, policies, sent>>
Owners(g) == {Name(g.cluster), Pool(g.pool), Network(g.cluster.network),
              Subnet(g.cluster.zone, g.cluster.subnet)}
GetPoolMembers(g) ==
    LET members == UNION {o.members : o \in {x \in Of("group") : <<x.place, x.name>> = <<g.place, g.name>>}} IN
    \E page \in FirstPage("members", members) :
        LookUp("cluster", g, {}, {<<n, <<g.place, "instance", m>>>> : n \in Owners(g), m \in page}, {})
GetSqlInstances == List("sql", "project")
-----------------------------------------------------------------------------
(* Without the project there are no elements of IAM at all.                *)
GetProject ==
    /\ pc = "project"
    /\ \/ pc' = "account" /\ iam' = Plus(iam, {Project}, {}) /\ Answers
       \/ pc' = "ship" /\ UNCHANGED iam /\ Fails(<<"project">>)
    /\ UNCHANGED <<project, todo, bindings, cache, batch, sent>>

ListForIAM(kind, next) ==
    /\ pc = kind /\ pc' = next
    /\ \/ \E page \in FirstPage(kind, Of(kind)) :
             iam' = Added(iam, page) /\ AnswersPage(Beyond(kind, Of(kind), page))
       \/ UNCHANGED iam /\ Fails(<<kind>>)
    /\ UNCHANGED <<project, todo, bindings, cache, batch, sent>>
GetServiceAccounts == ListForIAM("account", "role")
GetCustomRoles == ListForIAM("role", "policy")

BindingsOf(n) == {b \in Of("binding") : b.of = n}

(* Without the project's policy all that was read of IAM is left out.      *)
GetProjectPolicy ==
    /\ pc = "policy"
    /\ \/ pc' = "bucketPolicies" /\ bindings' = BindingsOf(Project) /\ UNCHANGED iam /\ Answers
       \/ pc' = "ship" /\ UNCHANGED bindings /\ iam' = Empty /\ Fails(<<"policy">>)
    /\ UNCHANGED <<project, todo, cache, batch, sent>>

Role(b) == <<NoPlace, "role", b.role>>
Principals(b) == {<<NoPlace, m[1], m[2]>> : m \in b.members}
BindingLinks(b) ==
    {<<b.of, Name(b)>>, <<Name(b), Role(b)>>} \union {<<Name(b), p>> : p \in Principals(b)}

(* One turn of buildIAMPolicyElements: a role of Google's that no binding  *)
(* of the crawl had before is asked for.                                   *)
AddBinding(b) ==
    /\ b \in bindings /\ bindings' = bindings \ {b}
    /\ LET known == {Name(b)} \union Principals(b) IN
       \/ /\ b.role \notin Predefined \/ b.role \in cache
          /\ iam' = Plus(iam, known, BindingLinks(b))
          /\ UNCHANGED cache /\ Answers
       \/ /\ b.role \in Predefined \ cache
          /\ \/ /\ iam' = Plus(iam, known \union {Role(b)}, BindingLinks(b))
                /\ cache' = cache \union {b.role} /\ Answers
             \/ /\ iam' = Plus(iam, known, BindingLinks(b))
                /\ UNCHANGED cache /\ Fails(<<"roleOf", b.role>>)
    /\ UNCHANGED <<project, pc, todo, batch, sent>>

(* Buckets and services are listed again, and asked for their policies.    *)
ListResources(kind, call) ==
    /\ pc = call /\ bindings = {} /\ pc' = In[call]
    /\ \/ \E page \in FirstPage(kind, Of(kind)) :
             todo' = page /\ AnswersPage(Beyond(call, Of(kind), page))
       \/ UNCHANGED todo /\ Fails(<<call>>)
    /\ UNCHANGED <<project, policies, batch, sent>>
GetBucketPolicy(b) ==
    /\ pc = "bucketPolicy" /\ bindings = {} /\ b \in todo
    /\ todo' = todo \ {b}
    /\ \/ bindings' = (IF b \in live THEN BindingsOf(Name(b)) ELSE {}) /\ Answers
       \/ UNCHANGED bindings /\ Fails(<<"bucketPolicy", Name(b)>>)
    /\ UNCHANGED <<project, pc, cache, iam, batch, sent>>

(* A service is asked for under its bare name, where the whole path is     *)
(* wanted: the call is always refused.                                     *)
GetRunPolicy(s) ==
    /\ pc = "runPolicy" /\ s \in todo
    /\ todo' = todo \ {s}
    /\ UNCHANGED failures /\ excused' = excused \union {<<"runPolicy", Name(s)>>}
    /\ UNCHANGED <<project, pc, policies, batch, sent>>
GotPolicies(call, next) ==
    /\ pc = In[call] /\ bindings = {} /\ todo = {} /\ pc' = next
    /\ UNCHANGED <<project, todo, policies, batch, sent, failures, excused>>

GetBucketIAMElements ==
    \/ ListResources("bucket", "bucketPolicies")
    \/ \E b \in todo : GetBucketPolicy(b)
    \/ GotPolicies("bucketPolicies", "runPolicies")
GetCloudRunIAMElements ==
    \/ ListResources("cloudrun", "runPolicies")
    \/ \E s \in todo : GetRunPolicy(s)
    \/ GotPolicies("runPolicies", "identity")

(* The accounts of clusters and pools.  The links of Kubernetes' own       *)
(* accounts are not implemented: they are never found.                     *)
IdentityLinks(c) ==
    {<<Name(c), <<NoPlace, "workloadpool", w>>>> : w \in c.workloads}
    \union {<<Name(c), Account(a)>> : a \in c.accounts}
    \union UNION {{<<Pool(p), Account(a)>> : a \in p.accounts} : p \in c.pools}
GetGKEIdentityElements ==
    /\ pc = "identity" /\ pc' = "ship"
    /\ \/ /\ iam' = Plus(iam, UNION {{<<NoPlace, "workloadpool", w>> : w \in c.workloads} : c \in Of("cluster")},
                          UNION {IdentityLinks(c) : c \in Of("cluster")})
          /\ Answers
       \/ UNCHANGED iam /\ Fails(<<"identity">>)
    /\ UNCHANGED <<project, todo, bindings, cache, batch, sent>>

Ship ==
    /\ pc = "ship" /\ pc' = "idle"
    /\ sent' = Plus(batch, iam.elements, iam.relations)
    /\ batch' = Empty /\ iam' = Empty
    /\ UNCHANGED <<project, todo, bindings, cache, failures, excused>>

CrawlStep ==
    \/ Tick \/ GetBuckets \/ GetCloudRuns \/ GetComputeElems
    \/ GetLocations \/ Looked("region", "instance")
    \/ GetVMInstances \/ GetNodeGroups \/ GetInstanceGroups \/ Looked("group", "disk")
    \/ GetDisks \/ GetNetworks \/ GetSubNetworks
    \/ GetGKEClusters \/ Looked("cluster", "sql") \/ GetSqlInstances
    \/ \E o \in todo : GetZones(o) \/ GetGroupMembers(o) \/ GetPoolMembers(o)
    \/ GetProject \/ GetServiceAccounts \/ GetCustomRoles \/ GetProjectPolicy
    \/ \E b \in bindings : AddBinding(b)
    \/ GetBucketIAMElements \/ GetCloudRunIAMElements \/ GetGKEIdentityElements \/ Ship

Next == CrawlStep \/ \E o \in Resource : Change(o)
Spec == Init /\ [][Next]_vars /\ WF_vars(CrawlStep)
-----------------------------------------------------------------------------
(* Every variable has its type, and nothing is left over from a crawl.     *)
TypeOK ==
    /\ live \subseteq Resource /\ steady \subseteq live
    /\ bindings \subseteq Resource
    /\ \A b \in {iam, batch, sent} : DOMAIN b = {"elements", "relations"}
    /\ pc = "idle" => batch = Empty /\ iam = Empty /\ todo = {} /\ bindings = {}
    /\ failures \in 0..MaxFailures /\ changes \in 0..MaxChanges

(* The calls an element of a resource, or a relation of it, depends on,    *)
(* and the pages it has to be on.                                          *)
Needs(o) ==
    {<<o.kind>>, <<o.kind, Name(o)>>}
    \union (IF o.kind \in Compute THEN {<<"compute">>} ELSE {})
    \union (IF o.kind \in IAM THEN {<<"project">>, <<"policy">>} ELSE {})
    \union (IF o.kind = "zone"
            THEN {<<"region">>, <<"region", Region(o.region)>>,
                  <<"zones", Region(o.region)>>, <<"zones", Region(o.region), Name(o)>>} ELSE {})
    \union (IF o.kind = "binding" /\ o.of # Project
            THEN {<<"bucketPolicies">>, <<"bucketPolicies", o.of>>, <<"bucketPolicy", o.of>>,
                  <<"runPolicies">>, <<"runPolicies", o.of>>, <<"runPolicy", o.of>>} ELSE {})
Excused(o) == Needs(o) \intersect excused # {}

Complete == pc = "idle" /\ sent # Empty
Listed(o) ==
    /\ o \in steady /\ ~Excused(o)
    /\ o.kind = "region" => o.name \in IncludedRegions
    /\ o.kind = "zone" => o.region \in IncludedRegions /\ \E r \in steady : Name(r) = Region(o.region)
    /\ o.kind = "binding" => o.of = Project \/ \E r \in steady : Name(r) = o.of

(* A failing call costs the batch no more than it would have answered: all *)
(* that was there since the crawl began and on the first page of its list  *)
(* is in it, but all of IAM hangs on the project and its policy, and all   *)
(* of Compute Engine on its client.                                        *)
FailureIsLocal == Complete => \A o \in Resource : Listed(o) => Elements(o) \subseteq sent.elements

(* The project as it is, between the resources that stayed: what is in     *)
(* what, where each is found under the name that its own list gives it.    *)
Belongs(o, x) ==
    \/ o.kind = "zone" /\ x.kind \in {"instance", "group", "disk"} /\ x.place = o.name
    \/ o.kind = "region" /\ x.kind \in {"bucket", "subnet"} /\ x.place = o.name
    \/ o.kind = "region" /\ x.kind = "zone" /\ x.region = o.name
    \/ o.kind = "region" /\ x.kind = "cluster" /\ x.place = o.name
    \/ o.kind = "subnet" /\ x.kind = "cluster" /\ <<o.place, o.name>> = <<x.place, x.subnet>>
    \/ o.kind = "network" /\ x.kind = "cluster" /\ x.network = o.name
    \/ o.kind = "network" /\ x.kind = "sql" /\ o.name \in x.network
    \/ o.kind = "network" /\ x.kind = "subnet" /\ <<x.place, x.name>> \in o.subnets
    \/ o.kind = "instance" /\ x.kind = "disk" /\ x.place = o.place /\ x.name \in o.disks
    \/ /\ o.kind = "group" /\ x.kind = "instance" /\ x.place = o.place /\ x.name \in o.members
       /\ {<<"members", Name(o)>>, <<"members", Name(o), x.name>>} \intersect excused = {}
    \/ x.kind = "binding" /\ x.of = Name(o)

(* Whatever fails and changes, of two resources that are in the batch and  *)
(* belong together it has the relation, by the names of the two elements:  *)
(* a node group, a cluster in a zone, and a member of a group beyond the   *)
(* page of members, are the exceptions.                                    *)
LinksShown ==
    Complete => \A o, x \in Resource :
        Listed(o) /\ Listed(x) /\ Belongs(o, x) => <<Name(o), Name(x)>> \in sent.relations

(* Each predefined role a shipped binding has comes with its element, if   *)
(* one of the calls for it was answered.                                   *)
RolesShown ==
    Complete => \A b \in steady : b.kind = "binding" /\ Listed(b) /\ b.role \in Predefined =>
        Role(b) \in sent.elements \/ <<"roleOf", b.role>> \in excused

(* Once calls stop failing, what stays in the project is shown again and   *)
(* again if all of its kind is on the first page of the list, and what     *)
(* left it is not.                                                         *)
Shown(o) == Complete /\ Name(o) \in sent.elements
Listable(o) == o \in live /\ FirstPage(o.kind, Of(o.kind)) = {Of(o.kind)}
ShownInTheEnd ==
    \A o \in {p \in Resource : p.kind \notin {"region", "zone"} /\ (p.kind = "binding" => p.of = Project)} :
        <>[]Listable(o) => []<>Shown(o)
GoneInTheEnd == \A o \in Resource : <>[](o \notin live) => <>[]~Shown(o)
=============================================================================
