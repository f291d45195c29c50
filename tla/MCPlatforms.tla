---------------------------- MODULE MCPlatforms ----------------------------
(* Clusters and projects with one resource of every kind at least and any  *)
(* call failing, and with few that come and go; a cluster that is crawled  *)
(* for ever; and the flow logs of a project.                               *)
EXTENDS Platforms
-----------------------------------------------------------------------------
(* A cluster in two namespaces that use the same chart, and nodes of which *)
(* one may be reported by GCP.                                             *)
chart == [chart |-> "web-1"]
Namespaces == {[kind |-> "namespace", name |-> "", ns |-> n, labels |-> chart] : n \in {"a", "b"}}
Nodes ==
    {[kind |-> "node", name |-> "n1", ns |-> "", clouds |-> {"aws", "gcp"}],
     [kind |-> "node", name |-> "n2", ns |-> "", clouds |-> {"none"}]}
Wide ==
    {[kind |-> "pv", name |-> "v1", ns |-> "", labels |-> chart, class |-> "fast"],
     [kind |-> "storageclass", name |-> "fast", ns |-> "", labels |-> <<>>]}
web == [chart |-> "web-1"] @@ [x \in {"part-of", "component", "name"} |-> x]
Dep == [kind |-> "deployment", name |-> "web", ns |-> "a", labels |-> web, app |-> "web"]
DepB == [Dep EXCEPT !.ns = "b"]
Svc == [kind |-> "service", name |-> "web", ns |-> "a", labels |-> chart, app |-> "web"]
Headless == [Svc EXCEPT !.name = "all", !.app = ""]
Pod == [kind |-> "pod", name |-> "web-0", ns |-> "a", labels |-> web, app |-> "web", node |-> "n2",
        env |-> {<<"secret", "s">>, <<"configmap", "c">>},
        volumes |-> {[name |-> "data", source |-> {<<"pvc", "p">>}]}]
PodN1 == [Pod EXCEPT !.name = "web-1", !.node = "n1", !.env = {}, !.volumes = {}]
Secret == [kind |-> "secret", name |-> "s", ns |-> "a", labels |-> <<>>]
Plain == {[kind |-> p[1], name |-> p[2], ns |-> "a", labels |-> <<>>] :
            p \in {<<"endpoint", "web">>, <<"configmap", "c">>, <<"daemonset", "d">>, <<"pvc", "p">>}}
Jobs == {[kind |-> k, name |-> "j", ns |-> "a", labels |-> <<>>, node |-> "n2"] : k \in {"job", "cronjob"}}
Account == [kind |-> "serviceaccount", name |-> "web", ns |-> "a", labels |-> <<>>, gsa |-> {"web@gcp"}]
Stateful == [kind |-> "statefulset", name |-> "db", ns |-> "a", labels |-> <<>>, node |-> "", templates |-> {"t"}]
Ingresses == {[kind |-> k, name |-> "web", ns |-> "a", labels |-> <<>>, services |-> {"web"}, bare |-> FALSE] :
                k \in {"ingressBeta1", "ingressV1", "ingressV1Beta1"}}
HostOnly == [kind |-> "ingressV1", name |-> "host", ns |-> "b", labels |-> <<>>, services |-> {}, bare |-> TRUE]

All == Namespaces \union Nodes \union Wide \union Plain \union Jobs
         \union {Dep, DepB, Svc, Pod, PodN1, Secret, Account, Stateful} \union Ingresses
Few == Namespaces \union Nodes \union {Dep, Pod, Secret}
Fewer == Namespaces \union {Dep, Pod, Headless} \union {n \in Nodes : n.name = "n2"}
Calls == {"deployment", "serviceaccount", "service", "pod", "secret", "endpoint", "job", "cronjob",
          "configmap", "statefulset", "daemonset", "pvc", "ingressBeta1", "ingressV1",
          "ingressV1Beta1", "retina", "ship", "node", "pv", "storageclass", "namespaces",
          "lookup", "metrics", "istio"}
PodName(p) == <<p.ns, "pod", p.name>>
Flows == {<<PodName(Pod), PodName(PodN1)>>}

ClusterOf(objects, initially, fallible, failures_, changes_) ==
    [Object |-> objects, Initially |-> initially, Mapped |-> {"n1", "web@gcp"}, RetinaFlows |-> Flows,
     Fallible |-> fallible, MaxFailures |-> failures_, MaxChanges |-> changes_]
MCClusters ==
    [failing |-> ClusterOf(All, All, Calls, 2, 0),
     changing |-> ClusterOf(Few, Few \ {Secret}, {"node", "lookup", "istio"}, 1, 2),
     lasting |-> ClusterOf(Fewer \union {HostOnly}, Fewer, {"lookup", "ingressV1", "istio"}, 2, 1)]

(* A project with two clusters, one in a zone, and policies that share a   *)
(* role of Google's.                                                       *)
G(kind, place, name) == [kind |-> kind, place |-> place, name |-> name]
Bucket == G("bucket", "r", "b")
Disk == G("disk", "z", "d")
Disk2 == [Disk EXCEPT !.name = "d2"]
Vm == G("instance", "z", "i") @@ [disks |-> {"d"}]
Group == G("group", "z", "g") @@ [members |-> {"i"}]
RegionR == G("region", "", "r")
Zone == G("zone", "", "z") @@ [region |-> "r", begins |-> {"r"}]
Zone1 == G("zone", "", "y") @@ [region |-> "r1", begins |-> {"r", "r1"}]
ServiceAccount == G("account", "", "a")
Cluster ==
    G("cluster", "r", "c") @@
    [zone |-> "r", network |-> "net", subnet |-> "sn", accounts |-> {"a"}, workloads |-> {"w"},
     pools |-> {[name |-> "pool", groups |-> {<<"z", "g">>}, accounts |-> {"a"}]}]
Zonal ==
    G("cluster", "z", "k") @@
    [zone |-> "z", network |-> "net", subnet |-> "sn", accounts |-> {}, workloads |-> {},
     pools |-> {[name |-> "pool", groups |-> {}, accounts |-> {}]}]
Bind(name, of, role) ==
    G("binding", "", name) @@ [of |-> of, role |-> role, members |-> {<<"user", "u">>, <<"account", "a">>}]
OfProject == Bind("b1", <<"", "project", "p">>, "roles/viewer")
OfBucket == Bind("b2", <<"r", "bucket", "b">>, "roles/viewer")
AllResources ==
    {Bucket, Disk, Vm, Group, Cluster, Zonal, OfProject, OfBucket,
     Zone, Zone1, RegionR, G("region", "", "r1"), ServiceAccount,
     G("cloudrun", "", "s"), G("nodegroup", "z", "n"), G("subnet", "r", "sn"), G("role", "", "own"),
     G("network", "", "net") @@ [subnets |-> {<<"r", "sn">>}],
     G("sql", "z", "db") @@ [network |-> {"net"}], Bind("b3", <<"", "cloudrun", "s">>, "own")}
FewResources == {Disk, Disk2, Vm, Group, Cluster, Bucket, OfBucket}

(* A project with more than a page of some of its lists.                   *)
PagedResources ==
    {RegionR, Zone, Zone1, Disk, Vm, [Vm EXCEPT !.name = "j"], [Group EXCEPT !.members = {"i", "j"}],
     ServiceAccount, [ServiceAccount EXCEPT !.name = "a2"]}
Pages == [zones |-> 1, instance |-> 1, members |-> 1, account |-> 1]
GcpCalls ==
    {"bucket", "cloudrun", "compute", "region", "zones", "instance", "nodegroup", "group",
     "members", "disk", "network", "subnet", "cluster", "poolMembers", "sql", "project", "account",
     "role", "policy", "roleOf", "bucketPolicies", "bucketPolicy", "runPolicies",
     "identity"}

ProjectOf(resources, initially, pages, fallible, failures_, changes_) ==
    [Resource |-> resources, Initially |-> initially, IncludedRegions |-> {"r"},
     Predefined |-> {"roles/viewer"}, Spelled |-> [z |-> "zones/z"], PageSize |-> pages,
     Fallible |-> fallible, MaxFailures |-> failures_, MaxChanges |-> changes_]
MCProjects ==
    [gcp_failing |-> ProjectOf(AllResources, AllResources, [region |-> 2], GcpCalls, 2, 0),
     gcp_paged |-> ProjectOf(PagedResources, PagedResources, Pages, {}, 0, 0),
     gcp_changing |-> ProjectOf(FewResources, FewResources \ {Disk}, [disk |-> 1], {"policy", "poolMembers"}, 1, 2)]

(* A flow between two clusters, one of which matches two mappings, and one *)
(* to a database.                                                          *)
NoEnd == [vm |-> <<>>, cluster |-> "", pod |-> "", deployment |-> "", ip |-> "none"]
EndA == [vm |-> <<"z", "va">>, cluster |-> "ca", pod |-> "pa", deployment |-> "da", ip |-> "none"]
EndB == [vm |-> <<"z", "vb">>, cluster |-> "cb", pod |-> "pb", deployment |-> "db", ip |-> "none"]
Between == [src |-> EndA, dst |-> EndB, sql |-> {}]
ToSql == [src |-> EndB, dst |-> [NoEnd EXCEPT !.ip = "i"], sql |-> {"dst"}]
MCFlowLogs ==
    [gcp_logs |->
        [Entry |-> {Between, ToSql}, Times |-> 4..6,
         ClusterUIDs |-> [c \in {"", "ca", "cb"} |->
             CASE c = "" -> {} [] c = "ca" -> {"ua"} [] c = "cb" -> {"ub", "uc"}],
         Instance |-> {"s", "t"}, Address |-> {"i"}, PageSize |-> 1, Interval |-> 3, Margin |-> 2,
         MaxTime |-> 18, MaxFailures |-> 1, MaxChanges |-> 1]]
-----------------------------------------------------------------------------
(* Once calls stop failing, what stays is shown again and again, and what  *)
(* left is not: in a cluster if no ingress stays that makes the crawler    *)
(* panic, in a project if all of its kind fits on the one page the crawler *)
(* reads.                                                                  *)
ShownInTheEnd ==
    /\ setting = "lasting" => Kube("lasting")!ShownInTheEnd /\ Kube("lasting")!GoneInTheEnd
    /\ setting = "gcp_changing" => Gcp("gcp_changing")!ShownInTheEnd /\ Gcp("gcp_changing")!GoneInTheEnd
=============================================================================
