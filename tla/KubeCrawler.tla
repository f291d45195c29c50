---------------------------- MODULE KubeCrawler ----------------------------
(***************************************************************************)
(* The Kubernetes crawler (internal/integrations/kubernetes): a crawl      *)
(* lists the cluster-wide objects, then, namespace by namespace, one kind  *)
(* of object after the other, and ships one batch per namespace; a batch   *)
(* of metric triggers and one of Istio flows follow.  Every call is a step *)
(* and may fail; the objects of the cluster come and go between the calls. *)
(*                                                                         *)
(* An internal name is <<namespace, type, name>>, the cluster's scope left *)
(* out, and "" the namespace of cluster-wide objects.  A batch holds the   *)
(* names of its elements and its relations as pairs of names.              *)
(***************************************************************************)
EXTENDS Naturals, FiniteSets, Sequences

CONSTANTS Object,        \* what may exist, with the fields the crawler reads
          Initially,     \* the objects there at the start
          Mapped,        \* names external_mappings resolves
          RetinaFlows,   \* pod to pod, as the Retina metrics have them
          Fallible,      \* the calls that may fail
          MaxFailures,   \* bound on failing calls
          MaxChanges     \* bound on objects that come or go

NoNamespace == ""
None == [ns |-> NoNamespace]
Empty == [elements |-> {}, relations |-> {}]

(* The lists made for each namespace, in order.                            *)
Lists == <<"deployment", "serviceaccount", "service", "pod", "secret",
           "endpoint", "job", "cronjob", "configmap", "statefulset",
           "daemonset", "pvc", "ingressBeta1", "ingressV1",
           "ingressV1Beta1", "retina", "ship">>
After(kind) == Lists[1 + CHOOSE i \in DOMAIN Lists : Lists[i] = kind]

(* Two of them look up the pods of each object they have listed.           *)
PodsOf == [deployment |-> "deploymentPods", service |-> "servicePods"]

(* Objects without a namespace, labels that are made elements, and what a  *)
(* pod may refer to.  A cluster names nodes and namespaces apart.          *)
Wide == {"node", "pv", "storageclass"}
IngressKinds == {"ingressBeta1", "ingressV1", "ingressV1Beta1"}
Listable == {Lists[i] : i \in DOMAIN Lists} \ {"retina", "ship"}
Parameters ==
    /\ Initially \subseteq Object
    /\ MaxFailures \in Nat /\ MaxChanges \in Nat
    /\ \A o \in Object :
          /\ o.kind \in Wide \union {"namespace"} \union Listable
          /\ o.ns = NoNamespace <=> o.kind \in Wide
          /\ o.kind # "node" => DOMAIN o.labels \subseteq {"chart", "part-of", "component", "name"}
          /\ o.kind \in IngressKinds => o.bare \in BOOLEAN
          /\ o.kind = "pod" =>
                /\ \A r \in o.env : r[1] \in {"secret", "configmap"}
                /\ \A v \in o.volumes : \A r \in v.source : r[1] \in {"secret", "configmap", "pvc"}
    /\ \A o, p \in Object : o.kind = "node" /\ p.kind = "node" /\ o.name = p.name => o = p
    /\ \A o, p \in Object : o.kind = "namespace" /\ p.kind = "namespace" /\ o.ns = p.ns => o = p
    /\ \A r \in RetinaFlows : r[1][2] = "pod" /\ r[2][2] = "pod"

VARIABLES live,          \* the objects of the cluster
          pc,            \* the next call of the crawl
          nodeNames,     \* internalNodeNames: node name -> internal name
          global,        \* globalCrawledElements
          charts,        \* createdElementsFromLabels
          namespaces,    \* of the list, still to be crawled
          current,       \* the namespace being crawled
          batch,         \* allCrawledElements
          todo,          \* deployments or services whose pods are not looked up
          legacyFailed,  \* errIngressesExtensionsBeta1 # nil
          sent,          \* batches of the last crawl
          failures, changes,
          steady,        \* ghost: objects there ever since the crawl began
          excused        \* ghost: lists and lookups of the crawl that failed

cluster == <<live, changes>>
wide == <<nodeNames, global, namespaces, current>>
ghosts == <<steady, excused>>
vars == <<cluster, wide, pc, charts, batch, todo, legacyFailed, sent, failures, ghosts>>
-----------------------------------------------------------------------------
(* The ingresses of both beta versions share one type in their names.      *)
Type(o) == IF o.kind = "ingressV1Beta1" THEN "ingressBeta1" ELSE o.kind
Name(o) == <<o.ns, Type(o), o.name>>

(* The objects a list call answers with.                                   *)
Listed(kind, ns) == {o \in live : o.kind = kind /\ o.ns = ns}

(* Mutant: the namespace is left out of a chart's name. *)
LabelNameGlobal(o, l) ==
    <<IF l = "chart" THEN NoNamespace ELSE o.ns, l, o.labels[l]>>

(* The name of the element made for a label; the labels of a service       *)
(* account are not looked at.                                              *)
LabelName(o, l) == <<o.ns, l, o.labels[l]>>
Labels(o) == IF o.kind = "serviceaccount" THEN {} ELSE DOMAIN o.labels
Charts(o) == {LabelName(o, l) : l \in Labels(o) \intersect {"chart"}}

(* A label's element, a chart's only once in a crawl; the relations from   *)
(* the labels to the object and from the wider label to the narrower.      *)
LabelElements(o) ==
    {LabelName(o, l) : l \in Labels(o) \ {"chart"}} \union (Charts(o) \ charts)
LabelRelations(o) ==
    {<<LabelName(o, l), Name(o)>> : l \in Labels(o)} \union
    {<<LabelName(o, p[1]), LabelName(o, p[2])>> :
        p \in {q \in {"part-of", "component"} \X {"component", "name"} :
                 q[1] # q[2] /\ {q[1], q[2]} \subseteq Labels(o)}}

Plus(b, elements, relations) ==
    [elements |-> b.elements \union elements, relations |-> b.relations \union relations]

(* What the crawler makes of listed objects: label elements and relations, *)
(* the objects' elements.                                                  *)
WithLabels(b, found) ==
    Plus(b, UNION {LabelElements(o) : o \in found}, UNION {LabelRelations(o) : o \in found})
WithElements(b, found) == Plus(b, {Name(o) : o \in found}, {})
ChartsOf(found) == charts \union UNION {Charts(o) : o \in found}

FromNamespace(o) == {<<Name(current), Name(o)>>}

(* getNodeCloud takes the cloud of the label or annotation it meets first, *)
(* in the order of a Go map: any of those a node's labels point to.  A     *)
(* node of GCP with a mapping keeps the name GCP's own crawler gives it.   *)
NodeNamesOf(o) ==
    {IF c = "gcp" /\ o.name \in Mapped THEN <<"gcp", "vm", o.name>> ELSE Name(o) :
        c \in o.clouds}

(* The node something runs on, under the name of the last listing.         *)
FromNode(o) ==
    IF o.node \in DOMAIN nodeNames THEN {<<nodeNames[o.node], Name(o)>>} ELSE {}

(* What a pod's environment and its volumes refer to; a volume's name is   *)
(* taken for one of a persistent volume of the namespace.                  *)
ToEnvironment(o) == {<<Name(o), <<o.ns, r[1], r[2]>>>> : r \in o.env}
ToVolumes(o) ==
    {<<Name(o), <<o.ns, "pv", v.name>>>> : v \in o.volumes} \union
    UNION {{<<Name(o), <<o.ns, r[1], r[2]>>>> : r \in v.source} : v \in o.volumes}

ToVolumeTemplates(o) == {<<Name(o), <<o.ns, "pv", t>>>> : t \in o.templates}
ToServices(o) == {<<Name(o), <<o.ns, "service", s>>>> : s \in o.services}
ToServiceAccount(o) ==
    {<<Name(o), <<"gcp", "serviceaccount", g>>>> : g \in o.gsa \intersect Mapped}

(* listDeplymentPods and listServicePods: the pods selected at this moment, *)
(* all of the namespace by a service that has no selector.                 *)
NoSelector == ""
Selects(o, pod) == o.app \in {NoSelector, pod.app}
ToPods(o) == {<<Name(o), Name(p)>> : p \in {q \in Listed("pod", o.ns) : Selects(o, q)}}

(* The relations of a listed object, that from its namespace left out.     *)
ToStorageClass(o) == {<<Name(o), <<NoNamespace, "storageclass", o.class>>>>}
Relations(o) ==
    CASE o.kind = "pv" -> ToStorageClass(o)
      [] o.kind = "serviceaccount" -> ToServiceAccount(o)
      [] o.kind = "pod" -> FromNode(o) \union ToEnvironment(o) \union ToVolumes(o)
      [] o.kind \in {"job", "cronjob"} -> FromNode(o)
      [] o.kind = "statefulset" -> FromNode(o) \union ToVolumeTemplates(o)
      [] o.kind \in IngressKinds -> ToServices(o)
      [] OTHER -> {}
WithRelations(b, found) == Plus(b, {}, UNION {Relations(o) : o \in found})
FromNamespaces(found) == UNION {FromNamespace(o) : o \in found}

(* All that is made of the objects of a list.                              *)
Made(b, found) == WithRelations(WithElements(WithLabels(b, found), found), found)
-----------------------------------------------------------------------------
Init ==
    /\ live = Initially /\ changes = 0
    /\ pc = "idle"
    /\ nodeNames = <<>>
    /\ global = Empty /\ batch = Empty
    /\ charts = {} /\ namespaces = {} /\ current = None /\ todo = {}
    /\ legacyFailed = FALSE
    /\ sent = {}
    /\ failures = 0
    /\ steady = {} /\ excused = {}

(* An object appears in the cluster or is deleted from it.                 *)
Change(o) ==
    /\ changes < MaxChanges
    /\ changes' = changes + 1
    /\ live' = IF o \in live THEN live \ {o} ELSE live \union {o}
    /\ steady' = steady \ {o}
    /\ UNCHANGED <<wide, pc, charts, batch, todo, legacyFailed, sent, failures, excused>>

(* A call fails, and the crawl goes on without what it would have listed.  *)
Fails(call, what) ==
    /\ call \in Fallible
    /\ failures < MaxFailures
    /\ failures' = failures + 1
    /\ excused' = excused \union {what}
    /\ UNCHANGED steady
Answers == UNCHANGED <<failures, ghosts>>

(* Mutant: the cluster-wide elements are kept from crawl to crawl. *)
TickKeeping ==
    /\ pc = "idle"
    /\ pc' = "node"
    /\ charts' = {} /\ sent' = {}
    /\ steady' = live /\ excused' = {}
    /\ UNCHANGED <<cluster, wide, batch, todo, legacyFailed, failures>>

(* The ticker's channel; crawl starts with nothing but the node names.     *)
Tick ==
    /\ pc = "idle"
    /\ pc' = "node"
    /\ global' = Empty /\ charts' = {} /\ sent' = {}
    /\ steady' = live /\ excused' = {}
    /\ UNCHANGED <<cluster, nodeNames, namespaces, current, batch, todo, legacyFailed, failures>>

(* A name for every node of the list, an element only for those no other   *)
(* crawler reports.                                                        *)
ListNodes ==
    /\ pc = "node" /\ pc' = "pv"
    /\ \/ /\ Answers
          /\ LET nodes == Listed("node", NoNamespace) IN
             \E f \in [nodes -> UNION {NodeNamesOf(o) : o \in nodes}] :
                /\ \A o \in nodes : f[o] \in NodeNamesOf(o)
                /\ nodeNames' = [n \in DOMAIN nodeNames \union {o.name : o \in nodes} |->
                                  IF \E o \in nodes : o.name = n
                                  THEN f[CHOOSE o \in nodes : o.name = n] ELSE nodeNames[n]]
                /\ global' = WithElements(global, {o \in nodes : f[o] = Name(o)})
       \/ Fails("node", <<NoNamespace, "node">>) /\ UNCHANGED <<nodeNames, global>>
    /\ UNCHANGED <<cluster, namespaces, current, charts, batch, todo, legacyFailed, sent>>

ListWide(kind, next) ==
    /\ pc = kind /\ pc' = next
    /\ \/ /\ Answers
          /\ LET found == Listed(kind, NoNamespace) IN
             /\ global' = Made(global, found)
             /\ charts' = ChartsOf(found)
       \/ Fails(kind, <<NoNamespace, kind>>) /\ UNCHANGED <<global, charts>>
    /\ UNCHANGED <<cluster, nodeNames, namespaces, current, batch, todo, legacyFailed, sent>>

ListPersistentVolumes == ListWide("pv", "storageclass")
ListStorageClasses == ListWide("storageclass", "namespaces")

(* Without the list of namespaces the crawl goes on to the metrics.        *)
ListNamespaces ==
    /\ pc = "namespaces" /\ pc' = "namespace"
    /\ \/ namespaces' = {o \in live : o.kind = "namespace"} /\ Answers
       \/ Fails("namespaces", <<NoNamespace, "namespaces">>) /\ namespaces' = {}
    /\ UNCHANGED <<cluster, nodeNames, global, current, charts, batch, todo, legacyFailed, sent>>

(* Mutant: only the first namespace's batch gets the cluster-wide elements. *)
BeginNamespaceBare(n) ==
    /\ pc = "namespace" /\ pc' = Head(Lists)
    /\ n \in namespaces
    /\ namespaces' = namespaces \ {n}
    /\ current' = n
    /\ batch' = WithElements(WithLabels(IF sent = {} THEN global ELSE Empty, {n}), {n})
    /\ charts' = ChartsOf({n})
    /\ legacyFailed' = FALSE
    /\ UNCHANGED <<cluster, nodeNames, global, todo, sent, failures, ghosts>>

(* A batch starts with the cluster-wide elements.  The relations from a    *)
(* namespace to its storage classes and volumes never arise: neither kind  *)
(* of object has a namespace.                                              *)
BeginNamespace(n) ==
    /\ pc = "namespace" /\ pc' = Head(Lists)
    /\ n \in namespaces
    /\ namespaces' = namespaces \ {n}
    /\ current' = n
    /\ batch' = WithElements(WithLabels(global, {n}), {n})
    /\ charts' = ChartsOf({n})
    /\ legacyFailed' = FALSE
    /\ UNCHANGED <<cluster, nodeNames, global, todo, sent, failures, ghosts>>

NamespacesDone ==
    /\ pc = "namespace" /\ namespaces = {}
    /\ pc' = "metrics"
    /\ UNCHANGED <<cluster, wide, charts, batch, todo, legacyFailed, sent, failures, ghosts>>
-----------------------------------------------------------------------------
(* Mutant: the crawl of the namespace stops at a list that fails. *)
ListFailsBreaking(kind) ==
    /\ Fails(kind, <<current.ns, kind>>)
    /\ pc' = "ship"
    /\ UNCHANGED <<batch, charts>>

ListFails(kind) ==
    /\ Fails(kind, <<current.ns, kind>>)
    /\ pc' = After(kind)
    /\ UNCHANGED <<batch, charts>>

(* One list of the namespace, and what is made of its objects.             *)
ListAnswers(kind) ==
    /\ pc' = After(kind)
    /\ Answers
    /\ LET found == Listed(kind, current.ns) IN
       /\ batch' = Plus(Made(batch, found), {}, FromNamespaces(found))
       /\ charts' = ChartsOf(found)
List(kind) ==
    /\ pc = kind
    /\ ListAnswers(kind) \/ ListFails(kind)
    /\ UNCHANGED <<cluster, wide, todo, legacyFailed, sent>>

ListServiceAccounts == List("serviceaccount")
ListPods == List("pod")
ListSecrets == List("secret")
ListEndpoints == List("endpoint")
ListJobs == List("job")
ListCronJobs == List("cronjob")
ListConfigMaps == List("configmap")
ListStatefulSets == List("statefulset")
ListDaemonSets == List("daemonset")
ListPVCs == List("pvc")

(* Deployments and services: the list, then a call for the pods of each.   *)
ListOwners(kind) ==
    /\ pc = kind
    /\ \/ todo' = Listed(kind, current.ns) /\ pc' = PodsOf[kind] /\ Answers
          /\ UNCHANGED <<batch, charts>>
       \/ ListFails(kind) /\ UNCHANGED todo
    /\ UNCHANGED <<cluster, wide, legacyFailed, sent>>

(* Mutant: only what has pods gets its element. *)
LookUpPodsSelecting(kind, o) ==
    /\ pc = PodsOf[kind]
    /\ o \in todo
    /\ todo' = todo \ {o}
    /\ charts' = ChartsOf({o})
    /\ LET labelled == Plus(WithLabels(batch, {o}), {}, FromNamespace(o)) IN
       batch' = WithElements(Plus(labelled, {}, ToPods(o)), IF ToPods(o) = {} THEN {} ELSE {o})
    /\ Answers
    /\ UNCHANGED <<cluster, wide, pc, legacyFailed, sent>>

(* When the pods cannot be looked up the element itself is left out too,   *)
(* but not its labels nor the relation from the namespace.                 *)
LookUpPods(kind, o) ==
    /\ pc = PodsOf[kind]
    /\ o \in todo
    /\ todo' = todo \ {o}
    /\ charts' = ChartsOf({o})
    /\ LET labelled == Plus(WithLabels(batch, {o}), {}, FromNamespace(o)) IN
       \/ batch' = Plus(WithElements(labelled, {o}), {}, ToPods(o)) /\ Answers
       \/ batch' = labelled /\ Fails("lookup", Name(o))
    /\ UNCHANGED <<cluster, wide, pc, legacyFailed, sent>>

OwnersDone(kind) ==
    /\ pc = PodsOf[kind] /\ todo = {}
    /\ pc' = After(kind)
    /\ UNCHANGED <<cluster, wide, charts, batch, todo, legacyFailed, sent, failures, ghosts>>

ListDeployments == ListOwners("deployment") \/ OwnersDone("deployment")
                       \/ \E o \in todo : LookUpPods("deployment", o)
ListServices == ListOwners("service") \/ OwnersDone("service")
                    \/ \E o \in todo : LookUpPods("service", o)

(* A process that panics dies and starts again.                            *)
Dies ==
    /\ pc' = "idle"
    /\ nodeNames' = <<>>
    /\ global' = Empty /\ batch' = Empty /\ current' = None
    /\ namespaces' = {} /\ charts' = {} /\ sent' = {}
    /\ UNCHANGED <<cluster, todo, legacyFailed>>

(* Three API versions of ingresses.  The paths of every rule and the       *)
(* service of every path are taken to be there: an ingress with a rule for *)
(* a host alone, or in networking/v1 with a path to another resource, is   *)
(* bare, and the process panics on it.                                     *)
ListIngresses(kind) ==
    /\ pc = kind
    /\ \/ /\ \A o \in Listed(kind, current.ns) : ~o.bare
          /\ ListAnswers(kind)
          /\ UNCHANGED <<cluster, wide, todo, legacyFailed, sent>>
       \/ /\ \E o \in Listed(kind, current.ns) : o.bare
          /\ Dies /\ Answers

ListIngressesBeta1 ==
    \/ ListIngresses("ingressBeta1")
    \/ /\ pc = "ingressBeta1" /\ ListFails("ingressBeta1")
       /\ legacyFailed' = TRUE
       /\ UNCHANGED <<cluster, wide, todo, sent>>

(* The warning of a later list prints the error of the first, and panics   *)
(* on nil when there was none.                                             *)
IngressPanic(kind) ==
    /\ pc = kind /\ ~legacyFailed
    /\ Dies /\ Fails(kind, <<current.ns, kind>>)

LaterIngresses(kind) ==
    \/ ListIngresses(kind)
    \/ IngressPanic(kind)
    \/ /\ pc = kind /\ legacyFailed /\ ListFails(kind)
       /\ UNCHANGED <<cluster, wide, todo, legacyFailed, sent>>
ListIngressesV1 == LaterIngresses("ingressV1")
ListIngressesV1Beta1 == LaterIngresses("ingressV1Beta1")

(* The flows of all namespaces, in every namespace's batch.                *)
AddRetinaFlows ==
    /\ pc = "retina" /\ pc' = After("retina")
    /\ \/ batch' = Plus(batch, {}, RetinaFlows) /\ Answers
       \/ Fails("retina", <<current.ns, "retina">>) /\ UNCHANGED batch
    /\ UNCHANGED <<cluster, wide, charts, todo, legacyFailed, sent>>

Batch(of, b) == [of |-> of, elements |-> b.elements, relations |-> b.relations]

Ship ==
    /\ pc = "ship" /\ pc' = "namespace"
    /\ sent' = sent \union {Batch(current.ns, batch)}
    /\ batch' = Empty
    /\ UNCHANGED <<cluster, wide, charts, todo, legacyFailed, failures, ghosts>>

(* A batch of triggers if a rule fires; an error is logged.                *)
Metrics ==
    /\ pc = "metrics" /\ pc' = "istio"
    /\ \/ UNCHANGED sent /\ Answers
       \/ sent' = sent \union {Batch("metrics", Empty)} /\ Answers
       \/ Fails("metrics", <<NoNamespace, "metrics">>) /\ UNCHANGED sent
    /\ UNCHANGED <<cluster, wide, charts, batch, todo, legacyFailed>>

(* An error here is the crawl's error; Crawl logs it and goes on.          *)
Istio ==
    /\ pc = "istio" /\ pc' = "idle"
    /\ \/ sent' = sent \union {Batch("istio", Empty)} /\ Answers
       \/ Fails("istio", <<NoNamespace, "istio">>) /\ UNCHANGED sent
    /\ UNCHANGED <<cluster, wide, charts, batch, todo, legacyFailed>>

CrawlStep ==
    \/ Tick \/ ListNodes \/ ListPersistentVolumes \/ ListStorageClasses
    \/ ListNamespaces \/ NamespacesDone
    \/ \E n \in namespaces : BeginNamespace(n)
    \/ ListDeployments \/ ListServiceAccounts \/ ListServices \/ ListPods
    \/ ListSecrets \/ ListEndpoints \/ ListJobs \/ ListCronJobs \/ ListConfigMaps
    \/ ListStatefulSets \/ ListDaemonSets \/ ListPVCs
    \/ ListIngressesBeta1 \/ ListIngressesV1 \/ ListIngressesV1Beta1
    \/ AddRetinaFlows \/ Ship \/ Metrics \/ Istio

Next == CrawlStep \/ \E o \in Object : Change(o)

(* Ticks come and every call returns.                                      *)
Spec == Init /\ [][Next]_vars /\ WF_vars(CrawlStep)
-----------------------------------------------------------------------------
(* Every variable has its type, and a crawl that is in a namespace has one.  *)
InNamespace == pc \in {Lists[i] : i \in DOMAIN Lists} \union {PodsOf.deployment, PodsOf.service}
TypeOK ==
    /\ live \subseteq Object /\ namespaces \subseteq Object /\ todo \subseteq Object
    /\ steady \subseteq live
    /\ InNamespace => current \in Object
    /\ ~InNamespace => batch = Empty
    /\ \A b \in sent : DOMAIN b = {"of", "elements", "relations"}
    /\ failures \in 0..MaxFailures /\ changes \in 0..MaxChanges
    /\ todo # {} => pc \in {PodsOf.deployment, PodsOf.service}

(* What a failing call excuses: the list an object would have been in, or  *)
(* the lookup of its pods.                                                 *)
Excused(o) == \/ <<o.ns, o.kind>> \in excused
              \/ Name(o) \in excused

(* Whatever fails and changes, a relation in a shipped batch to an object  *)
(* that was there all the time comes with the object's element in the same *)
(* batch, unless the list of its kind or the lookup of its pods failed:    *)
(* the pods of a deployment, what pods refer to, the node under the name   *)
(* it was given, the services of an ingress.                               *)
RelationsResolved ==
    \A b \in sent : \A o \in steady :
        (o.ns \in {b.of, NoNamespace} /\ Name(o) \notin b.elements /\ ~Excused(o))
            => \A r \in b.relations : Name(o) \notin {r[1], r[2]}

(* A chart's element is made once in a crawl and related to everything     *)
(* that carries its label: each batch with such a relation has the element. *)
ChartsPresent ==
    \A b \in sent : \A r \in b.relations :
        r[1][2] = "chart" => r[1] \in b.elements

(* A failing call costs only what it would have listed: every object there *)
(* since the crawl began is in its namespace's batch, and in each batch if *)
(* it has no namespace, unless it is a node another crawler reports.       *)
FailureIsLocal ==
    (pc = "metrics" /\ <<NoNamespace, "namespaces">> \notin excused) =>
        \A o, n \in steady :
            ( /\ n.kind = "namespace" /\ o.ns \in {n.ns, NoNamespace}
              /\ ~Excused(o)
              /\ o.kind = "node" => nodeNames[o.name] = Name(o) )
            => \E b \in sent : b.of = n.ns /\ Name(o) \in b.elements

(* Once calls stop failing and no ingress is bare, what stays in the       *)
(* cluster is shipped again and again, a process that died included.       *)
Shown(o) == \E b \in sent : Name(o) \in b.elements
Home(o) == {n \in Object : n.kind = "namespace" /\ n.ns = o.ns}
Bare == {i \in Object : i.kind \in IngressKinds /\ i.bare}
ShownInTheEnd ==
    \A o \in {p \in Object : p.kind # "node" /\ p.ns # NoNamespace} :
        <>[]({o} \union Home(o) \subseteq live /\ Bare \intersect live = {}) => []<>Shown(o)

(* What is deleted from the cluster is no longer shipped.                  *)
GoneInTheEnd == \A o \in Object : <>[](o \notin live) => <>[]~Shown(o)

=============================================================================
