----------------------------- MODULE AwsCrawler -----------------------------
(***************************************************************************)
(* What the workers of the AWS crawler find (internal/integrations/aws,    *)
(* vpc.go): each lists one kind of resource in a region, and some ask more *)
(* about what they listed.  AWS answers in pages, and each call is made    *)
(* once: what is beyond the first page is never seen.  A call that fails   *)
(* costs what it would have answered, or more: see Fails.  Workers run     *)
(* side by side, and resources come and go between their calls.  The       *)
(* channel and the WaitGroup the workers share are in AwsPool.             *)
(*                                                                         *)
(* An internal ID is <<scope, id>>, with "" where the code leaves out the  *)
(* scope.  A resource is [kind, region, id] and what the crawler reads of  *)
(* it; its kind is the name of the worker that lists it, but classic load  *)
(* balancers are listed by the worker of the others.                       *)
(***************************************************************************)
EXTENDS Naturals, FiniteSets, Sequences

CONSTANTS Resource,      \* what may exist
          Initially,     \* the resources there at the start
          Kinds,         \* workers of a region
          Regions,
          Account,
          PageSize,      \* call or kind -> how much a list answers with at most
          Fallible,      \* the calls that may fail
          MaxFailures,   \* bound on failing calls
          MaxChanges     \* bound on resources that come or go

VARIABLES live,          \* the resources of the account
          pc,
          todo,          \* of each worker: the calls it has still to make
          found,         \* of each worker: returnedElems
          sent,          \* the batch of the last crawl
          failures, changes,
          steady,        \* ghost: resources there ever since the crawl began
          excused        \* ghost: calls of the crawl that failed, and what
                         \* was beyond the page of one that answered

account == <<live, changes, steady>>
vars == <<account, pc, todo, found, sent, failures, excused>>

Worker == (Kinds \X Regions) \union {<<"s3-buckets", "global">>}

(* Outside a VPC a function has no subnets and no security groups.         *)
NoVPC == ""
Parameters ==
    /\ Initially \subseteq Resource /\ MaxFailures \in Nat /\ MaxChanges \in Nat
    /\ \A o \in Resource : o.kind = "lambdas" /\ o.vpc = NoVPC => o.subnets = {} /\ o.groups = {}
-----------------------------------------------------------------------------
In(id) == <<"scope", id>>
Bare(id) == <<"", id>>
Ins(ids) == {In(i) : i \in ids}

Empty == [elements |-> {}, relations |-> {}]
Plus(b, elements, relations) ==
    [elements |-> b.elements \union elements, relations |-> b.relations \union relations]

(* Relations into and out of a resource.                                   *)
Into(o, ids) == Ins(ids) \X {In(o.id)}
From(o, ids) == {In(o.id)} \X Ins(ids)

(* The name and the ID of a VPC are mixed up: its element goes without the *)
(* scope that all relations have.                                          *)
Id(o) == IF o.kind = "vpcs" THEN Bare(o.id) ELSE In(o.id)

(* An instance without a VPC is left out.                                  *)
Elements(o) == IF o.kind = "ec2" /\ o.vpc = NoVPC THEN {} ELSE {Id(o)}

Instance(o) ==
    IF o.vpc = NoVPC THEN {}
    ELSE Into(o, {o.vpc, o.subnet}) \union From(o, {o.image} \union o.groups)
(* Mutant: the subnets of the zones are left out. *)
LoadBalancerBare(o) == Into(o, {o.vpc}) \union From(o, o.groups)
LoadBalancer(o) == Into(o, {o.vpc}) \union From(o, o.groups \union o.subnets)

(* The subnets of a classic load balancer hang on its bare DNS name.       *)
Classic(o) ==
    Into(o, {o.vpc}) \union From(o, o.instances \union o.groups)
    \union ({Bare(o.id)} \X Ins(o.subnets))
Lambda(o) == IF o.vpc = NoVPC THEN {} ELSE Into(o, {o.vpc} \union o.subnets \union o.groups)

(* Zones and security groups of a database are taken by name, which is not *)
(* the ID their elements have.                                             *)
Database(o) ==
    Into(o, {o.vpc, o.zone} \union o.securityGroups \union o.subnets \union o.zones)
    \union From(o, o.groups)

Links(o) ==
    CASE o.kind = "vpcs" -> Into(o, {o.owner})
      [] o.kind \in {"route_tables", "subnets"} -> Into(o, {o.vpc, o.owner})
      [] o.kind = "natgws" -> Into(o, {o.vpc, o.subnet})
      [] o.kind \in {"net_acls", "sec_groups"} -> Into(o, {o.vpc})
      [] o.kind = "azs" -> Into(o, {o.region})
      [] o.kind = "ec2" -> Instance(o)
      [] o.kind = "vols" -> Into(o, o.instances)
      [] o.kind = "lbs" -> LoadBalancer(o)
      [] o.kind = "classic" -> Classic(o)
      [] o.kind = "s3-buckets" -> Into(o, {Account})
      [] o.kind = "lambdas" -> Lambda(o)
      [] o.kind = "rds" -> Database(o)
      [] o.kind = "eks" -> Into(o, {o.vpc}) \union From(o, o.subnets)
      [] o.kind = "ecr" -> Into(o, {o.registry})
      [] o.kind = "asg" -> From(o, o.subnets \union o.instances)
      [] OTHER -> {}
-----------------------------------------------------------------------------
(* A call still to be made: of a region, of a resource, or of a part of    *)
(* one.  A worker makes the innermost first, as its loops are nested.      *)
Region(kind, r) == [kind |-> kind, region |-> r]
Call(name, of) == [call |-> name, of |-> of]
Depth(c) ==
    CASE c.call \in {"list", "classic"} -> 0
      [] c.call \in {"targets", "cluster", "images", "group"} -> 1
      [] c.call \in {"health", "nodegroups", "details", "classics"} -> 2
      [] c.call \in {"tagged", "balancers"} -> 3
      [] c.call \in {"nodegroup", "subnet"} -> 4
Due(w, name) ==
    {c \in todo[w] : c.call = name /\ \A d \in todo[w] : Depth(d) <= Depth(c)}

(* The first page of a list is all of it, or as much as fits.              *)
Of(kind, r) == {o \in live : o.kind = kind /\ o.region = r}
FirstPage(name, all) ==
    IF name \notin DOMAIN PageSize \/ Cardinality(all) <= PageSize[name] THEN {all}
    ELSE {page \in SUBSET all : Cardinality(page) = PageSize[name]}
Made(page) == [elements |-> UNION {Elements(o) : o \in page},
               relations |-> UNION {Links(o) : o \in page}]

(* An answer, and one that leaves out what was beyond its page.            *)
AnswersPage(w, c, more, elements, relations, beyond) ==
    /\ todo' = [todo EXCEPT ![w] = (@ \ {c}) \union more]
    /\ found' = [found EXCEPT ![w] = Plus(@, elements, relations)]
    /\ excused' = excused \union beyond
    /\ UNCHANGED failures
Answers(w, c, more, elements, relations) == AnswersPage(w, c, more, elements, relations, {})
Beyond(all, page) == {Call("page", o) : o \in all \ page}

(* What a failing call costs: itself, and                                  *)
(*   "only" nothing else,      "so far" what the worker would still do,    *)
(*   "all" also what the worker has found.                                 *)
Costs(w, c, cost) ==
    /\ todo' = [todo EXCEPT ![w] = IF cost = "only" THEN @ \ {c} ELSE {}]
    /\ found' = [found EXCEPT ![w] = IF cost = "all" THEN Empty ELSE @]
    /\ excused' = excused \union {c}
Fails(w, c, cost) ==
    /\ c.call \in Fallible /\ failures < MaxFailures
    /\ failures' = failures + 1
    /\ Costs(w, c, cost)
-----------------------------------------------------------------------------
Init ==
    /\ live = Initially /\ changes = 0 /\ steady = {}
    /\ pc = "idle"
    /\ todo = [w \in Worker |-> {}] /\ found = [w \in Worker |-> Empty]
    /\ sent = Empty
    /\ failures = 0 /\ excused = {}

(* A resource comes or goes.                                               *)
Change(o) ==
    /\ changes < MaxChanges /\ changes' = changes + 1
    /\ live' = (live \ {o}) \union ({o} \ live)
    /\ steady' = steady \ {o}
    /\ UNCHANGED <<pc, todo, found, sent, failures, excused>>

(* The regions and the account are asked for, and the workers started.     *)
Tick ==
    /\ pc = "idle" /\ pc' = "crawl"
    /\ todo' = [w \in Worker |-> {Call("list", Region(w[1], w[2]))}]
    /\ found' = [w \in Worker |-> Empty]
    /\ steady' = live /\ excused' = {}
    /\ UNCHANGED <<live, changes, sent, failures>>

Ship ==
    /\ pc = "crawl" /\ pc' = "idle"
    /\ \A w \in Worker : todo[w] = {}
    /\ sent' = [elements |-> Ins(Regions) \union {Bare(Account)} \union UNION {found[w].elements : w \in Worker},
                relations |-> UNION {found[w].relations : w \in Worker}]
    /\ UNCHANGED <<account, todo, found, failures, excused>>

(* What a worker goes on to ask about the resources it has listed.         *)
Further(w, page) ==
    CASE w[1] = "lbs" -> {Call("targets", o) : o \in page}
                         \union {Call("classic", Region("lbs", w[2]))}
      [] w[1] = "eks" -> {Call("cluster", o) : o \in page}
      [] w[1] = "ecr" -> {Call("images", o) : o \in page}
      [] w[1] = "asg" -> {Call("group", o) : o \in page}
      [] OTHER -> {}

(* Of clusters the list has names only.                                    *)
Describe(w) == \E c \in Due(w, "list") :
    \/ LET all == Of(w[1], w[2]) IN
       \E page \in FirstPage(w[1], all) :
          LET made == IF w[1] = "eks" THEN Empty ELSE Made(page) IN
          AnswersPage(w, c, Further(w, page), made.elements, made.relations, Beyond(all, page))
    \/ Fails(w, c, "so far")

(* The targets of a load balancer are elements, not relations.             *)
Targets(w) == \E c \in Due(w, "targets") :
    \/ \E page \in FirstPage("targets", c.of.targets) :
          Answers(w, c, {[call |-> "health", of |-> c.of, group |-> g] : g \in page}, {}, {})
    \/ Fails(w, c, "only")
TargetHealth(w) == \E c \in Due(w, "health") :
    \/ Answers(w, c, {}, IF c.group.type = "instance"
                         THEN {In(c.of.id) \o In(i) : i \in c.group.instances} ELSE {}, {})
    \/ Fails(w, c, "only")

(* Without the classic load balancers the others are lost, too.            *)
ClassicBalancers(w) == \E c \in Due(w, "classic") :
    \/ LET all == Of("classic", w[2]) IN
       \E page \in FirstPage("classic", all) :
          AnswersPage(w, c, {}, Made(page).elements, Made(page).relations, Beyond(all, page))
    \/ Fails(w, c, "all")
-----------------------------------------------------------------------------
(* A cluster that cannot be described, or has gone, ends the worker.       *)
Cluster(w) == \E c \in Due(w, "cluster") :
    \/ /\ c.of \in live
       /\ Answers(w, c, {Call("nodegroups", c.of)}, Elements(c.of), Links(c.of))
    \/ /\ c.of \notin live
       /\ Costs(w, c, "so far") /\ UNCHANGED failures
    \/ Fails(w, c, "so far")

(* Without its node groups a cluster gets no instances either.             *)
NodeGroups(w) == \E c \in Due(w, "nodegroups") :
    \/ \E page \in FirstPage("nodegroups", c.of.nodegroups) :
          Answers(w, c, {[call |-> "nodegroup", of |-> c.of, nodegroup |-> g] : g \in page}
                        \union {Call("tagged", c.of)}, {}, {})
    \/ Fails(w, c, "only")

(* The request for a node group lacks the name of its cluster, which it    *)
(* must have: it is refused, and its element and its autoscaling groups    *)
(* are never come to.                                                      *)
NodeGroup(w) == \E c \in Due(w, "nodegroup") : Costs(w, c, "only") /\ UNCHANGED failures
TaggedInstances(w) == \E c \in Due(w, "tagged") :
    \/ LET all == {x \in Of("ec2", w[2]) : x.cluster = c.of.id} IN
       \E page \in FirstPage("tagged", all) :
          AnswersPage(w, c, {}, {}, From(c.of, {x.id : x \in page}),
                      {[call |-> "tagged page", of |-> c.of, instance |-> x] : x \in all \ page})
    \/ Fails(w, c, "only")

(* The images of a repository, each with a tag and with an element of its  *)
(* own.                                                                    *)
Images(w) == \E c \in Due(w, "images") :
    \/ \E page \in FirstPage("images", c.of.tags) :
          Answers(w, c, {[call |-> "details", of |-> c.of, tags |-> page]}, {}, {})
    \/ Fails(w, c, "only")
ImageDetails(w) == \E c \in Due(w, "details") :
    \/ LET images == {<<t, In(c.of.id) \o <<t>>>> : t \in c.tags} IN
       Answers(w, c, {}, {i[2] : i \in images},
               UNION {{<<In(c.of.id), i[2]>>, <<i[2], Bare(i[1])>>} : i \in images})
    \/ Fails(w, c, "only")
-----------------------------------------------------------------------------
(* A round of the loop over autoscaling groups: the VPC of each subnet,    *)
(* then the load balancers, all of the region if the group names none, and *)
(* every classic one.  Without them no group of the region is shown.       *)
Group(w) == \E c \in Due(w, "group") :
    Answers(w, c, {[call |-> "subnet", of |-> c.of, subnet |-> s] : s \in c.of.subnets}
                  \union {Call("balancers", c.of), Call("classics", c.of)}, {}, {})
GroupSubnet(w) == \E c \in Due(w, "subnet") :
    \/ Answers(w, c, {}, {}, Into(c.of, {s.vpc : s \in {x \in Of("subnets", w[2]) : x.id = c.subnet}}))
    \/ Fails(w, c, "only")
GroupBalancers(w) == \E c \in Due(w, "balancers") :
    \/ LET named == {x \in Of("lbs", w[2]) : c.of.balancers = {} \/ x.id \in c.of.balancers} IN
       \E page \in FirstPage("lbs", named) : Answers(w, c, {}, {}, From(c.of, {x.id : x \in page}))
    \/ Fails(w, c, "all")
GroupClassics(w) == \E c \in Due(w, "classics") :
    \/ \E page \in FirstPage("classic", Of("classic", w[2])) :
          Answers(w, c, {}, {}, From(c.of, {x.id : x \in page}))
    \/ Fails(w, c, "all")
-----------------------------------------------------------------------------
Work(w) ==
    /\ \/ Describe(w) \/ Targets(w) \/ TargetHealth(w) \/ ClassicBalancers(w)
       \/ Cluster(w) \/ NodeGroups(w) \/ NodeGroup(w) \/ TaggedInstances(w)
       \/ Images(w) \/ ImageDetails(w)
       \/ Group(w) \/ GroupSubnet(w) \/ GroupBalancers(w) \/ GroupClassics(w)
    /\ UNCHANGED <<account, pc, sent>>

CrawlStep == Tick \/ Ship \/ \E w \in Worker : Work(w)
Next == CrawlStep \/ \E o \in Resource : Change(o)
Spec == Init /\ [][Next]_vars
-----------------------------------------------------------------------------
(* Every variable has its type, and a worker that is done stays done.      *)
TypeOK ==
    /\ live \subseteq Resource /\ steady \subseteq live
    /\ pc \in {"idle", "crawl"}
    /\ pc = "idle" => \A w \in Worker : todo[w] = {}
    /\ failures \in 0..MaxFailures /\ changes \in 0..MaxChanges

(* The calls without which a resource is not shown: its list, and for some *)
(* kinds any call that makes the worker drop or leave what it listed.  Nor *)
(* is it shown beyond the page of its list.                                *)
Costly(kind) ==
    CASE kind = "classic" -> {"list", "classic"}
      [] kind = "lbs" -> {"list", "classic"}
      [] kind = "eks" -> {"list", "cluster"}
      [] kind = "asg" -> {"list", "balancers", "classics"}
      [] OTHER -> {"list"}
Lister(o) == IF o.kind = "classic" THEN "lbs" ELSE o.kind
Excused(o) ==
    \/ Call("page", o) \in excused
    \/ \E c \in excused :
          c.call \in Costly(o.kind) /\ c.of.kind = Lister(o) /\ c.of.region = o.region

Complete == pc = "idle" /\ sent # Empty
Listed(o) ==
    /\ o \in steady /\ ~Excused(o) /\ <<Lister(o), o.region>> \in Worker
    /\ o.kind = "ec2" => o.vpc # NoVPC

(* What is in what, hangs on what or uses what, as AWS has it; VPCs are    *)
(* left out, as their elements are not the ends of any relation.           *)
Belongs(o, x) ==
    \/ o.kind = "subnets" /\ x.kind \in {"natgws", "ec2"} /\ x.subnet = o.id
    \/ o.kind = "subnets" /\ x.kind \in {"lambdas", "rds"} /\ o.id \in x.subnets
    \/ x.kind = "subnets" /\ o.kind \in {"lbs", "eks", "asg"} /\ x.id \in o.subnets
    \/ x.kind = "sec_groups" /\ o.kind \in {"ec2", "lbs", "classic", "rds"} /\ x.id \in o.groups
    \/ o.kind = "sec_groups" /\ x.kind = "lambdas" /\ o.id \in x.groups
    \/ x.kind = "amis" /\ o.kind = "ec2" /\ o.image = x.id
    \/ o.kind = "ec2" /\ x.kind = "vols" /\ o.id \in x.instances
    \/ x.kind = "ec2" /\ o.kind \in {"classic", "asg"} /\ x.id \in o.instances
    \/ /\ o.kind = "eks" /\ x.kind = "ec2" /\ x.cluster = o.id /\ x.region = o.region
       /\ \A c \in excused : c.call \in {"nodegroups", "tagged"} => c.of # o
       /\ [call |-> "tagged page", of |-> o, instance |-> x] \notin excused

(* Each resource that was there since the crawl began is in the batch      *)
(* unless one of the calls it hangs on failed or it was beyond the page of *)
(* its list, and two that belong to each other have their relation, by the *)
(* IDs of their elements.                                                  *)
ResourcesShown ==
    Complete => \A o \in Resource : Listed(o) =>
        /\ Id(o) \in sent.elements
        /\ \A x \in Resource : Listed(x) /\ Belongs(o, x) => <<Id(o), Id(x)>> \in sent.relations

(* "scoped by the upstream system identity" (README.md:341): each element  *)
(* but the account's own has the scope in its ID.                          *)
AssetsScoped == \A e \in sent.elements : e[1] = "scope" \/ e = Bare(Account)
=============================================================================
