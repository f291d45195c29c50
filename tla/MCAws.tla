------------------------------- MODULE MCAws -------------------------------
(* The flow-log crawler has a bucket with an object that is no flow log    *)
(* between two that are, and behind them a file on which the process dies. *)
(* The crawler of resources has one region of one VPC; workers that ask    *)
(* about each other's resources are taken together, and either calls fail  *)
(* or resources come and go.  One account has more than fits the pages.    *)
EXTENDS Aws, TLC

CONSTANTS g1, g2

MCContents == {<<"flow log", "no gzip", "flow log", "panics">>}
-----------------------------------------------------------------------------
O(kind, id) == [kind |-> kind, region |-> "r", id |-> id]
Subnet == O("subnets", "sn") @@ [vpc |-> "v", owner |-> "acct"]
InVpc(kind, id) == O(kind, id) @@ [vpc |-> "v"]
Vm == O("ec2", "i") @@ [vpc |-> "v", subnet |-> "sn", image |-> "ami", groups |-> {"sg"}, cluster |-> "k"]
OutsideVpc == O("ec2", "i2") @@ [vpc |-> "", subnet |-> "", image |-> "ami", groups |-> {}, cluster |-> ""]
Balancer == O("lbs", "lb") @@ [vpc |-> "v", groups |-> {"sg"}, subnets |-> {"sn"},
              targets |-> {[id |-> "t", type |-> "instance", instances |-> {"i"}]}]
ClassicOne == O("classic", "old") @@ [vpc |-> "v", groups |-> {"sg"}, subnets |-> {"sn"}, instances |-> {"i"}]
Scaling(id, balancers) ==
    O("asg", id) @@ [name |-> id, subnets |-> {"sn"}, instances |-> {"i"}, balancers |-> balancers]
Cluster(id, nodegroups) == O("eks", id) @@ [vpc |-> "v", subnets |-> {"sn"}, nodegroups |-> nodegroups]

Balanced == {Subnet, Vm, OutsideVpc, Balancer, ClassicOne, Scaling("a", {}), Scaling("b", {"lb"})}
Clustered ==
    {Subnet, Vm, Cluster("k", {[id |-> "ng", groups |-> {"a"}]}), Cluster("l", {}), Scaling("a", {}),
     O("ecr", "repo") @@ [registry |-> "acct", tags |-> {"latest"}]}
Single ==
    {O("vpcs", "v") @@ [owner |-> "acct"], InVpc("route_tables", "rt") @@ [owner |-> "acct"], Subnet,
     InVpc("natgws", "nat") @@ [subnet |-> "sn"], InVpc("net_acls", "acl"), O("dhcp_options", "dhcp"),
     InVpc("lambdas", "f") @@ [subnets |-> {"sn"}, groups |-> {"sg"}],
     [kind |-> "s3-buckets", region |-> "global", id |-> "bucket"]}
Linked ==
    {Vm, O("azs", "az1"), O("amis", "ami"), InVpc("sec_groups", "sg"), Subnet,
     O("vols", "vol") @@ [instances |-> {"i"}],
     InVpc("rds", "db") @@ [zone |-> "ra", securityGroups |-> {"sg"}, subnets |-> {"sn"}, zones |-> {"ra"}, groups |-> {"sg"}]}
SecondVm == [Vm EXCEPT !.id = "i3"]
Lambda(id) == InVpc("lambdas", id) @@ [subnets |-> {"sn"}, groups |-> {}]
Paged == {Subnet, Vm, SecondVm, Lambda("f"), Lambda("g"), Cluster("k", {})}
PagedBalancers == {Balancer, ClassicOne, [ClassicOne EXCEPT !.id = "older"], Scaling("a", {"lb"})}
KindsOf(resource) == {o.kind : o \in resource} \ {"classic", "s3-buckets"}

Calls == {"list", "targets", "health", "classic", "cluster", "nodegroups", "tagged", "images", "details", "subnet", "balancers", "classics"}

PagedAccountOf(pages, resource, kinds, fallible, failures_, changes_) ==
    [Resource |-> resource, Initially |-> resource, Kinds |-> kinds, Regions |-> {"r"},
     Account |-> "acct", PageSize |-> pages, Fallible |-> fallible, MaxFailures |-> failures_, MaxChanges |-> changes_]
AccountOf(resource, kinds, fallible, failures_, changes_) ==
    PagedAccountOf(<<>>, resource, kinds, fallible, failures_, changes_)
MCAccounts ==
    [balancers |-> AccountOf(Balanced, {"lbs", "asg", "ec2", "subnets"}, Calls, 2, 0),
     clusters |-> AccountOf(Clustered, {"eks", "ecr", "ec2", "subnets"}, Calls, 2, 0),
     changing |-> AccountOf(Clustered, {"eks", "ec2", "subnets"}, {}, 0, 1),
     paged |-> PagedAccountOf([tagged |-> 1, lambdas |-> 1, ec2 |-> 1], Paged, KindsOf(Paged), Calls, 1, 0),
     paged_classics |-> PagedAccountOf([classic |-> 1], PagedBalancers, KindsOf(PagedBalancers), Calls, 1, 0),
     networks |-> AccountOf(Single, KindsOf(Single), Calls, 1, 0),
     hosts |-> AccountOf(Linked, KindsOf(Linked), Calls, 1, 0)]
=============================================================================
