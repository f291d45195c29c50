----------------------------- MODULE MCStartup -----------------------------
(* Small configurations for Startup.                                       *)
EXTENDS Startup

CONSTANTS d1, d2, t1, t2
-----------------------------------------------------------------------------
C(integration, scope_id, gcp_flows, mappings, creatable) ==
    [integration |-> integration, scope_id |-> scope_id, gcp_flows |-> gcp_flows,
     external_mappings |-> mappings, creatable |-> creatable]

(* d1 is a cluster; d2 maps to it with flows on, without flows, not at all *)
SomeConfigs ==
    {[d \in DataSource |->
        IF d = d1 THEN C("kubernetes", scoped, FALSE, {}, TRUE)
        ELSE C("gcp", FALSE, flows, mappings, ok)] :
        scoped \in BOOLEAN, flows \in BOOLEAN, ok \in BOOLEAN, mappings \in {{}, {d1}}}

(* Every type of data source with every one or two of a few settings, next *)
(* to an ordinary data source of the same or another type.                 *)
Text(t) == [env |-> "", text |-> t, amount |-> 0, unit |-> ""]
Var(e) == [env |-> e, text |-> "", amount |-> 0, unit |-> ""]
Every(n, u) == [env |-> "", text |-> "interval", amount |-> n, unit |-> u]
Pair(k, v) == [key |-> k, value |-> v]
ScopeID == Pair("scope_id", Text("s"))
Intervals == {Pair("crawl_interval", v) : v \in {Every(n, u) : n \in {0, 5, 20}, u \in {"s", "m", "h"}}
                 \union {Text(""), Text("x"), Var("SET")}}
Pairs == Intervals \union
    {Pair("scope_id", v) : v \in {Text(""), Var("SET"), Var("UNSET")}} \union
    {Pair("db_pass", v) : v \in {Var("SET"), Var("UNSET")}} \union
    {Pair("ssl_mode", Text(t)) : t \in {"require", "prefer"}} \union
    {Pair("in_cluster", Text(t)) : t \in {"true", "false"}} \union
    {Pair("project_id", Text(t)) : t \in {"", "p"}} \union
    {Pair("in_cloud", Text("true"))} \union
    {Pair("config_file", Text("f")), Pair("credentials_file", Text("f")), Pair("prometheus_host", Text("h"))}
Types == {"kubernetes", "aws", "gcp", "aws_flow_logs", "mongodb", "postgres", "mariadb", "mysql"}
Others == {[type |-> t, pairs |-> <<ScopeID, Pair("crawl_interval", Every(5, "s"))>>] : t \in {"aws", "postgres"}}
MCSources == {<<[type |-> t, pairs |-> ps], o>> :
    t \in Types, o \in Others,
    ps \in {<<>>} \union {<<ScopeID, p>> : p \in Pairs} \union {<<p, ScopeID, q>> : p, q \in Intervals}
           \union {<<p>> : p \in Pairs \ Intervals} \union {<<ScopeID, p, q>> : p, q \in Pairs \ Intervals}}

MCEnv == [SET |-> "value"]
=============================================================================
