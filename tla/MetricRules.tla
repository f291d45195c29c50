---------------------------- MODULE MetricRules ----------------------------
(***************************************************************************)
(* Metric rules (internal/metrics, internal/config and the metrics.go of   *)
(* the Kubernetes and GCP crawlers): the declarations of a data source are *)
(* resolved and validated when the configuration is read, resolved again   *)
(* for the crawler, and evaluated rule by rule in every crawl against what *)
(* the provider answers.  A rule with matching samples makes one element,  *)
(* a trigger, whose name has the minute of the crawl and all its targets.  *)
(*                                                                         *)
(* An optional value is a set of at most one.  Numbers stand for the       *)
(* values of a metric, ratios in percent; a query for its text.            *)
(***************************************************************************)
EXTENDS Naturals, Sequences, FiniteSets

CONSTANTS Configs,       \* declarations of the data source: a set of sequences
          Answers,       \* what a query may answer: a set of sequences of series
          Mapped,        \* keys external_mappings resolves
          MaxMinutes     \* bound on the clock

(* What a declaration has; a parameter other than a threshold is not read. *)
Threshold == [operator : STRING, value : Nat]
Declaration ==
    [id : STRING, provider : STRING, mode : STRING, enabled : BOOLEAN, query : STRING,
     threshold : SUBSET Threshold, target : SUBSET STRING, name : STRING,
     params : [{} -> Nat] \union [{"threshold"} -> Nat]]
Parameters == Configs \subseteq Seq(Declaration) /\ MaxMinutes \in Nat

VARIABLES type, config,  \* of the data source
          rules,         \* metricRules of its crawler
          phase,         \* "start", "rejected", "idle", "evaluate"
          next,          \* place the next rule to be evaluated is at or after
          minute,
          zones,         \* cloudSQLZones: databases of which the zone is known
          triggers,      \* triggerElements of the crawl
          shipped,       \* triggers shipped so far, as the store keeps them
          answered       \* ghost: what each rule was answered in this crawl

vars == <<type, config, rules, phase, next, minute, zones, triggers, shipped, answered>>
-----------------------------------------------------------------------------
Operators == {">", ">=", "<", "<=", "==", "!="}

(* EvaluateThreshold; an unknown operator never holds.                     *)
Fires(value, t) ==
    \/ t.operator = ">" /\ value > t.value
    \/ t.operator = ">=" /\ value >= t.value
    \/ t.operator = "<" /\ value < t.value
    \/ t.operator = "<=" /\ value <= t.value
    \/ t.operator = "==" /\ value = t.value
    \/ t.operator = "!=" /\ value # t.value

The(option, default) == IF option = {} THEN default ELSE CHOOSE x \in option : TRUE

(* A parameter of a predefined rule; one that is absent, empty or of       *)
(* another type counts as not given.                                       *)
Param(params, key, default) == IF key \in DOMAIN params THEN params[key] ELSE default

(* The predefined rules: what they measure, when they fire, and what their *)
(* samples are resolved to.                                                *)
Rule(operator, params, default, resolver) ==
    [query |-> "predefined", resolver |-> resolver,
     threshold |-> [operator |-> operator, value |-> Param(params, "threshold", default)]]
FixedRule(resolver) ==
    [query |-> "predefined", resolver |-> resolver, threshold |-> [operator |-> ">", value |-> 0]]

ServiceHigh5xx(p) == Rule(">", p, 1, "kubernetes_service")
DeploymentHigh5xx(p) == Rule(">", p, 1, "kubernetes_deployment")
ServiceHighLatency(p) == Rule(">", p, 500, "kubernetes_service")
PodHighRestartRate(p) == Rule(">", p, 3, "kubernetes_pod")
PodCrashloopOrImagePullError(p) == FixedRule("kubernetes_pod")
PodNotReady(p) == FixedRule("kubernetes_pod")
DeploymentUnavailableReplicas(p) == Rule(">", p, 0, "kubernetes_deployment")
DeploymentAvailabilityGap(p) == Rule(">", p, 1, "kubernetes_deployment")
PodHighCPUUsage(p) == Rule(">", p, 80, "kubernetes_pod")
PodHighMemoryWorkingSet(p) == Rule(">", p, 1500000000, "kubernetes_pod")
PodCPUThrottlingHigh(p) == Rule(">", p, 20, "kubernetes_pod")
PodOOMEvents(p) == FixedRule("kubernetes_pod")
PodUnschedulable(p) == FixedRule("kubernetes_pod")
PVCLowFreeSpace(p) == Rule("<", p, 10, "kubernetes_pvc")
PVCFreeSpaceBurnRate(p) == Rule("<", p, 10, "kubernetes_pvc")
PVCInodeLowFree(p) == Rule("<", p, 10, "kubernetes_pvc")
StatefulSetPVCLowFreeSpace(p) == Rule("<", p, 10, "kubernetes_pvc")
CloudSQLHighCPU(p) == Rule(">", p, 80, "gcp_cloudsql")
CloudSQLHighConnections(p) == Rule(">", p, 200, "gcp_cloudsql")
VMHighCPU(p) == Rule(">", p, 80, "gcp_vm_instance")

PrometheusRules(p) ==
    [kubernetes_service_high_5xx |-> ServiceHigh5xx(p),
     kubernetes_deployment_high_5xx |-> DeploymentHigh5xx(p),
     kubernetes_service_high_latency |-> ServiceHighLatency(p),
     kubernetes_pod_high_restart_rate |-> PodHighRestartRate(p),
     kubernetes_pod_crashloop_or_imagepull_error |-> PodCrashloopOrImagePullError(p),
     kubernetes_pod_not_ready |-> PodNotReady(p),
     kubernetes_deployment_unavailable_replicas |-> DeploymentUnavailableReplicas(p),
     kubernetes_deployment_availability_gap |-> DeploymentAvailabilityGap(p),
     kubernetes_pod_high_cpu_usage |-> PodHighCPUUsage(p),
     kubernetes_pod_high_memory_workingset |-> PodHighMemoryWorkingSet(p),
     kubernetes_pod_cpu_throttling_high |-> PodCPUThrottlingHigh(p),
     kubernetes_pod_oom_events |-> PodOOMEvents(p),
     kubernetes_pod_unschedulable |-> PodUnschedulable(p),
     kubernetes_pvc_low_free_space |-> PVCLowFreeSpace(p),
     kubernetes_pvc_free_space_burn_rate |-> PVCFreeSpaceBurnRate(p),
     kubernetes_inode_low_free |-> PVCInodeLowFree(p),
     kubernetes_statefulset_pvc_low_free_space |-> StatefulSetPVCLowFreeSpace(p)]
MonitoringRules(p) ==
    [cloudsql_high_cpu |-> CloudSQLHighCPU(p),
     cloudsql_high_connections |-> CloudSQLHighConnections(p),
     vm_high_cpu |-> VMHighCPU(p)]

(* The registry, by provider and name.                                     *)
Registry(provider, params) ==
    CASE provider = "prometheus" -> PrometheusRules(params)
      [] provider = "gcp_monitoring" -> MonitoringRules(params)
      [] OTHER -> <<>>
Registered(d) == d.name \in DOMAIN Registry(d.provider, d.params)

CustomRule(d) ==
    [query |-> d.query, resolver |-> "", threshold |-> [operator |-> "", value |-> 0]]

(* The rule a declaration stands for.  A threshold that is declared        *)
(* replaces the predefined one, operator and all; without an operator it   *)
(* means "greater than" (normalizedRule).                                  *)
Default(t) == IF t.operator = "" THEN [t EXCEPT !.operator = ">"] ELSE t
Resolved(d) ==
    LET base == IF d.mode = "custom" THEN CustomRule(d)
                ELSE Registry(d.provider, d.params)[d.name]
    IN [id |-> d.id, provider |-> d.provider, enabled |-> d.enabled, query |-> base.query,
        threshold |-> Default(The(d.threshold, base.threshold)),
        resolver |-> The(d.target, base.resolver)]

(* validateRule; a rule that is not enabled is not looked at.              *)
Valid(r) ==
    r.enabled => /\ r.provider \in {"prometheus", "gcp_monitoring"}
                 /\ r.resolver # ""
                 /\ r.threshold.operator \in Operators
                 /\ r.query # ""

(* ResolveRuleDeclaration returns no error.                                *)
Resolvable(d) ==
    /\ d.id # "" /\ d.provider # ""
    /\ d.mode = "custom" \/ (d.mode = "predefined" /\ Registered(d))
    /\ Valid(Resolved(d))

(* Mutant: rules may share an id. *)
UniqueIDsUnchecked(c) == TRUE

UniqueIDs(c) == \A i, j \in DOMAIN c : c[i].id = c[j].id => i = j

(* NewYamlStringConfig: one bad declaration, or two with one id, and the   *)
(* program does not start.                                                 *)
Accepted(c) ==
    c # <<>> => /\ type \in {"kubernetes", "gcp"}
                /\ \A i \in DOMAIN c : Resolvable(c[i])
                /\ UniqueIDs(c)

(* Mutant: the second resolution ignores a declared target. *)
RulesOfUntargeted(c) ==
    [i \in {k \in DOMAIN c : Resolvable([c[k] EXCEPT !.target = {}])} |-> Resolved(c[i])]

(* GetAllDataSources passes over what does not resolve; the other rules    *)
(* keep the places of their declarations here.                             *)
RulesOf(c) == [i \in {k \in DOMAIN c : Resolvable(c[k])} |-> Resolved(c[i])]
-----------------------------------------------------------------------------
(* The evaluators: a sample for each series, its newest point; a series of *)
(* Cloud Monitoring without a point that is a number gives none.           *)
SamplesOf(answer) ==
    [i \in {k \in DOMAIN answer : answer[k].points # <<>>} |->
        [value |-> Head(answer[i].points), namespace |-> answer[i].namespace, name |-> answer[i].name]]

(* resolveMetricInternalID of the two crawlers: the name of the asset a    *)
(* sample is about, if its labels have one.  A Cloud SQL instance is known *)
(* once a crawl listed it.                                                 *)
KubernetesTarget(r, s) ==
    IF r.resolver = "external_mapping" THEN {<<"mapped", "", k>> : k \in {s.name} \intersect Mapped}
    ELSE IF r.resolver \in {"gcp_cloudsql", "gcp_vm_instance"} \/ "" \in {s.namespace, s.name} THEN {}
    ELSE {<<r.resolver, s.namespace, s.name>>}
GCPTarget(r, s) ==
    CASE r.resolver = "gcp_cloudsql" -> {<<r.resolver, "", n>> : n \in {s.name} \intersect zones}
      [] r.resolver = "gcp_vm_instance" -> {<<r.resolver, s.namespace, n>> : n \in {s.name} \ {""}}
      [] r.resolver = "external_mapping" -> {<<"mapped", "", k>> : k \in {s.name} \intersect Mapped}
      [] OTHER -> {}
Target(r, s) == IF type = "gcp" THEN GCPTarget(r, s) ELSE KubernetesTarget(r, s)

(* The evaluators a crawler has.                                           *)
Provider == IF type = "gcp" THEN "gcp_monitoring" ELSE "prometheus"

(* Mutant: a sample without a target ends the loop. *)
TargetsUntilUnknown(r, samples) ==
    LET known == {i \in DOMAIN samples : \A j \in DOMAIN samples : j <= i => Target(r, samples[j]) # {}} IN
    UNION {Target(r, samples[i]) : i \in {j \in known : Fires(samples[j].value, r.threshold)}}

(* The targets of a rule: all samples that match and can be resolved, one  *)
(* target per asset.                                                       *)
Targets(r, samples) ==
    UNION {Target(r, samples[i]) : i \in {j \in DOMAIN samples : Fires(samples[j].value, r.threshold)}}

(* Mutant: the targets are left out of the name. *)
TriggerNameShort(r, targets) == <<r.id, minute>>

(* BuildTriggerElementID, the data source left out.                        *)
TriggerName(r, targets) == <<r.id, minute, targets>>
Trigger(r, targets) == [name |-> TriggerName(r, targets), rule |-> r, targets |-> targets]
-----------------------------------------------------------------------------
Init ==
    /\ type \in {"kubernetes", "gcp", "postgres"}
    /\ config \in Configs
    /\ rules = <<>> /\ phase = "start" /\ next = 1 /\ minute = 0
    /\ zones = {} /\ triggers = {} /\ shipped = {} /\ answered = {}

(* The configuration is read and, if accepted, the crawler made.           *)
Load ==
    /\ phase = "start"
    /\ phase' = IF Accepted(config) THEN "idle" ELSE "rejected"
    /\ rules' = IF Accepted(config) THEN RulesOf(config) ELSE <<>>
    /\ UNCHANGED <<type, config, next, minute, zones, triggers, shipped, answered>>

Clock ==
    /\ phase = "idle" /\ minute < MaxMinutes
    /\ minute' = minute + 1
    /\ UNCHANGED <<type, config, rules, phase, next, zones, triggers, shipped, answered>>

(* A crawl; before the rules come the Cloud SQL instances, if listed.      *)
Tick ==
    /\ phase = "idle"
    /\ phase' = "evaluate" /\ next' = 1 /\ triggers' = {} /\ answered' = {}
    /\ \/ UNCHANGED zones
       \/ type = "gcp" /\ zones' = {"db"}
    /\ UNCHANGED <<type, config, rules, minute, shipped>>

(* One rule: of another provider, or its query fails, or it is answered.   *)
Left == {i \in DOMAIN rules : next <= i}
EvaluateRule(i) ==
    /\ phase = "evaluate"
    /\ i \in Left /\ \A j \in Left : i <= j
    /\ next' = i + 1
    /\ LET r == rules[i] IN
       \/ UNCHANGED <<triggers, answered>>
       \/ /\ r.provider = Provider
          /\ \E samples \in {SamplesOf(a) : a \in Answers} :
                /\ answered' = answered \union {[rule |-> r, samples |-> samples]}
                /\ triggers' = triggers \union {Trigger(r, t) : t \in {Targets(r, samples)} \ {{}}}
    /\ UNCHANGED <<type, config, rules, phase, minute, zones, shipped>>

Evaluate == \E i \in DOMAIN rules : EvaluateRule(i)

(* The store keeps one element per name, the last one shipped.             *)
Ship ==
    /\ phase = "evaluate" /\ Left = {}
    /\ phase' = "idle"
    /\ shipped' = {t \in shipped : \A u \in triggers : u.name # t.name} \union triggers
    /\ UNCHANGED <<type, config, rules, next, minute, zones, triggers, answered>>

Next == Load \/ Clock \/ Tick \/ Evaluate \/ Ship
Spec == Init /\ [][Next]_vars
-----------------------------------------------------------------------------
(* Every variable has its type; a trigger in the making is of a rule       *)
(* evaluated before and has targets.                                       *)
TypeOK ==
    /\ phase \in {"start", "rejected", "idle", "evaluate"}
    /\ phase \in {"start", "rejected"} => rules = <<>>
    /\ next \in 1..(Len(config) + 1) /\ minute \in 0..MaxMinutes
    /\ \A t \in triggers : t.targets # {} /\ \E i \in DOMAIN rules : i < next /\ rules[i] = t.rule

(* The declarations are resolved twice, once to check the configuration    *)
(* and once for the crawler, which leaves out what it cannot resolve: of a *)
(* configuration that was accepted no enabled rule is left out, and each   *)
(* keeps its id.                                                           *)
AcceptedRulesKept ==
    phase \in {"idle", "evaluate"} =>
        \A i \in DOMAIN config : config[i].enabled =>
            \E j \in DOMAIN rules : rules[j].id = config[i].id /\ Valid(rules[j])

(* Triggers "include all matching internal IDs" (README.md:479): a sample  *)
(* that matches its rule and can be resolved is a target of the rule's     *)
(* trigger, whatever the other samples and the other rules do.             *)
MatchesReported ==
    \A a \in answered : \A j \in DOMAIN a.samples :
        Fires(a.samples[j].value, a.rule.threshold) =>
            \A id \in Target(a.rule, a.samples[j]) :
                \E t \in triggers : t.rule = a.rule /\ id \in t.targets

(* Two rules never make triggers of one name in a crawl, of which the      *)
(* store would keep only one.                                              *)
TriggersDistinct == \A t, u \in triggers : t.name = u.name => t = u

(* A stored trigger is replaced only by the same rule's, for the same      *)
(* targets, found again within the minute.                                 *)
KeepsTriggers ==
    \A t \in shipped : \E u \in shipped' :
        u.name = t.name /\ u.rule = t.rule /\ u.targets = t.targets
=============================================================================
