----------------------------- MODULE MCMetrics -----------------------------
(* Small constants for Metrics.                                            *)
EXTENDS Metrics, TLC

CONSTANTS m1, m2, m3, workloadA, workloadB, p1, p2
-----------------------------------------------------------------------------
(* Declarations good and bad, alone and in pairs, and answers of up to two *)
(* samples.                                                                *)
Base == [id |-> "r", provider |-> "prometheus", mode |-> "custom", enabled |-> TRUE,
         query |-> "up", threshold |-> {[operator |-> "", value |-> 1]},
         target |-> {"kubernetes_pod"}, name |-> "", params |-> <<>>]
Custom == {Base, [Base EXCEPT !.id = "s"], [Base EXCEPT !.id = "s", !.query = "down"],
           [Base EXCEPT !.query = "down"],
           [Base EXCEPT !.target = {}], [Base EXCEPT !.target = {}, !.enabled = FALSE],
           [Base EXCEPT !.id = "t", !.target = {"external_mapping"}],
           [Base EXCEPT !.mode = "other"], [Base EXCEPT !.query = ""], [Base EXCEPT !.provider = "other"],
           [Base EXCEPT !.provider = ""], [Base EXCEPT !.threshold = {[operator |-> "~", value |-> 1]}],
           [Base EXCEPT !.provider = "gcp_monitoring", !.target = {"external_mapping"}]}
Pre == [Base EXCEPT !.id = "p", !.mode = "predefined", !.threshold = {}, !.target = {}, !.query = ""]
Answer(p, n) == [points |-> p, namespace |-> "a", name |-> n]
Registry == INSTANCE MetricRules WITH Configs <- {}, Answers <- {}, Mapped <- {}, MaxMinutes <- 0
Predefined ==
    {[Pre EXCEPT !.name = n] : n \in DOMAIN Registry!PrometheusRules(<<>>)} \union
    {[Pre EXCEPT !.provider = "gcp_monitoring", !.name = n] : n \in DOMAIN Registry!MonitoringRules(<<>>)} \union
    {[Pre EXCEPT !.name = "kubernetes_pvc_low_free_space", !.params = [threshold |-> 3]],
     [Pre EXCEPT !.name = "kubernetes_pvc_low_free_space", !.threshold = {[operator |-> "", value |-> 3]}],
     [Pre EXCEPT !.name = "nothing"]}

MCDeclarations ==
    {<<>>} \union {<<d>> : d \in Custom \union Predefined} \union (Custom \X Custom)
        \union {<<[Base EXCEPT !.id = "s"], d>> : d \in Predefined}
MCSeries ==
    {<<>>} \union {<<Answer(p, "db")>> : p \in {<<>>, <<0>>, <<4, 0>>}}
        \union {<<Answer(<<4, 0>>, ""), Answer(<<4, 0>>, n)>> : n \in {"db", "web"}}

(* Up to three samples in each answer, of traffic between two workloads    *)
(* and two pods of each, of none, and of an end that is not known.         *)
Traffic(from, to, pod) == [from |-> from, to |-> to, pod |-> pod, quiet |-> FALSE]
Samples == {Traffic(workloadA, workloadB, p) : p \in Pod} \union {Traffic(workloadB, workloadA, p) : p \in Pod}
             \union {[Traffic(workloadA, workloadA, p1) EXCEPT !.quiet = TRUE], Traffic(workloadA, Unknown, p1)}
MCReports == {x \in SUBSET Samples : Cardinality(x) <= 3}
=============================================================================
