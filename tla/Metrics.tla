------------------------------ MODULE Metrics ------------------------------
(***************************************************************************)
(* Three parts of the program that share nothing, one at a time: processes *)
(* migrating one database, the metric rules of a data source, and the join *)
(* of two Istio answers.                                                   *)
(***************************************************************************)
EXTENDS Migrations, FiniteSets, Sequences

CONSTANTS Declarations,  \* what a data source may declare: a set of sequences
          Series,        \* what a query of a rule may answer
          Mapped, MaxMinutes,
          Workload, Pod, Unknown,
          Reports        \* what a query of the Istio join may answer

VARIABLES part,
          type, config, rules, phase, next, minute, zones, triggers, shipped, answered,
                                                                    \* MetricRules
          join, reports, destinations, seen, podOf, found, asked      \* IstioFlows

ofRules == <<type, config, rules, phase, next, minute, zones, triggers, shipped, answered>>
ofIstio == <<join, reports, destinations, seen, podOf, found, asked>>
others == <<ofRules, ofIstio>>
all == <<part, vars, others>>

Rules == INSTANCE MetricRules WITH Configs <- Declarations, Answers <- Series
Istio == INSTANCE IstioFlows WITH pc <- join, sources <- reports, Answers <- Reports

ASSUME MetricsAssumption == Rules!Parameters /\ Istio!Parameters
-----------------------------------------------------------------------------
NoRules ==
    /\ type = "" /\ config = <<>> /\ rules = <<>> /\ phase = "start" /\ next = 0 /\ minute = 0
    /\ zones = {} /\ triggers = {} /\ shipped = {} /\ answered = {}
NoIstio ==
    /\ join = "" /\ reports = {} /\ destinations = {} /\ seen = {} /\ podOf = <<>>
    /\ found = <<>> /\ asked = <<>>

NoMigrations ==
    /\ schema = Last /\ schema_migrations = Version /\ stops = 0
    /\ pc = [p \in Process |-> "ready"] /\ at = [p \in Process |-> Last + 1]

MetricsInit ==
    \/ part = "migrations" /\ Init /\ NoRules /\ NoIstio
    \/ part = "rules" /\ Rules!Init /\ NoMigrations /\ NoIstio
    \/ part = "istio" /\ Istio!Init /\ NoMigrations /\ NoRules

MetricsNext ==
    \/ part = "migrations" /\ Next /\ UNCHANGED <<part, others>>
    \/ part = "rules" /\ Rules!Next /\ UNCHANGED <<part, vars, ofIstio>>
    \/ part = "istio" /\ Istio!Next /\ UNCHANGED <<part, vars, ofRules>>

(* The fairness of Migrations: a program that ended is started again, and  *)
(* its calls return.                                                       *)
MetricsSpec ==
    /\ MetricsInit /\ [][MetricsNext]_all
    /\ \A p \in Process :
          SF_all(part = "migrations" /\ (Start(p) \/ Migrate(p)) /\ UNCHANGED <<part, others>>)
-----------------------------------------------------------------------------
(* What Prometheus or GCP answers is shown: the rules of an accepted       *)
(* configuration are all evaluated, a match has its trigger, under a name  *)
(* of its own, and traffic its relations, between the pods that reported   *)
(* it.                                                                     *)
AnswersShown ==
    /\ part = "rules" =>
          /\ Rules!TypeOK /\ Rules!AcceptedRulesKept
          /\ Rules!MatchesReported /\ Rules!TriggersDistinct
    /\ part = "istio" =>
          Istio!TypeOK /\ Istio!FlowsComplete /\ Istio!PodsMatch /\ Istio!FoundAsOften

(* A stored trigger is replaced only by its own rule's.                    *)
TriggersKept == [][part = "rules" => Rules!KeepsTriggers]_all
=============================================================================
