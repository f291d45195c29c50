----------------------------- MODULE IstioFlows -----------------------------
(***************************************************************************)
(* getIstioRelationships (internal/integrations/kubernetes): two queries,  *)
(* for the requests as their sources and as their destinations report      *)
(* them, joined into relations between services, deployments and pods.     *)
(* Prometheus answers in no particular order, so the loops take any.       *)
(*                                                                         *)
(* A sample names the pod that reports it and the workloads at both ends;  *)
(* a workload stands for its namespace, service and deployment together.   *)
(***************************************************************************)
EXTENDS Naturals, Sequences, FiniteSets

CONSTANTS Workload, Pod, Unknown,
          Answers        \* what a query may answer: sets of samples

Sample == [from : Workload \union {Unknown}, to : Workload \union {Unknown},
           pod : Pod, quiet : BOOLEAN]

Parameters == \A a \in Answers : a \subseteq Sample /\ IsFiniteSet(a)

VARIABLES pc, sources, destinations,  \* answers still to be gone through
          seen,          \* keys of the service and deployment relations found
          podOf,         \* istioMappingFromQueries: pair of workloads -> source pod
          found,         \* allFoundRelationships, as a sequence
          asked          \* ghost: what the two queries answered

vars == <<pc, sources, destinations, seen, podOf, found, asked>>

Counts(s) == ~s.quiet /\ Unknown \notin {s.from, s.to}
Pair(s) == <<s.from, s.to>>
Relations(s) == <<[kind |-> "service", ends |-> Pair(s)], [kind |-> "deployment", ends |-> Pair(s)]>>
FoundSet == {found[i] : i \in DOMAIN found}
-----------------------------------------------------------------------------
Init ==
    /\ pc = "sources"
    /\ \E a, b \in Answers :
          sources = a /\ destinations = b /\ asked = [sources |-> a, destinations |-> b]
    /\ seen = {} /\ podOf = <<>> /\ found = <<>>

(* The source loop appends without looking whether a pair was there.       *)
Source(s) ==
    /\ pc = "sources" /\ s \in sources
    /\ sources' = sources \ {s}
    /\ IF Counts(s)
       THEN /\ found' = found \o Relations(s)
            /\ seen' = seen \union {Pair(s)}
            /\ podOf' = [p \in DOMAIN podOf \union {Pair(s)} |-> IF p = Pair(s) THEN s.pod ELSE podOf[p]]
       ELSE UNCHANGED <<found, seen, podOf>>
    /\ UNCHANGED <<pc, destinations, asked>>

(* The second query: an error drops what the first one gave.               *)
QueryDestinations ==
    /\ pc = "sources" /\ sources = {}
    /\ \/ pc' = "destinations" /\ UNCHANGED found
       \/ pc' = "failed" /\ found' = <<>>
    /\ UNCHANGED <<sources, destinations, seen, podOf, asked>>

(* Mutant: a pair first seen by its destination is not remembered. *)
DestinationForgets(s) ==
    /\ pc = "destinations" /\ s \in destinations
    /\ destinations' = destinations \ {s}
    /\ IF Counts(s)
       THEN found' = found \o (IF Pair(s) \in seen THEN <<>> ELSE Relations(s))
                          \o (IF Pair(s) \in DOMAIN podOf
                              THEN <<[kind |-> "pod", ends |-> <<podOf[Pair(s)], s.pod>>]>> ELSE <<>>)
       ELSE UNCHANGED found
    /\ UNCHANGED <<pc, sources, seen, podOf, asked>>

(* Mutant: the pod is taken for the source again. *)
DestinationSwaps(s) ==
    /\ pc = "destinations" /\ s \in destinations
    /\ destinations' = destinations \ {s}
    /\ found' = IF Counts(s) /\ Pair(s) \in DOMAIN podOf
                THEN Append(found, [kind |-> "pod", ends |-> <<s.pod, podOf[Pair(s)]>>]) ELSE found
    /\ UNCHANGED <<pc, sources, seen, podOf, asked>>

(* The destination loop appends new pairs, and one relation between pods   *)
(* if a source reported the pair.                                          *)
Destination(s) ==
    /\ pc = "destinations" /\ s \in destinations
    /\ destinations' = destinations \ {s}
    /\ IF Counts(s)
       THEN /\ found' = found \o (IF Pair(s) \in seen THEN <<>> ELSE Relations(s))
                             \o (IF Pair(s) \in DOMAIN podOf
                                 THEN <<[kind |-> "pod", ends |-> <<podOf[Pair(s)], s.pod>>]>> ELSE <<>>)
            /\ seen' = seen \union {Pair(s)}
       ELSE UNCHANGED <<found, seen>>
    /\ UNCHANGED <<pc, sources, podOf, asked>>

Next ==
    \/ \E s \in sources : Source(s)
    \/ QueryDestinations
    \/ \E s \in destinations : Destination(s)
Spec == Init /\ [][Next]_vars
Done == pc = "destinations" /\ destinations = {}
-----------------------------------------------------------------------------
(* Every variable has its type, and what was found has its key remembered. *)
TypeOK ==
    /\ pc \in {"sources", "destinations", "failed"}
    /\ sources \subseteq Sample /\ destinations \subseteq Sample
    /\ seen \subseteq Workload \X Workload
    /\ DOMAIN podOf \subseteq seen /\ \A p \in DOMAIN podOf : podOf[p] \in Pod
    /\ \A r \in FoundSet : r.kind # "pod" => r.ends \in seen

(* The reference: what a request between two workloads must show.          *)
All == asked.sources \union asked.destinations
Expected == {[kind |-> k, ends |-> Pair(s)] : k \in {"service", "deployment"}, s \in {t \in All : Counts(t)}}

(* Whatever the order of the samples, the services and deployments related *)
(* in the end are those some sample with traffic has at its two ends.      *)
FlowsComplete == Done => {r \in FoundSet : r.kind # "pod"} = Expected

(* Two pods are related only if one reported as a source and the other as  *)
(* a destination of traffic between the same workloads; of several source  *)
(* pods one, the last, stands for all, but each destination is related.    *)
PodsMatch ==
    Done =>
      /\ \A r \in {x \in FoundSet : x.kind = "pod"} :
            \E s \in asked.sources, d \in asked.destinations :
                Counts(s) /\ Counts(d) /\ Pair(s) = Pair(d) /\ r.ends = <<s.pod, d.pod>>
      /\ \A s \in asked.sources, d \in asked.destinations :
            (Counts(s) /\ Counts(d) /\ Pair(s) = Pair(d))
                => \E r \in FoundSet : r.kind = "pod" /\ r.ends[2] = d.pod

(* A pair is found as often as source samples have it, and once if only    *)
(* destinations have it.                                                   *)
Occurrences(r) == Cardinality({i \in DOMAIN found : found[i] = r})
FoundAsOften ==
    Done => \A r \in Expected :
        LET n == Cardinality({s \in asked.sources : Counts(s) /\ Pair(s) = r.ends}) IN
        Occurrences(r) = IF n = 0 THEN 1 ELSE n
=============================================================================
