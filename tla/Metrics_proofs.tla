-------------------------- MODULE Metrics_proofs --------------------------
(***************************************************************************)
(* Proofs about Migrate, for any number of processes, migrations, errors   *)
(* and crashes.  The induction rests on what a process knows outside of    *)
(* its transaction: everything before the version it looks at is applied,  *)
(* since the schema never goes back; and on at most one transaction that   *)
(* has changed the schema, so that the schema waits for its commit.        *)
(***************************************************************************)
EXTENDS Metrics, FiniteSetTheorems, TLAPS

(* A process has passed only what is applied, and works on a version.      *)
Passed ==
    /\ \A p \in Process : pc[p] # "down" => at[p] - 1 <= schema
    /\ \A p \in Process : pc[p] \in {"apply", "record", "commit"} => at[p] \in Version
    /\ \A p \in Process : pc[p] = "ready" => at[p] = Last + 1

(* The transaction that has changed the schema is alone, and next.         *)
ChangesAlone ==
    /\ \A p, q \in Changing : p = q
    /\ \A p \in Changing : schema = at[p] - 1

IInv == TypeOK /\ RecordedAsApplied /\ Passed /\ ChangesAlone
-----------------------------------------------------------------------------
LEMMA InitIInv ==
    ASSUME Last \in Nat, MaxStops \in Nat, Init
    PROVE  IInv
  BY DEF Init, IInv, TypeOK, RecordedAsApplied, Passed, ChangesAlone, Changing, Version

(* A step that leaves the database alone and moves one process, to a place *)
(* where its new version fits.                                             *)
LEMMA MoveIInv ==
    ASSUME Last \in Nat, MaxStops \in Nat, IInv,
           NEW p \in Process, NEW step \in {"down", "check", "apply", "record", "commit", "ready"},
           NEW version \in 1..(Last + 1),
           UNCHANGED database, stops' \in 0..MaxStops,
           pc' = [pc EXCEPT ![p] = step], at' = [at EXCEPT ![p] = version],
           step # "down" => version - 1 <= schema,
           step \in {"apply", "record", "commit"} => version \in Version,
           step = "ready" => version = Last + 1,
           step \in {"record", "commit"} => schema = version - 1 /\ Changing \subseteq {p}
    PROVE  IInv'
  <1> USE DEF IInv, TypeOK, database
  <1>1. TypeOK'
    OBVIOUS
  <1>2. RecordedAsApplied'
    BY DEF RecordedAsApplied
  <1>3. \A q \in Process : pc'[q] = IF q = p THEN step ELSE pc[q]
    OBVIOUS
  <1>4. \A q \in Process : at'[q] = IF q = p THEN version ELSE at[q]
    OBVIOUS
  <1>5. Passed'
    BY <1>3, <1>4 DEF Passed, Version
  <1>6. ChangesAlone'
    <2>1. Changing' \subseteq Changing \union {p}
      BY <1>3 DEF Changing
    <2>2. CASE step \in {"record", "commit"}
      BY <2>1, <2>2, <1>4 DEF ChangesAlone
    <2>3. CASE step \notin {"record", "commit"}
      <3>1. Changing' = Changing \ {p}
        BY <2>3, <1>3 DEF Changing
      <3> QED
        BY <3>1, <1>4 DEF ChangesAlone, Changing
    <2> QED
      BY <2>2, <2>3
  <1> QED
    BY <1>1, <1>2, <1>5, <1>6

(* A commit takes the schema to the next version; nobody else is changing  *)
(* it, so nobody's knowledge is spoilt.                                    *)
LEMMA CommitIInv ==
    ASSUME Last \in Nat, MaxStops \in Nat, IInv,
           NEW p \in Process, NEW step \in {"down", "check"}, NEW version \in 1..(Last + 1),
           CommitTx(p), stops' \in 0..MaxStops,
           pc' = [pc EXCEPT ![p] = step], at' = [at EXCEPT ![p] = version],
           step = "check" => version = at[p] + 1
    PROVE  IInv'
  <1> USE DEF IInv
  <1>1. /\ p \in Changing /\ at[p] \in Version
        /\ schema = at[p] - 1 /\ schema' = schema + 1 /\ schema' \in 1..Last
        /\ schema_migrations' = schema_migrations \union {schema'}
    BY DEF CommitTx, TypeOK, Passed, ChangesAlone, Changing, Version
  <1>2. TypeOK'
    <2>1. schema_migrations' \subseteq Version
      <3>1. schema_migrations \subseteq 1..Last
        BY DEF TypeOK, Version
      <3> QED
        BY <3>1, <1>1 DEF Version
    <2>2. schema' \in 0..Last
      BY <1>1
    <2>3. pc' \in [Process -> {"down", "check", "apply", "record", "commit", "ready"}]
      BY DEF TypeOK
    <2>4. at' \in [Process -> 1..(Last + 1)]
      BY DEF TypeOK
    <2> QED
      BY <2>1, <2>2, <2>3, <2>4 DEF TypeOK
  <1>3. RecordedAsApplied'
    <2>1. schema_migrations = 1..schema /\ schema \in Nat
      BY DEF RecordedAsApplied, TypeOK
    <2>2. 1..(schema + 1) = (1..schema) \union {schema + 1}
      BY <2>1
    <2> QED
      BY <1>1, <2>1, <2>2 DEF RecordedAsApplied
  <1>4. /\ \A q \in Process : pc'[q] = IF q = p THEN step ELSE pc[q]
        /\ \A q \in Process : at'[q] = IF q = p THEN version ELSE at[q]
    BY DEF TypeOK
  <1>5. Passed'
    BY <1>1, <1>4 DEF Passed, Version, TypeOK
  <1>6. Changing' = {}
    BY <1>1, <1>4 DEF ChangesAlone, Changing
  <1>7. ChangesAlone'
    BY <1>6 DEF ChangesAlone
  <1> QED
    BY <1>2, <1>3, <1>5, <1>7
-----------------------------------------------------------------------------
(* Each step is one of the two.                                            *)
LEMMA NextIInv ==
    ASSUME Last \in Nat, MaxStops \in Nat, IInv, [Next]_vars
    PROVE  IInv'
  <1>1. CASE UNCHANGED vars
    BY <1>1 DEF vars, database, IInv, TypeOK, RecordedAsApplied, Passed, ChangesAlone, Changing
  <1>2. CASE Next
    <2>1. PICK p \in Process : Start(p) \/ Migrate(p) \/ Stop(p)
      BY <1>2 DEF Next
    <2>2. /\ at[p] \in 1..(Last + 1) /\ at \in [Process -> 1..(Last + 1)]
          /\ schema \in 0..Last /\ stops \in 0..MaxStops
          /\ at = [at EXCEPT ![p] = at[p]]
          /\ schema_migrations = 1..schema
      BY DEF IInv, TypeOK, RecordedAsApplied
    <2>3. pc[p] # "down" => at[p] - 1 <= schema
      BY DEF IInv, Passed
    <2>4. CASE Start(p)
      <3>1. /\ UNCHANGED database /\ stops' \in 0..MaxStops
            /\ pc' = [pc EXCEPT ![p] = "check"] /\ at' = [at EXCEPT ![p] = 1]
        BY <2>4, <2>2 DEF Start, Go
      <3>2. 1 \in 1..(Last + 1) /\ 1 - 1 <= schema
        BY <2>2
      <3> QED
        BY <3>1, <3>2, MoveIInv
    <2>5. CASE Applied(p)
      <3>1. /\ UNCHANGED database /\ stops' \in 0..MaxStops
            /\ pc' = [pc EXCEPT ![p] = "check"] /\ at' = [at EXCEPT ![p] = at[p] + 1]
        BY <2>5, <2>2 DEF Applied, Proceed, Go
      <3>2. at[p] + 1 \in 1..(Last + 1) /\ (at[p] + 1) - 1 <= schema
        BY <2>5, <2>2 DEF Applied
      <3> QED
        BY <3>1, <3>2, MoveIInv
    <2>6. CASE NotApplied(p)
      <3>1. /\ UNCHANGED database /\ stops' \in 0..MaxStops
            /\ pc' = [pc EXCEPT ![p] = "apply"] /\ at' = [at EXCEPT ![p] = at[p]]
            /\ at[p] \in Version /\ at[p] - 1 <= schema
        BY <2>6, <2>2, <2>3 DEF NotApplied, Go
      <3> QED
        BY <3>1, <2>2, MoveIInv
    <2>7. CASE Return(p)
      <3>1. /\ UNCHANGED database /\ stops' \in 0..MaxStops
            /\ pc' = [pc EXCEPT ![p] = "ready"] /\ at' = [at EXCEPT ![p] = at[p]]
            /\ at[p] = Last + 1 /\ at[p] - 1 <= schema
        BY <2>7, <2>2, <2>3 DEF Return, Go
      <3> QED
        BY <3>1, <2>2, MoveIInv
    <2>8. CASE Apply(p)
      <3>1. /\ UNCHANGED database /\ stops' \in 0..MaxStops
            /\ pc' = [pc EXCEPT ![p] = "record"] /\ at' = [at EXCEPT ![p] = at[p]]
            /\ schema = at[p] - 1 /\ Changing \subseteq {p} /\ at[p] - 1 <= schema
        BY <2>8, <2>2 DEF Apply, Go
      <3>2. at[p] \in Version
        BY <2>8 DEF Apply, IInv, Passed
      <3> QED
        BY <3>1, <3>2, <2>2, MoveIInv
    <2>9. CASE Refused(p)
      <3>1. /\ UNCHANGED database /\ stops' \in 0..MaxStops
            /\ pc' = [pc EXCEPT ![p] = "down"] /\ at' = [at EXCEPT ![p] = at[p]]
        BY <2>9, <2>2 DEF Refused, Go
      <3> QED
        BY <3>1, <2>2, MoveIInv
    <2>10. CASE Record(p)
      <3>1. /\ UNCHANGED database /\ stops' \in 0..MaxStops
            /\ pc' = [pc EXCEPT ![p] = "commit"] /\ at' = [at EXCEPT ![p] = at[p]]
            /\ pc[p] = "record"
        BY <2>10, <2>2 DEF Record, Go
      <3>2. /\ at[p] \in Version /\ schema = at[p] - 1
            /\ Changing \subseteq {p}
        BY <3>1 DEF IInv, Passed, ChangesAlone, Changing
      <3>3. at[p] - 1 <= schema
        BY <3>2, <2>2
      <3> QED
        BY <3>1, <3>2, <3>3, <2>2, MoveIInv
    <2>11. CASE Commit(p)
      <3>1. /\ CommitTx(p) /\ stops' \in 0..MaxStops
            /\ pc' = [pc EXCEPT ![p] = "check"] /\ at' = [at EXCEPT ![p] = at[p] + 1]
        BY <2>11, <2>2 DEF Commit, Proceed, Go
      <3>2. at[p] + 1 \in 1..(Last + 1)
        BY <3>1 DEF CommitTx, IInv, Passed, Version
      <3> QED
        BY <3>1, <3>2, CommitIInv
    <2>12. CASE Stop(p)
      <3>1. /\ UNCHANGED database \/ CommitTx(p)
            /\ stops' \in 0..MaxStops
            /\ pc' = [pc EXCEPT ![p] = "down"] /\ at' = [at EXCEPT ![p] = at[p]]
        BY <2>12, <2>2 DEF Stop, Go
      <3>2. CASE UNCHANGED database
        BY <3>1, <3>2, <2>2, MoveIInv
      <3>3. CASE CommitTx(p)
        BY <3>1, <3>3, <2>2, CommitIInv
      <3> QED
        BY <3>1, <3>2, <3>3
    <2> QED
      BY <2>1, <2>4, <2>5, <2>6, <2>7, <2>8, <2>9, <2>10, <2>11, <2>12 DEF Migrate
  <1> QED
    BY <1>1, <1>2
-----------------------------------------------------------------------------
(* Every reachable state is well typed, the recorded versions are those    *)
(* the schema has, and a process that goes on has the current schema.      *)
THEOREM Inductive ==
    ASSUME Last \in Nat, MaxStops \in Nat
    PROVE  Spec => []IInv
  <1>1. Init => IInv
    BY InitIInv
  <1>2. IInv /\ [Next]_vars => IInv'
    BY NextIInv
  <1> QED
    BY <1>1, <1>2, PTL DEF Spec

(* Whichever processes race and wherever they die, schema_migrations names *)
(* exactly the migrations whose changes are committed.                     *)
THEOREM RecordIsTrue ==
    ASSUME Last \in Nat, MaxStops \in Nat
    PROVE  Spec => []RecordedAsApplied
  <1>1. IInv => RecordedAsApplied
    BY DEF IInv
  <1> QED
    BY <1>1, Inductive, PTL

(* A process whose Migrate returned nil has the schema its queries expect. *)
THEOREM ReadyIsCurrent ==
    ASSUME Last \in Nat, MaxStops \in Nat
    PROVE  Spec => []ReadyMeansCurrent
  <1>1. IInv => ReadyMeansCurrent
    BY DEF IInv, TypeOK, Passed, ReadyMeansCurrent
  <1> QED
    BY <1>1, Inductive, PTL
-----------------------------------------------------------------------------
(* The metric rules.  The rules of the crawler stay those of the accepted  *)
(* configuration, so that an id means one rule, and a trigger's name tells *)
(* its rule and its targets; what a rule was answered keeps its trigger    *)
(* until the crawl ends.                                                   *)
(* The rules are those of the configuration, which was accepted.           *)
OfConfig ==
    /\ config \in Declarations
    /\ phase \in {"idle", "evaluate"} => Rules!Accepted(config) /\ rules = Rules!RulesOf(config)
    /\ phase \in {"start", "rejected"} => rules = <<>> /\ triggers = {} /\ shipped = {} /\ answered = {}

(* A trigger is of a rule, and its name tells of which one and of what.    *)
FromRules(T) ==
    \A t \in T : /\ \E i \in DOMAIN rules : rules[i] = t.rule
                 /\ \E m : t = [name |-> <<t.rule.id, m, t.targets>>, rule |-> t.rule, targets |-> t.targets]

(* What a rule was answered in the crawl has its trigger.                  *)
Reported ==
    \A a \in answered : Rules!Targets(a.rule, a.samples) # {} =>
        \E t \in triggers : t.rule = a.rule /\ t.targets = Rules!Targets(a.rule, a.samples)

RulesIInv == Rules!TypeOK /\ OfConfig /\ FromRules(triggers) /\ FromRules(shipped) /\ Reported

LEMMA ConfigIs ==
    ASSUME Rules!Parameters, config \in Declarations
    PROVE  Len(config) \in Nat /\ DOMAIN config = 1..Len(config)
  BY DEF Rules!Parameters

(* The rules of an accepted configuration.                                 *)
LEMMA RulesAre ==
    ASSUME NEW c PROVE /\ DOMAIN Rules!RulesOf(c) = {k \in DOMAIN c : Rules!Resolvable(c[k])}
                       /\ \A i \in DOMAIN Rules!RulesOf(c) : Rules!RulesOf(c)[i] = Rules!Resolved(c[i]) /\ Rules!RulesOf(c)[i].id = c[i].id
<1>1. /\ DOMAIN Rules!RulesOf(c) = {k \in DOMAIN c : Rules!Resolvable(c[k])}
      /\ \A i \in DOMAIN Rules!RulesOf(c) : Rules!RulesOf(c)[i] = Rules!Resolved(c[i])
  BY DEF Rules!RulesOf
<1>2. \A d : Rules!Resolved(d).id = d.id
  BY DEF Rules!Resolved
<1> QED
  BY <1>1, <1>2

(* Rules of one id are one.                                                *)
LEMMA RulesDiffer ==
    ASSUME RulesIInv, NEW i \in DOMAIN rules, NEW j \in DOMAIN rules, rules[i].id = rules[j].id
    PROVE  rules[i] = rules[j]
<1>1. phase \in {"idle", "evaluate"}
  BY DEF RulesIInv, OfConfig, Rules!TypeOK
<1>2. Rules!Accepted(config) /\ rules = Rules!RulesOf(config)
  BY <1>1 DEF RulesIInv, OfConfig
<1>3. i \in DOMAIN config /\ j \in DOMAIN config /\ rules[i].id = config[i].id /\ rules[j].id = config[j].id
  BY <1>2, RulesAre
<1>4. Rules!UniqueIDs(config)
  BY <1>2, <1>3 DEF Rules!Accepted
<1> QED
  BY <1>3, <1>4 DEF Rules!UniqueIDs

LEMMA KeptRules == ASSUME RulesIInv PROVE Rules!AcceptedRulesKept
<1> SUFFICES ASSUME phase \in {"idle", "evaluate"}, NEW i \in DOMAIN config, config[i].enabled
             PROVE  \E j \in DOMAIN rules : rules[j].id = config[i].id /\ Rules!Valid(rules[j])
  BY DEF Rules!AcceptedRulesKept
<1>1. Rules!Accepted(config) /\ rules = Rules!RulesOf(config)
  BY DEF RulesIInv, OfConfig
<1>2. Rules!Resolvable(config[i])
  BY <1>1 DEF Rules!Accepted
<1>3. i \in DOMAIN rules /\ rules[i] = Rules!Resolved(config[i]) /\ rules[i].id = config[i].id
  BY <1>1, <1>2, RulesAre
<1>4. Rules!Valid(rules[i])
  BY <1>2, <1>3 DEF Rules!Resolvable
<1> QED
  BY <1>3, <1>4

LEMMA MatchesAre == ASSUME RulesIInv PROVE Rules!MatchesReported
<1> SUFFICES ASSUME NEW a \in answered, NEW j \in DOMAIN a.samples,
                    Rules!Fires(a.samples[j].value, a.rule.threshold), NEW id \in Rules!Target(a.rule, a.samples[j])
             PROVE  \E t \in triggers : t.rule = a.rule /\ id \in t.targets
  BY DEF Rules!MatchesReported
<1>1. id \in Rules!Targets(a.rule, a.samples)
  BY DEF Rules!Targets
<1> QED
  BY <1>1 DEF RulesIInv, Reported

LEMMA NamesDiffer ==
    ASSUME RulesIInv, NEW t \in triggers \union shipped, NEW u \in triggers \union shipped,
           t.name = u.name
    PROVE  t = u
<1>1. PICK i \in DOMAIN rules : rules[i] = t.rule
  BY DEF RulesIInv, FromRules
<1>2. PICK j \in DOMAIN rules : rules[j] = u.rule
  BY DEF RulesIInv, FromRules
<1>3. PICK m : t = [name |-> <<t.rule.id, m, t.targets>>, rule |-> t.rule, targets |-> t.targets]
  BY DEF RulesIInv, FromRules
<1>4. PICK n : u = [name |-> <<u.rule.id, n, u.targets>>, rule |-> u.rule, targets |-> u.targets]
  BY DEF RulesIInv, FromRules
<1>5. t.name = <<t.rule.id, m, t.targets>>
  BY <1>3
<1>6. u.name = <<u.rule.id, n, u.targets>>
  BY <1>4
<1>7. t.rule.id = u.rule.id /\ m = n /\ t.targets = u.targets
  <2>1. <<t.rule.id, m, t.targets>> = <<u.rule.id, n, u.targets>>
    BY <1>5, <1>6, Zenon
  <2> QED
    BY <2>1
<1>8. t.rule = u.rule
  BY <1>1, <1>2, <1>7, RulesDiffer
<1> QED
  BY <1>3, <1>4, <1>7, <1>8

LEMMA TargetsSame ==
    ASSUME type' = type, zones' = zones
    PROVE  \A r, samples : Rules!Targets(r, samples)' = Rules!Targets(r, samples)
<1>1. \A r, s : Rules!Target(r, s)' = Rules!Target(r, s)
  BY DEF Rules!Target, Rules!KubernetesTarget, Rules!GCPTarget
<1> QED
  BY <1>1 DEF Rules!Targets

LEMMA RulesInitIInv == ASSUME Rules!Parameters, Rules!Init PROVE RulesIInv
<1>1. Rules!TypeOK
  BY ConfigIs DEF Rules!Init, Rules!TypeOK, Rules!Parameters
<1> QED
  BY <1>1 DEF Rules!Init, RulesIInv, OfConfig, FromRules, Reported

LEMMA LoadIInv == ASSUME Rules!Parameters, RulesIInv, Rules!Load PROVE RulesIInv'
<1>1. Rules!TypeOK'
  BY DEF Rules!Load, RulesIInv, OfConfig, Rules!TypeOK
<1> QED
  <2>1. OfConfig'
    BY DEF Rules!Load, RulesIInv, OfConfig, Rules!Accepted
  <2>2. triggers' = {} /\ shipped' = {} /\ answered' = {}
    BY DEF Rules!Load, RulesIInv, OfConfig
  <2> QED
    BY <1>1, <2>1, <2>2 DEF RulesIInv, FromRules, Reported

LEMMA TickIInv == ASSUME Rules!Parameters, RulesIInv, Rules!Tick PROVE RulesIInv'
<1>1. Rules!TypeOK'
  BY ConfigIs DEF Rules!Tick, RulesIInv, OfConfig, Rules!TypeOK
<1>2. OfConfig'
  BY DEF Rules!Tick, RulesIInv, OfConfig, Rules!Accepted
<1> QED
  BY <1>1, <1>2 DEF Rules!Tick, RulesIInv, FromRules, Reported

LEMMA EvaluateIInv ==
    ASSUME Rules!Parameters, RulesIInv, NEW i \in DOMAIN rules, Rules!EvaluateRule(i)
    PROVE  RulesIInv'
<1> DEFINE r == rules[i]
<1>1. /\ phase = "evaluate" /\ i \in Rules!Left /\ next' = i + 1
      /\ UNCHANGED <<type, config, rules, phase, minute, zones, shipped>>
      /\ \/ UNCHANGED <<triggers, answered>>
         \/ \E samples :
                /\ answered' = answered \union {[rule |-> r, samples |-> samples]}
                /\ triggers' = triggers \union {Rules!Trigger(r, t) : t \in {Rules!Targets(r, samples)} \ {{}}}
  BY DEF Rules!EvaluateRule
<1>2. i \in 1..Len(config) /\ next \in Nat /\ next <= i /\ Len(config) \in Nat
  <2>1. i \in DOMAIN config /\ next <= i
    BY <1>1, RulesAre DEF RulesIInv, OfConfig, Rules!Left
  <2> QED
    BY <2>1, ConfigIs DEF RulesIInv, OfConfig, Rules!TypeOK
<1>3. OfConfig'
  BY <1>1 DEF RulesIInv, OfConfig, Rules!Accepted
<1>4. FromRules(shipped)'
  BY <1>1 DEF RulesIInv, FromRules
<1>5. \A t \in triggers' : t \in triggers \/ \E s : s # {} /\ t = Rules!Trigger(r, s)
  BY <1>1
<1>6. \A s : Rules!Trigger(r, s).rule = r /\ Rules!Trigger(r, s).targets = s /\ Rules!Trigger(r, s).name = <<r.id, minute, s>>
  BY DEF Rules!Trigger, Rules!TriggerName
<1>7. \A s : Rules!Trigger(r, s) = [name |-> <<r.id, minute, s>>, rule |-> r, targets |-> s]
  BY DEF Rules!Trigger, Rules!TriggerName
<1> HIDE DEF r
<1>8. FromRules(triggers)'
  <2> SUFFICES ASSUME NEW t \in triggers'
               PROVE  /\ \E j \in DOMAIN rules : rules[j] = t.rule
                      /\ \E m : t = [name |-> <<t.rule.id, m, t.targets>>, rule |-> t.rule, targets |-> t.targets]
    BY <1>1 DEF FromRules
  <2>1. CASE t \in triggers
    BY <2>1 DEF RulesIInv, FromRules
  <2>2. CASE t \notin triggers
    <3>1. PICK s : s # {} /\ t = Rules!Trigger(r, s)
      BY <1>5, <2>2
    <3>2. t.rule = r /\ t.targets = s /\ t = [name |-> <<r.id, minute, s>>, rule |-> r, targets |-> s]
      BY <1>6, <1>7, <3>1
    <3>3. rules[i] = t.rule
      BY <3>2 DEF r
    <3> QED
      BY <3>2, <3>3
  <2> QED
    BY <2>1, <2>2
<1>9. Rules!TypeOK'
  <2>1. next' \in 1..(Len(config) + 1)
    BY <1>1, <1>2
  <2>2. \A t \in triggers' : t.targets # {} /\ \E j \in DOMAIN rules : j < next' /\ rules[j] = t.rule
    <3> SUFFICES ASSUME NEW t \in triggers'
                 PROVE  t.targets # {} /\ \E j \in DOMAIN rules : j < next' /\ rules[j] = t.rule
      OBVIOUS
    <3>1. CASE t \in triggers
      <4>1. PICK j \in DOMAIN rules : j < next /\ rules[j] = t.rule
        BY <3>1 DEF RulesIInv, Rules!TypeOK
      <4>2. j \in Nat
        BY <1>1, RulesAre, ConfigIs DEF RulesIInv, OfConfig
      <4>3. j < next'
        BY <1>1, <1>2, <4>1, <4>2
      <4> QED
        BY <3>1, <4>1, <4>3 DEF RulesIInv, Rules!TypeOK
    <3>2. CASE t \notin triggers
      <4>1. PICK s : s # {} /\ t = Rules!Trigger(r, s)
        BY <1>5, <3>2
      <4>2. t.rule = r /\ t.targets # {} /\ i < next'
        BY <1>1, <1>2, <1>6, <4>1
      <4> QED
        BY <4>2 DEF r
    <3> QED
      BY <3>1, <3>2
  <2> QED
    BY <1>1, <2>1, <2>2 DEF RulesIInv, Rules!TypeOK
<1>10. Reported'
  <2> SUFFICES ASSUME NEW a \in answered', Rules!Targets(a.rule, a.samples) # {}
               PROVE  \E t \in triggers' : t.rule = a.rule /\ t.targets = Rules!Targets(a.rule, a.samples)
    BY <1>1, TargetsSame DEF Reported
  <2>1. CASE a \in answered
    BY <1>1, <2>1 DEF RulesIInv, Reported
  <2>2. CASE a \notin answered
    <3>1. PICK samples :
             /\ answered' = answered \union {[rule |-> r, samples |-> samples]}
             /\ triggers' = triggers \union {Rules!Trigger(r, t) : t \in {Rules!Targets(r, samples)} \ {{}}}
      BY <1>1, <2>2
    <3>2. a = [rule |-> r, samples |-> samples]
      BY <2>2, <3>1
    <3>3. a.rule = r /\ a.samples = samples
      BY <3>2
    <3>4. Rules!Trigger(r, Rules!Targets(r, samples)) \in triggers'
      BY <3>1, <3>3
    <3> QED
      BY <1>6, <3>3, <3>4
  <2> QED
    BY <2>1, <2>2
<1> QED
  BY <1>3, <1>4, <1>8, <1>9, <1>10 DEF RulesIInv

LEMMA ShipIInv == ASSUME Rules!Parameters, RulesIInv, Rules!Ship PROVE RulesIInv'
<1>1. Rules!TypeOK'
  BY DEF Rules!Ship, RulesIInv, Rules!TypeOK
<1>2. shipped' \subseteq shipped \union triggers
  BY DEF Rules!Ship
<1>3. FromRules(shipped)'
  BY <1>2 DEF Rules!Ship, RulesIInv, FromRules
<1>4. OfConfig'
  BY DEF Rules!Ship, RulesIInv, OfConfig, Rules!Accepted
<1>5. FromRules(triggers)'
  BY DEF Rules!Ship, RulesIInv, FromRules
<1>6. Reported'
  BY TargetsSame DEF Rules!Ship, RulesIInv, Reported
<1> QED
  BY <1>1, <1>3, <1>4, <1>5, <1>6 DEF RulesIInv

LEMMA RulesStepIInv ==
    ASSUME Rules!Parameters, RulesIInv, [Rules!Next]_(Rules!vars)
    PROVE  RulesIInv'
<1>1. CASE Rules!Clock
  <2>1. Rules!TypeOK'
    BY <1>1 DEF Rules!Clock, RulesIInv, Rules!TypeOK, Rules!Parameters
  <2>2. OfConfig'
    BY <1>1 DEF Rules!Clock, RulesIInv, OfConfig, Rules!Accepted
  <2>3. Reported'
    BY <1>1, TargetsSame DEF Rules!Clock, RulesIInv, Reported
  <2> QED
    BY <1>1, <2>1, <2>2, <2>3 DEF Rules!Clock, RulesIInv, FromRules
<1>2. CASE UNCHANGED Rules!vars
  <2>1. Rules!TypeOK' /\ OfConfig'
    BY <1>2 DEF Rules!vars, RulesIInv, Rules!TypeOK, OfConfig, Rules!Accepted
  <2>2. Reported'
    BY <1>2, TargetsSame DEF Rules!vars, RulesIInv, Reported
  <2> QED
    BY <1>2, <2>1, <2>2 DEF Rules!vars, RulesIInv, FromRules
<1> QED
  BY <1>1, <1>2, LoadIInv, TickIInv, EvaluateIInv, ShipIInv DEF Rules!Next, Rules!Evaluate

(* A stored trigger is replaced only by its own rule's.                    *)
LEMMA StepKeeps ==
    ASSUME Rules!Parameters, RulesIInv, [Rules!Next]_(Rules!vars)
    PROVE  Rules!KeepsTriggers
<1>1. CASE Rules!Ship
  <2> SUFFICES ASSUME NEW t \in shipped
               PROVE  \E u \in shipped' : u.name = t.name /\ u.rule = t.rule /\ u.targets = t.targets
    BY DEF Rules!KeepsTriggers
  <2>1. CASE \E u \in triggers : u.name = t.name
    <3>1. PICK u \in triggers : u.name = t.name
      BY <2>1
    <3>2. u = t
      BY <3>1, NamesDiffer
    <3> QED
      BY <1>1, <3>1, <3>2 DEF Rules!Ship
  <2>2. CASE ~ \E u \in triggers : u.name = t.name
    BY <1>1, <2>2 DEF Rules!Ship
  <2> QED
    BY <2>1, <2>2
<1>2. CASE ~Rules!Ship
  <2>1. shipped' = shipped
    BY <1>2 DEF Rules!Next, Rules!vars, Rules!Load, Rules!Clock, Rules!Tick, Rules!Evaluate,
       Rules!EvaluateRule
  <2> QED
    BY <2>1 DEF Rules!KeepsTriggers
<1> QED
  BY <1>1, <1>2
-----------------------------------------------------------------------------
LEMMA SameCounts ==
    /\ \A S : Istio!Cardinality(S) = Cardinality(S)
    /\ \A S : Istio!IsFiniteSet(S) = IsFiniteSet(S)
  BY DEF Cardinality, IsFiniteSet, Istio!Cardinality, Istio!IsFiniteSet

(* The join of two Istio answers.  After any number of samples, taken in   *)
(* any order, what is remembered and what was found are those of the       *)
(* samples gone through: a relation is found as often as they are sources. *)
(* The samples with traffic gone through so far, and a pair's sources.     *)
Counted(S) == {s \in S : Istio!Counts(s)}
OfPair(S, p) == {s \in S : Istio!Counts(s) /\ Istio!Pair(s) = p}
Past == asked.sources \ reports
PastDestinations == asked.destinations \ destinations

Relation == [kind : {"service", "deployment", "pod"},
             ends : (Workload \X Workload) \union (Pod \X Pod)]
Times(q, r) == Cardinality({i \in DOMAIN q : q[i] = r})

InOrder ==
    /\ join \in {"sources", "destinations", "failed"}
    /\ asked.sources \in Reports /\ asked.destinations \in Reports
    /\ reports \subseteq asked.sources /\ destinations \subseteq asked.destinations
    /\ join = "sources" => destinations = asked.destinations
    /\ join # "sources" => reports = {}
    /\ found \in Seq(Relation)
    /\ join = "failed" => found = <<>>

(* The pairs and their source pods are those of the samples gone through.  *)
Remembered ==
    /\ \A p : p \in seen <=> \E s \in Counted(Past \union PastDestinations) : Istio!Pair(s) = p
    /\ \A p : p \in DOMAIN podOf <=> \E s \in Counted(Past) : Istio!Pair(s) = p
    /\ \A p \in DOMAIN podOf : \E s \in Counted(Past) : Istio!Pair(s) = p /\ podOf[p] = s.pod

(* So are the relations: services and deployments as often as sources have *)
(* the pair, or once if only destinations have it, and pods as they match. *)
Ends(r) == r.kind # "pod" => r.ends \in seen
PodsOf(r) ==
    r.kind = "pod" => \E s \in Counted(Past), d \in Counted(PastDestinations) :
                         Istio!Pair(s) = Istio!Pair(d) /\ r.ends = <<s.pod, d.pod>>
Often(k, p) ==
    LET n == Cardinality(OfPair(Past, p)) IN
    Times(found, [kind |-> k, ends |-> p]) = IF n = 0 THEN 1 ELSE n
Related ==
    /\ \A i \in DOMAIN found : LET r == found[i] IN Ends(r) /\ PodsOf(r)
    /\ join # "failed" =>
          /\ \A k \in {"service", "deployment"} : \A p \in seen : Often(k, p)
          /\ \A d \in Counted(PastDestinations) : Istio!Pair(d) \in DOMAIN podOf =>
                \E i \in DOMAIN found : found[i].kind = "pod" /\ found[i].ends[2] = d.pod

IstioIInv == InOrder /\ Remembered /\ Related

-----------------------------------------------------------------------------
LEMMA PlacesFinite ==
    ASSUME NEW q \in Seq(Relation), NEW r
    PROVE  IsFiniteSet({i \in DOMAIN q : q[i] = r}) /\ Times(q, r) \in Nat
<1>1. {i \in DOMAIN q : q[i] = r} \subseteq 1..Len(q) /\ Len(q) \in Nat
  OBVIOUS
<1>2. IsFiniteSet({i \in DOMAIN q : q[i] = r})
  BY <1>1, FS_Interval, FS_Subset
<1> QED
  BY <1>2, FS_CardinalityType DEF Times

LEMMA TimesAppend ==
    ASSUME NEW q \in Seq(Relation), NEW e \in Relation, NEW r
    PROVE  Times(Append(q, e), r) = IF e = r THEN Times(q, r) + 1 ELSE Times(q, r)
<1> DEFINE places == {i \in DOMAIN q : q[i] = r}
           later == {i \in DOMAIN Append(q, e) : Append(q, e)[i] = r}
<1>1. DOMAIN Append(q, e) = 1..(Len(q) + 1) /\ DOMAIN q = 1..Len(q) /\ Len(q) \in Nat
  OBVIOUS
<1>2. \A i \in 1..(Len(q) + 1) : Append(q, e)[i] = IF i = Len(q) + 1 THEN e ELSE q[i]
  OBVIOUS
<1>3. later = IF e = r THEN places \union {Len(q) + 1} ELSE places
  BY <1>1, <1>2
<1>4. Len(q) + 1 \notin places
  BY <1>1
<1>5. IsFiniteSet(places)
  BY PlacesFinite
<1>6. CASE e = r
  <2>1. Cardinality(places \union {Len(q) + 1}) = Cardinality(places) + 1
    BY <1>4, <1>5, FS_AddElement
  <2> QED
    BY <1>3, <1>6, <2>1 DEF Times
<1>7. CASE e # r
  BY <1>3, <1>7 DEF Times
<1> QED
  BY <1>6, <1>7

(* What a sample with traffic adds to what was found.                      *)
LEMMA TwoMore ==
    ASSUME NEW q \in Seq(Relation), NEW a \in Relation, NEW b \in Relation
    PROVE  /\ q \o <<a, b>> = Append(Append(q, a), b)
           /\ q \o <<a, b>> \in Seq(Relation)
           /\ DOMAIN q \subseteq DOMAIN (q \o <<a, b>>)
           /\ \A i \in DOMAIN (q \o <<a, b>>) :
                 IF i \in DOMAIN q THEN (q \o <<a, b>>)[i] = q[i] ELSE (q \o <<a, b>>)[i] \in {a, b}
  OBVIOUS

LEMMA OneMore ==
    ASSUME NEW q \in Seq(Relation), NEW a \in Relation
    PROVE  /\ Append(q, a) \in Seq(Relation)
           /\ DOMAIN Append(q, a) = DOMAIN q \union {Len(q) + 1}
           /\ Append(q, a)[Len(q) + 1] = a
           /\ \A i \in DOMAIN q : Append(q, a)[i] = q[i]
  OBVIOUS

LEMMA TimesTwo ==
    ASSUME NEW q \in Seq(Relation), NEW a \in Relation, NEW b \in Relation, a # b, NEW r
    PROVE  Times(q \o <<a, b>>, r) = IF r \in {a, b} THEN Times(q, r) + 1 ELSE Times(q, r)
<1>1. q \o <<a, b>> = Append(Append(q, a), b) /\ Append(q, a) \in Seq(Relation)
  BY TwoMore, OneMore
<1>2. Times(Append(Append(q, a), b), r) = IF b = r THEN Times(Append(q, a), r) + 1 ELSE Times(Append(q, a), r)
  BY <1>1, TimesAppend
<1>3. Times(Append(q, a), r) = IF a = r THEN Times(q, r) + 1 ELSE Times(q, r)
  BY TimesAppend
<1>4. Times(q, r) \in Nat
  BY PlacesFinite
<1> QED
  BY <1>1, <1>2, <1>3, <1>4

(* A relation no place has is not there.                                   *)
LEMMA NeverThere ==
    ASSUME NEW q \in Seq(Relation), NEW r, \A i \in DOMAIN q : q[i] # r
    PROVE  Times(q, r) = 0
<1>1. {i \in DOMAIN q : q[i] = r} = {}
  OBVIOUS
<1> QED
  BY <1>1, FS_EmptySet DEF Times

LEMMA SomewhereThere ==
    ASSUME NEW q \in Seq(Relation), NEW r, Times(q, r) # 0
    PROVE  \E i \in DOMAIN q : q[i] = r
  BY NeverThere

LEMMA PairOfWorkloads ==
    ASSUME NEW s \in Istio!Sample, Istio!Counts(s)
    PROVE  Istio!Pair(s) \in Workload \X Workload /\ s.pod \in Pod
  BY DEF Istio!Sample, Istio!Counts, Istio!Pair

LEMMA SamplesAre ==
    ASSUME Istio!Parameters, InOrder
    PROVE  asked.sources \union asked.destinations \subseteq Istio!Sample /\ IsFiniteSet(asked.sources)
  BY SameCounts DEF Istio!Parameters, InOrder

LEMMA OfPairCounts ==
    ASSUME NEW S, IsFiniteSet(S), NEW p
    PROVE  /\ IsFiniteSet(OfPair(S, p)) /\ Cardinality(OfPair(S, p)) \in Nat
           /\ Cardinality(OfPair(S, p)) = 0 <=> ~ \E s \in Counted(S) : Istio!Pair(s) = p
<1>1. IsFiniteSet(OfPair(S, p))
  BY FS_Subset DEF OfPair
<1>2. Cardinality(OfPair(S, p)) \in Nat
  BY <1>1, FS_CardinalityType
<1>3. Cardinality(OfPair(S, p)) = 0 <=> OfPair(S, p) = {}
  BY <1>1, FS_EmptySet
<1> QED
  BY <1>1, <1>2, <1>3 DEF OfPair, Counted
-----------------------------------------------------------------------------
LEMMA IstioInitIInv == ASSUME Istio!Parameters, Istio!Init PROVE IstioIInv
<1>1. Past = {} /\ PastDestinations = {}
  BY DEF Istio!Init, Past, PastDestinations
<1>2. InOrder
  BY DEF Istio!Init, InOrder
<1>3. Remembered
  BY <1>1 DEF Istio!Init, Remembered, Counted
<1>4. Related
  BY <1>1 DEF Istio!Init, Related, Counted
<1> QED
  BY <1>2, <1>3, <1>4 DEF IstioIInv

LEMMA SourceIInv ==
    ASSUME Istio!Parameters, IstioIInv, NEW s \in reports, Istio!Source(s)
    PROVE  IstioIInv'
<1>1. /\ join = "sources" /\ s \in asked.sources /\ s \notin Past
      /\ Past' = Past \union {s} /\ PastDestinations' = PastDestinations /\ PastDestinations = {}
      /\ reports' = reports \ {s} /\ join' = join /\ destinations' = destinations /\ asked' = asked
  BY DEF Istio!Source, IstioIInv, InOrder, Past, PastDestinations
<1>2. s \in Istio!Sample
  BY <1>1, SamplesAre DEF IstioIInv
<1>3. IsFiniteSet(Past) /\ IsFiniteSet(Past')
  <2>1. Past \subseteq asked.sources /\ Past' \subseteq asked.sources
    BY <1>1 DEF Past
  <2> QED
    BY <2>1, SamplesAre, FS_Subset DEF IstioIInv
<1>4. CASE ~Istio!Counts(s)
  <2>1. found' = found /\ seen' = seen /\ podOf' = podOf
    BY <1>4 DEF Istio!Source
  <2>2. Counted(Past') = Counted(Past) /\ Counted(Past' \union PastDestinations) = Counted(Past \union PastDestinations)
    BY <1>1, <1>4 DEF Counted
  <2>3. \A p : OfPair(Past', p) = OfPair(Past, p)
    BY <1>1, <1>4 DEF OfPair
  <2>4. InOrder'
    BY <1>1, <2>1 DEF IstioIInv, InOrder
  <2>5. Remembered'
    BY <1>1, <2>1, <2>2 DEF IstioIInv, Remembered
  <2>6. Related'
    BY ZenonT(30), <1>1, <2>1, <2>2, <2>3 DEF IstioIInv, Related, Ends, PodsOf, Often
  <2> QED
    BY <2>4, <2>5, <2>6 DEF IstioIInv
<1>5. CASE Istio!Counts(s)
  <2> DEFINE p == Istio!Pair(s)
             a == [kind |-> "service", ends |-> p]
             b == [kind |-> "deployment", ends |-> p]
  <2>1. p \in Workload \X Workload /\ s.pod \in Pod
    BY <1>2, <1>5, PairOfWorkloads
  <2>2. /\ found' = found \o <<a, b>> /\ seen' = seen \union {p}
        /\ podOf' = [x \in DOMAIN podOf \union {p} |-> IF x = p THEN s.pod ELSE podOf[x]]
    BY <1>5 DEF Istio!Source, Istio!Relations
  <2>3. a \in Relation /\ b \in Relation /\ a.kind = "service" /\ b.kind = "deployment" /\ a.ends = p /\ b.ends = p
    BY <2>1 DEF Relation
  <2>4. \A k \in {"service", "deployment"} : \A x :
           Times(found', [kind |-> k, ends |-> x]) =
              IF x = p THEN Times(found, [kind |-> k, ends |-> x]) + 1 ELSE Times(found, [kind |-> k, ends |-> x])
    <3> SUFFICES ASSUME NEW k \in {"service", "deployment"}, NEW x
                 PROVE  Times(found', [kind |-> k, ends |-> x]) =
                           IF x = p THEN Times(found, [kind |-> k, ends |-> x]) + 1
                           ELSE Times(found, [kind |-> k, ends |-> x])
      OBVIOUS
    <3> DEFINE r == [kind |-> k, ends |-> x]
    <3>1. found \in Seq(Relation)
      BY DEF IstioIInv, InOrder
    <3>2. a # b /\ (r \in {a, b} <=> x = p)
      OBVIOUS
    <3> HIDE DEF a, b, r
    <3>3. Times(found', r) = IF x = p THEN Times(found, r) + 1 ELSE Times(found, r)
      BY <2>2, <2>3, <3>1, <3>2, TimesTwo
    <3> QED
      BY <3>3 DEF r
  <2>5. /\ found' \in Seq(Relation)
        /\ \A i \in DOMAIN found' : IF i \in DOMAIN found THEN found'[i] = found[i] ELSE found'[i] \in {a, b}
    BY <2>2, <2>3, TwoMore DEF IstioIInv, InOrder
  <2>6. Counted(Past') = Counted(Past) \union {s}
    BY <1>1, <1>5 DEF Counted
  <2>7. Counted(Past \union PastDestinations) = Counted(Past) /\ Counted(Past' \union PastDestinations') = Counted(Past')
        /\ Counted(PastDestinations) = {}
    BY <1>1 DEF Counted
  <2>8. \A x : OfPair(Past', x) = IF x = p THEN OfPair(Past, x) \union {s} ELSE OfPair(Past, x)
    BY <1>1, <1>5 DEF OfPair
  <2>9. Cardinality(OfPair(Past', p)) = Cardinality(OfPair(Past, p)) + 1
    <3>1. s \notin OfPair(Past, p) /\ IsFiniteSet(OfPair(Past, p))
      BY <1>1, <1>3, OfPairCounts DEF OfPair
    <3> QED
      BY <2>8, <3>1, FS_AddElement
  <2>10. Istio!Pair(s) = p
    OBVIOUS
  <2> HIDE DEF p, a, b
  <2>11. InOrder'
    BY <1>1, <2>5 DEF IstioIInv, InOrder
  <2>12. Remembered'
    <3>1. \A x : x \in seen' <=> \E t \in Counted(Past') : Istio!Pair(t) = x
      BY <2>2, <2>6, <2>7, <2>10 DEF IstioIInv, Remembered
    <3>2. \A x : x \in DOMAIN podOf' <=> \E t \in Counted(Past') : Istio!Pair(t) = x
      BY <2>2, <2>6, <2>10 DEF IstioIInv, Remembered
    <3>3. \A x \in DOMAIN podOf' : \E t \in Counted(Past') : Istio!Pair(t) = x /\ podOf'[x] = t.pod
      BY <2>2, <2>6, <2>10 DEF IstioIInv, Remembered
    <3> QED
      BY <2>7, <3>1, <3>2, <3>3 DEF Remembered
  <2>13. Related'
    <3>1. (\A i \in DOMAIN found : LET r == found[i] IN Ends(r) /\ PodsOf(r))'
      <4> SUFFICES ASSUME NEW i \in DOMAIN found', NEW r, r = found'[i] PROVE Ends(r)' /\ PodsOf(r)'
        OBVIOUS
      <4>1. CASE i \in DOMAIN found
        <5>1. Ends(r) /\ PodsOf(r)
          BY <2>5, <4>1 DEF IstioIInv, Related
        <5>2. Ends(r)'
          BY <2>2, <5>1 DEF Ends
        <5>3. r.kind # "pod"
          BY <2>7, <5>1 DEF PodsOf
        <5> QED
          BY <5>2, <5>3 DEF PodsOf
      <4>2. CASE i \notin DOMAIN found
        <5>1. r.kind # "pod" /\ r.ends = p
          BY <2>3, <2>5, <4>2
        <5> QED
          BY <2>2, <5>1 DEF Ends, PodsOf
      <4> QED
        BY <4>1, <4>2
    <3>2. ASSUME NEW k \in {"service", "deployment"}, NEW x \in seen' PROVE Often(k, x)'
      <4> DEFINE r == [kind |-> k, ends |-> x]
      <4>1. Times(found', r) = IF x = p THEN Times(found, r) + 1 ELSE Times(found, r)
        BY <2>4
      <4>2. Cardinality(OfPair(Past, x)) \in Nat /\ (Cardinality(OfPair(Past, x)) = 0 <=> x \notin seen)
        BY <1>3, <2>7, OfPairCounts DEF IstioIInv, Remembered
      <4>3. CASE x \in seen
        <5>1. Times(found, r) = Cardinality(OfPair(Past, x))
          BY <1>1, <4>2, <4>3 DEF IstioIInv, Related, Often
        <5>2. Times(found', r) = Cardinality(OfPair(Past', x)) /\ Cardinality(OfPair(Past', x)) # 0
          BY <2>8, <2>9, <4>1, <4>2, <4>3, <5>1
        <5> QED
          BY <5>2 DEF Often
      <4>4. CASE x \notin seen
        <5>1. x = p
          BY <2>2, <4>4
        <5>2. \A i \in DOMAIN found : found[i] # r
          BY <4>4 DEF IstioIInv, Related, Ends
        <5>3. Times(found, r) = 0
          BY <5>2, NeverThere DEF IstioIInv, InOrder
        <5>4. Times(found', r) = 1 /\ Cardinality(OfPair(Past', x)) = 1
          BY <2>9, <4>1, <4>2, <4>4, <5>1, <5>3
        <5> QED
          BY <5>4 DEF Often
      <4> QED
        BY <4>3, <4>4
    <3>3. \A k \in {"service", "deployment"} : \A x \in seen' : Often(k, x)'
      BY <3>2
    <3>4. Counted(PastDestinations') = {}
      BY <1>1, <2>7
    <3> QED
      BY <3>1, <3>3, <3>4 DEF Related
  <2> QED
    BY <2>11, <2>12, <2>13 DEF IstioIInv
<1> QED
  BY <1>4, <1>5

LEMMA QueryIInv == ASSUME Istio!Parameters, IstioIInv, Istio!QueryDestinations PROVE IstioIInv'
<1>1. /\ join = "sources" /\ reports = {} /\ UNCHANGED <<reports, destinations, seen, podOf, asked>>
      /\ \/ join' = "destinations" /\ found' = found
         \/ join' = "failed" /\ found' = <<>>
  BY DEF Istio!QueryDestinations
<1>2. Past' = Past /\ PastDestinations' = PastDestinations
  BY <1>1 DEF Past, PastDestinations
<1>3. InOrder'
  <2>1. <<>> \in Seq(Relation)
    OBVIOUS
  <2>2. found' \in Seq(Relation)
    BY <1>1, <2>1 DEF IstioIInv, InOrder
  <2> QED
    BY <1>1, <2>2 DEF IstioIInv, InOrder
<1>4. Remembered'
  BY <1>1, <1>2 DEF IstioIInv, Remembered
<1>5. Related'
  <2>1. CASE join' = "destinations" /\ found' = found
    BY <1>1, <1>2, <2>1 DEF IstioIInv, Related, Ends, PodsOf, Often
  <2>2. CASE join' = "failed" /\ found' = <<>>
    BY <2>2 DEF Related
  <2> QED
    BY <1>1, <2>1, <2>2
<1> QED
  BY <1>3, <1>4, <1>5 DEF IstioIInv

LEMMA DestinationIInv ==
    ASSUME Istio!Parameters, IstioIInv, NEW d \in destinations, Istio!Destination(d)
    PROVE  IstioIInv'
<1>1. /\ join = "destinations" /\ d \in asked.destinations /\ d \notin PastDestinations
      /\ PastDestinations' = PastDestinations \union {d} /\ Past' = Past
      /\ destinations' = destinations \ {d} /\ join' = join /\ reports' = reports /\ asked' = asked /\ podOf' = podOf
  BY DEF Istio!Destination, IstioIInv, InOrder, Past, PastDestinations
<1>2. d \in Istio!Sample
  BY <1>1, SamplesAre DEF IstioIInv
<1>3. IsFiniteSet(Past)
  <2>1. Past \subseteq asked.sources
    BY DEF Past
  <2> QED
    BY <2>1, SamplesAre, FS_Subset DEF IstioIInv
<1>4. CASE ~Istio!Counts(d)
  <2>1. found' = found /\ seen' = seen
    BY <1>4 DEF Istio!Destination
  <2>2. /\ Counted(PastDestinations') = Counted(PastDestinations)
        /\ Counted(Past' \union PastDestinations') = Counted(Past \union PastDestinations)
    BY <1>1, <1>4 DEF Counted
  <2>3. InOrder'
    BY <1>1, <2>1 DEF IstioIInv, InOrder
  <2>4. Remembered'
    BY <1>1, <2>1, <2>2 DEF IstioIInv, Remembered
  <2>5. Related'
    BY <1>1, <2>1, <2>2 DEF IstioIInv, Related, Ends, PodsOf, Often
  <2> QED
    BY <2>3, <2>4, <2>5 DEF IstioIInv
<1>5. CASE Istio!Counts(d)
  <2> DEFINE p == Istio!Pair(d)
             a == [kind |-> "service", ends |-> p]
             b == [kind |-> "deployment", ends |-> p]
             c == [kind |-> "pod", ends |-> <<podOf[p], d.pod>>]
             pods == IF p \in DOMAIN podOf THEN <<c>> ELSE <<>>
  <2>1. p \in Workload \X Workload /\ d.pod \in Pod
    BY <1>2, <1>5, PairOfWorkloads
  <2>2. found' = found \o (IF p \in seen THEN <<>> ELSE <<a, b>>) \o pods /\ seen' = seen \union {p}
    BY <1>5 DEF Istio!Destination, Istio!Relations
  <2>3. a \in Relation /\ b \in Relation /\ a.kind = "service" /\ b.kind = "deployment" /\ a.ends = p /\ b.ends = p
    BY <2>1 DEF Relation
  <2>4. p \in DOMAIN podOf => \E s \in Counted(Past) : Istio!Pair(s) = p /\ podOf[p] = s.pod /\ s.pod \in Pod
    <3>1. p \in DOMAIN podOf => \E s \in Counted(Past) : Istio!Pair(s) = p /\ podOf[p] = s.pod
      BY DEF IstioIInv, Remembered
    <3>2. \A s \in Counted(Past) : s.pod \in Pod
      BY SamplesAre, PairOfWorkloads DEF Counted, Past, IstioIInv
    <3> QED
      BY <3>1, <3>2
  <2>5. c.kind = "pod" /\ c.ends = <<podOf[p], d.pod>> /\ c.ends[2] = d.pod /\ (p \in DOMAIN podOf => c \in Relation)
    BY <2>1, <2>4 DEF Relation
  <2> DEFINE half == IF p \in seen THEN found ELSE found \o <<a, b>>
  <2>6. found \in Seq(Relation)
    BY DEF IstioIInv, InOrder
  <2>7. /\ half \in Seq(Relation) /\ DOMAIN found \subseteq DOMAIN half
        /\ \A i \in DOMAIN half : IF i \in DOMAIN found THEN half[i] = found[i] ELSE p \notin seen /\ half[i] \in {a, b}
    BY <2>3, <2>6, TwoMore
  <2>8. \A k \in {"service", "deployment"} : \A x :
           Times(half, [kind |-> k, ends |-> x]) =
              IF x = p /\ p \notin seen THEN Times(found, [kind |-> k, ends |-> x]) + 1
              ELSE Times(found, [kind |-> k, ends |-> x])
    <3> SUFFICES ASSUME NEW k \in {"service", "deployment"}, NEW x
                 PROVE  Times(half, [kind |-> k, ends |-> x]) =
                           IF x = p /\ p \notin seen THEN Times(found, [kind |-> k, ends |-> x]) + 1
                           ELSE Times(found, [kind |-> k, ends |-> x])
      OBVIOUS
    <3> DEFINE r == [kind |-> k, ends |-> x]
    <3>1. a # b /\ (r \in {a, b} <=> x = p)
      OBVIOUS
    <3> HIDE DEF a, b, r, p
    <3>2. Times(half, r) = IF x = p /\ p \notin seen THEN Times(found, r) + 1 ELSE Times(found, r)
      <4>1. half = IF p \in seen THEN found ELSE found \o <<a, b>>
        OBVIOUS
      <4> HIDE DEF half
      <4>2. Times(found \o <<a, b>>, r) = IF x = p THEN Times(found, r) + 1 ELSE Times(found, r)
        BY <2>3, <2>6, <3>1, TimesTwo
      <4> QED
        BY <4>1, <4>2
    <3> QED
      BY <3>2 DEF r
  <2>9. found' = IF p \in DOMAIN podOf THEN Append(half, c) ELSE half
    <3> HIDE DEF a, b, c, p
    <3>1. half \in Seq(Relation) /\ found' = half \o pods
      <4> HIDE DEF pods
      <4>1. found \o <<>> = found
        BY <2>6
      <4> QED
        BY <2>2, <2>7, <4>1
    <3> HIDE DEF half
    <3>2. CASE p \in DOMAIN podOf
      <4>1. c \in Relation /\ found' = half \o <<c>>
        BY <2>5, <3>1, <3>2
      <4>2. half \o <<c>> = Append(half, c)
        BY <3>1, <4>1
      <4> QED
        BY <3>2, <4>1, <4>2
    <3>3. CASE p \notin DOMAIN podOf
      <4>1. found' = half \o <<>>
        BY <3>1, <3>3
      <4>2. half \o <<>> = half
        BY <3>1
      <4> QED
        BY <3>3, <4>1, <4>2
    <3> QED
      BY <3>2, <3>3
  <2>10. /\ found' \in Seq(Relation) /\ DOMAIN half \subseteq DOMAIN found'
         /\ \A i \in DOMAIN found' : IF i \in DOMAIN half THEN found'[i] = half[i]
                                                        ELSE p \in DOMAIN podOf /\ found'[i] = c
    <3> HIDE DEF a, b, c, p, half
    <3> QED
      BY <2>5, <2>7, <2>9, OneMore
  <2>11. \A k \in {"service", "deployment"} : \A x :
            Times(found', [kind |-> k, ends |-> x]) = Times(half, [kind |-> k, ends |-> x])
    <3> SUFFICES ASSUME NEW k \in {"service", "deployment"}, NEW x
                 PROVE  Times(found', [kind |-> k, ends |-> x]) = Times(half, [kind |-> k, ends |-> x])
      OBVIOUS
    <3>1. c # [kind |-> k, ends |-> x]
      BY <2>5
    <3> HIDE DEF a, b, c, p, half
    <3>2. CASE p \in DOMAIN podOf
      BY <2>5, <2>7, <2>9, <3>1, <3>2, TimesAppend
    <3>3. CASE p \notin DOMAIN podOf
      BY <2>9, <3>3
    <3> QED
      BY <3>2, <3>3
  <2>12. p \in DOMAIN podOf => \E i \in DOMAIN found' : found'[i] = c
    <3> HIDE DEF a, b, c, p, half
    <3> QED
      BY <2>5, <2>7, <2>9, OneMore
  <2>13. Istio!Pair(d) = p
    OBVIOUS
  <2>14. Counted(PastDestinations') = Counted(PastDestinations) \union {d}
    BY <1>1, <1>5 DEF Counted
  <2>15. Counted(Past' \union PastDestinations') = Counted(Past \union PastDestinations) \union {d}
    BY <1>1, <1>5 DEF Counted
  <2>16. Counted(Past) \subseteq Counted(Past \union PastDestinations)
    BY DEF Counted
  <2> HIDE DEF a, b, c, p, half
  <2>17. InOrder'
    BY <1>1, <2>10 DEF IstioIInv, InOrder
  <2>18. Remembered'
    <3>1. \A x : x \in seen' <=> \E t \in Counted(Past' \union PastDestinations') : Istio!Pair(t) = x
      BY <2>2, <2>13, <2>15 DEF IstioIInv, Remembered
    <3> QED
      BY <1>1, <3>1 DEF IstioIInv, Remembered
  <2>19. Related'
    <3>1. (\A i \in DOMAIN found : LET r == found[i] IN Ends(r) /\ PodsOf(r))'
      <4> SUFFICES ASSUME NEW i \in DOMAIN found', NEW r, r = found'[i] PROVE Ends(r)' /\ PodsOf(r)'
        OBVIOUS
      <4>1. CASE i \in DOMAIN found
        <5>1. r = found[i]
          BY <2>7, <2>10, <4>1
        <5>2. Ends(r) /\ PodsOf(r)
          BY <4>1, <5>1 DEF IstioIInv, Related
        <5>3. Ends(r)'
          BY <2>2, <5>2 DEF Ends
        <5>4. PodsOf(r)'
          BY <1>1, <2>14, <5>2 DEF PodsOf
        <5> QED
          BY <5>3, <5>4
      <4>2. CASE i \in DOMAIN half /\ i \notin DOMAIN found
        <5>1. r.kind # "pod" /\ r.ends = p
          BY <2>3, <2>7, <2>10, <4>2
        <5> QED
          BY <2>2, <5>1 DEF Ends, PodsOf
      <4>3. CASE i \notin DOMAIN half
        <5>1. r = c /\ p \in DOMAIN podOf
          BY <2>10, <4>3
        <5>2. PICK s \in Counted(Past) : Istio!Pair(s) = p /\ podOf[p] = s.pod
          BY <2>4, <5>1
        <5>3. r.ends = <<s.pod, d.pod>> /\ r.kind = "pod"
          BY <2>5, <5>1, <5>2
        <5> QED
          BY <1>1, <2>13, <2>14, <5>2, <5>3 DEF Ends, PodsOf
      <4> QED
        BY <2>7, <4>1, <4>2, <4>3
    <3>2. ASSUME NEW k \in {"service", "deployment"}, NEW x \in seen' PROVE Often(k, x)'
      <4> DEFINE r == [kind |-> k, ends |-> x]
      <4>1. Times(found', r) = IF x = p /\ p \notin seen THEN Times(found, r) + 1 ELSE Times(found, r)
        BY <2>8, <2>11
      <4>2. CASE x \in seen
        <5>1. Times(found, r) = LET n == Cardinality(OfPair(Past, x)) IN IF n = 0 THEN 1 ELSE n
          BY <1>1, <4>2 DEF IstioIInv, Related, Often
        <5>2. Times(found', r) = Times(found, r)
          BY <4>1, <4>2
        <5> QED
          BY <1>1, <5>1, <5>2 DEF Often
      <4>3. CASE x \notin seen
        <5>1. x = p
          BY <2>2, <4>3
        <5>2. \A i \in DOMAIN found : found[i] # r
          BY <4>3 DEF IstioIInv, Related, Ends
        <5>3. Times(found, r) = 0
          BY <2>6, <5>2, NeverThere
        <5>4. ~ \E s \in Counted(Past) : Istio!Pair(s) = x
          BY <2>16, <4>3 DEF IstioIInv, Remembered
        <5>5. Cardinality(OfPair(Past, x)) = 0
          BY <1>3, <5>4, OfPairCounts
        <5>6. Times(found', r) = 1
          BY <4>1, <4>3, <5>1, <5>3
        <5> QED
          BY <1>1, <5>5, <5>6 DEF Often
      <4> QED
        BY <4>2, <4>3
    <3>3. \A k \in {"service", "deployment"} : \A x \in seen' : Often(k, x)'
      BY <3>2
    <3>4. \A t \in Counted(PastDestinations') : Istio!Pair(t) \in DOMAIN podOf' =>
             \E i \in DOMAIN found' : found'[i].kind = "pod" /\ found'[i].ends[2] = t.pod
      <4> SUFFICES ASSUME NEW t \in Counted(PastDestinations'), Istio!Pair(t) \in DOMAIN podOf'
                   PROVE  \E i \in DOMAIN found' : found'[i].kind = "pod" /\ found'[i].ends[2] = t.pod
        OBVIOUS
      <4>1. CASE t \in Counted(PastDestinations)
        <5>1. PICK i \in DOMAIN found : found[i].kind = "pod" /\ found[i].ends[2] = t.pod
          BY <1>1, <4>1 DEF IstioIInv, Related
        <5>2. i \in DOMAIN found' /\ found'[i] = found[i]
          BY <2>7, <2>10
        <5> QED
          BY <5>1, <5>2
      <4>2. CASE t = d
        BY <1>1, <2>5, <2>12, <2>13, <4>2
      <4> QED
        BY <2>14, <4>1, <4>2
    <3> QED
      BY <3>1, <3>3, <3>4 DEF Related
  <2> QED
    BY <2>17, <2>18, <2>19 DEF IstioIInv
<1> QED
  BY <1>4, <1>5

LEMMA IstioStepIInv ==
    ASSUME Istio!Parameters, IstioIInv, [Istio!Next]_(Istio!vars)
    PROVE  IstioIInv'
<1>1. CASE UNCHANGED Istio!vars
  <2>1. Past' = Past /\ PastDestinations' = PastDestinations
    BY <1>1 DEF Istio!vars, Past, PastDestinations
  <2>2. InOrder' /\ Remembered'
    BY <1>1, <2>1 DEF Istio!vars, IstioIInv, InOrder, Remembered
  <2>3. Related'
    BY <1>1, <2>1 DEF Istio!vars, IstioIInv, Related, Ends, PodsOf, Often
  <2> QED
    BY <2>2, <2>3 DEF IstioIInv
<1> QED
  BY <1>1, SourceIInv, QueryIInv, DestinationIInv DEF Istio!Next

LEMMA TypesAre == ASSUME Istio!Parameters, IstioIInv PROVE Istio!TypeOK
<1>1. reports \subseteq Istio!Sample /\ destinations \subseteq Istio!Sample
  BY SamplesAre DEF IstioIInv, InOrder
<1>2. \A s \in Counted(Past \union PastDestinations) : Istio!Pair(s) \in Workload \X Workload /\ s.pod \in Pod
  BY SamplesAre, PairOfWorkloads DEF IstioIInv, Counted, Past, PastDestinations
<1>3. Counted(Past) \subseteq Counted(Past \union PastDestinations)
  BY DEF Counted
<1>4. seen \subseteq Workload \X Workload
  BY <1>2 DEF IstioIInv, Remembered
<1>5. DOMAIN podOf \subseteq seen /\ \A p \in DOMAIN podOf : podOf[p] \in Pod
  BY <1>2, <1>3 DEF IstioIInv, Remembered
<1>6. \A r \in Istio!FoundSet : r.kind # "pod" => r.ends \in seen
  BY DEF IstioIInv, Related, Ends, Istio!FoundSet
<1> QED
  BY <1>1, <1>4, <1>5, <1>6 DEF Istio!TypeOK, IstioIInv, InOrder

LEMMA DoneMeans ==
    ASSUME IstioIInv, Istio!Done
    PROVE  join = "destinations" /\ Past = asked.sources /\ PastDestinations = asked.destinations
  BY DEF IstioIInv, InOrder, Istio!Done, Past, PastDestinations

LEMMA RelationIs ==
    ASSUME IstioIInv, NEW i \in DOMAIN found, found[i].kind # "pod"
    PROVE  /\ found[i].kind \in {"service", "deployment"} /\ found[i].ends \in seen
           /\ found[i] = [kind |-> found[i].kind, ends |-> found[i].ends]
<1>1. found[i] \in Relation
  BY DEF IstioIInv, InOrder
<1>2. found[i].ends \in seen
  BY DEF IstioIInv, Related, Ends
<1> QED
  BY <1>1, <1>2 DEF Relation

LEMMA CompleteFlows == ASSUME Istio!Parameters, IstioIInv PROVE Istio!FlowsComplete
<1> SUFFICES ASSUME Istio!Done PROVE {r \in Istio!FoundSet : r.kind # "pod"} = Istio!Expected
  BY DEF Istio!FlowsComplete
<1>1. \A p : p \in seen <=> \E s \in Istio!All : Istio!Counts(s) /\ Istio!Pair(s) = p
  BY DoneMeans DEF IstioIInv, Remembered, Istio!All, Counted
<1>2. ASSUME NEW r \in Istio!FoundSet, r.kind # "pod" PROVE r \in Istio!Expected
  <2>1. PICK i \in DOMAIN found : found[i] = r
    BY DEF Istio!FoundSet
  <2>2. r.kind \in {"service", "deployment"} /\ r.ends \in seen /\ r = [kind |-> r.kind, ends |-> r.ends]
    BY <1>2, <2>1, RelationIs
  <2>3. PICK s \in Istio!All : Istio!Counts(s) /\ Istio!Pair(s) = r.ends
    BY <1>1, <2>2
  <2> QED
    BY <2>2, <2>3 DEF Istio!Expected
<1>3. ASSUME NEW r \in Istio!Expected PROVE r \in Istio!FoundSet /\ r.kind # "pod"
  <2>1. PICK k \in {"service", "deployment"}, s \in {t \in Istio!All : Istio!Counts(t)} : r = [kind |-> k, ends |-> Istio!Pair(s)]
    BY DEF Istio!Expected
  <2>2. Istio!Pair(s) \in seen
    BY <1>1, <2>1
  <2>3. Often(k, Istio!Pair(s))
    BY <2>2, DoneMeans DEF IstioIInv, Related
  <2>4. Times(found, r) # 0
    BY <2>1, <2>3 DEF Often
  <2>5. \E i \in DOMAIN found : found[i] = r
    BY <2>4, SomewhereThere DEF IstioIInv, InOrder
  <2> QED
    BY <2>1, <2>5 DEF Istio!FoundSet
<1> QED
  BY <1>2, <1>3

LEMMA MatchingPods == ASSUME Istio!Parameters, IstioIInv PROVE Istio!PodsMatch
<1> SUFFICES ASSUME Istio!Done
             PROVE  /\ \A r \in {x \in Istio!FoundSet : x.kind = "pod"} :
                          \E s \in asked.sources, d \in asked.destinations :
                             Istio!Counts(s) /\ Istio!Counts(d) /\ Istio!Pair(s) = Istio!Pair(d) /\ r.ends = <<s.pod, d.pod>>
                    /\ \A s \in asked.sources, d \in asked.destinations :
                          (Istio!Counts(s) /\ Istio!Counts(d) /\ Istio!Pair(s) = Istio!Pair(d))
                              => \E r \in Istio!FoundSet : r.kind = "pod" /\ r.ends[2] = d.pod
  BY DEF Istio!PodsMatch
<1>1. \A r \in Istio!FoundSet : PodsOf(r)
  BY DEF IstioIInv, Related, Istio!FoundSet
<1>2. ASSUME NEW s \in asked.sources, NEW d \in asked.destinations, Istio!Counts(s), Istio!Counts(d), Istio!Pair(s) = Istio!Pair(d)
      PROVE  \E r \in Istio!FoundSet : r.kind = "pod" /\ r.ends[2] = d.pod
  <2>1. s \in Counted(Past) /\ d \in Counted(PastDestinations)
    BY <1>2, DoneMeans DEF Counted
  <2>2. Istio!Pair(d) \in DOMAIN podOf
    BY <1>2, <2>1 DEF IstioIInv, Remembered
  <2>3. PICK i \in DOMAIN found : found[i].kind = "pod" /\ found[i].ends[2] = d.pod
    BY <2>1, <2>2, DoneMeans DEF IstioIInv, Related
  <2> QED
    BY <2>3 DEF Istio!FoundSet
<1> QED
  BY <1>1, <1>2, DoneMeans DEF PodsOf, Counted

LEMMA AsOften == ASSUME Istio!Parameters, IstioIInv PROVE Istio!FoundAsOften
<1> SUFFICES ASSUME Istio!Done, NEW r \in Istio!Expected
             PROVE  LET n == Istio!Cardinality({s \in asked.sources : Istio!Counts(s) /\ Istio!Pair(s) = r.ends}) IN
                    Istio!Occurrences(r) = IF n = 0 THEN 1 ELSE n
  BY DEF Istio!FoundAsOften
<1>1. PICK k \in {"service", "deployment"}, s \in {t \in Istio!All : Istio!Counts(t)} : r = [kind |-> k, ends |-> Istio!Pair(s)]
  BY DEF Istio!Expected
<1>2. Istio!Pair(s) \in seen
  BY <1>1, DoneMeans DEF IstioIInv, Remembered, Istio!All, Counted
<1>3. Often(k, Istio!Pair(s))
  BY <1>2, DoneMeans DEF IstioIInv, Related
<1>4. OfPair(Past, Istio!Pair(s)) = {t \in asked.sources : Istio!Counts(t) /\ Istio!Pair(t) = r.ends}
  BY <1>1, DoneMeans DEF OfPair
<1>5. Times(found, r) = Istio!Occurrences(r)
  BY SameCounts DEF Times, Istio!Occurrences
<1> QED
  BY <1>1, <1>3, <1>4, <1>5, SameCounts DEF Often
-----------------------------------------------------------------------------
(* A step of Metrics is one of the part that runs.                         *)
MetricsInv ==
    /\ part = "migrations" => IInv
    /\ part = "rules" => RulesIInv
    /\ part = "istio" => IstioIInv

LEMMA OneRuns == [MetricsNext]_all => part' = part
  BY DEF MetricsNext, all

LEMMA MetricsStart ==
    ASSUME Last \in Nat, MaxStops \in Nat, MetricsInit
    PROVE  MetricsInv
  BY MetricsAssumption, InitIInv, RulesInitIInv, IstioInitIInv DEF MetricsInit, MetricsInv

LEMMA MetricsStep ==
    ASSUME Last \in Nat, MaxStops \in Nat, MetricsInv, [MetricsNext]_all
    PROVE  MetricsInv'
<1>1. CASE part = "migrations"
  <2>1. [Next]_vars
    BY <1>1 DEF MetricsNext, all
  <2> QED
    BY <1>1, <2>1, OneRuns, NextIInv DEF MetricsInv
<1>2. CASE part = "rules"
  <2>1. [Rules!Next]_(Rules!vars)
    BY <1>2 DEF MetricsNext, all, others, ofRules, Rules!vars
  <2> QED
    BY <1>2, <2>1, OneRuns, MetricsAssumption, RulesStepIInv DEF MetricsInv
<1>3. CASE part = "istio"
  <2>1. [Istio!Next]_(Istio!vars)
    BY <1>3 DEF MetricsNext, all, others, ofIstio, Istio!vars
  <2> QED
    BY <1>3, <2>1, OneRuns, MetricsAssumption, IstioStepIInv DEF MetricsInv
<1> QED
  BY <1>1, <1>2, <1>3, OneRuns DEF MetricsInv

(* What Prometheus or GCP answers is shown, whatever is declared, answered *)
(* and in whatever order samples are gone through.                         *)
THEOREM AnswersAreShown ==
    ASSUME Last \in Nat, MaxStops \in Nat
    PROVE  MetricsSpec => []AnswersShown
<1>1. MetricsInv => AnswersShown
  <2>1. RulesIInv => Rules!TypeOK /\ Rules!TriggersDistinct
    BY NamesDiffer DEF RulesIInv, Rules!TriggersDistinct
  <2> QED
    BY <2>1, MetricsAssumption, KeptRules, MatchesAre, TypesAre, CompleteFlows, MatchingPods, AsOften
       DEF MetricsInv, AnswersShown
<1>2. MetricsInit => MetricsInv
  BY MetricsStart
<1>3. MetricsInv /\ [MetricsNext]_all => MetricsInv'
  BY MetricsStep
<1> QED
  BY <1>1, <1>2, <1>3, PTL DEF MetricsSpec

(* A trigger that was shipped stays, for its rule and its targets.         *)
THEOREM TriggersStay ==
    ASSUME Last \in Nat, MaxStops \in Nat
    PROVE  MetricsSpec => TriggersKept
<1>1. MetricsInv /\ [MetricsNext]_all => [part = "rules" => Rules!KeepsTriggers]_all
  <2> SUFFICES ASSUME MetricsInv, [MetricsNext]_all, part = "rules" PROVE Rules!KeepsTriggers
    OBVIOUS
  <2>1. [Rules!Next]_(Rules!vars)
    BY DEF MetricsNext, all, others, ofRules, Rules!vars
  <2> QED
    BY <2>1, MetricsAssumption, StepKeeps DEF MetricsInv
<1>2. MetricsInit => MetricsInv
  BY MetricsStart
<1>3. MetricsInv /\ [MetricsNext]_all => MetricsInv'
  BY MetricsStep
<1> QED
  BY <1>1, <1>2, <1>3, PTL DEF MetricsSpec, TriggersKept
=============================================================================
