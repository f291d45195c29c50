-------------------------- MODULE Platforms_proofs --------------------------
(***************************************************************************)
(* Proofs about the crawlers of Kubernetes and GCP and GCP's flow logs, for *)
(* any clusters, projects and logs, failing calls and changes between the   *)
(* calls: what failures may cost a batch, which relations it has, and what  *)
(* becomes of a flow.  Each crawler has an inductive invariant that says    *)
(* which of the resources that stayed are in the batch by the next call.    *)
(***************************************************************************)
EXTENDS Platforms, TLAPS

-----------------------------------------------------------------------------
(* The flow logs of a project.                                             *)
(* The addresses belong to SQL instances, and the listings are made at     *)
(* moments that have passed.                                               *)
LoSqlNames(ds) == {Logs(ds)!SqlName(s) : s \in FlowLogs[ds].Instance}
LoClocked(ds) ==
    /\ now \in Nat /\ time \in [FlowLogs[ds].Entry -> Nat]
    /\ owner \in [FlowLogs[ds].Address -> LoSqlNames(ds)]
    /\ \A p \in owned : p[2] \in LoSqlNames(ds)
    /\ listings \in Seq(Nat)

(* An entry whose window has passed was in the window of a listing, or     *)
(* fell between two.                                                       *)
LoLast(ds) == listings[Len(listings)]
LoDue(ds, e) == \E i \in 1..Len(listings) : Logs(ds)!InWindow(time[e], listings[i])
LoSeen(ds, e) ==
           ( /\ listings # <<>> /\ listings[1] <= time[e] + 4 * FlowLogs[ds].Interval
             /\ time[e] + 3 * FlowLogs[ds].Interval + FlowLogs[ds].Margin <= LoLast(ds) ) => LoDue(ds,
                  e) \/ Logs(ds)!Between(e)

(* What was in a window is missed, shipped or about to be.                 *)
LoGathered(ds) == flows \union relations
LoKept(ds, e) ==
           LoDue(ds, e) /\ Logs(ds)!Mapped(e) =>
             e \in missed \/ \E r \in LoGathered(ds) : r \in Logs(ds)!Kube(e.src) \X Logs(ds)!Kube(e.dst)
LoTrue(ds, r) ==
           Logs(ds)!IsKube(r[1]) \/ Logs(ds)!IsKube(r[2]) =>
             \E e \in arrived : r \in Logs(ds)!EndsOf(e.src) \X Logs(ds)!EndsOf(e.dst)

LoIInv(ds) ==
    /\ Logs(ds)!TypeOK /\ LoClocked(ds)
    /\ \A e \in FlowLogs[ds].Entry : LoSeen(ds, e) /\ LoKept(ds, e)
    /\ \A r \in LoGathered(ds) : LoTrue(ds, r)
-----------------------------------------------------------------------------
LEMMA LoInitIInv == ASSUME NEW ds, Logs(ds)!Parameters, Logs(ds)!Init PROVE LoIInv(ds)
  <1>1. Logs(ds)!TypeOK
    <2>1. now \in 0..FlowLogs[ds].MaxTime /\ failures \in 0..FlowLogs[ds].MaxFailures /\
            changes \in 0..FlowLogs[ds].MaxChanges
      BY DEF Logs!Parameters, Logs!Init
    <2>2. /\ \A a \in FlowLogs[ds].Address : <<a, owner[a]>> \in owned
          /\ \A a \in FlowLogs[ds].Address : internalIDMapper[a] = Logs(ds)!Nobody
      BY DEF Logs!Init
    <2> QED
      BY <2>1, <2>2 DEF Logs!Init, Logs!TypeOK
  <1>2. LoClocked(ds)
    <2>1. \A p \in owned : p[2] \in LoSqlNames(ds)
      BY DEF Logs!Init, LoSqlNames
    <2>2. now \in Nat
      BY DEF Logs!Parameters, Logs!Init
    <2>4. time \in [FlowLogs[ds].Entry -> Nat]
      BY DEF Logs!Parameters, Logs!Init
    <2>3. owner \in [FlowLogs[ds].Address -> LoSqlNames(ds)] /\ listings \in Seq(Nat)
      BY DEF Logs!Init, LoSqlNames
    <2> QED
      BY <2>1, <2>2, <2>3, <2>4 DEF LoClocked
  <1>3. \A e \in FlowLogs[ds].Entry : LoSeen(ds, e) /\ LoKept(ds, e)
    BY DEF Logs!Init, LoSeen, LoKept, LoDue
  <1> QED
    BY <1>1, <1>2, <1>3 DEF LoIInv, LoGathered, Logs!Init

(* Relations stay true while entries arrive and owners of addresses add up. *)
LEMMA LoTrueKept ==
    ASSUME NEW ds, arrived \subseteq arrived', owned \subseteq owned', NEW r, LoTrue(ds, r)
    PROVE  LoTrue(ds, r)'
  BY DEF LoTrue, Logs!EndsOf, Logs!Kube, Logs!Sql

LEMMA LoPassIInv == ASSUME NEW ds, Logs(ds)!Parameters, LoIInv(ds), Logs(ds)!Pass PROVE LoIInv(ds)'
  <1>1. UNCHANGED <<pc, time, arrived, owner, owned, changes, internalIDMapper, relations, flows,
                    failures, listings, missed>>
    BY DEF Logs!Pass, Logs!logging, Logs!address
  <1>2. Logs(ds)!TypeOK'
    BY <1>1 DEF LoIInv, Logs!TypeOK, Logs!Parameters, Logs!Pass
  <1>3. LoClocked(ds)'
    BY <1>1 DEF LoIInv, LoClocked, Logs!Pass
  <1>4. \A e \in FlowLogs[ds].Entry : LoSeen(ds, e)' /\ LoKept(ds, e)'
    BY <1>1 DEF LoIInv, LoSeen, LoKept, LoDue, Logs!Between, LoLast, LoGathered
  <1>5. \A r \in LoGathered(ds)' : LoTrue(ds, r)'
    BY <1>1, LoTrueKept DEF LoIInv, LoGathered
  <1> QED
    BY <1>2, <1>3, <1>4, <1>5 DEF LoIInv

LEMMA LoArriveIInv ==
    ASSUME NEW ds, Logs(ds)!Parameters, LoIInv(ds), NEW e \in FlowLogs[ds].Entry, Logs(ds)!Arrive(e)
    PROVE  LoIInv(ds)'
  <1>1. /\ UNCHANGED <<now, tick, pc, time, owner, owned, changes, internalIDMapper, relations, flows,
                       failures, listings, missed>>
        /\ arrived' = arrived \union {e}
    BY DEF Logs!Arrive, Logs!logging, Logs!address
  <1>2. Logs(ds)!TypeOK'
    BY <1>1 DEF LoIInv, Logs!TypeOK
  <1>3. LoClocked(ds)'
    BY <1>1 DEF LoIInv, LoClocked
  <1>4. \A x \in FlowLogs[ds].Entry : LoSeen(ds, x)' /\ LoKept(ds, x)'
    BY <1>1 DEF LoIInv, LoSeen, LoKept, LoDue, Logs!Between, LoLast, LoGathered
  <1>5. \A r \in LoGathered(ds)' : LoTrue(ds, r)'
    BY <1>1, LoTrueKept DEF LoIInv, LoGathered
  <1> QED
    BY <1>2, <1>3, <1>4, <1>5 DEF LoIInv

LEMMA LoReassignIInv ==
    ASSUME NEW ds, Logs(ds)!Parameters, LoIInv(ds), NEW a \in FlowLogs[ds].Address,
           NEW s \in FlowLogs[ds].Instance, Logs(ds)!Reassign(a, s)
    PROVE  LoIInv(ds)'
  <1>1. /\ UNCHANGED <<now, tick, pc, time, arrived, internalIDMapper, relations, flows,
                       failures, listings, missed>>
        /\ owner' = [owner EXCEPT ![a] = Logs(ds)!SqlName(s)] /\
             owner' \in [FlowLogs[ds].Address -> LoSqlNames(ds)]
        /\ owned' = owned \union {<<a, owner'[a]>>}
        /\ changes' \in 0..FlowLogs[ds].MaxChanges
    BY DEF Logs!Reassign, Logs!logging, LoIInv, LoClocked, Logs!TypeOK, Logs!Parameters, LoSqlNames
  <1>2. Logs(ds)!TypeOK'
    BY <1>1 DEF LoIInv, Logs!TypeOK, LoClocked
  <1>3. LoClocked(ds)'
    BY <1>1 DEF LoIInv, LoClocked
  <1>4. \A x \in FlowLogs[ds].Entry : LoSeen(ds, x)' /\ LoKept(ds, x)'
    BY <1>1 DEF LoIInv, LoSeen, LoKept, LoDue, Logs!Between, LoLast, LoGathered
  <1>5. \A r \in LoGathered(ds)' : LoTrue(ds, r)'
    BY <1>1, LoTrueKept DEF LoIInv, LoGathered
  <1> QED
    BY <1>2, <1>3, <1>4, <1>5 DEF LoIInv

LEMMA LoTickIInv == ASSUME NEW ds, Logs(ds)!Parameters, LoIInv(ds), Logs(ds)!Tick PROVE LoIInv(ds)'
  <1>1. /\ UNCHANGED <<now, time, arrived, owner, owned, changes, internalIDMapper, relations, flows,
                       failures, listings, missed>>
        /\ pc = "idle" /\ tick' \in BOOLEAN
    BY DEF Logs!Tick, Logs!logging, Logs!address
  <1>2. Logs(ds)!TypeOK'
    BY <1>1 DEF LoIInv, Logs!TypeOK
  <1>3. LoClocked(ds)'
    BY <1>1 DEF LoIInv, LoClocked
  <1>4. \A x \in FlowLogs[ds].Entry : LoSeen(ds, x)' /\ LoKept(ds, x)'
    BY <1>1 DEF LoIInv, LoSeen, LoKept, LoDue, Logs!Between, LoLast, LoGathered
  <1>5. \A r \in LoGathered(ds)' : LoTrue(ds, r)'
    BY <1>1, LoTrueKept DEF LoIInv, LoGathered
  <1> QED
    BY <1>2, <1>3, <1>4, <1>5 DEF LoIInv

LEMMA LoListSqlInstancesIInv ==
    ASSUME NEW ds, Logs(ds)!Parameters, LoIInv(ds), Logs(ds)!ListSqlInstances
    PROVE  LoIInv(ds)'
  <1>1. /\ UNCHANGED <<now, tick, time, arrived, owner, owned, changes, relations, flows,
                       listings, missed>>
        /\ pc = "sql" /\ failures' \in 0..FlowLogs[ds].MaxFailures
    BY DEF Logs!ListSqlInstances, Logs!Fails, Logs!logging, Logs!address, LoIInv, Logs!TypeOK,
       Logs!Parameters
  <1>2. \A a \in FlowLogs[ds].Address : internalIDMapper'[a] \in {internalIDMapper[a], owner[a]}
    BY DEF Logs!ListSqlInstances
  <1>3. Logs(ds)!TypeOK'
    BY <1>1, <1>2 DEF LoIInv, Logs!TypeOK
  <1>4. LoClocked(ds)'
    BY <1>1 DEF LoIInv, LoClocked
  <1>5. \A x \in FlowLogs[ds].Entry : LoSeen(ds, x)' /\ LoKept(ds, x)'
    BY <1>1 DEF LoIInv, LoSeen, LoKept, LoDue, Logs!Between, LoLast, LoGathered
  <1>6. \A r \in LoGathered(ds)' : LoTrue(ds, r)'
    BY <1>1, LoTrueKept DEF LoIInv, LoGathered
  <1> QED
    BY <1>3, <1>4, <1>5, <1>6 DEF LoIInv

(* A listing more: whose window has passed since the last one is in its    *)
(* window or fell between the two.                                         *)
LEMMA LoAppendIs ==
    ASSUME NEW ds, NEW s \in Seq(Nat), NEW n \in Nat
    PROVE  /\ Append(s, n) \in Seq(Nat) /\ Len(s) \in Nat
           /\ Len(Append(s, n)) = Len(s) + 1
           /\ \A i \in 1..Len(s) : Append(s, n)[i] = s[i] /\ s[i] \in Nat
           /\ Append(s, n)[Len(s) + 1] = n
           /\ s # <<>> => Len(s) > 0
  OBVIOUS

LEMMA LoGap ==
    ASSUME NEW ds, NEW x \in Nat, NEW y \in Nat, NEW t \in Nat, NEW i \in Nat, NEW m \in Nat,
           ~(t + 3 * i + m <= x), ~(y <= t + 4 * i)
    PROVE  x < t + 3 * i + m /\ t + 4 * i < y /\ y - x > i - m
  OBVIOUS

LEMMA LoSeenNext ==
    ASSUME NEW ds, Logs(ds)!Parameters, LoClocked(ds), NEW e \in FlowLogs[ds].Entry, LoSeen(ds, e),
           UNCHANGED time,
           listings' = Append(listings, now)
    PROVE  LoSeen(ds, e)' /\ (LoDue(ds, e)' => LoDue(ds, e) \/ Logs(ds)!InWindow(time[e], now))
  <1> DEFINE t == time[e]  n == Len(listings)
  <1>1. /\ t \in Nat /\ now \in Nat /\ FlowLogs[ds].Interval \in Nat /\ FlowLogs[ds].Margin \in Nat /\ t' = t
        /\ listings' \in Seq(Nat) /\ n \in Nat /\ Len(listings') = n + 1
        /\ \A i \in 1..n : listings'[i] = listings[i] /\ listings[i] \in Nat
        /\ listings'[n + 1] = now
        /\ listings # <<>> => n > 0
    BY LoAppendIs DEF LoClocked, Logs!Parameters
  <1> HIDE DEF t, n
  <1>a. /\ LoDue(ds, e) <=> \E i \in 1..n : Logs(ds)!InWindow(t, listings[i])
        /\ LoDue(ds, e)' <=> \E i \in 1..(n + 1) : Logs(ds)!InWindow(t, listings'[i])
    <2>1. LoDue(ds, e) <=> \E i \in 1..n : Logs(ds)!InWindow(t, listings[i])
      BY DEF LoDue, n, t
    <2>2. LoDue(ds, e)' <=> \E i \in 1..Len(listings') : Logs(ds)!InWindow(t', listings'[i])
      BY DEF LoDue, t
    <2> QED
      BY <1>1, <2>1, <2>2
  <1>b. \A i \in 1..(n + 1) : i \in 1..n \/ i = n + 1
    BY <1>1
  <1>2. LoDue(ds, e)' => LoDue(ds, e) \/ Logs(ds)!InWindow(t, now)
    <2> SUFFICES ASSUME NEW i \in 1..(n + 1), Logs(ds)!InWindow(t, listings'[i])
                 PROVE  LoDue(ds, e) \/ Logs(ds)!InWindow(t, now)
      BY <1>a
    <2>1. CASE i \in 1..n
      <3>1. Logs(ds)!InWindow(t, listings[i])
        BY <1>1, <2>1
      <3> QED
        BY <1>a, <2>1, <3>1
    <2>2. CASE i = n + 1
      BY <1>1, <2>2
    <2> QED
      BY <1>b, <2>1, <2>2
  <1>3. LoDue(ds, e) => LoDue(ds, e)'
    <2> SUFFICES ASSUME NEW i \in 1..n, Logs(ds)!InWindow(t, listings[i]) PROVE LoDue(ds, e)'
      BY <1>a
    <2>1. i \in 1..(n + 1) /\ listings'[i] = listings[i]
      BY <1>1
    <2>2. Logs(ds)!InWindow(t, listings'[i])
      BY <2>1
    <2> QED
      BY <1>a, <2>1, <2>2
  <1>4. Logs(ds)!InWindow(t, now) => LoDue(ds, e)'
    <2>1. n + 1 \in 1..(n + 1)
      BY <1>1
    <2> QED
      BY <1>1, <1>a, <2>1
  <1>5. Logs(ds)!Between(e) => Logs(ds)!Between(e)'
    <2> SUFFICES ASSUME NEW i \in 1..(n - 1),
                        listings[i + 1] - listings[i] > FlowLogs[ds].Interval - FlowLogs[ds].Margin,
                        listings[i] < t + 3 * FlowLogs[ds].Interval + FlowLogs[ds].Margin,
                        t + 4 * FlowLogs[ds].Interval < listings[i + 1]
                 PROVE  Logs(ds)!Between(e)'
      BY DEF Logs!Between, n, t
    <2>1. i \in 1..n /\ i + 1 \in 1..n /\ i \in 1..(Len(listings') - 1)
      BY <1>1
    <2>2. listings'[i] = listings[i] /\ listings'[i + 1] = listings[i + 1]
      BY <1>1, <2>1
    <2> QED
      BY <1>1, <2>1, <2>2 DEF Logs!Between, t
  <1>6. ASSUME listings' # <<>>, listings'[1] <= t + 4 * FlowLogs[ds].Interval,
               t + 3 * FlowLogs[ds].Interval + FlowLogs[ds].Margin <= listings'[n + 1]
        PROVE  LoDue(ds, e)' \/ Logs(ds)!Between(e)'
    <2>1. CASE n = 0
      BY <1>1, <1>4, <1>6, <2>1 DEF Logs!InWindow
    <2>2. CASE n > 0 /\ t + 3 * FlowLogs[ds].Interval + FlowLogs[ds].Margin <= listings[n]
      <3>1. listings # <<>> /\ listings[1] <= t + 4 * FlowLogs[ds].Interval
        BY <1>1, <1>6, <2>2 DEF n
      <3> QED
        BY <1>3, <1>5, <2>2, <3>1 DEF LoSeen, LoLast, n, t
    <2>3. CASE n > 0 /\ ~(t + 3 * FlowLogs[ds].Interval + FlowLogs[ds].Margin <= listings[n]) /\
                 now <= t + 4 * FlowLogs[ds].Interval
      BY <1>1, <1>4, <1>6, <2>3 DEF Logs!InWindow
    <2>4. CASE n > 0 /\ ~(t + 3 * FlowLogs[ds].Interval + FlowLogs[ds].Margin <= listings[n]) /\
                 ~(now <= t + 4 * FlowLogs[ds].Interval)
      <3>1. /\ n \in 1..(Len(listings') - 1)
            /\ listings'[n + 1] = now /\ listings'[n] = listings[n] /\ listings[n] \in Nat
        <4>1. n \in 1..n
          BY <1>1, <2>4
        <4>2. Len(listings') - 1 = n
          BY <1>1
        <4> QED
          BY <1>1, <4>1, <4>2
      <3>2. /\ listings[n] < t + 3 * FlowLogs[ds].Interval + FlowLogs[ds].Margin /\
                 t + 4 * FlowLogs[ds].Interval < now
            /\ now - listings[n] > FlowLogs[ds].Interval - FlowLogs[ds].Margin
        <4>1. /\ t \in Nat /\ now \in Nat /\ listings[n] \in Nat
              /\ FlowLogs[ds].Interval \in Nat /\ FlowLogs[ds].Margin \in Nat
          BY <1>1, <3>1
        <4> QED
          BY <2>4, <4>1, LoGap
      <3> QED
        BY <1>1, <3>1, <3>2 DEF Logs!Between, t
    <2> QED
      BY <1>1, <2>1, <2>2, <2>3, <2>4
  <1> QED
    BY <1>1, <1>2, <1>6 DEF LoSeen, LoLast, t

(* What the loop makes of an entry: something to show for a mapped one,    *)
(* and nothing untrue of pods and deployments.                             *)
LEMMA LoMadeShows ==
    ASSUME NEW ds, NEW e \in FlowLogs[ds].Entry, Logs(ds)!Mapped(e), NEW m \in Logs(ds)!Made(e)
    PROVE  \E r \in m : r \in Logs(ds)!Kube(e.src) \X Logs(ds)!Kube(e.dst)
  <1>1. PICK s \in Logs(ds)!UIDs(e.src), d \in Logs(ds)!UIDs(e.dst) :
               m = Logs(ds)!VmRelations(e) \union Logs(ds)!GkeRelations(e, s, d)
    BY DEF Logs!Made, Logs!Mapped
  <1>2. CASE Logs(ds)!Absent \notin {e.src.pod, e.dst.pod}
    <2>1. <<Logs(ds)!Pod(s, e.src), Logs(ds)!Pod(d, e.dst)>> \in m
      BY <1>1, <1>2 DEF Logs!GkeRelations
    <2> QED
      BY <2>1 DEF Logs!Kube
  <1>3. CASE Logs(ds)!Absent \notin {e.src.deployment, e.dst.deployment}
    <2>1. <<Logs(ds)!Deployment(s, e.src), Logs(ds)!Deployment(d, e.dst)>> \in m
      BY <1>1, <1>3 DEF Logs!GkeRelations
    <2> QED
      BY <2>1 DEF Logs!Kube
  <1> QED
    BY <1>2, <1>3 DEF Logs!Mapped

LEMMA LoMadeTrue ==
    ASSUME NEW ds, Logs(ds)!Parameters, Logs(ds)!TypeOK, LoClocked(ds), NEW e \in FlowLogs[ds].Entry,
           NEW m \in Logs(ds)!Made(e), NEW r \in m,
           Logs(ds)!IsKube(r[1]) \/ Logs(ds)!IsKube(r[2])
    PROVE  r \in Logs(ds)!EndsOf(e.src) \X Logs(ds)!EndsOf(e.dst)
  <1>1. \A x : ~Logs(ds)!IsKube(Logs(ds)!Vm(x))
    BY DEF Logs!IsKube, Logs!Vm
  <1>2. r \notin Logs(ds)!VmRelations(e)
    BY <1>1 DEF Logs!VmRelations
  <1>3. CASE Logs(ds)!BetweenClusters(e)
    <2>1. PICK s \in Logs(ds)!UIDs(e.src), d \in Logs(ds)!UIDs(e.dst) : r \in Logs(ds)!GkeRelations(e, s, d)
      BY <1>2, <1>3 DEF Logs!Made
    <2> QED
      BY <2>1 DEF Logs!GkeRelations, Logs!EndsOf, Logs!Kube
  <1>4. CASE ~Logs(ds)!BetweenClusters(e)
    <2> DEFINE sql == internalIDMapper[Logs(ds)!SqlIP(e)]
    <2>1. /\ Logs(ds)!SqlIP(e) \in FlowLogs[ds].Address /\ sql # Logs(ds)!Nobody /\ e.sql # {}
          /\ \E from \in Logs(ds)!Workloads(e.src), to \in Logs(ds)!Workloads(e.dst) :
               r \in Logs(ds)!SqlRelations(e, sql, from, to)
      BY <1>2, <1>4 DEF Logs!Made, Logs!Cached
    <2>2. <<Logs(ds)!SqlIP(e), sql>> \in owned /\ ~Logs(ds)!IsKube(sql)
      BY <2>1 DEF Logs!TypeOK, LoClocked, LoSqlNames, Logs!SqlName, Logs!IsKube
    <2>3. PICK from \in Logs(ds)!Workloads(e.src), to \in Logs(ds)!Workloads(e.dst) :
                 r \in Logs(ds)!SqlRelations(e, sql, from, to)
      BY <2>1
    <2> HIDE DEF sql
    <2>4. (\E w \in from : r = <<w, sql>>) \/ (\E w \in to : r = <<sql, w>>)
      <3>1. \A x : \A v \in Logs(ds)!Machines(x) : ~Logs(ds)!IsKube(v)
        BY <1>1 DEF Logs!Machines
      <3> QED
        BY <2>2, <2>3, <3>1 DEF Logs!SqlRelations
    <2>5. CASE \E w \in from : r = <<w, sql>>
      <3>1. PICK w \in from : r = <<w, sql>>
        BY <2>5
      <3>2. e.src.pod # Logs(ds)!Absent /\ w \in Logs(ds)!Kube(e.src)
        BY <3>1 DEF Logs!Workloads, Logs!Workload, Logs!Mappable, Logs!Kube
      <3>3. Logs(ds)!SqlIP(e) = e.dst.ip
        BY <2>1, <3>2 DEF Logs!Parameters, Logs!SqlIP
      <3> QED
        BY <2>2, <3>1, <3>2, <3>3 DEF Logs!EndsOf, Logs!Sql
    <2>6. CASE \E w \in to : r = <<sql, w>>
      <3>1. PICK w \in to : r = <<sql, w>>
        BY <2>6
      <3>2. e.dst.pod # Logs(ds)!Absent /\ w \in Logs(ds)!Kube(e.dst)
        BY <3>1 DEF Logs!Workloads, Logs!Workload, Logs!Mappable, Logs!Kube
      <3>3. Logs(ds)!SqlIP(e) = e.src.ip
        BY <2>1, <3>2 DEF Logs!Parameters, Logs!SqlIP
      <3> QED
        BY <2>2, <3>1, <3>2, <3>3 DEF Logs!EndsOf, Logs!Sql
    <2> QED
      BY <2>4, <2>5, <2>6
  <1> QED
    BY <1>3, <1>4

LEMMA LoListFlowsIInv ==
    ASSUME NEW ds, Logs(ds)!Parameters, LoIInv(ds), Logs(ds)!ListFlows
    PROVE  LoIInv(ds)'
  <1> DEFINE due == {e \in FlowLogs[ds].Entry : Logs(ds)!InWindow(time[e], now)}
  <1>1. /\ UNCHANGED <<now, tick, time, arrived, owner, owned, changes, internalIDMapper, flows>>
        /\ pc = "flows" /\ pc' = "ship" /\ relations = {}
        /\ listings' = Append(listings, now) /\ listings' \in Seq(Nat)
        /\ missed \subseteq missed' /\ missed' \subseteq FlowLogs[ds].Entry
        /\ failures' \in 0..FlowLogs[ds].MaxFailures
    <2>1. /\ UNCHANGED <<now, tick, time, arrived, owner, owned, changes, internalIDMapper, flows>>
          /\ pc = "flows" /\ pc' = "ship" /\ listings' = Append(listings, now)
      BY DEF Logs!ListFlows, Logs!logging, Logs!address
    <2>2. relations = {} /\ missed \subseteq FlowLogs[ds].Entry
      BY <2>1 DEF LoIInv, Logs!TypeOK
    <2>3. listings' \in Seq(Nat)
      BY <2>1, LoAppendIs DEF LoIInv, LoClocked
    <2>4. missed \subseteq missed' /\ missed' \subseteq FlowLogs[ds].Entry
      BY <2>2 DEF Logs!ListFlows
    <2>5. failures' \in 0..FlowLogs[ds].MaxFailures
      <3>1. failures' = failures \/ (failures < FlowLogs[ds].MaxFailures /\ failures' = failures + 1)
        BY DEF Logs!ListFlows, Logs!Fails
      <3>2. failures \in 0..FlowLogs[ds].MaxFailures /\ FlowLogs[ds].MaxFailures \in Nat
        BY DEF LoIInv, Logs!TypeOK, Logs!Parameters
      <3> QED
        BY <3>1, <3>2
    <2> QED
      BY <2>1, <2>2, <2>3, <2>4, <2>5
  <1>2. PICK page \in SUBSET (due \intersect arrived) :
            /\ missed' = missed \union (due \ page)
            /\ \E made \in [page -> UNION {Logs(ds)!Made(e) : e \in page}] :
                  (\A e \in page : made[e] \in Logs(ds)!Made(e)) /\ relations' = UNION {made[e] : e \in page}
    <2>1. CASE UNCHANGED relations /\ missed' = missed \union due
      <3>1. relations' = UNION {} /\ missed' = missed \union (due \ {})
        BY <1>1, <2>1
      <3>2. [x \in {} |-> x] \in [{} -> UNION {Logs(ds)!Made(e) : e \in {}}]
        OBVIOUS
      <3> QED
        BY <3>1, <3>2
    <2> QED
      BY <2>1 DEF Logs!ListFlows
  <1>3. PICK made : (\A e \in page : made[e] \in Logs(ds)!Made(e)) /\ relations' = UNION {made[e] : e \in page}
    BY <1>2
  <1> HIDE DEF due
  <1>4. Logs(ds)!TypeOK' /\ LoClocked(ds)'
    BY <1>1 DEF LoIInv, Logs!TypeOK, LoClocked
  <1>5. ASSUME NEW e \in FlowLogs[ds].Entry PROVE LoSeen(ds, e)' /\ LoKept(ds, e)'
    <2>1. LoSeen(ds, e)' /\ (LoDue(ds, e)' => LoDue(ds, e) \/ Logs(ds)!InWindow(time[e], now))
      BY <1>1, LoSeenNext DEF LoIInv
    <2>2. CASE Logs(ds)!InWindow(time[e], now) /\ e \in page /\ Logs(ds)!Mapped(e)
      <3>1. made[e] \in Logs(ds)!Made(e) /\ made[e] \subseteq relations'
        BY <1>3, <2>2
      <3> QED
        BY <2>1, <2>2, <3>1, LoMadeShows DEF LoKept, LoGathered
    <2>3. CASE Logs(ds)!InWindow(time[e], now) /\ e \notin page
      BY <1>2, <2>1, <2>3 DEF due, LoKept
    <2>4. CASE LoDue(ds, e)
      BY <1>1, <2>1, <2>4 DEF LoIInv, LoKept, LoGathered
    <2> QED
      BY <2>1, <2>2, <2>3, <2>4 DEF LoKept
  <1>6. ASSUME NEW r \in LoGathered(ds)' PROVE LoTrue(ds, r)'
    <2>1. CASE r \in flows
      BY <1>1, <2>1, LoTrueKept DEF LoIInv, LoGathered
    <2>2. CASE r \in relations'
      <3>1. PICK e \in page : r \in made[e] /\ made[e] \in Logs(ds)!Made(e) /\ e \in FlowLogs[ds].Entry /\
                   e \in arrived
        BY <1>2, <1>3, <2>2 DEF due
      <3>2. LoTrue(ds, r)
        BY <3>1, LoMadeTrue DEF LoIInv, LoTrue
      <3> QED
        BY <1>1, <3>2, LoTrueKept
    <2> QED
      BY <1>1, <1>6, <2>1, <2>2 DEF LoGathered
  <1> QED
    BY <1>4, <1>5, <1>6 DEF LoIInv

LEMMA LoShipIInv == ASSUME NEW ds, Logs(ds)!Parameters, LoIInv(ds), Logs(ds)!Ship PROVE LoIInv(ds)'
  <1>1. /\ UNCHANGED <<now, tick, time, arrived, owner, owned, changes, internalIDMapper, failures,
                       listings, missed>>
        /\ flows' = flows \union relations /\ relations' = {} /\ LoGathered(ds)' = LoGathered(ds)
    BY DEF Logs!Ship, Logs!logging, Logs!address, LoGathered
  <1>2. Logs(ds)!TypeOK'
    BY <1>1 DEF LoIInv, Logs!TypeOK
  <1>3. LoClocked(ds)'
    BY <1>1 DEF LoIInv, LoClocked
  <1>4. \A x \in FlowLogs[ds].Entry : LoSeen(ds, x)' /\ LoKept(ds, x)'
    BY <1>1 DEF LoIInv, LoSeen, LoKept, LoDue, Logs!Between, LoLast
  <1>5. \A r \in LoGathered(ds)' : LoTrue(ds, r)'
    BY <1>1, LoTrueKept DEF LoIInv
  <1> QED
    BY <1>2, <1>3, <1>4, <1>5 DEF LoIInv

LEMMA LoStepIInv == ASSUME NEW ds, Logs(ds)!Parameters, LoIInv(ds), Logs(ds)!Next PROVE LoIInv(ds)'
  BY LoPassIInv, LoArriveIInv, LoReassignIInv, LoTickIInv, LoListSqlInstancesIInv, LoListFlowsIInv,
     LoShipIInv
  DEF Logs!Next, Logs!World, Logs!CrawlStep

LEMMA LoSame == ASSUME NEW ds, LoIInv(ds), UNCHANGED Logs(ds)!vars PROVE LoIInv(ds)'
  <1>1. UNCHANGED <<now, tick, pc, time, arrived, owner, owned, changes, internalIDMapper, relations,
                    flows, failures, listings, missed>>
    BY DEF Logs!vars, Logs!logging, Logs!address
  <1>2. Logs(ds)!TypeOK' /\ LoClocked(ds)'
    BY <1>1 DEF LoIInv, Logs!TypeOK, LoClocked
  <1>3. \A x \in FlowLogs[ds].Entry : LoSeen(ds, x)' /\ LoKept(ds, x)'
    BY <1>1 DEF LoIInv, LoSeen, LoKept, LoDue, Logs!Between, LoLast, LoGathered
  <1>4. \A r \in LoGathered(ds)' : LoTrue(ds, r)'
    BY <1>1, LoTrueKept DEF LoIInv, LoGathered
  <1> QED
    BY <1>2, <1>3, <1>4 DEF LoIInv

LEMMA LoShows ==
    ASSUME NEW ds, LoIInv(ds)
    PROVE  Logs(ds)!TypeOK /\ Logs(ds)!FlowsTrue /\ Logs(ds)!FlowsShown
  <1>1. Logs(ds)!FlowsTrue
    BY DEF LoIInv, Logs!FlowsTrue, LoTrue, LoGathered
  <1>2. ASSUME NEW e \in FlowLogs[ds].Entry, Logs(ds)!Mapped(e), Logs(ds)!Passed(e) PROVE Logs(ds)!Shown(e) \/
                 e \in missed \/ Logs(ds)!Between(e)
    <2>1. LoGathered(ds) = flows
      BY <1>2 DEF Logs!Passed, LoIInv, Logs!TypeOK, LoGathered
    <2> QED
      BY <1>2, <2>1 DEF Logs!Passed, LoIInv, LoSeen, LoKept, Logs!Shown, LoLast
  <1> QED
    BY <1>1, <1>2 DEF LoIInv, Logs!FlowsShown
-----------------------------------------------------------------------------
(* Kubernetes.                                                             *)
(* The lists of a namespace by number, and which of them are done.         *)
KuIndex == [deployment |-> 1, serviceaccount |-> 2, service |-> 3, pod |-> 4, secret |-> 5,
            endpoint |-> 6, job |-> 7, cronjob |-> 8, configmap |-> 9, statefulset |-> 10,
            daemonset |-> 11, pvc |-> 12, ingressBeta1 |-> 13, ingressV1 |-> 14,
            ingressV1Beta1 |-> 15, retina |-> 16, ship |-> 17]
KuAt(ds) == IF pc = Kube(ds)!PodsOf.deployment THEN "deployment" ELSE IF pc = Kube(ds)!PodsOf.service THEN "service" ELSE pc
KuListing(ds) == pc \in {Kube(ds)!Lists[i] : i \in DOMAIN Kube(ds)!Lists} \union
                   {Kube(ds)!PodsOf.deployment, Kube(ds)!PodsOf.service}
KuDone(ds, kind) == kind \in Kube(ds)!Listable /\ KuIndex[kind] < KuIndex[KuAt(ds)]

(* A batch has the object's element, or is excused from having it: a call  *)
(* failed, or another crawler reports the node.                            *)
KuElsewhere(ds, o) == o.kind = "node" /\ nodeNames[o.name] # Kube(ds)!Name(o)
KuShows(ds, o, b) == KuElsewhere(ds, o) \/ Kube(ds)!Name(o) \in b.elements \/ Kube(ds)!Excused(o)

(* Where the crawl is, and what it has in hand there.                      *)
KuControl(ds) ==
    /\ pc \in {"node", "pv", "storageclass", "namespaces"} => sent = {}
    /\ pc = "node" => global = Kube(ds)!Empty /\ charts = {}
    /\ pc \in {"node", "pv", "storageclass", "namespaces", "namespace", "metrics", "istio", "idle"} \/
         KuListing(ds)
    /\ pc # "idle" => \A n \in namespaces : pc = "namespace" \/ KuListing(ds) => n.kind = "namespace"
    /\ pc = "metrics" => namespaces = {}
    /\ KuListing(ds) => /\ current.kind = "namespace"
                        /\ \A n \in namespaces : n.ns # current.ns
                        /\ \A o \in todo : o.kind = KuAt(ds) /\ o.ns = current.ns

(* The cluster-wide elements.                                              *)
KuGlobalHas(ds) ==
    \A o \in steady :
        /\ o.kind = "node" /\ pc \notin {"idle", "node"} => KuShows(ds, o, global)
        /\ o.kind = "pv" /\ pc \notin {"idle", "node", "pv"} => KuShows(ds, o, global)
        /\ o.kind = "storageclass" /\ pc \notin {"idle", "node", "pv", "storageclass"} => KuShows(ds, o, global)

(* The batch of the current namespace has them, its own, and what the      *)
(* lists so far answered with.                                             *)
KuBatchHas(ds) ==
    KuListing(ds) => \A o \in steady :
        o.kind \in Kube(ds)!Wide \/ (o.ns = current.ns /\ (o.kind = "namespace" \/ KuDone(ds, o.kind))) =>
          KuShows(ds, o, batch)
KuTodoHas(ds) ==
    KuListing(ds) /\ pc = Kube(ds)!PodsOf[KuAt(ds)] /\ KuAt(ds) \in {"deployment", "service"} =>
        \A o \in steady : o.kind = KuAt(ds) /\ o.ns = current.ns => o \in todo \/ KuShows(ds, o, batch)

(* A shipped batch has all of its namespace.                               *)
KuWhole(ds, b) == \A o \in steady : o.ns \in {b.of, Kube(ds)!NoNamespace} => KuShows(ds, o, b)
KuSentHas(ds) == \A b \in sent : b.relations = {} \/ KuWhole(ds, b)
KuNamespacesKept(ds) ==
    (pc \in {"namespace", "metrics"} \/ KuListing(ds)) /\
      <<Kube(ds)!NoNamespace, "namespaces">> \notin excused =>
        \A n \in steady : n.kind = "namespace" =>
            \/ n \in namespaces
            \/ KuListing(ds) /\ current = n
            \/ \E b \in sent : b.of = n.ns /\ KuWhole(ds, b)

(* A chart made already is in the batch that is being made, if the batch   *)
(* may have a relation from it.                                            *)
KuChartsKept(ds) ==
    /\ pc # "idle" => \A c \in charts :
          /\ c[1] = Kube(ds)!NoNamespace => c \in global.elements
          /\ c[1] # Kube(ds)!NoNamespace =>
                /\ pc \in {"namespace", "metrics", "istio"} \/ KuListing(ds)
                /\ \A n \in namespaces : c[1] # n.ns
    /\ KuListing(ds) =>
          /\ global.elements \subseteq batch.elements
          /\ \A c \in charts : c[1] = current.ns => c \in batch.elements

(* A relation from a chart has its element in the batch; the nodes of      *)
(* relations have the names of the last listing.                           *)
KuCharted(ds, b) == \A r \in b.relations : r[1][2] = "chart" => r[1] \in b.elements
KuNoded(ds, b) ==
    \A r \in b.relations : \A e \in {r[1], r[2]} :
        e[2] = "node" => \E k \in DOMAIN nodeNames : e = nodeNames[k]
KuNodeless(ds, b) == \A r \in b.relations : r[1][2] # "node" /\ r[2][2] # "node"
KuSound(ds) ==
    /\ pc # "idle" => KuCharted(ds, global) /\ KuNodeless(ds, global)
    /\ KuListing(ds) => KuCharted(ds, batch) /\ KuNoded(ds, batch)
    /\ \A b \in sent : KuCharted(ds, b) /\ KuNoded(ds, b)
    /\ \A k \in DOMAIN nodeNames : nodeNames[k] \in {<<Kube(ds)!NoNamespace, "node", k>>, <<"gcp", "vm", k>>}

KuIInv(ds) ==
    /\ Kube(ds)!TypeOK /\ KuControl(ds) /\ KuGlobalHas(ds) /\ KuBatchHas(ds) /\ KuTodoHas(ds) /\
         KuSentHas(ds) /\ KuNamespacesKept(ds)
    /\ KuChartsKept(ds) /\ KuSound(ds)
-----------------------------------------------------------------------------
(* The lists are numbered, and each is followed by the next.               *)
LEMMA KuIndexed ==
    ASSUME NEW ds
    PROVE  /\ DOMAIN Kube(ds)!Lists = 1..17
           /\ \A i \in 1..17 : KuIndex[Kube(ds)!Lists[i]] = i
  <1>1. DOMAIN Kube(ds)!Lists = 1..17
    BY DEF Kube!Lists
  <1>2. /\ Kube(ds)!Lists[1] = "deployment" /\ Kube(ds)!Lists[2] = "serviceaccount" /\
             Kube(ds)!Lists[3] = "service"
        /\ Kube(ds)!Lists[4] = "pod" /\ Kube(ds)!Lists[5] = "secret" /\ Kube(ds)!Lists[6] = "endpoint"
        /\ Kube(ds)!Lists[7] = "job" /\ Kube(ds)!Lists[8] = "cronjob" /\ Kube(ds)!Lists[9] = "configmap"
        /\ Kube(ds)!Lists[10] = "statefulset" /\ Kube(ds)!Lists[11] = "daemonset" /\ Kube(ds)!Lists[12] = "pvc"
        /\ Kube(ds)!Lists[13] = "ingressBeta1" /\ Kube(ds)!Lists[14] = "ingressV1" /\
             Kube(ds)!Lists[15] = "ingressV1Beta1"
        /\ Kube(ds)!Lists[16] = "retina" /\ Kube(ds)!Lists[17] = "ship"
    BY DEF Kube!Lists
  <1>4. /\ KuIndex["deployment"] = 1 /\ KuIndex["serviceaccount"] = 2 /\ KuIndex["service"] = 3
        /\ KuIndex["pod"] = 4 /\ KuIndex["secret"] = 5 /\ KuIndex["endpoint"] = 6
        /\ KuIndex["job"] = 7 /\ KuIndex["cronjob"] = 8 /\ KuIndex["configmap"] = 9
        /\ KuIndex["statefulset"] = 10 /\ KuIndex["daemonset"] = 11 /\ KuIndex["pvc"] = 12
        /\ KuIndex["ingressBeta1"] = 13 /\ KuIndex["ingressV1"] = 14 /\ KuIndex["ingressV1Beta1"] = 15
        /\ KuIndex["retina"] = 16 /\ KuIndex["ship"] = 17
    BY DEF KuIndex
  <1>3. \A i \in 1..17 : \/ i = 1 \/ i = 2 \/ i = 3 \/ i = 4 \/ i = 5 \/ i = 6 \/ i = 7 \/ i = 8 \/ i = 9
                         \/ i = 10 \/ i = 11 \/ i = 12 \/ i = 13 \/ i = 14 \/ i = 15 \/ i = 16 \/ i = 17
    OBVIOUS
  <1> QED
    BY <1>1, <1>2, <1>3, <1>4

LEMMA KuAfterIs ==
    ASSUME NEW ds, NEW i \in 1..16
    PROVE  Kube(ds)!After(Kube(ds)!Lists[i]) = Kube(ds)!Lists[i + 1] /\
             KuIndex[Kube(ds)!After(Kube(ds)!Lists[i])] = i + 1
  <1> DEFINE j == CHOOSE x \in DOMAIN Kube(ds)!Lists : Kube(ds)!Lists[x] = Kube(ds)!Lists[i]
  <1>1. j \in 1..17 /\ Kube(ds)!Lists[j] = Kube(ds)!Lists[i]
    <2>1. i \in DOMAIN Kube(ds)!Lists
      BY KuIndexed
    <2>2. j \in DOMAIN Kube(ds)!Lists /\ Kube(ds)!Lists[j] = Kube(ds)!Lists[i]
      BY <2>1, Zenon
    <2> QED
      BY <2>2, KuIndexed
  <1> HIDE DEF j
  <1>2. j = i
    <2>1. KuIndex[Kube(ds)!Lists[j]] = j /\ KuIndex[Kube(ds)!Lists[i]] = i
      BY <1>1, KuIndexed
    <2> QED
      BY <1>1, <2>1
  <1>3. Kube(ds)!After(Kube(ds)!Lists[i]) = Kube(ds)!Lists[1 + j]
    BY DEF Kube!After, j
  <1> QED
    BY <1>2, <1>3, KuIndexed

LEMMA KuListableIs ==
    ASSUME NEW ds, NEW kind \in Kube(ds)!Listable
    PROVE  /\ KuIndex[kind] \in 1..15 /\ Kube(ds)!Lists[KuIndex[kind]] = kind
           /\ kind \notin Kube(ds)!Wide /\ kind \notin {"namespace", "chart", "retina", "ship"}
           /\ kind \notin {"idle", "namespaces", "metrics", "istio", Kube(ds)!PodsOf.deployment,
                Kube(ds)!PodsOf.service}
  <1>1. PICK i \in 1..17 : kind = Kube(ds)!Lists[i]
    BY KuIndexed DEF Kube!Listable
  <1>2. Kube(ds)!Lists[16] = "retina" /\ Kube(ds)!Lists[17] = "ship"
    BY DEF Kube!Lists
  <1>3. i \in 1..15 /\ KuIndex[kind] = i
    BY <1>1, <1>2, KuIndexed DEF Kube!Listable
  <1>4. kind \in {"deployment", "serviceaccount", "service", "pod", "secret", "endpoint", "job", "cronjob",
                  "configmap", "statefulset", "daemonset", "pvc", "ingressBeta1", "ingressV1",
                  "ingressV1Beta1", "retina", "ship"}
    BY <1>1, KuIndexed DEF Kube!Lists
  <1> QED
    BY <1>1, <1>3, <1>4 DEF Kube!Wide, Kube!PodsOf, Kube!Listable

LEMMA KuKindsListed ==
    ASSUME NEW ds
    PROVE  {"serviceaccount", "pod", "secret", "endpoint", "job", "cronjob", "configmap", "statefulset",
             "daemonset",
            "pvc", "ingressBeta1", "ingressV1", "ingressV1Beta1"} \subseteq Kube(ds)!Listable
  <1>1. /\ Kube(ds)!Lists[2] = "serviceaccount"
        /\ Kube(ds)!Lists[4] = "pod" /\ Kube(ds)!Lists[5] = "secret" /\ Kube(ds)!Lists[6] = "endpoint"
        /\ Kube(ds)!Lists[7] = "job" /\ Kube(ds)!Lists[8] = "cronjob" /\ Kube(ds)!Lists[9] = "configmap"
        /\ Kube(ds)!Lists[10] = "statefulset" /\ Kube(ds)!Lists[11] = "daemonset" /\ Kube(ds)!Lists[12] = "pvc"
        /\ Kube(ds)!Lists[13] = "ingressBeta1" /\ Kube(ds)!Lists[14] = "ingressV1" /\
             Kube(ds)!Lists[15] = "ingressV1Beta1"
    BY DEF Kube!Lists
  <1> QED
    BY <1>1, KuIndexed DEF Kube!Listable

LEMMA KuTypeIs ==
    ASSUME NEW ds, NEW o, o.kind \in Kube(ds)!Wide \union {"namespace"} \union Kube(ds)!Listable
    PROVE  /\ Kube(ds)!Type(o) \in Kube(ds)!Wide \union {"namespace"} \union Kube(ds)!Listable
           /\ Kube(ds)!Type(o) # "chart" /\ (Kube(ds)!Type(o) = "node" <=> o.kind = "node")
  <1>1. "ingressBeta1" \in Kube(ds)!Listable
    <2>1. Kube(ds)!Lists[13] = "ingressBeta1" /\ 13 \in DOMAIN Kube(ds)!Lists
      BY DEF Kube!Lists
    <2> QED
      BY <2>1 DEF Kube!Listable
  <1>2. ASSUME NEW k \in Kube(ds)!Listable PROVE k # "chart" /\ k # "node"
    BY KuListableIs DEF Kube!Wide
  <1> QED
    BY <1>1, <1>2 DEF Kube!Type, Kube!Wide

(* Which list comes next in a step that has done one.                      *)
LEMMA KuNextList ==
    ASSUME NEW ds, NEW kind \in Kube(ds)!Listable \union {"retina"}, KuListing(ds), KuAt(ds) = kind,
           pc' = Kube(ds)!After(kind)
    PROVE  /\ KuListing(ds)' /\ pc' \in {Kube(ds)!Lists[i] : i \in DOMAIN Kube(ds)!Lists}
           /\ KuAt(ds)' = pc' /\ pc' \notin {Kube(ds)!PodsOf.deployment, Kube(ds)!PodsOf.service}
           /\ \A k : KuDone(ds, k)' => KuDone(ds, k) \/ k = kind
           /\ pc' \notin {"node", "pv", "storageclass", "namespaces", "namespace", "metrics", "idle"}
  <1> DEFINE i == KuIndex[kind]
  <1>1. i \in 1..16 /\ Kube(ds)!Lists[i] = kind
    BY KuListableIs DEF KuIndex, Kube!Lists
  <1>2. pc' = Kube(ds)!Lists[i + 1] /\ KuIndex[pc'] = i + 1
    BY <1>1, KuAfterIs
  <1>3. pc' \in Kube(ds)!Listable \union {"retina", "ship"}
    BY <1>1, <1>2, KuIndexed DEF Kube!Listable
  <1>4. /\ pc' \notin {Kube(ds)!PodsOf.deployment, Kube(ds)!PodsOf.service}
        /\ pc' \notin {"node", "pv", "storageclass", "namespaces", "namespace", "metrics", "idle"}
    BY <1>3, KuListableIs DEF Kube!PodsOf, Kube!Wide
  <1>5. KuAt(ds)' = pc' /\ KuListing(ds)' /\ pc' \in {Kube(ds)!Lists[x] : x \in DOMAIN Kube(ds)!Lists}
    BY <1>1, <1>2, <1>4, KuIndexed DEF KuAt, KuListing
  <1>6. ASSUME NEW k \in Kube(ds)!Listable, KuIndex[k] < i + 1 PROVE KuIndex[k] < i \/ k = kind
    BY <1>1, <1>6, KuListableIs
  <1> QED
    BY <1>2, <1>4, <1>5, <1>6 DEF KuDone
-----------------------------------------------------------------------------
(* The names of a relation that is made of an object.                      *)
KuGoodEnds(ds, o, r) ==
    /\ r[1][2] = "chart" => r[1] \in Kube(ds)!Charts(o)
    /\ \A e \in {r[1], r[2]} : e[2] = "node" => \E k \in DOMAIN nodeNames : e = nodeNames[k]

LEMMA KuNameIs ==
    ASSUME NEW ds, NEW o, o.kind \in Kube(ds)!Wide \union {"namespace"} \union Kube(ds)!Listable
    PROVE  Kube(ds)!Name(o)[2] # "chart" /\ (Kube(ds)!Name(o)[2] = "node" <=> o.kind = "node") /\
             Kube(ds)!Name(o)[1] = o.ns
  BY KuTypeIs DEF Kube!Name

LEMMA KuLabelEnds ==
    ASSUME NEW ds, Kube(ds)!Parameters, NEW o \in Clusters[ds].Object, o.kind # "node",
           NEW r \in Kube(ds)!LabelRelations(o)
    PROVE  KuGoodEnds(ds, o, r) /\ r[1][2] # "node" /\ r[2][2] # "node"
  <1>1. Kube(ds)!Labels(o) \subseteq {"chart", "part-of", "component", "name"}
    BY DEF Kube!Parameters, Kube!Labels
  <1>2. Kube(ds)!Name(o)[2] # "chart" /\ Kube(ds)!Name(o)[2] # "node"
    BY KuNameIs DEF Kube!Parameters
  <1>3. \A l : Kube(ds)!LabelName(o, l)[2] = l
    BY DEF Kube!LabelName
  <1>4. CASE \E l \in Kube(ds)!Labels(o) : r = <<Kube(ds)!LabelName(o, l), Kube(ds)!Name(o)>>
    BY <1>1, <1>2, <1>3, <1>4 DEF KuGoodEnds, Kube!Charts
  <1>5. CASE \E p \in {q \in {"part-of", "component"} \X {"component", "name"} :
                 q[1] # q[2] /\ {q[1], q[2]} \subseteq Kube(ds)!Labels(o)} :
             r = <<Kube(ds)!LabelName(o, p[1]), Kube(ds)!LabelName(o, p[2])>>
    BY <1>3, <1>5 DEF KuGoodEnds
  <1> QED
    BY <1>4, <1>5 DEF Kube!LabelRelations

LEMMA KuNamespaceEnds ==
    ASSUME NEW ds, Kube(ds)!Parameters, NEW o \in Clusters[ds].Object, o.kind # "node",
           current \in Clusters[ds].Object, current.kind = "namespace",
           NEW r \in Kube(ds)!FromNamespace(o)
    PROVE  KuGoodEnds(ds, o, r)
  <1>1. Kube(ds)!Name(o)[2] # "chart" /\ Kube(ds)!Name(o)[2] # "node"
    BY KuNameIs DEF Kube!Parameters
  <1>2. Kube(ds)!Name(current)[2] # "chart" /\ Kube(ds)!Name(current)[2] # "node"
    BY KuNameIs DEF Kube!Parameters
  <1> QED
    BY <1>1, <1>2 DEF Kube!FromNamespace, KuGoodEnds

LEMMA KuPodEnds ==
    ASSUME NEW ds, Kube(ds)!Parameters, NEW o \in Clusters[ds].Object, o.kind # "node",
           live \subseteq Clusters[ds].Object, NEW r \in Kube(ds)!ToPods(o)
    PROVE  KuGoodEnds(ds, o, r)
  <1>1. Kube(ds)!Name(o)[2] # "chart" /\ Kube(ds)!Name(o)[2] # "node"
    BY KuNameIs DEF Kube!Parameters
  <1>2. PICK p \in Clusters[ds].Object : r = <<Kube(ds)!Name(o), Kube(ds)!Name(p)>> /\ p.kind = "pod"
    BY DEF Kube!ToPods, Kube!Listed
  <1>3. Kube(ds)!Name(p)[2] # "node"
    BY <1>2, KuNameIs DEF Kube!Parameters
  <1> QED
    BY <1>1, <1>2, <1>3 DEF KuGoodEnds

LEMMA KuRelationEnds ==
    ASSUME NEW ds, Kube(ds)!Parameters, NEW o \in Clusters[ds].Object, o.kind # "node",
           NEW r \in Kube(ds)!Relations(o),
           \A k \in DOMAIN nodeNames :
             nodeNames[k] \in {<<Kube(ds)!NoNamespace, "node", k>>, <<"gcp", "vm", k>>}
    PROVE  /\ KuGoodEnds(ds, o, r)
           /\ o.kind \in Kube(ds)!Wide => r[1][2] # "node" /\ r[2][2] # "node"
  <1>1. Kube(ds)!Name(o)[2] # "chart" /\ Kube(ds)!Name(o)[2] # "node"
    BY KuNameIs DEF Kube!Parameters
  <1> DEFINE Plain(q) == /\ q[1][2] # "chart" /\ q[1][2] # "node" /\ q[2][2] # "node"
  <1>2. ASSUME r \in Kube(ds)!FromNode(o) PROVE KuGoodEnds(ds, o, r)
    BY <1>1, <1>2 DEF Kube!FromNode, KuGoodEnds
  <1>3. ASSUME r \in Kube(ds)!ToStorageClass(o) PROVE Plain(r)
    BY <1>1, <1>3 DEF Kube!ToStorageClass
  <1>4. ASSUME r \in Kube(ds)!ToServiceAccount(o) PROVE Plain(r)
    BY <1>1, <1>4 DEF Kube!ToServiceAccount
  <1>5. ASSUME o.kind = "pod", r \in Kube(ds)!ToEnvironment(o) PROVE Plain(r)
    BY <1>1, <1>5 DEF Kube!ToEnvironment, Kube!Parameters
  <1>6. ASSUME o.kind = "pod", r \in Kube(ds)!ToVolumes(o) PROVE Plain(r)
    <2>1. CASE r \in {<<Kube(ds)!Name(o), <<o.ns, "pv", v.name>>>> : v \in o.volumes}
      BY <1>1, <2>1
    <2>2. CASE \E v \in o.volumes : r \in {<<Kube(ds)!Name(o), <<o.ns, s[1], s[2]>>>> : s \in v.source}
      BY <1>1, <1>6, <2>2 DEF Kube!Parameters
    <2> QED
      BY <1>6, <2>1, <2>2 DEF Kube!ToVolumes
  <1>7. ASSUME r \in Kube(ds)!ToVolumeTemplates(o) PROVE Plain(r)
    BY <1>1, <1>7 DEF Kube!ToVolumeTemplates
  <1>8. ASSUME r \in Kube(ds)!ToServices(o) PROVE Plain(r)
    BY <1>1, <1>8 DEF Kube!ToServices
  <1>9. Plain(r) => KuGoodEnds(ds, o, r)
    BY DEF KuGoodEnds
  <1> HIDE DEF Plain
  <1>10. CASE o.kind \in Kube(ds)!Wide
    <2>1. o.kind = "pv" \/ Kube(ds)!Relations(o) = {}
      BY <1>10 DEF Kube!Relations, Kube!Wide, Kube!IngressKinds
    <2> QED
      BY <1>3, <1>9, <2>1 DEF Kube!Relations, Kube!IngressKinds, Plain
  <1>11. CASE o.kind \notin Kube(ds)!Wide
    BY <1>2, <1>4, <1>5, <1>6, <1>7, <1>8, <1>9, <1>11 DEF Kube!Relations, Kube!Wide, Kube!IngressKinds
  <1> QED
    BY <1>10, <1>11
-----------------------------------------------------------------------------
(* What is made of objects of one namespace, with their labels.            *)
KuOfOne(ds, found, m) == found \subseteq Clusters[ds].Object /\ \A o \in found : o.kind # "node" /\ o.ns = m
KuChartsIn(ds, b, m) == \A c \in charts : c[1] = m => c \in b.elements
KuAllIn(ds, found, b, m) ==
    /\ \A o \in found : Kube(ds)!Charts(o) \subseteq b.elements
    /\ \A c \in Kube(ds)!ChartsOf(found) : c[1] = m => c \in b.elements
    /\ \A c \in Kube(ds)!ChartsOf(found) : c \in charts \/ c[1] = m
KuNamed(ds) == \A k \in DOMAIN nodeNames :
                 nodeNames[k] \in {<<Kube(ds)!NoNamespace, "node", k>>, <<"gcp", "vm", k>>}

LEMMA KuPlusIs ==
    ASSUME NEW ds, NEW b, NEW e, NEW r
    PROVE  Kube(ds)!Plus(b, e, r).elements = b.elements \union e /\
             Kube(ds)!Plus(b, e, r).relations = b.relations \union r
  BY DEF Kube!Plus

LEMMA KuLabelsMade ==
    ASSUME NEW ds, Kube(ds)!Parameters, NEW b, NEW found, NEW m, KuOfOne(ds, found, m), KuChartsIn(ds,
           b, m)
    PROVE  /\ b.elements \subseteq Kube(ds)!WithLabels(b, found).elements
           /\ KuAllIn(ds, found, Kube(ds)!WithLabels(b, found), m)
           /\ KuCharted(ds, b) => KuCharted(ds, Kube(ds)!WithLabels(b, found))
           /\ KuNoded(ds, b) => KuNoded(ds, Kube(ds)!WithLabels(b, found))
           /\ KuNodeless(ds, b) => KuNodeless(ds, Kube(ds)!WithLabels(b, found))
  <1> DEFINE w == Kube(ds)!WithLabels(b, found)
  <1>1. /\ w.elements = b.elements \union UNION {Kube(ds)!LabelElements(o) : o \in found}
        /\ w.relations = b.relations \union UNION {Kube(ds)!LabelRelations(o) : o \in found}
    BY KuPlusIs DEF Kube!WithLabels
  <1> HIDE DEF w
  <1>2. \A o \in Clusters[ds].Object : \A c \in Kube(ds)!Charts(o) : c[1] = o.ns
    BY DEF Kube!Charts, Kube!LabelName
  <1>3. \A o \in found : Kube(ds)!Charts(o) \subseteq w.elements
    BY <1>1, <1>2 DEF Kube!LabelElements, KuOfOne, KuChartsIn
  <1>4. ASSUME NEW r \in w.relations, r \notin b.relations
        PROVE  /\ \E o \in found : KuGoodEnds(ds, o, r)
               /\ r[1][2] # "node" /\ r[2][2] # "node"
    BY <1>1, <1>4, KuLabelEnds DEF KuOfOne
  <1>5. KuAllIn(ds, found, w, m)
    BY <1>1, <1>2, <1>3 DEF KuAllIn, Kube!ChartsOf, KuOfOne, KuChartsIn
  <1>6. KuCharted(ds, b) => KuCharted(ds, w)
    BY <1>1, <1>3, <1>4 DEF KuCharted, KuGoodEnds
  <1>7. (KuNoded(ds, b) => KuNoded(ds, w)) /\ (KuNodeless(ds, b) => KuNodeless(ds, w))
    BY <1>4 DEF KuNoded, KuNodeless
  <1> QED
    BY <1>1, <1>5, <1>6, <1>7 DEF w

(* Relations of such objects may follow, once their charts are there.      *)
LEMMA KuRelationsMade ==
    ASSUME NEW ds, NEW b, NEW e, NEW rs, NEW found, NEW m, KuAllIn(ds, found, b, m),
           \A r \in rs : \E o \in found : KuGoodEnds(ds, o, r)
    PROVE  /\ KuAllIn(ds, found, Kube(ds)!Plus(b, e, rs), m)
           /\ KuCharted(ds, b) => KuCharted(ds, Kube(ds)!Plus(b, e, rs))
           /\ KuNoded(ds, b) => KuNoded(ds, Kube(ds)!Plus(b, e, rs))
  <1>1. KuAllIn(ds, found, Kube(ds)!Plus(b, e, rs), m)
    BY KuPlusIs DEF KuAllIn
  <1>2. KuCharted(ds, b) => KuCharted(ds, Kube(ds)!Plus(b, e, rs))
    BY KuPlusIs DEF KuCharted, KuGoodEnds, KuAllIn
  <1>3. KuNoded(ds, b) => KuNoded(ds, Kube(ds)!Plus(b, e, rs))
    BY KuPlusIs DEF KuNoded, KuGoodEnds
  <1> QED
    BY <1>1, <1>2, <1>3

LEMMA KuListMade ==
    ASSUME NEW ds, Kube(ds)!Parameters, KuNamed(ds), NEW b, NEW found, NEW m, KuOfOne(ds, found, m),
           KuChartsIn(ds, b, m)
    PROVE  /\ b.elements \subseteq Kube(ds)!Made(b, found).elements
           /\ \A o \in found : Kube(ds)!Name(o) \in Kube(ds)!Made(b, found).elements
           /\ KuAllIn(ds, found, Kube(ds)!Made(b, found), m)
           /\ KuCharted(ds, b) => KuCharted(ds, Kube(ds)!Made(b, found))
           /\ KuNoded(ds, b) => KuNoded(ds, Kube(ds)!Made(b, found))
           /\ (KuNodeless(ds, b) /\ \A o \in found : o.kind \in Kube(ds)!Wide) =>
                KuNodeless(ds, Kube(ds)!Made(b, found))
  <1> DEFINE l == Kube(ds)!WithLabels(b, found)
             w == Kube(ds)!WithElements(l, found)
             rs == UNION {Kube(ds)!Relations(o) : o \in found}
  <1>1. /\ b.elements \subseteq l.elements /\ KuAllIn(ds, found, l, m)
        /\ (KuCharted(ds, b) => KuCharted(ds, l)) /\ (KuNoded(ds, b) => KuNoded(ds, l)) /\
             (KuNodeless(ds, b) => KuNodeless(ds, l))
    BY KuLabelsMade
  <1>2. w = Kube(ds)!Plus(l, {Kube(ds)!Name(o) : o \in found}, {}) /\
          Kube(ds)!Made(b, found) = Kube(ds)!Plus(w, {}, rs)
    BY DEF Kube!Made, Kube!WithElements, Kube!WithRelations
  <1> HIDE DEF l, w
  <1>3. KuAllIn(ds, found, w, m) /\ (KuCharted(ds, l) => KuCharted(ds, w)) /\ (KuNoded(ds, l) => KuNoded(ds, w))
    BY <1>1, <1>2, KuRelationsMade
  <1>4. \A r \in rs : \E o \in found :
          KuGoodEnds(ds, o, r) /\ (o.kind \in Kube(ds)!Wide => r[1][2] # "node" /\ r[2][2] # "node")
    <2> SUFFICES ASSUME NEW r \in rs
                 PROVE  \E o \in found : KuGoodEnds(ds, o, r) /\
                          (o.kind \in Kube(ds)!Wide => r[1][2] # "node" /\ r[2][2] # "node")
      OBVIOUS
    <2>1. PICK o \in found : r \in Kube(ds)!Relations(o)
      OBVIOUS
    <2>2. o \in Clusters[ds].Object /\ o.kind # "node"
      BY DEF KuOfOne
    <2>3. KuGoodEnds(ds, o, r) /\ (o.kind \in Kube(ds)!Wide => r[1][2] # "node" /\ r[2][2] # "node")
      BY <2>1, <2>2, KuRelationEnds DEF KuNamed
    <2> QED
      BY <2>3
  <1>5. /\ \A r : r \in w.relations <=> r \in l.relations
        /\ \A e : e \in w.elements <=> e \in l.elements \/ \E o \in found : e = Kube(ds)!Name(o)
    <2> DEFINE names == {Kube(ds)!Name(o) : o \in found}
    <2>1. w = Kube(ds)!Plus(l, names, {})
      BY <1>2
    <2>2. \A e : e \in names <=> \E o \in found : e = Kube(ds)!Name(o)
      OBVIOUS
    <2> HIDE DEF names
    <2> QED
      BY <2>1, <2>2, KuPlusIs
  <1> HIDE DEF rs
  <1>6. (KuNodeless(ds, l) /\ \A o \in found : o.kind \in Kube(ds)!Wide) =>
          KuNodeless(ds, Kube(ds)!Plus(w, {}, rs))
    BY <1>4, <1>5, KuPlusIs DEF KuNodeless
  <1>7. KuAllIn(ds, found, Kube(ds)!Plus(w, {}, rs), m) /\
          (KuCharted(ds, w) => KuCharted(ds, Kube(ds)!Plus(w, {}, rs))) /\
            (KuNoded(ds, w) => KuNoded(ds, Kube(ds)!Plus(w, {}, rs)))
    BY <1>3, <1>4, KuRelationsMade
  <1>8. b.elements \subseteq Kube(ds)!Plus(w, {}, rs).elements /\ \A o \in found :
          Kube(ds)!Name(o) \in Kube(ds)!Plus(w, {}, rs).elements
    BY <1>1, <1>5, KuPlusIs
  <1> QED
    BY <1>1, <1>2, <1>3, <1>6, <1>7, <1>8

(* What failing calls may add up to, and what stays shown whatever else    *)
(* fails or changes.                                                       *)
LEMMA KuFailsBound ==
    ASSUME NEW ds, Kube(ds)!Parameters, Kube(ds)!TypeOK, NEW call, NEW what, Kube(ds)!Fails(call, what)
    PROVE  /\ failures' \in 0..Clusters[ds].MaxFailures /\ excused \subseteq excused' /\ what \in excused'
           /\ UNCHANGED steady
  BY DEF Kube!Fails, Kube!TypeOK, Kube!Parameters

LEMMA KuShowsMore ==
    ASSUME NEW ds, NEW o, NEW b, NEW c, KuShows(ds, o, b), b.elements \subseteq c.elements,
           excused \subseteq excused',
           nodeNames' = nodeNames
    PROVE  KuElsewhere(ds, o)' \/ Kube(ds)!Name(o) \in c.elements \/ Kube(ds)!Excused(o)'
  BY DEF KuShows, KuElsewhere, Kube!Excused
-----------------------------------------------------------------------------
LEMMA KuInitIInv == ASSUME NEW ds, Kube(ds)!Parameters, Kube(ds)!Init PROVE KuIInv(ds)
  <1>1. pc = "idle" /\ "idle" \notin {"node", "pv", "storageclass", "namespaces", "namespace", "metrics"}
    BY DEF Kube!Init
  <1>2. ~KuListing(ds)
    BY <1>1, KuListableIs, KuIndexed DEF KuListing, Kube!Listable, Kube!PodsOf, Kube!Lists
  <1>3. Kube(ds)!TypeOK
    BY <1>2 DEF Kube!Init, Kube!TypeOK, Kube!Parameters, Kube!InNamespace, KuListing
  <1> QED
    BY <1>1, <1>2, <1>3 DEF Kube!Init, KuIInv, KuControl, KuGlobalHas, KuBatchHas, KuTodoHas,
       KuSentHas, KuNamespacesKept,
       KuChartsKept, KuSound

LEMMA KuChangeIInv ==
    ASSUME NEW ds, Kube(ds)!Parameters, KuIInv(ds), NEW o \in Clusters[ds].Object, Kube(ds)!Change(o)
    PROVE  KuIInv(ds)'
  <1>1. /\ UNCHANGED <<nodeNames, global, namespaces, current, pc, charts, batch, todo, legacyFailed, sent,
                       failures, excused>>
        /\ changes' \in 0..Clusters[ds].MaxChanges /\ live' \subseteq Clusters[ds].Object /\
             steady' \subseteq live'
        /\ steady' \subseteq steady
    BY DEF Kube!Change, Kube!wide, KuIInv, Kube!TypeOK, Kube!Parameters
  <1>2. Kube(ds)!TypeOK' /\ KuControl(ds)'
    BY <1>1 DEF KuIInv, Kube!TypeOK, Kube!InNamespace, KuControl, KuListing, KuAt
  <1>3. KuGlobalHas(ds)' /\ KuBatchHas(ds)' /\ KuTodoHas(ds)'
    BY <1>1 DEF KuIInv, KuGlobalHas, KuBatchHas, KuTodoHas, KuShows, KuElsewhere, Kube!Excused,
       KuListing, KuDone, KuAt
  <1>4. \A b \in sent : KuWhole(ds, b) => KuWhole(ds, b)'
    BY <1>1 DEF KuWhole, KuShows, KuElsewhere, Kube!Excused
  <1>5. KuSentHas(ds)' /\ KuNamespacesKept(ds)'
    BY <1>1, <1>4 DEF KuIInv, KuSentHas, KuNamespacesKept, KuListing
  <1>6. KuChartsKept(ds)' /\ KuSound(ds)'
    BY <1>1 DEF KuIInv, KuChartsKept, KuSound, KuListing, KuCharted, KuNoded, KuNodeless
  <1> QED
    BY <1>2, <1>3, <1>5, <1>6 DEF KuIInv

(* Outside the namespaces no list is under way.                            *)
LEMMA KuPhases ==
    ASSUME NEW ds, NEW p \in {"node", "pv", "storageclass", "namespaces", "namespace", "metrics",
           "istio", "idle"}
    PROVE  p \notin {Kube(ds)!Lists[i] : i \in DOMAIN Kube(ds)!Lists} \union
             {Kube(ds)!PodsOf.deployment, Kube(ds)!PodsOf.service}
  <1>1. Kube(ds)!PodsOf.deployment = "deploymentPods" /\ Kube(ds)!PodsOf.service = "servicePods"
    BY DEF Kube!PodsOf
  <1>2. p \notin Kube(ds)!Listable \union {"retina", "ship"}
    BY KuListableIs DEF Kube!Wide
  <1> QED
    BY <1>1, <1>2 DEF Kube!Listable

LEMMA KuTickIInv == ASSUME NEW ds, Kube(ds)!Parameters, KuIInv(ds), Kube(ds)!Tick PROVE KuIInv(ds)'
  <1>1. /\ pc = "idle" /\ pc' = "node" /\ global' = Kube(ds)!Empty /\ charts' = {} /\ sent' = {}
        /\ steady' = live /\ excused' = {}
        /\ UNCHANGED <<live, changes, nodeNames, namespaces, current, batch, todo, legacyFailed, failures>>
    BY DEF Kube!Tick, Kube!cluster
  <1>2. ~KuListing(ds) /\ ~KuListing(ds)'
    BY <1>1, KuPhases DEF KuListing
  <1>3. Kube(ds)!TypeOK'
    BY <1>1, <1>2 DEF KuIInv, Kube!TypeOK, Kube!InNamespace, KuListing
  <1>4. KuControl(ds)' /\ KuGlobalHas(ds)' /\ KuBatchHas(ds)' /\ KuTodoHas(ds)' /\ KuSentHas(ds)' /\
          KuNamespacesKept(ds)'
    BY <1>1, <1>2 DEF KuControl, KuGlobalHas, KuBatchHas, KuTodoHas, KuSentHas, KuNamespacesKept,
       Kube!Wide, KuIInv
  <1>5. KuChartsKept(ds)' /\ KuSound(ds)'
    BY <1>1, <1>2 DEF KuChartsKept, KuSound, KuIInv, KuCharted, KuNodeless, Kube!Empty
  <1> QED
    BY <1>3, <1>4, <1>5 DEF KuIInv

LEMMA KuListNodesIInv ==
    ASSUME NEW ds, Kube(ds)!Parameters, KuIInv(ds), Kube(ds)!ListNodes
    PROVE  KuIInv(ds)'
  <1>1. /\ pc = "node" /\ pc' = "pv" /\ sent = {} /\ global = Kube(ds)!Empty /\ charts = {}
        /\ UNCHANGED <<live, changes, namespaces, current, charts, batch, todo, legacyFailed, sent, steady>>
        /\ failures' \in 0..Clusters[ds].MaxFailures
    BY KuFailsBound DEF Kube!ListNodes, Kube!cluster, Kube!Answers, Kube!ghosts, KuIInv, KuControl,
       Kube!TypeOK
  <1>2. ~KuListing(ds) /\ ~KuListing(ds)'
    BY <1>1, KuPhases DEF KuListing
  <1> DEFINE nodes == Kube(ds)!Listed("node", Kube(ds)!NoNamespace)
             known == \A k \in DOMAIN nodeNames' :
                        nodeNames'[k] \in {<<Kube(ds)!NoNamespace, "node", k>>, <<"gcp", "vm", k>>}
  <1>3. /\ known
        /\ global'.relations = {}
        /\ \A o \in steady : o.kind = "node" => KuShows(ds, o, global)'
    <2>1. CASE Kube(ds)!Fails("node", <<Kube(ds)!NoNamespace, "node">>) /\ UNCHANGED <<nodeNames, global>>
      <3>1. <<Kube(ds)!NoNamespace, "node">> \in excused'
        BY <2>1, KuFailsBound DEF KuIInv
      <3>2. \A o \in Clusters[ds].Object : o.kind = "node" => o.ns = Kube(ds)!NoNamespace
        BY DEF Kube!Parameters, Kube!Wide
      <3> QED
        BY <1>1, <2>1, <3>1, <3>2 DEF KuIInv, Kube!TypeOK, KuSound, KuShows, Kube!Excused, Kube!Empty
    <2>2. CASE \E f \in [nodes -> UNION {Kube(ds)!NodeNamesOf(o) : o \in nodes}] :
                /\ \A o \in nodes : f[o] \in Kube(ds)!NodeNamesOf(o)
                /\ nodeNames' = [n \in DOMAIN nodeNames \union {o.name : o \in nodes} |->
                                  IF \E o \in nodes : o.name = n
                                  THEN f[CHOOSE o \in nodes : o.name = n] ELSE nodeNames[n]]
                /\ global' = Kube(ds)!WithElements(global, {o \in nodes : f[o] = Kube(ds)!Name(o)})
      <3>1. PICK f \in [nodes -> UNION {Kube(ds)!NodeNamesOf(o) : o \in nodes}] :
                     /\ \A o \in nodes : f[o] \in Kube(ds)!NodeNamesOf(o)
                     /\ nodeNames' = [n \in DOMAIN nodeNames \union {o.name : o \in nodes} |->
                                        IF \E o \in nodes : o.name = n
                                        THEN f[CHOOSE o \in nodes : o.name = n] ELSE nodeNames[n]]
                     /\ global' = Kube(ds)!WithElements(global, {o \in nodes : f[o] = Kube(ds)!Name(o)})
        BY <2>2
      <3>2. nodes \subseteq Clusters[ds].Object /\ \A o \in nodes :
              o.kind = "node" /\ o.ns = Kube(ds)!NoNamespace
        BY DEF Kube!Listed, KuIInv, Kube!TypeOK
      <3>3. \A o \in nodes : f[o] \in {<<Kube(ds)!NoNamespace, "node", o.name>>, <<"gcp", "vm", o.name>>}
                             /\ Kube(ds)!Name(o) = <<Kube(ds)!NoNamespace, "node", o.name>>
        BY <3>1, <3>2 DEF Kube!NodeNamesOf, Kube!Name, Kube!Type
      <3>4. \A o \in nodes : nodeNames'[o.name] = f[o]
        <4> SUFFICES ASSUME NEW o \in nodes PROVE nodeNames'[o.name] = f[o]
          OBVIOUS
        <4> DEFINE c == CHOOSE x \in nodes : x.name = o.name
        <4>1. c \in nodes /\ c.name = o.name
          BY Zenon
        <4> HIDE DEF c
        <4>2. c = o
          BY <4>1, <3>2 DEF Kube!Parameters
        <4>3. nodeNames'[o.name] = f[c]
          BY <3>1 DEF c
        <4> QED
          BY <4>2, <4>3
      <3>5. known
        <4> SUFFICES ASSUME NEW k \in DOMAIN nodeNames'
                     PROVE  nodeNames'[k] \in {<<Kube(ds)!NoNamespace, "node", k>>, <<"gcp", "vm", k>>}
          OBVIOUS
        <4>1. CASE \E o \in nodes : o.name = k
          BY <3>3, <3>4, <4>1
        <4>2. CASE ~\E o \in nodes : o.name = k
          <5>1. k \in DOMAIN nodeNames /\ nodeNames'[k] = nodeNames[k]
            BY <3>1, <4>2
          <5> QED
            BY <5>1 DEF KuIInv, KuSound
        <4> QED
          BY <4>1, <4>2
      <3>6. steady \subseteq live /\ \A o \in steady : o.kind = "node" => o \in nodes
        BY DEF KuIInv, Kube!TypeOK, Kube!Listed, Kube!Parameters, Kube!Wide
      <3>7. global'.relations = {}
        BY <1>1, <3>1, KuPlusIs DEF Kube!WithElements, Kube!Empty
      <3>8. \A o \in nodes : f[o] = Kube(ds)!Name(o) => Kube(ds)!Name(o) \in global'.elements
        BY <3>1, KuPlusIs DEF Kube!WithElements
      <3>9. \A o \in steady : o.kind = "node" => KuShows(ds, o, global)'
        BY <3>4, <3>6, <3>8 DEF KuShows, KuElsewhere
      <3> QED
        BY <3>5, <3>7, <3>9
    <2> QED
      BY <2>1, <2>2 DEF Kube!ListNodes
  <1>4. Kube(ds)!TypeOK'
    BY <1>1, <1>2 DEF KuIInv, Kube!TypeOK, Kube!InNamespace, KuListing
  <1>5. KuControl(ds)' /\ KuBatchHas(ds)' /\ KuTodoHas(ds)' /\ KuSentHas(ds)' /\ KuNamespacesKept(ds)' /\
          KuChartsKept(ds)'
    BY <1>1, <1>2 DEF KuControl, KuBatchHas, KuTodoHas, KuSentHas, KuNamespacesKept, KuChartsKept,
       KuIInv
  <1>6. KuGlobalHas(ds)'
    BY <1>1, <1>3 DEF KuGlobalHas
  <1>7. KuSound(ds)'
    BY <1>1, <1>2, <1>3 DEF KuSound, KuCharted, KuNodeless
  <1> QED
    BY <1>4, <1>5, <1>6, <1>7 DEF KuIInv

LEMMA KuListWideIInv ==
    ASSUME NEW ds, Kube(ds)!Parameters, KuIInv(ds), NEW kind, NEW next, Kube(ds)!ListWide(kind, next),
           (kind = "pv" /\ next = "storageclass") \/ (kind = "storageclass" /\ next = "namespaces")
    PROVE  KuIInv(ds)'
  <1>1. /\ pc = kind /\ pc' = next /\ sent = {}
        /\ UNCHANGED <<live, changes, nodeNames, namespaces, current, batch, todo, legacyFailed, sent, steady>>
    BY KuFailsBound DEF Kube!ListWide, Kube!cluster, Kube!Answers, Kube!ghosts, KuIInv, KuControl,
       Kube!TypeOK
  <1>2. ~KuListing(ds) /\ ~KuListing(ds)' /\ kind \in {"pv", "storageclass"}
    BY <1>1, KuPhases DEF KuListing
  <1> DEFINE found == Kube(ds)!Listed(kind, Kube(ds)!NoNamespace)
  <1>3. /\ \A c \in charts : c[1] = Kube(ds)!NoNamespace /\ c \in global.elements
        /\ KuCharted(ds, global) /\ KuNodeless(ds, global) /\ KuNamed(ds)
    BY <1>1, <1>2 DEF KuIInv, KuChartsKept, KuSound, KuNamed
  <1>4. /\ global.elements \subseteq global'.elements /\ KuCharted(ds, global') /\ KuNodeless(ds, global')
        /\ \A c \in charts' : c[1] = Kube(ds)!NoNamespace /\ c \in global'.elements
        /\ \A o \in steady : o.kind = kind => Kube(ds)!Name(o) \in global'.elements \/ Kube(ds)!Excused(o)'
        /\ excused \subseteq excused' /\ failures' \in 0..Clusters[ds].MaxFailures
    <2>0. \A o \in Clusters[ds].Object : o.kind = kind => o.ns = Kube(ds)!NoNamespace
      BY <1>2 DEF Kube!Parameters, Kube!Wide
    <2>1. CASE Kube(ds)!Fails(kind, <<Kube(ds)!NoNamespace, kind>>) /\ UNCHANGED <<global, charts>>
      <3>1. /\ <<Kube(ds)!NoNamespace, kind>> \in excused' /\ excused \subseteq excused' /\
                 failures' \in 0..Clusters[ds].MaxFailures
        BY <2>1, KuFailsBound DEF KuIInv
      <3> QED
        BY <1>3, <2>0, <2>1, <3>1 DEF KuIInv, Kube!TypeOK, Kube!Excused
    <2>2. CASE Kube(ds)!Answers /\ global' = Kube(ds)!Made(global, found) /\ charts' = Kube(ds)!ChartsOf(found)
      <3>1. KuOfOne(ds, found, Kube(ds)!NoNamespace) /\ KuChartsIn(ds, global, Kube(ds)!NoNamespace) /\
              \A o \in found : o.kind \in Kube(ds)!Wide
        BY <1>2, <1>3 DEF KuOfOne, KuChartsIn, Kube!Listed, KuIInv, Kube!TypeOK, Kube!Wide
      <3>2. /\ global.elements \subseteq global'.elements /\ KuCharted(ds, global') /\ KuNodeless(ds, global')
            /\ \A o \in found : Kube(ds)!Name(o) \in global'.elements
            /\ KuAllIn(ds, found, global', Kube(ds)!NoNamespace)
        BY <1>3, <2>2, <3>1, KuListMade
      <3>3. \A o \in steady : o.kind = kind => o \in found
        BY <2>0 DEF Kube!Listed, KuIInv, Kube!TypeOK
      <3>4. excused' = excused /\ failures' = failures
        BY <2>2 DEF Kube!Answers, Kube!ghosts
      <3> HIDE DEF found
      <3> QED
        BY <1>3, <2>2, <3>2, <3>3, <3>4 DEF KuAllIn, KuIInv, Kube!TypeOK
    <2> QED
      BY <2>1, <2>2 DEF Kube!ListWide
  <1>5. Kube(ds)!TypeOK'
    BY <1>1, <1>2, <1>4 DEF KuIInv, Kube!TypeOK, Kube!InNamespace, KuListing
  <1>6. KuControl(ds)' /\ KuBatchHas(ds)' /\ KuTodoHas(ds)' /\ KuSentHas(ds)' /\ KuNamespacesKept(ds)'
    BY <1>1, <1>2 DEF KuControl, KuBatchHas, KuTodoHas, KuSentHas, KuNamespacesKept, KuIInv
  <1>7. KuGlobalHas(ds)'
    BY <1>1, <1>2, <1>4 DEF KuGlobalHas, KuIInv, KuShows, KuElsewhere, Kube!Excused
  <1>8. KuChartsKept(ds)' /\ KuSound(ds)'
    BY <1>1, <1>2, <1>3, <1>4 DEF KuChartsKept, KuSound, KuNamed, KuCharted, KuNodeless
  <1> QED
    BY <1>5, <1>6, <1>7, <1>8 DEF KuIInv

LEMMA KuListNamespacesIInv ==
    ASSUME NEW ds, Kube(ds)!Parameters, KuIInv(ds), Kube(ds)!ListNamespaces
    PROVE  KuIInv(ds)'
  <1>1. /\ pc = "namespaces" /\ pc' = "namespace" /\ sent = {}
        /\ UNCHANGED <<live, changes, nodeNames, global, current, charts, batch, todo, legacyFailed, sent,
             steady>>
        /\ failures' \in 0..Clusters[ds].MaxFailures /\ excused \subseteq excused'
        /\ \A n \in namespaces' : n \in Clusters[ds].Object /\ n.kind = "namespace"
        /\ <<Kube(ds)!NoNamespace, "namespaces">> \in excused' \/
             namespaces' = {o \in live : o.kind = "namespace"}
    BY KuFailsBound DEF Kube!ListNamespaces, Kube!cluster, Kube!Answers, Kube!ghosts, KuIInv,
       KuControl, Kube!TypeOK
  <1>2. ~KuListing(ds) /\ ~KuListing(ds)'
    BY <1>1, KuPhases DEF KuListing
  <1>3. \A n \in namespaces' : n.ns # Kube(ds)!NoNamespace
    BY <1>1 DEF Kube!Parameters, Kube!Wide
  <1>4. \A c \in charts : c[1] = Kube(ds)!NoNamespace
    BY <1>1, <1>2 DEF KuIInv, KuChartsKept
  <1>5. Kube(ds)!TypeOK'
    BY <1>1, <1>2 DEF KuIInv, Kube!TypeOK, Kube!InNamespace, KuListing
  <1>6. KuControl(ds)' /\ KuBatchHas(ds)' /\ KuTodoHas(ds)' /\ KuSentHas(ds)'
    BY <1>1, <1>2 DEF KuControl, KuBatchHas, KuTodoHas, KuSentHas, KuIInv
  <1>7. KuGlobalHas(ds)'
    BY <1>1 DEF KuGlobalHas, KuIInv, KuShows, KuElsewhere, Kube!Excused
  <1>8. KuNamespacesKept(ds)'
    BY <1>1 DEF KuNamespacesKept, KuIInv, Kube!TypeOK
  <1>9. KuChartsKept(ds)' /\ KuSound(ds)'
    BY <1>1, <1>2, <1>3, <1>4 DEF KuChartsKept, KuSound, KuIInv, KuCharted, KuNodeless
  <1> QED
    BY <1>5, <1>6, <1>7, <1>8, <1>9 DEF KuIInv

LEMMA KuFirstList ==
    ASSUME NEW ds
    PROVE  Head(Kube(ds)!Lists) = "deployment" /\ Kube(ds)!Lists[1] = "deployment" /\
             "deployment" \in Kube(ds)!Listable
  BY KuIndexed DEF Kube!Lists, Kube!Listable

LEMMA KuBeginNamespaceIInv ==
    ASSUME NEW ds, Kube(ds)!Parameters, KuIInv(ds), NEW n \in namespaces, Kube(ds)!BeginNamespace(n)
    PROVE  KuIInv(ds)'
  <1> DEFINE l == Kube(ds)!WithLabels(global, {n})
  <1>1. /\ pc = "namespace" /\ pc' = "deployment"
        /\ namespaces' = namespaces \ {n} /\ current' = n
        /\ charts' = Kube(ds)!ChartsOf({n})
        /\ UNCHANGED <<live, changes, nodeNames, global, todo, sent, failures, excused, steady>>
    BY KuFirstList DEF Kube!BeginNamespace, Kube!cluster, Kube!ghosts
  <1>2. KuListing(ds)' /\ ~KuListing(ds) /\ KuAt(ds)' = "deployment" /\ todo = {}
    BY <1>1, KuPhases, KuFirstList, KuIndexed DEF KuListing, KuAt, KuIInv, Kube!TypeOK, Kube!PodsOf
  <1>3. /\ n \in Clusters[ds].Object /\ n.kind = "namespace" /\ n.ns # Kube(ds)!NoNamespace
        /\ \A x \in namespaces' : x.ns # n.ns
        /\ \A c \in charts : c[1] # n.ns
        /\ KuCharted(ds, global) /\ KuNoded(ds, global) /\ KuNodeless(ds, global) /\ KuNamed(ds)
    BY <1>1 DEF KuIInv, Kube!TypeOK, KuControl, Kube!Parameters, Kube!Wide, KuChartsKept, KuSound,
       KuNoded, KuNodeless, KuNamed
  <1>4. KuOfOne(ds, {n}, n.ns) /\ KuChartsIn(ds, global, n.ns)
    BY <1>3 DEF KuOfOne, KuChartsIn
  <1>5. /\ global.elements \subseteq l.elements /\ KuAllIn(ds, {n}, l, n.ns) /\ KuCharted(ds, l) /\
             KuNoded(ds, l)
    BY <1>3, <1>4, KuLabelsMade
  <1> HIDE DEF l
  <1>6. batch' = Kube(ds)!Plus(l, {Kube(ds)!Name(o) : o \in {n}}, {})
    BY DEF Kube!BeginNamespace, Kube!WithElements, l
  <1>7. /\ l.elements \subseteq batch'.elements /\ Kube(ds)!Name(n) \in batch'.elements
    BY <1>6, KuPlusIs
  <1>8. KuAllIn(ds, {n}, batch', n.ns) /\ KuCharted(ds, batch') /\ KuNoded(ds, batch')
    BY <1>5, <1>6, KuRelationsMade
  <1>9. Kube(ds)!TypeOK'
    BY <1>1, <1>2, <1>3 DEF KuIInv, Kube!TypeOK, Kube!InNamespace, KuListing
  <1>10. KuControl(ds)'
    BY <1>1, <1>2, <1>3 DEF KuIInv, KuControl
  <1>11. KuGlobalHas(ds)'
    BY <1>1 DEF KuGlobalHas, KuIInv, KuShows, KuElsewhere, Kube!Excused
  <1>12. KuBatchHas(ds)'
    <2> SUFFICES ASSUME NEW o \in steady, o.kind \in Kube(ds)!Wide \/
                          (o.ns = n.ns /\ (o.kind = "namespace" \/ KuDone(ds, o.kind)'))
                 PROVE  KuShows(ds, o, batch)'
      BY <1>1 DEF KuBatchHas
    <2>1. CASE o.kind \in Kube(ds)!Wide
      <3>1. KuShows(ds, o, global)
        BY <1>1, <2>1 DEF KuIInv, KuGlobalHas, Kube!Wide
      <3> QED
        BY <1>1, <1>5, <1>7, <3>1 DEF KuShows, KuElsewhere, Kube!Excused
    <2>2. CASE o.kind = "namespace" /\ o.ns = n.ns
      <3>1. o = n
        BY <1>3, <2>2 DEF KuIInv, Kube!TypeOK, Kube!Parameters
      <3> QED
        BY <1>7, <3>1 DEF KuShows
    <2>3. CASE KuDone(ds, o.kind)'
      <3>1. o.kind \in Kube(ds)!Listable /\ KuIndex[o.kind] < KuIndex["deployment"]
        BY <1>2, <2>3 DEF KuDone
      <3>2. KuIndex[o.kind] \in 1..15
        BY <3>1, KuListableIs
      <3>3. KuIndex["deployment"] = 1
        BY DEF KuIndex
      <3> QED
        BY <3>1, <3>2, <3>3
    <2> QED
      BY <2>1, <2>2, <2>3
  <1>13. KuTodoHas(ds)'
    BY <1>1, <1>2 DEF KuTodoHas, Kube!PodsOf
  <1>14. \A b \in sent : KuWhole(ds, b) => KuWhole(ds, b)'
    BY <1>1 DEF KuWhole, KuShows, KuElsewhere, Kube!Excused
  <1>15. KuSentHas(ds)' /\ KuNamespacesKept(ds)'
    BY <1>1, <1>2, <1>14 DEF KuSentHas, KuNamespacesKept, KuIInv
  <1>16. KuChartsKept(ds)'
    BY <1>1, <1>2, <1>3, <1>5, <1>7, <1>8 DEF KuChartsKept, KuIInv, KuAllIn
  <1>17. KuSound(ds)'
    BY <1>1, <1>2, <1>3, <1>8 DEF KuSound, KuIInv, KuCharted, KuNoded, KuNodeless
  <1> QED
    BY <1>9, <1>10, <1>11, <1>12, <1>13, <1>15, <1>16, <1>17 DEF KuIInv

LEMMA KuNamespacesDoneIInv ==
    ASSUME NEW ds, Kube(ds)!Parameters, KuIInv(ds), Kube(ds)!NamespacesDone
    PROVE  KuIInv(ds)'
  <1>1. /\ pc = "namespace" /\ namespaces = {} /\ pc' = "metrics"
        /\ UNCHANGED <<live, changes, nodeNames, global, namespaces, current, charts, batch, todo, legacyFailed,
                       sent, failures, steady, excused>>
    BY DEF Kube!NamespacesDone, Kube!cluster, Kube!wide, Kube!ghosts
  <1>2. ~KuListing(ds) /\ ~KuListing(ds)'
    BY <1>1, KuPhases DEF KuListing
  <1>3. Kube(ds)!TypeOK' /\ KuControl(ds)'
    BY <1>1, <1>2 DEF KuIInv, Kube!TypeOK, Kube!InNamespace, KuListing, KuControl
  <1>4. KuGlobalHas(ds)' /\ KuBatchHas(ds)' /\ KuTodoHas(ds)'
    BY <1>1, <1>2 DEF KuGlobalHas, KuBatchHas, KuTodoHas, KuIInv, KuShows, KuElsewhere, Kube!Excused
  <1>5. \A b \in sent : KuWhole(ds, b) => KuWhole(ds, b)'
    BY <1>1 DEF KuWhole, KuShows, KuElsewhere, Kube!Excused
  <1>6. KuSentHas(ds)' /\ KuNamespacesKept(ds)'
    BY <1>1, <1>2, <1>5 DEF KuSentHas, KuNamespacesKept, KuIInv
  <1>7. KuChartsKept(ds)' /\ KuSound(ds)'
    BY <1>1, <1>2 DEF KuChartsKept, KuSound, KuIInv, KuCharted, KuNoded, KuNodeless
  <1> QED
    BY <1>3, <1>4, <1>6, <1>7 DEF KuIInv
-----------------------------------------------------------------------------
(* A list of the namespace has been made, or failed.                       *)
LEMMA KuListStep ==
    ASSUME NEW ds, Kube(ds)!Parameters, KuIInv(ds), NEW kind \in Kube(ds)!Listable \union {"retina"},
           KuListing(ds), KuAt(ds) = kind, pc' = Kube(ds)!After(kind),
           UNCHANGED <<live, changes, nodeNames, global, namespaces, current, sent, steady>>,
           todo' = {}, excused \subseteq excused', failures' \in 0..Clusters[ds].MaxFailures,
           batch.elements \subseteq batch'.elements, KuCharted(ds, batch'), KuNoded(ds, batch'),
           \A o \in steady : o.kind = kind /\ o.ns = current.ns =>
             Kube(ds)!Name(o) \in batch'.elements \/ Kube(ds)!Excused(o)',
           \A c \in charts' : (c \in charts \/ c[1] = current.ns) /\
             (c[1] = current.ns => c \in batch'.elements)
    PROVE  KuIInv(ds)'
  <1>1. /\ KuListing(ds)' /\ KuAt(ds)' = pc' /\ pc' \notin {Kube(ds)!PodsOf.deployment, Kube(ds)!PodsOf.service}
        /\ \A k : KuDone(ds, k)' => KuDone(ds, k) \/ k = kind
        /\ pc' \notin {"node", "pv", "storageclass", "namespaces", "namespace", "metrics", "idle"}
    BY KuNextList
  <1>2. /\ pc \notin {"node", "pv", "storageclass", "namespaces", "namespace", "metrics", "istio", "idle"}
    BY KuPhases DEF KuListing
  <1>3. /\ current \in Clusters[ds].Object /\ current.ns # Kube(ds)!NoNamespace /\ \A n \in namespaces :
             n.ns # current.ns
    BY <1>2 DEF KuIInv, Kube!TypeOK, Kube!InNamespace, KuListing, KuControl, Kube!Parameters, Kube!Wide
  <1>4. Kube(ds)!TypeOK'
    BY <1>1, <1>3 DEF KuIInv, Kube!TypeOK, Kube!InNamespace, KuListing
  <1>5. KuControl(ds)'
    BY <1>1, <1>2 DEF KuIInv, KuControl
  <1>6. KuGlobalHas(ds)'
    BY <1>1, <1>2 DEF KuIInv, KuGlobalHas, KuShows, KuElsewhere, Kube!Excused
  <1>7. KuBatchHas(ds)'
    <2> SUFFICES ASSUME NEW o \in steady,
                        o.kind \in Kube(ds)!Wide \/
                          (o.ns = current.ns /\ (o.kind = "namespace" \/ KuDone(ds, o.kind)'))
                 PROVE  KuShows(ds, o, batch)'
      BY DEF KuBatchHas
    <2>1. CASE o.kind = kind /\ o.ns = current.ns
      BY <2>1 DEF KuShows, Kube!Excused
    <2>2. CASE KuShows(ds, o, batch)
      BY <2>2 DEF KuShows, KuElsewhere, Kube!Excused
    <2> QED
      BY <1>1, <2>1, <2>2 DEF KuIInv, KuBatchHas
  <1>8. KuTodoHas(ds)'
    <2>1. CASE KuAt(ds)' = "deployment" \/ KuAt(ds)' = "service"
      BY <1>1, <2>1 DEF KuTodoHas, Kube!PodsOf
    <2>2. CASE ~(KuAt(ds)' = "deployment" \/ KuAt(ds)' = "service")
      BY <2>2 DEF KuTodoHas
    <2> QED
      BY <2>1, <2>2
  <1>9. \A b \in sent : KuWhole(ds, b) => KuWhole(ds, b)'
    BY DEF KuWhole, KuShows, KuElsewhere, Kube!Excused
  <1>10. KuSentHas(ds)' /\ KuNamespacesKept(ds)'
    BY <1>1, <1>9 DEF KuIInv, KuSentHas, KuNamespacesKept
  <1>11. KuChartsKept(ds)'
    <2>1. ASSUME NEW c \in charts' PROVE c \in charts \/ (c[1] = current.ns /\ c[1] # Kube(ds)!NoNamespace)
      BY <1>3
    <2>2. \A c \in charts : /\ c[1] = Kube(ds)!NoNamespace => c \in global.elements
                            /\ \A n \in namespaces : c[1] # Kube(ds)!NoNamespace => c[1] # n.ns
      BY <1>2 DEF KuIInv, KuChartsKept
    <2>3. global.elements \subseteq batch'.elements
      BY DEF KuIInv, KuChartsKept
    <2> QED
      BY <1>1, <1>3, <2>1, <2>2, <2>3 DEF KuChartsKept
  <1>12. KuSound(ds)'
    BY <1>1, <1>2 DEF KuIInv, KuSound, KuCharted, KuNoded, KuNodeless
  <1> QED
    BY <1>4, <1>5, <1>6, <1>7, <1>8, <1>10, <1>11, <1>12 DEF KuIInv

(* While the lists of a namespace are made.                                *)
LEMMA KuInList ==
    ASSUME NEW ds, Kube(ds)!Parameters, KuIInv(ds), KuListing(ds)
    PROVE  /\ KuCharted(ds, batch) /\ KuNoded(ds, batch) /\ KuNamed(ds)
           /\ current \in Clusters[ds].Object /\ current.kind = "namespace" /\ current.ns # Kube(ds)!NoNamespace
           /\ KuChartsIn(ds, batch, current.ns)
           /\ pc \notin {Kube(ds)!PodsOf.deployment, Kube(ds)!PodsOf.service} => todo = {} /\ KuAt(ds) = pc
  BY DEF KuIInv, KuSound, KuNamed, Kube!TypeOK, Kube!InNamespace, KuListing, KuControl,
     Kube!Parameters, Kube!Wide, KuChartsKept, KuChartsIn, KuAt

LEMMA KuAtList ==
    ASSUME NEW ds, NEW kind \in Kube(ds)!Listable \union {"retina", "ship"}, pc = kind
    PROVE  KuListing(ds) /\ KuAt(ds) = kind /\ pc \notin {Kube(ds)!PodsOf.deployment, Kube(ds)!PodsOf.service}
  <1>1. kind \notin {Kube(ds)!PodsOf.deployment, Kube(ds)!PodsOf.service}
    BY KuListableIs DEF Kube!PodsOf
  <1>2. Kube(ds)!Lists[16] = "retina" /\ Kube(ds)!Lists[17] = "ship"
    BY DEF Kube!Lists
  <1>3. kind \in {Kube(ds)!Lists[i] : i \in DOMAIN Kube(ds)!Lists}
    BY <1>2, KuIndexed DEF Kube!Listable
  <1> QED
    BY <1>1, <1>3 DEF KuListing, KuAt

LEMMA KuListFailsIInv ==
    ASSUME NEW ds, Kube(ds)!Parameters, KuIInv(ds), NEW kind \in Kube(ds)!Listable, pc = kind,
           Kube(ds)!ListFails(kind),
           UNCHANGED <<live, changes, nodeNames, global, namespaces, current, todo, sent>>
    PROVE  KuIInv(ds)'
  <1>1. /\ failures' \in 0..Clusters[ds].MaxFailures /\ excused \subseteq excused'
        /\ <<current.ns, kind>> \in excused' /\ UNCHANGED <<steady, batch, charts>> /\
             pc' = Kube(ds)!After(kind)
    BY KuFailsBound DEF Kube!ListFails, KuIInv
  <1>2. KuListing(ds) /\ KuAt(ds) = kind /\ pc \notin {Kube(ds)!PodsOf.deployment, Kube(ds)!PodsOf.service}
    BY KuAtList
  <1>3. \A o : o.kind = kind /\ o.ns = current.ns => Kube(ds)!Excused(o)'
    BY <1>1 DEF Kube!Excused
  <1>4. KuCharted(ds, batch') /\ KuNoded(ds, batch') /\ KuChartsIn(ds, batch, current.ns) /\ todo' = {}
    BY <1>1, <1>2, KuInList
  <1>5. \A c \in charts' : c[1] = current.ns => c \in batch'.elements
    BY <1>1, <1>4 DEF KuChartsIn
  <1> QED
    BY <1>1, <1>2, <1>3, <1>4, <1>5, KuListStep

LEMMA KuListAnswersIInv ==
    ASSUME NEW ds, Kube(ds)!Parameters, KuIInv(ds), NEW kind \in Kube(ds)!Listable, pc = kind,
           Kube(ds)!ListAnswers(kind),
           UNCHANGED <<live, changes, nodeNames, global, namespaces, current, todo, sent>>
    PROVE  KuIInv(ds)'
  <1> DEFINE found == Kube(ds)!Listed(kind, current.ns)
             made == Kube(ds)!Made(batch, found)
             rs == Kube(ds)!FromNamespaces(found)
  <1>1. /\ UNCHANGED <<failures, excused, steady>> /\ pc' = Kube(ds)!After(kind)
        /\ batch' = Kube(ds)!Plus(made, {}, rs) /\ charts' = Kube(ds)!ChartsOf(found)
    BY DEF Kube!ListAnswers, Kube!Answers, Kube!ghosts
  <1>2. KuListing(ds) /\ KuAt(ds) = kind /\ pc \notin {Kube(ds)!PodsOf.deployment, Kube(ds)!PodsOf.service}
    BY KuAtList
  <1>3. /\ KuCharted(ds, batch) /\ KuNoded(ds, batch) /\ KuNamed(ds) /\ KuChartsIn(ds, batch, current.ns) /\
             todo' = {}
        /\ current \in Clusters[ds].Object /\ current.kind = "namespace"
    BY <1>2, KuInList
  <1>4. KuOfOne(ds, found, current.ns)
    BY KuListableIs DEF KuOfOne, Kube!Listed, KuIInv, Kube!TypeOK, Kube!Wide
  <1>5. /\ batch.elements \subseteq made.elements /\ \A o \in found : Kube(ds)!Name(o) \in made.elements
        /\ KuAllIn(ds, found, made, current.ns) /\ KuCharted(ds, made) /\ KuNoded(ds, made)
    BY <1>3, <1>4, KuListMade
  <1>6. \A r \in rs : \E o \in found : KuGoodEnds(ds, o, r)
    <2> SUFFICES ASSUME NEW r \in rs PROVE \E o \in found : KuGoodEnds(ds, o, r)
      OBVIOUS
    <2>1. PICK o \in found : r \in Kube(ds)!FromNamespace(o)
      BY DEF Kube!FromNamespaces
    <2> QED
      BY <1>3, <1>4, <2>1, KuNamespaceEnds DEF KuOfOne
  <1>7. \A o \in steady : o.kind = kind /\ o.ns = current.ns => o \in found
    BY DEF Kube!Listed, KuIInv, Kube!TypeOK
  <1> HIDE DEF found, made, rs
  <1>8. KuAllIn(ds, found, batch', current.ns) /\ KuCharted(ds, batch') /\ KuNoded(ds, batch')
    BY <1>1, <1>5, <1>6, KuRelationsMade
  <1>9. made.elements \subseteq batch'.elements
    BY <1>1, KuPlusIs
  <1>10. \A c \in charts' : (c \in charts \/ c[1] = current.ns) /\ (c[1] = current.ns => c \in batch'.elements)
    BY <1>1, <1>8 DEF KuAllIn
  <1>11. \A o \in steady : o.kind = kind /\ o.ns = current.ns =>
           Kube(ds)!Name(o) \in batch'.elements \/ Kube(ds)!Excused(o)'
    BY <1>5, <1>7, <1>9
  <1>12. batch.elements \subseteq batch'.elements /\ failures' \in 0..Clusters[ds].MaxFailures
    BY <1>1, <1>5, <1>9 DEF KuIInv, Kube!TypeOK
  <1> QED
    BY <1>1, <1>2, <1>3, <1>8, <1>10, <1>11, <1>12, KuListStep

LEMMA KuListIInv ==
    ASSUME NEW ds, Kube(ds)!Parameters, KuIInv(ds), NEW kind \in Kube(ds)!Listable, Kube(ds)!List(kind)
    PROVE  KuIInv(ds)'
  BY KuListAnswersIInv, KuListFailsIInv DEF Kube!List, Kube!cluster, Kube!wide

LEMMA KuListOwnersIInv ==
    ASSUME NEW ds, Kube(ds)!Parameters, KuIInv(ds), NEW kind \in {"deployment", "service"},
           Kube(ds)!ListOwners(kind)
    PROVE  KuIInv(ds)'
  <1>1. kind \in Kube(ds)!Listable /\ KuIndex[kind] \in 1..15
    <2>1. Kube(ds)!Lists[1] = "deployment" /\ Kube(ds)!Lists[3] = "service"
      BY DEF Kube!Lists
    <2> QED
      BY <2>1, KuIndexed, KuListableIs DEF Kube!Listable
  <1>2. CASE Kube(ds)!ListFails(kind) /\ UNCHANGED todo
    BY <1>1, <1>2, KuListFailsIInv DEF Kube!ListOwners, Kube!cluster, Kube!wide
  <1>3. CASE todo' = Kube(ds)!Listed(kind, current.ns) /\ pc' = Kube(ds)!PodsOf[kind] /\ Kube(ds)!Answers /\
               UNCHANGED <<batch, charts>>
    <2>1. /\ UNCHANGED <<live, changes, nodeNames, global, namespaces, current, sent, batch, charts,
                          legacyFailed, failures, excused, steady>>
          /\ pc = kind
      BY <1>3 DEF Kube!ListOwners, Kube!cluster, Kube!wide, Kube!Answers, Kube!ghosts
    <2>2. KuListing(ds) /\ KuAt(ds) = kind
      BY <1>1, <2>1, KuAtList
    <2>3. /\ pc' \in {Kube(ds)!PodsOf.deployment, Kube(ds)!PodsOf.service} /\ KuListing(ds)' /\ KuAt(ds)' = kind
          /\ Kube(ds)!PodsOf["deployment"] # Kube(ds)!PodsOf["service"]
      <3>1. /\ Kube(ds)!PodsOf.deployment = "deploymentPods" /\ Kube(ds)!PodsOf.service = "servicePods"
            /\ Kube(ds)!PodsOf["deployment"] = "deploymentPods" /\ Kube(ds)!PodsOf["service"] = "servicePods"
        BY DEF Kube!PodsOf
      <3>2. CASE kind = "deployment"
        BY <1>3, <3>1, <3>2 DEF KuListing, KuAt
      <3>3. CASE kind = "service"
        BY <1>3, <3>1, <3>3 DEF KuListing, KuAt
      <3> QED
        BY <3>2, <3>3
    <2>4. \A o \in todo' : o \in Clusters[ds].Object /\ o.kind = kind /\ o.ns = current.ns
      BY <1>3 DEF Kube!Listed, KuIInv, Kube!TypeOK
    <2>5. /\ pc' \notin {"node", "pv", "storageclass", "namespaces", "namespace", "metrics", "istio", "idle"}
          /\ pc \notin {"node", "pv", "storageclass", "namespaces", "namespace", "metrics", "istio", "idle"}
      BY <2>2, <2>3, KuPhases DEF KuListing
    <2>6. Kube(ds)!TypeOK'
      BY <2>1, <2>2, <2>3, <2>4 DEF KuIInv, Kube!TypeOK, Kube!InNamespace, KuListing
    <2>7. KuControl(ds)'
      BY <2>1, <2>2, <2>3, <2>4, <2>5 DEF KuIInv, KuControl
    <2>8. KuGlobalHas(ds)'
      BY <2>1, <2>5 DEF KuIInv, KuGlobalHas, KuShows, KuElsewhere, Kube!Excused
    <2>9. KuBatchHas(ds)'
      BY <2>1, <2>2, <2>3 DEF KuIInv, KuBatchHas, KuShows, KuElsewhere, Kube!Excused, KuDone
    <2>10. KuTodoHas(ds)'
      <3>1. \A o \in steady : o.kind = kind /\ o.ns = current.ns => o \in todo'
        BY <1>3 DEF Kube!Listed, KuIInv, Kube!TypeOK
      <3> QED
        BY <2>1, <2>3, <3>1 DEF KuTodoHas
    <2>11. \A b \in sent : KuWhole(ds, b) => KuWhole(ds, b)'
      BY <2>1 DEF KuWhole, KuShows, KuElsewhere, Kube!Excused
    <2>12. KuSentHas(ds)' /\ KuNamespacesKept(ds)'
      BY <2>1, <2>2, <2>3, <2>11 DEF KuIInv, KuSentHas, KuNamespacesKept
    <2>13. KuChartsKept(ds)' /\ KuSound(ds)'
      BY <2>1, <2>2, <2>3, <2>5 DEF KuIInv, KuChartsKept, KuSound, KuCharted, KuNoded, KuNodeless
    <2> QED
      BY <2>6, <2>7, <2>8, <2>9, <2>10, <2>12, <2>13 DEF KuIInv
  <1> QED
    BY <1>2, <1>3 DEF Kube!ListOwners

(* One deployment or service is done, with its pods or without.            *)
LEMMA KuPodsStep ==
    ASSUME NEW ds, Kube(ds)!Parameters, KuIInv(ds), KuListing(ds),
           UNCHANGED <<pc, live, changes, nodeNames, global, namespaces, current, sent, steady>>,
           excused \subseteq excused', failures' \in 0..Clusters[ds].MaxFailures,
           batch.elements \subseteq batch'.elements, KuCharted(ds, batch'), KuNoded(ds, batch'),
           todo' \subseteq todo, \A o \in todo \ todo' :
             Kube(ds)!Name(o) \in batch'.elements \/ Kube(ds)!Excused(o)',
           \A c \in charts' : (c \in charts \/ c[1] = current.ns) /\
             (c[1] = current.ns => c \in batch'.elements)
    PROVE  KuIInv(ds)'
  <1>1. /\ KuListing(ds)' /\ KuAt(ds)' = KuAt(ds) /\ \A k : KuDone(ds, k)' <=> KuDone(ds, k)
        /\ pc \notin {"node", "pv", "storageclass", "namespaces", "namespace", "metrics", "istio", "idle"}
    BY KuPhases DEF KuListing, KuAt, KuDone
  <1>2. \A o, b, c : KuShows(ds, o, b) /\ b.elements \subseteq c.elements =>
            KuElsewhere(ds, o)' \/ Kube(ds)!Name(o) \in c.elements \/ Kube(ds)!Excused(o)'
    BY DEF KuShows, KuElsewhere, Kube!Excused
  <1>3. /\ current \in Clusters[ds].Object /\ current.ns # Kube(ds)!NoNamespace /\ \A n \in namespaces :
             n.ns # current.ns
    BY DEF KuIInv, Kube!TypeOK, Kube!InNamespace, KuListing, KuControl, Kube!Parameters, Kube!Wide
  <1>4. Kube(ds)!TypeOK'
    BY <1>1, <1>3 DEF KuIInv, Kube!TypeOK, Kube!InNamespace, KuListing
  <1>5. KuControl(ds)'
    BY <1>1 DEF KuIInv, KuControl
  <1>6. KuGlobalHas(ds)'
    BY <1>1 DEF KuIInv, KuGlobalHas, KuShows, KuElsewhere, Kube!Excused
  <1>7. KuBatchHas(ds)'
    BY <1>1, <1>2 DEF KuIInv, KuBatchHas, KuShows
  <1>8. KuTodoHas(ds)'
    <2> SUFFICES ASSUME pc = Kube(ds)!PodsOf[KuAt(ds)], KuAt(ds) \in {"deployment", "service"},
                        NEW o \in steady, o.kind = KuAt(ds), o.ns = current.ns
                 PROVE  o \in todo' \/ KuShows(ds, o, batch)'
      BY <1>1 DEF KuTodoHas
    <2>1. o \in todo \/ KuShows(ds, o, batch)
      BY DEF KuIInv, KuTodoHas
    <2>2. CASE o \in todo
      BY <2>2 DEF KuShows, Kube!Excused
    <2>3. CASE KuShows(ds, o, batch)
      BY <1>2, <2>3 DEF KuShows
    <2> QED
      BY <2>1, <2>2, <2>3
  <1>9. \A b \in sent : KuWhole(ds, b) => KuWhole(ds, b)'
    BY DEF KuWhole, KuShows, KuElsewhere, Kube!Excused
  <1>10. KuSentHas(ds)' /\ KuNamespacesKept(ds)'
    BY <1>1, <1>9 DEF KuIInv, KuSentHas, KuNamespacesKept
  <1>11. KuChartsKept(ds)'
    <2>1. ASSUME NEW c \in charts' PROVE c \in charts \/ (c[1] = current.ns /\ c[1] # Kube(ds)!NoNamespace)
      BY <1>3
    <2>2. \A c \in charts : /\ c[1] = Kube(ds)!NoNamespace => c \in global.elements
                            /\ \A n \in namespaces : c[1] # Kube(ds)!NoNamespace => c[1] # n.ns
      BY <1>1 DEF KuIInv, KuChartsKept
    <2>3. global.elements \subseteq batch'.elements
      BY DEF KuIInv, KuChartsKept
    <2> QED
      BY <1>1, <1>3, <2>1, <2>2, <2>3 DEF KuChartsKept
  <1>12. KuSound(ds)'
    BY <1>1 DEF KuIInv, KuSound, KuCharted, KuNoded, KuNodeless
  <1> QED
    BY <1>4, <1>5, <1>6, <1>7, <1>8, <1>10, <1>11, <1>12 DEF KuIInv

LEMMA KuAtPods ==
    ASSUME NEW ds, NEW kind \in {"deployment", "service"}, pc = Kube(ds)!PodsOf[kind]
    PROVE  KuListing(ds) /\ KuAt(ds) = kind /\ kind \in Kube(ds)!Listable
  <1>1. Kube(ds)!Lists[1] = "deployment" /\ Kube(ds)!Lists[3] = "service"
    BY DEF Kube!Lists
  <1>2. kind \in Kube(ds)!Listable
    BY <1>1, KuIndexed DEF Kube!Listable
  <1>3. /\ Kube(ds)!PodsOf.deployment = "deploymentPods" /\ Kube(ds)!PodsOf.service = "servicePods"
        /\ Kube(ds)!PodsOf["deployment"] = "deploymentPods" /\ Kube(ds)!PodsOf["service"] = "servicePods"
    BY DEF Kube!PodsOf
  <1>4. CASE kind = "deployment"
    <2>1. pc = "deploymentPods"
      BY <1>3, <1>4
    <2> QED
      BY <1>2, <1>3, <1>4, <2>1 DEF KuListing, KuAt
  <1>5. CASE kind = "service"
    <2>1. pc = "servicePods"
      BY <1>3, <1>5
    <2> QED
      BY <1>2, <1>3, <1>5, <2>1 DEF KuListing, KuAt
  <1> QED
    BY <1>2, <1>4, <1>5

LEMMA KuLookUpPodsIInv ==
    ASSUME NEW ds, Kube(ds)!Parameters, KuIInv(ds), NEW kind \in {"deployment", "service"},
           NEW o \in todo, Kube(ds)!LookUpPods(kind, o)
    PROVE  KuIInv(ds)'
  <1> DEFINE lab == Kube(ds)!WithLabels(batch, {o})
             labelled == Kube(ds)!Plus(lab, {}, Kube(ds)!FromNamespace(o))
             named == {Kube(ds)!Name(p) : p \in {o}}
             elem == Kube(ds)!Plus(labelled, named, {})
  <1>1. /\ todo' = todo \ {o} /\ charts' = Kube(ds)!ChartsOf({o}) /\ pc = Kube(ds)!PodsOf[kind]
        /\ UNCHANGED <<pc, live, changes, nodeNames, global, namespaces, current, sent>>
    BY DEF Kube!LookUpPods, Kube!cluster, Kube!wide
  <1>2. KuListing(ds) /\ KuAt(ds) = kind /\ kind \in Kube(ds)!Listable
    BY <1>1, KuAtPods
  <1>3. /\ KuCharted(ds, batch) /\ KuNoded(ds, batch) /\ KuNamed(ds) /\ KuChartsIn(ds, batch, current.ns)
        /\ current \in Clusters[ds].Object /\ current.kind = "namespace"
    BY <1>2, KuInList
  <1>4. o \in Clusters[ds].Object /\ o.kind = kind /\ o.ns = current.ns /\ o.kind # "node" /\
          live \subseteq Clusters[ds].Object
    <2>1. o.kind = kind /\ o.ns = current.ns
      BY <1>2 DEF KuIInv, KuControl
    <2>2. o \in Clusters[ds].Object /\ live \subseteq Clusters[ds].Object
      BY DEF KuIInv, Kube!TypeOK
    <2>3. kind # "node"
      BY <1>2, KuListableIs DEF Kube!Wide
    <2> QED
      BY <2>1, <2>2, <2>3
  <1>5. KuOfOne(ds, {o}, current.ns)
    BY <1>4 DEF KuOfOne
  <1>6. /\ batch.elements \subseteq lab.elements /\ KuAllIn(ds, {o}, lab, current.ns) /\ KuCharted(ds, lab) /\
             KuNoded(ds, lab)
    BY <1>3, <1>5, KuLabelsMade
  <1> HIDE DEF lab
  <1>7. \A r \in Kube(ds)!FromNamespace(o) : \E p \in {o} : KuGoodEnds(ds, p, r)
    BY <1>3, <1>4, KuNamespaceEnds
  <1>8. KuAllIn(ds, {o}, labelled, current.ns) /\ KuCharted(ds, labelled) /\ KuNoded(ds, labelled)
    BY <1>6, <1>7, KuRelationsMade
  <1>9. lab.elements \subseteq labelled.elements
    BY KuPlusIs
  <1> HIDE DEF labelled
  <1>10. \A e : e \in named <=> e = Kube(ds)!Name(o)
    OBVIOUS
  <1> HIDE DEF named
  <1>11. KuAllIn(ds, {o}, elem, current.ns) /\ KuCharted(ds, elem) /\ KuNoded(ds, elem)
    BY <1>8, KuRelationsMade
  <1>12. labelled.elements \subseteq elem.elements /\ Kube(ds)!Name(o) \in elem.elements
    BY <1>10, KuPlusIs
  <1> HIDE DEF elem
  <1>13. \A r \in Kube(ds)!ToPods(o) : \E p \in {o} : KuGoodEnds(ds, p, r)
    BY <1>4, KuPodEnds
  <1>14. /\ batch.elements \subseteq batch'.elements /\ KuAllIn(ds, {o}, batch', current.ns)
         /\ KuCharted(ds, batch') /\ KuNoded(ds, batch')
         /\ Kube(ds)!Name(o) \in batch'.elements \/ Kube(ds)!Excused(o)'
         /\ excused \subseteq excused' /\ failures' \in 0..Clusters[ds].MaxFailures /\ UNCHANGED steady
    <2>1. CASE batch' = Kube(ds)!Plus(Kube(ds)!WithElements(labelled, {o}), {}, Kube(ds)!ToPods(o)) /\
                 Kube(ds)!Answers
      <3>1. batch' = Kube(ds)!Plus(elem, {}, Kube(ds)!ToPods(o))
        BY <2>1 DEF Kube!WithElements, elem, named
      <3>2. KuAllIn(ds, {o}, batch', current.ns) /\ KuCharted(ds, batch') /\ KuNoded(ds, batch')
        BY <1>11, <1>13, <3>1, KuRelationsMade
      <3>3. elem.elements \subseteq batch'.elements
        BY <3>1, KuPlusIs
      <3>4. excused' = excused /\ failures' = failures /\ steady' = steady
        BY <2>1 DEF Kube!Answers, Kube!ghosts
      <3>5. failures' \in 0..Clusters[ds].MaxFailures
        BY <3>4 DEF KuIInv, Kube!TypeOK
      <3> QED
        BY <1>6, <1>9, <1>12, <3>2, <3>3, <3>4, <3>5
    <2>2. CASE batch' = labelled /\ Kube(ds)!Fails("lookup", Kube(ds)!Name(o))
      <3>1. /\ failures' \in 0..Clusters[ds].MaxFailures /\ excused \subseteq excused' /\
                 Kube(ds)!Name(o) \in excused' /\ UNCHANGED steady
        BY <2>2, KuFailsBound DEF KuIInv
      <3>2. Kube(ds)!Excused(o)'
        BY <3>1 DEF Kube!Excused
      <3> QED
        BY <1>6, <1>8, <1>9, <2>2, <3>1, <3>2
    <2> QED
      BY <2>1, <2>2 DEF Kube!LookUpPods, labelled, lab
  <1>15. \A c \in charts' : (c \in charts \/ c[1] = current.ns) /\ (c[1] = current.ns => c \in batch'.elements)
    BY <1>1, <1>14 DEF KuAllIn
  <1>16. /\ todo' \subseteq todo /\ \A p \in todo \ todo' : p = o
    BY <1>1
  <1>17. \A p \in todo \ todo' : Kube(ds)!Name(p) \in batch'.elements \/ Kube(ds)!Excused(p)'
    BY <1>14, <1>16
  <1> QED
    BY <1>1, <1>2, <1>14, <1>15, <1>16, <1>17, KuPodsStep

LEMMA KuOwnersDoneIInv ==
    ASSUME NEW ds, Kube(ds)!Parameters, KuIInv(ds), NEW kind \in {"deployment", "service"},
           Kube(ds)!OwnersDone(kind)
    PROVE  KuIInv(ds)'
  <1>1. /\ pc = Kube(ds)!PodsOf[kind] /\ todo = {} /\ pc' = Kube(ds)!After(kind)
        /\ UNCHANGED <<live, changes, nodeNames, global, namespaces, current, charts, batch, todo, sent,
                       failures, steady, excused>>
    BY DEF Kube!OwnersDone, Kube!cluster, Kube!wide, Kube!ghosts
  <1>2. KuListing(ds) /\ KuAt(ds) = kind /\ kind \in Kube(ds)!Listable
    BY <1>1, KuAtPods
  <1>3. /\ KuCharted(ds, batch) /\ KuNoded(ds, batch) /\ KuChartsIn(ds, batch, current.ns)
    BY <1>2, KuInList
  <1>4. ASSUME NEW o \in steady, o.kind = kind, o.ns = current.ns
        PROVE  Kube(ds)!Name(o) \in batch'.elements \/ Kube(ds)!Excused(o)'
    <2>1. KuShows(ds, o, batch)
      BY <1>1, <1>2, <1>4 DEF KuIInv, KuTodoHas
    <2>2. o.kind # "node"
      BY <1>4
    <2> QED
      BY <1>1, <2>1, <2>2 DEF KuShows, KuElsewhere, Kube!Excused
  <1>5. \A c \in charts' : (c \in charts \/ c[1] = current.ns) /\ (c[1] = current.ns => c \in batch'.elements)
    BY <1>1, <1>3 DEF KuChartsIn
  <1>6. /\ todo' = {} /\ excused \subseteq excused' /\ failures' \in 0..Clusters[ds].MaxFailures /\
             KuCharted(ds, batch') /\ KuNoded(ds, batch')
        /\ batch.elements \subseteq batch'.elements
    BY <1>1, <1>3 DEF KuIInv, Kube!TypeOK
  <1> QED
    BY <1>1, <1>2, <1>4, <1>5, <1>6, KuListStep

(* A process that dies in a list leaves nothing of the crawl.              *)
LEMMA KuDiesIInv ==
    ASSUME NEW ds, Kube(ds)!Parameters, KuIInv(ds), NEW kind \in Kube(ds)!Listable, pc = kind,
           Kube(ds)!Dies, failures' \in 0..Clusters[ds].MaxFailures, UNCHANGED steady
    PROVE  KuIInv(ds)'
  <1>1. /\ pc = kind /\ pc' = "idle" /\ nodeNames' = <<>> /\ global' = Kube(ds)!Empty /\
             batch' = Kube(ds)!Empty /\ current' = Kube(ds)!None
        /\ namespaces' = {} /\ charts' = {} /\ sent' = {} /\ UNCHANGED <<live, changes, todo, steady>>
    BY DEF Kube!Dies, Kube!cluster
  <1>2. KuListing(ds) /\ todo = {} /\ ~KuListing(ds)'
    BY <1>1, KuAtList, KuInList, KuPhases DEF KuListing
  <1>3. Kube(ds)!TypeOK'
    BY <1>1, <1>2 DEF KuIInv, Kube!TypeOK, Kube!InNamespace, KuListing
  <1>4. KuControl(ds)' /\ KuGlobalHas(ds)' /\ KuBatchHas(ds)' /\ KuTodoHas(ds)' /\ KuSentHas(ds)' /\
          KuNamespacesKept(ds)' /\ KuChartsKept(ds)' /\ KuSound(ds)'
    BY <1>1, <1>2 DEF KuControl, KuGlobalHas, KuBatchHas, KuTodoHas, KuSentHas, KuNamespacesKept,
       KuChartsKept, KuSound
  <1> QED
    BY <1>3, <1>4 DEF KuIInv

LEMMA KuListIngressesIInv ==
    ASSUME NEW ds, Kube(ds)!Parameters, KuIInv(ds), NEW kind \in Kube(ds)!Listable,
           Kube(ds)!ListIngresses(kind)
    PROVE  KuIInv(ds)'
  <1>1. pc = kind
    BY DEF Kube!ListIngresses
  <1>2. CASE Kube(ds)!ListAnswers(kind) /\ UNCHANGED <<Kube(ds)!cluster, Kube(ds)!wide, todo, legacyFailed, sent>>
    BY <1>1, <1>2, KuListAnswersIInv DEF Kube!cluster, Kube!wide
  <1>3. CASE Kube(ds)!Dies /\ Kube(ds)!Answers
    <2>1. failures' \in 0..Clusters[ds].MaxFailures /\ UNCHANGED steady
      BY <1>3 DEF Kube!Answers, Kube!ghosts, KuIInv, Kube!TypeOK
    <2> QED
      BY <1>1, <1>3, <2>1, KuDiesIInv
  <1> QED
    BY <1>2, <1>3 DEF Kube!ListIngresses

LEMMA KuIngressPanicIInv ==
    ASSUME NEW ds, Kube(ds)!Parameters, KuIInv(ds), NEW kind \in Kube(ds)!Listable,
           Kube(ds)!IngressPanic(kind)
    PROVE  KuIInv(ds)'
  <1>1. pc = kind /\ Kube(ds)!Dies
    BY DEF Kube!IngressPanic
  <1>2. failures' \in 0..Clusters[ds].MaxFailures /\ UNCHANGED steady
    BY KuFailsBound DEF Kube!IngressPanic, KuIInv
  <1> QED
    BY <1>1, <1>2, KuDiesIInv

LEMMA KuLaterIngressesIInv ==
    ASSUME NEW ds, Kube(ds)!Parameters, KuIInv(ds), NEW kind \in Kube(ds)!Listable,
           Kube(ds)!LaterIngresses(kind)
    PROVE  KuIInv(ds)'
  BY KuListIngressesIInv, KuIngressPanicIInv, KuListFailsIInv DEF Kube!LaterIngresses, Kube!cluster,
     Kube!wide

LEMMA KuAddRetinaFlowsIInv ==
    ASSUME NEW ds, Kube(ds)!Parameters, KuIInv(ds), Kube(ds)!AddRetinaFlows
    PROVE  KuIInv(ds)'
  <1>1. /\ pc = "retina" /\ pc' = Kube(ds)!After("retina")
        /\ UNCHANGED <<live, changes, nodeNames, global, namespaces, current, charts, todo, sent>>
    BY DEF Kube!AddRetinaFlows, Kube!cluster, Kube!wide
  <1>2. KuListing(ds) /\ KuAt(ds) = "retina" /\ pc \notin {Kube(ds)!PodsOf.deployment, Kube(ds)!PodsOf.service}
    BY <1>1, KuAtList
  <1>3. /\ KuCharted(ds, batch) /\ KuNoded(ds, batch) /\ KuChartsIn(ds, batch, current.ns) /\ todo' = {}
    BY <1>1, <1>2, KuInList
  <1>4. \A o \in steady : o.kind # "retina"
    BY KuListableIs DEF KuIInv, Kube!TypeOK, Kube!Parameters, Kube!Wide
  <1>5. /\ batch.elements \subseteq batch'.elements /\ KuCharted(ds, batch') /\ KuNoded(ds, batch')
        /\ excused \subseteq excused' /\ failures' \in 0..Clusters[ds].MaxFailures /\ UNCHANGED steady
    <2>1. CASE batch' = Kube(ds)!Plus(batch, {}, Clusters[ds].RetinaFlows) /\ Kube(ds)!Answers
      <3>1. \A r \in Clusters[ds].RetinaFlows : r[1][2] = "pod" /\ r[2][2] = "pod"
        BY DEF Kube!Parameters
      <3>2. /\ batch.elements \subseteq batch'.elements
            /\ \A r \in batch'.relations : r \in batch.relations \/ r \in Clusters[ds].RetinaFlows
        BY <2>1, KuPlusIs
      <3>3. KuCharted(ds, batch')
        BY <1>3, <3>1, <3>2 DEF KuCharted
      <3>5. KuNoded(ds, batch')
        BY <1>3, <3>1, <3>2 DEF KuNoded
      <3>4. excused' = excused /\ failures' = failures /\ steady' = steady
        BY <2>1 DEF Kube!Answers, Kube!ghosts
      <3> QED
        BY <3>2, <3>3, <3>4, <3>5 DEF KuIInv, Kube!TypeOK
    <2>2. CASE Kube(ds)!Fails("retina", <<current.ns, "retina">>) /\ UNCHANGED batch
      BY <1>3, <2>2, KuFailsBound DEF KuIInv
    <2> QED
      BY <2>1, <2>2 DEF Kube!AddRetinaFlows
  <1>6. \A c \in charts' : (c \in charts \/ c[1] = current.ns) /\ (c[1] = current.ns => c \in batch'.elements)
    BY <1>1, <1>3, <1>5 DEF KuChartsIn
  <1> QED
    BY <1>1, <1>2, <1>3, <1>4, <1>5, <1>6, KuListStep

LEMMA KuShipIInv == ASSUME NEW ds, Kube(ds)!Parameters, KuIInv(ds), Kube(ds)!Ship PROVE KuIInv(ds)'
  <1> DEFINE s == Kube(ds)!Batch(current.ns, batch)
  <1>1. /\ pc = "ship" /\ pc' = "namespace" /\ batch' = Kube(ds)!Empty
        /\ sent' = sent \union {s}
        /\ UNCHANGED <<live, changes, nodeNames, global, namespaces, current, charts, todo, failures, steady,
             excused>>
    BY DEF Kube!Ship, Kube!cluster, Kube!wide, Kube!ghosts
  <1>2. KuListing(ds) /\ ~KuListing(ds)' /\ KuAt(ds) = "ship" /\ todo = {}
    BY <1>1, KuAtList, KuInList, KuPhases DEF KuListing
  <1>3. s.of = current.ns /\ s.elements = batch.elements /\ s.relations = batch.relations
        /\ DOMAIN s = {"of", "elements", "relations"}
    BY DEF Kube!Batch
  <1> HIDE DEF s
  <1>4. /\ KuCharted(ds, batch) /\ KuNoded(ds, batch) /\ current.ns # Kube(ds)!NoNamespace
    BY <1>2, KuInList
  <1>5. KuWhole(ds, s)
    <2> SUFFICES ASSUME NEW o \in steady, o.ns \in {current.ns, Kube(ds)!NoNamespace}
                 PROVE  KuShows(ds, o, batch)
      BY <1>3 DEF KuWhole, KuShows
    <2>1. o \in Clusters[ds].Object
      BY DEF KuIInv, Kube!TypeOK
    <2>2. CASE o.kind \in Kube(ds)!Wide
      BY <1>2, <2>2 DEF KuIInv, KuBatchHas
    <2>3. CASE o.kind = "namespace"
      BY <1>2, <1>4, <2>1, <2>3 DEF KuIInv, KuBatchHas, Kube!Parameters, Kube!Wide
    <2>4. CASE o.kind \in Kube(ds)!Listable
      <3>1. KuIndex[o.kind] \in 1..15 /\ o.kind \notin Kube(ds)!Wide /\ KuIndex["ship"] = 17
        BY <2>4, KuListableIs DEF KuIndex
      <3>2. KuDone(ds, o.kind)
        BY <1>2, <2>4, <3>1 DEF KuDone
      <3>3. o.ns = current.ns
        BY <2>1, <3>1 DEF Kube!Parameters
      <3> QED
        BY <1>2, <3>2, <3>3 DEF KuIInv, KuBatchHas
    <2> QED
      BY <2>1, <2>2, <2>3, <2>4 DEF Kube!Parameters
  <1>6. Kube(ds)!TypeOK'
    BY <1>1, <1>2, <1>3 DEF KuIInv, Kube!TypeOK, Kube!InNamespace, KuListing
  <1>7. KuControl(ds)'
    BY <1>1, <1>2 DEF KuIInv, KuControl
  <1>8. KuGlobalHas(ds)' /\ KuBatchHas(ds)' /\ KuTodoHas(ds)'
    BY <1>1, <1>2 DEF KuGlobalHas, KuBatchHas, KuTodoHas, KuIInv, KuShows, KuElsewhere, Kube!Excused
  <1>9. \A b : KuWhole(ds, b) => KuWhole(ds, b)'
    BY <1>1 DEF KuWhole, KuShows, KuElsewhere, Kube!Excused
  <1>10. KuSentHas(ds)'
    BY <1>1, <1>5, <1>9 DEF KuIInv, KuSentHas
  <1>11. KuNamespacesKept(ds)'
    BY <1>1, <1>2, <1>3, <1>5, <1>9 DEF KuIInv, KuNamespacesKept
  <1>12. KuChartsKept(ds)'
    BY <1>1, <1>2 DEF KuIInv, KuChartsKept
  <1>13. KuSound(ds)'
    BY <1>1, <1>2, <1>3, <1>4 DEF KuIInv, KuSound, KuCharted, KuNoded, KuNodeless
  <1> QED
    BY <1>6, <1>7, <1>8, <1>10, <1>11, <1>12, <1>13 DEF KuIInv

(* The triggers and Istio's flows follow in batches without relations of   *)
(* these objects.                                                          *)
LEMMA KuMetricsIInv ==
    ASSUME NEW ds, Kube(ds)!Parameters, KuIInv(ds), Kube(ds)!Metrics \/ Kube(ds)!Istio
    PROVE  KuIInv(ds)'
  <1>1. /\ (pc = "metrics" /\ pc' = "istio") \/ (pc = "istio" /\ pc' = "idle")
        /\ UNCHANGED <<live, changes, nodeNames, global, namespaces, current, charts, batch, todo>>
    BY DEF Kube!Metrics, Kube!Istio, Kube!cluster, Kube!wide
  <1>2. ~KuListing(ds) /\ ~KuListing(ds)'
    BY <1>1, KuPhases DEF KuListing
  <1>3. /\ excused \subseteq excused' /\ failures' \in 0..Clusters[ds].MaxFailures /\ UNCHANGED steady
        /\ \A b \in sent' : b \in sent \/ (b.relations = {} /\ DOMAIN b = {"of", "elements", "relations"})
    <2>1. ASSUME NEW of PROVE /\ Kube(ds)!Batch(of, Kube(ds)!Empty).relations = {}
                              /\ DOMAIN Kube(ds)!Batch(of, Kube(ds)!Empty) = {"of", "elements", "relations"}
      BY DEF Kube!Batch, Kube!Empty
    <2>2. CASE Kube(ds)!Answers
      <3>1. excused' = excused /\ failures' = failures /\ steady' = steady
        BY <2>2 DEF Kube!Answers, Kube!ghosts
      <3>2. \A b \in sent' : b \in sent \/ b = Kube(ds)!Batch("metrics", Kube(ds)!Empty) \/
              b = Kube(ds)!Batch("istio", Kube(ds)!Empty)
        BY DEF Kube!Metrics, Kube!Istio
      <3> QED
        BY <2>1, <3>1, <3>2 DEF KuIInv, Kube!TypeOK
    <2>3. CASE ~Kube(ds)!Answers
      <3>1. UNCHANGED sent /\ \E call, what : Kube(ds)!Fails(call, what)
        BY <2>3 DEF Kube!Metrics, Kube!Istio
      <3> QED
        BY <3>1, KuFailsBound DEF KuIInv
    <2> QED
      BY <2>2, <2>3
  <1>4. Kube(ds)!TypeOK'
    BY <1>1, <1>2, <1>3 DEF KuIInv, Kube!TypeOK, Kube!InNamespace, KuListing
  <1>5. KuControl(ds)'
    BY <1>1, <1>2 DEF KuIInv, KuControl
  <1>6. KuGlobalHas(ds)' /\ KuBatchHas(ds)' /\ KuTodoHas(ds)' /\ KuNamespacesKept(ds)'
    BY <1>1, <1>2, <1>3 DEF KuGlobalHas, KuBatchHas, KuTodoHas, KuNamespacesKept, KuIInv, KuShows,
       KuElsewhere, Kube!Excused
  <1>7. \A b \in sent : KuWhole(ds, b) => KuWhole(ds, b)'
    BY <1>1, <1>3 DEF KuWhole, KuShows, KuElsewhere, Kube!Excused
  <1>8. KuSentHas(ds)'
    BY <1>3, <1>7 DEF KuIInv, KuSentHas
  <1>9. KuChartsKept(ds)'
    BY <1>1, <1>2 DEF KuIInv, KuChartsKept
  <1>10. KuSound(ds)'
    BY <1>1, <1>2, <1>3 DEF KuIInv, KuSound, KuCharted, KuNoded, KuNodeless
  <1> QED
    BY <1>4, <1>5, <1>6, <1>8, <1>9, <1>10 DEF KuIInv
-----------------------------------------------------------------------------
LEMMA KuListsIInv ==
    ASSUME NEW ds, Kube(ds)!Parameters, KuIInv(ds),
           \/ Kube(ds)!ListServiceAccounts \/ Kube(ds)!ListPods \/ Kube(ds)!ListSecrets \/
                Kube(ds)!ListEndpoints \/ Kube(ds)!ListJobs \/ Kube(ds)!ListCronJobs
           \/ Kube(ds)!ListConfigMaps \/ Kube(ds)!ListStatefulSets \/ Kube(ds)!ListDaemonSets \/
                Kube(ds)!ListPVCs
    PROVE  KuIInv(ds)'
  <1>1. PICK kind \in {"serviceaccount", "pod", "secret", "endpoint", "job", "cronjob", "configmap",
                       "statefulset", "daemonset", "pvc"} : Kube(ds)!List(kind)
    BY DEF Kube!ListServiceAccounts, Kube!ListPods, Kube!ListSecrets, Kube!ListEndpoints,
       Kube!ListJobs, Kube!ListCronJobs,
           Kube!ListConfigMaps, Kube!ListStatefulSets, Kube!ListDaemonSets, Kube!ListPVCs
  <1>2. kind \in Kube(ds)!Listable
    BY KuKindsListed
  <1> QED
    BY <1>1, <1>2, KuListIInv

LEMMA KuIngressesIInv ==
    ASSUME NEW ds, Kube(ds)!Parameters, KuIInv(ds),
           Kube(ds)!ListIngressesBeta1 \/ Kube(ds)!ListIngressesV1 \/ Kube(ds)!ListIngressesV1Beta1
    PROVE  KuIInv(ds)'
  <1>1. "ingressBeta1" \in Kube(ds)!Listable /\ "ingressV1" \in Kube(ds)!Listable /\
          "ingressV1Beta1" \in Kube(ds)!Listable
    BY KuKindsListed
  <1>2. CASE Kube(ds)!ListIngressesBeta1
    BY <1>1, <1>2, KuListIngressesIInv, KuListFailsIInv DEF Kube!ListIngressesBeta1, Kube!cluster,
       Kube!wide
  <1>3. CASE Kube(ds)!ListIngressesV1 \/ Kube(ds)!ListIngressesV1Beta1
    BY <1>1, <1>3, KuLaterIngressesIInv DEF Kube!ListIngressesV1, Kube!ListIngressesV1Beta1
  <1> QED
    BY <1>2, <1>3

LEMMA KuOwnersIInv ==
    ASSUME NEW ds, Kube(ds)!Parameters, KuIInv(ds), Kube(ds)!ListDeployments \/ Kube(ds)!ListServices
    PROVE  KuIInv(ds)'
  BY KuListOwnersIInv, KuOwnersDoneIInv, KuLookUpPodsIInv DEF Kube!ListDeployments, Kube!ListServices

LEMMA KuStepIInv == ASSUME NEW ds, Kube(ds)!Parameters, KuIInv(ds), Kube(ds)!CrawlStep PROVE KuIInv(ds)'
  <1>1. CASE Kube(ds)!Tick \/ Kube(ds)!ListNodes
    BY <1>1, KuTickIInv, KuListNodesIInv
  <1>2. CASE Kube(ds)!ListPersistentVolumes \/ Kube(ds)!ListStorageClasses
    BY <1>2, KuListWideIInv DEF Kube!ListPersistentVolumes, Kube!ListStorageClasses
  <1>3. CASE Kube(ds)!ListNamespaces \/ Kube(ds)!NamespacesDone \/ \E n \in namespaces :
               Kube(ds)!BeginNamespace(n)
    BY <1>3, KuListNamespacesIInv, KuNamespacesDoneIInv, KuBeginNamespaceIInv
  <1>4. CASE \/ Kube(ds)!ListServiceAccounts \/ Kube(ds)!ListPods \/ Kube(ds)!ListSecrets \/
                  Kube(ds)!ListEndpoints \/ Kube(ds)!ListJobs \/ Kube(ds)!ListCronJobs
             \/ Kube(ds)!ListConfigMaps \/ Kube(ds)!ListStatefulSets \/ Kube(ds)!ListDaemonSets \/
                  Kube(ds)!ListPVCs
    BY <1>4, KuListsIInv
  <1>5. CASE Kube(ds)!ListDeployments \/ Kube(ds)!ListServices
    BY <1>5, KuOwnersIInv
  <1>6. CASE Kube(ds)!ListIngressesBeta1 \/ Kube(ds)!ListIngressesV1 \/ Kube(ds)!ListIngressesV1Beta1
    BY <1>6, KuIngressesIInv
  <1>7. CASE Kube(ds)!AddRetinaFlows \/ Kube(ds)!Ship \/ Kube(ds)!Metrics \/ Kube(ds)!Istio
    BY <1>7, KuAddRetinaFlowsIInv, KuShipIInv, KuMetricsIInv
  <1> QED
    BY <1>1, <1>2, <1>3, <1>4, <1>5, <1>6, <1>7 DEF Kube!CrawlStep

LEMMA KuSame == ASSUME NEW ds, KuIInv(ds), UNCHANGED Kube(ds)!vars PROVE KuIInv(ds)'
  <1>1. UNCHANGED <<live, changes, nodeNames, global, namespaces, current, pc, charts, batch, todo,
          legacyFailed,
                    sent, failures, steady, excused>>
    BY DEF Kube!vars, Kube!cluster, Kube!wide, Kube!ghosts
  <1>2. Kube(ds)!TypeOK' /\ KuControl(ds)'
    BY <1>1 DEF KuIInv, Kube!TypeOK, Kube!InNamespace, KuControl, KuListing, KuAt
  <1>3. KuGlobalHas(ds)' /\ KuBatchHas(ds)' /\ KuTodoHas(ds)'
    BY <1>1 DEF KuIInv, KuGlobalHas, KuBatchHas, KuTodoHas, KuShows, KuElsewhere, Kube!Excused,
       KuListing, KuDone, KuAt
  <1>4. \A b \in sent : KuWhole(ds, b) => KuWhole(ds, b)'
    BY <1>1 DEF KuWhole, KuShows, KuElsewhere, Kube!Excused
  <1>5. KuSentHas(ds)' /\ KuNamespacesKept(ds)'
    BY <1>1, <1>4 DEF KuIInv, KuSentHas, KuNamespacesKept, KuListing
  <1>6. KuChartsKept(ds)' /\ KuSound(ds)'
    BY <1>1 DEF KuIInv, KuChartsKept, KuSound, KuListing, KuCharted, KuNoded, KuNodeless
  <1> QED
    BY <1>2, <1>3, <1>5, <1>6 DEF KuIInv

LEMMA KuPromised ==
    ASSUME NEW ds, Kube(ds)!Parameters, KuIInv(ds)
    PROVE  Kube(ds)!TypeOK /\ Kube(ds)!RelationsResolved /\ Kube(ds)!ChartsPresent /\ Kube(ds)!FailureIsLocal
  <1>1. Kube(ds)!TypeOK /\ Kube(ds)!ChartsPresent
    BY DEF KuIInv, KuSound, KuCharted, Kube!ChartsPresent
  <1>2. Kube(ds)!RelationsResolved
    <2> SUFFICES ASSUME NEW b \in sent, NEW o \in steady, o.ns \in {b.of, Kube(ds)!NoNamespace},
                        Kube(ds)!Name(o) \notin b.elements, ~Kube(ds)!Excused(o),
                        NEW r \in b.relations, NEW e \in {r[1], r[2]}, e = Kube(ds)!Name(o)
                 PROVE  FALSE
      BY DEF Kube!RelationsResolved
    <2>1. KuElsewhere(ds, o)
      BY DEF KuIInv, KuSentHas, KuWhole, KuShows
    <2>2. o.kind = "node" /\ Kube(ds)!Name(o) = <<o.ns, "node", o.name>>
      BY <2>1 DEF KuElsewhere, Kube!Name, Kube!Type
    <2>3. e[2] = "node"
      BY <2>2
    <2>4. PICK k \in DOMAIN nodeNames : e = nodeNames[k]
      BY <2>3 DEF KuIInv, KuSound, KuNoded
    <2>5. nodeNames[k] \in {<<Kube(ds)!NoNamespace, "node", k>>, <<"gcp", "vm", k>>}
      BY DEF KuIInv, KuSound
    <2>6. k = o.name
      BY <2>2, <2>4, <2>5
    <2> QED
      BY <2>1, <2>4, <2>6 DEF KuElsewhere
  <1>3. Kube(ds)!FailureIsLocal
    <2> SUFFICES ASSUME pc = "metrics", <<Kube(ds)!NoNamespace, "namespaces">> \notin excused,
                        NEW o \in steady, NEW n \in steady, n.kind = "namespace",
                          o.ns \in {n.ns, Kube(ds)!NoNamespace},
                        ~Kube(ds)!Excused(o), o.kind = "node" => nodeNames[o.name] = Kube(ds)!Name(o)
                 PROVE  \E b \in sent : b.of = n.ns /\ Kube(ds)!Name(o) \in b.elements
      BY DEF Kube!FailureIsLocal
    <2>1. ~KuListing(ds) /\ namespaces = {}
      BY KuPhases DEF KuIInv, KuControl, KuListing
    <2>2. PICK b \in sent : b.of = n.ns /\ KuWhole(ds, b)
      BY <2>1 DEF KuIInv, KuNamespacesKept
    <2>3. KuShows(ds, o, b)
      BY <2>2 DEF KuWhole
    <2> QED
      BY <2>2, <2>3 DEF KuShows, KuElsewhere
  <1> QED
    BY <1>1, <1>2, <1>3
-----------------------------------------------------------------------------
(* GCP.                                                                    *)
(* The calls of a crawl in their order.                                    *)
GcIndex == [idle |-> 0, bucket |-> 1, cloudrun |-> 2, compute |-> 3, region |-> 4, instance |-> 6,
            nodegroup |-> 7, group |-> 8, disk |-> 10, network |-> 11, subnet |-> 12, cluster |-> 13,
            sql |-> 15, project |-> 16, account |-> 17, role |-> 18, policy |-> 19,
            bucketPolicies |-> 20, runPolicies |-> 22, identity |-> 24, ship |-> 25]
GcPos(p) ==
      CASE p = "zones" -> 5 [] p = "members" -> 9 [] p = "poolMembers" -> 14
      [] p = "bucketPolicy" -> 21 [] p = "runPolicy" -> 23 [] OTHER -> GcIndex[p]

(* What a list is to show: regions only if they are included.              *)
GcWanted(ds, o) ==
    /\ o.kind \in Gcp(ds)!Compute \union Gcp(ds)!IAM \union {"bucket", "cloudrun", "cluster", "sql"}
    /\ o.kind \notin {"zone", "binding"}
    /\ o.kind = "region" => o.name \in Projects[ds].IncludedRegions

(* A batch has what a list that has been made answered with, unless it is  *)
(* excused.                                                                *)
GcShows(ds, o, b) == Gcp(ds)!Excused(o) \/
                       (Gcp(ds)!Elements(o) \subseteq b.elements /\ Gcp(ds)!Links(o) \subseteq b.relations)
GcListsHave(ds, p, b, i) ==
    \A o \in steady : GcWanted(ds, o) /\ GcIndex[o.kind] < p =>
      GcShows(ds, o, IF o.kind \in Gcp(ds)!IAM THEN i ELSE b)

(* The second call for r, of those that are number n, has been made.       *)
GcAsked(ds, n, p, r) == p >= n /\ ~(p = n /\ r \in todo)

GcInIncluded(ds, r, z) == r.kind = "region" /\ z.kind = "zone" /\ z.region = r.name /\
                            r.name \in Projects[ds].IncludedRegions
GcZoneShown(ds, r, z, b) == Gcp(ds)!Name(z) \in b.elements /\
                              <<Gcp(ds)!Name(r), Gcp(ds)!Name(z)>> \in b.relations
GcZonesHave(ds, p, b) ==
    \A r, z \in steady : GcInIncluded(ds, r, z) /\ GcAsked(ds, 5, p, r) =>
      Gcp(ds)!Excused(z) \/ GcZoneShown(ds, r, z, b)

GcMembersShown(ds, g, b) ==
    \A m \in g.members : <<Gcp(ds)!Name(g), <<g.place, "instance", m>>>> \in b.relations \/
                           <<"members", Gcp(ds)!Name(g), m>> \in excused
GcMembersHave(ds, p, b) ==
    \A g \in steady : g.kind = "group" /\ GcAsked(ds, 9, p, g) =>
        Gcp(ds)!Excused(g) \/ <<"members", Gcp(ds)!Name(g)>> \in excused \/ GcMembersShown(ds, g, b)

(* The policy that a binding is of has been read.                          *)
GcDue(ds, p, b) ==
          \/ b.of = Gcp(ds)!Project /\ p >= 20
          \/ \E r \in steady : /\ Gcp(ds)!Name(r) = b.of
                               /\ (r.kind = "bucket" /\ GcAsked(ds, 21, p, r)) \/
                                    (r.kind = "cloudrun" /\ GcAsked(ds, 23, p, r))
GcBound(ds, b, i) ==
    /\ Gcp(ds)!Name(b) \in i.elements /\ Gcp(ds)!BindingLinks(b) \subseteq i.relations
    /\ b.role \in Projects[ds].Predefined => Gcp(ds)!Role(b) \in i.elements \/ <<"roleOf", b.role>> \in excused
GcBindingsHave(ds, p, i) ==
    \A b \in steady : b.kind = "binding" /\ GcDue(ds, p, b) =>
      b \in bindings \/ Gcp(ds)!Excused(b) \/ GcBound(ds, b, i)

(* Which calls leave what for the next.                                    *)
GcCalls == {"idle", "bucket", "cloudrun", "compute", "region", "zones", "instance", "nodegroup", "group",
            "members", "disk", "network", "subnet", "cluster", "poolMembers", "sql", "project", "account",
            "role", "policy", "bucketPolicies", "bucketPolicy", "runPolicies", "runPolicy",
            "identity", "ship"}
GcControl(ds) ==
    /\ pc \in GcCalls
    /\ todo # {} => pc \in {"zones", "members", "poolMembers", "bucketPolicy", "runPolicy"}
    /\ bindings # {} => pc \in {"bucketPolicies", "bucketPolicy", "runPolicy"}
    /\ pc # "idle" /\ GcPos(pc) <= 19 => cache = {}
    /\ pc # "idle" => \A r \in cache : <<Gcp(ds)!NoPlace, "role", r>> \in iam.elements

GcGathered(ds) ==
    pc # "idle" => /\ GcListsHave(ds, GcPos(pc), batch, iam)
                   /\ GcZonesHave(ds, GcPos(pc), batch)
                   /\ GcMembersHave(ds, GcPos(pc), batch)
                   /\ GcBindingsHave(ds, GcPos(pc), iam)
GcShipped(ds) ==
    Gcp(ds)!Complete => GcListsHave(ds, 26, project, project) /\ GcZonesHave(ds, 26, project) /\
      GcMembersHave(ds, 26, project) /\ GcBindingsHave(ds, 26, project)

GcIInv(ds) == Gcp(ds)!TypeOK /\ GcControl(ds) /\ GcGathered(ds) /\ GcShipped(ds)
-----------------------------------------------------------------------------
LEMMA GcPositions ==
    /\ GcPos("idle") = 0 /\ GcPos("bucket") = 1 /\ GcPos("cloudrun") = 2 /\ GcPos("compute") = 3 /\
         GcPos("region") = 4
    /\ GcPos("zones") = 5 /\ GcPos("instance") = 6 /\ GcPos("nodegroup") = 7 /\ GcPos("group") = 8
    /\ GcPos("members") = 9 /\ GcPos("disk") = 10 /\ GcPos("network") = 11 /\ GcPos("subnet") = 12
    /\ GcPos("cluster") = 13 /\ GcPos("poolMembers") = 14 /\ GcPos("sql") = 15 /\ GcPos("project") = 16
    /\ GcPos("account") = 17 /\ GcPos("role") = 18 /\ GcPos("policy") = 19 /\ GcPos("bucketPolicies") = 20
    /\ GcPos("bucketPolicy") = 21 /\ GcPos("runPolicies") = 22 /\ GcPos("runPolicy") = 23
    /\ GcPos("identity") = 24 /\ GcPos("ship") = 25
  <1>1. /\ GcPos("idle") = 0 /\ GcPos("bucket") = 1 /\ GcPos("cloudrun") = 2 /\ GcPos("compute") = 3 /\
             GcPos("region") = 4
    BY DEF GcPos, GcIndex
  <1>2. /\ GcPos("zones") = 5 /\ GcPos("instance") = 6 /\ GcPos("nodegroup") = 7 /\ GcPos("group") = 8
    BY DEF GcPos, GcIndex
  <1>3. /\ GcPos("members") = 9 /\ GcPos("disk") = 10 /\ GcPos("network") = 11 /\ GcPos("subnet") = 12
    BY DEF GcPos, GcIndex
  <1>4. /\ GcPos("cluster") = 13 /\ GcPos("poolMembers") = 14 /\ GcPos("sql") = 15 /\ GcPos("project") = 16
    BY DEF GcPos, GcIndex
  <1>5. /\ GcPos("account") = 17 /\ GcPos("role") = 18 /\ GcPos("policy") = 19 /\ GcPos("bucketPolicies") = 20
    BY DEF GcPos, GcIndex
  <1>6. /\ GcPos("bucketPolicy") = 21 /\ GcPos("runPolicies") = 22 /\ GcPos("runPolicy") = 23
        /\ GcPos("identity") = 24 /\ GcPos("ship") = 25
    BY DEF GcPos, GcIndex
  <1> QED
    BY <1>1, <1>2, <1>3, <1>4, <1>5, <1>6

LEMMA GcIndexIs ==
    /\ GcIndex["bucket"] = 1 /\ GcIndex["cloudrun"] = 2 /\ GcIndex["region"] = 4 /\ GcIndex["instance"] = 6
    /\ GcIndex["nodegroup"] = 7 /\ GcIndex["group"] = 8 /\ GcIndex["disk"] = 10 /\ GcIndex["network"] = 11
    /\ GcIndex["subnet"] = 12 /\ GcIndex["cluster"] = 13 /\ GcIndex["sql"] = 15 /\ GcIndex["account"] = 17
    /\ GcIndex["role"] = 18
  BY DEF GcIndex

(* The list a kind is of stands at its number.                             *)
LEMMA GcWantedIs ==
    ASSUME NEW ds, NEW o, GcWanted(ds, o)
    PROVE  /\ GcIndex[o.kind] \in Nat /\ GcIndex[o.kind] \in {1, 2, 4, 6, 7, 8, 10, 11, 12, 13, 15, 17, 18}
           /\ GcIndex[o.kind] \in 3..12 => o.kind \in Gcp(ds)!Compute
           /\ GcIndex[o.kind] \in 16..25 => o.kind \in Gcp(ds)!IAM
           /\ \A kind \in {"bucket", "cloudrun", "region", "instance", "nodegroup", "group", "disk", "network",
                           "subnet", "cluster", "sql", "account", "role"} :
                GcIndex[kind] = GcIndex[o.kind] => o.kind = kind
  <1>1. o.kind \in {"bucket", "cloudrun", "region", "instance", "nodegroup", "group", "disk", "network",
                    "subnet", "cluster", "sql", "account", "role"}
    BY DEF GcWanted, Gcp!Compute, Gcp!IAM
  <1>2. /\ GcIndex[o.kind] \in {1, 2, 4, 6, 7, 8, 10, 11, 12, 13, 15, 17, 18}
        /\ GcIndex[o.kind] \in 3..12 => o.kind \in Gcp(ds)!Compute
    BY <1>1, GcIndexIs DEF Gcp!Compute
  <1>3. GcIndex[o.kind] \in 16..25 => o.kind \in Gcp(ds)!IAM
    BY <1>1, GcIndexIs DEF Gcp!IAM
  <1>4. ASSUME NEW kind \in {"bucket", "cloudrun", "region", "instance", "nodegroup", "group", "disk",
               "network",
                             "subnet", "cluster", "sql", "account", "role"}, GcIndex[kind] = GcIndex[o.kind]
        PROVE  o.kind = kind
    BY <1>1, <1>4, GcIndexIs
  <1> QED
    <2>1. GcIndex[o.kind] \in Nat
      BY <1>2
    <2> QED
      BY <1>2, <1>3, <1>4, <2>1

LEMMA GcCompared == ASSUME NEW ds, NEW x \in Nat, NEW y \in Nat PROVE x >= y \/ x < y
  OBVIOUS

LEMMA GcPlusIs ==
    ASSUME NEW ds, NEW b, NEW e, NEW r
    PROVE  /\ Gcp(ds)!Plus(b, e, r).elements = b.elements \union e /\
                Gcp(ds)!Plus(b, e, r).relations = b.relations \union r
           /\ DOMAIN Gcp(ds)!Plus(b, e, r) = {"elements", "relations"}
  BY DEF Gcp!Plus

LEMMA GcFailsBound ==
    ASSUME NEW ds, Gcp(ds)!Parameters, Gcp(ds)!TypeOK, NEW call, Gcp(ds)!Fails(call)
    PROVE  failures' \in 0..Projects[ds].MaxFailures /\ excused \subseteq excused' /\ call \in excused'
  BY DEF Gcp!Fails, Gcp!TypeOK, Gcp!Parameters

(* A step of a crawl keeps what was gathered, and has to show only what it *)
(* goes past.                                                              *)
LEMMA GcForward ==
    ASSUME NEW ds, Gcp(ds)!Parameters, GcIInv(ds), pc # "idle", pc' # "idle", Gcp(ds)!TypeOK',
           GcControl(ds)', UNCHANGED <<steady, project>>,
           GcPos(pc) \in Nat, GcPos(pc') \in Nat, excused \subseteq excused',
           batch.elements \subseteq batch'.elements, batch.relations \subseteq batch'.relations,
           \/ iam.elements \subseteq iam'.elements /\ iam.relations \subseteq iam'.relations
           \/ <<"policy">> \in excused',
           \A o \in steady : GcWanted(ds, o) /\ GcIndex[o.kind] >= GcPos(pc) /\ GcIndex[o.kind] < GcPos(pc') =>
               GcShows(ds, o, IF o.kind \in Gcp(ds)!IAM THEN iam ELSE batch)',
           \A r, z \in steady : GcInIncluded(ds, r, z) /\ GcAsked(ds, 5, GcPos(pc), r)' =>
               GcAsked(ds, 5, GcPos(pc), r) \/ Gcp(ds)!Excused(z)' \/ GcZoneShown(ds, r, z, batch)',
           \A g \in steady : g.kind = "group" /\ GcAsked(ds, 9, GcPos(pc), g)' =>
               GcAsked(ds, 9, GcPos(pc), g) \/ Gcp(ds)!Excused(g)' \/
                 <<"members", Gcp(ds)!Name(g)>> \in excused' \/ GcMembersShown(ds, g, batch)',
           \A b \in steady : b.kind = "binding" /\ GcDue(ds, GcPos(pc), b)' =>
               (GcDue(ds, GcPos(pc), b) /\ b \notin bindings \ bindings') \/ Gcp(ds)!Excused(b)' \/
                 GcBound(ds, b, iam)' \/ b \in bindings'
    PROVE  GcIInv(ds)'
  <1>1. \A o : Gcp(ds)!Excused(o) => Gcp(ds)!Excused(o)'
    BY DEF Gcp!Excused
  <1>2. \A o : o.kind \in Gcp(ds)!IAM /\ <<"policy">> \in excused' => Gcp(ds)!Excused(o)'
    BY DEF Gcp!Excused, Gcp!Needs
  <1>3. GcListsHave(ds, GcPos(pc), batch, iam)'
    <2> SUFFICES ASSUME NEW o \in steady, GcWanted(ds, o), GcIndex[o.kind] < GcPos(pc')
                 PROVE  GcShows(ds, o, IF o.kind \in Gcp(ds)!IAM THEN iam ELSE batch)'
      BY DEF GcListsHave, GcWanted
    <2>1. CASE GcIndex[o.kind] >= GcPos(pc)
      <3> DEFINE k == GcIndex[o.kind]
      <3>1. k >= GcPos(pc) /\ k < GcPos(pc')
        BY <2>1
      <3> QED
        BY <3>1
    <2>2. CASE GcIndex[o.kind] < GcPos(pc)
      <3>1. GcShows(ds, o, IF o.kind \in Gcp(ds)!IAM THEN iam ELSE batch)
        BY <2>2 DEF GcIInv, GcGathered, GcListsHave
      <3>2. CASE o.kind \in Gcp(ds)!IAM
        BY <1>1, <1>2, <3>1, <3>2 DEF GcShows
      <3>3. CASE o.kind \notin Gcp(ds)!IAM
        BY <1>1, <3>1, <3>3 DEF GcShows
      <3> QED
        BY <3>2, <3>3
    <2>3. GcIndex[o.kind] \in Nat
      BY GcWantedIs
    <2>4. GcIndex[o.kind] >= GcPos(pc) \/ GcIndex[o.kind] < GcPos(pc)
      BY <2>3, GcCompared
    <2> QED
      BY <2>1, <2>2, <2>4
  <1>4. GcZonesHave(ds, GcPos(pc), batch)'
    <2> SUFFICES ASSUME NEW r \in steady, NEW z \in steady, GcInIncluded(ds, r, z),
                        GcAsked(ds, 5, GcPos(pc), r)'
                 PROVE  Gcp(ds)!Excused(z)' \/ GcZoneShown(ds, r, z, batch)'
      BY DEF GcZonesHave, GcInIncluded
    <2>1. CASE GcAsked(ds, 5, GcPos(pc), r)
      <3>1. Gcp(ds)!Excused(z) \/ GcZoneShown(ds, r, z, batch)
        BY <2>1 DEF GcIInv, GcGathered, GcZonesHave
      <3> QED
        BY <1>1, <3>1 DEF GcZoneShown
    <2> QED
      BY <2>1
  <1>5. GcMembersHave(ds, GcPos(pc), batch)'
    <2> SUFFICES ASSUME NEW g \in steady, g.kind = "group", GcAsked(ds, 9, GcPos(pc), g)'
                 PROVE  Gcp(ds)!Excused(g)' \/ <<"members", Gcp(ds)!Name(g)>> \in excused' \/
                          GcMembersShown(ds, g, batch)'
      BY DEF GcMembersHave
    <2>1. CASE GcAsked(ds, 9, GcPos(pc), g)
      <3>1. Gcp(ds)!Excused(g) \/ <<"members", Gcp(ds)!Name(g)>> \in excused \/ GcMembersShown(ds, g, batch)
        BY <2>1 DEF GcIInv, GcGathered, GcMembersHave
      <3> QED
        BY <1>1, <3>1 DEF GcMembersShown
    <2> QED
      BY <2>1
  <1>6. GcBindingsHave(ds, GcPos(pc), iam)'
    <2> SUFFICES ASSUME NEW b \in steady, b.kind = "binding", GcDue(ds, GcPos(pc), b)'
                 PROVE  b \in bindings' \/ Gcp(ds)!Excused(b)' \/ GcBound(ds, b, iam)'
      BY DEF GcBindingsHave
    <2>1. CASE GcDue(ds, GcPos(pc), b) /\ b \notin bindings \ bindings'
      <3>1. b \in bindings \/ Gcp(ds)!Excused(b) \/ GcBound(ds, b, iam)
        BY <2>1 DEF GcIInv, GcGathered, GcBindingsHave
      <3>2. CASE GcBound(ds, b, iam)
        BY <1>2, <3>2 DEF GcBound, Gcp!IAM
      <3> QED
        BY <1>1, <2>1, <3>1, <3>2
    <2> QED
      BY <2>1
  <1>7. GcGathered(ds)' /\ GcShipped(ds)'
    BY <1>3, <1>4, <1>5, <1>6 DEF GcGathered, GcShipped, Gcp!Complete
  <1> QED
    BY <1>7 DEF GcIInv

(* Nothing is settled by a step that makes no second call.                 *)
GcKeeps(ds, n) == \A r : GcAsked(ds, n, GcPos(pc), r)' => GcAsked(ds, n, GcPos(pc), r)

LEMMA GcPlainStep ==
    ASSUME NEW ds, Gcp(ds)!Parameters, GcIInv(ds), pc # "idle", pc' # "idle", Gcp(ds)!TypeOK',
           GcControl(ds)', UNCHANGED <<steady, project, bindings>>,
           GcPos(pc) \in Nat, GcPos(pc') \in Nat, excused \subseteq excused',
           batch.elements \subseteq batch'.elements, batch.relations \subseteq batch'.relations,
           iam.elements \subseteq iam'.elements, iam.relations \subseteq iam'.relations,
           \A o \in steady : GcWanted(ds, o) /\ GcIndex[o.kind] >= GcPos(pc) /\ GcIndex[o.kind] < GcPos(pc') =>
               GcShows(ds, o, IF o.kind \in Gcp(ds)!IAM THEN iam ELSE batch)',
           GcKeeps(ds, 5), GcKeeps(ds, 9), GcKeeps(ds, 21), GcKeeps(ds, 23), GcPos(pc') >= 20 => GcPos(pc) >= 20
    PROVE  GcIInv(ds)'
  <1>1. \A r, z \in steady : GcInIncluded(ds, r, z) /\ GcAsked(ds, 5, GcPos(pc), r)' =>
            GcAsked(ds, 5, GcPos(pc), r) \/ Gcp(ds)!Excused(z)' \/ GcZoneShown(ds, r, z, batch)'
    BY DEF GcKeeps
  <1>2. \A g \in steady : g.kind = "group" /\ GcAsked(ds, 9, GcPos(pc), g)' =>
            GcAsked(ds, 9, GcPos(pc), g) \/ Gcp(ds)!Excused(g)' \/
              <<"members", Gcp(ds)!Name(g)>> \in excused' \/ GcMembersShown(ds, g, batch)'
    BY DEF GcKeeps
  <1>3. \A b : GcDue(ds, GcPos(pc), b)' => GcDue(ds, GcPos(pc), b)
    BY DEF GcKeeps, GcDue
  <1>4. \A b \in steady : b.kind = "binding" /\ GcDue(ds, GcPos(pc), b)' =>
            (GcDue(ds, GcPos(pc), b) /\ b \notin bindings \ bindings') \/ Gcp(ds)!Excused(b)' \/
              GcBound(ds, b, iam)' \/ b \in bindings'
    BY <1>3
  <1> QED
    BY <1>1, <1>2, <1>4, GcForward

(* What the resources of a list add to a batch.                            *)
LEMMA GcAddedIs ==
    ASSUME NEW ds, NEW b, NEW found
    PROVE  /\ b.elements \subseteq Gcp(ds)!Added(b, found).elements /\
                b.relations \subseteq Gcp(ds)!Added(b, found).relations
           /\ \A o \in found : Gcp(ds)!Elements(o) \subseteq Gcp(ds)!Added(b, found).elements
                               /\ Gcp(ds)!Links(o) \subseteq Gcp(ds)!Added(b, found).relations
           /\ DOMAIN Gcp(ds)!Added(b, found) = {"elements", "relations"}
  <1> DEFINE e == UNION {Gcp(ds)!Elements(o) : o \in found}
             l == UNION {Gcp(ds)!Links(o) : o \in found}
  <1>1. Gcp(ds)!Added(b, found) = Gcp(ds)!Plus(b, e, l)
    BY DEF Gcp!Added
  <1>2. \A o \in found : Gcp(ds)!Elements(o) \subseteq e /\ Gcp(ds)!Links(o) \subseteq l
    OBVIOUS
  <1> HIDE DEF e, l
  <1> QED
    BY <1>1, <1>2, GcPlusIs

(* What was listed is on the page, or excused.                             *)
LEMMA GcAnswersPageIs ==
    ASSUME NEW ds, Gcp(ds)!TypeOK, NEW beyond, Gcp(ds)!AnswersPage(beyond)
    PROVE  failures' \in 0..Projects[ds].MaxFailures /\ excused \subseteq excused' /\ beyond \subseteq excused'
  BY DEF Gcp!AnswersPage, Gcp!TypeOK

LEMMA GcBeyondIs ==
    ASSUME NEW ds, NEW call, NEW all, NEW page, NEW o \in all
    PROVE  o \in page \/ <<call, Gcp(ds)!Name(o)>> \in Gcp(ds)!Beyond(call, all, page)
  BY DEF Gcp!Beyond

LEMMA GcKindExcuses ==
    ASSUME NEW ds, NEW o, <<o.kind>> \in excused' \/ <<o.kind, Gcp(ds)!Name(o)>> \in excused'
    PROVE  Gcp(ds)!Excused(o)'
  BY DEF Gcp!Excused, Gcp!Needs

LEMMA GcPageShown ==
    ASSUME NEW ds, Gcp(ds)!TypeOK, NEW kind, NEW page, NEW b, NEW c, c = Gcp(ds)!Added(b, page),
           Gcp(ds)!AnswersPage(Gcp(ds)!Beyond(kind, Gcp(ds)!Of(kind), page))
    PROVE  /\ b.elements \subseteq c.elements /\ b.relations \subseteq c.relations
           /\ DOMAIN c = {"elements", "relations"}
           /\ excused \subseteq excused' /\ failures' \in 0..Projects[ds].MaxFailures
           /\ \A o \in steady : o.kind = kind =>
                Gcp(ds)!Excused(o)' \/
                  (Gcp(ds)!Elements(o) \subseteq c.elements /\ Gcp(ds)!Links(o) \subseteq c.relations)
  <1> DEFINE beyond == Gcp(ds)!Beyond(kind, Gcp(ds)!Of(kind), page)
  <1>1. failures' \in 0..Projects[ds].MaxFailures /\ excused \subseteq excused' /\ beyond \subseteq excused'
    BY GcAnswersPageIs
  <1>2. ASSUME NEW o \in steady, o.kind = kind
        PROVE  Gcp(ds)!Excused(o)' \/
                 (Gcp(ds)!Elements(o) \subseteq c.elements /\ Gcp(ds)!Links(o) \subseteq c.relations)
    <2>1. o \in Gcp(ds)!Of(kind)
      BY <1>2 DEF Gcp!TypeOK, Gcp!Of
    <2>2. o \in page \/ <<kind, Gcp(ds)!Name(o)>> \in beyond
      BY <2>1, GcBeyondIs
    <2>3. CASE o \in page
      BY <2>3, GcAddedIs
    <2>4. CASE <<kind, Gcp(ds)!Name(o)>> \in beyond
      BY <1>1, <1>2, <2>4, GcKindExcuses
    <2> QED
      BY <2>2, <2>3, <2>4
  <1> QED
    BY <1>1, <1>2, GcAddedIs

GcListings == {<<"bucket", "cloudrun">>, <<"cloudrun", "compute">>, <<"instance", "nodegroup">>,
               <<"nodegroup", "group">>, <<"disk", "network">>, <<"network", "subnet">>,
                 <<"subnet", "cluster">>,
               <<"sql", "project">>}

GcUnasked(k) == k \in Nat /\ (k = 1 \/ k = 2 \/ k = 6 \/ k = 7 \/ k = 10 \/ k = 11 \/ k = 12 \/ k = 15)

LEMMA GcListingsAre ==
    ASSUME NEW ds, NEW kind, NEW next, <<kind, next>> \in GcListings
    PROVE  /\ GcPos(kind) = GcIndex[kind] /\ GcPos(next) = GcIndex[kind] + 1 /\ GcUnasked(GcIndex[kind])
           /\ kind \notin Gcp(ds)!IAM /\ kind # "idle" /\ next # "idle" /\ next \in GcCalls
           /\ kind \notin {"zones", "members", "poolMembers", "bucketPolicy", "runPolicy",
                           "bucketPolicies"}
           /\ kind \in {"bucket", "cloudrun", "region", "instance", "nodegroup", "group", "disk", "network",
                           "subnet", "cluster", "sql", "account", "role"}
  <1>1. kind \in {"bucket", "cloudrun", "instance", "nodegroup", "disk", "network", "subnet", "sql"}
    BY DEF GcListings
  <1>2. GcPos(kind) = GcIndex[kind] /\ GcPos(next) = GcIndex[kind] + 1 /\ GcUnasked(GcIndex[kind])
    <2>1. \/ kind = "bucket" /\ next = "cloudrun"
          \/ kind = "cloudrun" /\ next = "compute"
          \/ kind = "instance" /\ next = "nodegroup"
          \/ kind = "nodegroup" /\ next = "group"
          \/ kind = "disk" /\ next = "network"
          \/ kind = "network" /\ next = "subnet"
          \/ kind = "subnet" /\ next = "cluster"
          \/ kind = "sql" /\ next = "project"
      BY DEF GcListings
    <2> QED
      BY <2>1, GcPositions, GcIndexIs DEF GcUnasked
  <1>3. next # "idle" /\ next \in GcCalls
    BY DEF GcListings, GcCalls
  <1> QED
    BY <1>1, <1>2, <1>3 DEF Gcp!IAM

LEMMA GcListIInv ==
    ASSUME NEW ds, Gcp(ds)!Parameters, GcIInv(ds), NEW kind, NEW next, <<kind, next>> \in GcListings,
           Gcp(ds)!List(kind, next)
    PROVE  GcIInv(ds)'
  <1>1. /\ pc = kind /\ pc' = next
        /\ UNCHANGED <<live, changes, steady, todo, bindings, cache, iam, project>>
    BY DEF Gcp!List, Gcp!project, Gcp!policies
  <1> DEFINE k == GcIndex[kind]
  <1>2. /\ GcPos(pc) = k /\ GcPos(pc') = k + 1 /\ GcUnasked(k)
        /\ kind \notin Gcp(ds)!IAM /\ pc # "idle" /\ pc' # "idle" /\ pc' \in GcCalls
        /\ pc \notin {"zones", "members", "poolMembers", "bucketPolicy", "runPolicy", "bucketPolicies"}
    BY <1>1, GcListingsAre
  <1>3. todo = {} /\ bindings = {} /\ cache = {}
    <2>1. GcPos(pc) <= 19
      BY <1>2 DEF GcUnasked
    <2> QED
      BY <1>2, <2>1 DEF GcIInv, GcControl
  <1>4. /\ batch.elements \subseteq batch'.elements /\ batch.relations \subseteq batch'.relations
        /\ excused \subseteq excused' /\ failures' \in 0..Projects[ds].MaxFailures /\
             DOMAIN batch' = {"elements", "relations"}
        /\ \A o \in steady : o.kind = kind => GcShows(ds, o, batch)'
    <2>1. CASE \E page : batch' = Gcp(ds)!Added(batch, page) /\
                 Gcp(ds)!AnswersPage(Gcp(ds)!Beyond(kind, Gcp(ds)!Of(kind), page))
      <3>1. PICK page : batch' = Gcp(ds)!Added(batch, page) /\
                          Gcp(ds)!AnswersPage(Gcp(ds)!Beyond(kind, Gcp(ds)!Of(kind), page))
        BY <2>1
      <3>2. Gcp(ds)!TypeOK
        BY DEF GcIInv
      <3> QED
        BY <3>1, <3>2, GcPageShown DEF GcShows
    <2>2. CASE UNCHANGED batch /\ Gcp(ds)!Fails(<<kind>>)
      <3>1. failures' \in 0..Projects[ds].MaxFailures /\ excused \subseteq excused' /\ <<kind>> \in excused'
        BY <2>2, GcFailsBound DEF GcIInv
      <3>2. \A o : o.kind = kind => Gcp(ds)!Excused(o)'
        BY <3>1 DEF Gcp!Excused, Gcp!Needs
      <3> QED
        BY <2>2, <3>1, <3>2 DEF GcShows, GcIInv, Gcp!TypeOK
    <2> QED
      BY <2>1, <2>2 DEF Gcp!List
  <1>5. Gcp(ds)!TypeOK'
    BY <1>1, <1>2, <1>4 DEF GcIInv, Gcp!TypeOK
  <1>6. GcControl(ds)'
    BY <1>1, <1>2, <1>3 DEF GcIInv, GcControl
  <1>7. \A o \in steady : GcWanted(ds, o) /\ GcIndex[o.kind] >= GcPos(pc) /\ GcIndex[o.kind] < GcPos(pc') =>
            GcShows(ds, o, IF o.kind \in Gcp(ds)!IAM THEN iam ELSE batch)'
    <2> SUFFICES ASSUME NEW o \in steady, GcWanted(ds, o), GcIndex[o.kind] >= k, GcIndex[o.kind] < k + 1
                 PROVE  GcShows(ds, o, IF o.kind \in Gcp(ds)!IAM THEN iam ELSE batch)'
      BY <1>2
    <2>1. GcIndex[o.kind] = k
      <3>1. GcIndex[o.kind] \in Nat
        BY GcWantedIs
      <3> QED
        BY <1>2, <3>1 DEF GcUnasked
    <2>2. o.kind = kind
      BY <2>1, GcWantedIs, GcListingsAre
    <2> QED
      BY <1>2, <1>4, <2>2
  <1>8. GcKeeps(ds, 5) /\ GcKeeps(ds, 9) /\ GcKeeps(ds, 21) /\ GcKeeps(ds, 23) /\
          (GcPos(pc') >= 20 => GcPos(pc) >= 20)
    BY <1>2 DEF GcKeeps, GcAsked, GcUnasked
  <1>9. GcPos(pc) \in Nat /\ GcPos(pc') \in Nat
    BY <1>2 DEF GcUnasked
  <1> QED
    BY <1>1, <1>2, <1>4, <1>5, <1>6, <1>7, <1>8, <1>9, GcPlainStep

LEMMA GcListForIAMIInv ==
    ASSUME NEW ds, Gcp(ds)!Parameters, GcIInv(ds), NEW kind, NEW next, Gcp(ds)!ListForIAM(kind, next),
           (kind = "account" /\ next = "role") \/ (kind = "role" /\ next = "policy")
    PROVE  GcIInv(ds)'
  <1>1. /\ pc = kind /\ pc' = next
        /\ UNCHANGED <<live, changes, steady, todo, bindings, cache, batch, project>>
    BY DEF Gcp!ListForIAM, Gcp!project
  <1>2. /\ GcPos(pc') = GcPos(pc) + 1 /\ (GcPos(pc) = 17 \/ GcPos(pc) = 18) /\ GcIndex[kind] = GcPos(pc) /\
             kind \in Gcp(ds)!IAM
        /\ pc # "idle" /\ pc' # "idle" /\ pc' \in GcCalls
    BY <1>1, GcPositions, GcIndexIs DEF GcCalls, Gcp!IAM
  <1>3. todo = {} /\ bindings = {} /\ cache = {}
    BY <1>1, <1>2 DEF GcIInv, GcControl
  <1>4. /\ iam.elements \subseteq iam'.elements /\ iam.relations \subseteq iam'.relations
        /\ excused \subseteq excused' /\ failures' \in 0..Projects[ds].MaxFailures /\
             DOMAIN iam' = {"elements", "relations"}
        /\ \A o \in steady : o.kind = kind => GcShows(ds, o, iam)'
    <2>1. CASE \E page : iam' = Gcp(ds)!Added(iam, page) /\
                 Gcp(ds)!AnswersPage(Gcp(ds)!Beyond(kind, Gcp(ds)!Of(kind), page))
      <3>1. PICK page : iam' = Gcp(ds)!Added(iam, page) /\
                          Gcp(ds)!AnswersPage(Gcp(ds)!Beyond(kind, Gcp(ds)!Of(kind), page))
        BY <2>1
      <3>2. Gcp(ds)!TypeOK
        BY DEF GcIInv
      <3> QED
        BY <3>1, <3>2, GcPageShown DEF GcShows
    <2>2. CASE UNCHANGED iam /\ Gcp(ds)!Fails(<<kind>>)
      <3>1. failures' \in 0..Projects[ds].MaxFailures /\ excused \subseteq excused' /\ <<kind>> \in excused'
        BY <2>2, GcFailsBound DEF GcIInv
      <3>2. \A o : o.kind = kind => Gcp(ds)!Excused(o)'
        BY <3>1 DEF Gcp!Excused, Gcp!Needs
      <3> QED
        BY <2>2, <3>1, <3>2 DEF GcShows, GcIInv, Gcp!TypeOK
    <2> QED
      BY <2>1, <2>2 DEF Gcp!ListForIAM
  <1>5. Gcp(ds)!TypeOK'
    BY <1>1, <1>2, <1>4 DEF GcIInv, Gcp!TypeOK
  <1>6. GcControl(ds)'
    BY <1>2, <1>1, <1>3 DEF GcControl
  <1>7. \A o \in steady : GcWanted(ds, o) /\ GcIndex[o.kind] >= GcPos(pc) /\ GcIndex[o.kind] < GcPos(pc') =>
            GcShows(ds, o, IF o.kind \in Gcp(ds)!IAM THEN iam ELSE batch)'
    <2> SUFFICES ASSUME NEW o \in steady, GcWanted(ds, o), GcIndex[o.kind] >= GcPos(pc),
                        GcIndex[o.kind] < GcPos(pc')
                 PROVE  GcShows(ds, o, IF o.kind \in Gcp(ds)!IAM THEN iam ELSE batch)'
      OBVIOUS
    <2>1. GcIndex[o.kind] = GcIndex[kind]
      <3>1. GcIndex[o.kind] \in Nat
        BY GcWantedIs
      <3> QED
        BY <1>2, <3>1
    <2>2. o.kind = kind
      BY <2>1, GcWantedIs
    <2> QED
      BY <1>2, <1>4, <2>2
  <1>8. GcKeeps(ds, 5) /\ GcKeeps(ds, 9) /\ GcKeeps(ds, 21) /\ GcKeeps(ds, 23) /\
          (GcPos(pc') >= 20 => GcPos(pc) >= 20)
    BY <1>2 DEF GcKeeps, GcAsked
  <1>9. GcPos(pc) \in Nat /\ GcPos(pc') \in Nat
    BY <1>2
  <1> QED
    BY <1>1, <1>2, <1>4, <1>5, <1>6, <1>7, <1>8, <1>9, GcPlainStep

(* A step that goes past the lists of no kind shows all it has to.         *)
LEMMA GcNothingPassed ==
    ASSUME NEW ds, GcPos(pc) \in Nat, GcPos(pc') \in Nat,
           \/ GcPos(pc') = GcPos(pc)
           \/ GcPos(pc') = GcPos(pc) + 1 /\ GcPos(pc) \in {3, 5, 9, 14, 16, 19, 20, 21, 22, 23, 24}
    PROVE  \A o \in steady : GcWanted(ds, o) /\ GcIndex[o.kind] >= GcPos(pc) /\ GcIndex[o.kind] < GcPos(pc') =>
               GcShows(ds, o, IF o.kind \in Gcp(ds)!IAM THEN iam ELSE batch)'
  <1> SUFFICES ASSUME NEW o \in steady, GcWanted(ds, o), GcIndex[o.kind] >= GcPos(pc),
                      GcIndex[o.kind] < GcPos(pc') PROVE FALSE
    OBVIOUS
  <1>1. GcIndex[o.kind] \in Nat /\ GcIndex[o.kind] \in {1, 2, 4, 6, 7, 8, 10, 11, 12, 13, 15, 17, 18}
    BY GcWantedIs
  <1> QED
    BY <1>1

(* Lists whose resources are looked up one by one, and these lookups.      *)
LEMMA GcLookedIInv ==
    ASSUME NEW ds, Gcp(ds)!Parameters, GcIInv(ds), NEW kind, NEW next, Gcp(ds)!Looked(kind, next),
           \/ kind = "region" /\ next = "instance"
           \/ kind = "group" /\ next = "disk"
           \/ kind = "cluster" /\ next = "sql"
    PROVE  GcIInv(ds)'
  <1>1. /\ pc = Gcp(ds)!In[kind] /\ pc' = next /\ todo = {}
        /\ UNCHANGED <<live, changes, steady, todo, bindings, cache, iam, batch, project, failures, excused>>
    BY DEF Gcp!Looked, Gcp!project, Gcp!policies
  <1>2. /\ pc \in {"zones", "members", "poolMembers"}
        /\ GcPos(pc') = GcPos(pc) + 1 /\ (GcPos(pc) = 5 \/ GcPos(pc) = 9 \/ GcPos(pc) = 14)
        /\ pc' # "idle" /\ pc' \in GcCalls
    BY <1>1, GcPositions DEF GcCalls, Gcp!In
  <1>3. bindings = {} /\ cache = {} /\ pc # "idle"
    BY <1>2 DEF GcIInv, GcControl
  <1>4. Gcp(ds)!TypeOK' /\ GcControl(ds)'
    BY <1>1, <1>2, <1>3 DEF GcIInv, Gcp!TypeOK, GcControl
  <1>5. GcKeeps(ds, 5) /\ GcKeeps(ds, 9) /\ GcKeeps(ds, 21) /\ GcKeeps(ds, 23) /\
          (GcPos(pc') >= 20 => GcPos(pc) >= 20)
    BY <1>1, <1>2 DEF GcKeeps, GcAsked
  <1>6. GcPos(pc) \in Nat /\ GcPos(pc') \in Nat
    BY <1>2
  <1>7. \A o \in steady : GcWanted(ds, o) /\ GcIndex[o.kind] >= GcPos(pc) /\ GcIndex[o.kind] < GcPos(pc') =>
            GcShows(ds, o, IF o.kind \in Gcp(ds)!IAM THEN iam ELSE batch)'
    BY <1>2, <1>6, GcNothingPassed
  <1> QED
    BY <1>1, <1>2, <1>3, <1>4, <1>5, <1>6, <1>7, GcPlainStep

LEMMA GcLookUpIs ==
    ASSUME NEW ds, Gcp(ds)!Parameters, GcIInv(ds), NEW kind \in {"region", "group", "cluster"}, NEW o,
           NEW e, NEW r, NEW beyond, Gcp(ds)!LookUp(kind, o, e, r, beyond)
    PROVE  /\ Gcp(ds)!TypeOK' /\ GcControl(ds)' /\ UNCHANGED <<steady, project, bindings, pc, iam>> /\
                todo' = todo \ {o}
           /\ pc = Gcp(ds)!In[kind] /\ excused \subseteq excused'
           /\ batch.elements \subseteq batch'.elements /\ batch.relations \subseteq batch'.relations
           /\ \/ e \subseteq batch'.elements /\ r \subseteq batch'.relations /\ beyond \subseteq excused'
              \/ <<Gcp(ds)!In[kind], Gcp(ds)!Name(o)>> \in excused'
           /\ pc # "idle" /\ bindings = {}
  <1>1. /\ pc = Gcp(ds)!In[kind] /\ o \in todo /\ todo' = todo \ {o}
        /\ UNCHANGED <<live, changes, steady, pc, bindings, cache, iam, project>>
    BY DEF Gcp!LookUp, Gcp!project, Gcp!policies
  <1>2. pc \in {"zones", "members", "poolMembers"}
    BY <1>1 DEF Gcp!In
  <1>3. bindings = {} /\ pc # "idle"
    BY <1>2 DEF GcIInv, GcControl
  <1>4. /\ batch.elements \subseteq batch'.elements /\ batch.relations \subseteq batch'.relations
        /\ excused \subseteq excused' /\ failures' \in 0..Projects[ds].MaxFailures /\
             DOMAIN batch' = {"elements", "relations"}
        /\ \/ e \subseteq batch'.elements /\ r \subseteq batch'.relations /\ beyond \subseteq excused'
           \/ <<Gcp(ds)!In[kind], Gcp(ds)!Name(o)>> \in excused'
    <2>1. CASE batch' = Gcp(ds)!Plus(batch, e, r) /\ Gcp(ds)!AnswersPage(beyond)
      BY <2>1, GcPlusIs, GcAnswersPageIs DEF GcIInv
    <2>2. CASE UNCHANGED batch /\ Gcp(ds)!Fails(<<Gcp(ds)!In[kind], Gcp(ds)!Name(o)>>)
      BY <2>2, GcFailsBound DEF GcIInv, Gcp!TypeOK
    <2> QED
      BY <2>1, <2>2 DEF Gcp!LookUp
  <1>5. Gcp(ds)!TypeOK'
    BY <1>1, <1>2, <1>3, <1>4 DEF GcIInv, Gcp!TypeOK
  <1>6. GcControl(ds)'
    BY <1>1, <1>2, <1>3 DEF GcIInv, GcControl
  <1> QED
    BY <1>1, <1>3, <1>4, <1>5, <1>6

(* An included region has the name by which its zones know it.             *)
LEMMA GcRegionIs ==
    ASSUME NEW ds, Gcp(ds)!Parameters, GcIInv(ds), NEW r \in steady, NEW z, GcInIncluded(ds, r, z)
    PROVE  Gcp(ds)!Name(r) = Gcp(ds)!Region(z.region)
  <1>1. r \in Projects[ds].Resource /\ r.kind = "region" /\ z.region = r.name
    BY DEF GcInIncluded, GcIInv, Gcp!TypeOK
  <1> QED
    BY <1>1 DEF Gcp!Name, Gcp!Place, Gcp!Region, Gcp!Parameters

LEMMA GcGetZonesIInv ==
    ASSUME NEW ds, Gcp(ds)!Parameters, GcIInv(ds), NEW o \in todo, Gcp(ds)!GetZones(o)
    PROVE  GcIInv(ds)'
  <1> DEFINE found == {z \in Gcp(ds)!Of("zone") : o.name \in z.begins}
  <1>0. PICK page : Gcp(ds)!LookUp("region", o, {Gcp(ds)!Name(z) : z \in page},
                                   {<<Gcp(ds)!Name(o), Gcp(ds)!Name(z)>> : z \in page},
                                   {<<"zones", Gcp(ds)!Name(o), Gcp(ds)!Name(z)>> : z \in found \ page})
    BY DEF Gcp!GetZones
  <1> DEFINE names == {Gcp(ds)!Name(z) : z \in page}
             links == {<<Gcp(ds)!Name(o), Gcp(ds)!Name(z)>> : z \in page}
             beyond == {<<"zones", Gcp(ds)!Name(o), Gcp(ds)!Name(z)>> : z \in found \ page}
  <1>1. Gcp(ds)!LookUp("region", o, names, links, beyond)
    BY <1>0
  <1>2. \A z \in steady : GcInIncluded(ds, o, z) =>
          \/ Gcp(ds)!Name(z) \in names /\ <<Gcp(ds)!Name(o), Gcp(ds)!Name(z)>> \in links
          \/ <<"zones", Gcp(ds)!Name(o), Gcp(ds)!Name(z)>> \in beyond
    <2> SUFFICES ASSUME NEW z \in steady, GcInIncluded(ds, o, z), z \notin page PROVE z \in found
      OBVIOUS
    <2>1. z \in live /\ z \in Projects[ds].Resource /\ z.kind = "zone" /\ z.region = o.name
      BY DEF GcInIncluded, GcIInv, Gcp!TypeOK
    <2>2. o.name \in z.begins
      BY <2>1 DEF Gcp!Parameters
    <2> QED
      BY <2>1, <2>2 DEF Gcp!Of
  <1> HIDE DEF names, links, beyond
  <1>3. /\ Gcp(ds)!TypeOK' /\ GcControl(ds)' /\ UNCHANGED <<steady, project, bindings, pc, iam>> /\
             todo' = todo \ {o}
        /\ pc = Gcp(ds)!In["region"] /\ excused \subseteq excused'
        /\ batch.elements \subseteq batch'.elements /\ batch.relations \subseteq batch'.relations
        /\ \/ names \subseteq batch'.elements /\ links \subseteq batch'.relations /\ beyond \subseteq excused'
           \/ <<Gcp(ds)!In["region"], Gcp(ds)!Name(o)>> \in excused'
        /\ pc # "idle" /\ bindings = {}
    BY <1>1, GcLookUpIs
  <1>4. pc = "zones" /\ GcPos(pc) = 5 /\ GcPos(pc') = 5 /\ Gcp(ds)!In["region"] = "zones"
    BY <1>3, GcPositions DEF Gcp!In
  <1>5. \A r, z \in steady : GcInIncluded(ds, r, z) /\ GcAsked(ds, 5, GcPos(pc), r)' =>
            GcAsked(ds, 5, GcPos(pc), r) \/ Gcp(ds)!Excused(z)' \/ GcZoneShown(ds, r, z, batch)'
    <2> SUFFICES ASSUME NEW r \in steady, NEW z \in steady, GcInIncluded(ds, r, z),
                        GcAsked(ds, 5, GcPos(pc), r)',
                        ~GcAsked(ds, 5, GcPos(pc), r)
                 PROVE  Gcp(ds)!Excused(z)' \/ GcZoneShown(ds, r, z, batch)'
      OBVIOUS
    <2>1. r = o
      BY <1>3, <1>4 DEF GcAsked
    <2>2. Gcp(ds)!Name(o) = Gcp(ds)!Region(z.region)
      BY <2>1, GcRegionIs
    <2>3. CASE <<"zones", Gcp(ds)!Name(o)>> \in excused' \/
                 <<"zones", Gcp(ds)!Name(o), Gcp(ds)!Name(z)>> \in excused'
      <3>1. {<<"zones", Gcp(ds)!Region(z.region)>>, <<"zones", Gcp(ds)!Region(z.region), Gcp(ds)!Name(z)>>}
               \subseteq Gcp(ds)!Needs(z)
        BY DEF Gcp!Needs, GcInIncluded
      <3> QED
        BY <2>2, <2>3, <3>1 DEF Gcp!Excused
    <2>4. CASE names \subseteq batch'.elements /\ links \subseteq batch'.relations /\ beyond \subseteq excused'
      BY <1>2, <2>1, <2>3, <2>4 DEF GcZoneShown
    <2> QED
      BY <1>3, <1>4, <2>3, <2>4
  <1>6. \A g \in steady : g.kind = "group" /\ GcAsked(ds, 9, GcPos(pc), g)' =>
            GcAsked(ds, 9, GcPos(pc), g) \/ Gcp(ds)!Excused(g)' \/
              <<"members", Gcp(ds)!Name(g)>> \in excused' \/ GcMembersShown(ds, g, batch)'
    BY <1>4 DEF GcAsked
  <1>7. \A b \in steady : b.kind = "binding" /\ GcDue(ds, GcPos(pc), b)' =>
            (GcDue(ds, GcPos(pc), b) /\ b \notin bindings \ bindings') \/ Gcp(ds)!Excused(b)' \/
              GcBound(ds, b, iam)' \/ b \in bindings'
    BY <1>4 DEF GcDue, GcAsked
  <1>8. \A p \in steady : GcWanted(ds, p) /\ GcIndex[p.kind] >= GcPos(pc) /\ GcIndex[p.kind] < GcPos(pc') =>
            GcShows(ds, p, IF p.kind \in Gcp(ds)!IAM THEN iam ELSE batch)'
    BY <1>4, GcNothingPassed
  <1> QED
    BY <1>3, <1>4, <1>5, <1>6, <1>7, <1>8, GcForward

LEMMA GcGetGroupMembersIInv ==
    ASSUME NEW ds, Gcp(ds)!Parameters, GcIInv(ds), NEW o \in todo, Gcp(ds)!GetGroupMembers(o)
    PROVE  GcIInv(ds)'
  <1> DEFINE members == IF o \in Gcp(ds)!Of("group") THEN o.members ELSE {}
  <1>0. PICK page : Gcp(ds)!LookUp("group", o, {}, {<<Gcp(ds)!Name(o), <<o.place, "instance", m>>>> : m \in page},
                                   {<<"members", Gcp(ds)!Name(o), m>> : m \in members \ page})
    BY DEF Gcp!GetGroupMembers
  <1> DEFINE links == {<<Gcp(ds)!Name(o), <<o.place, "instance", m>>>> : m \in page}
             beyond == {<<"members", Gcp(ds)!Name(o), m>> : m \in members \ page}
  <1>1. Gcp(ds)!LookUp("group", o, {}, links, beyond)
    BY <1>0
  <1>2. o \in steady /\ o.kind = "group" =>
          \A m \in o.members : <<Gcp(ds)!Name(o), <<o.place, "instance", m>>>> \in links \/
                                 <<"members", Gcp(ds)!Name(o), m>> \in beyond
    BY DEF GcIInv, Gcp!TypeOK, Gcp!Of
  <1> HIDE DEF links, beyond
  <1>3. /\ Gcp(ds)!TypeOK' /\ GcControl(ds)' /\ UNCHANGED <<steady, project, bindings, pc, iam>> /\
             todo' = todo \ {o}
        /\ pc = Gcp(ds)!In["group"] /\ excused \subseteq excused'
        /\ batch.elements \subseteq batch'.elements /\ batch.relations \subseteq batch'.relations
        /\ \/ {} \subseteq batch'.elements /\ links \subseteq batch'.relations /\ beyond \subseteq excused'
           \/ <<Gcp(ds)!In["group"], Gcp(ds)!Name(o)>> \in excused'
        /\ pc # "idle" /\ bindings = {}
    BY <1>1, GcLookUpIs
  <1>4. pc = "members" /\ GcPos(pc) = 9 /\ GcPos(pc') = 9 /\ Gcp(ds)!In["group"] = "members"
    BY <1>3, GcPositions DEF Gcp!In
  <1>5. \A r, z \in steady : GcInIncluded(ds, r, z) /\ GcAsked(ds, 5, GcPos(pc), r)' =>
            GcAsked(ds, 5, GcPos(pc), r) \/ Gcp(ds)!Excused(z)' \/ GcZoneShown(ds, r, z, batch)'
    BY <1>4 DEF GcAsked
  <1>6. \A g \in steady : g.kind = "group" /\ GcAsked(ds, 9, GcPos(pc), g)' =>
            GcAsked(ds, 9, GcPos(pc), g) \/ Gcp(ds)!Excused(g)' \/
              <<"members", Gcp(ds)!Name(g)>> \in excused' \/ GcMembersShown(ds, g, batch)'
    <2> SUFFICES ASSUME NEW g \in steady, g.kind = "group", GcAsked(ds, 9, GcPos(pc), g)',
                        ~GcAsked(ds, 9, GcPos(pc), g)
                 PROVE  <<"members", Gcp(ds)!Name(g)>> \in excused' \/ GcMembersShown(ds, g, batch)'
      OBVIOUS
    <2>1. g = o
      BY <1>3, <1>4 DEF GcAsked
    <2> QED
      BY <1>2, <1>3, <1>4, <2>1 DEF GcMembersShown
  <1>7. \A b \in steady : b.kind = "binding" /\ GcDue(ds, GcPos(pc), b)' =>
            (GcDue(ds, GcPos(pc), b) /\ b \notin bindings \ bindings') \/ Gcp(ds)!Excused(b)' \/
              GcBound(ds, b, iam)' \/ b \in bindings'
    BY <1>4 DEF GcDue, GcAsked
  <1>8. \A p \in steady : GcWanted(ds, p) /\ GcIndex[p.kind] >= GcPos(pc) /\ GcIndex[p.kind] < GcPos(pc') =>
            GcShows(ds, p, IF p.kind \in Gcp(ds)!IAM THEN iam ELSE batch)'
    BY <1>4, GcNothingPassed
  <1> QED
    BY <1>3, <1>4, <1>5, <1>6, <1>7, <1>8, GcForward

LEMMA GcGetPoolMembersIInv ==
    ASSUME NEW ds, Gcp(ds)!Parameters, GcIInv(ds), NEW o \in todo, Gcp(ds)!GetPoolMembers(o)
    PROVE  GcIInv(ds)'
  <1>1. PICK links : Gcp(ds)!LookUp("cluster", o, {}, links, {})
    BY DEF Gcp!GetPoolMembers
  <1>2. /\ Gcp(ds)!TypeOK' /\ GcControl(ds)' /\ UNCHANGED <<steady, project, bindings, pc, iam>>
        /\ pc = Gcp(ds)!In["cluster"] /\ excused \subseteq excused'
        /\ batch.elements \subseteq batch'.elements /\ batch.relations \subseteq batch'.relations
        /\ pc # "idle"
    BY <1>1, GcLookUpIs
  <1>3. GcPos(pc) = 14 /\ GcPos(pc') = 14
    BY <1>2, GcPositions DEF Gcp!In
  <1>4. GcKeeps(ds, 5) /\ GcKeeps(ds, 9) /\ GcKeeps(ds, 21) /\ GcKeeps(ds, 23) /\
          (GcPos(pc') >= 20 => GcPos(pc) >= 20)
    BY <1>3 DEF GcKeeps, GcAsked
  <1>5. \A p \in steady : GcWanted(ds, p) /\ GcIndex[p.kind] >= GcPos(pc) /\ GcIndex[p.kind] < GcPos(pc') =>
            GcShows(ds, p, IF p.kind \in Gcp(ds)!IAM THEN iam ELSE batch)'
    BY <1>3, GcNothingPassed
  <1> QED
    BY <1>2, <1>3, <1>4, <1>5, GcPlainStep

LEMMA GcBeginLookUp ==
    ASSUME NEW ds, Gcp(ds)!Parameters, GcIInv(ds), NEW kind \in {"region", "group", "cluster"},
           NEW found, NEW new, NEW beyond,
           pc = kind, pc' = Gcp(ds)!In[kind], UNCHANGED <<live, changes, steady, bindings, cache, iam, project>>,
           \/ batch' = Gcp(ds)!Added(batch, found) /\ todo' = new /\ Gcp(ds)!AnswersPage(beyond)
           \/ UNCHANGED <<batch, todo>> /\ Gcp(ds)!Fails(<<kind>>),
           \A o \in steady : o.kind = kind /\ GcWanted(ds, o) =>
             o \in found \/ <<kind, Gcp(ds)!Name(o)>> \in beyond,
           kind # "cluster" => found \subseteq new
    PROVE  GcIInv(ds)'
  <1>1. /\ GcPos(pc) = GcIndex[kind] /\ GcPos(pc') = GcIndex[kind] + 1
        /\ (kind = "region" /\ GcPos(pc) = 4) \/ (kind = "group" /\ GcPos(pc) = 8) \/
             (kind = "cluster" /\ GcPos(pc) = 13)
        /\ kind \notin Gcp(ds)!IAM /\ pc # "idle" /\ pc' \in {"zones", "members", "poolMembers"}
    BY GcPositions, GcIndexIs DEF Gcp!In, Gcp!IAM
  <1>2. bindings = {} /\ cache = {}
    BY <1>1 DEF GcIInv, GcControl
  <1>3. /\ batch.elements \subseteq batch'.elements /\ batch.relations \subseteq batch'.relations
        /\ excused \subseteq excused' /\ failures' \in 0..Projects[ds].MaxFailures /\
             DOMAIN batch' = {"elements", "relations"}
        /\ \A o \in steady : o.kind = kind /\ GcWanted(ds, o) =>
             GcShows(ds, o, batch)' /\ (o \in todo' \/ kind = "cluster" \/ Gcp(ds)!Excused(o)')
        /\ \A o \in steady : o.kind = kind /\ GcWanted(ds, o) /\ kind # "cluster" =>
             o \in todo' \/ <<kind>> \in excused' \/ <<kind, Gcp(ds)!Name(o)>> \in excused'
    <2>1. CASE batch' = Gcp(ds)!Added(batch, found) /\ todo' = new /\ Gcp(ds)!AnswersPage(beyond)
      <3>1. failures' \in 0..Projects[ds].MaxFailures /\ excused \subseteq excused' /\ beyond \subseteq excused'
        BY <2>1, GcAnswersPageIs DEF GcIInv
      <3>2. ASSUME NEW o \in steady, o.kind = kind, GcWanted(ds, o)
            PROVE  /\ GcShows(ds, o, batch)' /\ (o \in todo' \/ kind = "cluster" \/ Gcp(ds)!Excused(o)')
                   /\ kind # "cluster" => o \in todo' \/ <<kind, Gcp(ds)!Name(o)>> \in excused'
        <4>1. CASE o \in found
          BY <2>1, <4>1, GcAddedIs DEF GcShows
        <4>2. CASE <<kind, Gcp(ds)!Name(o)>> \in beyond
          <5>1. <<o.kind, Gcp(ds)!Name(o)>> \in excused'
            BY <3>1, <3>2, <4>2
          <5> QED
            BY <3>2, <5>1, GcKindExcuses DEF GcShows
        <4> QED
          BY <3>2, <4>1, <4>2
      <3> QED
        BY <2>1, <3>1, <3>2, GcAddedIs
    <2>2. CASE UNCHANGED <<batch, todo>> /\ Gcp(ds)!Fails(<<kind>>)
      <3>1. failures' \in 0..Projects[ds].MaxFailures /\ excused \subseteq excused' /\ <<kind>> \in excused'
        BY <2>2, GcFailsBound DEF GcIInv
      <3>2. \A o : o.kind = kind => Gcp(ds)!Excused(o)'
        BY <3>1 DEF Gcp!Excused, Gcp!Needs
      <3> QED
        BY <2>2, <3>1, <3>2 DEF GcShows, GcIInv, Gcp!TypeOK
    <2> QED
      BY <2>1, <2>2
  <1>4. Gcp(ds)!TypeOK'
    BY <1>1, <1>2, <1>3 DEF GcIInv, Gcp!TypeOK
  <1>5. GcControl(ds)'
    <2>1. pc' \in GcCalls /\ pc' # "idle"
      BY <1>1 DEF GcCalls
    <2> QED
      BY <1>1, <1>2, <2>1 DEF GcControl
  <1>6. \A o \in steady : GcWanted(ds, o) /\ GcIndex[o.kind] >= GcPos(pc) /\ GcIndex[o.kind] < GcPos(pc') =>
            GcShows(ds, o, IF o.kind \in Gcp(ds)!IAM THEN iam ELSE batch)'
    <2> SUFFICES ASSUME NEW o \in steady, GcWanted(ds, o), GcIndex[o.kind] >= GcPos(pc),
                        GcIndex[o.kind] < GcPos(pc')
                 PROVE  GcShows(ds, o, IF o.kind \in Gcp(ds)!IAM THEN iam ELSE batch)'
      OBVIOUS
    <2>1. GcIndex[o.kind] = GcIndex[kind]
      <3>1. GcIndex[o.kind] \in Nat
        BY GcWantedIs
      <3> QED
        BY <1>1, <3>1
    <2>2. o.kind = kind
      BY <2>1, GcWantedIs
    <2> QED
      BY <1>1, <1>3, <2>2
  <1>7. \A r, z \in steady : GcInIncluded(ds, r, z) /\ GcAsked(ds, 5, GcPos(pc), r)' =>
            GcAsked(ds, 5, GcPos(pc), r) \/ Gcp(ds)!Excused(z)' \/ GcZoneShown(ds, r, z, batch)'
    <2> SUFFICES ASSUME NEW r \in steady, NEW z \in steady, GcInIncluded(ds, r, z),
                        GcAsked(ds, 5, GcPos(pc), r)',
                        ~GcAsked(ds, 5, GcPos(pc), r)
                 PROVE  Gcp(ds)!Excused(z)'
      OBVIOUS
    <2>1. GcPos(pc) = 4 /\ kind = "region" /\ r \notin todo'
      BY <1>1 DEF GcAsked
    <2>2. GcWanted(ds, r) /\ r.kind = "region"
      BY DEF GcInIncluded, GcWanted, Gcp!Compute
    <2>3. <<"region">> \in excused' \/ <<"region", Gcp(ds)!Name(r)>> \in excused'
      BY <1>3, <2>1, <2>2
    <2>4. Gcp(ds)!Name(r) = Gcp(ds)!Region(z.region)
      BY GcRegionIs
    <2> QED
      BY <2>3, <2>4 DEF Gcp!Excused, Gcp!Needs, GcInIncluded
  <1>8. \A g \in steady : g.kind = "group" /\ GcAsked(ds, 9, GcPos(pc), g)' =>
            GcAsked(ds, 9, GcPos(pc), g) \/ Gcp(ds)!Excused(g)' \/
              <<"members", Gcp(ds)!Name(g)>> \in excused' \/ GcMembersShown(ds, g, batch)'
    <2> SUFFICES ASSUME NEW g \in steady, g.kind = "group", GcAsked(ds, 9, GcPos(pc), g)',
                        ~GcAsked(ds, 9, GcPos(pc), g)
                 PROVE  Gcp(ds)!Excused(g)'
      OBVIOUS
    <2>1. GcPos(pc) = 8 /\ kind = "group" /\ g \notin todo'
      BY <1>1 DEF GcAsked
    <2>2. GcWanted(ds, g)
      BY DEF GcWanted, Gcp!Compute
    <2> QED
      BY <1>3, <2>1, <2>2
  <1>9. \A b \in steady : b.kind = "binding" /\ GcDue(ds, GcPos(pc), b)' =>
            (GcDue(ds, GcPos(pc), b) /\ b \notin bindings \ bindings') \/ Gcp(ds)!Excused(b)' \/
              GcBound(ds, b, iam)' \/ b \in bindings'
    BY <1>1 DEF GcDue, GcAsked
  <1>10. GcPos(pc) \in Nat /\ GcPos(pc') \in Nat /\ pc' # "idle"
    BY <1>1
  <1> QED
    BY <1>1, <1>3, <1>4, <1>5, <1>6, <1>7, <1>8, <1>9, <1>10, GcForward

LEMMA GcGetLocationsIInv ==
    ASSUME NEW ds, Gcp(ds)!Parameters, GcIInv(ds), Gcp(ds)!GetLocations
    PROVE  GcIInv(ds)'
  <1> DEFINE included(page) == {r \in page : r.name \in Projects[ds].IncludedRegions}
             beyond(page) == Gcp(ds)!Beyond("region", Gcp(ds)!Of("region"), page)
  <1>1. PICK page :
          /\ pc = "region" /\ pc' = Gcp(ds)!In["region"] /\
               UNCHANGED <<live, changes, steady, bindings, cache, iam, project>>
          /\ \/ batch' = Gcp(ds)!Added(batch, included(page)) /\ todo' = included(page) /\
                  Gcp(ds)!AnswersPage(beyond(page))
             \/ UNCHANGED <<batch, todo>> /\ Gcp(ds)!Fails(<<"region">>)
    BY DEF Gcp!GetLocations, Gcp!project, Gcp!policies, Gcp!In
  <1>2. \A o \in steady : o.kind = "region" /\ GcWanted(ds, o) =>
            o \in included(page) \/ <<"region", Gcp(ds)!Name(o)>> \in beyond(page)
    <2> SUFFICES ASSUME NEW o \in steady, o.kind = "region", GcWanted(ds, o)
                 PROVE  o \in included(page) \/ <<"region", Gcp(ds)!Name(o)>> \in beyond(page)
      OBVIOUS
    <2>1. o \in Gcp(ds)!Of("region") /\ o.name \in Projects[ds].IncludedRegions
      BY DEF GcWanted, Gcp!Of, GcIInv, Gcp!TypeOK
    <2> QED
      BY <2>1, GcBeyondIs
  <1> HIDE DEF included, beyond
  <1> QED
    BY <1>1, <1>2, GcBeginLookUp

LEMMA GcGetInstanceGroupsIInv ==
    ASSUME NEW ds, Gcp(ds)!Parameters, GcIInv(ds), Gcp(ds)!GetInstanceGroups
    PROVE  GcIInv(ds)'
  <1> DEFINE beyond(page) == Gcp(ds)!Beyond("group", Gcp(ds)!Of("group"), page)
  <1>1. PICK page :
          /\ pc = "group" /\ pc' = Gcp(ds)!In["group"] /\
               UNCHANGED <<live, changes, steady, bindings, cache, iam, project>>
          /\ \/ batch' = Gcp(ds)!Added(batch, page) /\ todo' = page /\ Gcp(ds)!AnswersPage(beyond(page))
             \/ UNCHANGED <<batch, todo>> /\ Gcp(ds)!Fails(<<"group">>)
    BY DEF Gcp!GetInstanceGroups, Gcp!ListForLookup, Gcp!project, Gcp!policies
  <1>2. \A o \in steady : o.kind = "group" /\ GcWanted(ds, o) =>
            o \in page \/ <<"group", Gcp(ds)!Name(o)>> \in beyond(page)
    <2> SUFFICES ASSUME NEW o \in steady, o.kind = "group"
                 PROVE  o \in page \/ <<"group", Gcp(ds)!Name(o)>> \in beyond(page)
      OBVIOUS
    <2>1. o \in Gcp(ds)!Of("group")
      BY DEF Gcp!Of, GcIInv, Gcp!TypeOK
    <2> QED
      BY <2>1, GcBeyondIs
  <1> HIDE DEF beyond
  <1> QED
    BY <1>1, <1>2, GcBeginLookUp

LEMMA GcGetGKEClustersIInv ==
    ASSUME NEW ds, Gcp(ds)!Parameters, GcIInv(ds), Gcp(ds)!GetGKEClusters
    PROVE  GcIInv(ds)'
  <1> DEFINE new == UNION {Gcp(ds)!GroupsOf(c) : c \in Gcp(ds)!Of("cluster")}
  <1>1. /\ pc = "cluster" /\ pc' = Gcp(ds)!In["cluster"] /\
             UNCHANGED <<live, changes, steady, bindings, cache, iam, project>>
        /\ \/ batch' = Gcp(ds)!Added(batch, Gcp(ds)!Of("cluster")) /\ todo' = new /\ Gcp(ds)!AnswersPage({})
           \/ UNCHANGED <<batch, todo>> /\ Gcp(ds)!Fails(<<"cluster">>)
    BY DEF Gcp!GetGKEClusters, Gcp!project, Gcp!policies, Gcp!In, Gcp!Answers, Gcp!AnswersPage
  <1>2. \A o \in steady : o.kind = "cluster" /\ GcWanted(ds, o) => o \in Gcp(ds)!Of("cluster")
    BY DEF Gcp!Of, GcIInv, Gcp!TypeOK
  <1> HIDE DEF new
  <1> QED
    BY <1>1, <1>2, GcBeginLookUp
-----------------------------------------------------------------------------
LEMMA GcGetComputeElemsIInv ==
    ASSUME NEW ds, Gcp(ds)!Parameters, GcIInv(ds), Gcp(ds)!GetComputeElems
    PROVE  GcIInv(ds)'
  <1>1. /\ pc = "compute" /\ GcPos(pc) = 3 /\ pc # "idle"
        /\ UNCHANGED <<live, changes, steady, todo, bindings, cache, iam, batch, project>>
    BY GcPositions DEF Gcp!GetComputeElems, Gcp!project, Gcp!policies
  <1>2. todo = {} /\ bindings = {} /\ cache = {}
    BY <1>1 DEF GcIInv, GcControl
  <1>3. CASE pc' = "region" /\ Gcp(ds)!Answers
    <2>1. /\ GcPos(pc') = 4 /\ excused' = excused /\ failures' = failures /\ pc' # "idle" /\ pc' \in GcCalls
      BY <1>3, GcPositions DEF Gcp!Answers, GcCalls
    <2>2. Gcp(ds)!TypeOK' /\ GcControl(ds)'
      BY <1>1, <1>2, <1>3, <2>1 DEF GcIInv, Gcp!TypeOK, GcControl
    <2>3. GcKeeps(ds, 5) /\ GcKeeps(ds, 9) /\ GcKeeps(ds, 21) /\ GcKeeps(ds, 23) /\
            (GcPos(pc') >= 20 => GcPos(pc) >= 20)
      BY <1>1, <2>1 DEF GcKeeps, GcAsked
    <2>4. \A o \in steady : GcWanted(ds, o) /\ GcIndex[o.kind] >= GcPos(pc) /\ GcIndex[o.kind] < GcPos(pc') =>
              GcShows(ds, o, IF o.kind \in Gcp(ds)!IAM THEN iam ELSE batch)'
      BY <1>1, <2>1, GcNothingPassed
    <2> QED
      BY <1>1, <2>1, <2>2, <2>3, <2>4, GcPlainStep
  <1>4. CASE pc' = "cluster" /\ Gcp(ds)!Fails(<<"compute">>)
    <2>1. /\ GcPos(pc') = 13 /\ pc' # "idle" /\ pc' \in GcCalls
          /\ excused \subseteq excused' /\ <<"compute">> \in excused' /\
               failures' \in 0..Projects[ds].MaxFailures
      BY <1>4, GcPositions, GcFailsBound DEF GcCalls, GcIInv
    <2>2. Gcp(ds)!TypeOK' /\ GcControl(ds)'
      BY <1>1, <1>2, <1>4, <2>1 DEF GcIInv, Gcp!TypeOK, GcControl
    <2>3. \A o : o.kind \in Gcp(ds)!Compute => Gcp(ds)!Excused(o)'
      BY <2>1 DEF Gcp!Excused, Gcp!Needs
    <2>4. \A o \in steady : GcWanted(ds, o) /\ GcIndex[o.kind] >= GcPos(pc) /\ GcIndex[o.kind] < GcPos(pc') =>
              GcShows(ds, o, IF o.kind \in Gcp(ds)!IAM THEN iam ELSE batch)'
      <3> SUFFICES ASSUME NEW o \in steady, GcWanted(ds, o), GcIndex[o.kind] >= GcPos(pc),
                          GcIndex[o.kind] < GcPos(pc')
                   PROVE  Gcp(ds)!Excused(o)'
        BY DEF GcShows
      <3>1. GcIndex[o.kind] \in Nat
        BY GcWantedIs
      <3>2. GcIndex[o.kind] \in 3..12
        BY <1>1, <2>1, <3>1
      <3> QED
        BY <2>3, <3>2, GcWantedIs
    <2>5. \A r, z \in steady : GcInIncluded(ds, r, z) /\ GcAsked(ds, 5, GcPos(pc), r)' =>
              GcAsked(ds, 5, GcPos(pc), r) \/ Gcp(ds)!Excused(z)' \/ GcZoneShown(ds, r, z, batch)'
      BY <2>3 DEF GcInIncluded, Gcp!Compute
    <2>6. \A g \in steady : g.kind = "group" /\ GcAsked(ds, 9, GcPos(pc), g)' =>
              GcAsked(ds, 9, GcPos(pc), g) \/ Gcp(ds)!Excused(g)' \/
                <<"members", Gcp(ds)!Name(g)>> \in excused' \/ GcMembersShown(ds, g, batch)'
      BY <2>3 DEF Gcp!Compute
    <2>7. \A b \in steady : b.kind = "binding" /\ GcDue(ds, GcPos(pc), b)' =>
              (GcDue(ds, GcPos(pc), b) /\ b \notin bindings \ bindings') \/ Gcp(ds)!Excused(b)' \/
                GcBound(ds, b, iam)' \/ b \in bindings'
      BY <2>1 DEF GcDue, GcAsked
    <2> QED
      BY <1>1, <2>1, <2>2, <2>4, <2>5, <2>6, <2>7, GcForward
  <1> QED
    BY <1>3, <1>4 DEF Gcp!GetComputeElems

(* A failure that leaves out the whole of IAM.                             *)
LEMMA GcWithoutIAM ==
    ASSUME NEW ds, Gcp(ds)!Parameters, GcIInv(ds), pc = "project" \/ pc = "policy", pc' = "ship",
           UNCHANGED <<live, changes, steady, todo, bindings, cache, batch, project>>,
           DOMAIN iam' = {"elements", "relations"}, failures' \in 0..Projects[ds].MaxFailures, excused \subseteq excused',
           \/ <<"project">> \in excused' /\ UNCHANGED iam
           \/ <<"policy">> \in excused'
    PROVE  GcIInv(ds)'
  <1>1. /\ (GcPos(pc) = 16 \/ GcPos(pc) = 19) /\ GcPos(pc') = 25 /\ pc # "idle" /\ pc' # "idle" /\
             pc' \in GcCalls
    BY GcPositions DEF GcCalls
  <1>2. todo = {} /\ bindings = {} /\ cache = {}
    BY <1>1 DEF GcIInv, GcControl
  <1>3. Gcp(ds)!TypeOK' /\ GcControl(ds)'
    BY <1>1, <1>2 DEF GcIInv, Gcp!TypeOK, GcControl
  <1>4. \A o : o.kind \in Gcp(ds)!IAM => Gcp(ds)!Excused(o)'
    BY DEF Gcp!Excused, Gcp!Needs
  <1>5. \A o \in steady : GcWanted(ds, o) /\ GcIndex[o.kind] >= GcPos(pc) /\ GcIndex[o.kind] < GcPos(pc') =>
            GcShows(ds, o, IF o.kind \in Gcp(ds)!IAM THEN iam ELSE batch)'
    <2> SUFFICES ASSUME NEW o \in steady, GcWanted(ds, o), GcIndex[o.kind] >= GcPos(pc),
                        GcIndex[o.kind] < GcPos(pc')
                 PROVE  Gcp(ds)!Excused(o)'
      BY DEF GcShows
    <2>1. GcIndex[o.kind] \in Nat
      BY GcWantedIs
    <2>2. GcIndex[o.kind] \in 16..25
      BY <1>1, <2>1
    <2> QED
      BY <1>4, <2>2, GcWantedIs
  <1>6. \A r, z \in steady : GcInIncluded(ds, r, z) /\ GcAsked(ds, 5, GcPos(pc), r)' =>
            GcAsked(ds, 5, GcPos(pc), r) \/ Gcp(ds)!Excused(z)' \/ GcZoneShown(ds, r, z, batch)'
    BY <1>1 DEF GcAsked
  <1>7. \A g \in steady : g.kind = "group" /\ GcAsked(ds, 9, GcPos(pc), g)' =>
            GcAsked(ds, 9, GcPos(pc), g) \/ Gcp(ds)!Excused(g)' \/
              <<"members", Gcp(ds)!Name(g)>> \in excused' \/ GcMembersShown(ds, g, batch)'
    BY <1>1 DEF GcAsked
  <1>8. \A b \in steady : b.kind = "binding" /\ GcDue(ds, GcPos(pc), b)' =>
            (GcDue(ds, GcPos(pc), b) /\ b \notin bindings \ bindings') \/ Gcp(ds)!Excused(b)' \/
              GcBound(ds, b, iam)' \/ b \in bindings'
    BY <1>4 DEF Gcp!IAM
  <1>9. GcPos(pc) \in Nat /\ GcPos(pc') \in Nat
    BY <1>1
  <1>10. \/ iam.elements \subseteq iam'.elements /\ iam.relations \subseteq iam'.relations
         \/ <<"policy">> \in excused'
    OBVIOUS
  <1> QED
    BY <1>1, <1>3, <1>5, <1>6, <1>7, <1>8, <1>9, <1>10, GcForward

LEMMA GcGetProjectIInv ==
    ASSUME NEW ds, Gcp(ds)!Parameters, GcIInv(ds), Gcp(ds)!GetProject
    PROVE  GcIInv(ds)'
  <1>1. /\ pc = "project" /\ GcPos(pc) = 16 /\ pc # "idle"
        /\ UNCHANGED <<live, changes, steady, todo, bindings, cache, batch, project>>
    BY GcPositions DEF Gcp!GetProject, Gcp!project
  <1>2. todo = {} /\ bindings = {} /\ cache = {}
    BY <1>1 DEF GcIInv, GcControl
  <1>3. CASE pc' = "account" /\ iam' = Gcp(ds)!Plus(iam, {Gcp(ds)!Project}, {}) /\ Gcp(ds)!Answers
    <2>1. /\ GcPos(pc') = 17 /\ excused' = excused /\ failures' = failures /\ pc' # "idle" /\ pc' \in GcCalls
      BY <1>3, GcPositions DEF Gcp!Answers, GcCalls
    <2>2. /\ iam.elements \subseteq iam'.elements /\ iam.relations \subseteq iam'.relations
          /\ DOMAIN iam' = {"elements", "relations"}
      BY <1>3, GcPlusIs
    <2>3. Gcp(ds)!TypeOK' /\ GcControl(ds)'
      BY <1>1, <1>2, <1>3, <2>1, <2>2 DEF GcIInv, Gcp!TypeOK, GcControl
    <2>4. GcKeeps(ds, 5) /\ GcKeeps(ds, 9) /\ GcKeeps(ds, 21) /\ GcKeeps(ds, 23) /\
            (GcPos(pc') >= 20 => GcPos(pc) >= 20)
      BY <1>1, <2>1 DEF GcKeeps, GcAsked
    <2>5. \A o \in steady : GcWanted(ds, o) /\ GcIndex[o.kind] >= GcPos(pc) /\ GcIndex[o.kind] < GcPos(pc') =>
              GcShows(ds, o, IF o.kind \in Gcp(ds)!IAM THEN iam ELSE batch)'
      BY <1>1, <2>1, GcNothingPassed
    <2> QED
      BY <1>1, <2>1, <2>2, <2>3, <2>4, <2>5, GcPlainStep
  <1>4. CASE pc' = "ship" /\ UNCHANGED iam /\ Gcp(ds)!Fails(<<"project">>)
    BY <1>1, <1>4, GcFailsBound, GcWithoutIAM DEF GcIInv, Gcp!TypeOK
  <1> QED
    BY <1>3, <1>4 DEF Gcp!GetProject

LEMMA GcGetProjectPolicyIInv ==
    ASSUME NEW ds, Gcp(ds)!Parameters, GcIInv(ds), Gcp(ds)!GetProjectPolicy
    PROVE  GcIInv(ds)'
  <1>1. /\ pc = "policy" /\ GcPos(pc) = 19 /\ pc # "idle"
        /\ UNCHANGED <<live, changes, steady, todo, cache, batch, project>>
    BY GcPositions DEF Gcp!GetProjectPolicy, Gcp!project
  <1>2. todo = {} /\ bindings = {} /\ cache = {}
    BY <1>1 DEF GcIInv, GcControl
  <1>3. CASE pc' = "bucketPolicies" /\ bindings' = Gcp(ds)!BindingsOf(Gcp(ds)!Project) /\ UNCHANGED iam /\
               Gcp(ds)!Answers
    <2>1. /\ GcPos(pc') = 20 /\ excused' = excused /\ failures' = failures /\ pc' # "idle" /\ pc' \in GcCalls
      BY <1>3, GcPositions DEF Gcp!Answers, GcCalls
    <2>2. bindings' \subseteq Projects[ds].Resource
      BY <1>3 DEF Gcp!BindingsOf, Gcp!Of, GcIInv, Gcp!TypeOK
    <2>3. Gcp(ds)!TypeOK' /\ GcControl(ds)'
      BY <1>1, <1>2, <1>3, <2>1, <2>2 DEF GcIInv, Gcp!TypeOK, GcControl
    <2>4. \A o \in steady : GcWanted(ds, o) /\ GcIndex[o.kind] >= GcPos(pc) /\ GcIndex[o.kind] < GcPos(pc') =>
              GcShows(ds, o, IF o.kind \in Gcp(ds)!IAM THEN iam ELSE batch)'
      BY <1>1, <2>1, GcNothingPassed
    <2>5. \A r, z \in steady : GcInIncluded(ds, r, z) /\ GcAsked(ds, 5, GcPos(pc), r)' =>
              GcAsked(ds, 5, GcPos(pc), r) \/ Gcp(ds)!Excused(z)' \/ GcZoneShown(ds, r, z, batch)'
      BY <1>1 DEF GcAsked
    <2>6. \A g \in steady : g.kind = "group" /\ GcAsked(ds, 9, GcPos(pc), g)' =>
              GcAsked(ds, 9, GcPos(pc), g) \/ Gcp(ds)!Excused(g)' \/
                <<"members", Gcp(ds)!Name(g)>> \in excused' \/ GcMembersShown(ds, g, batch)'
      BY <1>1 DEF GcAsked
    <2>7. \A b \in steady : b.kind = "binding" /\ GcDue(ds, GcPos(pc), b)' =>
              (GcDue(ds, GcPos(pc), b) /\ b \notin bindings \ bindings') \/ Gcp(ds)!Excused(b)' \/
                GcBound(ds, b, iam)' \/ b \in bindings'
      BY <1>3, <2>1 DEF GcDue, GcAsked, Gcp!BindingsOf, Gcp!Of, GcIInv, Gcp!TypeOK
    <2> QED
      BY <1>1, <1>3, <2>1, <2>3, <2>4, <2>5, <2>6, <2>7, GcForward
  <1>4. CASE pc' = "ship" /\ UNCHANGED bindings /\ iam' = Gcp(ds)!Empty /\ Gcp(ds)!Fails(<<"policy">>)
    <2>1. DOMAIN iam' = {"elements", "relations"}
      BY <1>4 DEF Gcp!Empty
    <2> QED
      BY <1>1, <1>4, <2>1, GcFailsBound, GcWithoutIAM DEF GcIInv
  <1> QED
    BY <1>3, <1>4 DEF Gcp!GetProjectPolicy

LEMMA GcAddBindingIInv ==
    ASSUME NEW ds, Gcp(ds)!Parameters, GcIInv(ds), NEW b \in bindings, Gcp(ds)!AddBinding(b)
    PROVE  GcIInv(ds)'
  <1>1. /\ bindings' = bindings \ {b}
        /\ UNCHANGED <<live, changes, steady, pc, todo, batch, project>>
    BY DEF Gcp!AddBinding, Gcp!project
  <1>2. /\ pc \in {"bucketPolicies", "bucketPolicy", "runPolicy"} /\ pc \in GcCalls
        /\ (GcPos(pc) = 20 \/ GcPos(pc) = 21 \/ GcPos(pc) = 23) /\ pc # "idle" /\ GcPos(pc) \in Nat
        /\ b \in Projects[ds].Resource
    <2>1. pc \in {"bucketPolicies", "bucketPolicy", "runPolicy"}
      BY DEF GcIInv, GcControl
    <2> QED
      BY <2>1, GcPositions DEF GcCalls, GcIInv, Gcp!TypeOK
  <1> DEFINE known == {Gcp(ds)!Name(b)} \union Gcp(ds)!Principals(b)
             more == known \union {Gcp(ds)!Role(b)}
             links == Gcp(ds)!BindingLinks(b)
             full == Gcp(ds)!Plus(iam, more, links)
             some == Gcp(ds)!Plus(iam, known, links)
  <1>3. \A i \in {full, some} : /\ iam.elements \subseteq i.elements /\ iam.relations \subseteq i.relations
                                /\ DOMAIN i = {"elements", "relations"}
                                /\ Gcp(ds)!Name(b) \in i.elements /\ links \subseteq i.relations
    <2>1. Gcp(ds)!Name(b) \in known /\ Gcp(ds)!Name(b) \in more
      OBVIOUS
    <2> HIDE DEF known, more, links
    <2> QED
      BY <2>1, GcPlusIs
  <1>4. Gcp(ds)!Role(b) \in full.elements
    <2>1. Gcp(ds)!Role(b) \in more
      OBVIOUS
    <2> HIDE DEF known, more, links
    <2> QED
      BY <2>1, GcPlusIs
  <1> HIDE DEF full, some
  <1>5. /\ excused \subseteq excused' /\ failures' \in 0..Projects[ds].MaxFailures
        /\ iam' \in {full, some}
        /\ b.role \in Projects[ds].Predefined =>
             Gcp(ds)!Role(b) \in iam'.elements \/ <<"roleOf", b.role>> \in excused'
        /\ \A r \in cache' : <<Gcp(ds)!NoPlace, "role", r>> \in iam'.elements
    <2>0. \A r \in cache : <<Gcp(ds)!NoPlace, "role", r>> \in iam.elements
      BY <1>2 DEF GcIInv, GcControl
    <2>1. CASE (b.role \notin Projects[ds].Predefined \/ b.role \in cache) /\ iam' = some /\ UNCHANGED cache /\
                 Gcp(ds)!Answers
      <3>1. b.role \in cache => Gcp(ds)!Role(b) \in iam.elements
        BY <2>0 DEF Gcp!Role
      <3> QED
        BY <1>3, <2>0, <2>1, <3>1 DEF Gcp!Answers, GcIInv, Gcp!TypeOK
    <2>2. CASE iam' = full /\ cache' = cache \union {b.role} /\ Gcp(ds)!Answers
      <3>1. Gcp(ds)!Role(b) = <<Gcp(ds)!NoPlace, "role", b.role>>
        BY DEF Gcp!Role
      <3> QED
        BY <1>3, <1>4, <2>0, <2>2, <3>1 DEF Gcp!Answers, GcIInv, Gcp!TypeOK
    <2>3. CASE iam' = some /\ UNCHANGED cache /\ Gcp(ds)!Fails(<<"roleOf", b.role>>)
      <3>1. failures' \in 0..Projects[ds].MaxFailures /\ excused \subseteq excused' /\
              <<"roleOf", b.role>> \in excused'
        BY <2>3, GcFailsBound DEF GcIInv
      <3> QED
        BY <1>3, <2>0, <2>3, <3>1
    <2> QED
      BY <2>1, <2>2, <2>3 DEF Gcp!AddBinding, full, some
  <1> HIDE DEF links
  <1>6. /\ iam.elements \subseteq iam'.elements /\ iam.relations \subseteq iam'.relations
        /\ DOMAIN iam' = {"elements", "relations"}
        /\ Gcp(ds)!Name(b) \in iam'.elements /\ links \subseteq iam'.relations
    BY <1>3, <1>5
  <1>7. GcBound(ds, b, iam)'
    BY <1>5, <1>6 DEF GcBound, links
  <1>8. Gcp(ds)!TypeOK'
    BY <1>1, <1>2, <1>5, <1>6 DEF GcIInv, Gcp!TypeOK
  <1>9. GcControl(ds)'
    BY <1>1, <1>2, <1>5 DEF GcIInv, GcControl
  <1>10. \A r, z \in steady : GcInIncluded(ds, r, z) /\ GcAsked(ds, 5, GcPos(pc), r)' =>
            GcAsked(ds, 5, GcPos(pc), r) \/ Gcp(ds)!Excused(z)' \/ GcZoneShown(ds, r, z, batch)'
    BY <1>1, <1>2 DEF GcAsked
  <1>11. \A g \in steady : g.kind = "group" /\ GcAsked(ds, 9, GcPos(pc), g)' =>
            GcAsked(ds, 9, GcPos(pc), g) \/ Gcp(ds)!Excused(g)' \/
              <<"members", Gcp(ds)!Name(g)>> \in excused' \/ GcMembersShown(ds, g, batch)'
    BY <1>1, <1>2 DEF GcAsked
  <1>12. \A c \in steady : c.kind = "binding" /\ GcDue(ds, GcPos(pc), c)' =>
            (GcDue(ds, GcPos(pc), c) /\ c \notin bindings \ bindings') \/ Gcp(ds)!Excused(c)' \/
              GcBound(ds, c, iam)' \/ c \in bindings'
    <2>1. \A c : GcDue(ds, GcPos(pc), c)' => GcDue(ds, GcPos(pc), c)
      BY <1>1 DEF GcDue, GcAsked
    <2> QED
      BY <1>1, <1>7, <2>1
  <1>13. \A p \in steady : GcWanted(ds, p) /\ GcIndex[p.kind] >= GcPos(pc) /\ GcIndex[p.kind] < GcPos(pc') =>
            GcShows(ds, p, IF p.kind \in Gcp(ds)!IAM THEN iam ELSE batch)'
    BY <1>1, <1>2, GcNothingPassed
  <1> QED
    BY <1>1, <1>2, <1>5, <1>6, <1>8, <1>9, <1>10, <1>11, <1>12, <1>13, GcForward

(* A policy of a bucket or service is not the project's.                   *)
LEMMA GcOfResource ==
    ASSUME NEW ds, NEW b, NEW r, Gcp(ds)!Name(r) = b.of, r.kind = "bucket" \/ r.kind = "cloudrun",
           b.kind = "binding"
    PROVE  /\ b.of # Gcp(ds)!Project
           /\ \A call \in {"bucketPolicies", "runPolicies"} :
                <<call>> \in Gcp(ds)!Needs(b) /\ <<call, Gcp(ds)!Name(r)>> \in Gcp(ds)!Needs(b)
           /\ <<"bucketPolicy", Gcp(ds)!Name(r)>> \in Gcp(ds)!Needs(b) /\
                <<"runPolicy", Gcp(ds)!Name(r)>> \in Gcp(ds)!Needs(b)
  <1>1. b.of # Gcp(ds)!Project
    BY DEF Gcp!Name, Gcp!Project
  <1> QED
    BY <1>1 DEF Gcp!Needs

LEMMA GcListResourcesIInv ==
    ASSUME NEW ds, Gcp(ds)!Parameters, GcIInv(ds), NEW kind, NEW call, Gcp(ds)!ListResources(kind,
           call),
           (kind = "bucket" /\ call = "bucketPolicies") \/ (kind = "cloudrun" /\ call = "runPolicies")
    PROVE  GcIInv(ds)'
  <1>1. /\ pc = call /\ bindings = {} /\ pc' = Gcp(ds)!In[call]
        /\ UNCHANGED <<live, changes, steady, bindings, cache, iam, batch, project>>
    BY DEF Gcp!ListResources, Gcp!project, Gcp!policies
  <1>2. /\ \/ kind = "bucket" /\ GcPos(pc) = 20 /\ GcPos(pc') = 21
           \/ kind = "cloudrun" /\ GcPos(pc) = 22 /\ GcPos(pc') = 23
        /\ pc # "idle" /\ pc' \in {"bucketPolicy", "runPolicy"} /\ GcPos(pc) \in Nat /\ GcPos(pc') \in Nat
    BY <1>1, GcPositions DEF Gcp!In
  <1>3. /\ excused \subseteq excused' /\ failures' \in 0..Projects[ds].MaxFailures
        /\ \A o \in steady : o.kind = kind =>
             o \in todo' \/ <<call>> \in excused' \/ <<call, Gcp(ds)!Name(o)>> \in excused'
    <2>1. CASE \E page : todo' = page /\ Gcp(ds)!AnswersPage(Gcp(ds)!Beyond(call, Gcp(ds)!Of(kind), page))
      <3>1. Gcp(ds)!AnswersPage(Gcp(ds)!Beyond(call, Gcp(ds)!Of(kind), todo'))
        BY <2>1
      <3> DEFINE beyond == Gcp(ds)!Beyond(call, Gcp(ds)!Of(kind), todo')
      <3>2. failures' \in 0..Projects[ds].MaxFailures /\ excused \subseteq excused' /\ beyond \subseteq excused'
        BY <3>1, GcAnswersPageIs DEF GcIInv
      <3>3. ASSUME NEW o \in steady, o.kind = kind
            PROVE  o \in todo' \/ <<call, Gcp(ds)!Name(o)>> \in excused'
        <4>1. o \in Gcp(ds)!Of(kind)
          BY <3>3 DEF Gcp!Of, GcIInv, Gcp!TypeOK
        <4>2. o \in todo' \/ <<call, Gcp(ds)!Name(o)>> \in beyond
          BY <4>1, GcBeyondIs
        <4> QED
          BY <3>2, <4>2
      <3> QED
        BY <3>2, <3>3
    <2>2. CASE UNCHANGED todo /\ Gcp(ds)!Fails(<<call>>)
      BY <2>2, GcFailsBound DEF GcIInv
    <2> QED
      BY <2>1, <2>2 DEF Gcp!ListResources
  <1>4. Gcp(ds)!TypeOK'
    BY <1>1, <1>2, <1>3 DEF GcIInv, Gcp!TypeOK
  <1>5. GcControl(ds)'
    BY <1>1, <1>2 DEF GcIInv, GcControl, GcCalls
  <1>6. \A o \in steady : GcWanted(ds, o) /\ GcIndex[o.kind] >= GcPos(pc) /\ GcIndex[o.kind] < GcPos(pc') =>
            GcShows(ds, o, IF o.kind \in Gcp(ds)!IAM THEN iam ELSE batch)'
    BY <1>2, GcNothingPassed
  <1>7. \A r, z \in steady : GcInIncluded(ds, r, z) /\ GcAsked(ds, 5, GcPos(pc), r)' =>
            GcAsked(ds, 5, GcPos(pc), r) \/ Gcp(ds)!Excused(z)' \/ GcZoneShown(ds, r, z, batch)'
    BY <1>2 DEF GcAsked
  <1>8. \A g \in steady : g.kind = "group" /\ GcAsked(ds, 9, GcPos(pc), g)' =>
            GcAsked(ds, 9, GcPos(pc), g) \/ Gcp(ds)!Excused(g)' \/
              <<"members", Gcp(ds)!Name(g)>> \in excused' \/ GcMembersShown(ds, g, batch)'
    BY <1>2 DEF GcAsked
  <1>9. \A b \in steady : b.kind = "binding" /\ GcDue(ds, GcPos(pc), b)' =>
            (GcDue(ds, GcPos(pc), b) /\ b \notin bindings \ bindings') \/ Gcp(ds)!Excused(b)' \/
              GcBound(ds, b, iam)' \/ b \in bindings'
    <2> SUFFICES ASSUME NEW b \in steady, b.kind = "binding", GcDue(ds, GcPos(pc), b)', ~GcDue(ds, GcPos(pc), b)
                 PROVE  Gcp(ds)!Excused(b)'
      BY <1>1
    <2>1. PICK r \in steady : /\ Gcp(ds)!Name(r) = b.of
                              /\ (r.kind = "bucket" /\ GcAsked(ds, 21, GcPos(pc), r)') \/
                                   (r.kind = "cloudrun" /\ GcAsked(ds, 23, GcPos(pc), r)')
      BY <1>1, <1>2 DEF GcDue
    <2>2. ~(r.kind = "bucket" /\ GcAsked(ds, 21, GcPos(pc), r)) /\
            ~(r.kind = "cloudrun" /\ GcAsked(ds, 23, GcPos(pc), r))
      BY <2>1 DEF GcDue
    <2>3. r.kind = kind /\ r \notin todo'
      BY <1>2, <2>1, <2>2 DEF GcAsked
    <2> QED
      BY <1>3, <2>1, <2>3, GcOfResource DEF Gcp!Excused
  <1>10. pc' # "idle"
    BY <1>2
  <1> QED
    BY <1>1, <1>2, <1>3, <1>4, <1>5, <1>6, <1>7, <1>8, <1>9, <1>10, GcForward

(* The policy of o is asked for: its bindings are to be gone through, or   *)
(* excused.                                                                *)
LEMMA GcPolicyAsked ==
    ASSUME NEW ds, Gcp(ds)!Parameters, GcIInv(ds), NEW o \in todo, pc = "bucketPolicy" \/ pc = "runPolicy",
           todo' = todo \ {o}, bindings \subseteq bindings', bindings' \subseteq Projects[ds].Resource,
           UNCHANGED <<live, changes, steady, pc, cache, iam, batch, project>>,
           excused \subseteq excused', failures' \in 0..Projects[ds].MaxFailures,
           \/ <<"bucketPolicy", Gcp(ds)!Name(o)>> \in excused' \/ <<"runPolicy", Gcp(ds)!Name(o)>> \in excused'
           \/ \A b \in steady : b.kind = "binding" /\ b.of = Gcp(ds)!Name(o) /\ o \in steady => b \in bindings'
    PROVE  GcIInv(ds)'
  <1>1. /\ pc \in {"bucketPolicy", "runPolicy"} /\ pc # "idle" /\ GcPos(pc) \in Nat /\ GcPos(pc') = GcPos(pc)
        /\ GcPos(pc) = 21 \/ GcPos(pc) = 23
    BY GcPositions
  <1>2. Gcp(ds)!TypeOK'
    BY <1>1 DEF GcIInv, Gcp!TypeOK
  <1>3. GcControl(ds)'
    BY <1>1 DEF GcIInv, GcControl, GcCalls
  <1>4. \A p \in steady : GcWanted(ds, p) /\ GcIndex[p.kind] >= GcPos(pc) /\ GcIndex[p.kind] < GcPos(pc') =>
            GcShows(ds, p, IF p.kind \in Gcp(ds)!IAM THEN iam ELSE batch)'
    BY <1>1, GcNothingPassed
  <1>5. \A r, z \in steady : GcInIncluded(ds, r, z) /\ GcAsked(ds, 5, GcPos(pc), r)' =>
            GcAsked(ds, 5, GcPos(pc), r) \/ Gcp(ds)!Excused(z)' \/ GcZoneShown(ds, r, z, batch)'
    BY <1>1 DEF GcAsked
  <1>6. \A g \in steady : g.kind = "group" /\ GcAsked(ds, 9, GcPos(pc), g)' =>
            GcAsked(ds, 9, GcPos(pc), g) \/ Gcp(ds)!Excused(g)' \/
              <<"members", Gcp(ds)!Name(g)>> \in excused' \/ GcMembersShown(ds, g, batch)'
    BY <1>1 DEF GcAsked
  <1>7. \A b \in steady : b.kind = "binding" /\ GcDue(ds, GcPos(pc), b)' =>
            (GcDue(ds, GcPos(pc), b) /\ b \notin bindings \ bindings') \/ Gcp(ds)!Excused(b)' \/
              GcBound(ds, b, iam)' \/ b \in bindings'
    <2> SUFFICES ASSUME NEW b \in steady, b.kind = "binding", GcDue(ds, GcPos(pc), b)', ~GcDue(ds, GcPos(pc), b)
                 PROVE  Gcp(ds)!Excused(b)' \/ b \in bindings'
      BY <1>1
    <2>1. PICK r \in steady : /\ Gcp(ds)!Name(r) = b.of
                              /\ (r.kind = "bucket" /\ GcAsked(ds, 21, GcPos(pc), r)') \/
                                   (r.kind = "cloudrun" /\ GcAsked(ds, 23, GcPos(pc), r)')
      BY <1>1 DEF GcDue
    <2>2. ~(r.kind = "bucket" /\ GcAsked(ds, 21, GcPos(pc), r)) /\
            ~(r.kind = "cloudrun" /\ GcAsked(ds, 23, GcPos(pc), r))
      BY <2>1 DEF GcDue
    <2>3. r = o
      BY <1>1, <2>1, <2>2 DEF GcAsked
    <2>4. {<<"bucketPolicy", Gcp(ds)!Name(o)>>, <<"runPolicy", Gcp(ds)!Name(o)>>} \subseteq Gcp(ds)!Needs(b)
      BY <2>1, <2>3, GcOfResource
    <2> QED
      BY <2>1, <2>3, <2>4 DEF Gcp!Excused
  <1> QED
    BY <1>1, <1>2, <1>3, <1>4, <1>5, <1>6, <1>7, GcForward

LEMMA GcGetBucketPolicyIInv ==
    ASSUME NEW ds, Gcp(ds)!Parameters, GcIInv(ds), NEW o \in todo, Gcp(ds)!GetBucketPolicy(o)
    PROVE  GcIInv(ds)'
  <1>1. /\ pc = "bucketPolicy" /\ bindings = {} /\ todo' = todo \ {o}
        /\ UNCHANGED <<live, changes, steady, pc, cache, iam, batch, project>>
    BY DEF Gcp!GetBucketPolicy, Gcp!project
  <1>2. /\ excused \subseteq excused' /\ failures' \in 0..Projects[ds].MaxFailures
        /\ bindings' \subseteq Projects[ds].Resource
        /\ \/ <<"bucketPolicy", Gcp(ds)!Name(o)>> \in excused'
           \/ \A b \in steady : b.kind = "binding" /\ b.of = Gcp(ds)!Name(o) /\ o \in steady => b \in bindings'
    <2>1. CASE bindings' = (IF o \in live THEN Gcp(ds)!BindingsOf(Gcp(ds)!Name(o)) ELSE {}) /\ Gcp(ds)!Answers
      BY <2>1 DEF Gcp!Answers, Gcp!BindingsOf, Gcp!Of, GcIInv, Gcp!TypeOK
    <2>2. CASE UNCHANGED bindings /\ Gcp(ds)!Fails(<<"bucketPolicy", Gcp(ds)!Name(o)>>)
      BY <2>2, GcFailsBound DEF GcIInv, Gcp!TypeOK
    <2> QED
      BY <2>1, <2>2 DEF Gcp!GetBucketPolicy
  <1> QED
    BY <1>1, <1>2, GcPolicyAsked

LEMMA GcGetRunPolicyIInv ==
    ASSUME NEW ds, Gcp(ds)!Parameters, GcIInv(ds), NEW o \in todo, Gcp(ds)!GetRunPolicy(o)
    PROVE  GcIInv(ds)'
  <1>1. /\ pc = "runPolicy" /\ todo' = todo \ {o} /\ UNCHANGED <<bindings, failures>>
        /\ UNCHANGED <<live, changes, steady, pc, cache, iam, batch, project>>
        /\ excused \subseteq excused' /\ <<"runPolicy", Gcp(ds)!Name(o)>> \in excused'
    BY DEF Gcp!GetRunPolicy, Gcp!project, Gcp!policies
  <1>2. bindings' \subseteq Projects[ds].Resource /\ failures' \in 0..Projects[ds].MaxFailures
    BY <1>1 DEF GcIInv, Gcp!TypeOK
  <1> QED
    BY <1>1, <1>2, GcPolicyAsked

LEMMA GcGotPoliciesIInv ==
    ASSUME NEW ds, Gcp(ds)!Parameters, GcIInv(ds), NEW call, NEW next, Gcp(ds)!GotPolicies(call, next),
           (call = "bucketPolicies" /\ next = "runPolicies") \/ (call = "runPolicies" /\ next = "identity")
    PROVE  GcIInv(ds)'
  <1>1. /\ pc = Gcp(ds)!In[call] /\ bindings = {} /\ todo = {} /\ pc' = next
        /\ UNCHANGED <<live, changes, steady, todo, bindings, cache, iam, batch, project, failures, excused>>
    BY DEF Gcp!GotPolicies, Gcp!project, Gcp!policies
  <1>2. /\ (GcPos(pc) = 21 /\ GcPos(pc') = 22) \/ (GcPos(pc) = 23 /\ GcPos(pc') = 24)
        /\ pc # "idle" /\ pc' # "idle" /\ pc' \in GcCalls /\ GcPos(pc) \in Nat /\ GcPos(pc') \in Nat
    BY <1>1, GcPositions DEF Gcp!In, GcCalls
  <1>3. Gcp(ds)!TypeOK' /\ GcControl(ds)'
    BY <1>1, <1>2 DEF GcIInv, Gcp!TypeOK, GcControl
  <1>4. GcKeeps(ds, 5) /\ GcKeeps(ds, 9) /\ GcKeeps(ds, 21) /\ GcKeeps(ds, 23) /\
          (GcPos(pc') >= 20 => GcPos(pc) >= 20)
    BY <1>1, <1>2 DEF GcKeeps, GcAsked
  <1>5. \A o \in steady : GcWanted(ds, o) /\ GcIndex[o.kind] >= GcPos(pc) /\ GcIndex[o.kind] < GcPos(pc') =>
            GcShows(ds, o, IF o.kind \in Gcp(ds)!IAM THEN iam ELSE batch)'
    BY <1>2, GcNothingPassed
  <1> QED
    BY <1>1, <1>2, <1>3, <1>4, <1>5, GcPlainStep

LEMMA GcPoliciesIInv ==
    ASSUME NEW ds, Gcp(ds)!Parameters, GcIInv(ds),
           Gcp(ds)!GetBucketIAMElements \/ Gcp(ds)!GetCloudRunIAMElements
    PROVE  GcIInv(ds)'
  BY GcListResourcesIInv, GcGetBucketPolicyIInv, GcGetRunPolicyIInv, GcGotPoliciesIInv
     DEF Gcp!GetBucketIAMElements, Gcp!GetCloudRunIAMElements

LEMMA GcGetGKEIdentityElementsIInv ==
    ASSUME NEW ds, Gcp(ds)!Parameters, GcIInv(ds), Gcp(ds)!GetGKEIdentityElements
    PROVE  GcIInv(ds)'
  <1>1. /\ pc = "identity" /\ pc' = "ship"
        /\ UNCHANGED <<live, changes, steady, todo, bindings, cache, batch, project>>
    BY DEF Gcp!GetGKEIdentityElements, Gcp!project
  <1>2. /\ GcPos(pc) = 24 /\ GcPos(pc') = 25 /\ pc # "idle" /\ pc' # "idle" /\ pc' \in GcCalls
    BY <1>1, GcPositions DEF GcCalls
  <1>3. /\ iam.elements \subseteq iam'.elements /\ iam.relations \subseteq iam'.relations
        /\ excused \subseteq excused' /\ failures' \in 0..Projects[ds].MaxFailures /\
             DOMAIN iam' = {"elements", "relations"}
    <2>1. CASE Gcp(ds)!Fails(<<"identity">>) /\ UNCHANGED iam
      BY <2>1, GcFailsBound DEF GcIInv, Gcp!TypeOK
    <2>2. CASE Gcp(ds)!Answers /\ \E e, r : iam' = Gcp(ds)!Plus(iam, e, r)
      BY <2>2, GcPlusIs DEF Gcp!Answers, GcIInv, Gcp!TypeOK
    <2> QED
      BY <2>1, <2>2 DEF Gcp!GetGKEIdentityElements
  <1>4. Gcp(ds)!TypeOK'
    BY <1>1, <1>2, <1>3 DEF GcIInv, Gcp!TypeOK
  <1>5. GcControl(ds)'
    <2>1. todo = {} /\ bindings = {} /\ \A r \in cache : <<Gcp(ds)!NoPlace, "role", r>> \in iam.elements
      BY <1>1, <1>2 DEF GcIInv, GcControl
    <2> QED
      BY <1>1, <1>2, <1>3, <2>1 DEF GcControl
  <1>6. GcKeeps(ds, 5) /\ GcKeeps(ds, 9) /\ GcKeeps(ds, 21) /\ GcKeeps(ds, 23) /\
          (GcPos(pc') >= 20 => GcPos(pc) >= 20)
    BY <1>2 DEF GcKeeps, GcAsked
  <1>7. \A o \in steady : GcWanted(ds, o) /\ GcIndex[o.kind] >= GcPos(pc) /\ GcIndex[o.kind] < GcPos(pc') =>
            GcShows(ds, o, IF o.kind \in Gcp(ds)!IAM THEN iam ELSE batch)'
    BY <1>2, GcNothingPassed
  <1>8. GcPos(pc) \in Nat /\ GcPos(pc') \in Nat
    BY <1>2
  <1> QED
    BY <1>1, <1>2, <1>3, <1>4, <1>5, <1>6, <1>7, <1>8, GcPlainStep

LEMMA GcShipIInv == ASSUME NEW ds, Gcp(ds)!Parameters, GcIInv(ds), Gcp(ds)!Ship PROVE GcIInv(ds)'
  <1>1. /\ pc = "ship" /\ pc' = "idle" /\ project' = Gcp(ds)!Plus(batch, iam.elements, iam.relations)
        /\ batch' = Gcp(ds)!Empty /\ iam' = Gcp(ds)!Empty
        /\ UNCHANGED <<live, changes, steady, todo, bindings, cache, failures, excused>>
    BY DEF Gcp!Ship, Gcp!project
  <1>2. GcPos(pc) = 25 /\ pc # "idle" /\ todo = {} /\ bindings = {} /\ pc' \in GcCalls
    BY <1>1, GcPositions DEF GcIInv, GcControl, GcCalls
  <1>3. /\ batch.elements \subseteq project'.elements /\ batch.relations \subseteq project'.relations
        /\ iam.elements \subseteq project'.elements /\ iam.relations \subseteq project'.relations
        /\ DOMAIN project' = {"elements", "relations"} /\ DOMAIN Gcp(ds)!Empty = {"elements", "relations"}
    BY <1>1, GcPlusIs DEF Gcp!Empty
  <1>4. Gcp(ds)!TypeOK' /\ GcControl(ds)'
    BY <1>1, <1>2, <1>3 DEF GcIInv, Gcp!TypeOK, GcControl
  <1>5. \A o : Gcp(ds)!Excused(o) => Gcp(ds)!Excused(o)'
    BY <1>1 DEF Gcp!Excused
  <1>6. GcListsHave(ds, 26, project, project)'
    <2> SUFFICES ASSUME NEW o \in steady, GcWanted(ds, o)
                 PROVE  GcShows(ds, o, project)'
      BY <1>1 DEF GcListsHave, GcWanted
    <2>1. GcIndex[o.kind] \in Nat /\ GcIndex[o.kind] \in {1, 2, 4, 6, 7, 8, 10, 11, 12, 13, 15, 17, 18}
      BY GcWantedIs
    <2>2. GcIndex[o.kind] < 25
      BY <2>1
    <2>3. GcShows(ds, o, batch) \/ GcShows(ds, o, iam)
      BY <1>2, <2>2 DEF GcIInv, GcGathered, GcListsHave
    <2> QED
      BY <1>3, <1>5, <2>3 DEF GcShows
  <1>7. GcZonesHave(ds, 26, project)'
    <2> SUFFICES ASSUME NEW r \in steady, NEW z \in steady, GcInIncluded(ds, r, z)
                 PROVE  Gcp(ds)!Excused(z)' \/ GcZoneShown(ds, r, z, project)'
      BY <1>1 DEF GcZonesHave, GcInIncluded
    <2>1. Gcp(ds)!Excused(z) \/ GcZoneShown(ds, r, z, batch)
      BY <1>2 DEF GcIInv, GcGathered, GcZonesHave, GcAsked
    <2> QED
      BY <1>3, <1>5, <2>1 DEF GcZoneShown
  <1>8. GcMembersHave(ds, 26, project)'
    <2> SUFFICES ASSUME NEW g \in steady, g.kind = "group"
                 PROVE  Gcp(ds)!Excused(g)' \/ <<"members", Gcp(ds)!Name(g)>> \in excused' \/
                          GcMembersShown(ds, g, project)'
      BY <1>1 DEF GcMembersHave
    <2>1. Gcp(ds)!Excused(g) \/ <<"members", Gcp(ds)!Name(g)>> \in excused \/ GcMembersShown(ds, g, batch)
      BY <1>2 DEF GcIInv, GcGathered, GcMembersHave, GcAsked
    <2> QED
      BY <1>1, <1>3, <1>5, <2>1 DEF GcMembersShown
  <1>9. GcBindingsHave(ds, 26, project)'
    <2> SUFFICES ASSUME NEW b \in steady, b.kind = "binding", GcDue(ds, 26, b)'
                 PROVE  Gcp(ds)!Excused(b)' \/ GcBound(ds, b, project)'
      BY <1>1 DEF GcBindingsHave
    <2>1. GcDue(ds, 25, b)
      BY <1>1 DEF GcDue, GcAsked
    <2>2. Gcp(ds)!Excused(b) \/ GcBound(ds, b, iam)
      BY <1>2, <2>1 DEF GcIInv, GcGathered, GcBindingsHave
    <2> QED
      BY <1>1, <1>3, <1>5, <2>2 DEF GcBound
  <1>10. GcGathered(ds)' /\ GcShipped(ds)'
    BY <1>1, <1>6, <1>7, <1>8, <1>9 DEF GcGathered, GcShipped
  <1> QED
    BY <1>4, <1>10 DEF GcIInv
-----------------------------------------------------------------------------
LEMMA GcTickIInv == ASSUME NEW ds, Gcp(ds)!Parameters, GcIInv(ds), Gcp(ds)!Tick PROVE GcIInv(ds)'
  <1>1. /\ pc = "idle" /\ pc' = "bucket" /\ batch' = Gcp(ds)!Empty /\ cache' = {} /\ iam' = Gcp(ds)!Empty
        /\ steady' = live /\ excused' = {}
        /\ UNCHANGED <<live, changes, todo, bindings, project, failures>>
    BY DEF Gcp!Tick
  <1>2. todo = {} /\ bindings = {} /\ GcPos(pc)' = 1 /\ pc' \in GcCalls /\ pc' # "idle"
    BY <1>1, GcPositions DEF GcIInv, Gcp!TypeOK, GcCalls
  <1>3. DOMAIN Gcp(ds)!Empty = {"elements", "relations"}
    BY DEF Gcp!Empty
  <1>4. Gcp(ds)!TypeOK' /\ GcControl(ds)'
    BY <1>1, <1>2, <1>3 DEF GcIInv, Gcp!TypeOK, GcControl
  <1>5. GcListsHave(ds, GcPos(pc), batch, iam)'
    <2> SUFFICES ASSUME NEW o, GcWanted(ds, o), GcIndex[o.kind] < 1 PROVE FALSE
      BY <1>2 DEF GcListsHave, GcWanted
    <2>1. GcIndex[o.kind] \in Nat /\ GcIndex[o.kind] \in {1, 2, 4, 6, 7, 8, 10, 11, 12, 13, 15, 17, 18}
      BY GcWantedIs
    <2> QED
      BY <2>1
  <1>6. GcZonesHave(ds, GcPos(pc), batch)' /\ GcMembersHave(ds, GcPos(pc), batch)'
    BY <1>2 DEF GcZonesHave, GcMembersHave, GcAsked
  <1>7. GcBindingsHave(ds, GcPos(pc), iam)'
    BY <1>2 DEF GcBindingsHave, GcDue, GcAsked
  <1>8. GcGathered(ds)' /\ GcShipped(ds)'
    BY <1>2, <1>5, <1>6, <1>7 DEF GcGathered, GcShipped, Gcp!Complete
  <1> QED
    BY <1>4, <1>8 DEF GcIInv

(* A resource that comes or goes stays no longer, and nothing is due for   *)
(* the others that was not.                                                *)
LEMMA GcChangeIInv ==
    ASSUME NEW ds, Gcp(ds)!Parameters, GcIInv(ds), NEW o \in Projects[ds].Resource, Gcp(ds)!Change(o)
    PROVE  GcIInv(ds)'
  <1>1. /\ changes < Projects[ds].MaxChanges /\ changes' = changes + 1
        /\ live' = (live \ {o}) \union ({o} \ live) /\ steady' = steady \ {o}
        /\ UNCHANGED <<pc, todo, bindings, cache, iam, batch, project, failures, excused>>
    BY DEF Gcp!Change, Gcp!policies
  <1>2. Gcp(ds)!TypeOK' /\ GcControl(ds)'
    <2>1. live' \subseteq Projects[ds].Resource /\ steady' \subseteq live'
      BY <1>1 DEF GcIInv, Gcp!TypeOK
    <2>2. changes' \in 0..Projects[ds].MaxChanges
      BY <1>1 DEF GcIInv, Gcp!TypeOK, Gcp!Parameters
    <2> QED
      BY <1>1, <2>1, <2>2 DEF GcIInv, Gcp!TypeOK, GcControl
  <1>3. \A x : Gcp(ds)!Excused(x)' = Gcp(ds)!Excused(x)
    BY <1>1 DEF Gcp!Excused
  <1>4. \A p, b : GcDue(ds, p, b)' => GcDue(ds, p, b)
    BY <1>1 DEF GcDue, GcAsked
  <1>5. \A p, b, i : GcListsHave(ds, p, b, i) => GcListsHave(ds, p, b, i)'
    BY <1>1, <1>3 DEF GcListsHave, GcWanted, GcShows
  <1>6. \A p, b : GcZonesHave(ds, p, b) => GcZonesHave(ds, p, b)'
    BY <1>1, <1>3 DEF GcZonesHave, GcInIncluded, GcAsked, GcZoneShown
  <1>7. \A p, b : GcMembersHave(ds, p, b) => GcMembersHave(ds, p, b)'
    BY <1>1, <1>3 DEF GcMembersHave, GcAsked, GcMembersShown
  <1>8. \A p, i : GcBindingsHave(ds, p, i) => GcBindingsHave(ds, p, i)'
    BY <1>1, <1>3, <1>4 DEF GcBindingsHave, GcBound
  <1>9. GcGathered(ds)' /\ GcShipped(ds)'
    BY <1>1, <1>5, <1>6, <1>7, <1>8 DEF GcIInv, GcGathered, GcShipped, Gcp!Complete
  <1> QED
    BY <1>2, <1>9 DEF GcIInv

LEMMA GcInitIInv == ASSUME NEW ds, Gcp(ds)!Parameters, Gcp(ds)!Init PROVE GcIInv(ds)
  <1>1. Gcp(ds)!TypeOK
    BY DEF Gcp!Init, Gcp!TypeOK, Gcp!Parameters, Gcp!Empty
  <1>2. GcControl(ds)
    BY DEF Gcp!Init, GcControl, GcCalls
  <1>3. GcGathered(ds) /\ GcShipped(ds)
    BY DEF Gcp!Init, GcGathered, GcShipped, Gcp!Complete
  <1> QED
    BY <1>1, <1>2, <1>3 DEF GcIInv
-----------------------------------------------------------------------------
LEMMA GcListsIInv ==
    ASSUME NEW ds, Gcp(ds)!Parameters, GcIInv(ds),
           \/ Gcp(ds)!GetBuckets \/ Gcp(ds)!GetCloudRuns \/ Gcp(ds)!GetVMInstances \/ Gcp(ds)!GetNodeGroups \/
                Gcp(ds)!GetDisks
           \/ Gcp(ds)!GetNetworks \/ Gcp(ds)!GetSubNetworks \/ Gcp(ds)!GetSqlInstances
    PROVE  GcIInv(ds)'
  <1>1. CASE Gcp(ds)!GetBuckets
    BY <1>1, GcListIInv DEF Gcp!GetBuckets, GcListings
  <1>2. CASE Gcp(ds)!GetCloudRuns
    BY <1>2, GcListIInv DEF Gcp!GetCloudRuns, GcListings
  <1>3. CASE Gcp(ds)!GetVMInstances
    BY <1>3, GcListIInv DEF Gcp!GetVMInstances, GcListings
  <1>4. CASE Gcp(ds)!GetNodeGroups
    BY <1>4, GcListIInv DEF Gcp!GetNodeGroups, GcListings
  <1>5. CASE Gcp(ds)!GetDisks
    BY <1>5, GcListIInv DEF Gcp!GetDisks, GcListings
  <1>6. CASE Gcp(ds)!GetNetworks
    BY <1>6, GcListIInv DEF Gcp!GetNetworks, GcListings
  <1>7. CASE Gcp(ds)!GetSubNetworks
    BY <1>7, GcListIInv DEF Gcp!GetSubNetworks, GcListings
  <1>8. CASE Gcp(ds)!GetSqlInstances
    BY <1>8, GcListIInv DEF Gcp!GetSqlInstances, GcListings
  <1> QED
    BY <1>1, <1>2, <1>3, <1>4, <1>5, <1>6, <1>7, <1>8

LEMMA GcStepIInv == ASSUME NEW ds, Gcp(ds)!Parameters, GcIInv(ds), Gcp(ds)!CrawlStep PROVE GcIInv(ds)'
  <1>1. CASE Gcp(ds)!Looked("region", "instance") \/ Gcp(ds)!Looked("group", "disk") \/
               Gcp(ds)!Looked("cluster", "sql")
    BY <1>1, GcLookedIInv
  <1>2. CASE Gcp(ds)!GetServiceAccounts \/ Gcp(ds)!GetCustomRoles
    BY <1>2, GcListForIAMIInv DEF Gcp!GetServiceAccounts, Gcp!GetCustomRoles
  <1>3. CASE \E o \in todo : Gcp(ds)!GetZones(o) \/ Gcp(ds)!GetGroupMembers(o) \/ Gcp(ds)!GetPoolMembers(o)
    BY <1>3, GcGetZonesIInv, GcGetGroupMembersIInv, GcGetPoolMembersIInv
  <1>4. CASE \E b \in bindings : Gcp(ds)!AddBinding(b)
    BY <1>4, GcAddBindingIInv
  <1>5. CASE Gcp(ds)!GetLocations \/ Gcp(ds)!GetInstanceGroups \/ Gcp(ds)!GetGKEClusters \/
               Gcp(ds)!GetComputeElems
    BY <1>5, GcGetLocationsIInv, GcGetInstanceGroupsIInv, GcGetGKEClustersIInv, GcGetComputeElemsIInv
  <1>6. CASE Gcp(ds)!GetProject \/ Gcp(ds)!GetProjectPolicy \/ Gcp(ds)!GetGKEIdentityElements \/
               Gcp(ds)!Ship \/ Gcp(ds)!Tick
    BY <1>6, GcGetProjectIInv, GcGetProjectPolicyIInv, GcGetGKEIdentityElementsIInv, GcShipIInv,
       GcTickIInv
  <1> QED
    BY <1>1, <1>2, <1>3, <1>4, <1>5, <1>6, GcListsIInv, GcPoliciesIInv DEF Gcp!CrawlStep

LEMMA GcSame == ASSUME NEW ds, GcIInv(ds), UNCHANGED Gcp(ds)!vars PROVE GcIInv(ds)'
  <1>1. UNCHANGED <<live, changes, steady, pc, todo, bindings, cache, iam, batch, project, failures, excused>>
    BY DEF Gcp!vars, Gcp!project, Gcp!policies
  <1>2. \A x : Gcp(ds)!Excused(x)' = Gcp(ds)!Excused(x)
    BY <1>1 DEF Gcp!Excused
  <1>3. \A p, b : GcDue(ds, p, b)' = GcDue(ds, p, b)
    BY <1>1 DEF GcDue, GcAsked
  <1>4. \A p, b, i : GcListsHave(ds, p, b, i) => GcListsHave(ds, p, b, i)'
    BY <1>1, <1>2 DEF GcListsHave, GcWanted, GcShows
  <1>5. \A p, b : GcZonesHave(ds, p, b) => GcZonesHave(ds, p, b)'
    BY <1>1, <1>2 DEF GcZonesHave, GcInIncluded, GcAsked, GcZoneShown
  <1>6. \A p, b : GcMembersHave(ds, p, b) => GcMembersHave(ds, p, b)'
    BY <1>1, <1>2 DEF GcMembersHave, GcAsked, GcMembersShown
  <1>7. \A p, i : GcBindingsHave(ds, p, i) => GcBindingsHave(ds, p, i)'
    BY <1>1, <1>2, <1>3 DEF GcBindingsHave, GcBound
  <1>8. Gcp(ds)!TypeOK' /\ GcControl(ds)'
    BY <1>1 DEF GcIInv, Gcp!TypeOK, GcControl
  <1>9. GcGathered(ds)' /\ GcShipped(ds)'
    BY <1>1, <1>4, <1>5, <1>6, <1>7 DEF GcIInv, GcGathered, GcShipped, Gcp!Complete
  <1> QED
    BY <1>8, <1>9 DEF GcIInv
-----------------------------------------------------------------------------
(* What the batch of a crawl that is over has of a resource that stayed.   *)
LEMMA GcListedIs ==
    ASSUME NEW ds, Gcp(ds)!Parameters, GcIInv(ds), Gcp(ds)!Complete, NEW o \in Projects[ds].Resource,
           Gcp(ds)!Listed(o)
    PROVE  /\ o.kind \notin {"zone", "binding"} =>
                Gcp(ds)!Elements(o) \subseteq project.elements /\ Gcp(ds)!Links(o) \subseteq project.relations
           /\ o.kind = "zone" => Gcp(ds)!Name(o) \in project.elements /\
                <<Gcp(ds)!Region(o.region), Gcp(ds)!Name(o)>> \in project.relations
           /\ o.kind = "binding" => GcBound(ds, o, project)
           /\ o.kind = "group" /\ <<"members", Gcp(ds)!Name(o)>> \notin excused =>
                GcMembersShown(ds, o, project)
  <1>1. o \in steady /\ ~Gcp(ds)!Excused(o)
    BY DEF Gcp!Listed
  <1>2. ASSUME o.kind \notin {"zone", "binding"}
        PROVE  Gcp(ds)!Elements(o) \subseteq project.elements /\ Gcp(ds)!Links(o) \subseteq project.relations
    <2>1. GcWanted(ds, o)
      BY <1>2 DEF GcWanted, Gcp!Listed, Gcp!Parameters
    <2>2. GcIndex[o.kind] \in Nat /\ GcIndex[o.kind] \in {1, 2, 4, 6, 7, 8, 10, 11, 12, 13, 15, 17, 18}
      BY <2>1, GcWantedIs
    <2>3. GcIndex[o.kind] < 26
      BY <2>2
    <2>4. GcShows(ds, o, project)
      BY <1>1, <2>1, <2>3 DEF GcIInv, GcShipped, GcListsHave
    <2> QED
      BY <1>1, <2>4 DEF GcShows
  <1>3. ASSUME o.kind = "zone"
        PROVE  Gcp(ds)!Name(o) \in project.elements /\
                 <<Gcp(ds)!Region(o.region), Gcp(ds)!Name(o)>> \in project.relations
    <2>1. PICK r \in steady : Gcp(ds)!Name(r) = Gcp(ds)!Region(o.region)
      BY <1>3 DEF Gcp!Listed
    <2>2. r.kind = "region" /\ r.name = o.region
      BY <2>1 DEF Gcp!Name, Gcp!Region
    <2>3. GcInIncluded(ds, r, o)
      BY <1>3, <2>2 DEF GcInIncluded, Gcp!Listed
    <2>4. GcAsked(ds, 5, 26, r)
      BY DEF GcAsked
    <2>5. GcZoneShown(ds, r, o, project)
      BY <1>1, <2>3, <2>4 DEF GcIInv, GcShipped, GcZonesHave
    <2> QED
      BY <2>1, <2>5 DEF GcZoneShown
  <1>4. ASSUME o.kind = "binding"
        PROVE  GcBound(ds, o, project)
    <2>1. GcDue(ds, 26, o)
      <3>1. CASE o.of = Gcp(ds)!Project
        BY <3>1 DEF GcDue
      <3>2. CASE o.of # Gcp(ds)!Project
        <4>1. PICK r \in steady : Gcp(ds)!Name(r) = o.of
          BY <1>4, <3>2 DEF Gcp!Listed
        <4>2. Gcp(ds)!Name(r)[2] = r.kind
          BY DEF Gcp!Name
        <4>3. r.kind = "bucket" \/ r.kind = "cloudrun"
          BY <1>4, <3>2, <4>1, <4>2 DEF Gcp!Parameters
        <4>4. GcAsked(ds, 21, 26, r) /\ GcAsked(ds, 23, 26, r)
          BY DEF GcAsked
        <4> QED
          BY <4>1, <4>3, <4>4 DEF GcDue
      <3> QED
        BY <3>1, <3>2
    <2>2. bindings = {}
      BY DEF GcIInv, Gcp!TypeOK, Gcp!Complete
    <2> QED
      BY <1>1, <1>4, <2>1, <2>2 DEF GcIInv, GcShipped, GcBindingsHave
  <1>5. ASSUME o.kind = "group", <<"members", Gcp(ds)!Name(o)>> \notin excused
        PROVE  GcMembersShown(ds, o, project)
    <2>1. GcAsked(ds, 9, 26, o)
      BY DEF GcAsked
    <2> QED
      BY <1>1, <1>5, <2>1 DEF GcIInv, GcShipped, GcMembersHave
  <1> QED
    BY <1>2, <1>3, <1>4, <1>5

LEMMA GcLocal == ASSUME NEW ds, Gcp(ds)!Parameters, GcIInv(ds) PROVE Gcp(ds)!FailureIsLocal
  <1> SUFFICES ASSUME Gcp(ds)!Complete, NEW o \in Projects[ds].Resource,
                      Gcp(ds)!Listed(o) PROVE Gcp(ds)!Elements(o) \subseteq project.elements
    BY DEF Gcp!FailureIsLocal
  <1>1. CASE o.kind \notin {"zone", "binding"}
    BY <1>1, GcListedIs
  <1>2. CASE o.kind = "zone" \/ o.kind = "binding"
    <2>1. Gcp(ds)!Elements(o) = {Gcp(ds)!Name(o)}
      BY <1>2 DEF Gcp!Elements
    <2>2. Gcp(ds)!Name(o) \in project.elements
      BY <1>2, GcListedIs DEF GcBound
    <2> QED
      BY <2>1, <2>2
  <1> QED
    BY <1>1, <1>2

LEMMA GcRoles == ASSUME NEW ds, Gcp(ds)!Parameters, GcIInv(ds) PROVE Gcp(ds)!RolesShown
  <1> SUFFICES ASSUME Gcp(ds)!Complete, NEW b \in steady, b.kind = "binding", Gcp(ds)!Listed(b),
                      b.role \in Projects[ds].Predefined
               PROVE  Gcp(ds)!Role(b) \in project.elements \/ <<"roleOf", b.role>> \in excused
    BY DEF Gcp!RolesShown
  <1>1. b \in Projects[ds].Resource
    BY DEF GcIInv, Gcp!TypeOK
  <1> QED
    BY <1>1, GcListedIs DEF GcBound

(* A resource that is in the batch has the links that its list gives it.   *)
LEMMA GcLinkOf ==
    ASSUME NEW ds, Gcp(ds)!Parameters, GcIInv(ds), Gcp(ds)!Complete, NEW o \in Projects[ds].Resource,
           Gcp(ds)!Listed(o), o.kind \notin {"zone", "binding"}
    PROVE  \A l \in Gcp(ds)!Links(o) : l \in project.relations
  BY GcListedIs

LEMMA GcLinked == ASSUME NEW ds, Gcp(ds)!Parameters, GcIInv(ds) PROVE Gcp(ds)!LinksShown
  <1> SUFFICES ASSUME Gcp(ds)!Complete, NEW o \in Projects[ds].Resource, NEW x \in Projects[ds].Resource,
                      Gcp(ds)!Listed(o), Gcp(ds)!Listed(x), Gcp(ds)!Belongs(o, x)
               PROVE  <<Gcp(ds)!Name(o), Gcp(ds)!Name(x)>> \in project.relations
    BY DEF Gcp!LinksShown
  <1>1. CASE o.kind = "zone" /\ x.kind \in {"instance", "group", "disk"} /\ x.place = o.name
    <2>1. Gcp(ds)!Name(o) = Gcp(ds)!Zone(Gcp(ds)!Place(x))
      BY <1>1 DEF Gcp!Name, Gcp!Place, Gcp!Zone, Gcp!Parameters
    <2>2. <<Gcp(ds)!Zone(Gcp(ds)!Place(x)), Gcp(ds)!Name(x)>> \in Gcp(ds)!Links(x)
      BY <1>1 DEF Gcp!Links, Gcp!InZone
    <2> QED
      BY <1>1, <2>1, <2>2, GcLinkOf
  <1>2. CASE o.kind = "region" /\ x.kind \in {"bucket", "subnet"} /\ x.place = o.name
    <2>1. Gcp(ds)!Name(o) = Gcp(ds)!Region(x.place)
      BY <1>2 DEF Gcp!Name, Gcp!Place, Gcp!Region, Gcp!Parameters
    <2>2. <<Gcp(ds)!Region(x.place), Gcp(ds)!Name(x)>> \in Gcp(ds)!Links(x)
      BY <1>2 DEF Gcp!Links, Gcp!InRegion
    <2> QED
      BY <1>2, <2>1, <2>2, GcLinkOf
  <1>3. CASE o.kind = "region" /\ x.kind = "zone" /\ x.region = o.name
    <2>1. Gcp(ds)!Name(o) = Gcp(ds)!Region(x.region)
      BY <1>3 DEF Gcp!Name, Gcp!Place, Gcp!Region, Gcp!Parameters
    <2> QED
      BY <1>3, <2>1, GcListedIs
  <1>4. CASE o.kind = "region" /\ x.kind = "cluster" /\ x.place = o.name
    <2>1. Gcp(ds)!Name(o) = Gcp(ds)!Region(x.zone)
      BY <1>4 DEF Gcp!Name, Gcp!Place, Gcp!Region, Gcp!Parameters
    <2>2. <<Gcp(ds)!Region(x.zone), Gcp(ds)!Name(x)>> \in Gcp(ds)!Links(x)
      BY <1>4 DEF Gcp!Links, Gcp!ClusterLinks
    <2> QED
      BY <1>4, <2>1, <2>2, GcLinkOf
  <1>5. CASE o.kind = "subnet" /\ x.kind = "cluster" /\ <<o.place, o.name>> = <<x.place, x.subnet>>
    <2>1. Gcp(ds)!Name(o) = Gcp(ds)!Subnet(x.zone, x.subnet)
      BY <1>5 DEF Gcp!Name, Gcp!Place, Gcp!Subnet, Gcp!Parameters
    <2>2. <<Gcp(ds)!Subnet(x.zone, x.subnet), Gcp(ds)!Name(x)>> \in Gcp(ds)!Links(x)
      BY <1>5 DEF Gcp!Links, Gcp!ClusterLinks
    <2> QED
      BY <1>5, <2>1, <2>2, GcLinkOf
  <1>6. CASE o.kind = "network" /\ x.kind = "cluster" /\ x.network = o.name
    <2>1. Gcp(ds)!Name(o) = Gcp(ds)!Network(x.network)
      BY <1>6 DEF Gcp!Name, Gcp!Place, Gcp!Network, Gcp!Parameters
    <2>2. <<Gcp(ds)!Network(x.network), Gcp(ds)!Name(x)>> \in Gcp(ds)!Links(x)
      BY <1>6 DEF Gcp!Links, Gcp!ClusterLinks
    <2> QED
      BY <1>6, <2>1, <2>2, GcLinkOf
  <1>7. CASE o.kind = "network" /\ x.kind = "sql" /\ o.name \in x.network
    <2>1. Gcp(ds)!Name(o) = Gcp(ds)!Network(o.name)
      BY <1>7 DEF Gcp!Name, Gcp!Place, Gcp!Network, Gcp!Parameters
    <2>2. <<Gcp(ds)!Network(o.name), Gcp(ds)!Name(x)>> \in Gcp(ds)!Links(x)
      BY <1>7 DEF Gcp!Links, Gcp!SqlNetwork
    <2> QED
      BY <1>7, <2>1, <2>2, GcLinkOf
  <1>8. CASE o.kind = "network" /\ x.kind = "subnet" /\ <<x.place, x.name>> \in o.subnets
    <2>1. Gcp(ds)!Name(x) = Gcp(ds)!Subnet(x.place, x.name)
      BY <1>8 DEF Gcp!Name, Gcp!Place, Gcp!Subnet
    <2>2. <<Gcp(ds)!Name(o), Gcp(ds)!Subnet(x.place, x.name)>> \in Gcp(ds)!Links(o)
      BY <1>8 DEF Gcp!Links, Gcp!WithSubnets
    <2> QED
      BY <1>8, <2>1, <2>2, GcLinkOf
  <1>9. CASE o.kind = "instance" /\ x.kind = "disk" /\ x.place = o.place /\ x.name \in o.disks
    <2>1. Gcp(ds)!Name(x) = <<o.place, "disk", x.name>>
      BY <1>9 DEF Gcp!Name, Gcp!Place
    <2>2. <<Gcp(ds)!Name(o), <<o.place, "disk", x.name>>>> \in Gcp(ds)!Links(o)
      BY <1>9 DEF Gcp!Links, Gcp!WithDisks
    <2> QED
      BY <1>9, <2>1, <2>2, GcLinkOf
  <1>10. CASE /\ o.kind = "group" /\ x.kind = "instance" /\ x.place = o.place /\ x.name \in o.members
              /\ {<<"members", Gcp(ds)!Name(o)>>, <<"members", Gcp(ds)!Name(o), x.name>>} \intersect excused = {}
    <2>1. Gcp(ds)!Name(x) = <<o.place, "instance", x.name>>
      BY <1>10 DEF Gcp!Name, Gcp!Place
    <2>2. <<Gcp(ds)!Name(o), <<o.place, "instance", x.name>>>> \in project.relations
      BY <1>10, GcListedIs DEF GcMembersShown
    <2> QED
      BY <2>1, <2>2
  <1>11. CASE x.kind = "binding" /\ x.of = Gcp(ds)!Name(o)
    <2>1. <<x.of, Gcp(ds)!Name(x)>> \in Gcp(ds)!BindingLinks(x)
      BY DEF Gcp!BindingLinks
    <2>2. Gcp(ds)!BindingLinks(x) \subseteq project.relations
      BY <1>11, GcListedIs DEF GcBound
    <2> QED
      BY <1>11, <2>1, <2>2
  <1> QED
    BY <1>1, <1>2, <1>3, <1>4, <1>5, <1>6, <1>7, <1>8, <1>9, <1>10, <1>11 DEF Gcp!Belongs

LEMMA GcPromised ==
    ASSUME NEW ds, Gcp(ds)!Parameters, GcIInv(ds)
    PROVE  Gcp(ds)!TypeOK /\ Gcp(ds)!FailureIsLocal /\ Gcp(ds)!LinksShown /\ Gcp(ds)!RolesShown
  BY GcLocal, GcRoles, GcLinked DEF GcIInv
-----------------------------------------------------------------------------
(* The three together: one of them runs, for what it is set to.            *)
IInv ==
    /\ \A c \in DOMAIN Clusters : setting = c => KuIInv(c)
    /\ \A p \in DOMAIN Projects : setting = p => GcIInv(p)
    /\ \A l \in DOMAIN FlowLogs : setting = l => LoIInv(l)

LEMMA Unchanged ==
    ASSUME NEW ds, UNCHANGED vars
    PROVE  UNCHANGED Kube(ds)!vars /\ UNCHANGED Gcp(ds)!vars /\ UNCHANGED Logs(ds)!vars
  <1>1. UNCHANGED <<live, changes, pc, batch, todo, failures, steady, excused>>
    BY DEF vars, common
  <1>2. UNCHANGED <<nodeNames, global, namespaces, current, charts, legacyFailed, sent>>
    BY DEF vars, ofKube
  <1>3. UNCHANGED <<bindings, cache, iam, project>>
    BY DEF vars, ofGcp
  <1>4. UNCHANGED <<now, tick, time, arrived, owner, internalIDMapper, relations, flows, owned,
                    listings, missed>>
    BY DEF vars, ofLogs
  <1>5. UNCHANGED Kube(ds)!vars
    BY <1>1, <1>2 DEF Kube!vars, Kube!cluster, Kube!wide, Kube!ghosts
  <1>6. UNCHANGED Gcp(ds)!vars
    BY <1>1, <1>3 DEF Gcp!vars, Gcp!project, Gcp!policies
  <1>7. UNCHANGED Logs(ds)!vars
    BY <1>1, <1>4 DEF Logs!vars, Logs!logging, Logs!address
  <1> QED
    BY <1>5, <1>6, <1>7

LEMMA SameIInv == ASSUME IInv, UNCHANGED vars PROVE IInv'
  <1>1. setting' = setting
    BY DEF vars
  <1>2. ASSUME NEW c \in DOMAIN Clusters, setting = c PROVE KuIInv(c)'
    BY <1>2, Unchanged, KuSame DEF IInv
  <1>3. ASSUME NEW p \in DOMAIN Projects, setting = p PROVE GcIInv(p)'
    BY <1>3, Unchanged, GcSame DEF IInv
  <1>4. ASSUME NEW l \in DOMAIN FlowLogs, setting = l PROVE LoIInv(l)'
    BY <1>4, Unchanged, LoSame DEF IInv
  <1> QED
    BY <1>1, <1>2, <1>3, <1>4 DEF IInv

(* What is crawled is a cluster, a project or logs, and only one of them.  *)
LEMMA Apart ==
    ASSUME NEW c, NEW p, NEW l
    PROVE  /\ c \in DOMAIN Clusters /\ p \in DOMAIN Projects => c # p
           /\ c \in DOMAIN Clusters /\ l \in DOMAIN FlowLogs => c # l
           /\ p \in DOMAIN Projects /\ l \in DOMAIN FlowLogs => p # l
  BY PlatformsAssumption

LEMMA InitIInv == ASSUME Init PROVE IInv
  <1>1. CASE \E c \in DOMAIN Clusters : setting = c /\ Kube(c)!Init
    BY <1>1, Apart, PlatformsAssumption, KuInitIInv DEF IInv
  <1>2. CASE \E p \in DOMAIN Projects : setting = p /\ Gcp(p)!Init
    BY <1>2, Apart, PlatformsAssumption, GcInitIInv DEF IInv
  <1>3. CASE \E l \in DOMAIN FlowLogs : setting = l /\ Logs(l)!Init
    BY <1>3, Apart, PlatformsAssumption, LoInitIInv DEF IInv
  <1> QED
    BY <1>1, <1>2, <1>3 DEF Init

LEMMA NextIInv == ASSUME IInv, Next PROVE IInv'
  <1>1. ASSUME NEW c \in DOMAIN Clusters, setting = c, setting' = setting,
               Kube(c)!CrawlStep \/ \E o \in Clusters[c].Object : Kube(c)!Change(o)
        PROVE  IInv'
    <2>1. Kube(c)!Parameters /\ KuIInv(c)
      BY <1>1, PlatformsAssumption DEF IInv
    <2>2. KuIInv(c)'
      BY <1>1, <2>1, KuStepIInv, KuChangeIInv
    <2> QED
      BY <1>1, <2>2, Apart DEF IInv
  <1>2. ASSUME NEW p \in DOMAIN Projects, setting = p, setting' = setting,
               Gcp(p)!CrawlStep \/ \E o \in Projects[p].Resource : Gcp(p)!Change(o)
        PROVE  IInv'
    <2>1. Gcp(p)!Parameters /\ GcIInv(p)
      BY <1>2, PlatformsAssumption DEF IInv
    <2>2. GcIInv(p)'
      BY <1>2, <2>1, GcStepIInv, GcChangeIInv
    <2> QED
      BY <1>2, <2>2, Apart DEF IInv
  <1>3. ASSUME NEW l \in DOMAIN FlowLogs, setting = l, setting' = setting,
               Logs(l)!CrawlStep \/ Logs(l)!World
        PROVE  IInv'
    <2>1. Logs(l)!Parameters /\ LoIInv(l)
      BY <1>3, PlatformsAssumption DEF IInv
    <2>2. Logs(l)!Next
      BY <1>3 DEF Logs!Next
    <2>3. LoIInv(l)'
      BY <2>1, <2>2, LoStepIInv
    <2> QED
      BY <1>3, <2>3, Apart DEF IInv
  <1>4. CASE End
    BY <1>4, SameIInv DEF End
  <1> QED
    BY <1>1, <1>2, <1>3, <1>4 DEF Next, Crawl, Change, OnlyKube, OnlyGcp, OnlyLogs

LEMMA Invariant == Spec => []IInv
  BY InitIInv, NextIInv, SameIInv, PTL DEF Spec

(* What the batches of a crawler say of the resources of a cluster or a    *)
(* project, and the relations of the logs, hangs together: in Kubernetes a *)
(* relation leads to elements of its batch (crawl of kube.go), in GCP what *)
(* belongs together and is in the batch is linked under the names of the   *)
(* two elements (GetComputeElems, getGKEClusters, buildIAMPolicyElements)  *)
(* unless the call about the members of a group failed or one of them was  *)
(* beyond its page, and a flow is never made up.                           *)
THEOREM RelationsAreResolved == Spec => []RelationsResolved
  <1>1. IInv => RelationsResolved
    <2> SUFFICES ASSUME IInv PROVE RelationsResolved
      OBVIOUS
    <2>1. \A c \in DOMAIN Clusters : setting = c =>
              Kube(c)!TypeOK /\ Kube(c)!RelationsResolved /\ Kube(c)!ChartsPresent
      BY PlatformsAssumption, KuPromised DEF IInv
    <2>2. \A p \in DOMAIN Projects : setting = p =>
              Gcp(p)!TypeOK /\ Gcp(p)!LinksShown /\ Gcp(p)!RolesShown
      BY PlatformsAssumption, GcPromised DEF IInv
    <2>3. \A l \in DOMAIN FlowLogs : setting = l => Logs(l)!TypeOK /\ Logs(l)!FlowsTrue
      BY LoShows DEF IInv
    <2> QED
      BY <2>1, <2>2, <2>3 DEF RelationsResolved
  <1> QED
    BY <1>1, Invariant, PTL

(* A list or lookup that fails costs the batches of a crawl only what it   *)
(* would have answered with: all else that was there since the crawl began *)
(* is in a batch (crawl of kube.go and gcp.go), in GCP unless it was       *)
(* beyond the first page of its list, after which the crawler asks for no  *)
(* other.                                                                  *)
THEOREM FailuresAreLocal == Spec => []FailureIsLocal
  <1>1. IInv => FailureIsLocal
    <2> SUFFICES ASSUME IInv PROVE FailureIsLocal
      OBVIOUS
    <2>1. \A c \in DOMAIN Clusters : setting = c => Kube(c)!FailureIsLocal
      BY PlatformsAssumption, KuPromised DEF IInv
    <2>2. \A p \in DOMAIN Projects : setting = p => Gcp(p)!FailureIsLocal
      BY PlatformsAssumption, GcPromised DEF IInv
    <2> QED
      BY <2>1, <2>2 DEF FailureIsLocal
  <1> QED
    BY <1>1, Invariant, PTL

(* The flow logs of a project: a flow between mapped clusters whose window *)
(* has passed is shown, or was late or beyond the page, lost to a failing  *)
(* call, or between two windows (getFlows).                                *)
THEOREM FlowsAreShown == Spec => []FlowsShown
  <1>1. IInv => FlowsShown
    BY LoShows DEF IInv, FlowsShown
  <1> QED
    BY <1>1, Invariant, PTL
=============================================================================
