----------------------------- MODULE Aws_proofs -----------------------------
(***************************************************************************)
(* Proofs about the AWS integrations: what becomes of a flow-log file,     *)
(* whatever ticks overlap, calls fail and crashes happen, and what the     *)
(* batch of a crawl shows of an account, whatever calls fail and resources *)
(* come and go.                                                            *)
(***************************************************************************)
EXTENDS Aws, FiniteSetTheorems, TLAPS

(* What has become of file k.                                              *)
Accounted(k) ==
    \/ bucket[k] = "absent" \/ shipped[k] > 0 \/ k \in lost
    \/ \E g \in Goroutine : k \in flows[g]

(* A goroutine has something to ship only after it has listed, and the     *)
(* state file is truncated while it is about to be written.                *)
Quiet ==
    \A g \in Goroutine :
        /\ pc[g] \in {"idle", "lock", "list"} => flows[g] = {} /\ passed[g] = {}
        /\ pc[g] = "write" => stateFile = Unreadable

(* The marks are keys of objects that are there, and the one in memory is  *)
(* never behind while a crawl runs.                                        *)
Marks ==
    /\ stateFile \in Key => bucket[stateFile] # "absent"
    /\ lastHandledKey \in Key => bucket[lastHandledKey] # "absent"
    /\ \A g \in Goroutine : pc[g] \in Critical => Mark <= lastHandledKey

(* What is left of a listing is there and behind the mark, and it has left *)
(* out nothing in front of its last object that is not known to be so; if  *)
(* the old mark is still on disk, it is in front of all that was read.     *)
Listed ==
    \A g \in Goroutine : pc[g] = "read" =>
        /\ \A k \in todo[g] : k > lastHandledKey /\ bucket[k] # "absent"
        /\ \A k \in todo[g] : \A j \in FlowLog :
              j <= k => Accounted(j) \/ j \in passed[g] \/ j \in todo[g]
        /\ stateFile # Unreadable => \A k \in flows[g] : k > stateFile

(* NoSilentLoss, also for the mark of a crawl that is under way.           *)
MarkAccounted ==
    /\ \A k \in FlowLog : k <= Mark => Accounted(k)
    /\ \A g \in Goroutine :
          pc[g] \in Critical => \A k \in FlowLog : k <= lastHandledKey => Accounted(k)

(* What was shipped or is about to be is in front of the mark, and no two  *)
(* goroutines hold the same file.                                          *)
Once ==
    ~markLost =>
        /\ \A k \in Key : shipped[k] <= 1 /\ (shipped[k] > 0 => k <= Mark)
        /\ \A g \in Goroutine : \A k \in flows[g] :
              /\ shipped[k] = 0
              /\ pc[g] = "send" => k <= Mark
              /\ pc[g] \in {"read", "write"} => k <= lastHandledKey
        /\ \A g, h \in Goroutine : g # h => flows[g] \intersect flows[h] = {}

IInv == TypeOK /\ Quiet /\ Marks /\ Listed /\ MarkAccounted /\ Once
-----------------------------------------------------------------------------
LEMMA KeysAreNumbers == /\ Key \subseteq Nat /\ NoKey \notin Key /\ NoKey \in Nat
                        /\ \A k \in Key : k > NoKey
                        /\ Unreadable \notin Key \union {NoKey} /\ IsFiniteSet(Key)
  <1>1. MaxKey \in Nat /\ Unreadable \notin Nat
    BY FlowLogsAssumption
  <1>2. IsFiniteSet(Key)
    BY <1>1, FS_Interval DEF Key
  <1> QED
    BY <1>1, <1>2 DEF Key, NoKey

LEMMA MarkIsNumber == TypeOK => Mark \in Key \union {NoKey} /\ Mark \in Nat
  <1>1. TypeOK => Mark \in Key \union {NoKey}
    BY DEF TypeOK, Mark
  <1> QED
    BY <1>1, KeysAreNumbers

LEMMA MayFailBound == TypeOK /\ MayFail => failures' \in 0..MaxFailures
  <1>1. MaxFailures \in Nat
    BY FlowLogsAssumption
  <1> QED
    BY <1>1 DEF TypeOK, MayFail

LEMMA Alone ==
    ASSUME TypeOK, NEW g \in Goroutine, NEW h \in Goroutine,
           pc[g] \in Critical, pc[h] \in Critical
    PROVE  g = h
  BY DEF TypeOK

(* What is written to the marks and by whom: steps that leave the objects, *)
(* the flows and the outcome alone disturb nothing that is Accounted.      *)
LEMMA AccountedSame ==
    ASSUME UNCHANGED <<bucket, flows, shipped, lost>>, NEW k
    PROVE  Accounted(k)' <=> Accounted(k)
  BY DEF Accounted

LEMMA InitIInv == Init => IInv
  <1> SUFFICES ASSUME Init PROVE IInv
    OBVIOUS
  <1>1. TypeOK
    <2>1. MaxFailures \in Nat
      BY FlowLogsAssumption
    <2>2. \A g \in Goroutine : pc[g] = "idle" /\ "idle" \notin Critical
      BY DEF Init, Critical
    <2>3. \A g, h \in Goroutine : {pc[g], pc[h]} \subseteq Critical => g = h
      BY <2>2
    <2>4. /\ flows \in [Goroutine -> SUBSET FlowLog] /\ todo \in [Goroutine -> SUBSET Key]
          /\ passed \in [Goroutine -> SUBSET Key] /\ shipped \in [Key -> Nat]
          /\ pc \in [Goroutine -> {"idle", "lock", "send"} \union Critical]
          /\ bucket \in [Key -> {"absent", "recent", "old"}]
      BY DEF Init
    <2>5. failures \in 0..MaxFailures
      BY <2>1 DEF Init
    <2>6. /\ stateFile \in Key \union {NoKey, Unreadable} /\ lastHandledKey \in Key \union {NoKey}
          /\ lost \subseteq Key /\ markLost \in BOOLEAN
      BY DEF Init
    <2> QED
      BY <2>3, <2>4, <2>5, <2>6 DEF TypeOK
  <1>2. Quiet /\ Marks /\ Listed
    BY KeysAreNumbers DEF Init, Quiet, Marks, Listed, Critical
  <1>3. MarkAccounted
    BY DEF Init, MarkAccounted, Accounted, FlowLog, Critical
  <1>4. Once
    BY DEF Init, Once
  <1> QED
    BY <1>1, <1>2, <1>3, <1>4 DEF IInv

(* An object that arrives in front of a mark arrives behind a later key.   *)
LEMMA DeliverIInv ==
    ASSUME IInv, NEW k \in Key, Deliver(k) PROVE IInv'
  <1> USE DEF IInv
  <1>1. /\ bucket[k] = "absent" /\ bucket' = [bucket EXCEPT ![k] = "recent"]
        /\ lost' = IF \E j \in Key : j > k /\ bucket[j] # "absent" THEN lost \union {k} ELSE lost
        /\ UNCHANGED <<contents, stateFile, lastHandledKey, pc, todo, flows, passed,
                       shipped, markLost, failures>>
    BY DEF Deliver, crawler, crawls
  <1>2. Mark' = Mark /\ FlowLog' = FlowLog
    BY <1>1 DEF Mark, FlowLog, NotGzip
  <1>3. TypeOK'
    BY <1>1, <1>2 DEF TypeOK
  <1>4. \A j \in Key : bucket[j] # "absent" => bucket'[j] # "absent"
    BY <1>1 DEF TypeOK
  <1>5. Quiet' /\ Marks'
    BY <1>1, <1>2, <1>4 DEF Quiet, Marks
  <1>6. ASSUME NEW j \in FlowLog, NEW m \in Key, bucket[m] # "absent", j <= m, Accounted(j)
        PROVE  Accounted(j)'
    <2>1. CASE j = k
      <3>1. k \in lost'
        BY <1>1, <1>6, <2>1, KeysAreNumbers
      <3> QED
        BY <2>1, <3>1 DEF Accounted
    <2>2. CASE j # k
      BY <1>1, <1>6, <2>2 DEF Accounted, TypeOK, FlowLog
    <2> QED
      BY <2>1, <2>2
  <1>7. Listed'
    <2> SUFFICES ASSUME NEW g \in Goroutine, pc[g] = "read"
                 PROVE  /\ \A i \in todo[g] : i > lastHandledKey /\ bucket'[i] # "absent"
                        /\ \A i \in todo[g] : \A j \in FlowLog :
                              j <= i => Accounted(j)' \/ j \in passed[g] \/ j \in todo[g]
                        /\ stateFile # Unreadable => \A i \in flows[g] : i > stateFile
      BY <1>1, <1>2 DEF Listed
    <2>1. \A i \in todo[g] : i \in Key /\ bucket[i] # "absent" /\ i > lastHandledKey
      BY DEF Listed, TypeOK
    <2>2. \A i \in todo[g] : \A j \in FlowLog :
              j <= i => Accounted(j)' \/ j \in passed[g] \/ j \in todo[g]
      BY <1>6, <2>1 DEF Listed
    <2> QED
      BY <1>4, <2>1, <2>2 DEF Listed
  <1>8. MarkAccounted'
    <2>1. ASSUME NEW j \in FlowLog, j <= Mark PROVE Accounted(j)'
      <3>1. Accounted(j) /\ Mark \in Key /\ bucket[Mark] # "absent"
        BY <2>1, MarkIsNumber, KeysAreNumbers DEF MarkAccounted, Marks, Mark, FlowLog
      <3> QED
        BY <1>6, <2>1, <3>1
    <2>2. ASSUME NEW g \in Goroutine, pc[g] \in Critical, NEW j \in FlowLog, j <= lastHandledKey
          PROVE  Accounted(j)'
      <3>1. Accounted(j) /\ lastHandledKey \in Key /\ bucket[lastHandledKey] # "absent"
        BY <2>2, KeysAreNumbers DEF MarkAccounted, Marks, TypeOK, FlowLog
      <3> QED
        BY <1>6, <2>2, <3>1
    <2> QED
      BY <1>1, <1>2, <2>1, <2>2 DEF MarkAccounted
  <1>9. Once'
    BY <1>1, <1>2 DEF Once
  <1> QED
    BY <1>3, <1>5, <1>7, <1>8, <1>9

LEMMA AgeIInv ==
    ASSUME IInv, NEW k \in Key, Age(k) PROVE IInv'
  <1> USE DEF IInv
  <1>1. /\ bucket[k] = "recent" /\ bucket' = [bucket EXCEPT ![k] = "old"]
        /\ UNCHANGED <<contents, stateFile, lastHandledKey, pc, todo, flows, passed,
                       shipped, lost, markLost, failures>>
    BY DEF Age, crawler, crawls, outcome
  <1>2. Mark' = Mark /\ FlowLog' = FlowLog
    BY <1>1 DEF Mark, FlowLog, NotGzip
  <1>3. TypeOK'
    BY <1>1, <1>2 DEF TypeOK
  <1>4. \A j \in Key : bucket'[j] = "absent" <=> bucket[j] = "absent"
    BY <1>1 DEF TypeOK
  <1>5. \A j \in Key : Accounted(j)' <=> Accounted(j)
    BY <1>1, <1>4 DEF Accounted
  <1>6. Quiet' /\ Marks' /\ Once'
    BY <1>1, <1>2, <1>4 DEF Quiet, Marks, Once
  <1>7. Listed' /\ MarkAccounted'
    BY <1>1, <1>2, <1>4, <1>5 DEF Listed, MarkAccounted, FlowLog, TypeOK
  <1> QED
    BY <1>3, <1>6, <1>7

(* A tick and the mutex: nothing is read yet, and the mark does not move.  *)
LEMMA TickIInv ==
    ASSUME IInv, NEW g \in Goroutine, Tick(g) PROVE IInv'
  <1> USE DEF IInv
  <1>1. /\ pc[g] = "idle" /\ pc' = [pc EXCEPT ![g] = "lock"]
        /\ UNCHANGED <<contents, bucket, stateFile, lastHandledKey, todo, flows, passed,
                       shipped, lost, markLost, failures>>
    BY DEF Tick, Go, objects, crawler, outcome
  <1>2. Mark' = Mark /\ FlowLog' = FlowLog
    BY <1>1 DEF Mark, FlowLog, NotGzip
  <1>3. /\ pc' \in [Goroutine -> {"idle", "lock", "send"} \union Critical]
        /\ pc'[g] = "lock" /\ \A h \in Goroutine : h # g => pc'[h] = pc[h]
    BY <1>1 DEF TypeOK
  <1>4. TypeOK'
    <2>1. \A h \in Goroutine : pc'[h] \in Critical => pc[h] \in Critical
      BY <1>3 DEF Critical
    <2> QED
      BY <1>1, <1>2, <1>3, <2>1 DEF TypeOK
  <1>5. Quiet' /\ Marks'
    BY <1>1, <1>2, <1>3 DEF Quiet, Marks, Critical
  <1>6. Listed' /\ MarkAccounted'
    BY <1>1, <1>2, <1>3, AccountedSame DEF Listed, MarkAccounted, Critical
  <1>7. Once'
    BY <1>1, <1>2, <1>3 DEF Once
  <1> QED
    BY <1>4, <1>5, <1>6, <1>7

LEMMA LockIInv ==
    ASSUME IInv, NEW g \in Goroutine, Lock(g) PROVE IInv'
  <1> USE DEF IInv
  <1>1. /\ pc[g] = "lock" /\ Free /\ pc' = [pc EXCEPT ![g] = "list"]
        /\ lastHandledKey' = Mark
        /\ UNCHANGED <<contents, bucket, stateFile, todo, flows, passed,
                       shipped, lost, markLost, failures>>
    BY DEF Lock, Go, objects, outcome, Mark
  <1>2. Mark' = Mark /\ FlowLog' = FlowLog
    BY <1>1 DEF Mark, FlowLog, NotGzip
  <1>3. /\ pc' \in [Goroutine -> {"idle", "lock", "send"} \union Critical]
        /\ pc'[g] = "list" /\ \A h \in Goroutine : h # g => pc'[h] = pc[h] /\ pc[h] \notin Critical
    BY <1>1 DEF TypeOK, Free, Critical
  <1>4. TypeOK'
    <2>1. \A h \in Goroutine : pc'[h] \in Critical => h = g
      BY <1>3
    <2>2. \A h, i \in Goroutine : {pc'[h], pc'[i]} \subseteq Critical => h = i
      BY <2>1
    <2>3. lastHandledKey' \in Key \union {NoKey}
      BY <1>1, MarkIsNumber
    <2> QED
      BY <1>1, <1>2, <1>3, <2>2, <2>3 DEF TypeOK
  <1>5. Quiet'
    BY <1>1, <1>3 DEF Quiet
  <1>6. Marks'
    <2>1. Mark <= Mark
      BY MarkIsNumber
    <2>2. Mark = stateFile \/ Mark = lastHandledKey
      BY DEF Mark
    <2>3. lastHandledKey' \in Key => bucket[lastHandledKey'] # "absent"
      <3>1. lastHandledKey' = stateFile \/ lastHandledKey' = lastHandledKey
        BY <1>1, <2>2
      <3> QED
        BY <3>1 DEF Marks
    <2>4. Mark' <= lastHandledKey'
      BY <1>1, <1>2, <2>1
    <2>5. stateFile' \in Key => bucket[stateFile'] # "absent"
      BY <1>1 DEF Marks
    <2>6. bucket' = bucket
      BY <1>1
    <2> QED
      BY <2>3, <2>4, <2>5, <2>6 DEF Marks
  <1>7. Listed'
    BY <1>1, <1>3 DEF Listed, Critical
  <1>8. MarkAccounted'
    BY <1>1, <1>2, <1>3, AccountedSame DEF MarkAccounted
  <1>9. Once'
    <2>1. \A h \in Goroutine : pc'[h] \notin {"read", "write"}
      BY <1>1, <1>3 DEF Critical
    <2> QED
      BY <1>1, <1>2, <1>3, <2>1 DEF Once
  <1> QED
    BY <1>4, <1>5, <1>6, <1>7, <1>8, <1>9

(* A page leaves out nothing in front of what it holds.                    *)
LEMMA PageIsPrefix ==
    ASSUME TypeOK, NEW from \in Key \union {NoKey}, NEW k \in Page(from)
    PROVE  /\ k \in Key /\ k > from /\ bucket[k] # "absent"
           /\ \A j \in Key : j > from /\ bucket[j] # "absent" /\ j <= k => j \in Page(from)
  <1> DEFINE after == {i \in Key : i > from /\ bucket[i] # "absent"}
             before(j) == {i \in after : i < j}
  <1>1. k \in after /\ Cardinality(before(k)) < PageSize
    BY DEF Page
  <1>2. PageSize \in Nat
    BY FlowLogsAssumption
  <1>3. ASSUME NEW j \in after, j <= k PROVE Cardinality(before(j)) < PageSize
    <2>1. before(j) \subseteq before(k) /\ before(k) \subseteq Key
      <3>1. j \in Nat /\ k \in Nat /\ \A i \in after : i \in Nat
        BY <1>1, <1>3, KeysAreNumbers
      <3>2. ASSUME NEW i \in before(j) PROVE i \in before(k)
        BY <1>3, <3>1
      <3>3. before(k) \subseteq Key
        OBVIOUS
      <3> QED
        BY <3>2, <3>3
    <2>2. IsFiniteSet(before(k)) /\ IsFiniteSet(before(j))
      BY <2>1, KeysAreNumbers, FS_Subset
    <2>3. Cardinality(before(j)) <= Cardinality(before(k))
      BY <2>1, <2>2, FS_Subset
    <2>4. Cardinality(before(j)) \in Nat /\ Cardinality(before(k)) \in Nat
      BY <2>2, FS_CardinalityType
    <2> QED
      BY <1>1, <1>2, <2>3, <2>4
  <1> QED
    BY <1>1, <1>3 DEF Page

LEMMA ListIInv ==
    ASSUME IInv, NEW g \in Goroutine, ListObjects(g) PROVE IInv'
  <1> USE DEF IInv
  <1>1. /\ pc[g] = "list" /\ pc' = [pc EXCEPT ![g] = "read"]
        /\ todo' = [todo EXCEPT ![g] = Page(lastHandledKey)]
        /\ UNCHANGED <<contents, bucket, stateFile, lastHandledKey, flows, passed,
                       shipped, lost, markLost, failures>>
    BY DEF ListObjects, Go, objects, crawler, outcome
  <1>2. Mark' = Mark /\ FlowLog' = FlowLog /\ FlowLog \subseteq Key
    BY <1>1 DEF Mark, FlowLog, NotGzip
  <1>3. /\ pc' \in [Goroutine -> {"idle", "lock", "send"} \union Critical]
        /\ pc'[g] = "read" /\ \A h \in Goroutine : h # g => pc'[h] = pc[h]
        /\ \A h \in Goroutine : pc'[h] \in Critical <=> pc[h] \in Critical
        /\ pc[g] \in Critical
    BY <1>1 DEF TypeOK, Critical
  <1>4. /\ todo' \in [Goroutine -> SUBSET Key] /\ todo'[g] = Page(lastHandledKey)
        /\ \A h \in Goroutine : h # g => todo'[h] = todo[h]
    BY <1>1 DEF TypeOK, Page
  <1>5. TypeOK'
    BY <1>1, <1>2, <1>3, <1>4 DEF TypeOK
  <1>6. Quiet' /\ Marks'
    BY <1>1, <1>2, <1>3 DEF Quiet, Marks
  <1>7. Listed'
    <2> SUFFICES ASSUME NEW h \in Goroutine, pc'[h] = "read"
                 PROVE  /\ \A k \in todo'[h] : k > lastHandledKey /\ bucket[k] # "absent"
                        /\ \A k \in todo'[h] : \A j \in FlowLog :
                              j <= k => Accounted(j) \/ j \in passed[h] \/ j \in todo'[h]
                        /\ stateFile # Unreadable => \A k \in flows[h] : k > stateFile
      BY <1>1, <1>2, AccountedSame DEF Listed
    <2>1. h = g
      BY <1>3, Alone DEF Critical
    <2>2. lastHandledKey \in Key \union {NoKey} /\ flows[g] = {}
      BY <1>1 DEF TypeOK, Quiet
    <2>3. ASSUME NEW k \in Page(lastHandledKey), NEW j \in FlowLog, j <= k
          PROVE  Accounted(j) \/ j \in Page(lastHandledKey)
      <3>1. CASE j <= lastHandledKey
        BY <1>3, <3>1 DEF MarkAccounted
      <3>2. CASE bucket[j] = "absent"
        BY <3>2 DEF Accounted
      <3>3. CASE j > lastHandledKey /\ bucket[j] # "absent"
        BY <1>2, <2>2, <2>3, <3>3, PageIsPrefix
      <3> QED
        BY <1>2, <2>2, <3>1, <3>2, <3>3, KeysAreNumbers
    <2>4. \A k \in Page(lastHandledKey) : k > lastHandledKey /\ bucket[k] # "absent"
      BY <2>2, PageIsPrefix
    <2> QED
      BY <1>4, <2>1, <2>2, <2>3, <2>4
  <1>8. MarkAccounted'
    BY <1>1, <1>2, <1>3, AccountedSame DEF MarkAccounted
  <1>9. Once'
    BY <1>1, <1>2, <1>3 DEF Once, Quiet
  <1> QED
    BY <1>5, <1>6, <1>7, <1>8, <1>9

(* A goroutine that has nothing gives up the mutex.                        *)
LEMMA ListFailsIInv ==
    ASSUME IInv, NEW g \in Goroutine, ListFails(g) PROVE IInv'
  <1> USE DEF IInv
  <1>1. /\ pc[g] = "list" /\ pc' = [pc EXCEPT ![g] = "idle"]
        /\ MayFail
        /\ UNCHANGED <<contents, bucket, stateFile, lastHandledKey, todo, flows, passed,
                       shipped, lost, markLost>>
    BY DEF ListFails, Go, objects, crawler, outcome
  <1>2. Mark' = Mark /\ FlowLog' = FlowLog
    BY <1>1 DEF Mark, FlowLog, NotGzip
  <1>3. /\ pc' \in [Goroutine -> {"idle", "lock", "send"} \union Critical]
        /\ pc'[g] = "idle" /\ \A h \in Goroutine : h # g => pc'[h] = pc[h]
        /\ \A h \in Goroutine : pc'[h] \in Critical => pc[h] \in Critical
    BY <1>1 DEF TypeOK, Critical
  <1>4. failures' \in 0..MaxFailures
    BY <1>1, MayFailBound
  <1>5. TypeOK'
    BY <1>1, <1>2, <1>3, <1>4 DEF TypeOK
  <1>6. Quiet' /\ Marks'
    BY <1>1, <1>2, <1>3 DEF Quiet, Marks
  <1>7. Listed' /\ MarkAccounted'
    BY <1>1, <1>2, <1>3, AccountedSame DEF Listed, MarkAccounted
  <1>8. Once'
    BY <1>1, <1>2, <1>3 DEF Once
  <1> QED
    BY <1>5, <1>6, <1>7, <1>8

(* A file that a crawl leaves out, because it is recent, no flow log or    *)
(* not to be had, is in front of no mark yet.                              *)
LEMMA LeaveOutIInv ==
    ASSUME IInv, NEW g \in Goroutine, NEW k \in Key, Visits(g, k), LeaveOut(g, k),
           failures' \in 0..MaxFailures
    PROVE  IInv'
  <1> USE DEF IInv
  <1>1. /\ pc[g] = "read" /\ k \in todo[g]
        /\ todo' = [todo EXCEPT ![g] = @ \ {k}]
        /\ passed' = [passed EXCEPT ![g] = @ \union {k}]
        /\ UNCHANGED <<contents, bucket, stateFile, lastHandledKey, pc, flows,
                       shipped, lost, markLost>>
    BY DEF Visits, LeaveOut, objects, crawler, outcome
  <1>2. Mark' = Mark /\ FlowLog' = FlowLog
    BY <1>1 DEF Mark, FlowLog, NotGzip
  <1>3. /\ todo' \in [Goroutine -> SUBSET Key] /\ todo'[g] = todo[g] \ {k}
        /\ passed' \in [Goroutine -> SUBSET Key] /\ passed'[g] = passed[g] \union {k}
        /\ \A h \in Goroutine : h # g => todo'[h] = todo[h] /\ passed'[h] = passed[h]
    BY <1>1 DEF TypeOK
  <1>4. TypeOK'
    BY <1>1, <1>2, <1>3 DEF TypeOK
  <1>5. Quiet' /\ Marks'
    BY <1>1, <1>2, <1>3 DEF Quiet, Marks
  <1>6. Listed'
    <2> SUFFICES ASSUME NEW h \in Goroutine, pc[h] = "read"
                 PROVE  /\ \A i \in todo'[h] : i > lastHandledKey /\ bucket[i] # "absent"
                        /\ \A i \in todo'[h] : \A j \in FlowLog :
                              j <= i => Accounted(j) \/ j \in passed'[h] \/ j \in todo'[h]
                        /\ stateFile # Unreadable => \A i \in flows[h] : i > stateFile
      BY <1>1, <1>2, AccountedSame DEF Listed
    <2>1. todo'[h] \subseteq todo[h] /\ todo[h] \union passed[h] \subseteq todo'[h] \union passed'[h]
      BY <1>3
    <2> QED
      BY <2>1 DEF Listed
  <1>7. MarkAccounted'
    BY <1>1, <1>2, AccountedSame DEF MarkAccounted
  <1>8. Once'
    BY <1>1, <1>2 DEF Once
  <1> QED
    BY <1>4, <1>5, <1>6, <1>7, <1>8

LEMMA SkipIInv ==
    ASSUME IInv, NEW g \in Goroutine, NEW k \in Key, Skip(g, k) \/ GetObjectFails(g, k)
    PROVE  IInv'
  <1>1. failures' \in 0..MaxFailures
    BY MayFailBound DEF IInv, TypeOK, Skip, GetObjectFails
  <1> QED
    BY <1>1, LeaveOutIInv DEF Skip, GetObjectFails

(* The file that is read is behind every mark, so nobody had it before;    *)
(* what this crawl left out is now in front of one.                        *)
LEMMA ReadFileIInv ==
    ASSUME IInv, NEW g \in Goroutine, NEW k \in Key, ReadFile(g, k) PROVE IInv'
  <1> USE DEF IInv
  <1>1. /\ pc[g] = "read" /\ k \in todo[g] /\ \A j \in todo[g] : k <= j
        /\ k \notin NotGzip
        /\ todo' = [todo EXCEPT ![g] = @ \ {k}]
        /\ flows' = [flows EXCEPT ![g] = @ \union {k}]
        /\ passed' = [passed EXCEPT ![g] = {}]
        /\ lastHandledKey' = k /\ lost' = lost \union passed[g]
        /\ UNCHANGED <<contents, bucket, stateFile, pc, shipped, markLost, failures>>
    BY DEF ReadFile, Visits, Skipped, objects
  <1>2. FlowLog' = FlowLog /\ FlowLog \subseteq Key /\ k \in FlowLog
    BY <1>1 DEF FlowLog, NotGzip
  <1>3. /\ todo' \in [Goroutine -> SUBSET Key] /\ todo'[g] = todo[g] \ {k}
        /\ passed' \in [Goroutine -> SUBSET Key] /\ passed'[g] = {}
        /\ flows' \in [Goroutine -> SUBSET FlowLog] /\ flows'[g] = flows[g] \union {k}
        /\ \A h \in Goroutine : h # g =>
              todo'[h] = todo[h] /\ passed'[h] = passed[h] /\ flows'[h] = flows[h]
    BY <1>1, <1>2 DEF TypeOK
  <1>4. /\ k > lastHandledKey /\ Mark <= lastHandledKey /\ bucket[k] # "absent"
        /\ lastHandledKey \in Key \union {NoKey} /\ Mark \in Key \union {NoKey}
    <2>1. pc[g] \in Critical
      BY <1>1 DEF Critical
    <2> QED
      BY <1>1, <2>1, MarkIsNumber DEF Listed, Marks, TypeOK
  <1>5. Mark <= Mark' /\ Mark' <= k /\ Mark' \in Key \union {NoKey}
    <2>1. CASE stateFile = Unreadable
      <3>1. Mark' = k
        BY <1>1, <2>1 DEF Mark
      <3> QED
        BY <1>4, <3>1, KeysAreNumbers
    <2>2. CASE stateFile # Unreadable
      <3>1. Mark' = Mark
        BY <1>1, <2>2 DEF Mark
      <3> QED
        BY <1>4, <3>1, KeysAreNumbers
    <2> QED
      BY <2>1, <2>2
  <1>6. \A h \in Goroutine : pc[h] \in Critical <=> h = g
    BY <1>1, Alone DEF Critical
  <1>7. TypeOK'
    <2>1. lost' \subseteq Key /\ lastHandledKey' \in Key \union {NoKey}
      BY <1>1 DEF TypeOK
    <2> QED
      BY <1>1, <1>2, <1>3, <2>1 DEF TypeOK
  <1>8. Quiet'
    BY <1>1, <1>3 DEF Quiet
  <1>9. Marks'
    BY <1>1, <1>4, <1>5, <1>6 DEF Marks
  <1>10. ASSUME NEW j \in FlowLog, NEW i \in todo[g], j <= i
         PROVE  Accounted(j)' \/ j \in todo'[g]
    <2>1. Accounted(j) \/ j \in passed[g] \/ j \in todo[g]
      BY <1>1, <1>10 DEF Listed
    <2>2. Accounted(j) => Accounted(j)'
      BY <1>1, <1>3 DEF Accounted
    <2>3. j \in passed[g] \/ j = k => Accounted(j)'
      BY <1>1, <1>3 DEF Accounted
    <2> QED
      BY <1>3, <2>1, <2>2, <2>3
  <1>11. ASSUME NEW j \in FlowLog, j <= k PROVE Accounted(j)'
    <2>1. j \in todo'[g] => FALSE
      <3>1. j \in Nat /\ k \in Nat
        BY <1>2, KeysAreNumbers
      <3> QED
        BY <1>1, <1>3, <1>11, <3>1
    <2> QED
      BY <1>1, <1>10, <1>11, <2>1
  <1>12. Listed'
    <2> SUFFICES ASSUME NEW h \in Goroutine, pc[h] = "read"
                 PROVE  /\ \A i \in todo'[h] : i > k /\ bucket[i] # "absent"
                        /\ \A i \in todo'[h] : \A j \in FlowLog :
                              j <= i => Accounted(j)' \/ j \in passed'[h] \/ j \in todo'[h]
                        /\ stateFile # Unreadable => \A i \in flows'[h] : i > stateFile
      BY <1>1, <1>2 DEF Listed
    <2>1. h = g
      BY <1>6 DEF Critical
    <2>2. ASSUME NEW i \in todo'[g] PROVE i > k /\ bucket[i] # "absent"
      <3>1. i \in Key /\ i \in todo[g] /\ i # k
        BY <1>3
      <3> QED
        BY <1>1, <3>1, KeysAreNumbers DEF Listed
    <2>3. \A i \in todo'[g] : \A j \in FlowLog : j <= i => Accounted(j)' \/ j \in todo'[g]
      BY <1>3, <1>10
    <2>4. ASSUME stateFile # Unreadable, NEW i \in flows'[g] PROVE i > stateFile
      <3>1. i \in flows[g] \/ i = k
        BY <1>3
      <3>2. i \in flows[g] => i > stateFile
        BY <1>1, <2>4 DEF Listed
      <3>3. k > stateFile
        <4>1. k \in Nat /\ lastHandledKey \in Nat /\ Mark \in Nat
          BY <1>4, KeysAreNumbers
        <4>2. Mark = stateFile
          BY <2>4 DEF Mark
        <4> QED
          BY <1>4, <4>1, <4>2
      <3> QED
        BY <3>1, <3>2, <3>3
    <2> QED
      BY <2>1, <2>2, <2>3, <2>4
  <1>13. MarkAccounted'
    <2>1. \A j \in FlowLog : j <= Mark' => j <= k
      BY <1>2, <1>5, KeysAreNumbers
    <2> QED
      BY <1>1, <1>2, <1>11, <2>1 DEF MarkAccounted
  <1>14. Once'
    <2> SUFFICES ASSUME ~markLost
                 PROVE  /\ \A j \in Key : shipped[j] <= 1 /\ (shipped[j] > 0 => j <= Mark')
                        /\ \A h \in Goroutine : \A j \in flows'[h] :
                              /\ shipped[j] = 0
                              /\ pc[h] = "send" => j <= Mark'
                              /\ pc[h] \in {"read", "write"} => j <= k
                        /\ \A h, i \in Goroutine : h # i => flows'[h] \intersect flows'[i] = {}
      BY <1>1 DEF Once
    <2>1. \A j \in Key : j <= Mark => j <= Mark' /\ j <= k /\ j # k
      BY <1>4, <1>5, KeysAreNumbers
    <2>2. \A j \in Key : j <= lastHandledKey => j <= k /\ j # k
      BY <1>4, KeysAreNumbers
    <2>3. shipped[k] = 0
      <3>1. shipped[k] \in Nat /\ ~(shipped[k] > 0)
        BY <2>1 DEF Once, TypeOK
      <3> QED
        BY <3>1
    <2>4. \A h \in Goroutine : flows[h] \subseteq Key
      BY <1>2 DEF TypeOK
    <2>5. ASSUME NEW h \in Goroutine PROVE k \notin flows[h]
      <3>1. CASE h = g
        BY <1>1, <2>2, <2>4, <3>1 DEF Once
      <3>2. CASE h # g
        <4>1. pc[h] \in {"idle", "lock", "send"}
          BY <1>6, <3>2 DEF TypeOK
        <4>2. CASE pc[h] = "send"
          BY <2>1, <2>4, <4>2 DEF Once
        <4>3. CASE pc[h] # "send"
          BY <4>1, <4>3 DEF Quiet
        <4> QED
          BY <4>2, <4>3
      <3> QED
        BY <3>1, <3>2
    <2>6. \A j \in Key : shipped[j] <= 1 /\ (shipped[j] > 0 => j <= Mark')
      BY <2>1 DEF Once
    <2>7. ASSUME NEW h \in Goroutine, NEW j \in flows'[h]
          PROVE  /\ shipped[j] = 0
                 /\ pc[h] = "send" => j <= Mark'
                 /\ pc[h] \in {"read", "write"} => j <= k
      <3>1. CASE h = g /\ j = k
        BY <1>1, <2>3, <3>1, KeysAreNumbers
      <3>2. CASE j \in flows[h]
        BY <2>1, <2>2, <2>4, <3>2 DEF Once
      <3> QED
        BY <1>3, <3>1, <3>2
    <2>8. \A h, i \in Goroutine : h # i => flows'[h] \intersect flows'[i] = {}
      <3>1. \A h, i \in Goroutine : h # i => flows[h] \intersect flows[i] = {}
        BY DEF Once
      <3> QED
        BY <1>3, <2>5, <3>1
    <2> QED
      BY <2>6, <2>7, <2>8
  <1> QED
    BY <1>7, <1>8, <1>9, <1>12, <1>13, <1>14

(* While the file is being written, the mark is the one in memory.         *)
LEMMA TruncateIInv ==
    ASSUME IInv, NEW g \in Goroutine, Truncate(g) PROVE IInv'
  <1> USE DEF IInv
  <1>1. /\ pc[g] = "read" /\ pc' = [pc EXCEPT ![g] = "write"] /\ stateFile' = Unreadable
        /\ UNCHANGED <<contents, bucket, lastHandledKey, todo, flows, passed,
                       shipped, lost, markLost, failures>>
    BY DEF Truncate, Go, objects, outcome
  <1>2. FlowLog' = FlowLog /\ FlowLog \subseteq Key
    BY <1>1 DEF FlowLog, NotGzip
  <1>3. /\ pc' \in [Goroutine -> {"idle", "lock", "send"} \union Critical]
        /\ pc'[g] = "write" /\ \A h \in Goroutine : h # g => pc'[h] = pc[h]
        /\ \A h \in Goroutine : pc'[h] \in Critical <=> pc[h] \in Critical
        /\ pc[g] \in Critical
    BY <1>1 DEF TypeOK, Critical
  <1>4. /\ Mark' = lastHandledKey /\ Mark <= lastHandledKey
        /\ Mark \in Nat /\ lastHandledKey \in Nat
    BY <1>1, <1>3, MarkIsNumber, KeysAreNumbers DEF Mark, Marks, TypeOK
  <1>5. TypeOK'
    BY <1>1, <1>2, <1>3 DEF TypeOK
  <1>6. Quiet'
    BY <1>1, <1>3 DEF Quiet
  <1>7. Marks'
    BY <1>1, <1>4, KeysAreNumbers DEF Marks
  <1>8. Listed'
    <2>1. \A h \in Goroutine : pc'[h] # "read"
      BY <1>1, <1>3, Alone DEF Critical
    <2> QED
      BY <2>1 DEF Listed
  <1>9. MarkAccounted'
    BY <1>1, <1>2, <1>3, <1>4, AccountedSame DEF MarkAccounted
  <1>10. Once'
    <2>1. \A k \in Key : k <= Mark => k <= lastHandledKey
      BY <1>4, KeysAreNumbers
    <2>2. \A h \in Goroutine : flows[h] \subseteq Key
      BY <1>2 DEF TypeOK
    <2> QED
      BY <1>1, <1>3, <1>4, <2>1, <2>2 DEF Once
  <1> QED
    BY <1>5, <1>6, <1>7, <1>8, <1>9, <1>10

LEMMA WriteStateIInv ==
    ASSUME IInv, NEW g \in Goroutine, WriteState(g) PROVE IInv'
  <1> USE DEF IInv
  <1>1. /\ pc[g] = "write" /\ pc' = [pc EXCEPT ![g] = "send"] /\ stateFile' = lastHandledKey
        /\ UNCHANGED <<contents, bucket, lastHandledKey, todo, flows, passed,
                       shipped, lost, markLost, failures>>
    BY DEF WriteState, Go, objects, outcome
  <1>2. FlowLog' = FlowLog
    BY <1>1 DEF FlowLog, NotGzip
  <1>3. /\ pc' \in [Goroutine -> {"idle", "lock", "send"} \union Critical]
        /\ pc'[g] = "send" /\ \A h \in Goroutine : h # g => pc'[h] = pc[h]
        /\ \A h \in Goroutine : pc'[h] \in Critical => pc[h] \in Critical /\ h # g
        /\ pc[g] \in Critical
    BY <1>1 DEF TypeOK, Critical
  <1>4. \A h \in Goroutine : pc'[h] \notin Critical
    BY <1>3, Alone
  <1>5. Mark' = Mark /\ Mark = lastHandledKey
    BY <1>1, KeysAreNumbers DEF Mark, Quiet, TypeOK
  <1>6. TypeOK'
    BY <1>1, <1>2, <1>3, <1>4 DEF TypeOK
  <1>7. Quiet' /\ Marks' /\ Listed'
    BY <1>1, <1>3, <1>4 DEF Quiet, Marks, Listed, Critical
  <1>8. MarkAccounted'
    BY <1>1, <1>2, <1>4, <1>5, AccountedSame DEF MarkAccounted
  <1>9. Once'
    BY <1>1, <1>3, <1>4, <1>5 DEF Once, Critical
  <1> QED
    BY <1>6, <1>7, <1>8, <1>9

(* A batch whose mark is not written is read again from the old one, if    *)
(* that is still there.                                                    *)
LEMMA WriteFailsIInv ==
    ASSUME IInv, NEW g \in Goroutine, WriteFails(g) PROVE IInv'
  <1> USE DEF IInv
  <1>1. /\ pc[g] \in {"read", "write"} /\ pc' = [pc EXCEPT ![g] = "idle"] /\ MayFail
        /\ flows' = [flows EXCEPT ![g] = {}] /\ passed' = [passed EXCEPT ![g] = {}]
        /\ lost' = IF stateFile = Unreadable THEN lost \union flows[g] ELSE lost
        /\ UNCHANGED <<contents, bucket, stateFile, lastHandledKey, todo, shipped, markLost>>
    BY DEF WriteFails, Go, objects, crawler
  <1>2. Mark' = Mark /\ FlowLog' = FlowLog /\ FlowLog \subseteq Key
    BY <1>1 DEF Mark, FlowLog, NotGzip
  <1>3. /\ pc' \in [Goroutine -> {"idle", "lock", "send"} \union Critical]
        /\ pc'[g] = "idle" /\ \A h \in Goroutine : h # g => pc'[h] = pc[h]
        /\ \A h \in Goroutine : pc'[h] \in Critical => pc[h] \in Critical /\ h # g
        /\ pc[g] \in Critical
    BY <1>1 DEF TypeOK, Critical
  <1>4. \A h \in Goroutine : pc'[h] \notin Critical
    BY <1>3, Alone
  <1>5. /\ flows' \in [Goroutine -> SUBSET FlowLog] /\ flows'[g] = {}
        /\ passed' \in [Goroutine -> SUBSET Key] /\ passed'[g] = {}
        /\ \A h \in Goroutine : h # g => flows'[h] = flows[h] /\ passed'[h] = passed[h]
    BY <1>1 DEF TypeOK
  <1>6. TypeOK'
    <2>1. lost' \subseteq Key /\ failures' \in 0..MaxFailures
      BY <1>1, <1>2, MayFailBound DEF TypeOK
    <2> QED
      BY <1>1, <1>2, <1>3, <1>4, <1>5, <2>1 DEF TypeOK
  <1>7. Quiet' /\ Marks' /\ Listed'
    BY <1>1, <1>3, <1>4, <1>5 DEF Quiet, Marks, Listed, Critical
  <1>8. ASSUME NEW j \in FlowLog, j <= Mark PROVE Accounted(j)'
    <2>1. Accounted(j)
      BY <1>8 DEF MarkAccounted
    <2>2. j \in flows[g] => j \in lost'
      <3>1. CASE stateFile = Unreadable
        BY <1>1, <3>1
      <3>2. CASE stateFile # Unreadable /\ j \in flows[g]
        <4>1. pc[g] = "read" /\ Mark = stateFile /\ j > stateFile
          BY <1>1, <3>2 DEF Mark, Quiet, Listed
        <4>2. j \in Nat /\ Mark \in Nat
          BY <1>2, MarkIsNumber, KeysAreNumbers
        <4> QED
          BY <1>8, <4>1, <4>2
      <3> QED
        BY <3>1, <3>2
    <2>3. lost \subseteq lost' /\ bucket' = bucket /\ shipped' = shipped
      BY <1>1
    <2> QED
      BY <1>5, <2>1, <2>2, <2>3 DEF Accounted
  <1>9. MarkAccounted'
    BY <1>2, <1>4, <1>8 DEF MarkAccounted
  <1>10. Once'
    <2>1. \A h \in Goroutine : flows'[h] \subseteq flows[h]
      BY <1>5
    <2>2. \A h \in Goroutine : pc'[h] = "send" => pc[h] = "send"
      BY <1>3
    <2>3. \A h \in Goroutine : pc'[h] \notin {"read", "write"}
      BY <1>4 DEF Critical
    <2> QED
      BY <1>1, <1>2, <2>1, <2>2, <2>3 DEF Once
  <1> QED
    BY <1>6, <1>7, <1>9, <1>10

(* What is shipped was in front of the mark and with nobody else.          *)
LEMMA ShipIInv ==
    ASSUME IInv, NEW g \in Goroutine, Ship(g) PROVE IInv'
  <1> USE DEF IInv
  <1>1. /\ pc[g] = "send" /\ pc' = [pc EXCEPT ![g] = "idle"]
        /\ shipped' = [k \in Key |-> IF k \in flows[g] THEN shipped[k] + 1 ELSE shipped[k]]
        /\ flows' = [flows EXCEPT ![g] = {}] /\ passed' = [passed EXCEPT ![g] = {}]
        /\ UNCHANGED <<contents, bucket, stateFile, lastHandledKey, todo, lost, markLost, failures>>
    BY DEF Ship, Go, objects, crawler
  <1>2. Mark' = Mark /\ FlowLog' = FlowLog /\ FlowLog \subseteq Key
    BY <1>1 DEF Mark, FlowLog, NotGzip
  <1>3. /\ pc' \in [Goroutine -> {"idle", "lock", "send"} \union Critical]
        /\ pc'[g] = "idle" /\ \A h \in Goroutine : h # g => pc'[h] = pc[h]
        /\ \A h \in Goroutine : pc'[h] \in Critical => pc[h] \in Critical /\ h # g
    BY <1>1 DEF TypeOK, Critical
  <1>4. /\ flows' \in [Goroutine -> SUBSET FlowLog] /\ flows'[g] = {}
        /\ passed' \in [Goroutine -> SUBSET Key] /\ passed'[g] = {}
        /\ \A h \in Goroutine : h # g => flows'[h] = flows[h] /\ passed'[h] = passed[h]
    BY <1>1 DEF TypeOK
  <1>5. /\ shipped' \in [Key -> Nat]
        /\ \A k \in Key : shipped'[k] = IF k \in flows[g] THEN shipped[k] + 1 ELSE shipped[k]
    BY <1>1 DEF TypeOK
  <1>6. TypeOK'
    BY <1>1, <1>2, <1>3, <1>4, <1>5 DEF TypeOK
  <1>7. Quiet' /\ Marks'
    BY <1>1, <1>2, <1>3, <1>4 DEF Quiet, Marks
  <1>8. \A j \in FlowLog : Accounted(j) => Accounted(j)'
    <2> SUFFICES ASSUME NEW j \in FlowLog, Accounted(j) PROVE Accounted(j)'
      OBVIOUS
    <2>1. shipped[j] \in Nat
      BY <1>2 DEF TypeOK
    <2>2. shipped[j] > 0 \/ j \in flows[g] => shipped'[j] > 0
      BY <1>2, <1>5, <2>1
    <2> QED
      BY <1>1, <1>4, <2>2 DEF Accounted
  <1>9. Listed'
    <2> SUFFICES ASSUME NEW h \in Goroutine, pc'[h] = "read"
                 PROVE  /\ \A i \in todo[h] : i > lastHandledKey /\ bucket[i] # "absent"
                        /\ \A i \in todo[h] : \A j \in FlowLog :
                              j <= i => Accounted(j)' \/ j \in passed'[h] \/ j \in todo[h]
                        /\ stateFile # Unreadable => \A i \in flows'[h] : i > stateFile
      BY <1>1, <1>2 DEF Listed
    <2>1. pc[h] = "read" /\ passed'[h] = passed[h] /\ flows'[h] = flows[h]
      BY <1>3, <1>4
    <2> QED
      BY <1>8, <2>1 DEF Listed
  <1>10. MarkAccounted'
    BY <1>1, <1>2, <1>3, <1>8 DEF MarkAccounted
  <1>11. Once'
    <2> SUFFICES ASSUME ~markLost
                 PROVE  /\ \A j \in Key : shipped'[j] <= 1 /\ (shipped'[j] > 0 => j <= Mark)
                        /\ \A h \in Goroutine : \A j \in flows'[h] :
                              /\ shipped'[j] = 0
                              /\ pc'[h] = "send" => j <= Mark
                              /\ pc'[h] \in {"read", "write"} => j <= lastHandledKey
                        /\ \A h, i \in Goroutine : h # i => flows'[h] \intersect flows'[i] = {}
      BY <1>1, <1>2 DEF Once
    <2>1. ASSUME NEW j \in Key PROVE shipped'[j] <= 1 /\ (shipped'[j] > 0 => j <= Mark)
      <3>1. CASE j \in flows[g]
        BY <1>1, <1>5, <3>1 DEF Once
      <3>2. CASE j \notin flows[g]
        BY <1>5, <3>2 DEF Once
      <3> QED
        BY <3>1, <3>2
    <2>2. ASSUME NEW h \in Goroutine, NEW j \in flows'[h]
          PROVE  /\ shipped'[j] = 0
                 /\ pc'[h] = "send" => j <= Mark
                 /\ pc'[h] \in {"read", "write"} => j <= lastHandledKey
      <3>1. h # g /\ j \in flows[h] /\ pc'[h] = pc[h] /\ j \in Key
        BY <1>2, <1>3, <1>4 DEF TypeOK
      <3>2. j \notin flows[g]
        BY <3>1 DEF Once
      <3>3. shipped'[j] = shipped[j]
        BY <1>5, <3>1, <3>2
      <3> QED
        BY <3>1, <3>3 DEF Once
    <2>3. \A h, i \in Goroutine : h # i => flows'[h] \intersect flows'[i] = {}
      <3>1. \A h, i \in Goroutine : h # i => flows[h] \intersect flows[i] = {}
        BY DEF Once
      <3> QED
        BY <1>4, <3>1
    <2> QED
      BY <2>1, <2>2, <2>3
  <1> QED
    BY <1>6, <1>7, <1>9, <1>10, <1>11

(* A restart goes on from the mark on disk: behind it nothing is missed,   *)
(* and in front of it only what was about to be sent.                      *)
LEMMA DieIInv ==
    ASSUME IInv, Die, failures' \in 0..MaxFailures PROVE IInv'
  <1> USE DEF IInv
  <1>1. /\ pc' = [g \in Goroutine |-> "idle"]
        /\ todo' = [g \in Goroutine |-> {}]
        /\ flows' = [g \in Goroutine |-> {}]
        /\ passed' = [g \in Goroutine |-> {}]
        /\ lastHandledKey' = IF stateFile = Unreadable THEN NoKey ELSE stateFile
        /\ lost' = lost \union UNION {flows[g] : g \in {h \in Goroutine : pc[h] = "send"}}
        /\ markLost' = (markLost \/ stateFile = Unreadable)
        /\ UNCHANGED <<contents, bucket, stateFile, shipped>>
    BY DEF Die, objects
  <1>2. FlowLog' = FlowLog /\ FlowLog \subseteq Key
    BY <1>1 DEF FlowLog, NotGzip
  <1>3. \A g \in Goroutine : pc'[g] = "idle" /\ pc'[g] \notin Critical /\ flows'[g] = {} /\ passed'[g] = {}
    BY <1>1 DEF Critical
  <1>4. lastHandledKey' \in Key \union {NoKey} /\ Mark' = lastHandledKey'
    BY <1>1 DEF TypeOK, Mark
  <1>5. \A g \in Goroutine : pc[g] = "send" => flows[g] \subseteq lost'
    BY <1>1
  <1>6. TypeOK'
    <2>1. lost' \subseteq Key
      BY <1>1, <1>2 DEF TypeOK
    <2>2. /\ pc' \in [Goroutine -> {"idle", "lock", "send"} \union Critical]
          /\ todo' \in [Goroutine -> SUBSET Key] /\ passed' \in [Goroutine -> SUBSET Key]
          /\ flows' \in [Goroutine -> SUBSET FlowLog] /\ markLost' \in BOOLEAN
      BY <1>1 DEF TypeOK
    <2> QED
      BY <1>1, <1>2, <1>3, <1>4, <2>1, <2>2 DEF TypeOK
  <1>7. Quiet' /\ Listed'
    BY <1>3 DEF Quiet, Listed
  <1>8. Marks'
    BY <1>1, <1>3, KeysAreNumbers DEF Marks
  <1>9. ASSUME NEW j \in FlowLog, j <= Mark' PROVE Accounted(j)'
    <2>1. j \in Nat /\ j > NoKey /\ Mark \in Nat
      BY <1>2, MarkIsNumber, KeysAreNumbers
    <2>2. stateFile # Unreadable /\ Mark' = Mark /\ Mark = stateFile
      BY <1>1, <1>4, <1>9, <2>1, KeysAreNumbers DEF Mark
    <2>3. Accounted(j)
      BY <1>9, <2>2 DEF MarkAccounted
    <2>4. ASSUME NEW g \in Goroutine, j \in flows[g] PROVE j \in lost'
      <3>1. pc[g] \in {"send", "read"}
        BY <2>2, <2>4 DEF Quiet, TypeOK, Critical
      <3>2. pc[g] # "read"
        BY <1>9, <2>1, <2>2, <2>4 DEF Listed
      <3> QED
        BY <1>5, <2>4, <3>1, <3>2
    <2> QED
      BY <1>1, <2>3, <2>4 DEF Accounted
  <1>10. MarkAccounted'
    BY <1>2, <1>3, <1>9 DEF MarkAccounted
  <1>11. Once'
    <2>1. ~markLost' => ~markLost /\ Mark' = Mark
      BY <1>1, <1>4 DEF Mark
    <2>2. \A g, h \in Goroutine : flows'[g] \intersect flows'[h] = {}
      BY <1>3
    <2> QED
      BY <1>1, <1>3, <2>1, <2>2 DEF Once
  <1> QED
    BY <1>6, <1>7, <1>8, <1>10, <1>11

LEMMA NextIInv == IInv /\ [Next]_vars => IInv'
  <1> SUFFICES ASSUME IInv, [Next]_vars PROVE IInv'
    OBVIOUS
  <1>1. ASSUME NEW k \in Key, Deliver(k) \/ Age(k) PROVE IInv'
    BY <1>1, DeliverIInv, AgeIInv
  <1>2. ASSUME NEW g \in Goroutine, Tick(g) PROVE IInv'
    BY <1>2, TickIInv
  <1>3. ASSUME NEW g \in Goroutine, Crawl(g) PROVE IInv'
    <2>1. CASE Lock(g) \/ ListObjects(g) \/ ListFails(g)
      BY <2>1, LockIInv, ListIInv, ListFailsIInv
    <2>2. ASSUME NEW k \in Key, Skip(g, k) \/ GetObjectFails(g, k) \/ ReadFile(g, k) PROVE IInv'
      BY <2>2, SkipIInv, ReadFileIInv
    <2>3. ASSUME NEW k \in Key, Panic(g, k) PROVE IInv'
      <3>1. Die /\ failures' \in 0..MaxFailures
        BY <2>3 DEF Panic, IInv, TypeOK
      <3> QED
        BY <3>1, DieIInv
    <2>4. CASE Truncate(g) \/ WriteState(g) \/ WriteFails(g) \/ Ship(g)
      BY <2>4, TruncateIInv, WriteStateIInv, WriteFailsIInv, ShipIInv
    <2> QED
      BY <1>3, <2>1, <2>2, <2>3, <2>4 DEF Crawl
  <1>4. CASE Crash
    <2>1. Die /\ failures' \in 0..MaxFailures
      BY <1>4, MayFailBound DEF Crash, IInv
    <2> QED
      BY <2>1, DieIInv
  <1>5. CASE UNCHANGED vars
    <2>1. UNCHANGED <<contents, bucket, stateFile, lastHandledKey, pc, todo, flows, passed,
                      shipped, lost, markLost, failures>>
      BY <1>5 DEF vars, objects, crawler, crawls, outcome
    <2>2. Mark' = Mark /\ FlowLog' = FlowLog
      BY <2>1 DEF Mark, FlowLog, NotGzip
    <2>3. TypeOK' /\ Quiet' /\ Marks' /\ Once'
      BY <2>1, <2>2 DEF IInv, TypeOK, Quiet, Marks, Once
    <2>4. Listed' /\ MarkAccounted'
      BY <2>1, <2>2, AccountedSame DEF IInv, Listed, MarkAccounted
    <2> QED
      BY <2>3, <2>4 DEF IInv
  <1> QED
    BY <1>1, <1>2, <1>3, <1>4, <1>5 DEF Next
-----------------------------------------------------------------------------
(* Marks, listings and batches stay consistent however ticks overlap.      *)
THEOREM FlowLogsInductive == Spec => []IInv
  BY InitIInv, NextIInv, PTL DEF Spec

(* No file in front of the mark is missing without a cause, for any bucket *)
(* and page size, however many ticks overlap and calls fail.               *)
THEOREM NothingLostSilently == Spec => []NoSilentLoss
  <1>1. IInv => NoSilentLoss
    BY DEF IInv, MarkAccounted, Accounted, NoSilentLoss
  <1> QED
    BY <1>1, FlowLogsInductive, PTL

(* The flows of no file are shipped twice, as long as no restart finds the *)
(* state file truncated.                                                   *)
THEOREM NeverShippedTwice == Spec => []ShippedOnce
  <1>1. IInv => ShippedOnce
    BY DEF IInv, Once, ShippedOnce
  <1> QED
    BY <1>1, FlowLogsInductive, PTL
-----------------------------------------------------------------------------
(* The crawler of resources.  A worker asks only about the resources it    *)
(* lists, in its region.                                                   *)
RsKnown(c, w) == c.of.kind = w[1] /\ c.of.region = w[2]
RsCallsOf(kind) ==
    CASE kind = "lbs" -> {"list", "targets", "health", "classic"}
      [] kind = "eks" -> {"list", "cluster", "nodegroups", "nodegroup", "tagged"}
      [] kind = "ecr" -> {"list", "images", "details"}
      [] kind = "asg" -> {"list", "group", "subnet", "balancers", "classics"}
      [] OTHER -> {"list"}
RsControl(a) ==
    /\ calls = [w \in Resources(a)!Worker |-> calls[w]] /\ found = [w \in Resources(a)!Worker |-> found[w]]
    /\ \A w \in Resources(a)!Worker : \A c \in calls[w] : RsKnown(c, w) /\ c.call \in RsCallsOf(w[1])

(* A resource is in what its worker found, as soon as the calls it hangs   *)
(* on were made, or is excused from it.                                    *)
RsWorker(a, o) == <<Resources(a)!Lister(o), o.region>>
RsDueBy(c, o) ==
    \/ c.call = "list"
    \/ c.call = "classic" /\ o.kind = "classic"
    \/ c.call = "cluster" /\ o.kind = "eks" /\ c.of = o
RsDue(a, o) == \E c \in calls[RsWorker(a, o)] : RsDueBy(c, o)
RsShows(a, o, b) ==
    Resources(a)!Elements(o) \subseteq b.elements /\ Resources(a)!Links(o) \subseteq b.relations
RsFound(a) ==
    at = "crawl" => \A o \in steady : RsWorker(a, o) \in Resources(a)!Worker =>
        Resources(a)!Excused(o) \/ RsDue(a, o) \/ RsShows(a, o, found[RsWorker(a, o)])

(* So is the relation of a cluster to an instance that is tagged with it.  *)
RsTags(o, x) == o.kind = "eks" /\ x.kind = "ec2" /\ x.cluster = o.id /\ x.region = o.region
RsTagPage(o, x) == [call |-> "tagged page", of |-> o, instance |-> x]
RsUntagged(a, o, x) ==
    \/ Resources(a)!Excused(o)
    \/ \E c \in excused : c.call \in {"nodegroups", "tagged"} /\ c.of = o
    \/ RsTagPage(o, x) \in excused
RsTagDueBy(c, o) == c.call = "list" \/ (c.call \in {"cluster", "nodegroups", "tagged"} /\ c.of = o)
RsTagDue(a, o) == \E c \in calls[RsWorker(a, o)] : RsTagDueBy(c, o)
RsTagged(a, o, x, b) == <<Resources(a)!In(o.id), Resources(a)!In(x.id)>> \in b.relations
RsTagsFound(a) ==
    at = "crawl" => \A o, x \in steady : RsTags(o, x) /\ RsWorker(a, o) \in Resources(a)!Worker =>
        RsUntagged(a, o, x) \/ RsTagDue(a, o) \/ RsTagged(a, o, x, found[RsWorker(a, o)])

(* And so are both in the batch that was sent.                             *)
RsSent(a) ==
    Resources(a)!Complete => \A o \in steady : RsWorker(a, o) \in Resources(a)!Worker =>
        /\ Resources(a)!Excused(o) \/ RsShows(a, o, sent)
        /\ \A x \in steady : RsTags(o, x) => RsUntagged(a, o, x) \/ RsTagged(a, o, x, sent)

RsIInv(a) == Resources(a)!TypeOK /\ RsControl(a) /\ RsFound(a) /\ RsTagsFound(a) /\ RsSent(a)

-----------------------------------------------------------------------------
LEMMA RsInitIInv == ASSUME NEW a \in DOMAIN Accounts, Resources(a)!Parameters, Resources(a)!Init PROVE RsIInv(a)
  <1>1. Resources(a)!TypeOK
    BY DEF Resources!Parameters, Resources!Init, Resources!TypeOK
  <1>2. RsControl(a)
    BY DEF Resources!Init, RsControl
  <1>3. RsFound(a) /\ RsTagsFound(a) /\ RsSent(a)
    BY DEF Resources!Init, RsFound, RsTagsFound, RsSent, Resources!Complete
  <1> QED
    BY <1>1, <1>2, <1>3 DEF RsIInv

LEMMA RsTickIInv ==
    ASSUME NEW a \in DOMAIN Accounts, RsIInv(a), Resources(a)!Tick PROVE RsIInv(a)'
  <1>1. Resources(a)!TypeOK'
    BY DEF RsIInv, Resources!Tick, Resources!TypeOK
  <1> DEFINE C(w) == Resources(a)!Call("list", Resources(a)!Region(w[1], w[2]))
  <1>2. \A w \in Resources(a)!Worker : calls'[w] = {C(w)}
    BY DEF Resources!Tick
  <1>3. \A w : C(w).call = "list" /\ C(w).of.kind = w[1] /\ C(w).of.region = w[2]
    BY DEF Resources!Call, Resources!Region
  <1>4. RsControl(a)'
    <2>1. \A kind : "list" \in RsCallsOf(kind)
      BY DEF RsCallsOf
    <2>2. /\ calls' = [w \in Resources(a)!Worker |-> calls'[w]]
          /\ found' = [w \in Resources(a)!Worker |-> found'[w]]
      BY DEF Resources!Tick
    <2>3. \A w \in Resources(a)!Worker : \A c \in calls'[w] : RsKnown(c, w) /\ c.call \in RsCallsOf(w[1])
      <3> HIDE DEF C
      <3> QED
        BY <1>2, <1>3, <2>1 DEF RsKnown
    <2> QED
      BY <2>2, <2>3 DEF RsControl, Resources!Worker
  <1>5. RsFound(a)' /\ RsTagsFound(a)'
    <2>1. \A o : RsWorker(a, o)' = RsWorker(a, o)
      BY DEF RsWorker, Resources!Lister
    <2>2. \A o : RsWorker(a, o) \in Resources(a)!Worker => RsDue(a, o)' /\ RsTagDue(a, o)'
      <3> HIDE DEF C
      <3> QED
        BY <1>2, <1>3, <2>1 DEF RsDue, RsTagDue, RsDueBy, RsTagDueBy
    <2> QED
      BY <2>1, <2>2 DEF RsFound, RsTagsFound, Resources!Worker
  <1>6. RsSent(a)'
    BY DEF Resources!Tick, RsSent, Resources!Complete
  <1> QED
    BY <1>1, <1>4, <1>5, <1>6 DEF RsIInv

LEMMA RsChangeIInv ==
    ASSUME NEW a \in DOMAIN Accounts, Resources(a)!Parameters, RsIInv(a),
           NEW r \in Accounts[a].Resource, Resources(a)!Change(r)
    PROVE  RsIInv(a)'
  <1>1. UNCHANGED <<at, calls, found, sent, failing, excused>> /\ steady' \subseteq steady
    BY DEF Resources!Change
  <1>2. Resources(a)!TypeOK'
    <2>1. live' \subseteq Accounts[a].Resource /\ steady' \subseteq live'
      BY DEF RsIInv, Resources!TypeOK, Resources!Change
    <2>2. changes' \in 0..Accounts[a].MaxChanges
      BY DEF RsIInv, Resources!TypeOK, Resources!Change, Resources!Parameters
    <2> QED
      BY <1>1, <2>1, <2>2 DEF RsIInv, Resources!TypeOK, Resources!Worker
  <1>3. RsControl(a)'
    BY <1>1 DEF RsIInv, RsControl, Resources!Worker
  <1>4. \A o : /\ RsWorker(a, o)' = RsWorker(a, o) /\ RsDue(a, o)' = RsDue(a, o) /\ RsTagDue(a, o)' = RsTagDue(a, o)
               /\ Resources(a)!Excused(o)' = Resources(a)!Excused(o)
               /\ \A x : RsUntagged(a, o, x)' = RsUntagged(a, o, x)
    BY <1>1 DEF RsWorker, Resources!Lister, RsDue, RsTagDue, Resources!Excused, Resources!Costly, Resources!Call, RsUntagged, RsTagPage
  <1>5. RsFound(a)'
    BY <1>1, <1>4 DEF RsIInv, RsFound, Resources!Worker, RsShows
  <1>6. RsTagsFound(a)'
    BY <1>1, <1>4 DEF RsIInv, RsTagsFound, Resources!Worker, RsTagged, Resources!In
  <1>7. RsSent(a)'
    BY <1>1, <1>4 DEF RsIInv, RsSent, Resources!Complete, Resources!Worker, Resources!Empty
  <1> QED
    BY <1>2, <1>3, <1>5, <1>6, <1>7 DEF RsIInv

-----------------------------------------------------------------------------
(* A worker that goes on: nobody else's calls and findings change.         *)
RsAlone(a) == UNCHANGED <<live, changes, steady, at, sent>>

(* A call that is answered leaves more calls or what was wanted of it, or  *)
(* that was beyond its page.                                               *)
LEMMA RsAnswersPage ==
    ASSUME NEW a \in DOMAIN Accounts, RsIInv(a), RsAlone(a), NEW w \in Resources(a)!Worker,
           NEW c \in calls[w], NEW more, NEW E, NEW R, NEW beyond,
           Resources(a)!AnswersPage(w, c, more, E, R, beyond),
           \A d \in more : RsKnown(d, w) /\ d.call \in RsCallsOf(w[1]),
           \A o \in steady : RsWorker(a, o) = w /\ RsDueBy(c, o) =>
               \/ Resources(a)!Call("page", o) \in beyond
               \/ \E d \in more : RsDueBy(d, o)
               \/ Resources(a)!Elements(o) \subseteq E /\ Resources(a)!Links(o) \subseteq R,
           \A o, x \in steady : RsWorker(a, o) = w /\ RsTags(o, x) /\ RsTagDueBy(c, o) =>
               \/ Resources(a)!Call("page", o) \in beyond \/ RsTagPage(o, x) \in beyond
               \/ \E d \in more : RsTagDueBy(d, o)
               \/ <<Resources(a)!In(o.id), Resources(a)!In(x.id)>> \in R
    PROVE  RsIInv(a)'
  <1>1. /\ UNCHANGED <<live, changes, steady, at, sent, failing>> /\ excused' = excused \union beyond
        /\ calls' = [calls EXCEPT ![w] = (@ \ {c}) \union more]
        /\ found' = [found EXCEPT ![w] = Resources(a)!Plus(@, E, R)]
    BY DEF RsAlone, Resources!AnswersPage
  <1>2. at = "crawl"
    BY DEF RsIInv, Resources!TypeOK
  <1>3. /\ calls'[w] = (calls[w] \ {c}) \union more
        /\ found'[w].elements = found[w].elements \union E /\ found'[w].relations = found[w].relations \union R
        /\ \A v \in Resources(a)!Worker : v # w => calls'[v] = calls[v] /\ found'[v] = found[v]
        /\ calls' = [v \in Resources(a)!Worker |-> calls'[v]] /\ found' = [v \in Resources(a)!Worker |-> found'[v]]
    BY <1>1 DEF RsIInv, RsControl, Resources!Plus
  <1>4. \A o : /\ RsWorker(a, o)' = RsWorker(a, o)
               /\ Resources(a)!Excused(o) \/ Resources(a)!Call("page", o) \in beyond => Resources(a)!Excused(o)'
               /\ \A x : RsUntagged(a, o, x) \/ RsTagPage(o, x) \in beyond => RsUntagged(a, o, x)'
               /\ \A x : Resources(a)!Excused(o)' => RsUntagged(a, o, x)'
    BY <1>1 DEF RsWorker, Resources!Lister, Resources!Excused, Resources!Costly, Resources!Call, RsUntagged, RsTagPage
  <1>5. Resources(a)!TypeOK'
    BY <1>1, <1>2 DEF RsIInv, Resources!TypeOK
  <1>6. RsControl(a)'
    <2>1. \A v \in Resources(a)!Worker : \A d \in calls'[v] : RsKnown(d, v) /\ d.call \in RsCallsOf(v[1])
      BY <1>3 DEF RsIInv, RsControl
    <2> QED
      BY <1>3, <2>1 DEF RsControl, Resources!Worker
  <1>7. RsFound(a)'
    <2> SUFFICES ASSUME NEW o \in steady, RsWorker(a, o) \in Resources(a)!Worker,
                        ~Resources(a)!Excused(o)', ~RsDue(a, o)'
                 PROVE  RsShows(a, o, found'[RsWorker(a, o)])
      BY <1>1, <1>4 DEF RsFound, Resources!Worker
    <2>1. RsDue(a, o) \/ RsShows(a, o, found[RsWorker(a, o)])
      BY <1>2, <1>4 DEF RsIInv, RsFound
    <2>2. CASE RsWorker(a, o) # w
      BY <1>3, <1>4, <2>1, <2>2 DEF RsDue
    <2>3. CASE RsWorker(a, o) = w
      <3>1. \A d \in calls'[w] : ~RsDueBy(d, o)
        BY <1>4, <2>3 DEF RsDue
      <3>2. CASE RsShows(a, o, found[w])
        BY <1>3, <2>3, <3>2 DEF RsShows
      <3>3. CASE RsDue(a, o)
        <4>1. RsDueBy(c, o)
          BY <1>3, <2>3, <3>1, <3>3 DEF RsDue
        <4>2. Resources(a)!Elements(o) \subseteq E /\ Resources(a)!Links(o) \subseteq R
          BY <1>3, <1>4, <2>3, <3>1, <4>1
        <4> QED
          BY <1>3, <2>3, <4>2 DEF RsShows
      <3> QED
        BY <2>1, <2>3, <3>2, <3>3
    <2> QED
      BY <2>2, <2>3
  <1>8. RsTagsFound(a)'
    <2> SUFFICES ASSUME NEW o \in steady, NEW x \in steady, RsTags(o, x),
                        RsWorker(a, o) \in Resources(a)!Worker, ~RsUntagged(a, o, x)', ~RsTagDue(a, o)'
                 PROVE  RsTagged(a, o, x, found'[RsWorker(a, o)])
      BY <1>1, <1>4 DEF RsTagsFound, Resources!Worker
    <2>1. RsTagDue(a, o) \/ RsTagged(a, o, x, found[RsWorker(a, o)])
      BY <1>2, <1>4 DEF RsIInv, RsTagsFound
    <2>2. CASE RsWorker(a, o) # w
      BY <1>3, <1>4, <2>1, <2>2 DEF RsTagDue
    <2>3. CASE RsWorker(a, o) = w
      <3>1. \A d \in calls'[w] : ~RsTagDueBy(d, o)
        BY <1>4, <2>3 DEF RsTagDue
      <3>2. CASE RsTagged(a, o, x, found[w])
        BY <1>3, <2>3, <3>2 DEF RsTagged
      <3>3. CASE RsTagDue(a, o)
        <4>1. RsTagDueBy(c, o)
          BY <1>3, <2>3, <3>1, <3>3 DEF RsTagDue
        <4>2. <<Resources(a)!In(o.id), Resources(a)!In(x.id)>> \in R
          BY <1>3, <1>4, <2>3, <3>1, <4>1
        <4> QED
          BY <1>3, <2>3, <4>2 DEF RsTagged
      <3> QED
        BY <2>1, <2>3, <3>2, <3>3
    <2> QED
      BY <2>2, <2>3
  <1>9. RsSent(a)'
    BY <1>1, <1>2 DEF RsSent, Resources!Complete
  <1> QED
    BY <1>5, <1>6, <1>7, <1>8, <1>9 DEF RsIInv

LEMMA RsAnswers ==
    ASSUME NEW a \in DOMAIN Accounts, RsIInv(a), RsAlone(a), NEW w \in Resources(a)!Worker,
           NEW c \in calls[w], NEW more, NEW E, NEW R, Resources(a)!Answers(w, c, more, E, R),
           \A d \in more : RsKnown(d, w) /\ d.call \in RsCallsOf(w[1]),
           \A o \in steady : RsWorker(a, o) = w /\ RsDueBy(c, o) =>
               \/ \E d \in more : RsDueBy(d, o)
               \/ Resources(a)!Elements(o) \subseteq E /\ Resources(a)!Links(o) \subseteq R,
           \A o, x \in steady : RsWorker(a, o) = w /\ RsTags(o, x) /\ RsTagDueBy(c, o) =>
               \/ \E d \in more : RsTagDueBy(d, o)
               \/ <<Resources(a)!In(o.id), Resources(a)!In(x.id)>> \in R
    PROVE  RsIInv(a)'
  <1>1. Resources(a)!AnswersPage(w, c, more, E, R, {})
    BY DEF Resources!Answers
  <1> QED
    BY <1>1, RsAnswersPage

(* A failing call that drops no more than itself is none that resources    *)
(* hang on, and any other excuses all that the worker lists.               *)
LEMMA RsCosts ==
    ASSUME NEW a \in DOMAIN Accounts, RsIInv(a), RsAlone(a), NEW w \in Resources(a)!Worker,
           NEW c \in calls[w], NEW cost, Resources(a)!Costs(w, c, cost),
           failing' \in 0..Accounts[a].MaxFailures,
           cost = "only" => c.call \notin {"list", "classic", "cluster"},
           cost # "only" => \A o : Resources(a)!Lister(o) = w[1] => c.call \in Resources(a)!Costly(o.kind)
    PROVE  RsIInv(a)'
  <1>1. /\ UNCHANGED <<live, changes, steady, at, sent>>
        /\ calls' = [calls EXCEPT ![w] = IF cost = "only" THEN @ \ {c} ELSE {}]
        /\ found' = [found EXCEPT ![w] = IF cost = "all" THEN Resources(a)!Empty ELSE @]
        /\ excused' = excused \union {c}
    BY DEF RsAlone, Resources!Costs
  <1>2. at = "crawl"
    BY DEF RsIInv, Resources!TypeOK
  <1>3. /\ calls'[w] = (IF cost = "only" THEN calls[w] \ {c} ELSE {})
        /\ cost # "all" => found'[w] = found[w]
        /\ \A v \in Resources(a)!Worker : v # w => calls'[v] = calls[v] /\ found'[v] = found[v]
        /\ calls' = [v \in Resources(a)!Worker |-> calls'[v]] /\ found' = [v \in Resources(a)!Worker |-> found'[v]]
    BY <1>1 DEF RsIInv, RsControl
  <1>4. \A o : /\ RsWorker(a, o)' = RsWorker(a, o)
               /\ Resources(a)!Excused(o) => Resources(a)!Excused(o)'
               /\ \A x : RsUntagged(a, o, x) => RsUntagged(a, o, x)'
    BY <1>1 DEF RsWorker, Resources!Lister, Resources!Excused, Resources!Costly, Resources!Call, RsUntagged, RsTagPage
  <1>5. \A o : RsWorker(a, o) = w /\ cost # "only" => Resources(a)!Excused(o)'
    <2>1. RsKnown(c, w)
      BY DEF RsIInv, RsControl
    <2>2. \A o : RsWorker(a, o) = w => Resources(a)!Lister(o) = w[1] /\ o.region = w[2]
      BY DEF RsWorker
    <2> QED
      BY <1>1, <2>1, <2>2 DEF RsKnown, Resources!Excused
  <1>6. Resources(a)!TypeOK'
    BY <1>1, <1>2 DEF RsIInv, Resources!TypeOK
  <1>7. RsControl(a)'
    <2>1. \A v \in Resources(a)!Worker : \A d \in calls'[v] : RsKnown(d, v) /\ d.call \in RsCallsOf(v[1])
      BY <1>3 DEF RsIInv, RsControl
    <2> QED
      BY <1>3, <2>1 DEF RsControl, Resources!Worker
  <1>8. RsFound(a)'
    <2> SUFFICES ASSUME NEW o \in steady, RsWorker(a, o) \in Resources(a)!Worker,
                        ~Resources(a)!Excused(o)'
                 PROVE  RsDue(a, o)' \/ RsShows(a, o, found'[RsWorker(a, o)])
      BY <1>1, <1>4 DEF RsFound, Resources!Worker
    <2>1. RsDue(a, o) \/ RsShows(a, o, found[RsWorker(a, o)])
      BY <1>2, <1>4 DEF RsIInv, RsFound
    <2>2. CASE RsWorker(a, o) # w
      BY <1>3, <1>4, <2>1, <2>2 DEF RsDue
    <2>3. CASE RsWorker(a, o) = w /\ cost = "only"
      <3>1. found'[w] = found[w] /\ \A d \in calls[w] : d # c => d \in calls'[w]
        BY <1>3, <2>3
      <3>2. ~RsDueBy(c, o)
        BY <2>3 DEF RsDueBy
      <3> QED
        BY <1>4, <2>1, <2>3, <3>1, <3>2 DEF RsDue
    <2> QED
      BY <1>5, <2>2, <2>3
  <1>9. RsTagsFound(a)'
    <2> SUFFICES ASSUME NEW o \in steady, NEW x \in steady, RsTags(o, x),
                        RsWorker(a, o) \in Resources(a)!Worker, ~RsUntagged(a, o, x)'
                 PROVE  RsTagDue(a, o)' \/ RsTagged(a, o, x, found'[RsWorker(a, o)])
      BY <1>1, <1>4 DEF RsTagsFound, Resources!Worker
    <2>1. RsTagDue(a, o) \/ RsTagged(a, o, x, found[RsWorker(a, o)])
      BY <1>2, <1>4 DEF RsIInv, RsTagsFound
    <2>2. CASE RsWorker(a, o) # w
      BY <1>3, <1>4, <2>1, <2>2 DEF RsTagDue
    <2>3. CASE RsWorker(a, o) = w /\ cost = "only"
      <3>1. found'[w] = found[w] /\ \A d \in calls[w] : d # c => d \in calls'[w]
        BY <1>3, <2>3
      <3>2. ~RsTagDueBy(c, o)
        BY <1>1, <2>3 DEF RsTagDueBy, RsUntagged
      <3> QED
        BY <1>4, <2>1, <2>3, <3>1, <3>2 DEF RsTagDue
    <2>4. cost = "only" \/ RsWorker(a, o) # w
      BY <1>5 DEF RsUntagged
    <2> QED
      BY <2>2, <2>3, <2>4
  <1>10. RsSent(a)'
    BY <1>1, <1>2 DEF RsSent, Resources!Complete
  <1> QED
    BY <1>6, <1>7, <1>8, <1>9, <1>10 DEF RsIInv

-----------------------------------------------------------------------------
(* A failing call, of each cost.                                           *)
LEMMA RsCostly ==
    ASSUME NEW a \in DOMAIN Accounts, RsControl(a), NEW w \in Resources(a)!Worker, NEW c \in calls[w],
           NEW o, Resources(a)!Lister(o) = w[1],
           c.call \in {"list", "classic", "cluster", "balancers", "classics"}
    PROVE  c.call \in Resources(a)!Costly(o.kind)
  <1>1. c.call \in RsCallsOf(w[1])
    BY DEF RsControl
  <1>2. w[1] = IF o.kind = "classic" THEN "lbs" ELSE o.kind
    BY DEF Resources!Lister
  <1>3. CASE o.kind = "classic"
    BY <1>1, <1>2, <1>3 DEF RsCallsOf, Resources!Costly
  <1>4. CASE o.kind = "lbs"
    BY <1>1, <1>2, <1>4 DEF RsCallsOf, Resources!Costly
  <1>5. CASE o.kind = "eks"
    BY <1>1, <1>2, <1>5 DEF RsCallsOf, Resources!Costly
  <1>6. CASE o.kind = "asg"
    BY <1>1, <1>2, <1>6 DEF RsCallsOf, Resources!Costly
  <1>7. CASE o.kind = "ecr"
    BY <1>1, <1>2, <1>7 DEF RsCallsOf, Resources!Costly
  <1>8. CASE o.kind \notin {"classic", "lbs", "eks", "asg", "ecr"}
    BY <1>1, <1>2, <1>8 DEF RsCallsOf, Resources!Costly
  <1> QED
    BY <1>3, <1>4, <1>5, <1>6, <1>7, <1>8

LEMMA RsFails ==
    ASSUME NEW a \in DOMAIN Accounts, Resources(a)!Parameters, RsIInv(a), RsAlone(a),
           NEW w \in Resources(a)!Worker, NEW c \in calls[w], NEW cost, Resources(a)!Fails(w, c, cost),
           cost = "only" => c.call \notin {"list", "classic", "cluster"},
           cost # "only" => c.call \in {"list", "classic", "cluster", "balancers", "classics"}
    PROVE  RsIInv(a)'
  <1>1. Resources(a)!Costs(w, c, cost) /\ failing' \in 0..Accounts[a].MaxFailures
    BY DEF Resources!Fails, RsIInv, Resources!TypeOK, Resources!Parameters
  <1>2. cost # "only" => \A o : Resources(a)!Lister(o) = w[1] => c.call \in Resources(a)!Costly(o.kind)
    BY RsCostly DEF RsIInv
  <1> QED
    BY <1>1, <1>2, RsCosts

(* What a call that no resource hangs on answers with.                     *)
LEMMA RsAside ==
    ASSUME NEW a \in DOMAIN Accounts, RsIInv(a), RsAlone(a), NEW w \in Resources(a)!Worker,
           NEW c \in calls[w], NEW more, NEW E, NEW R, Resources(a)!Answers(w, c, more, E, R),
           c.call \notin {"list", "classic", "cluster", "nodegroups", "tagged"},
           \A d \in more : d.of = c.of /\ d.call \in RsCallsOf(w[1])
    PROVE  RsIInv(a)'
  <1>1. RsKnown(c, w)
    BY DEF RsIInv, RsControl
  <1>2. \A d \in more : RsKnown(d, w) /\ d.call \in RsCallsOf(w[1])
    BY <1>1 DEF RsKnown
  <1>3. \A o : ~RsDueBy(c, o) /\ ~RsTagDueBy(c, o)
    BY DEF RsDueBy, RsTagDueBy
  <1> QED
    BY <1>2, <1>3, RsAnswers

LEMMA RsOwnCalls ==
    ASSUME NEW a \in DOMAIN Accounts, RsIInv(a), NEW w \in Resources(a)!Worker, NEW c \in calls[w]
    PROVE  /\ RsKnown(c, w)
           /\ c.call \in {"targets", "health", "classic"} => w[1] = "lbs"
           /\ c.call \in {"cluster", "nodegroups", "nodegroup", "tagged"} => w[1] = "eks"
           /\ c.call \in {"images", "details"} => w[1] = "ecr"
           /\ c.call \in {"group", "subnet", "balancers", "classics"} => w[1] = "asg"
  <1>1. RsKnown(c, w) /\ c.call \in RsCallsOf(w[1])
    BY DEF RsIInv, RsControl
  <1>2. CASE w[1] = "lbs"
    BY <1>1, <1>2 DEF RsCallsOf
  <1>3. CASE w[1] = "eks"
    BY <1>1, <1>3 DEF RsCallsOf
  <1>4. CASE w[1] = "ecr"
    BY <1>1, <1>4 DEF RsCallsOf
  <1>5. CASE w[1] = "asg"
    BY <1>1, <1>5 DEF RsCallsOf
  <1>6. CASE w[1] \notin {"lbs", "eks", "ecr", "asg"}
    BY <1>1, <1>6 DEF RsCallsOf
  <1> QED
    BY <1>2, <1>3, <1>4, <1>5, <1>6

(* A page holds nothing but what is listed.                                *)
LEMMA RsFirstPage ==
    ASSUME NEW a \in DOMAIN Accounts, NEW name, NEW whole, NEW page \in Resources(a)!FirstPage(name, whole)
    PROVE  page \subseteq whole
  BY DEF Resources!FirstPage

LEMMA RsCallsNamed ==
    /\ RsCallsOf("lbs") = {"list", "targets", "health", "classic"}
    /\ RsCallsOf("eks") = {"list", "cluster", "nodegroups", "nodegroup", "tagged"}
    /\ RsCallsOf("ecr") = {"list", "images", "details"}
    /\ RsCallsOf("asg") = {"list", "group", "subnet", "balancers", "classics"}
  BY DEF RsCallsOf
-----------------------------------------------------------------------------
(* The calls nothing hangs on: answers with their further calls, or fails. *)
LEMMA RsTargets ==
    ASSUME NEW a \in DOMAIN Accounts, Resources(a)!Parameters, RsIInv(a), RsAlone(a),
           NEW w \in Resources(a)!Worker, Resources(a)!Targets(w)
    PROVE  RsIInv(a)'
  <1> DEFINE More(c, page) == {[call |-> "health", of |-> c.of, group |-> g] : g \in page}
  <1>1. PICK c \in calls[w] : /\ c.call = "targets"
                             /\ \/ \E page, E, R : Resources(a)!Answers(w, c, More(c, page), E, R)
                                \/ Resources(a)!Fails(w, c, "only")
    BY DEF Resources!Targets, Resources!Due
  <1>2. w[1] = "lbs"
    BY <1>1, RsOwnCalls
  <1>3. \A page : \A d \in More(c, page) : d.of = c.of /\ d.call \in RsCallsOf(w[1])
    BY <1>2, RsCallsNamed
  <1>4. ASSUME NEW page, NEW E, NEW R, Resources(a)!Answers(w, c, More(c, page), E, R) PROVE RsIInv(a)'
    <2> HIDE DEF More
    <2> QED
      BY <1>1, <1>3, <1>4, RsAside
  <1>5. CASE Resources(a)!Fails(w, c, "only")
    BY <1>1, <1>5, RsFails
  <1> QED
    BY <1>1, <1>4, <1>5

LEMMA RsTargetHealth ==
    ASSUME NEW a \in DOMAIN Accounts, Resources(a)!Parameters, RsIInv(a), RsAlone(a),
           NEW w \in Resources(a)!Worker, Resources(a)!TargetHealth(w)
    PROVE  RsIInv(a)'
  <1> DEFINE More(c) == {}
  <1>1. PICK c \in calls[w] : /\ c.call = "health"
                             /\ \/ \E E, R : Resources(a)!Answers(w, c, More(c), E, R)
                                \/ Resources(a)!Fails(w, c, "only")
    BY DEF Resources!TargetHealth, Resources!Due
  <1>2. w[1] = "lbs"
    BY <1>1, RsOwnCalls
  <1>3. \A d \in More(c) : d.of = c.of /\ d.call \in RsCallsOf(w[1])
    BY <1>2, RsCallsNamed
  <1>4. ASSUME NEW E, NEW R, Resources(a)!Answers(w, c, More(c), E, R) PROVE RsIInv(a)'
    <2> HIDE DEF More
    <2> QED
      BY <1>1, <1>3, <1>4, RsAside
  <1>5. CASE Resources(a)!Fails(w, c, "only")
    BY <1>1, <1>5, RsFails
  <1> QED
    BY <1>1, <1>4, <1>5

LEMMA RsNodeGroup ==
    ASSUME NEW a \in DOMAIN Accounts, Resources(a)!Parameters, RsIInv(a), RsAlone(a),
           NEW w \in Resources(a)!Worker, Resources(a)!NodeGroup(w)
    PROVE  RsIInv(a)'
  <1>1. PICK c \in calls[w] : c.call = "nodegroup" /\ Resources(a)!Costs(w, c, "only") /\ UNCHANGED failing
    BY DEF Resources!NodeGroup, Resources!Due
  <1>2. failing' \in 0..Accounts[a].MaxFailures
    BY <1>1 DEF RsIInv, Resources!TypeOK
  <1> QED
    BY <1>1, <1>2, RsCosts

LEMMA RsImages ==
    ASSUME NEW a \in DOMAIN Accounts, Resources(a)!Parameters, RsIInv(a), RsAlone(a),
           NEW w \in Resources(a)!Worker, Resources(a)!Images(w)
    PROVE  RsIInv(a)'
  <1> DEFINE More(c, page) == {[call |-> "details", of |-> c.of, tags |-> page]}
  <1>1. PICK c \in calls[w] : /\ c.call = "images"
                             /\ \/ \E page, E, R : Resources(a)!Answers(w, c, More(c, page), E, R)
                                \/ Resources(a)!Fails(w, c, "only")
    BY DEF Resources!Images, Resources!Due
  <1>2. w[1] = "ecr"
    BY <1>1, RsOwnCalls
  <1>3. \A page : \A d \in More(c, page) : d.of = c.of /\ d.call \in RsCallsOf(w[1])
    BY <1>2, RsCallsNamed DEF Resources!Call
  <1>4. ASSUME NEW page, NEW E, NEW R, Resources(a)!Answers(w, c, More(c, page), E, R) PROVE RsIInv(a)'
    <2> HIDE DEF More
    <2> QED
      BY <1>1, <1>3, <1>4, RsAside
  <1>5. CASE Resources(a)!Fails(w, c, "only")
    BY <1>1, <1>5, RsFails
  <1> QED
    BY <1>1, <1>4, <1>5

LEMMA RsImageDetails ==
    ASSUME NEW a \in DOMAIN Accounts, Resources(a)!Parameters, RsIInv(a), RsAlone(a),
           NEW w \in Resources(a)!Worker, Resources(a)!ImageDetails(w)
    PROVE  RsIInv(a)'
  <1> DEFINE More(c) == {}
  <1>1. PICK c \in calls[w] : /\ c.call = "details"
                             /\ \/ \E E, R : Resources(a)!Answers(w, c, More(c), E, R)
                                \/ Resources(a)!Fails(w, c, "only")
    BY DEF Resources!ImageDetails, Resources!Due
  <1>2. w[1] = "ecr"
    BY <1>1, RsOwnCalls
  <1>3. \A d \in More(c) : d.of = c.of /\ d.call \in RsCallsOf(w[1])
    BY <1>2, RsCallsNamed
  <1>4. ASSUME NEW E, NEW R, Resources(a)!Answers(w, c, More(c), E, R) PROVE RsIInv(a)'
    <2> HIDE DEF More
    <2> QED
      BY <1>1, <1>3, <1>4, RsAside
  <1>5. CASE Resources(a)!Fails(w, c, "only")
    BY <1>1, <1>5, RsFails
  <1> QED
    BY <1>1, <1>4, <1>5

LEMMA RsGroup ==
    ASSUME NEW a \in DOMAIN Accounts, Resources(a)!Parameters, RsIInv(a), RsAlone(a),
           NEW w \in Resources(a)!Worker, Resources(a)!Group(w)
    PROVE  RsIInv(a)'
  <1> DEFINE More(c) == {[call |-> "subnet", of |-> c.of, subnet |-> s] : s \in c.of.subnets}
                    \union {Resources(a)!Call("balancers", c.of), Resources(a)!Call("classics", c.of)}
  <1>1. PICK c \in calls[w] : /\ c.call = "group"
                             /\ \/ \E E, R : Resources(a)!Answers(w, c, More(c), E, R)
                                \/ FALSE
    BY DEF Resources!Group, Resources!Due
  <1>2. w[1] = "asg"
    BY <1>1, RsOwnCalls
  <1>3. \A d \in More(c) : d.of = c.of /\ d.call \in RsCallsOf(w[1])
    BY <1>2, RsCallsNamed DEF Resources!Call
  <1>4. ASSUME NEW E, NEW R, Resources(a)!Answers(w, c, More(c), E, R) PROVE RsIInv(a)'
    <2> HIDE DEF More
    <2> QED
      BY <1>1, <1>3, <1>4, RsAside
  <1> QED
    BY <1>1, <1>4

LEMMA RsGroupSubnet ==
    ASSUME NEW a \in DOMAIN Accounts, Resources(a)!Parameters, RsIInv(a), RsAlone(a),
           NEW w \in Resources(a)!Worker, Resources(a)!GroupSubnet(w)
    PROVE  RsIInv(a)'
  <1> DEFINE More(c) == {}
  <1>1. PICK c \in calls[w] : /\ c.call = "subnet"
                             /\ \/ \E E, R : Resources(a)!Answers(w, c, More(c), E, R)
                                \/ Resources(a)!Fails(w, c, "only")
    BY DEF Resources!GroupSubnet, Resources!Due
  <1>2. w[1] = "asg"
    BY <1>1, RsOwnCalls
  <1>3. \A d \in More(c) : d.of = c.of /\ d.call \in RsCallsOf(w[1])
    BY <1>2, RsCallsNamed
  <1>4. ASSUME NEW E, NEW R, Resources(a)!Answers(w, c, More(c), E, R) PROVE RsIInv(a)'
    <2> HIDE DEF More
    <2> QED
      BY <1>1, <1>3, <1>4, RsAside
  <1>5. CASE Resources(a)!Fails(w, c, "only")
    BY <1>1, <1>5, RsFails
  <1> QED
    BY <1>1, <1>4, <1>5

LEMMA RsGroupBalancers ==
    ASSUME NEW a \in DOMAIN Accounts, Resources(a)!Parameters, RsIInv(a), RsAlone(a),
           NEW w \in Resources(a)!Worker, Resources(a)!GroupBalancers(w)
    PROVE  RsIInv(a)'
  <1> DEFINE More(c) == {}
  <1>1. PICK c \in calls[w] : /\ c.call = "balancers"
                             /\ \/ \E E, R : Resources(a)!Answers(w, c, More(c), E, R)
                                \/ Resources(a)!Fails(w, c, "all")
    BY DEF Resources!GroupBalancers, Resources!Due
  <1>2. w[1] = "asg"
    BY <1>1, RsOwnCalls
  <1>3. \A d \in More(c) : d.of = c.of /\ d.call \in RsCallsOf(w[1])
    BY <1>2, RsCallsNamed
  <1>4. ASSUME NEW E, NEW R, Resources(a)!Answers(w, c, More(c), E, R) PROVE RsIInv(a)'
    <2> HIDE DEF More
    <2> QED
      BY <1>1, <1>3, <1>4, RsAside
  <1>5. CASE Resources(a)!Fails(w, c, "all")
    BY <1>1, <1>5, RsFails
  <1> QED
    BY <1>1, <1>4, <1>5

LEMMA RsGroupClassics ==
    ASSUME NEW a \in DOMAIN Accounts, Resources(a)!Parameters, RsIInv(a), RsAlone(a),
           NEW w \in Resources(a)!Worker, Resources(a)!GroupClassics(w)
    PROVE  RsIInv(a)'
  <1> DEFINE More(c) == {}
  <1>1. PICK c \in calls[w] : /\ c.call = "classics"
                             /\ \/ \E E, R : Resources(a)!Answers(w, c, More(c), E, R)
                                \/ Resources(a)!Fails(w, c, "all")
    BY DEF Resources!GroupClassics, Resources!Due
  <1>2. w[1] = "asg"
    BY <1>1, RsOwnCalls
  <1>3. \A d \in More(c) : d.of = c.of /\ d.call \in RsCallsOf(w[1])
    BY <1>2, RsCallsNamed
  <1>4. ASSUME NEW E, NEW R, Resources(a)!Answers(w, c, More(c), E, R) PROVE RsIInv(a)'
    <2> HIDE DEF More
    <2> QED
      BY <1>1, <1>3, <1>4, RsAside
  <1>5. CASE Resources(a)!Fails(w, c, "all")
    BY <1>1, <1>5, RsFails
  <1> QED
    BY <1>1, <1>4, <1>5

-----------------------------------------------------------------------------
(* What is left to ask about what was listed.                              *)
LEMMA RsFurther ==
    ASSUME NEW a \in DOMAIN Accounts, NEW w \in Resources(a)!Worker,
           NEW page, page \subseteq Resources(a)!Of(w[1], w[2])
    PROVE  /\ \A d \in Resources(a)!Further(w, page) : RsKnown(d, w) /\ d.call \in RsCallsOf(w[1])
           /\ w[1] = "lbs" => \E d \in Resources(a)!Further(w, page) : d.call = "classic"
           /\ w[1] = "eks" => \A o \in page : \E d \in Resources(a)!Further(w, page) : d.call = "cluster" /\ d.of = o
  <1> DEFINE M == Resources(a)!Further(w, page)
  <1>1. \A o \in page : o.kind = w[1] /\ o.region = w[2]
    BY DEF Resources!Of
  <1>2. \A name, of : Resources(a)!Call(name, of).call = name /\ Resources(a)!Call(name, of).of = of
    BY DEF Resources!Call
  <1>3. CASE w[1] = "lbs"
    <2> DEFINE classic == Resources(a)!Call("classic", Resources(a)!Region("lbs", w[2]))
    <2>1. M = {Resources(a)!Call("targets", o) : o \in page} \union {classic}
      BY <1>3 DEF Resources!Further
    <2>2. classic.call = "classic" /\ classic.of.kind = "lbs" /\ classic.of.region = w[2]
      BY DEF Resources!Call, Resources!Region
    <2> HIDE DEF classic, M
    <2>3. \A d \in M : RsKnown(d, w) /\ d.call \in RsCallsOf(w[1])
      BY <1>1, <1>2, <1>3, <2>1, <2>2, RsCallsNamed DEF RsKnown
    <2> QED
      BY <1>3, <2>1, <2>2, <2>3 DEF M
  <1>4. CASE w[1] = "eks"
    <2>1. M = {Resources(a)!Call("cluster", o) : o \in page}
      BY <1>4 DEF Resources!Further
    <2> QED
      BY <1>1, <1>2, <1>4, <2>1, RsCallsNamed DEF RsKnown
  <1>5. CASE w[1] = "ecr"
    <2>1. M = {Resources(a)!Call("images", o) : o \in page}
      BY <1>5 DEF Resources!Further
    <2> QED
      BY <1>1, <1>2, <1>5, <2>1, RsCallsNamed DEF RsKnown
  <1>6. CASE w[1] = "asg"
    <2>1. M = {Resources(a)!Call("group", o) : o \in page}
      BY <1>6 DEF Resources!Further
    <2> QED
      BY <1>1, <1>2, <1>6, <2>1, RsCallsNamed DEF RsKnown
  <1>7. CASE w[1] \notin {"lbs", "eks", "ecr", "asg"}
    BY <1>7 DEF Resources!Further
  <1> QED
    BY <1>3, <1>4, <1>5, <1>6, <1>7

(* What was there is on the page, or beyond it.                            *)
LEMMA RsOnPage ==
    ASSUME NEW a \in DOMAIN Accounts, NEW whole, NEW page, NEW o \in whole
    PROVE  o \in page \/ Resources(a)!Call("page", o) \in Resources(a)!Beyond(whole, page)
  BY DEF Resources!Beyond

LEMMA RsShownByPage ==
    ASSUME NEW a \in DOMAIN Accounts, NEW page, NEW o \in page
    PROVE  RsShows(a, o, Resources(a)!Made(page))
  BY DEF RsShows, Resources!Made

LEMMA RsDescribe ==
    ASSUME NEW a \in DOMAIN Accounts, Resources(a)!Parameters, RsIInv(a), RsAlone(a),
           NEW w \in Resources(a)!Worker, Resources(a)!Describe(w)
    PROVE  RsIInv(a)'
  <1> DEFINE whole == Resources(a)!Of(w[1], w[2])
             Made(page) == IF w[1] = "eks" THEN Resources(a)!Empty ELSE Resources(a)!Made(page)
             Answer(c, page) == Resources(a)!AnswersPage(w, c, Resources(a)!Further(w, page),
                                    Made(page).elements, Made(page).relations, Resources(a)!Beyond(whole, page))
  <1>1. PICK c \in calls[w] : /\ c.call = "list"
                             /\ \/ \E page \in Resources(a)!FirstPage(w[1], whole) : Answer(c, page)
                                \/ Resources(a)!Fails(w, c, "so far")
    BY DEF Resources!Describe, Resources!Due
  <1>2. ASSUME NEW page \in Resources(a)!FirstPage(w[1], whole), Answer(c, page)
        PROVE  RsIInv(a)'
    <2> DEFINE M == Resources(a)!Further(w, page)
               F == Made(page)
               B == Resources(a)!Beyond(whole, page)
    <2>1. page \subseteq Resources(a)!Of(w[1], w[2])
      BY <1>2, RsFirstPage
    <2>2. /\ \A d \in M : RsKnown(d, w) /\ d.call \in RsCallsOf(w[1])
          /\ w[1] = "lbs" => \E d \in M : d.call = "classic"
          /\ w[1] = "eks" => \A o \in page : \E d \in M : d.call = "cluster" /\ d.of = o
      BY <2>1, RsFurther
    <2>3. ASSUME NEW o \in steady, RsWorker(a, o) = w
          PROVE  /\ o.kind = "classic" => \E d \in M : d.call = "classic"
                 /\ o.kind = "eks" => \/ Resources(a)!Call("page", o) \in B
                                      \/ \E d \in M : d.call = "cluster" /\ d.of = o
                 /\ o.kind \notin {"classic", "eks"} =>
                       \/ Resources(a)!Call("page", o) \in B
                       \/ Resources(a)!Elements(o) \subseteq F.elements /\ Resources(a)!Links(o) \subseteq F.relations
      <3>1. o \in live /\ o.region = w[2] /\ Resources(a)!Lister(o) = w[1]
        BY <2>3 DEF RsWorker, RsIInv, Resources!TypeOK
      <3>2. CASE o.kind = "classic"
        BY <2>2, <3>1, <3>2 DEF Resources!Lister
      <3>3. CASE o.kind # "classic"
        <4>1. w[1] = o.kind /\ (o \in page \/ Resources(a)!Call("page", o) \in B)
          BY <3>1, <3>3, RsOnPage DEF Resources!Lister, Resources!Of
        <4>2. w[1] # "eks" /\ o \in page =>
                 Resources(a)!Elements(o) \subseteq F.elements /\ Resources(a)!Links(o) \subseteq F.relations
          BY RsShownByPage DEF RsShows
        <4> HIDE DEF M, F, B
        <4> QED
          BY <2>2, <3>3, <4>1, <4>2
      <3> QED
        BY <3>2, <3>3
    <2> HIDE DEF M, F, B
    <2>4. \A o \in steady : RsWorker(a, o) = w /\ RsDueBy(c, o) =>
             \/ Resources(a)!Call("page", o) \in B
             \/ \E d \in M : RsDueBy(d, o)
             \/ Resources(a)!Elements(o) \subseteq F.elements /\ Resources(a)!Links(o) \subseteq F.relations
      BY <2>3 DEF RsDueBy
    <2>5. \A o, x \in steady : RsWorker(a, o) = w /\ RsTags(o, x) /\ RsTagDueBy(c, o) =>
             \/ Resources(a)!Call("page", o) \in B \/ RsTagPage(o, x) \in B
             \/ \E d \in M : RsTagDueBy(d, o)
             \/ <<Resources(a)!In(o.id), Resources(a)!In(x.id)>> \in F.relations
      BY <2>3 DEF RsTags, RsTagDueBy
    <2>6. Resources(a)!AnswersPage(w, c, M, F.elements, F.relations, B)
      BY <1>2 DEF M, F, B
    <2>7. c \in calls[w] /\ \A d \in M : RsKnown(d, w) /\ d.call \in RsCallsOf(w[1])
      BY <1>1, <2>2
    <2> QED
      BY <2>4, <2>5, <2>6, <2>7, RsAnswersPage
  <1> HIDE DEF Answer, whole, Made
  <1>3. CASE Resources(a)!Fails(w, c, "so far")
    BY <1>1, <1>3, RsFails
  <1> QED
    BY <1>1, <1>2, <1>3

LEMMA RsClassicBalancers ==
    ASSUME NEW a \in DOMAIN Accounts, Resources(a)!Parameters, RsIInv(a), RsAlone(a),
           NEW w \in Resources(a)!Worker, Resources(a)!ClassicBalancers(w)
    PROVE  RsIInv(a)'
  <1> DEFINE whole == Resources(a)!Of("classic", w[2])
             Answer(c, page) == Resources(a)!AnswersPage(w, c, {}, Resources(a)!Made(page).elements,
                                    Resources(a)!Made(page).relations, Resources(a)!Beyond(whole, page))
  <1>1. PICK c \in calls[w] : /\ c.call = "classic"
                             /\ \/ \E page : Answer(c, page)
                                \/ Resources(a)!Fails(w, c, "all")
    BY DEF Resources!ClassicBalancers, Resources!Due
  <1>2. ASSUME NEW page, Answer(c, page) PROVE RsIInv(a)'
    <2> DEFINE F == Resources(a)!Made(page)
               B == Resources(a)!Beyond(whole, page)
    <2>1. \A o \in steady : RsWorker(a, o) = w /\ o.kind = "classic" =>
             \/ Resources(a)!Call("page", o) \in B
             \/ Resources(a)!Elements(o) \subseteq F.elements /\ Resources(a)!Links(o) \subseteq F.relations
      <3>1. \A o \in steady : RsWorker(a, o) = w /\ o.kind = "classic" => o \in whole
        BY DEF RsWorker, RsIInv, Resources!TypeOK, Resources!Of
      <3> HIDE DEF whole
      <3> QED
        BY <3>1, RsOnPage, RsShownByPage DEF RsShows
    <2> HIDE DEF F, B
    <2>2. \A o : (RsDueBy(c, o) => o.kind = "classic") /\ ~RsTagDueBy(c, o)
      BY <1>1 DEF RsDueBy, RsTagDueBy
    <2>3. Resources(a)!AnswersPage(w, c, {}, F.elements, F.relations, B)
      BY <1>2 DEF F, B
    <2> QED
      BY <1>1, <2>1, <2>2, <2>3, RsAnswersPage
  <1> HIDE DEF Answer
  <1>3. CASE Resources(a)!Fails(w, c, "all")
    BY <1>1, <1>3, RsFails
  <1> QED
    BY <1>1, <1>2, <1>3

(* A cluster, its node groups, and the instances tagged with it.           *)
LEMMA RsCluster ==
    ASSUME NEW a \in DOMAIN Accounts, Resources(a)!Parameters, RsIInv(a), RsAlone(a),
           NEW w \in Resources(a)!Worker, Resources(a)!Cluster(w)
    PROVE  RsIInv(a)'
  <1>1. PICK c \in calls[w] :
           /\ c.call = "cluster"
           /\ \/ Resources(a)!Answers(w, c, {Resources(a)!Call("nodegroups", c.of)},
                                      Resources(a)!Elements(c.of), Resources(a)!Links(c.of))
              \/ Resources(a)!Costs(w, c, "so far") /\ UNCHANGED failing
              \/ Resources(a)!Fails(w, c, "so far")
    BY DEF Resources!Cluster, Resources!Due
  <1>2. w[1] = "eks" /\ RsKnown(c, w)
    BY <1>1, RsOwnCalls
  <1>3. CASE Resources(a)!Answers(w, c, {Resources(a)!Call("nodegroups", c.of)},
                                  Resources(a)!Elements(c.of), Resources(a)!Links(c.of))
    <2> DEFINE d == Resources(a)!Call("nodegroups", c.of)
    <2>1. d.of = c.of /\ d.call = "nodegroups"
      BY DEF Resources!Call
    <2> HIDE DEF d
    <2>2. RsKnown(d, w) /\ d.call \in RsCallsOf(w[1])
      BY <1>2, <2>1, RsCallsNamed DEF RsKnown
    <2>3. \A o : (RsDueBy(c, o) => c.of = o) /\ (RsTagDueBy(c, o) => RsTagDueBy(d, o))
      BY <1>1, <2>1 DEF RsDueBy, RsTagDueBy
    <2>4. Resources(a)!Answers(w, c, {d}, Resources(a)!Elements(c.of), Resources(a)!Links(c.of))
      BY <1>3 DEF d
    <2> QED
      BY <2>2, <2>3, <2>4, RsAnswers
  <1>4. CASE Resources(a)!Costs(w, c, "so far") /\ UNCHANGED failing
    <2>1. \A o : Resources(a)!Lister(o) = w[1] => c.call \in Resources(a)!Costly(o.kind)
      BY <1>1, RsCostly DEF RsIInv
    <2>2. failing' \in 0..Accounts[a].MaxFailures
      BY <1>4 DEF RsIInv, Resources!TypeOK
    <2> QED
      BY <1>4, <2>1, <2>2, RsCosts
  <1>5. CASE Resources(a)!Fails(w, c, "so far")
    BY <1>1, <1>5, RsFails
  <1> QED
    BY <1>1, <1>3, <1>4, <1>5

LEMMA RsNodeGroups ==
    ASSUME NEW a \in DOMAIN Accounts, Resources(a)!Parameters, RsIInv(a), RsAlone(a),
           NEW w \in Resources(a)!Worker, Resources(a)!NodeGroups(w)
    PROVE  RsIInv(a)'
  <1> DEFINE Groups(c, page) == {[call |-> "nodegroup", of |-> c.of, nodegroup |-> g] : g \in page}
             M(c, page) == Groups(c, page) \union {Resources(a)!Call("tagged", c.of)}
  <1>1. PICK c \in calls[w] : /\ c.call = "nodegroups"
                             /\ \/ \E page : Resources(a)!Answers(w, c, M(c, page), {}, {})
                                \/ Resources(a)!Fails(w, c, "only")
    BY DEF Resources!NodeGroups, Resources!Due
  <1>2. w[1] = "eks" /\ RsKnown(c, w)
    BY <1>1, RsOwnCalls
  <1>3. ASSUME NEW page, Resources(a)!Answers(w, c, M(c, page), {}, {}) PROVE RsIInv(a)'
    <2>1. /\ \A d \in M(c, page) : d.of = c.of /\ d.call \in {"nodegroup", "tagged"}
          /\ \E d \in M(c, page) : d.of = c.of /\ d.call = "tagged"
      <3> DEFINE tagged == Resources(a)!Call("tagged", c.of)
      <3>1. tagged.of = c.of /\ tagged.call = "tagged"
        BY DEF Resources!Call
      <3>2. \A d \in Groups(c, page) : d.of = c.of /\ d.call = "nodegroup"
        OBVIOUS
      <3>3. M(c, page) = Groups(c, page) \union {tagged}
        OBVIOUS
      <3> HIDE DEF tagged, Groups, M
      <3> QED
        BY <3>1, <3>2, <3>3
    <2> HIDE DEF M
    <2>2. \A d \in M(c, page) : RsKnown(d, w) /\ d.call \in RsCallsOf(w[1])
      BY <1>2, <2>1, RsCallsNamed DEF RsKnown
    <2>3. \A o : ~RsDueBy(c, o) /\ (RsTagDueBy(c, o) => \E d \in M(c, page) : RsTagDueBy(d, o))
      BY <1>1, <2>1 DEF RsDueBy, RsTagDueBy
    <2> QED
      BY <1>3, <2>2, <2>3, RsAnswers
  <1> HIDE DEF M
  <1>4. CASE Resources(a)!Fails(w, c, "only")
    BY <1>1, <1>4, RsFails
  <1> QED
    BY <1>1, <1>3, <1>4

LEMMA RsTaggedInstances ==
    ASSUME NEW a \in DOMAIN Accounts, Resources(a)!Parameters, RsIInv(a), RsAlone(a),
           NEW w \in Resources(a)!Worker, Resources(a)!TaggedInstances(w)
    PROVE  RsIInv(a)'
  <1> DEFINE whole(c) == {x \in Resources(a)!Of("ec2", w[2]) : x.cluster = c.of.id}
             R(c, page) == Resources(a)!From(c.of, {x.id : x \in page})
             B(c, page) == {[call |-> "tagged page", of |-> c.of, instance |-> x] : x \in whole(c) \ page}
  <1>1. PICK c \in calls[w] : /\ c.call = "tagged"
                             /\ \/ \E page : Resources(a)!AnswersPage(w, c, {}, {}, R(c, page), B(c, page))
                                \/ Resources(a)!Fails(w, c, "only")
    BY DEF Resources!TaggedInstances, Resources!Due
  <1>2. ASSUME NEW page, Resources(a)!AnswersPage(w, c, {}, {}, R(c, page), B(c, page))
        PROVE  RsIInv(a)'
    <2>1. ASSUME NEW o \in steady, NEW x \in steady, RsWorker(a, o) = w, RsTags(o, x), RsTagDueBy(c, o)
          PROVE  \/ RsTagPage(o, x) \in B(c, page)
                 \/ <<Resources(a)!In(o.id), Resources(a)!In(x.id)>> \in R(c, page)
      <3>1. c.of = o
        BY <1>1, <2>1 DEF RsTagDueBy
      <3>2. x \in whole(c)
        BY <2>1, <3>1 DEF RsTags, RsWorker, RsIInv, Resources!TypeOK, Resources!Of
      <3>3. CASE x \in page
        <4>1. x.id \in {y.id : y \in page}
          BY <3>3
        <4> QED
          BY <3>1, <4>1 DEF Resources!From, Resources!Ins
      <3>4. CASE x \notin page
        BY <3>1, <3>2, <3>4 DEF RsTagPage
      <3> QED
        BY <3>3, <3>4
    <2> HIDE DEF R, B
    <2>2. \A o : ~RsDueBy(c, o)
      BY <1>1 DEF RsDueBy
    <2> QED
      BY <1>2, <2>1, <2>2, RsAnswersPage
  <1> HIDE DEF R, B
  <1>3. CASE Resources(a)!Fails(w, c, "only")
    BY <1>1, <1>3, RsFails
  <1> QED
    BY <1>1, <1>2, <1>3

LEMMA RsWorkIInv ==
    ASSUME NEW a \in DOMAIN Accounts, Resources(a)!Parameters, RsIInv(a),
           NEW w \in Resources(a)!Worker, Resources(a)!Work(w)
    PROVE  RsIInv(a)'
  <1>1. RsAlone(a)
    BY DEF Resources!Work, Resources!account, RsAlone
  <1> QED
    BY <1>1, RsDescribe, RsTargets, RsTargetHealth, RsClassicBalancers, RsCluster, RsNodeGroups, RsNodeGroup,
       RsTaggedInstances, RsImages, RsImageDetails, RsGroup, RsGroupSubnet,
       RsGroupBalancers, RsGroupClassics DEF Resources!Work

(* All workers are done: what they found is the batch.                     *)
LEMMA RsShipIInv ==
    ASSUME NEW a \in DOMAIN Accounts, RsIInv(a), Resources(a)!Ship PROVE RsIInv(a)'
  <1>1. /\ UNCHANGED <<live, changes, steady, calls, found, failing, excused>>
        /\ at = "crawl" /\ at' = "idle" /\ \A w \in Resources(a)!Worker : calls[w] = {}
        /\ \A w \in Resources(a)!Worker :
              found[w].elements \subseteq sent'.elements /\ found[w].relations \subseteq sent'.relations
    BY DEF Resources!Ship, Resources!account
  <1>2. \A o : /\ RsWorker(a, o)' = RsWorker(a, o) /\ Resources(a)!Excused(o)' = Resources(a)!Excused(o)
               /\ \A x : RsUntagged(a, o, x)' = RsUntagged(a, o, x)
    BY <1>1 DEF RsWorker, Resources!Lister, Resources!Excused, Resources!Costly, Resources!Call, RsUntagged, RsTagPage
  <1>3. Resources(a)!TypeOK'
    BY <1>1 DEF RsIInv, Resources!TypeOK, Resources!Worker
  <1>4. RsControl(a)'
    BY <1>1 DEF RsIInv, RsControl, Resources!Worker
  <1>5. RsFound(a)' /\ RsTagsFound(a)'
    BY <1>1 DEF RsFound, RsTagsFound
  <1>6. RsSent(a)'
    <2> SUFFICES ASSUME NEW o \in steady, RsWorker(a, o) \in Resources(a)!Worker
                 PROVE  /\ Resources(a)!Excused(o) \/ RsShows(a, o, sent')
                        /\ \A x \in steady : RsTags(o, x) => RsUntagged(a, o, x) \/ RsTagged(a, o, x, sent')
      BY <1>1, <1>2 DEF RsSent, Resources!Worker
    <2>1. ~RsDue(a, o) /\ ~RsTagDue(a, o)
      BY <1>1 DEF RsDue, RsTagDue
    <2>2. Resources(a)!Excused(o) \/ RsShows(a, o, found[RsWorker(a, o)])
      BY <1>1, <2>1 DEF RsIInv, RsFound
    <2>3. \A x \in steady : RsTags(o, x) => RsUntagged(a, o, x) \/ RsTagged(a, o, x, found[RsWorker(a, o)])
      BY <1>1, <2>1 DEF RsIInv, RsTagsFound
    <2> QED
      BY <1>1, <2>2, <2>3 DEF RsShows, RsTagged
  <1> QED
    BY <1>3, <1>4, <1>5, <1>6 DEF RsIInv

LEMMA RsNextIInv ==
    ASSUME NEW a \in DOMAIN Accounts, Resources(a)!Parameters, RsIInv(a), Resources(a)!Next PROVE RsIInv(a)'
  BY RsTickIInv, RsShipIInv, RsWorkIInv, RsChangeIInv DEF Resources!Next, Resources!CrawlStep
-----------------------------------------------------------------------------
(* What belongs together is related by what the crawler makes of one of    *)
(* the two, or by a tag.                                                   *)
LEMMA RsLinked ==
    ASSUME NEW a \in DOMAIN Accounts, Resources(a)!Parameters,
           NEW o \in Accounts[a].Resource, NEW x \in Accounts[a].Resource, Resources(a)!Belongs(o, x),
           o.kind = "ec2" => o.vpc # Resources(a)!NoVPC, x.kind = "ec2" => x.vpc # Resources(a)!NoVPC
    PROVE  /\ o.kind # "vpcs" /\ x.kind # "vpcs"
           /\ \/ /\ RsTags(o, x) /\ RsTagPage(o, x) \notin excused
                 /\ \A c \in excused : c.call \in {"nodegroups", "tagged"} => c.of # o
              \/ <<Resources(a)!In(o.id), Resources(a)!In(x.id)>> \in Resources(a)!Links(o) \union Resources(a)!Links(x)
  <1> DEFINE Between == <<Resources(a)!In(o.id), Resources(a)!In(x.id)>>
             To(ids) == o.id \in ids => Between \in Resources(a)!Into(x, ids)
             Of(ids) == x.id \in ids => Between \in Resources(a)!From(o, ids)
  <1>1. \A ids : To(ids) /\ Of(ids)
    BY DEF Resources!Into, Resources!From, Resources!Ins
  <1> HIDE DEF Between
  <1>2. CASE o.kind = "subnets" /\ x.kind \in {"natgws", "ec2"} /\ x.subnet = o.id
    <2>1. To({x.vpc, x.subnet}) /\ o.id \in {x.vpc, x.subnet}
      BY <1>1, <1>2
    <2>2. Resources(a)!Into(x, {x.vpc, x.subnet}) \subseteq Resources(a)!Links(x)
      <3>1. CASE x.kind = "natgws"
        BY <3>1 DEF Resources!Links
      <3>2. CASE x.kind = "ec2"
        BY <3>2 DEF Resources!Links, Resources!Instance
      <3> QED
        BY <1>2, <3>1, <3>2
    <2> QED
      BY <1>2, <2>1, <2>2 DEF Between
  <1>3. CASE o.kind = "subnets" /\ x.kind \in {"lambdas", "rds"} /\ o.id \in x.subnets
    <2>1. CASE x.kind = "lambdas"
      <3>1. x.vpc # Resources(a)!NoVPC
        BY <1>3, <2>1 DEF Resources!Parameters
      <3>2. Resources(a)!Links(x) = Resources(a)!Into(x, {x.vpc} \union x.subnets \union x.groups)
        BY <2>1, <3>1 DEF Resources!Links, Resources!Lambda
      <3>3. To({x.vpc} \union x.subnets \union x.groups) /\ o.id \in {x.vpc} \union x.subnets \union x.groups
        BY <1>1, <1>3
      <3> QED
        BY <1>3, <3>2, <3>3 DEF Between
    <2>2. CASE x.kind = "rds"
      <3> DEFINE ids == {x.vpc, x.zone} \union x.securityGroups \union x.subnets \union x.zones
      <3>1. Resources(a)!Into(x, ids) \subseteq Resources(a)!Links(x)
        BY <2>2 DEF Resources!Links, Resources!Database
      <3>2. To(ids) /\ o.id \in ids
        BY <1>1, <1>3
      <3> QED
        BY <1>3, <3>1, <3>2 DEF Between
    <2> QED
      BY <1>3, <2>1, <2>2
  <1>4. CASE x.kind = "subnets" /\ o.kind \in {"lbs", "eks", "asg"} /\ x.id \in o.subnets
    <2>1. CASE o.kind = "lbs"
      <3>1. Resources(a)!From(o, o.groups \union o.subnets) \subseteq Resources(a)!Links(o)
        BY <2>1 DEF Resources!Links, Resources!LoadBalancer
      <3>2. Of(o.groups \union o.subnets) /\ x.id \in o.groups \union o.subnets
        BY <1>1, <1>4
      <3> QED
        BY <1>4, <3>1, <3>2 DEF Between
    <2>2. CASE o.kind = "eks"
      <3>1. Resources(a)!From(o, o.subnets) \subseteq Resources(a)!Links(o)
        BY <2>2 DEF Resources!Links
      <3> QED
        BY <1>1, <1>4, <3>1 DEF Between
    <2>3. CASE o.kind = "asg"
      <3>1. Resources(a)!From(o, o.subnets \union o.instances) \subseteq Resources(a)!Links(o)
        BY <2>3 DEF Resources!Links
      <3>2. Of(o.subnets \union o.instances) /\ x.id \in o.subnets \union o.instances
        BY <1>1, <1>4
      <3> QED
        BY <1>4, <3>1, <3>2 DEF Between
    <2> QED
      BY <1>4, <2>1, <2>2, <2>3
  <1>5. CASE x.kind = "sec_groups" /\ o.kind \in {"ec2", "lbs", "classic", "rds"} /\ x.id \in o.groups
    <2>1. CASE o.kind = "ec2"
      <3>1. Resources(a)!From(o, {o.image} \union o.groups) \subseteq Resources(a)!Links(o)
        BY <2>1 DEF Resources!Links, Resources!Instance
      <3>2. Of({o.image} \union o.groups) /\ x.id \in {o.image} \union o.groups
        BY <1>1, <1>5
      <3> QED
        BY <1>5, <3>1, <3>2 DEF Between
    <2>2. CASE o.kind = "lbs"
      <3>1. Resources(a)!From(o, o.groups \union o.subnets) \subseteq Resources(a)!Links(o)
        BY <2>2 DEF Resources!Links, Resources!LoadBalancer
      <3>2. Of(o.groups \union o.subnets) /\ x.id \in o.groups \union o.subnets
        BY <1>1, <1>5
      <3> QED
        BY <1>5, <3>1, <3>2 DEF Between
    <2>3. CASE o.kind = "classic"
      <3>1. Resources(a)!From(o, o.instances \union o.groups) \subseteq Resources(a)!Links(o)
        BY <2>3 DEF Resources!Links, Resources!Classic
      <3>2. Of(o.instances \union o.groups) /\ x.id \in o.instances \union o.groups
        BY <1>1, <1>5
      <3> QED
        BY <1>5, <3>1, <3>2 DEF Between
    <2>4. CASE o.kind = "rds"
      <3>1. Resources(a)!From(o, o.groups) \subseteq Resources(a)!Links(o)
        BY <2>4 DEF Resources!Links, Resources!Database
      <3> QED
        BY <1>1, <1>5, <3>1 DEF Between
    <2> QED
      BY <1>5, <2>1, <2>2, <2>3, <2>4
  <1>6. CASE o.kind = "sec_groups" /\ x.kind = "lambdas" /\ o.id \in x.groups
    <2>1. x.vpc # Resources(a)!NoVPC
      BY <1>6 DEF Resources!Parameters
    <2>2. Resources(a)!Links(x) = Resources(a)!Into(x, {x.vpc} \union x.subnets \union x.groups)
      BY <1>6, <2>1 DEF Resources!Links, Resources!Lambda
    <2>3. To({x.vpc} \union x.subnets \union x.groups) /\ o.id \in {x.vpc} \union x.subnets \union x.groups
      BY <1>1, <1>6
    <2> QED
      BY <1>6, <2>2, <2>3 DEF Between
  <1>7. CASE x.kind = "amis" /\ o.kind = "ec2" /\ o.image = x.id
    <2>1. Resources(a)!From(o, {o.image} \union o.groups) \subseteq Resources(a)!Links(o)
      BY <1>7 DEF Resources!Links, Resources!Instance
    <2>2. Of({o.image} \union o.groups) /\ x.id \in {o.image} \union o.groups
      BY <1>1, <1>7
    <2> QED
      BY <1>7, <2>1, <2>2 DEF Between
  <1>8. CASE o.kind = "ec2" /\ x.kind = "vols" /\ o.id \in x.instances
    <2>1. Resources(a)!Into(x, x.instances) \subseteq Resources(a)!Links(x)
      BY <1>8 DEF Resources!Links
    <2> QED
      BY <1>1, <1>8, <2>1 DEF Between
  <1>9. CASE x.kind = "ec2" /\ o.kind \in {"classic", "asg"} /\ x.id \in o.instances
    <2>1. CASE o.kind = "classic"
      <3>1. Resources(a)!From(o, o.instances \union o.groups) \subseteq Resources(a)!Links(o)
        BY <2>1 DEF Resources!Links, Resources!Classic
      <3>2. Of(o.instances \union o.groups) /\ x.id \in o.instances \union o.groups
        BY <1>1, <1>9
      <3> QED
        BY <1>9, <3>1, <3>2 DEF Between
    <2>2. CASE o.kind = "asg"
      <3>1. Resources(a)!From(o, o.subnets \union o.instances) \subseteq Resources(a)!Links(o)
        BY <2>2 DEF Resources!Links
      <3>2. Of(o.subnets \union o.instances) /\ x.id \in o.subnets \union o.instances
        BY <1>1, <1>9
      <3> QED
        BY <1>9, <3>1, <3>2 DEF Between
    <2> QED
      BY <1>9, <2>1, <2>2
  <1>10. CASE /\ o.kind = "eks" /\ x.kind = "ec2" /\ x.cluster = o.id /\ x.region = o.region
              /\ \A c \in excused : c.call \in {"nodegroups", "tagged"} => c.of # o
              /\ [call |-> "tagged page", of |-> o, instance |-> x] \notin excused
    BY <1>10 DEF RsTags, RsTagPage
  <1> QED
    BY <1>2, <1>3, <1>4, <1>5, <1>6, <1>7, <1>8, <1>9, <1>10 DEF Resources!Belongs

LEMMA RsAllShown ==
    ASSUME NEW a \in DOMAIN Accounts, Resources(a)!Parameters, RsIInv(a)
    PROVE  Resources(a)!ResourcesShown
  <1> SUFFICES ASSUME Resources(a)!Complete, NEW o \in Accounts[a].Resource, Resources(a)!Listed(o)
               PROVE  /\ Resources(a)!Id(o) \in sent.elements
                      /\ \A x \in Accounts[a].Resource : Resources(a)!Listed(x) /\ Resources(a)!Belongs(o, x) =>
                            <<Resources(a)!Id(o), Resources(a)!Id(x)>> \in sent.relations
    BY DEF Resources!ResourcesShown
  <1>1. \A x \in Accounts[a].Resource : Resources(a)!Listed(x) =>
           /\ x \in steady /\ ~Resources(a)!Excused(x) /\ RsWorker(a, x) \in Resources(a)!Worker
           /\ RsShows(a, x, sent) /\ (x.kind = "ec2" => x.vpc # Resources(a)!NoVPC)
    BY DEF Resources!Listed, RsWorker, RsIInv, RsSent
  <1>2. Resources(a)!Id(o) \in sent.elements
    <2>1. Resources(a)!Elements(o) = {Resources(a)!Id(o)}
      BY <1>1 DEF Resources!Elements
    <2> QED
      BY <1>1, <2>1 DEF RsShows
  <1>3. ASSUME NEW x \in Accounts[a].Resource, Resources(a)!Listed(x), Resources(a)!Belongs(o, x)
        PROVE  <<Resources(a)!Id(o), Resources(a)!Id(x)>> \in sent.relations
    <2>1. Resources(a)!Id(o) = Resources(a)!In(o.id) /\ Resources(a)!Id(x) = Resources(a)!In(x.id)
      BY <1>1, <1>3, RsLinked DEF Resources!Id
    <2>2. CASE <<Resources(a)!In(o.id), Resources(a)!In(x.id)>> \in Resources(a)!Links(o) \union Resources(a)!Links(x)
      BY <1>1, <1>3, <2>1, <2>2 DEF RsShows
    <2>3. CASE /\ RsTags(o, x) /\ RsTagPage(o, x) \notin excused
               /\ \A c \in excused : c.call \in {"nodegroups", "tagged"} => c.of # o
      <3>1. ~RsUntagged(a, o, x)
        BY <1>1, <2>3 DEF RsUntagged
      <3>2. RsTagged(a, o, x, sent)
        BY <1>1, <1>3, <2>3, <3>1 DEF RsIInv, RsSent
      <3> QED
        BY <2>1, <3>2 DEF RsTagged
    <2> QED
      BY <1>1, <1>3, <2>2, <2>3, RsLinked
  <1> QED
    BY <1>2, <1>3
-----------------------------------------------------------------------------
(* Any number of accounts, one crawled at a time, or the flow logs.        *)
AwsIInv == \A a \in DOMAIN Accounts : part = a => RsIInv(a)

LEMMA RsSame ==
    ASSUME NEW a \in DOMAIN Accounts, RsIInv(a), UNCHANGED resources PROVE RsIInv(a)'
  <1>1. /\ UNCHANGED <<live, at, calls, found, sent, failing, changes, steady, excused>>
    BY DEF resources
  <1>2. \A o : /\ RsWorker(a, o)' = RsWorker(a, o) /\ RsDue(a, o)' = RsDue(a, o) /\ RsTagDue(a, o)' = RsTagDue(a, o)
               /\ Resources(a)!Excused(o)' = Resources(a)!Excused(o)
               /\ \A x : RsUntagged(a, o, x)' = RsUntagged(a, o, x)
    BY <1>1 DEF RsWorker, Resources!Lister, RsDue, RsTagDue, Resources!Excused, Resources!Costly, Resources!Call, RsUntagged, RsTagPage
  <1>3. Resources(a)!TypeOK' /\ RsControl(a)'
    BY <1>1 DEF RsIInv, Resources!TypeOK, RsControl, Resources!Worker
  <1>4. RsFound(a)' /\ RsTagsFound(a)'
    BY <1>1, <1>2 DEF RsIInv, RsFound, RsTagsFound, Resources!Worker
  <1>5. RsSent(a)'
    BY <1>1, <1>2 DEF RsIInv, RsSent, Resources!Complete, Resources!Worker, Resources!Empty
  <1> QED
    BY <1>3, <1>4, <1>5 DEF RsIInv

LEMMA AwsInitIInv == ASSUME AwsInit PROVE AwsIInv
  <1> SUFFICES ASSUME NEW a \in DOMAIN Accounts, part = a PROVE RsIInv(a)
    BY DEF AwsIInv
  <1>1. Resources(a)!Parameters /\ a # "flows"
    BY AwsAssumption
  <1>2. Resources(a)!Init
    BY <1>1 DEF AwsInit
  <1> QED
    BY <1>1, <1>2, RsInitIInv

LEMMA AwsNextIInv == ASSUME AwsIInv, [AwsNext]_all PROVE AwsIInv'
  <1> SUFFICES ASSUME NEW a \in DOMAIN Accounts, part' = a PROVE RsIInv(a)'
    BY DEF AwsIInv
  <1>1. Resources(a)!Parameters /\ a # "flows"
    BY AwsAssumption
  <1>2. part = a /\ RsIInv(a)
    BY DEF AwsNext, all, AwsIInv
  <1>3. CASE Resources(a)!Next
    BY <1>1, <1>2, <1>3, RsNextIInv
  <1>4. CASE UNCHANGED resources
    BY <1>2, <1>4, RsSame
  <1> QED
    BY <1>1, <1>2, <1>3, <1>4 DEF AwsNext, all

LEMMA AwsInductive == AwsSpec => []AwsIInv
  BY AwsInitIInv, AwsNextIInv, PTL DEF AwsSpec

(* For any accounts, failing calls and changes between the calls: what was *)
(* there all through a crawl is in its batch, with its relations to what   *)
(* it belongs to, or a call it hangs on failed or it was beyond the first  *)
(* page of its list, the only one vpc.go asks for.                         *)
THEOREM ResourcesAreShown == AwsSpec => []ResourcesShown
  <1>1. ASSUME AwsIInv PROVE ResourcesShown
    <2> SUFFICES ASSUME NEW a \in DOMAIN Accounts, part = a
                 PROVE  Resources(a)!TypeOK /\ Resources(a)!ResourcesShown
      BY DEF ResourcesShown
    <2>1. Resources(a)!Parameters /\ RsIInv(a)
      BY <1>1, AwsAssumption DEF AwsIInv
    <2> QED
      BY <2>1, RsAllShown DEF RsIInv
  <1> QED
    BY <1>1, AwsInductive, PTL

(* Both facts about the flow logs hold of the composition, too.            *)
THEOREM FlowsAreKept == AwsSpec => [](NoSilentLoss /\ ShippedOnce)
  <1>1. AwsInit => IInv
    BY InitIInv DEF AwsInit
  <1>2. IInv /\ [AwsNext]_all => IInv'
    <2>1. [AwsNext]_all => [Next]_vars
      BY DEF AwsNext, all
    <2> QED
      BY <2>1, NextIInv
  <1>3. IInv => NoSilentLoss /\ ShippedOnce
    BY DEF IInv, MarkAccounted, Accounted, NoSilentLoss, Once, ShippedOnce
  <1> QED
    BY <1>1, <1>2, <1>3, PTL DEF AwsSpec
=============================================================================
