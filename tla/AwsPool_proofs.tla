--------------------------- MODULE AwsPool_proofs ---------------------------
(***************************************************************************)
(* For any number of regions, kinds, crawls and any capacity: no worker    *)
(* sends on a closed channel, and every batch holds what every worker of   *)
(* its crawl found.                                                        *)
(***************************************************************************)
EXTENDS AwsPool, FiniteSetTheorems, TLAPS

(* The workers the WaitGroup of a crawl waits for. *)
Active(c) == {w \in Worker : worker[c][w] \in {"running", "sent"}}
Counted == \A c \in Crawls : wg[c] = Cardinality(Active(c))

(* A crawl in progress has started its workers in order, and no crawl after *)
(* it has started any.                                                      *)
Progress ==
    /\ pc # "tick" =>
        /\ crawl \in Crawls
        /\ \A w \in Worker : w > next => worker[crawl][w] = "none"
    /\ pc \in {"regions", "account"} => next = 0
    /\ pc = "start" => next <= Total(regions[crawl])
    /\ pc \in {"closer", "collect"} => next = Total(regions[crawl])
    /\ \A c \in Crawls : c > crawl =>
        /\ \A w \in Worker : worker[c][w] = "none"
        /\ closer[c] = "none" /\ results[c] = {} /\ answered[c] = {}

(* The channel of a crawl is closed only when its workers have ended. *)
Closing ==
    /\ pc \notin {"tick", "collect"} => closer[crawl] = "none"
    /\ \A c \in Crawls : closer[c] = "closed" => Active(c) = {}

(* What the senders of the crawl in progress found is on the channel or    *)
(* collected.                                                              *)
Accounted ==
    /\ \A c \in Crawls : \A w \in Worker :
        worker[c][w] = "running" => w \notin answered[c]
    /\ pc # "tick" =>
        /\ collected = answered[crawl] \ results[crawl]
        /\ answered[crawl] \subseteq {Owner} \union 1..next
        /\ Owner \in answered[crawl] <=> pc \in {"closer", "collect"}

(* The crawl of a batch is over. *)
Over ==
    \A b \in out :
        /\ b.crawl <= crawl
        /\ b.crawl = crawl => pc = "tick"
        /\ Active(b.crawl) = {}

IInv ==
    /\ TypeOK /\ Counted
    /\ Progress /\ Closing
    /\ Accounted /\ Over /\ BatchesComplete
-----------------------------------------------------------------------------
(* A crawl of fewer regions starts no more workers than Worker has. *)
LEMMA TotalBounds ==
    ASSUME NEW n \in 0..MaxRegions
    PROVE  Total(n) \in Nat /\ 1 <= Total(n) /\ Total(n) <= Total(MaxRegions)
<1>1. n * Kinds \in Nat /\ MaxRegions * Kinds \in Nat /\ (MaxRegions - n) * Kinds \in Nat
    BY AwsPoolAssumption
<1>2. MaxRegions * Kinds = n * Kinds + (MaxRegions - n) * Kinds
    BY AwsPoolAssumption
<1> QED BY <1>1, <1>2 DEF Total

LEMMA WorkerFinite ==
    /\ IsFiniteSet(Worker)
    /\ Total(MaxRegions) \in Nat
<1>1. Total(MaxRegions) \in Nat BY AwsPoolAssumption DEF Total
<1> QED BY <1>1, FS_Interval DEF Worker

(* What an action does to the set of active workers, and so to the count. *)
LEMMA ActiveFinite ==
    ASSUME NEW c \in Crawls
    PROVE  IsFiniteSet(Active(c)) /\ Cardinality(Active(c)) \in Nat
BY WorkerFinite, FS_Subset, FS_CardinalityType DEF Active

LEMMA NoneActive ==
    ASSUME NEW c \in Crawls
    PROVE  Cardinality(Active(c)) = 0 <=> Active(c) = {}
BY ActiveFinite, FS_EmptySet
-----------------------------------------------------------------------------
LEMMA InvInit == Init => IInv
<1> SUFFICES ASSUME Init PROVE IInv
    OBVIOUS
<1>1. TypeOK
    BY AwsPoolAssumption, WorkerFinite DEF Init, TypeOK, Crawls
<1>2. \A c \in Crawls : Active(c) = {}
    BY DEF Init, Active
<1>3. Counted
    BY <1>2, FS_EmptySet DEF Init, Counted
<1>4. Progress /\ Closing
    BY DEF Init, Progress, Closing
<1>5. Accounted /\ Over /\ BatchesComplete
    BY DEF Init, Accounted, Over, BatchesComplete
<1> QED BY <1>1, <1>3, <1>4, <1>5 DEF IInv

(* The count follows the active workers. *)
LEMMA CountedStep == IInv /\ [Next]_vars => TypeOK' /\ Counted'
<1> SUFFICES ASSUME IInv, [Next]_vars PROVE TypeOK' /\ Counted'
    OBVIOUS
<1> USE DEF IInv
<1>a. TypeOK /\ Counted OBVIOUS
<1>1. CASE Tick
    <2>1. TypeOK' BY <1>1, WorkerFinite, AwsPoolAssumption DEF Tick, TypeOK, pool
    <2>2. Counted' BY <1>1 DEF Tick, Counted, Active, pool
    <2> QED BY <2>1, <2>2
<1>2. CASE DescribeRegions
    <2>1. TypeOK' BY <1>2 DEF DescribeRegions, TypeOK, pool
    <2>2. Counted' BY <1>2 DEF DescribeRegions, Counted, Active, pool
    <2> QED BY <2>1, <2>2
<1>3. CASE RegionsFail \/ Account \/ SessionFails
    <2>1. TypeOK' BY <1>3 DEF RegionsFail, Account, SessionFails, TypeOK, pool
    <2>2. Counted' BY <1>3 DEF RegionsFail, Account, SessionFails, Counted, Active, pool
    <2> QED BY <2>1, <2>2
<1>4. CASE AccountPanics
    <2>1. TypeOK' BY <1>4 DEF AccountPanics, TypeOK
    <2>2. \A c \in Crawls : wg'[c] = 0 /\ Active(c)' = {}
        BY <1>4 DEF AccountPanics, Active
    <2>3. Counted' BY <2>2, FS_EmptySet DEF Counted
    <2> QED BY <2>1, <2>3
<1>5. CASE StartWorker
    <2>1. /\ crawl \in Crawls /\ next \in Nat /\ next + 1 \in Worker
          /\ next + 1 <= Total(MaxRegions)
          /\ worker[crawl][next + 1] = "none"
        <3>1. crawl \in Crawls BY <1>5 DEF StartWorker, Progress
        <3>2. next < Total(regions[crawl]) /\ next \in Nat
            BY <1>5, WorkerFinite DEF StartWorker, TypeOK
        <3>3. next + 1 \in Worker /\ next + 1 <= Total(MaxRegions)
            BY <3>1, <3>2, TotalBounds, WorkerFinite DEF TypeOK, Worker
        <3>4. worker[crawl][next + 1] = "none"
            BY <1>5, <3>2, <3>3 DEF StartWorker, Progress
        <3> QED BY <3>1, <3>2, <3>3, <3>4
    <2>2. TypeOK'
        BY <1>5, <2>1, WorkerFinite DEF StartWorker, TypeOK
    <2>3. Active(crawl)' = Active(crawl) \union {next + 1} /\ next + 1 \notin Active(crawl)
        BY <1>5, <2>1 DEF StartWorker, Active, TypeOK
    <2>4. \A c \in Crawls \ {crawl} : Active(c)' = Active(c) /\ wg'[c] = wg[c]
        BY <1>5, <2>1 DEF StartWorker, Active, TypeOK
    <2>5. Cardinality(Active(crawl)') = Cardinality(Active(crawl)) + 1
        BY <2>1, <2>3, ActiveFinite, FS_AddElement
    <2>6. wg'[crawl] = wg[crawl] + 1 /\ crawl' = crawl
        BY <1>5, <2>1 DEF StartWorker, TypeOK
    <2>7. Counted'
        BY <2>4, <2>5, <2>6, <2>1 DEF Counted
    <2> QED BY <2>2, <2>7
<1>6. CASE SendOwner \/ StartCloser \/ Receive \/ Ship
    <2>0. crawl \in Crawls
        BY <1>6 DEF SendOwner, StartCloser, Receive, Ship, Progress
    <2>1. TypeOK'
        <3>1. CASE SendOwner
            BY <2>0, <3>1 DEF SendOwner, TypeOK, Message
        <3>2. CASE StartCloser
            BY <2>0, <3>2 DEF StartCloser, TypeOK
        <3>3. CASE Receive
            BY <2>0, <3>3 DEF Receive, TypeOK
        <3>4. CASE Ship
            <4>1. [crawl |-> crawl, messages |-> collected] \in [crawl : Crawls, messages : SUBSET Message]
                BY <2>0 DEF TypeOK
            <4> QED BY <4>1, <3>4 DEF Ship, TypeOK, pool
        <3> QED BY <1>6, <3>1, <3>2, <3>3, <3>4
    <2>2. Counted'
        BY <1>6 DEF SendOwner, StartCloser, Receive, Ship, Counted, Active, pool
    <2> QED BY <2>1, <2>2
<1>7. ASSUME NEW c \in Crawls, Close(c) PROVE TypeOK' /\ Counted'
    <2>1. TypeOK' BY <1>7 DEF Close, TypeOK
    <2>2. Counted' BY <1>7 DEF Close, Counted, Active
    <2> QED BY <2>1, <2>2
<1>8. ASSUME NEW c \in Crawls, NEW w \in Worker, Send(c, w) PROVE TypeOK' /\ Counted'
    <2>1. TypeOK' BY <1>8 DEF Send, TypeOK, Message
    <2>2. \A d \in Crawls : Active(d)' = Active(d)
        BY <1>8 DEF Send, Active, TypeOK
    <2>3. Counted' BY <1>8, <2>2 DEF Send, Counted
    <2> QED BY <2>1, <2>3
<1>9. ASSUME NEW c \in Crawls, NEW w \in Worker, Done(c, w) PROVE TypeOK' /\ Counted'
    <2>1. Active(c)' = Active(c) \ {w} /\ w \in Active(c)
        BY <1>9 DEF Done, Active, TypeOK
    <2>2. \A d \in Crawls \ {c} : Active(d)' = Active(d) /\ wg'[d] = wg[d]
        BY <1>9 DEF Done, Active, TypeOK
    <2>3. Cardinality(Active(c)') = Cardinality(Active(c)) - 1
        BY <2>1, ActiveFinite, FS_RemoveElement
    <2>4. Cardinality(Active(c)) # 0
        BY <2>1, NoneActive
    <2>5. wg[c] = Cardinality(Active(c)) /\ wg[c] - 1 \in Nat
        BY <2>4, ActiveFinite DEF Counted
    <2>6. TypeOK' BY <1>9, <2>5 DEF Done, TypeOK
    <2>7. wg'[c] = wg[c] - 1 BY <1>9 DEF Done, TypeOK
    <2>8. Counted' BY <2>2, <2>3, <2>5, <2>7 DEF Counted
    <2> QED BY <2>6, <2>8
<1>10. CASE UNCHANGED vars
    <2>1. TypeOK' BY <1>10 DEF vars, pool, TypeOK
    <2>2. Counted' BY <1>10 DEF vars, pool, Counted, Active
    <2> QED BY <2>1, <2>2
<1> QED BY <1>1, <1>2, <1>3, <1>4, <1>5, <1>6, <1>7, <1>8, <1>9, <1>10 DEF Next, Crawl, RunWorker
-----------------------------------------------------------------------------
(* Workers are started in order, and by the crawl in progress only. *)
LEMMA ProgressStep == IInv /\ [Next]_vars => Progress'
<1> SUFFICES ASSUME IInv, [Next]_vars PROVE Progress'
    OBVIOUS
<1> USE DEF IInv
<1>0. \A c \in Crawls : regions[c] \in 0..MaxRegions /\ 1 <= Total(regions[c]) /\ Total(regions[c]) \in Nat
    BY TotalBounds DEF TypeOK
<1>t. /\ crawl \in 0..MaxCrawls /\ MaxCrawls \in Nat /\ next \in Nat
      /\ Total(MaxRegions) \in Nat
    BY AwsPoolAssumption, WorkerFinite DEF TypeOK
<1>1. CASE Tick
    BY <1>1, <1>t DEF Tick, Progress, Crawls, Worker, pool
<1>2. CASE DescribeRegions
    <2>1. crawl \in Crawls /\ next = 0 BY <1>2 DEF DescribeRegions, Progress
    <2>2. \A w \in Worker : worker[crawl][w] = "none"
        BY <1>2, <1>t, <2>1 DEF DescribeRegions, Progress, Worker
    <2> QED BY <1>2, <2>1, <2>2 DEF DescribeRegions, Progress, pool
<1>3. CASE RegionsFail \/ SessionFails \/ Ship
    BY <1>3 DEF RegionsFail, SessionFails, Ship, Progress, pool
<1>4. CASE Account
    BY <1>4, <1>0 DEF Account, Progress, pool
<1>5. CASE AccountPanics
    BY <1>5 DEF AccountPanics, Progress
<1>6. CASE StartWorker
    <2>1. crawl \in Crawls BY <1>6 DEF StartWorker, Progress
    <2>2. Total(regions[crawl]) \in Nat /\ next + 1 <= Total(regions[crawl])
        BY <1>0, <1>t, <1>6, <2>1 DEF StartWorker
    <2>3. \A w \in Worker : w > next + 1 => worker'[crawl][w] = "none"
        BY <1>6, <1>t, <2>1 DEF StartWorker, Progress, TypeOK, Worker
    <2>4. \A c \in Crawls : c > crawl =>
            /\ worker'[c] = worker[c] /\ closer'[c] = closer[c]
            /\ results'[c] = results[c] /\ answered'[c] = answered[c]
        BY <1>6, <1>t, <2>1 DEF StartWorker, TypeOK, Crawls
    <2> QED BY <1>6, <2>1, <2>2, <2>3, <2>4 DEF StartWorker, Progress
<1>7. CASE SendOwner \/ StartCloser \/ Receive
    <2>1. crawl \in Crawls BY <1>7 DEF SendOwner, StartCloser, Receive, Progress
    <2>2. \A c \in Crawls : c > crawl =>
            /\ closer'[c] = closer[c]
            /\ results'[c] = results[c] /\ answered'[c] = answered[c]
        BY <1>7, <1>t, <2>1 DEF SendOwner, StartCloser, Receive, TypeOK, Crawls
    <2> QED BY <1>7, <2>1, <2>2 DEF SendOwner, StartCloser, Receive, Progress
<1>8. ASSUME NEW c \in Crawls, Close(c) PROVE Progress'
    <2>1. ~(c > crawl) BY <1>8 DEF Close, Progress
    <2> QED BY <1>8, <2>1 DEF Close, Progress, TypeOK
<1>9. ASSUME NEW c \in Crawls, NEW w \in Worker, RunWorker(c, w) PROVE Progress'
    <2>1. ~(c > crawl) BY <1>9 DEF RunWorker, Send, Done, Progress
    <2>2. pc # "tick" /\ c = crawl => ~(w > next)
        BY <1>9 DEF RunWorker, Send, Done, Progress
    <2>3. \A d \in Crawls : \A v \in Worker : d # c \/ v # w => worker'[d][v] = worker[d][v]
        BY <1>9 DEF RunWorker, Send, Done, TypeOK
    <2>4. \A d \in Crawls : d # c => results'[d] = results[d] /\ answered'[d] = answered[d]
        BY <1>9 DEF RunWorker, Send, Done, TypeOK
    <2>5. UNCHANGED <<pc, crawl, regions, next, closer>>
        BY <1>9 DEF RunWorker, Send, Done
    <2> QED BY <2>1, <2>2, <2>3, <2>4, <2>5 DEF Progress
<1>10. CASE UNCHANGED vars
    BY <1>10 DEF vars, pool, Progress
<1> QED BY <1>1, <1>2, <1>3, <1>4, <1>5, <1>6, <1>7, <1>8, <1>9, <1>10 DEF Next, Crawl

(* A channel is closed after its workers, and no worker is started then. *)
LEMMA ClosingStep == IInv /\ [Next]_vars => Closing'
<1> SUFFICES ASSUME IInv, [Next]_vars PROVE Closing'
    OBVIOUS
<1> USE DEF IInv
<1>1. CASE Tick
    <2>1. crawl + 1 \in Crawls /\ crawl + 1 > crawl
        BY <1>1, AwsPoolAssumption DEF Tick, TypeOK, Crawls
    <2> QED BY <1>1, <2>1 DEF Tick, Closing, Progress, pool, Active
<1>2. CASE DescribeRegions \/ RegionsFail \/ Account \/ SessionFails \/ SendOwner \/ Receive \/ Ship
    BY <1>2 DEF DescribeRegions, RegionsFail, Account, SessionFails, SendOwner, Receive, Ship,
                Closing, pool, Active
<1>3. CASE AccountPanics
    BY <1>3 DEF AccountPanics, Closing
<1>4. CASE StartWorker
    <2>1. closer[crawl] = "none" BY <1>4 DEF StartWorker, Closing
    <2>2. \A c \in Crawls : c # crawl => Active(c)' = Active(c)
        BY <1>4 DEF StartWorker, Active, TypeOK
    <2> QED BY <1>4, <2>1, <2>2 DEF StartWorker, Closing
<1>5. CASE StartCloser
    BY <1>5 DEF StartCloser, Closing, TypeOK, Active
<1>6. ASSUME NEW c \in Crawls, Close(c) PROVE Closing'
    <2>1. Active(c) = {} BY <1>6, NoneActive DEF Close, Counted
    <2>2. closer[c] = "waiting" BY <1>6 DEF Close
    <2>3. \A d \in Crawls : Active(d)' = Active(d)
        BY <1>6 DEF Close, Active
    <2>4. \A d \in Crawls : d # c => closer'[d] = closer[d]
        BY <1>6 DEF Close, TypeOK
    <2>5. pc' \notin {"tick", "collect"} => crawl' \in Crawls /\ crawl' # c /\ closer'[crawl'] = "none"
        BY <1>6, <2>2, <2>4 DEF Close, Closing, Progress
    <2> QED BY <2>1, <2>3, <2>4, <2>5 DEF Closing
<1>7. ASSUME NEW c \in Crawls, NEW w \in Worker, RunWorker(c, w) PROVE Closing'
    <2>1. \A d \in Crawls : Active(d)' \subseteq Active(d)
        BY SMTT(30), <1>7 DEF RunWorker, Send, Done, Active, TypeOK
    <2>2. UNCHANGED <<pc, crawl, closer>>
        BY <1>7 DEF RunWorker, Send, Done
    <2> QED BY <2>1, <2>2 DEF Closing
<1>8. CASE UNCHANGED vars
    BY <1>8 DEF vars, pool, Closing, Active
<1> QED BY <1>1, <1>2, <1>3, <1>4, <1>5, <1>6, <1>7, <1>8 DEF Next, Crawl

(* Whatever a sender of the crawl in progress found is on its way. *)
LEMMA AccountedStep == IInv /\ [Next]_vars => Accounted'
<1> SUFFICES ASSUME IInv, [Next]_vars PROVE Accounted'
    OBVIOUS
<1> USE DEF IInv
<1>t. next \in Nat /\ \A c \in Crawls : answered[c] \subseteq Message
    BY WorkerFinite DEF TypeOK
<1>1. CASE Tick
    <2>1. crawl + 1 \in Crawls /\ crawl + 1 > crawl
        BY <1>1, AwsPoolAssumption DEF Tick, TypeOK, Crawls
    <2>2. answered[crawl + 1] = {} /\ results[crawl + 1] = {}
        BY <2>1 DEF Progress
    <2> QED BY <1>1, <2>2 DEF Tick, Accounted, pool
<1>2. CASE DescribeRegions \/ RegionsFail \/ Account \/ SessionFails \/ Ship
    BY <1>2 DEF DescribeRegions, RegionsFail, Account, SessionFails, Ship, Accounted, pool
<1>3. CASE AccountPanics
    BY <1>3 DEF AccountPanics, Accounted
<1>4. CASE StartWorker
    <2>1. next + 1 \notin answered[crawl] /\ answered[crawl] \subseteq {Owner} \union 1..(next + 1)
        BY <1>4, <1>t DEF StartWorker, Accounted, Owner
    <2>2. \A c \in Crawls : \A w \in Worker :
            worker'[c][w] = worker[c][w] \/ (c = crawl /\ w = next + 1)
        BY <1>4 DEF StartWorker, TypeOK
    <2>3. \A c \in Crawls : \A w \in Worker :
            worker'[c][w] = "running" => w \notin answered'[c]
        BY <1>4, <2>1, <2>2 DEF StartWorker, Accounted
    <2> QED BY <1>4, <2>1, <2>3 DEF StartWorker, Accounted
<1>5. CASE SendOwner
    <2>1. crawl \in Crawls /\ Owner \notin answered[crawl] /\ Owner \notin Worker
        BY <1>5, WorkerFinite DEF SendOwner, Progress, Accounted, Owner, Worker
    <2>2. /\ answered'[crawl] = answered[crawl] \union {Owner}
          /\ results'[crawl] = results[crawl] \union {Owner}
          /\ \A c \in Crawls : c # crawl => answered'[c] = answered[c]
        BY <1>5, <2>1 DEF SendOwner, TypeOK
    <2>3. \A c \in Crawls : \A w \in Worker :
            worker'[c][w] = "running" => w \notin answered'[c]
        BY <1>5, <2>1, <2>2 DEF SendOwner, Accounted
    <2>4. collected' = answered'[crawl] \ results'[crawl]
        BY <1>5, <2>1, <2>2 DEF SendOwner, Accounted
    <2> QED BY <1>5, <2>1, <2>2, <2>3, <2>4 DEF SendOwner, Accounted
<1>6. CASE StartCloser
    BY <1>6 DEF StartCloser, Accounted
<1>7. CASE Receive
    <2>1. crawl \in Crawls BY <1>7 DEF Receive, Progress
    <2>2. PICK m \in results[crawl] :
            /\ results' = [results EXCEPT ![crawl] = @ \ {m}]
            /\ collected' = collected \union ({m} \intersect answered[crawl])
        BY <1>7 DEF Receive
    <2>3. results'[crawl] = results[crawl] \ {m}
        BY <2>1, <2>2 DEF TypeOK
    <2>4. collected' = answered[crawl] \ results'[crawl]
        BY <1>7, <2>2, <2>3 DEF Receive, Accounted
    <2> QED BY <1>7, <2>4 DEF Receive, Accounted
<1>8. ASSUME NEW c \in Crawls, Close(c) PROVE Accounted'
    BY <1>8 DEF Close, Accounted
<1>9. ASSUME NEW c \in Crawls, NEW w \in Worker, Send(c, w) PROVE Accounted'
    <2>1. w \notin answered[c] /\ w # Owner
        BY <1>9, WorkerFinite DEF Send, Accounted, Owner, Worker
    <2>2. /\ answered'[c] \in {answered[c], answered[c] \union {w}}
          /\ results'[c] = results[c] \union {w}
          /\ \A d \in Crawls : d # c => answered'[d] = answered[d] /\ results'[d] = results[d]
        BY <1>9 DEF Send, TypeOK
    <2>3. \A d \in Crawls : \A v \in Worker :
            worker'[d][v] = "running" => worker[d][v] = "running" /\ ~(d = c /\ v = w)
        BY <1>9 DEF Send, TypeOK
    <2>4. \A d \in Crawls : \A v \in Worker :
            worker'[d][v] = "running" => v \notin answered'[d]
        BY <2>2, <2>3 DEF Accounted
    <2>5. pc # "tick" /\ c = crawl => w \in 1..next
        BY <1>9, <1>t, WorkerFinite DEF Send, Progress, Worker
    <2>6. pc # "tick" =>
            /\ collected = answered'[crawl] \ results'[crawl]
            /\ answered'[crawl] \subseteq {Owner} \union 1..next
            /\ Owner \in answered'[crawl] <=> Owner \in answered[crawl]
        BY <2>1, <2>2, <2>5 DEF Accounted, Progress
    <2> QED BY <1>9, <2>4, <2>6 DEF Send, Accounted
<1>10. ASSUME NEW c \in Crawls, NEW w \in Worker, Done(c, w) PROVE Accounted'
    <2>1. \A d \in Crawls : \A v \in Worker :
            worker'[d][v] = "running" => worker[d][v] = "running"
        BY <1>10 DEF Done, TypeOK
    <2> QED BY <1>10, <2>1 DEF Done, Accounted
<1>11. CASE UNCHANGED vars
    BY <1>11 DEF vars, pool, Accounted
<1> QED BY <1>1, <1>2, <1>3, <1>4, <1>5, <1>6, <1>7, <1>8, <1>9, <1>10, <1>11
        DEF Next, Crawl, RunWorker

(* A batch is made once all the workers of its crawl have ended, and what *)
(* it was made from does not change afterwards.                           *)
LEMMA BatchesStep == IInv /\ [Next]_vars => Over' /\ BatchesComplete'
<1> SUFFICES ASSUME IInv, [Next]_vars PROVE Over' /\ BatchesComplete'
    OBVIOUS
<1> USE DEF IInv
<1>t. /\ \A b \in out : b.crawl \in Crawls
      /\ crawl \in Nat /\ Crawls \subseteq Nat
    BY AwsPoolAssumption DEF TypeOK, Crawls
<1>1. CASE Tick
    <2>1. ASSUME NEW b \in out PROVE b.crawl <= crawl' /\ b.crawl # crawl'
        <3>1. b.crawl \in Nat /\ b.crawl <= crawl /\ crawl \in Nat BY <1>t DEF Over
        <3>2. crawl' = crawl + 1 BY <1>1 DEF Tick
        <3> QED BY <3>1, <3>2
    <2>2. \A c \in Crawls : Active(c)' = Active(c)
        BY <1>1 DEF Tick, Active, pool
    <2>3. Over' BY <1>1, <1>t, <2>1, <2>2 DEF Tick, Over
    <2>4. BatchesComplete' BY <1>1 DEF Tick, BatchesComplete, pool
    <2> QED BY <2>3, <2>4
<1>2. CASE DescribeRegions
    <2>1. \A b \in out : b.crawl # crawl BY <1>2 DEF DescribeRegions, Over
    <2>2. \A b \in out : regions'[b.crawl] = regions[b.crawl]
        BY <1>2, <1>t, <2>1 DEF DescribeRegions, TypeOK
    <2> QED BY <1>2, <2>1, <2>2 DEF DescribeRegions, Over, BatchesComplete, Active, pool
<1>3. CASE RegionsFail \/ Account \/ SessionFails
    BY <1>3 DEF RegionsFail, Account, SessionFails, Over, BatchesComplete, Active, pool
<1>4. CASE AccountPanics
    BY <1>4, <1>t DEF AccountPanics, Over, BatchesComplete, Active
<1>5. CASE StartWorker
    <2>1. \A b \in out : b.crawl # crawl BY <1>5 DEF StartWorker, Over
    <2>2. \A c \in Crawls : c # crawl => Active(c)' = Active(c)
        BY <1>5 DEF StartWorker, Active, TypeOK
    <2> QED BY <1>5, <1>t, <2>1, <2>2 DEF StartWorker, Over, BatchesComplete
<1>6. CASE SendOwner
    <2>1. \A b \in out : b.crawl # crawl BY <1>6 DEF SendOwner, Over
    <2>2. \A b \in out : answered'[b.crawl] = answered[b.crawl]
        BY <1>6, <1>t, <2>1 DEF SendOwner, TypeOK
    <2> QED BY <1>6, <2>1, <2>2 DEF SendOwner, Over, BatchesComplete, Active
<1>7. CASE StartCloser \/ Receive
    BY <1>7 DEF StartCloser, Receive, Over, BatchesComplete, Active
<1>8. CASE Ship
    <2>1. crawl \in Crawls /\ next = Total(regions[crawl])
        BY <1>8 DEF Ship, Progress
    <2>2. collected = {Owner} \union (answered[crawl] \intersect 1..Total(regions[crawl]))
        BY <1>8, <2>1 DEF Ship, Accounted
    <2>3. Active(crawl) = {} BY <1>8, <2>1 DEF Ship, Closing
    <2>4. \A b \in out' : b \in out \/ b = [crawl |-> crawl, messages |-> collected]
        BY <1>8 DEF Ship
    <2>5. BatchesComplete' BY <1>8, <2>2, <2>4 DEF Ship, BatchesComplete, pool
    <2>6. \A c \in Crawls : Active(c)' = Active(c) BY <1>8 DEF Ship, pool, Active
    <2>7. Over'
        <3> SUFFICES ASSUME NEW b \in out'
                     PROVE  b.crawl <= crawl /\ Active(b.crawl)' = {}
            BY <1>8 DEF Ship, Over
        <3>1. CASE b \in out
            BY <1>t, <2>6, <3>1 DEF Over
        <3>2. CASE b = [crawl |-> crawl, messages |-> collected]
            BY <1>t, <2>1, <2>3, <2>6, <3>2
        <3> QED BY <2>4, <3>1, <3>2
    <2> QED BY <2>5, <2>7
<1>9. ASSUME NEW c \in Crawls, Close(c) PROVE Over' /\ BatchesComplete'
    BY <1>9 DEF Close, Over, BatchesComplete, Active
<1>10. ASSUME NEW c \in Crawls, NEW w \in Worker, RunWorker(c, w)
       PROVE  Over' /\ BatchesComplete'
    <2>1. w \in Active(c) BY <1>10 DEF RunWorker, Send, Done, Active
    <2>2. \A b \in out : b.crawl # c BY <2>1 DEF Over
    <2>3. \A d \in Crawls : d # c => Active(d)' = Active(d) /\ answered'[d] = answered[d]
        BY <1>10 DEF RunWorker, Send, Done, Active, TypeOK
    <2>4. UNCHANGED <<pc, crawl, regions, out>> BY <1>10 DEF RunWorker, Send, Done
    <2> QED BY <1>t, <2>2, <2>3, <2>4 DEF Over, BatchesComplete
<1>11. CASE UNCHANGED vars
    BY <1>11 DEF vars, pool, Over, BatchesComplete, Active
<1> QED BY <1>1, <1>2, <1>3, <1>4, <1>5, <1>6, <1>7, <1>8, <1>9, <1>10, <1>11 DEF Next, Crawl
-----------------------------------------------------------------------------
THEOREM Invariance == Spec => []IInv
<1>1. IInv /\ [Next]_vars => IInv'
    BY CountedStep, ProgressStep, ClosingStep, AccountedStep, BatchesStep DEF IInv
<1> QED BY InvInit, <1>1, PTL DEF Spec

(* Every variable keeps its type: no WaitGroup counts below zero. *)
THEOREM PoolTypeCorrect == Spec => []TypeOK
<1>1. IInv => TypeOK BY DEF IInv
<1> QED BY Invariance, <1>1, PTL

(* No worker of a crawl sends after its results channel was closed. *)
THEOREM NoSendOnClosed == Spec => []ClosedAfterLastSend
<1>1. IInv => ClosedAfterLastSend
    <2> SUFFICES ASSUME IInv, NEW c \in Crawls, closer[c] = "closed"
                 PROVE  /\ \A w \in Worker : worker[c][w] # "running"
                        /\ c = crawl => pc \in {"collect", "tick"}
        BY DEF ClosedAfterLastSend
    <2>1. Active(c) = {} BY DEF IInv, Closing
    <2>2. c = crawl => pc \in {"collect", "tick"} BY DEF IInv, Closing
    <2> QED BY <2>1, <2>2 DEF Active
<1> QED BY Invariance, <1>1, PTL

(* Every batch has the owner and what each worker of its crawl found. *)
THEOREM NothingMissing == Spec => []BatchesComplete
<1>1. IInv => BatchesComplete BY DEF IInv
<1> QED BY Invariance, <1>1, PTL
=============================================================================
