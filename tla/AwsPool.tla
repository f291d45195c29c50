------------------------------ MODULE AwsPool ------------------------------
(***************************************************************************)
(* One crawl of the AWS crawler (internal/integrations/aws, crawl and      *)
(* worker): a worker per region and kind of resource and one for the       *)
(* buckets, a results channel they all send on, a WaitGroup, a goroutine   *)
(* that closes the channel, and the crawl itself, which collects.  A crawl *)
(* that gives up leaves its workers behind, next to those of later crawls. *)
(*                                                                         *)
(* Workers are numbered as they are started, Kinds for each region and the *)
(* one for the buckets last.  A message is its sender: 0 for the owner     *)
(* element, else the worker.                                               *)
(***************************************************************************)
EXTENDS Naturals, FiniteSets

CONSTANTS MaxRegions,
          Kinds,        \* workers started for each region (17)
          Capacity,     \* of the results channel (5000)
          MaxCrawls     \* bounds the ticks

ASSUME AwsPoolAssumption ==
    /\ MaxRegions \in Nat /\ Kinds \in Nat \ {0}
    /\ Capacity \in Nat /\ MaxCrawls \in Nat
    /\ Capacity > MaxRegions * Kinds + 1

(* How many workers a crawl of n regions starts.                           *)
Total(n) == n * Kinds + 1

Crawls == 1..MaxCrawls
Worker == 1..Total(MaxRegions)
Owner == 0
Message == Worker \union {Owner}

VARIABLES pc,          \* where the crawl is
          crawl,       \* its number
          regions,     \* of each crawl: how many regions AWS answered with
          next,        \* workers it has started
          worker,      \* of each crawl: where a worker is
          wg,          \* of each crawl: the counter of its WaitGroup
          results,     \* of each crawl: messages on its channel
          closer,      \* of each crawl: the goroutine that closes the channel
          answered,    \* of each crawl: senders whose message is not empty
          collected,   \* messages whose elements are in crawledData
          out          \* batches sent, with the crawl they are from

pool == <<worker, wg, results, closer, answered>>
vars == <<pc, crawl, regions, next, pool, collected, out>>

(* Mutant: a channel with room for one message. *)
HasLittleRoom(c) == Cardinality(results[c]) < 1

HasRoom(c) == Cardinality(results[c]) < Capacity
-----------------------------------------------------------------------------
Init ==
    /\ pc = "tick" /\ crawl = 0 /\ next = 0
    /\ regions = [c \in Crawls |-> 0]
    /\ worker = [c \in Crawls |-> [w \in Worker |-> "none"]]
    /\ wg = [c \in Crawls |-> 0]
    /\ results = [c \in Crawls |-> {}]
    /\ closer = [c \in Crawls |-> "none"]
    /\ answered = [c \in Crawls |-> {}]
    /\ collected = {} /\ out = {}

(* The loop of Crawl waits for the crawl it called: ticks do not overlap.  *)
Tick ==
    /\ pc = "tick" /\ crawl < MaxCrawls
    /\ crawl' = crawl + 1
    /\ pc' = "regions" /\ next' = 0 /\ collected' = {}
    /\ UNCHANGED <<regions, pool, out>>

DescribeRegions ==
    /\ pc = "regions"
    /\ \E n \in 0..MaxRegions : regions' = [regions EXCEPT ![crawl] = n]
    /\ pc' = "account"
    /\ UNCHANGED <<crawl, next, pool, collected, out>>

RegionsFail ==
    /\ pc = "regions"
    /\ pc' = "tick"
    /\ UNCHANGED <<crawl, regions, next, pool, collected, out>>

(* The owner element; the account is dereferenced even if there is none,   *)
(* which ends the process and with it every worker left behind.            *)
Account ==
    /\ pc = "account"
    /\ pc' = "start"
    /\ UNCHANGED <<crawl, regions, next, pool, collected, out>>

AccountPanics ==
    /\ pc = "account"
    /\ pc' = "tick"
    /\ worker' = [c \in Crawls |-> [w \in Worker |-> "none"]]
    /\ wg' = [c \in Crawls |-> 0]
    /\ results' = [c \in Crawls |-> {}]
    /\ closer' = [c \in Crawls |-> "none"]
    /\ UNCHANGED <<crawl, regions, next, answered, collected, out>>
-----------------------------------------------------------------------------
(* wg.Add(1) and go worker(...), for every region and then the buckets.    *)
StartWorker ==
    /\ pc = "start"
    /\ next < Total(regions[crawl])
    /\ next' = next + 1
    /\ wg' = [wg EXCEPT ![crawl] = @ + 1]
    /\ worker' = [worker EXCEPT ![crawl][next + 1] = "running"]
    /\ UNCHANGED <<pc, crawl, regions, results, closer, answered, collected, out>>

(* A session is made before the workers of a region: without one the crawl *)
(* returns at once and leaves those it started to themselves.              *)
SessionFails ==
    /\ pc = "start"
    /\ next + 1 < Total(regions[crawl])
    /\ next % Kinds = 0
    /\ pc' = "tick"
    /\ UNCHANGED <<crawl, regions, next, pool, collected, out>>

SendOwner ==
    /\ pc = "start"
    /\ next = Total(regions[crawl])
    /\ HasRoom(crawl)
    /\ results' = [results EXCEPT ![crawl] = @ \union {Owner}]
    /\ answered' = [answered EXCEPT ![crawl] = @ \union {Owner}]
    /\ pc' = "closer"
    /\ UNCHANGED <<crawl, regions, next, worker, wg, closer, collected, out>>

(* Mutant: the closer is started before the last worker. *)
StartCloserEarly ==
    /\ \/ pc = "closer" /\ pc' = "collect"
       \/ pc = "start" /\ next + 1 = Total(regions[crawl]) /\ pc' = pc
    /\ closer[crawl] = "none" \/ pc = "closer"
    /\ closer' = [closer EXCEPT ![crawl] = IF @ = "none" THEN "waiting" ELSE @]
    /\ UNCHANGED <<crawl, regions, next, worker, wg, results, answered, collected, out>>

StartCloser ==
    /\ pc = "closer"
    /\ closer' = [closer EXCEPT ![crawl] = "waiting"]
    /\ pc' = "collect"
    /\ UNCHANGED <<crawl, regions, next, worker, wg, results, answered, collected, out>>

(* One round of range results.                                             *)
Receive ==
    /\ pc = "collect"
    /\ \E m \in results[crawl] :
        /\ results' = [results EXCEPT ![crawl] = @ \ {m}]
        /\ collected' = collected \union ({m} \intersect answered[crawl])
    /\ UNCHANGED <<pc, crawl, regions, next, worker, wg, closer, answered, out>>

(* Mutant: the crawl stops when nothing is there to receive. *)
ShipDrained ==
    /\ pc = "collect"
    /\ results[crawl] = {}
    /\ out' = out \union {[crawl |-> crawl, messages |-> collected]}
    /\ pc' = "tick"
    /\ UNCHANGED <<crawl, regions, next, pool, collected>>

(* The channel is closed and drained: crawl returns, and Crawl sends.      *)
Ship ==
    /\ pc = "collect"
    /\ closer[crawl] = "closed" /\ results[crawl] = {}
    /\ out' = out \union {[crawl |-> crawl, messages |-> collected]}
    /\ pc' = "tick"
    /\ UNCHANGED <<crawl, regions, next, pool, collected>>
-----------------------------------------------------------------------------
(* A call that fails makes an empty message, like one that finds nothing.  *)
Send(c, w) ==
    /\ worker[c][w] = "running"
    /\ HasRoom(c)
    /\ results' = [results EXCEPT ![c] = @ \union {w}]
    /\ \/ answered' = [answered EXCEPT ![c] = @ \union {w}]
       \/ UNCHANGED answered
    /\ worker' = [worker EXCEPT ![c][w] = "sent"]
    /\ UNCHANGED <<pc, crawl, regions, next, wg, closer, collected, out>>

(* Mutant: a worker whose message is empty does not count down. *)
DoneIfAnswered(c, w) ==
    /\ worker[c][w] = "sent"
    /\ w \in answered[c]
    /\ worker' = [worker EXCEPT ![c][w] = "done"]
    /\ wg' = [wg EXCEPT ![c] = @ - 1]
    /\ UNCHANGED <<pc, crawl, regions, next, results, closer, answered, collected, out>>

Done(c, w) ==
    /\ worker[c][w] = "sent"
    /\ worker' = [worker EXCEPT ![c][w] = "done"]
    /\ wg' = [wg EXCEPT ![c] = @ - 1]
    /\ UNCHANGED <<pc, crawl, regions, next, results, closer, answered, collected, out>>

(* wg.Wait returns.                                                        *)
Close(c) ==
    /\ closer[c] = "waiting"
    /\ wg[c] = 0
    /\ closer' = [closer EXCEPT ![c] = "closed"]
    /\ UNCHANGED <<pc, crawl, regions, next, worker, wg, results, answered, collected, out>>
-----------------------------------------------------------------------------
Crawl ==
    \/ Tick \/ DescribeRegions \/ RegionsFail \/ Account \/ AccountPanics
    \/ StartWorker \/ SessionFails \/ SendOwner \/ StartCloser \/ Receive \/ Ship

RunWorker(c, w) == Send(c, w) \/ Done(c, w)

Next ==
    \/ Crawl
    \/ \E c \in Crawls : Close(c) \/ \E w \in Worker : RunWorker(c, w)

(* Goroutines are scheduled, and every call to AWS returns.                *)
Spec == /\ Init /\ [][Next]_vars
        /\ WF_vars(Crawl)
        /\ \A c \in Crawls : WF_vars(Close(c)) /\ \A w \in Worker : WF_vars(RunWorker(c, w))
-----------------------------------------------------------------------------
(* Every variable has its type; no WaitGroup counts below zero, which is a *)
(* panic.                                                                  *)
TypeOK ==
    /\ pc \in {"tick", "regions", "account", "start", "closer", "collect"}
    /\ crawl \in 0..MaxCrawls
    /\ regions \in [Crawls -> 0..MaxRegions]
    /\ next \in 0..Total(MaxRegions)
    /\ worker \in [Crawls -> [Worker -> {"none", "running", "sent", "done"}]]
    /\ wg \in [Crawls -> Nat]
    /\ results \in [Crawls -> SUBSET Message]
    /\ closer \in [Crawls -> {"none", "waiting", "closed"}]
    /\ answered \in [Crawls -> SUBSET Message]
    /\ collected \subseteq Message
    /\ out \subseteq [crawl : Crawls, messages : SUBSET Message]

(* A closed channel has no sender left: sending on it would be a panic.    *)
ClosedAfterLastSend ==
    \A c \in Crawls : closer[c] = "closed" =>
        /\ \A w \in Worker : worker[c][w] # "running"
        /\ c = crawl => pc \in {"collect", "tick"}

(* A batch has the owner and what every worker of its crawl found, however *)
(* workers are scheduled and whatever an abandoned crawl still sends.      *)
BatchesComplete ==
    \A b \in out :
        b.messages = {Owner} \union (answered[b.crawl] \intersect 1..Total(regions[b.crawl]))

Working(c) == \E w \in Worker : worker[c][w] = "running"

(* Every crawl returns: it never waits for a worker that waits for it; and *)
(* every worker ends, also when the crawl it belongs to has given up and   *)
(* nobody reads its channel.                                               *)
CrawlsEnd ==
    /\ pc # "tick" ~> pc = "tick"
    /\ \A c \in Crawls : Working(c) ~> ~Working(c)
=============================================================================
