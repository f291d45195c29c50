------------------------------ MODULE FlowLogs ------------------------------
(***************************************************************************)
(* The AWS flow-log crawler (internal/integrations/aws_flow_logs): every   *)
(* tick starts a goroutine that lists the objects of a bucket after the    *)
(* last handled key, reads the flow-log files among them, writes the new   *)
(* mark to a state file and ships what it read.  A mutex covers everything *)
(* but the send.  One data source of this type: all of them use the same   *)
(* state file, see the README.                                             *)
(*                                                                         *)
(* Objects are numbered in the order of their keys, which S3 lists in.     *)
(* A batch is the set of files its flows are from; "shipped" means put on  *)
(* the channel that Ingest takes over from.                                *)
(***************************************************************************)
EXTENDS Naturals, FiniteSets

CONSTANTS Goroutine,    \* bounds the ticks that overlap
          MaxKey,
          Contents,     \* what the objects of a bucket may be, in the order of their keys
          PageSize,     \* of a ListObjectsV2 answer (1000)
          MaxFailures,  \* bound on failing calls and crashes
          Unreadable    \* a state file that is missing or does not decode

Key == 1..MaxKey
NoKey == 0

ASSUME FlowLogsAssumption ==
    /\ MaxKey \in Nat /\ PageSize \in Nat \ {0} /\ MaxFailures \in Nat
    /\ Contents \subseteq [Key -> {"flow log", "panics", "no gzip"}]
    /\ Unreadable \notin Nat

VARIABLES contents,        \* files, files whose reading panics, keys without the suffix .gz
          bucket,          \* whether an object is there, and for how long
          stateFile,       \* ./flowLogsState.json
          lastHandledKey,
          pc,              \* where the goroutine of a tick is
          todo,            \* objects of its listing still to be looked at
          flows,           \* files its batch was read from
          shipped,         \* how often the flows of a file were shipped
          failures,        \* failing calls and crashes so far
          passed,          \* ghost: files a crawl left out so far
          lost,            \* ghost: files with a known cause of not being shipped
          markLost         \* ghost: a restart found no mark where one had been

objects == <<contents, bucket>>
crawler == <<stateFile, lastHandledKey>>
crawls == <<pc, todo, flows, passed>>
outcome == <<shipped, lost, markLost>>
vars == <<objects, crawler, crawls, outcome, failures>>

NotGzip == {k \in Key : contents[k] = "no gzip"}
Corrupt == {k \in Key : contents[k] = "panics"}
FlowLog == Key \ NotGzip
Critical == {"list", "read", "write"}
Free == \A g \in Goroutine : pc[g] \notin Critical

Go(g, next) == pc' = [pc EXCEPT ![g] = next]

(* A bounded number of calls fail; see the liveness property.              *)
MayFail == failures < MaxFailures /\ failures' = failures + 1
-----------------------------------------------------------------------------
Init ==
    /\ contents \in Contents
    /\ bucket = [k \in Key |-> "absent"]
    /\ stateFile = Unreadable
    /\ lastHandledKey = NoKey
    /\ pc = [g \in Goroutine |-> "idle"]
    /\ todo = [g \in Goroutine |-> {}]
    /\ flows = [g \in Goroutine |-> {}]
    /\ passed = [g \in Goroutine |-> {}]
    /\ shipped = [k \in Key |-> 0]
    /\ lost = {} /\ markLost = FALSE
    /\ failures = 0

(* AWS delivers an object, perhaps after one with a later key; fifteen     *)
(* minutes after its LastModified it is old.                               *)
Deliver(k) ==
    /\ bucket[k] = "absent"
    /\ bucket' = [bucket EXCEPT ![k] = "recent"]
    /\ lost' = IF \E j \in Key : j > k /\ bucket[j] # "absent"
               THEN lost \union {k} ELSE lost
    /\ UNCHANGED <<contents, crawler, crawls, shipped, markLost, failures>>

Age(k) ==
    /\ bucket[k] = "recent"
    /\ bucket' = [bucket EXCEPT ![k] = "old"]
    /\ UNCHANGED <<contents, crawler, crawls, outcome, failures>>
-----------------------------------------------------------------------------
(* The ticker does not wait for the goroutine it started before.           *)
Tick(g) ==
    /\ pc[g] = "idle"
    /\ Go(g, "lock")
    /\ UNCHANGED <<objects, crawler, todo, flows, passed, outcome, failures>>

(* crawl takes the mutex and loads the state; without one it goes on from  *)
(* the key in memory.                                                      *)
Lock(g) ==
    /\ pc[g] = "lock"
    /\ Free
    /\ lastHandledKey' = IF stateFile = Unreadable THEN lastHandledKey ELSE stateFile
    /\ Go(g, "list")
    /\ UNCHANGED <<objects, stateFile, todo, flows, passed, outcome, failures>>

(* The first page of the objects after a key; the rest is for later ticks. *)
Page(start) ==
    LET after == {k \in Key : k > start /\ bucket[k] # "absent"} IN
    {k \in after : Cardinality({j \in after : j < k}) < PageSize}

ListObjects(g) ==
    /\ pc[g] = "list"
    /\ todo' = [todo EXCEPT ![g] = Page(lastHandledKey)]
    /\ Go(g, "read")
    /\ UNCHANGED <<objects, crawler, flows, passed, outcome, failures>>

ListFails(g) ==
    /\ pc[g] = "list"
    /\ MayFail
    /\ Go(g, "idle")
    /\ UNCHANGED <<objects, crawler, todo, flows, passed, outcome>>

(* The loop over the listing, in the order of the keys.                    *)
Visits(g, k) ==
    /\ pc[g] = "read"
    /\ k \in todo[g] /\ \A j \in todo[g] : k <= j
Skipped(k) == bucket[k] = "recent" \/ k \in NotGzip
LeaveOut(g, k) ==
    /\ todo' = [todo EXCEPT ![g] = @ \ {k}]
    /\ passed' = [passed EXCEPT ![g] = @ \union {k}]
    /\ UNCHANGED <<objects, crawler, pc, flows, outcome>>

(* Mutant: break instead of continue. *)
SkipBreaks(g, k) ==
    /\ Visits(g, k)
    /\ Skipped(k)
    /\ todo' = [todo EXCEPT ![g] = {}]
    /\ UNCHANGED <<objects, crawler, pc, flows, passed, outcome, failures>>

(* Mutant: the mark moves over a file that was skipped. *)
SkipMarks(g, k) ==
    /\ Visits(g, k)
    /\ Skipped(k)
    /\ todo' = [todo EXCEPT ![g] = @ \ {k}]
    /\ lastHandledKey' = k
    /\ UNCHANGED <<objects, stateFile, pc, flows, passed, outcome, failures>>

Skip(g, k) ==
    /\ Visits(g, k)
    /\ Skipped(k)
    /\ LeaveOut(g, k)
    /\ UNCHANGED failures

GetObjectFails(g, k) ==
    /\ Visits(g, k)
    /\ ~Skipped(k)
    /\ MayFail
    /\ LeaveOut(g, k)

(* The mark moves past whatever this crawl left out before.                *)
ReadFile(g, k) ==
    /\ Visits(g, k)
    /\ ~Skipped(k)
    /\ k \notin Corrupt
    /\ todo' = [todo EXCEPT ![g] = @ \ {k}]
    /\ flows' = [flows EXCEPT ![g] = @ \union {k}]
    /\ lastHandledKey' = k
    /\ lost' = lost \union passed[g]
    /\ passed' = [passed EXCEPT ![g] = {}]
    /\ UNCHANGED <<objects, stateFile, pc, shipped, markLost, failures>>
-----------------------------------------------------------------------------
(* os.WriteFile truncates the file and then writes it.                     *)
Truncate(g) ==
    /\ pc[g] = "read" /\ todo[g] = {}
    /\ stateFile' = Unreadable
    /\ Go(g, "write")
    /\ UNCHANGED <<objects, lastHandledKey, todo, flows, passed, outcome, failures>>

(* The file is written and the mutex is free again.                        *)
WriteState(g) ==
    /\ pc[g] = "write"
    /\ stateFile' = lastHandledKey
    /\ Go(g, "send")
    /\ UNCHANGED <<objects, lastHandledKey, todo, flows, passed, outcome, failures>>

(* Mutant: the batch is shipped although the state was not written. *)
WriteFailsShipping(g) ==
    /\ pc[g] = "write" \/ (pc[g] = "read" /\ todo[g] = {})
    /\ MayFail
    /\ Go(g, "send")
    /\ UNCHANGED <<objects, crawler, todo, flows, passed, outcome>>

(* writeState fails, before the file is truncated or after: the batch is   *)
(* dropped.  Its files are read again only if the old mark is still there. *)
WriteFails(g) ==
    /\ pc[g] = "write" \/ (pc[g] = "read" /\ todo[g] = {})
    /\ MayFail
    /\ lost' = IF stateFile = Unreadable THEN lost \union flows[g] ELSE lost
    /\ Go(g, "idle")
    /\ flows' = [flows EXCEPT ![g] = {}]
    /\ passed' = [passed EXCEPT ![g] = {}]
    /\ UNCHANGED <<objects, crawler, todo, shipped, markLost>>

(* The send, outside the mutex, of a batch that may well be empty.         *)
Ship(g) ==
    /\ pc[g] = "send"
    /\ shipped' = [k \in Key |-> IF k \in flows[g] THEN shipped[k] + 1 ELSE shipped[k]]
    /\ Go(g, "idle")
    /\ flows' = [flows EXCEPT ![g] = {}]
    /\ passed' = [passed EXCEPT ![g] = {}]
    /\ UNCHANGED <<objects, crawler, todo, lost, markLost, failures>>

(* The process dies; NewAWSFlowLogs starts from the state file.            *)
Die ==
    /\ pc' = [g \in Goroutine |-> "idle"]
    /\ todo' = [g \in Goroutine |-> {}]
    /\ flows' = [g \in Goroutine |-> {}]
    /\ passed' = [g \in Goroutine |-> {}]
    /\ lastHandledKey' = IF stateFile = Unreadable THEN NoKey ELSE stateFile
    /\ lost' = lost \union UNION {flows[g] : g \in {h \in Goroutine : pc[h] = "send"}}
    /\ markLost' = (markLost \/ stateFile = Unreadable)
    /\ UNCHANGED <<objects, stateFile, shipped>>

Crash == MayFail /\ Die

(* gzip.NewReader returns a nil reader, or a row has too few columns.      *)
Panic(g, k) ==
    /\ Visits(g, k)
    /\ ~Skipped(k)
    /\ k \in Corrupt
    /\ Die
    /\ UNCHANGED failures

Crawl(g) ==
    \/ Lock(g) \/ ListObjects(g) \/ ListFails(g)
    \/ \E k \in Key : Skip(g, k) \/ GetObjectFails(g, k) \/ ReadFile(g, k) \/ Panic(g, k)
    \/ Truncate(g) \/ WriteState(g) \/ WriteFails(g) \/ Ship(g)

Next ==
    \/ \E k \in Key : Deliver(k) \/ Age(k)
    \/ \E g \in Goroutine : Tick(g) \/ Crawl(g)
    \/ Crash

(* Time passes and the ticker goes on; a goroutine that waits for the      *)
(* mutex gets it, since a starving Go mutex is handed over in order; every *)
(* call returns.                                                           *)
Spec == /\ Init /\ [][Next]_vars
        /\ \A k \in Key : WF_vars(Age(k))
        /\ WF_vars(\E g \in Goroutine : Tick(g))
        /\ \A g \in Goroutine : SF_vars(Crawl(g))
-----------------------------------------------------------------------------
(* Every variable has its type, and one goroutine at a time is inside the  *)
(* crawl.                                                                  *)
TypeOK ==
    /\ bucket \in [Key -> {"absent", "recent", "old"}]
    /\ stateFile \in Key \union {NoKey, Unreadable}
    /\ lastHandledKey \in Key \union {NoKey}
    /\ pc \in [Goroutine -> {"idle", "lock", "send"} \union Critical]
    /\ todo \in [Goroutine -> SUBSET Key]
    /\ flows \in [Goroutine -> SUBSET FlowLog]
    /\ passed \in [Goroutine -> SUBSET Key]
    /\ shipped \in [Key -> Nat]
    /\ lost \subseteq Key /\ markLost \in BOOLEAN
    /\ failures \in 0..MaxFailures
    /\ \A g, h \in Goroutine : {pc[g], pc[h]} \subseteq Critical => g = h

(* Where the next crawl starts. *)
Mark == IF stateFile = Unreadable THEN lastHandledKey ELSE stateFile

(* However ticks overlap and calls fail, no file before the mark is        *)
(* missing without a cause: its flows were shipped, or a goroutine carries *)
(* them, or a crawl that left the file out (recent, or not fetched) read a *)
(* later one, or the process died between the state and the send, or the   *)
(* state could not be written, or the file arrived behind a later key.     *)
NoSilentLoss ==
    /\ TypeOK
    /\ \A k \in FlowLog :
        k <= Mark => \/ bucket[k] = "absent"
                     \/ shipped[k] > 0
                     \/ \E g \in Goroutine : k \in flows[g]
                     \/ k \in lost

(* No file is shipped twice, neither by overlapping ticks nor after an     *)
(* error or a restart, unless the restart found the state file truncated.  *)
ShippedOnce == markLost \/ \A k \in Key : shipped[k] <= 1

(* Once errors cease, every file that is old enough is shipped, or has a   *)
(* known cause of being lost; objects that are no flow logs do not stop    *)
(* the crawls as long as they do not fill a page.  A file on which the     *)
(* process dies may do so again and again, and hold up all others.         *)
OldFilesHandled ==
    \A k \in Key :
        (k \in FlowLog /\ bucket[k] = "old") ~>
            \/ shipped[k] > 0 \/ k \in lost
            \/ \E j \in Corrupt : bucket[j] = "old"
=============================================================================
