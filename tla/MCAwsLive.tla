----------------------------- MODULE MCAwsLive -----------------------------
(* What the AWS integrations come to in the end: the pool of workers of a  *)
(* crawl or, in a run of its own, the flow-log crawler on a bucket with    *)
(* nothing it cannot read.                                                 *)
EXTENDS AwsPool

CONSTANTS g1, g2, Unreadable

VARIABLES part,
          contents, bucket, stateFile, lastHandledKey, tick, todo,
          flows, shipped, failures, passed, lost, markLost

flowLogs == <<contents, bucket, stateFile, lastHandledKey, tick, todo,
              flows, shipped, failures, passed, lost, markLost>>
all == <<part, vars, flowLogs>>

Flow == INSTANCE FlowLogs WITH
    pc <- tick, Goroutine <- {g1, g2}, MaxKey <- 3, PageSize <- 2, MaxFailures <- 1,
    Contents <- {<<"no gzip", "flow log", "flow log">>}
-----------------------------------------------------------------------------
LiveInit == part \in {"pool", "flows"} /\ Init /\ Flow!Init

InPool == part = "pool" /\ UNCHANGED <<part, flowLogs>>
InFlows == part = "flows" /\ UNCHANGED <<part, vars>>

LiveNext == (InPool /\ Next) \/ (InFlows /\ Flow!Next)

(* The fairness of the flow logs.  No step of the pool can be repeated, so *)
(* it is enough that one of its goroutines goes on, which is less than     *)
(* AwsPool's fairness says.                                                *)
LiveSpec ==
    /\ LiveInit /\ [][LiveNext]_all
    /\ WF_all(InPool /\ Next)
    /\ \A k \in Flow!Key : WF_all(InFlows /\ Flow!Age(k))
    /\ WF_all(InFlows /\ \E g \in {g1, g2} : Flow!Tick(g))
    /\ \A g \in {g1, g2} : SF_all(InFlows /\ Flow!Crawl(g))
-----------------------------------------------------------------------------
(* A file that is old is shipped in the end, unless its loss has a cause.  *)
OldFilesHandled == Flow!OldFilesHandled
=============================================================================
