-------------------------------- MODULE Aws --------------------------------
(***************************************************************************)
(* The AWS integrations, one at a time, since they share nothing but the   *)
(* channel: the flow-log crawler on its bucket, or the crawler of          *)
(* resources on one of several accounts, each given with what may exist in *)
(* it, which calls may fail and how much may change.                       *)
(***************************************************************************)
EXTENDS FlowLogs, Sequences

CONSTANTS Parts,         \* "flows" or an account
          Accounts       \* name -> the constants of its crawler

VARIABLES part,
          live, at, calls, found, sent, failing, changes, steady, excused

resources == <<live, at, calls, found, sent, failing, changes, steady, excused>>
all == <<part, vars, resources>>

Resources(a) == INSTANCE AwsCrawler WITH
    pc <- at, todo <- calls, failures <- failing,
    Resource <- Accounts[a].Resource, Initially <- Accounts[a].Initially,
    Kinds <- Accounts[a].Kinds, Regions <- Accounts[a].Regions, Account <- Accounts[a].Account,
    PageSize <- Accounts[a].PageSize, Fallible <- Accounts[a].Fallible,
    MaxFailures <- Accounts[a].MaxFailures, MaxChanges <- Accounts[a].MaxChanges

ASSUME AwsAssumption ==
    \A a \in DOMAIN Accounts : Resources(a)!Parameters /\ a # "flows"
-----------------------------------------------------------------------------
(* What a part leaves alone while it is not the one that runs.             *)
NoResources ==
    /\ live = {} /\ at = "idle" /\ calls = <<>> /\ found = <<>> /\ sent = <<>>
    /\ failing = 0 /\ changes = 0 /\ steady = {} /\ excused = {}

AwsInit ==
    /\ part \in Parts /\ Init
    /\ \/ part = "flows" /\ NoResources
       \/ \E a \in DOMAIN Accounts : part = a /\ Resources(a)!Init

AwsNext ==
    \/ part = "flows" /\ Next /\ UNCHANGED <<part, resources>>
    \/ \E a \in DOMAIN Accounts : part = a /\ Resources(a)!Next /\ UNCHANGED <<part, vars>>

AwsSpec == AwsInit /\ [][AwsNext]_all
-----------------------------------------------------------------------------
(* A resource is in the batch unless a call it hangs on failed or it was   *)
(* beyond the page of its list, and so are its relations to others,        *)
(* whatever the workers do in between.                                     *)
ResourcesShown ==
    \A a \in DOMAIN Accounts : part = a => Resources(a)!TypeOK /\ Resources(a)!ResourcesShown

(* "scoped by the upstream system identity" (README.md:341): the elements  *)
(* of the resources have the scope in their ID.                            *)
AssetsScoped == \A a \in DOMAIN Accounts : part = a => Resources(a)!AssetsScoped
=============================================================================
