------------------------------ MODULE Startup ------------------------------
(***************************************************************************)
(* From a configuration to running crawlers: Start racing with the Run of  *)
(* tool calls over what a configuration comes to (Runner); and, one at a   *)
(* time with that, the loop of Start on the pairs of a configuration       *)
(* (CrawlerConfig).                                                        *)
(***************************************************************************)
EXTENDS Runner, Integers, Sequences

CONSTANTS Sources,       \* the configurations the loop goes through
          Env,           \* environment variable -> text
          MaxDuration    \* durations from MaxDuration on are negative

VARIABLES part, sources, group, loading, next, crawler, state, alive

loop == <<sources, group, loading, next, crawler, state, alive>>
all == <<part, vars, loop>>

Loop == INSTANCE CrawlerConfig WITH Configs <- Sources

ASSUME StartupAssumption == Loop!Parameters
-----------------------------------------------------------------------------
NoRace ==
    /\ config = CHOOSE c \in Configs : TRUE
    /\ mu = {} /\ started = FALSE /\ runID = 0 /\ uuids = 0
    /\ launched = [d \in DataSource |-> 0] /\ pc = [c \in Caller |-> "idle"]
    /\ todo = [c \in Caller |-> {}] /\ already = [c \in Caller |-> FALSE]
    /\ answer = [c \in Caller |-> 0] /\ late = {}
NoLoop ==
    /\ sources = <<>> /\ group = Loop!NoText /\ loading = 0 /\ next = 0 /\ crawler = Loop!New /\ state = <<>>
    /\ alive = TRUE

StartupInit ==
    \/ part = "race" /\ Init /\ NoLoop
    \/ part = "loop" /\ Loop!Init /\ NoRace

Race == part = "race" /\ Next /\ UNCHANGED <<part, loop>>
Load == part = "loop" /\ Loop!Next /\ UNCHANGED <<part, vars>>
StartupNext == Race \/ Load

(* The fairness of Runner; Start runs to its end, and the goroutines it    *)
(* starts get to run.                                                      *)
StartupSpec ==
    /\ StartupInit /\ [][StartupNext]_all
    /\ \A c \in Caller : SF_all(part = "race" /\ Proceed(c) /\ UNCHANGED <<part, loop>>)
    /\ WF_all(Load)
-----------------------------------------------------------------------------
(* Types, and: crawlers tick as they are configured and none without a     *)
(* scope.                                                                  *)
LoadedAsConfigured ==
    part = "loop" => Loop!TypeOK /\ Loop!TicksAsConfigured /\ Loop!NoneWithoutScope

(* One data source's errors cost no other its start.                       *)
OthersLoaded == part = "loop" => Loop!OthersLoaded
=============================================================================
