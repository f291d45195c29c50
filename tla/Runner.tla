------------------------------- MODULE Runner -------------------------------
(***************************************************************************)
(* The crawler lifecycle (internal/app/crawl/runner.go): Start and Run,    *)
(* called concurrently, and the main program, which calls Start before it  *)
(* serves Run to MCP clients (cmd/coordimap-local/main.go).                *)
(***************************************************************************)
EXTENDS Naturals, FiniteSets

CONSTANTS Caller,      \* goroutines that call the runner; main calls Start
          main,
          DataSource,  \* ids of the configured data sources
          Unknown,     \* an id that is not configured
          AllSources,  \* the empty id: no data source given
          Configs      \* configurations to check, see Config

(* What Start reads of a data source's configuration: its integration, a   *)
(* Kubernetes scope_id, gcp_flows, the data sources its external_mappings  *)
(* name, and whether the factory can create its crawler.                   *)
Config == [DataSource -> [integration : {"kubernetes", "gcp", "other"},
                          scope_id : BOOLEAN, gcp_flows : BOOLEAN,
                          external_mappings : SUBSET DataSource, creatable : BOOLEAN]]

ASSUME RunnerAssumption ==
    /\ main \in Caller
    /\ Unknown \notin DataSource /\ AllSources \notin DataSource
    /\ Unknown # AllSources
    /\ Configs \subseteq Config

VARIABLES config,    \* r.dataSources
          mu,        \* the callers that hold r.mu
          started, runID,
          uuids,     \* how many run ids were drawn
          launched,  \* how many times each crawler was started
          pc,
          todo,      \* data sources the loop of Start has still to visit
          already,   \* alreadyStarted, as each caller read it
          answer,    \* the run id each caller was given, 0 for none
          late       \* ghost: callers whose Run came after main's Start had returned

runner == <<started, runID, uuids, launched>>
vars == <<config, mu, runner, pc, todo, already, answer, late>>

Go(c, next) == pc' = [pc EXCEPT ![c] = next]
Free == mu = {}

(* ValidateKubernetesScopeMappings: a GCP data source with flows must not  *)
(* map to the data source id of a Kubernetes cluster that has a scope id.  *)
Scoped == {d \in DataSource : config[d].integration = "kubernetes" /\ config[d].scope_id}
InvalidMappings ==
    {d \in DataSource : /\ config[d].integration = "gcp" /\ config[d].gcp_flows
                        /\ config[d].external_mappings \intersect Scoped # {}}
-----------------------------------------------------------------------------
Init ==
    /\ config \in Configs
    /\ mu = {}
    /\ started = FALSE /\ runID = 0 /\ uuids = 0
    /\ launched = [d \in DataSource |-> 0]
    /\ pc = [c \in Caller |-> "idle"]
    /\ todo = [c \in Caller |-> {}]
    /\ already = [c \in Caller |-> FALSE]
    /\ answer = [c \in Caller |-> 0]
    /\ late = {}

(* main calls Start; every other caller is a tool call that calls Run. *)
CallStart ==
    /\ pc[main] = "idle"
    /\ Go(main, "lock")
    /\ UNCHANGED <<config, mu, runner, todo, already, answer, late>>

(* main serves tools only after its Start; other programs may not wait.    *)
CallRun(c, id) ==
    /\ c # main /\ pc[c] = "idle"
    /\ Go(c, IF id \in DataSource \union {AllSources} THEN "peek" ELSE "failed")
    /\ late' = IF pc[main] = "done" THEN late \union {c} ELSE late
    /\ UNCHANGED <<config, mu, runner, todo, already, answer>>

(* Run reads started under the lock and gives the lock back. *)
Peek(c) ==
    /\ pc[c] = "peek"
    /\ Free
    /\ already' = [already EXCEPT ![c] = started]
    /\ Go(c, "lock")
    /\ UNCHANGED <<config, mu, runner, todo, answer, late>>

Lock(c) ==
    /\ pc[c] = "lock"
    /\ Free
    /\ mu' = {c}
    /\ Go(c, "start")
    /\ UNCHANGED <<config, runner, todo, already, answer, late>>

(* What follows Start: main is done, Run goes on to read the run id. *)
AfterStart(c) == IF c = main THEN "done" ELSE "read"

AlreadyStarted(c) ==
    /\ pc[c] = "start"
    /\ started
    /\ mu' = mu \ {c}
    /\ Go(c, AfterStart(c))
    /\ UNCHANGED <<config, runner, todo, already, answer, late>>

(* Mutant: started is set before the mappings are validated. *)
RejectStarted(c) ==
    /\ pc[c] = "start"
    /\ ~started
    /\ InvalidMappings # {}
    /\ started' = TRUE
    /\ mu' = mu \ {c}
    /\ Go(c, "failed")
    /\ UNCHANGED <<config, runID, uuids, launched, todo, already, answer, late>>

(* Mutant: the error return does not unlock. *)
RejectLocked(c) ==
    /\ pc[c] = "start"
    /\ ~started
    /\ InvalidMappings # {}
    /\ Go(c, "failed")
    /\ UNCHANGED <<config, mu, runner, todo, already, answer, late>>

RejectMappings(c) ==
    /\ pc[c] = "start"
    /\ ~started
    /\ InvalidMappings # {}
    /\ mu' = mu \ {c}
    /\ Go(c, "failed")
    /\ UNCHANGED <<config, runner, todo, already, answer, late>>

(* Mutant: started is not looked at. *)
BeginAgain(c) ==
    /\ pc[c] = "start"
    /\ InvalidMappings = {}
    /\ uuids' = uuids + 1
    /\ runID' = uuids'
    /\ started' = TRUE
    /\ todo' = [todo EXCEPT ![c] = DataSource]
    /\ Go(c, "launch")
    /\ UNCHANGED <<config, mu, launched, already, answer, late>>

(* Mutant: the crawlers are started after the mutex was given back. *)
BeginUnlocked(c) ==
    /\ pc[c] = "start"
    /\ ~started
    /\ InvalidMappings = {}
    /\ uuids' = uuids + 1
    /\ runID' = uuids'
    /\ started' = TRUE
    /\ mu' = mu \ {c}
    /\ todo' = [todo EXCEPT ![c] = DataSource]
    /\ Go(c, "launch")
    /\ UNCHANGED <<config, launched, already, answer, late>>

BeginStart(c) ==
    /\ pc[c] = "start"
    /\ ~started
    /\ InvalidMappings = {}
    /\ uuids' = uuids + 1
    /\ runID' = uuids'
    /\ started' = TRUE
    /\ todo' = [todo EXCEPT ![c] = DataSource]
    /\ Go(c, "launch")
    /\ UNCHANGED <<config, mu, launched, already, answer, late>>

(* One turn of the loop; a crawler that cannot be created is skipped. *)
Launch(c, d) ==
    /\ pc[c] = "launch"
    /\ d \in todo[c]
    /\ todo' = [todo EXCEPT ![c] = @ \ {d}]
    /\ launched' = [launched EXCEPT ![d] = IF config[d].creatable THEN @ + 1 ELSE @]
    /\ UNCHANGED <<config, mu, started, runID, uuids, pc, already, answer, late>>

EndStart(c) ==
    /\ pc[c] = "launch"
    /\ todo[c] = {}
    /\ mu' = mu \ {c}
    /\ Go(c, AfterStart(c))
    /\ UNCHANGED <<config, runner, todo, already, answer, late>>

ReadRunID(c) ==
    /\ pc[c] = "read"
    /\ Free
    /\ answer' = [answer EXCEPT ![c] = runID]
    /\ Go(c, "done")
    /\ UNCHANGED <<config, mu, runner, todo, already, late>>

Proceed(c) ==
    \/ Peek(c) \/ Lock(c) \/ AlreadyStarted(c) \/ RejectMappings(c) \/ BeginStart(c)
    \/ (\E d \in DataSource : Launch(c, d)) \/ EndStart(c) \/ ReadRunID(c)

Next ==
    \/ CallStart
    \/ \E c \in Caller : Proceed(c)
    \/ \E c \in Caller, id \in DataSource \union {Unknown, AllSources} : CallRun(c, id)

(* A goroutine that can go on does; a Go mutex is not starved for ever, so *)
(* a caller that finds it free again and again gets it.                    *)
Spec == Init /\ [][Next]_vars /\ \A c \in Caller : SF_vars(Proceed(c))
-----------------------------------------------------------------------------
PC == {"idle", "peek", "lock", "start", "launch", "read", "done", "failed"}

(* Every variable has its type, and r.mu is held by the caller that is in  *)
(* the body of Start and by no other.                                      *)
TypeOK ==
    /\ config \in Configs
    /\ mu = {c \in Caller : pc[c] \in {"start", "launch"}}
    /\ started \in BOOLEAN /\ runID \in Nat /\ uuids \in Nat
    /\ launched \in [DataSource -> Nat]
    /\ pc \in [Caller -> PC]
    /\ todo \in [Caller -> SUBSET DataSource]
    /\ already \in [Caller -> BOOLEAN]
    /\ answer \in [Caller -> Nat]
    /\ late \subseteq Caller \ {main}

(* "Existing recurring crawlers are never started twice", however many     *)
(* calls race before the first Start has finished its loop; a second       *)
(* ticker on one data source would double every batch.                     *)
StartedAtMostOnce == \A d \in DataSource : launched[d] <= 1

(* "Run returns the stable run ID": all calls that succeed are told the    *)
(* same id, and by then every crawler that can be created is running; what *)
(* main serves after its Start finds them running.                         *)
AnswersAgree ==
    \A c \in Caller :
        /\ pc[c] = "done" =>
              /\ \A d \in DataSource : config[d].creatable => launched[d] = 1
              /\ c # main => answer[c] = runID /\ runID = 1
        /\ c \in late /\ pc[c] \in {"lock", "start", "read", "done"} => already[c]

(* A rejected configuration starts nothing, whoever asks and how often.    *)
RejectedStartsNothing ==
    InvalidMappings # {} => ~started /\ \A c \in Caller : pc[c] # "done"

(* Every call returns: Run takes the mutex three times and Start once more *)
(* inside it, and no caller is left waiting for itself or for another.     *)
CallsReturn == \A c \in Caller : pc[c] # "idle" ~> pc[c] \in {"done", "failed"}
=============================================================================
