---------------------------- MODULE Startup_proofs ----------------------------
(***************************************************************************)
(* Proofs about the crawl runner, for any number of concurrent calls and   *)
(* any configuration, and then about the loop that makes crawlers of its   *)
(* key-value pairs.  The mutex is held by at most one caller, and what     *)
(* the callers see between their three critical sections is settled: once  *)
(* started is set it stays, with one run id, and nobody gets past Start    *)
(* before the loop that launches the crawlers has ended.                   *)
(***************************************************************************)
EXTENDS Startup, WellFoundedInduction, TLAPS

Exclusive == \A a, b \in mu : a = b

(* started stands for everything that comes with it.                       *)
StartedOnce ==
    /\ uuids = runID
    /\ started => InvalidMappings = {} /\ runID = 1
    /\ ~started => /\ runID = 0
                   /\ \A d \in DataSource : launched[d] = 0
                   /\ \A c \in Caller : pc[c] \notin {"launch", "read", "done"}

(* The loop has launched what it has visited, and nobody looks before it   *)
(* has ended.                                                              *)
Launching ==
    \A c \in Caller : pc[c] = "launch" =>
        /\ \A d \in DataSource :
              launched[d] = IF d \in todo[c] \/ ~config[d].creatable THEN 0 ELSE 1
        /\ \A b \in Caller : pc[b] \notin {"read", "done"}

Launched ==
    started /\ (\A c \in Caller : pc[c] # "launch") =>
        \A d \in DataSource : launched[d] = IF config[d].creatable THEN 1 ELSE 0

Answered == \A c \in Caller \ {main} : pc[c] = "done" => answer[c] = runID

LateOnes ==
    \A c \in late :
        /\ pc[main] = "done"
        /\ pc[c] \in {"lock", "start", "read", "done"} => already[c]

IInv == TypeOK /\ Exclusive /\ StartedOnce /\ Launching /\ Launched /\ Answered /\ LateOnes
-----------------------------------------------------------------------------
LEMMA InitIInv == Init => IInv
  <1> SUFFICES ASSUME Init PROVE IInv
    OBVIOUS
  <1>1. \A c \in Caller : pc[c] = "idle"
    BY DEF Init
  <1>2. TypeOK
    <2>1. {c \in Caller : pc[c] \in {"start", "launch"}} = {}
      BY <1>1
    <2> QED
      BY <2>1 DEF Init, TypeOK, PC
  <1>3. Exclusive /\ StartedOnce /\ Launching /\ Launched /\ Answered /\ LateOnes
    BY <1>1 DEF Init, Exclusive, StartedOnce, Launching, Launched, Answered, LateOnes
  <1> QED
    BY <1>2, <1>3 DEF IInv

(* Moving one caller.                                                      *)
LEMMA Moved ==
    ASSUME TypeOK, NEW c \in Caller, NEW step \in PC, Go(c, step)
    PROVE  /\ pc' \in [Caller -> PC]
           /\ \A b \in Caller : pc'[b] = IF b = c THEN step ELSE pc[b]
           /\ {b \in Caller : pc'[b] \in {"start", "launch"}} =
                 IF step \in {"start", "launch"} THEN mu \union {c} ELSE mu \ {c}
  BY DEF Go, TypeOK

(* Steps that change nothing but a caller's place, before or after Start.  *)
LEMMA CallsIInv ==
    ASSUME IInv, CallStart \/ \E c \in Caller, id \in DataSource \union {Unknown, AllSources} : CallRun(c, id)
    PROVE  IInv'
  <1>1. PICK c \in Caller, step \in {"lock", "peek", "failed"} :
            /\ Go(c, step) /\ pc[c] = "idle"
            /\ step = "lock" => c = main
            /\ late' \subseteq late \union {c}
            /\ late' \subseteq Caller \ {main}
            /\ late' # late => pc[main] = "done" /\ step # "lock"
            /\ UNCHANGED <<config, mu, started, runID, uuids, launched, todo, already, answer>>
    BY RunnerAssumption DEF IInv, TypeOK, CallStart, CallRun, runner
  <1>2. step \in PC
    BY DEF PC
  <1>3. /\ pc' \in [Caller -> PC]
        /\ \A b \in Caller : pc'[b] = IF b = c THEN step ELSE pc[b]
        /\ {b \in Caller : pc'[b] \in {"start", "launch"}} = mu \ {c}
    BY <1>1, <1>2, Moved DEF IInv
  <1>4. c \notin mu
    BY <1>1 DEF IInv, TypeOK
  <1>5. TypeOK'
    BY <1>1, <1>3, <1>4 DEF IInv, TypeOK
  <1>6. Exclusive' /\ StartedOnce'
    BY <1>1, <1>3 DEF IInv, Exclusive, StartedOnce, InvalidMappings, Scoped
  <1>7. Launching' /\ Launched' /\ Answered'
    BY <1>1, <1>3 DEF IInv, Launching, Launched, Answered
  <1>8. LateOnes'
    BY <1>1, <1>3, RunnerAssumption DEF IInv, TypeOK, LateOnes
  <1> QED
    BY <1>5, <1>6, <1>7, <1>8 DEF IInv

(* Run looks at started: it is settled if main's Start has returned.       *)
LEMMA PeekIInv ==
    ASSUME IInv, NEW c \in Caller, Peek(c)
    PROVE  IInv'
  <1>1. /\ pc' \in [Caller -> PC]
        /\ \A b \in Caller : pc'[b] = IF b = c THEN "lock" ELSE pc[b]
        /\ {b \in Caller : pc'[b] \in {"start", "launch"}} = mu \ {c}
    BY Moved DEF Peek, PC, IInv
  <1>2. mu = {} /\ pc[c] = "peek"
    BY DEF Peek, Free
  <1>3. TypeOK'
    BY <1>1, <1>2 DEF Peek, runner, IInv, TypeOK
  <1>4. Exclusive' /\ StartedOnce'
    BY <1>1, <1>2 DEF Peek, runner, IInv, Exclusive, StartedOnce, InvalidMappings, Scoped
  <1>5. Launching' /\ Launched' /\ Answered'
    BY <1>1, <1>2 DEF Peek, runner, IInv, Launching, Launched, Answered
  <1>6. LateOnes'
    <2>1. pc[main] = "done" => started
      BY RunnerAssumption DEF IInv, StartedOnce
    <2>2. \A b \in Caller : already'[b] = IF b = c THEN started ELSE already[b]
      BY DEF Peek, IInv, TypeOK
    <2> QED
      BY <1>1, <1>2, <2>1, <2>2, RunnerAssumption DEF Peek, IInv, TypeOK, LateOnes
  <1> QED
    BY <1>3, <1>4, <1>5, <1>6 DEF IInv

LEMMA LockIInv ==
    ASSUME IInv, NEW c \in Caller, Lock(c)
    PROVE  IInv'
  <1>1. /\ pc' \in [Caller -> PC]
        /\ \A b \in Caller : pc'[b] = IF b = c THEN "start" ELSE pc[b]
        /\ {b \in Caller : pc'[b] \in {"start", "launch"}} = mu \union {c}
    BY Moved DEF Lock, PC, IInv
  <1>2. mu = {} /\ mu' = {c} /\ pc[c] = "lock"
    BY DEF Lock, Free
  <1>3. TypeOK'
    BY <1>1, <1>2 DEF Lock, runner, IInv, TypeOK
  <1>4. Exclusive' /\ StartedOnce'
    BY <1>1, <1>2 DEF Lock, runner, IInv, Exclusive, StartedOnce, InvalidMappings, Scoped
  <1>5. Launching' /\ Launched' /\ Answered'
    BY <1>1, <1>2 DEF Lock, runner, IInv, Launching, Launched, Answered
  <1>6. LateOnes'
    BY <1>1, <1>2, RunnerAssumption DEF Lock, IInv, TypeOK, LateOnes
  <1> QED
    BY <1>3, <1>4, <1>5, <1>6 DEF IInv

(* The returns of Start that give the mutex back: the caller ends in a     *)
(* place its answer allows.                                                *)
LEMMA UnlockIInv ==
    ASSUME IInv, NEW c \in Caller, AlreadyStarted(c) \/ RejectMappings(c) \/ EndStart(c)
    PROVE  IInv'
  <1>1. PICK step \in {"done", "read", "failed"} :
            /\ Go(c, step) /\ pc[c] \in {"start", "launch"} /\ mu' = mu \ {c}
            /\ step = "done" => c = main
            /\ step # "failed" => started
            /\ pc[c] = "launch" => todo[c] = {} /\ step # "failed"
            /\ UNCHANGED <<config, started, runID, uuids, launched, todo, already, answer, late>>
    <2>1. CASE AlreadyStarted(c)
      BY <2>1 DEF AlreadyStarted, AfterStart, runner
    <2>2. CASE RejectMappings(c)
      BY <2>2 DEF RejectMappings, runner
    <2>3. CASE EndStart(c)
      BY <2>3 DEF EndStart, AfterStart, runner, IInv, StartedOnce
    <2> QED
      BY <2>1, <2>2, <2>3
  <1>2. step \in PC
    BY DEF PC
  <1>3. /\ pc' \in [Caller -> PC]
        /\ \A b \in Caller : pc'[b] = IF b = c THEN step ELSE pc[b]
        /\ {b \in Caller : pc'[b] \in {"start", "launch"}} = mu \ {c}
    BY <1>1, <1>2, Moved DEF IInv
  <1>4. c \in mu /\ \A b \in Caller : pc[b] \in {"start", "launch"} => b = c
    BY <1>1 DEF IInv, TypeOK, Exclusive
  <1>5. TypeOK'
    BY <1>1, <1>3 DEF IInv, TypeOK
  <1>6. Exclusive' /\ StartedOnce'
    BY <1>1, <1>3 DEF IInv, Exclusive, StartedOnce, InvalidMappings, Scoped
  <1>7. \A b \in Caller : pc'[b] # "launch"
    BY <1>1, <1>3, <1>4
  <1>8. Launching' /\ Answered'
    BY <1>1, <1>3, <1>7 DEF IInv, Launching, Answered
  <1>9. Launched'
    <2>1. CASE pc[c] = "launch"
      BY <1>1, <1>7, <2>1 DEF IInv, Launching, Launched
    <2>2. CASE pc[c] # "launch"
      BY <1>1, <1>4, <2>2 DEF IInv, Launched
    <2> QED
      BY <2>1, <2>2
  <1>10. LateOnes'
    <2>1. \A b \in late : b # main /\ b \in Caller /\ main \in Caller
      BY RunnerAssumption DEF IInv, TypeOK
    <2>2. late # {} => pc'[main] = "done"
      <3>1. late # {} => pc[main] = "done"
        BY DEF IInv, LateOnes
      <3> QED
        BY <3>1, <1>1, <1>3, <2>1
    <2>3. c \in late => pc[c] = "start" /\ already[c]
      <3>1. pc[main] = "done" => \A b \in Caller : pc[b] # "launch"
        BY RunnerAssumption DEF IInv, Launching
      <3> QED
        BY <3>1, <1>1 DEF IInv, LateOnes
    <2> QED
      BY <1>1, <1>3, <2>1, <2>2, <2>3 DEF IInv, LateOnes
  <1> QED
    BY <1>5, <1>6, <1>8, <1>9, <1>10 DEF IInv

(* The first Start: nobody else is past it.                                *)
LEMMA BeginIInv ==
    ASSUME IInv, NEW c \in Caller, BeginStart(c)
    PROVE  IInv'
  <1>1. /\ pc' \in [Caller -> PC]
        /\ \A b \in Caller : pc'[b] = IF b = c THEN "launch" ELSE pc[b]
        /\ {b \in Caller : pc'[b] \in {"start", "launch"}} = mu \union {c}
    BY Moved DEF BeginStart, PC, IInv
  <1>2. /\ ~started /\ started' /\ InvalidMappings = {} /\ runID = 0 /\ uuids = 0
        /\ \A d \in DataSource : launched[d] = 0
        /\ \A b \in Caller : pc[b] \notin {"launch", "read", "done"}
        /\ c \in mu
    BY DEF BeginStart, IInv, StartedOnce, TypeOK
  <1>3. runID' = 1 /\ uuids' = 1
    BY <1>2 DEF BeginStart
  <1>4. /\ UNCHANGED <<config, mu, launched, already, answer, late>>
        /\ todo' = [todo EXCEPT ![c] = DataSource] /\ started' = TRUE
    BY DEF BeginStart
  <1>5. TypeOK'
    BY <1>1, <1>2, <1>3, <1>4 DEF IInv, TypeOK
  <1>6. Exclusive' /\ StartedOnce'
    BY <1>2, <1>3, <1>4 DEF IInv, Exclusive, StartedOnce, InvalidMappings, Scoped
  <1>7. todo'[c] = DataSource
    BY <1>4 DEF IInv, TypeOK
  <1>8. Launching' /\ Launched' /\ Answered'
    BY <1>1, <1>2, <1>4, <1>7 DEF Launching, Launched, Answered
  <1>9. late = {}
    BY <1>2, RunnerAssumption DEF IInv, LateOnes
  <1>10. LateOnes'
    BY <1>4, <1>9 DEF LateOnes
  <1> QED
    BY <1>5, <1>6, <1>8, <1>10 DEF IInv

(* A turn of the loop.                                                     *)
LEMMA LaunchIInv ==
    ASSUME IInv, NEW c \in Caller, NEW d \in DataSource, Launch(c, d)
    PROVE  IInv'
  <1>1. /\ pc[c] = "launch" /\ d \in todo[c]
        /\ UNCHANGED <<config, mu, started, runID, uuids, pc, already, answer, late>>
    BY DEF Launch
  <1>2. /\ \A b \in Caller : todo'[b] = IF b = c THEN todo[b] \ {d} ELSE todo[b]
        /\ \A e \in DataSource :
              launched'[e] = IF e = d /\ config[d].creatable THEN launched[e] + 1 ELSE launched[e]
    BY DEF Launch, IInv, TypeOK
  <1>3. TypeOK'
    <2>1. todo' \in [Caller -> SUBSET DataSource] /\ launched' \in [DataSource -> Nat]
      BY DEF Launch, IInv, TypeOK
    <2> QED
      BY <2>1, <1>1 DEF IInv, TypeOK
  <1>4. started /\ \A b \in Caller : pc[b] = "launch" => b = c
    BY <1>1 DEF IInv, StartedOnce, TypeOK, Exclusive
  <1>5. Exclusive' /\ StartedOnce'
    <2>1. InvalidMappings' = InvalidMappings
      BY <1>1 DEF InvalidMappings, Scoped
    <2> QED
      BY <1>1, <1>4, <2>1 DEF IInv, Exclusive, StartedOnce
  <1>6. Launching'
    <2>1. \A e \in DataSource :
             launched[e] = IF e \in todo[c] \/ ~config[e].creatable THEN 0 ELSE 1
      BY <1>1 DEF IInv, Launching
    <2>2. \A e \in DataSource :
             launched'[e] = IF e \in todo'[c] \/ ~config[e].creatable THEN 0 ELSE 1
      <3> SUFFICES ASSUME NEW e \in DataSource
                   PROVE  launched'[e] = IF e \in todo'[c] \/ ~config[e].creatable THEN 0 ELSE 1
        OBVIOUS
      <3>1. todo'[c] = todo[c] \ {d}
        BY <1>2
      <3>2. launched'[e] = IF e = d /\ config[d].creatable THEN launched[e] + 1 ELSE launched[e]
        BY <1>2
      <3>3. launched[e] = IF e \in todo[c] \/ ~config[e].creatable THEN 0 ELSE 1
        BY <2>1
      <3>4. CASE e = d
        BY <1>1, <3>1, <3>2, <3>3, <3>4
      <3>5. CASE e # d
        BY <3>1, <3>2, <3>3, <3>5
      <3> QED
        BY <3>4, <3>5
    <2>3. \A b \in Caller : pc[b] \notin {"read", "done"}
      BY <1>1 DEF IInv, Launching
    <2> QED
      BY <1>1, <1>4, <2>2, <2>3 DEF Launching
  <1>7. Launched' /\ Answered' /\ LateOnes'
    BY <1>1 DEF IInv, Launched, Answered, LateOnes
  <1> QED
    BY <1>3, <1>5, <1>6, <1>7 DEF IInv

(* Run reads the run id, which is settled by now.                          *)
LEMMA ReadIInv ==
    ASSUME IInv, NEW c \in Caller, ReadRunID(c)
    PROVE  IInv'
  <1>1. /\ pc' \in [Caller -> PC]
        /\ \A b \in Caller : pc'[b] = IF b = c THEN "done" ELSE pc[b]
        /\ {b \in Caller : pc'[b] \in {"start", "launch"}} = mu \ {c}
    BY Moved DEF ReadRunID, PC, IInv
  <1>2. /\ mu = {} /\ pc[c] = "read"
        /\ UNCHANGED <<config, mu, started, runID, uuids, launched, todo, already, late>>
        /\ answer' = [answer EXCEPT ![c] = runID]
    BY DEF ReadRunID, Free, runner
  <1>3. TypeOK'
    BY <1>1, <1>2 DEF IInv, TypeOK
  <1>4. started
    BY <1>2 DEF IInv, StartedOnce
  <1>5. Exclusive' /\ StartedOnce'
    BY <1>1, <1>2, <1>4 DEF IInv, Exclusive, StartedOnce, InvalidMappings, Scoped
  <1>6. Launching' /\ Launched'
    BY <1>1, <1>2 DEF IInv, TypeOK, Launching, Launched
  <1>7. Answered'
    BY <1>1, <1>2 DEF IInv, TypeOK, Answered
  <1>8. LateOnes'
    BY <1>1, <1>2, RunnerAssumption DEF IInv, TypeOK, LateOnes
  <1> QED
    BY <1>3, <1>5, <1>6, <1>7, <1>8 DEF IInv
-----------------------------------------------------------------------------
LEMMA NextIInv == IInv /\ [Next]_vars => IInv'
  <1> SUFFICES ASSUME IInv, [Next]_vars PROVE IInv'
    OBVIOUS
  <1>1. CASE UNCHANGED vars
    BY <1>1 DEF vars, runner, IInv, TypeOK, Exclusive, StartedOnce, InvalidMappings, Scoped,
                Launching, Launched, Answered, LateOnes
  <1>2. CASE CallStart \/ \E c \in Caller, id \in DataSource \union {Unknown, AllSources} : CallRun(c, id)
    BY <1>2, CallsIInv
  <1>3. CASE \E c \in Caller : Proceed(c)
    BY <1>3, PeekIInv, LockIInv, UnlockIInv, BeginIInv, LaunchIInv, ReadIInv DEF Proceed
  <1> QED
    BY <1>1, <1>2, <1>3 DEF Next

(* Every variable has its type in every reachable state, and r.mu is held  *)
(* by whoever is in the body of Start and by nobody else.                  *)
THEOREM Inductive == Spec => []IInv
  <1> QED
    BY InitIInv, NextIInv, PTL DEF Spec

LEMMA LaunchesOnce == IInv => StartedAtMostOnce
  <1> SUFFICES ASSUME IInv, NEW d \in DataSource PROVE launched[d] <= 1
    BY DEF StartedAtMostOnce
  <1>1. CASE ~started
    BY <1>1 DEF IInv, StartedOnce
  <1>2. CASE \E c \in Caller : pc[c] = "launch"
    BY <1>2 DEF IInv, Launching
  <1>3. CASE started /\ \A c \in Caller : pc[c] # "launch"
    BY <1>3 DEF IInv, Launched
  <1> QED
    BY <1>1, <1>2, <1>3

(* However many calls race, no crawler is started twice.                   *)
THEOREM NeverTwice == Spec => []StartedAtMostOnce
  BY LaunchesOnce, Inductive, PTL

LEMMA AnswersOnce == IInv => AnswersAgree
  <1> SUFFICES ASSUME IInv, NEW c \in Caller
               PROVE  /\ pc[c] = "done" =>
                           /\ \A d \in DataSource : config[d].creatable => launched[d] = 1
                           /\ c # main => answer[c] = runID /\ runID = 1
                      /\ c \in late /\ pc[c] \in {"lock", "start", "read", "done"} => already[c]
    BY DEF AnswersAgree
  <1>1. c \in late /\ pc[c] \in {"lock", "start", "read", "done"} => already[c]
    BY DEF IInv, LateOnes
  <1>2. pc[c] = "done" => /\ started /\ runID = 1
                          /\ \A b \in Caller : pc[b] # "launch"
    BY DEF IInv, StartedOnce, Launching
  <1> QED
    BY <1>1, <1>2 DEF IInv, Launched, Answered

(* All calls that succeed are told the one run id, with every crawler that *)
(* can be created launched; what main serves finds it started.             *)
THEOREM OneAnswer == Spec => []AnswersAgree
  BY AnswersOnce, Inductive, PTL

(* A configuration that is rejected starts nothing and succeeds for nobody.*)
THEOREM RejectionHolds == Spec => []RejectedStartsNothing
  <1>1. IInv => RejectedStartsNothing
    BY DEF IInv, StartedOnce, RejectedStartsNothing
  <1> QED
    BY <1>1, Inductive, PTL
-----------------------------------------------------------------------------
(* A set of numbers has a least one.                                       *)
LEMMA LeastNumber ==
    ASSUME NEW S \in SUBSET Nat, S # {} PROVE \E m \in S : \A n \in S : m <= n
  <1> DEFINE less == {ss \in Nat \X Nat : ss[1] < ss[2]}
  <1>1. IsWellFoundedOn(less, Nat)
    BY NatLessThanWellFounded DEF OpToRel
  <1> HIDE DEF less
  <1>2. PICK m \in S : \A n \in S : <<n, m>> \notin less
    BY <1>1, WFMin
  <1>3. ASSUME NEW n \in S PROVE m <= n
    <2>1. <<n, m>> \in Nat \X Nat /\ m \in Nat /\ n \in Nat
      OBVIOUS
    <2>2. ~(n < m)
      BY <1>2, <2>1 DEF less
    <2> QED
      BY <2>1, <2>2
  <1> QED
    BY <1>3

(* The loop of Start over the pairs of a configuration, CrawlerConfig as   *)
(* Startup has it.  What a constructor has read so far is on the crawler:  *)
(* its interval is that of the last crawl interval before the pair it is   *)
(* at, and a scope on it is one of those pairs'.  LoopIInv is inductive.   *)

(* What a crawl interval comes to; x is it.                                *)
Asked(v, type, x) ==
    /\ v.unit = "s" => x = Loop!Wrapped(v.amount * 1)
    /\ v.unit = "m" => x = Loop!Wrapped(v.amount * Loop!Minute)
    /\ v.unit \notin {"s", "m"} /\ type # "gcp" => x = Loop!Default

(* The crawler after the pairs before the n-th.                            *)
Before(pairs, n) == {k \in Loop!Given(pairs, "crawl_interval") : k < n}
IntervalRead(source, n, x) ==
    LET before == Before(source.pairs, n) IN
    /\ (source.type = "aws" \/ before = {}) => x = Loop!Default
    /\ (source.type # "aws" /\ before # {}) =>
          /\ Loop!Latest(before) \in before
          /\ Asked(source.pairs[Loop!Latest(before)].value, source.type, x)
ScopePair(p) == p.key = "scope_id" /\ (p.value.env # Loop!NoText \/ p.value.text # Loop!NoText)
ScopeRead(pairs, n) == \E k \in DOMAIN pairs : k < n /\ ScopePair(pairs[k])
Past(source) == Len(source.pairs) + 1

LoopConstructing ==
    loading # 0 =>
        /\ IntervalRead(sources[loading], next, crawler.interval)
        /\ crawler.scope # Loop!NoText => ScopeRead(sources[loading].pairs, next)
LoopConstructed ==
    \A i \in DOMAIN sources :
        state[i].status = "started" => IntervalRead(sources[i], Past(sources[i]), state[i].interval)

LoopIInv == sources \in Sources /\ Loop!TypeOK /\ LoopConstructing /\ LoopConstructed /\ Loop!TicksAsConfigured /\ Loop!NoneWithoutScope

Crawler == [scope : STRING, interval : Int, client : BOOLEAN]
Pair == [key : STRING, value : Loop!Value]
-----------------------------------------------------------------------------
LEMMA LoopNewType == ASSUME Loop!Parameters PROVE Loop!New \in Crawler
  BY DEF Loop!Parameters, Loop!New, Crawler, Loop!Default

LEMMA WrappedType == ASSUME Loop!Parameters, NEW d \in Int PROVE Loop!Wrapped(d) \in Int
  BY DEF Loop!Parameters, Loop!Wrapped

LEMMA Remainder ==
    ASSUME NEW m \in Nat, m > 0, NEW a \in Int, 0 <= a, a < 2 * m
    PROVE  a % m = IF a < m THEN a ELSE a - m
  OBVIOUS

LEMMA WrappedOnce ==
    ASSUME Loop!Parameters, NEW d \in Int, -MaxDuration <= d, d < 2 * MaxDuration,
           Loop!Wrapped(d) > 0
    PROVE  Loop!Wrapped(d) = d
<1> DEFINE m == 2 * MaxDuration
           a == d + MaxDuration
<1>1. m \in Nat /\ m > 0 /\ a \in Int /\ 0 <= a /\ a < 2 * m
  BY DEF Loop!Parameters
<1> HIDE DEF m
<1>2. a % m = IF a < m THEN a ELSE a - m
  BY <1>1, Remainder
<1>3. Loop!Wrapped(d) = (a % m) - MaxDuration
  BY Zenon DEF Loop!Wrapped, m
<1>4. m = 2 * MaxDuration
  BY DEF m
<1> QED
  BY <1>1, <1>2, <1>3, <1>4 DEF Loop!Parameters

LEMMA IntervalIs ==
    ASSUME Loop!Parameters, NEW v \in Loop!Value, NEW d \in Loop!Interval(v)
    PROVE  /\ d \in Int
           /\ v.unit = "s" => d = Loop!Wrapped(v.amount * 1)
           /\ v.unit = "m" => d = Loop!Wrapped(v.amount * Loop!Minute)
           /\ v.unit \in {"s", "m"}
<1>1. v.amount * 1 \in Int /\ v.amount * Loop!Minute \in Int
  BY DEF Loop!Value, Loop!Minute
<1> QED
  BY <1>1, WrappedType DEF Loop!Interval

LEMMA IntervalSome == ASSUME NEW v, v.unit \in {"s", "m"} PROVE Loop!Interval(v) # {}
<1> DEFINE G == {g \in {<<"s", 1>>, <<"m", Loop!Minute>>} : g[1] = v.unit}
<1>1. PICK f \in G : TRUE
  <2>1. CASE v.unit = "s"
    <3>1. <<"s", 1>> \in G
      BY <2>1
    <3> QED
      BY <3>1
  <2>2. CASE v.unit = "m"
    <3>1. <<"m", Loop!Minute>> \in G
      BY <2>2
    <3> QED
      BY <3>1
  <2> QED
    BY <2>1, <2>2
<1>2. Loop!Wrapped(v.amount * f[2]) \in Loop!Interval(v)
  BY <1>1 DEF Loop!Interval
<1> QED
  BY <1>2

(* What a constructor makes of a crawl interval.                           *)
LEMMA CrawlIntervalIs ==
    ASSUME Loop!Parameters, NEW v \in Loop!Value, NEW other \in Int, NEW c \in Crawler,
           NEW r \in Loop!CrawlInterval(v, other, c)
    PROVE  /\ r.outcome \in {"ok", "error", "panic"}
           /\ r.outcome = "ok" =>
                 /\ r.crawler \in Crawler /\ r.crawler.scope = c.scope
                 /\ v.unit = "s" => r.crawler.interval = Loop!Wrapped(v.amount * 1)
                 /\ v.unit = "m" => r.crawler.interval = Loop!Wrapped(v.amount * Loop!Minute)
                 /\ v.unit \notin {"s", "m"} => r.crawler.interval = other
<1> DEFINE x == IF Loop!Interval(v) # {} THEN CHOOSE d \in Loop!Interval(v) : TRUE ELSE other
<1>1. /\ x \in Int
      /\ v.unit = "s" => x = Loop!Wrapped(v.amount * 1)
      /\ v.unit = "m" => x = Loop!Wrapped(v.amount * Loop!Minute)
      /\ v.unit \notin {"s", "m"} => x = other
  BY IntervalIs, IntervalSome
<1>2. r \in {Loop!Panic, Loop!Error, Loop!Going([c EXCEPT !.interval = x])}
  BY DEF Loop!CrawlInterval
<1> HIDE DEF x
<1>3. Loop!Panic.outcome = "panic" /\ Loop!Error.outcome = "error"
  BY DEF Loop!Panic, Loop!Error
<1>4. r \in {Loop!Panic, Loop!Error} \/ (r.outcome = "ok" /\ r.crawler = [c EXCEPT !.interval = x])
  BY <1>2 DEF Loop!Going
<1>5. [c EXCEPT !.interval = x] \in Crawler /\ [c EXCEPT !.interval = x].interval = x
      /\ [c EXCEPT !.interval = x].scope = c.scope
  BY <1>1 DEF Crawler
<1> QED
  BY <1>1, <1>3, <1>4, <1>5

(* What is read of another pair.                                           *)
Reads(type, p, c, r) ==
    /\ r.outcome \in {"ok", "error", "panic"}
    /\ r.outcome = "ok" =>
          /\ r.crawler \in Crawler
          /\ IF p.key = "crawl_interval" /\ type # "aws"
             THEN Asked(p.value, type, r.crawler.interval)
             ELSE r.crawler.interval = c.interval
          /\ r.crawler.scope # Loop!NoText => c.scope # Loop!NoText \/ ScopePair(p)

LEMMA ScopeIs ==
    ASSUME NEW t \in STRING, NEW c \in Crawler, NEW r \in Loop!Scope(t, c)
    PROVE  r.outcome = "ok" /\ r.crawler \in Crawler /\ r.crawler.interval = c.interval /\ r.crawler.scope = t
  BY DEF Loop!Scope, Loop!Going, Crawler

LEMMA GoingIs == ASSUME NEW c PROVE Loop!Going(c).outcome = "ok" /\ Loop!Going(c).crawler = c
  BY DEF Loop!Going

LEMMA ErrorIs == Loop!Error.outcome = "error" /\ Loop!Panic.outcome = "panic"
  BY DEF Loop!Error, Loop!Panic

LEMMA TextIs ==
    ASSUME Loop!Parameters, NEW v \in Loop!Value
    PROVE  /\ Loop!Text(v) \in STRING /\ Loop!LoadValueFromEnvConfig(v) \subseteq STRING
           /\ Loop!Text(v) # Loop!NoText => v.env # Loop!NoText \/ v.text # Loop!NoText
           /\ \A t \in Loop!LoadValueFromEnvConfig(v) : t # Loop!NoText => v.env # Loop!NoText \/ v.text # Loop!NoText
  BY DEF Loop!Parameters, Loop!Value, Loop!Text, Loop!LoadValueFromEnvConfig

LEMMA MongoReads ==
    ASSUME Loop!Parameters, NEW type, NEW p \in Pair, NEW c \in Crawler, type # "aws",
           NEW r \in Loop!NewMongoDBCrawler(p, c)
    PROVE  Reads(type, p, c, r)
<1>1. p.value \in Loop!Value
  BY DEF Pair
<1>2. CASE p.key = "crawl_interval"
  <2>1. r \in Loop!CrawlInterval(p.value, Loop!Default, c)
    BY <1>2 DEF Loop!NewMongoDBCrawler
  <2> QED
    BY <1>1, <1>2, <2>1, CrawlIntervalIs DEF Reads, Asked, Loop!Default
<1>3. CASE p.key = "scope_id"
  <2>1. r \in Loop!Scope(Loop!Text(p.value), c)
    BY <1>3 DEF Loop!NewMongoDBCrawler
  <2> QED
    <3>1. r.outcome = "ok" /\ r.crawler \in Crawler /\ r.crawler.interval = c.interval /\ r.crawler.scope = Loop!Text(p.value)
      BY <1>1, <2>1, ScopeIs, TextIs
    <3> QED
      BY <1>1, <1>3, <3>1, TextIs DEF Reads, ScopePair
<1>4. CASE p.key \notin {"crawl_interval", "scope_id"}
  <2>1. r \in {Loop!Error, Loop!Going(c)}
    BY <1>4 DEF Loop!NewMongoDBCrawler, Loop!Password
  <2> QED
    BY <1>4, <2>1, GoingIs, ErrorIs DEF Reads
<1> QED
  BY <1>2, <1>3, <1>4

LEMMA PostgresReads ==
    ASSUME Loop!Parameters, NEW type, NEW p \in Pair, NEW c \in Crawler, type # "aws",
           NEW r \in Loop!NewPostgresCrawler(p, c)
    PROVE  Reads(type, p, c, r)
<1>1. CASE p.key = "ssl_mode"
  <2>1. r \in {Loop!Error, Loop!Going(c)}
    BY <1>1 DEF Loop!NewPostgresCrawler, Loop!SSLMode
  <2> QED
    BY <1>1, <2>1, GoingIs, ErrorIs DEF Reads
<1>2. CASE p.key # "ssl_mode"
  BY <1>2, MongoReads DEF Loop!NewPostgresCrawler
<1> QED
  BY <1>1, <1>2

LEMMA AwsReads ==
    ASSUME Loop!Parameters, NEW p \in Pair, NEW c \in Crawler, NEW r \in Loop!MakeAWS(p, c)
    PROVE  Reads("aws", p, c, r)
<1>1. p.value \in Loop!Value
  BY DEF Pair
<1>2. CASE p.key = "scope_id"
  <2>1. r \in Loop!Scope(Loop!Text(p.value), c)
    BY <1>2 DEF Loop!MakeAWS
  <2>2. r.outcome = "ok" /\ r.crawler \in Crawler /\ r.crawler.interval = c.interval /\ r.crawler.scope = Loop!Text(p.value)
    BY <1>1, <2>1, ScopeIs, TextIs
  <2> QED
    BY <1>1, <1>2, <2>2, TextIs DEF Reads, ScopePair
<1>3. CASE p.key # "scope_id"
  <2>1. r = Loop!Going(c)
    BY <1>3 DEF Loop!MakeAWS
  <2> QED
    BY <1>3, <2>1, GoingIs DEF Reads
<1> QED
  BY <1>2, <1>3

LEMMA FlowLogsRead ==
    ASSUME Loop!Parameters, NEW p \in Pair, NEW c \in Crawler, NEW r \in Loop!NewAWSFlowLogs(p, c)
    PROVE  Reads("aws_flow_logs", p, c, r)
<1>1. p.value \in Loop!Value
  BY DEF Pair
<1>2. CASE p.key = "crawl_interval"
  <2>1. r \in Loop!CrawlInterval(p.value, Loop!Default, c)
    BY <1>2 DEF Loop!NewAWSFlowLogs
  <2> QED
    BY <1>1, <1>2, <2>1, CrawlIntervalIs DEF Reads, Asked, Loop!Default
<1>3. CASE p.key # "crawl_interval"
  <2>1. r = Loop!Going(c)
    BY <1>3 DEF Loop!NewAWSFlowLogs
  <2> QED
    BY <1>3, <2>1, GoingIs DEF Reads
<1> QED
  BY <1>2, <1>3

LEMMA GcpReads ==
    ASSUME Loop!Parameters, NEW p \in Pair, NEW c \in Crawler, NEW r \in Loop!NewGCPCrawler(p, c)
    PROVE  Reads("gcp", p, c, r)
<1>1. p.value \in Loop!Value /\ c.interval \in Int
  BY DEF Pair, Crawler
<1>2. CASE p.key = "crawl_interval"
  <2>1. r \in Loop!CrawlInterval(p.value, c.interval, c)
    BY <1>2 DEF Loop!NewGCPCrawler
  <2> QED
    BY <1>1, <1>2, <2>1, CrawlIntervalIs DEF Reads, Asked
<1>3. CASE p.key = "scope_id"
  <2>1. r \in Loop!Scope(Loop!Text(p.value), c)
    BY <1>3 DEF Loop!NewGCPCrawler
  <2>2. r.outcome = "ok" /\ r.crawler \in Crawler /\ r.crawler.interval = c.interval /\ r.crawler.scope = Loop!Text(p.value)
    BY <1>1, <2>1, ScopeIs, TextIs
  <2> QED
    BY <1>1, <1>3, <2>2, TextIs DEF Reads, ScopePair
<1>4. CASE p.key \notin {"crawl_interval", "scope_id"}
  <2>1. r \in {Loop!Error, Loop!Going(c)}
    BY <1>4 DEF Loop!NewGCPCrawler, Loop!MayFail
  <2> QED
    BY <1>4, <2>1, GoingIs, ErrorIs DEF Reads
<1> QED
  BY <1>2, <1>3, <1>4

LEMMA ClientReads ==
    ASSUME NEW c \in Crawler, NEW r \in Loop!KubernetesClient(c)
    PROVE  /\ r.outcome \in {"ok", "error"}
           /\ r.outcome = "ok" => /\ r.crawler \in Crawler /\ r.crawler.interval = c.interval
                                 /\ r.crawler.scope = c.scope
<1>1. [c EXCEPT !.client = TRUE] \in Crawler /\ [c EXCEPT !.client = TRUE].interval = c.interval
      /\ [c EXCEPT !.client = TRUE].scope = c.scope
  BY DEF Crawler
<1>2. r \in {Loop!Error, Loop!Going(c), Loop!Going([c EXCEPT !.client = TRUE])}
  BY DEF Loop!KubernetesClient
<1> DEFINE d == [c EXCEPT !.client = TRUE]
<1>3. Loop!Error.outcome = "error" /\ Loop!Going(c).outcome = "ok" /\ Loop!Going(c).crawler = c
      /\ Loop!Going(d).outcome = "ok" /\ Loop!Going(d).crawler = d
  BY GoingIs, ErrorIs
<1>4. r \in {Loop!Error, Loop!Going(c), Loop!Going(d)}
  BY <1>2
<1>5. d \in Crawler /\ d.interval = c.interval /\ d.scope = c.scope
  BY <1>1
<1> HIDE DEF d
<1> QED
  BY <1>3, <1>4, <1>5

LEMMA KubernetesReads ==
    ASSUME Loop!Parameters, NEW p \in Pair, NEW c \in Crawler,
           NEW r \in Loop!MakeKubernetesCrawler(p, c)
    PROVE  Reads("kubernetes", p, c, r)
<1> DEFINE value == CHOOSE t \in Loop!LoadValueFromEnvConfig(p.value) : TRUE
<1>1. p.value \in Loop!Value
  BY DEF Pair
<1>2. CASE Loop!LoadValueFromEnvConfig(p.value) = {}
  <2>1. r = Loop!Error
    BY <1>2 DEF Loop!MakeKubernetesCrawler
  <2> QED
    BY <2>1, ErrorIs DEF Reads
<1>3. CASE Loop!LoadValueFromEnvConfig(p.value) # {}
  <2>1. value \in Loop!LoadValueFromEnvConfig(p.value)
    BY <1>3
  <2>2. value \in STRING /\ (value # Loop!NoText => p.value.env # Loop!NoText \/ p.value.text # Loop!NoText)
    BY <1>1, <2>1, TextIs
  <2>3. CASE p.key = "crawl_interval"
    <3>1. r \in Loop!CrawlInterval(p.value, Loop!Default, c)
      BY <1>3, <2>3 DEF Loop!MakeKubernetesCrawler
    <3> QED
      BY <1>1, <2>3, <3>1, CrawlIntervalIs DEF Reads, Asked, Loop!Default
  <2> HIDE DEF value
  <2>4. CASE p.key = "scope_id" /\ value # Loop!NoText
    <3>1. r \in Loop!Scope(value, c)
      BY <1>3, <2>4 DEF Loop!MakeKubernetesCrawler, value
    <3>2. r.outcome = "ok" /\ r.crawler \in Crawler /\ r.crawler.interval = c.interval /\ r.crawler.scope = value
      BY <2>2, <3>1, ScopeIs
    <3> QED
      BY <2>2, <2>4, <3>2 DEF Reads, ScopePair
  <2>5. CASE p.key # "crawl_interval" /\ ~(p.key = "scope_id" /\ value # Loop!NoText)
    <3>1. r \in Loop!KubernetesClient(c) \/ r \in {Loop!Error, Loop!Going(c)}
      BY <1>3, <2>5 DEF Loop!MakeKubernetesCrawler, value, Loop!MayFail
    <3> QED
      BY <2>5, <3>1, GoingIs, ErrorIs, ClientReads DEF Reads
  <2> QED
    BY <2>3, <2>4, <2>5
<1> QED
  BY <1>2, <1>3

LEMMA PairReads ==
    ASSUME Loop!Parameters, NEW type \in Loop!Type, NEW p \in Pair, NEW c \in Crawler,
           NEW r \in Loop!ReadPair(type, p, c)
    PROVE  Reads(type, p, c, r)
<1>1. CASE type \in {"postgres", "mariadb", "mysql"}
  <2>1. r \in Loop!NewPostgresCrawler(p, c)
    BY <1>1 DEF Loop!ReadPair, Loop!NewMariadbCrawler, Loop!NewMysqlCrawler
  <2> QED
    BY <1>1, <2>1, PostgresReads
<1>2. CASE type = "mongodb"
  <2>1. r \in Loop!NewMongoDBCrawler(p, c)
    BY <1>2 DEF Loop!ReadPair
  <2> QED
    BY <1>2, <2>1, MongoReads
<1>3. CASE type = "aws"
  BY <1>3, AwsReads DEF Loop!ReadPair
<1>4. CASE type = "aws_flow_logs"
  BY <1>4, FlowLogsRead DEF Loop!ReadPair
<1>5. CASE type = "gcp"
  BY <1>5, GcpReads DEF Loop!ReadPair
<1>6. CASE type = "kubernetes"
  BY <1>6, KubernetesReads DEF Loop!ReadPair
<1> QED
  BY <1>1, <1>2, <1>3, <1>4, <1>5, <1>6 DEF Loop!Type

LEMMA Finishes ==
    ASSUME NEW type, NEW c, NEW r \in Loop!Finish(type, c)
    PROVE  /\ r.outcome \in {"ok", "error"}
           /\ r.outcome = "ok" => type = "aws_flow_logs" \/ c.scope # Loop!NoText
<1>1. r = Loop!Error \/ (r \in {Loop!Error, Loop!Going(c)} /\ (type = "aws_flow_logs" \/ c.scope # Loop!NoText))
  BY DEF Loop!Finish, Loop!MayFail
<1> QED
  BY <1>1, GoingIs, ErrorIs
-----------------------------------------------------------------------------
LEMMA LoopSourceIs ==
    ASSUME Loop!Parameters, sources \in Sources, NEW i \in DOMAIN sources
    PROVE  /\ sources[i] \in Loop!Source /\ sources[i].type \in Loop!Type /\ Len(sources[i].pairs) \in Nat
           /\ DOMAIN sources[i].pairs = 1..Len(sources[i].pairs)
           /\ \A k \in DOMAIN sources[i].pairs : sources[i].pairs[k] \in Pair
<1>1. sources \in Seq(Loop!Source)
  BY DEF Loop!Parameters
<1>2. sources[i] \in Loop!Source
  BY <1>1
<1>3. sources[i].pairs \in Seq(Pair) /\ sources[i].type \in Loop!Type
  BY <1>2 DEF Loop!Source, Pair
<1> QED
  BY <1>2, <1>3

(* The first and the last of some pairs of a data source.                  *)
LEMMA FirstIs ==
    ASSUME NEW S \in SUBSET Nat, S # {} PROVE Loop!First(S) \in S
<1>1. \E m \in S : \A n \in S : m <= n
  BY LeastNumber
<1> QED
  BY <1>1 DEF Loop!First

LEMMA LatestIs ==
    ASSUME NEW S \in SUBSET Nat, NEW n \in Nat, \A k \in S : k < n
    PROVE  Loop!Latest(S \union {n}) = n
<1> DEFINE T == S \union {n}
<1>1. n \in T /\ \A l \in T : l <= n
  OBVIOUS
<1>2. ASSUME NEW k \in T, \A l \in T : l <= k PROVE k = n
  BY <1>2
<1> HIDE DEF T
<1>3. Loop!Latest(T) \in T /\ \A l \in T : l <= Loop!Latest(T)
  BY <1>1 DEF Loop!Latest
<1>4. Loop!Latest(T) = n
  BY <1>2, <1>3
<1> QED
  BY <1>4 DEF T

LEMMA ValueIs ==
    ASSUME NEW source \in Loop!Source, NEW key, NEW k \in Loop!Given(source.pairs, key)
    PROVE  source.pairs[k].value \in Loop!Value
<1>1. source.pairs \in Seq(Pair)
  BY DEF Loop!Source, Pair
<1>2. source.pairs[k] \in Pair
  BY <1>1 DEF Loop!Given
<1> QED
  BY <1>2 DEF Pair

LEMMA FirstPair ==
    ASSUME NEW source \in Loop!Source PROVE IntervalRead(source, 1, Loop!Default)
<1>1. DOMAIN source.pairs \subseteq Nat \ {0}
  BY DEF Loop!Source
<1>2. Before(source.pairs, 1) = {}
  BY <1>1 DEF Before, Loop!Given
<1> QED
  BY <1>2 DEF IntervalRead

LEMMA NextPair ==
    ASSUME NEW source \in Loop!Source, NEW n \in DOMAIN source.pairs, NEW x, IntervalRead(source,
           n, x), NEW y,
           IF source.pairs[n].key = "crawl_interval" /\ source.type # "aws"
           THEN Asked(source.pairs[n].value, source.type, y) ELSE y = x
    PROVE  IntervalRead(source, n + 1, y)
<1> DEFINE before == Before(source.pairs, n)
<1>0. n \in Nat /\ \A k \in DOMAIN source.pairs : k \in Nat /\ (k < n + 1 <=> k < n \/ k = n)
  BY DEF Loop!Source
<1>1. CASE source.type = "aws"
  BY <1>1 DEF IntervalRead
<1>2. CASE source.type # "aws" /\ source.pairs[n].key # "crawl_interval"
  <2>1. Before(source.pairs, n + 1) = before
    BY <1>0, <1>2 DEF Before, Loop!Given
  <2> QED
    BY <1>2, <2>1 DEF IntervalRead
<1>3. CASE source.type # "aws" /\ source.pairs[n].key = "crawl_interval"
  <2>1. Before(source.pairs, n + 1) = before \union {n}
    BY <1>0, <1>3 DEF Before, Loop!Given
  <2>2. before \in SUBSET Nat /\ \A k \in before : k < n
    BY <1>0 DEF Before, Loop!Given
  <2>3. Loop!Latest(before \union {n}) = n
    BY <1>0, <2>2, LatestIs
  <2> QED
    BY <1>3, <2>1, <2>3 DEF IntervalRead
<1> QED
  BY <1>1, <1>2, <1>3

LEMMA LoopInitIInv == ASSUME Loop!Parameters, Loop!Init PROVE LoopIInv
<1>1. Loop!TypeOK
  BY LoopNewType DEF Loop!Init, Loop!TypeOK, Crawler
<1> QED
  BY <1>1 DEF Loop!Init, LoopIInv, LoopConstructing, LoopConstructed, Loop!TicksAsConfigured,
     Loop!NoneWithoutScope

LEMMA LoopLoadIInv ==
    ASSUME Loop!Parameters, LoopIInv, NEW i \in DOMAIN sources, Loop!Load(i)
    PROVE  LoopIInv'
<1>1. sources' = sources /\ state' = state /\ sources \in Sources
  BY DEF Loop!Load, LoopIInv
<1>2. Loop!TypeOK'
  <2>1. 1 \in 1..(Len(sources[i].pairs) + 1)
    BY LoopSourceIs DEF LoopIInv
  <2> QED
    BY <2>1, LoopNewType DEF Loop!Load, Loop!Waiting, LoopIInv, Loop!TypeOK, Crawler
<1>3. LoopConstructing'
  <2>1. IntervalRead(sources[i], 1, Loop!Default)
    BY LoopSourceIs, FirstPair DEF LoopIInv
  <2>2. Loop!New.interval = Loop!Default /\ Loop!New.scope = Loop!NoText
    BY DEF Loop!New
  <2> QED
    BY <1>1, <2>1, <2>2 DEF Loop!Load, LoopConstructing
<1>4. LoopConstructed'
  BY <1>1 DEF LoopIInv, LoopConstructed
<1>5. Loop!TicksAsConfigured' /\ Loop!NoneWithoutScope'
  BY <1>1 DEF LoopIInv, Loop!TicksAsConfigured, Loop!NoneWithoutScope
<1> QED
  BY <1>1, <1>2, <1>3, <1>4, <1>5 DEF LoopIInv

(* A data source that is not given a ticker or started is no matter.       *)
LEMMA LoopBecomesIInv ==
    ASSUME Loop!Parameters, LoopIInv, NEW i \in DOMAIN sources, NEW status \in {"rejected",
           "started", "ended"},
           NEW x \in Int, state' = [state EXCEPT ![i] = [status |-> status, interval |-> x]],
           sources' = sources, alive' \in BOOLEAN, crawler' = crawler, next' = next,
           loading' = 0 \/ (loading' = loading /\ loading # i),
           status = "started" => /\ IntervalRead(sources[i], Past(sources[i]), x)
                                 /\ sources[i].type # "aws_flow_logs" => Loop!HasScope(sources[i].pairs)
    PROVE  LoopIInv'
<1>1. Loop!TypeOK'
  BY DEF LoopIInv, Loop!TypeOK
<1>2. \A j \in DOMAIN sources : state'[j] = IF j = i THEN [status |-> status, interval |-> x] ELSE state[j]
  BY DEF LoopIInv, Loop!TypeOK
<1>3. LoopConstructing'
  BY DEF LoopIInv, LoopConstructing
<1>4. LoopConstructed'
  BY <1>2 DEF LoopIInv, LoopConstructed
<1>5. Loop!TicksAsConfigured'
  BY <1>2 DEF LoopIInv, Loop!TicksAsConfigured
<1>6. Loop!NoneWithoutScope'
  BY <1>2 DEF LoopIInv, Loop!NoneWithoutScope
<1> QED
  BY <1>1, <1>3, <1>4, <1>5, <1>6 DEF LoopIInv

LEMMA LoopConstructIInv == ASSUME Loop!Parameters, LoopIInv, Loop!Construct PROVE LoopIInv'
<1> DEFINE i == loading
           type == sources[i].type
           pairs == sources[i].pairs
<1>1. /\ i \in DOMAIN sources /\ sources[i] \in Loop!Source /\ type \in Loop!Type /\ Len(pairs) \in Nat /\ DOMAIN pairs = 1..Len(pairs)
      /\ \A k \in DOMAIN pairs : pairs[k] \in Pair
      /\ next \in 1..(Len(pairs) + 1) /\ crawler \in Crawler /\ sources' = sources
      /\ sources \in Sources /\ IntervalRead(sources[i], next, crawler.interval)
      /\ crawler.scope # Loop!NoText => ScopeRead(pairs, next)
  BY LoopSourceIs DEF Loop!Construct, LoopIInv, Loop!TypeOK, LoopConstructing, Crawler
<1>2. PICK r \in IF next <= Len(pairs) THEN Loop!ReadPair(type, pairs[next], crawler) ELSE Loop!Finish(type, crawler) :
          CASE r.outcome = "panic" -> alive' = FALSE /\ UNCHANGED <<loading, next, crawler, state>>
            [] r.outcome = "error" -> Loop!Becomes("rejected") /\ UNCHANGED <<next, crawler>>
            [] r.outcome = "ok" /\ next <= Len(pairs) ->
                   next' = next + 1 /\ crawler' = r.crawler /\ UNCHANGED <<loading, state, alive>>
            [] OTHER -> Loop!Becomes("started") /\ UNCHANGED <<next, crawler>>
  BY DEF Loop!Construct
<1> HIDE DEF i, type, pairs
<1>3. next <= Len(pairs) => r \in Loop!ReadPair(type, pairs[next], crawler) /\ pairs[next] \in Pair /\ next \in DOMAIN pairs
  BY <1>1, <1>2
<1>4. ~(next <= Len(pairs)) => r \in Loop!Finish(type, crawler) /\ next = Len(pairs) + 1
  BY <1>1, <1>2
<1>5. next <= Len(pairs) => Reads(type, pairs[next], crawler, r)
  BY <1>1, <1>3, PairReads
<1>6. ~(next <= Len(pairs)) =>
          r.outcome \in {"ok", "error"} /\ (r.outcome = "ok" => type = "aws_flow_logs" \/ crawler.scope # Loop!NoText)
  BY <1>4, Finishes
<1>7. r.outcome \in {"ok", "error", "panic"}
  BY <1>5, <1>6 DEF Reads
<1>8. CASE r.outcome = "panic"
  <2>1. alive' = FALSE /\ UNCHANGED <<sources, loading, next, crawler, state>>
    BY <1>1, <1>2, <1>8
  <2> QED
    BY <2>1 DEF LoopIInv, Loop!TypeOK, LoopConstructing, LoopConstructed, Loop!TicksAsConfigured,
       Loop!NoneWithoutScope
<1>9. CASE r.outcome = "error"
  <2>1. Loop!Becomes("rejected") /\ UNCHANGED <<next, crawler>>
    BY <1>2, <1>9
  <2> QED
    BY <1>1, <2>1, LoopBecomesIInv DEF Loop!Becomes, Crawler, i, LoopIInv, Loop!TypeOK
<1>10. CASE r.outcome = "ok" /\ next <= Len(pairs)
  <2>1. next' = next + 1 /\ crawler' = r.crawler /\ UNCHANGED <<sources, loading, state, alive>>
    BY <1>1, <1>2, <1>10
  <2>2. crawler' \in Crawler /\ next' \in 1..(Len(pairs) + 1)
    BY <1>1, <1>5, <1>10, <2>1 DEF Reads
  <2>3. IntervalRead(sources[i], next', crawler'.interval)
    BY <1>1, <1>3, <1>5, <1>10, <2>1, NextPair DEF Reads, pairs, type
  <2>4. crawler'.scope # Loop!NoText => ScopeRead(pairs, next')
    <3>1. crawler'.scope # Loop!NoText => crawler.scope # Loop!NoText \/ ScopePair(pairs[next])
      BY <1>5, <1>10, <2>1 DEF Reads
    <3>2. \A k \in DOMAIN pairs : k < next => k < next'
      BY <1>1, <2>1
    <3>3. next < next'
      BY <1>1, <2>1
    <3> QED
      BY <1>1, <1>3, <1>10, <3>1, <3>2, <3>3 DEF ScopeRead, pairs
  <2>5. Loop!TypeOK'
    BY <2>1, <2>2 DEF LoopIInv, Loop!TypeOK, Crawler, i, pairs
  <2>6. LoopConstructing'
    BY <2>1, <2>3, <2>4 DEF LoopConstructing, i, pairs
  <2>7. LoopConstructed' /\ Loop!TicksAsConfigured' /\ Loop!NoneWithoutScope'
    BY <2>1 DEF LoopIInv, LoopConstructed, Loop!TicksAsConfigured, Loop!NoneWithoutScope
  <2> QED
    BY <1>1, <2>1, <2>5, <2>6, <2>7 DEF LoopIInv
<1>11. CASE r.outcome = "ok" /\ ~(next <= Len(pairs))
  <2>1. Loop!Becomes("started") /\ UNCHANGED <<next, crawler>>
    BY <1>2, <1>11
  <2>2. /\ IntervalRead(sources[i], Past(sources[i]), crawler.interval)
        /\ type # "aws_flow_logs" => Loop!HasScope(pairs)
    BY <1>1, <1>4, <1>6, <1>11 DEF Past, pairs, ScopeRead, ScopePair, Loop!HasScope, Loop!Given
  <2> QED
    BY <1>1, <2>1, <2>2, LoopBecomesIInv DEF Loop!Becomes, Crawler, i, type, pairs, LoopIInv,
       Loop!TypeOK
<1> QED
  BY <1>7, <1>8, <1>9, <1>10, <1>11

(* What a crawler that was asked for ticks as, given a positive interval.  *)
LEMMA AskedTicks ==
    ASSUME Loop!Parameters, NEW v \in Loop!Value, NEW type, NEW x \in Int, Asked(v, type, x), x > 0
    PROVE  LET d == v.amount * (IF v.unit = "m" THEN Loop!Minute ELSE 1) IN
           /\ v.unit \in {"s", "m"} /\ -MaxDuration <= d /\ d < 2 * MaxDuration => x = d
           /\ v.unit \notin {"s", "m"} /\ type # "gcp" => x = Loop!Default
<1> DEFINE d == v.amount * (IF v.unit = "m" THEN Loop!Minute ELSE 1)
<1>1. v.amount \in Int /\ v.amount * 1 \in Int /\ v.amount * Loop!Minute \in Int
  BY DEF Loop!Value, Loop!Minute
<1>2. d \in Int
  BY <1>1
<1>3. v.unit \in {"s", "m"} => x = Loop!Wrapped(d)
  BY <1>1 DEF Asked
<1>4. v.unit \notin {"s", "m"} /\ type # "gcp" => x = Loop!Default
  BY DEF Asked
<1> HIDE DEF d
<1>5. ASSUME v.unit \in {"s", "m"}, -MaxDuration <= d, d < 2 * MaxDuration PROVE x = d
  BY <1>2, <1>3, <1>5, WrappedOnce
<1>6. /\ v.unit \in {"s", "m"} /\ -MaxDuration <= d /\ d < 2 * MaxDuration => x = d
      /\ v.unit \notin {"s", "m"} /\ type # "gcp" => x = Loop!Default
  BY <1>4, <1>5
<1> QED
  BY <1>6 DEF d

LEMMA CrawlTicks ==
    ASSUME Loop!Parameters, NEW source \in Loop!Source, NEW x \in Int, x > 0, source.type # "aws",
           IntervalRead(source, Past(source), x)
    PROVE  Loop!Ticks(source, x)
<1> DEFINE given == Loop!Given(source.pairs, "crawl_interval")
           v == source.pairs[Loop!Latest(given)].value
<1>1. Before(source.pairs, Past(source)) = given
  BY DEF Before, Past, Loop!Given, Loop!Source
<1>2. CASE given = {}
  <2>1. x = Loop!Default
    BY <1>1, <1>2 DEF IntervalRead
  <2> QED
    BY <1>2, <2>1 DEF Loop!Ticks
<1>3. CASE given # {}
  <2>1. Loop!Latest(given) \in given /\ Asked(v, source.type, x)
    BY <1>1, <1>3 DEF IntervalRead
  <2>2. v \in Loop!Value
    BY <2>1, ValueIs
  <2> HIDE DEF given
  <2> DEFINE d == v.amount * (IF v.unit = "m" THEN Loop!Minute ELSE 1)
  <2>3. /\ v.unit \in {"s", "m"} /\ -MaxDuration <= d /\ d < 2 * MaxDuration => x = d
        /\ v.unit \notin {"s", "m"} /\ source.type # "gcp" => x = Loop!Default
    BY <2>1, <2>2, AskedTicks
  <2> QED
    BY <1>3, <2>3 DEF Loop!Ticks, given
<1> QED
  BY <1>2, <1>3

LEMMA AwsTicks ==
    ASSUME Loop!Parameters, NEW source \in Loop!Source, source.type = "aws",
           Loop!GetCrawlInterval(source.pairs).outcome \notin {"error", "panic"},
           ~(Loop!GetCrawlInterval(source.pairs).crawler.interval <= 0)
    PROVE  /\ Loop!GetCrawlInterval(source.pairs).crawler.interval \in Int
           /\ Loop!Ticks(source, Loop!GetCrawlInterval(source.pairs).crawler.interval)
<1> DEFINE given == Loop!Given(source.pairs, "crawl_interval")
           v == source.pairs[Loop!First(given)].value
           r == Loop!GetCrawlInterval(source.pairs)
           x == r.crawler.interval
<1>1. given # {} /\ r = CHOOSE c \in Loop!CrawlInterval(v, Loop!Default, Loop!New) : TRUE
  BY ErrorIs DEF Loop!GetCrawlInterval
<1>2. given \in SUBSET Nat
  BY DEF Loop!Given, Loop!Source
<1>3. Loop!First(given) \in given
  BY <1>1, <1>2, FirstIs
<1>4. v \in Loop!Value
  BY <1>3, ValueIs
<1>5. r \in Loop!CrawlInterval(v, Loop!Default, Loop!New)
  <2>1. Loop!CrawlInterval(v, Loop!Default, Loop!New) # {}
    BY DEF Loop!CrawlInterval
  <2> QED
    BY <1>1, <2>1
<1>6. Loop!New \in Crawler /\ Loop!Default \in Int
  BY LoopNewType DEF Loop!Default
<1>7. r.outcome \notin {"error", "panic"} /\ ~(x <= 0)
  OBVIOUS
<1> HIDE DEF given, v, r
<1>8. x \in Int /\ Asked(v, source.type, x)
  BY <1>4, <1>5, <1>6, <1>7, CrawlIntervalIs DEF Asked, Crawler
<1> DEFINE d == v.amount * (IF v.unit = "m" THEN Loop!Minute ELSE 1)
<1>9. /\ v.unit \in {"s", "m"} /\ -MaxDuration <= d /\ d < 2 * MaxDuration => x = d
      /\ v.unit \notin {"s", "m"} /\ source.type # "gcp" => x = Loop!Default
  <2> HIDE DEF x
  <2>1. x > 0
    BY <1>7, <1>8
  <2> QED
    BY <1>4, <1>8, <2>1, AskedTicks
<1>10. Loop!Ticks(source, x)
  <2> HIDE DEF x
  <2> QED
    BY <1>1, <1>7, <1>8, <1>9 DEF Loop!Ticks, given, v
<1> QED
  BY <1>8, <1>10 DEF r

LEMMA LoopCrawlIInv ==
    ASSUME Loop!Parameters, LoopIInv, NEW i \in DOMAIN sources, Loop!Crawl(i)
    PROVE  LoopIInv'
<1> DEFINE r == IF sources[i].type = "aws" THEN Loop!GetCrawlInterval(sources[i].pairs)
                ELSE Loop!Going([Loop!New EXCEPT !.interval = state[i].interval])
           x == r.crawler.interval
<1>1. /\ sources' = sources /\ loading' = loading /\ next' = next /\ crawler' = crawler
      /\ sources \in Sources /\ sources[i] \in Loop!Source /\ state[i].status = "started" /\ state[i].interval \in Int
      /\ \/ state' = [state EXCEPT ![i].status = "ended"] /\ alive' = alive
         \/ alive' = FALSE /\ state' = state
         \/ /\ r.outcome \notin {"error", "panic"} /\ ~(x <= 0) /\ alive' = alive
            /\ state' = [state EXCEPT ![i] = [status |-> "crawling", interval |-> x]]
  <2>1. sources[i] \in Loop!Source /\ state[i].status = "started" /\ state[i].interval \in Int
    BY LoopSourceIs DEF Loop!Crawl, LoopIInv, Loop!TypeOK
  <2> QED
    BY <2>1 DEF Loop!Crawl, LoopIInv
<1>2. loading # i \/ loading = 0
  BY <1>1 DEF LoopIInv, Loop!TypeOK
<1>3. CASE state' = [state EXCEPT ![i].status = "ended"] /\ alive' = alive
  <2>1. state' = [state EXCEPT ![i] = [status |-> "ended", interval |-> state[i].interval]]
    BY ZenonT(60), <1>1, <1>3 DEF LoopIInv, Loop!TypeOK
  <2>2. alive' \in BOOLEAN /\ (loading' = 0 \/ (loading' = loading /\ loading # i))
    BY <1>1, <1>2, <1>3 DEF LoopIInv, Loop!TypeOK
  <2> QED
    BY <1>1, <2>1, <2>2, LoopBecomesIInv
<1>4. CASE alive' = FALSE /\ state' = state
  BY <1>1, <1>4 DEF LoopIInv, Loop!TypeOK, LoopConstructing, LoopConstructed,
     Loop!TicksAsConfigured, Loop!NoneWithoutScope
<1>5. CASE /\ r.outcome \notin {"error", "panic"} /\ ~(x <= 0) /\ alive' = alive
           /\ state' = [state EXCEPT ![i] = [status |-> "crawling", interval |-> x]]
  <2>1. x \in Int /\ Loop!Ticks(sources[i], x)
    <3>1. CASE sources[i].type = "aws"
      <4>1. r = Loop!GetCrawlInterval(sources[i].pairs)
        BY <3>1
      <4> HIDE DEF r
      <4>2. r.outcome \notin {"error", "panic"} /\ ~(x <= 0)
        BY <1>5
      <4> QED
        BY <1>1, <3>1, <4>1, <4>2, AwsTicks
    <3>2. CASE sources[i].type # "aws"
      <4>1. x = state[i].interval
        BY <1>1, <3>2, GoingIs DEF Loop!New
      <4>2. IntervalRead(sources[i], Past(sources[i]), state[i].interval)
        BY <1>1 DEF LoopIInv, LoopConstructed
      <4> HIDE DEF x
      <4> QED
        BY <1>1, <1>5, <3>2, <4>1, <4>2, CrawlTicks
    <3> QED
      BY <3>1, <3>2
  <2> HIDE DEF x
  <2>2. \A j \in DOMAIN sources : state'[j] = IF j = i THEN [status |-> "crawling", interval |-> x] ELSE state[j]
    BY <1>5 DEF LoopIInv, Loop!TypeOK
  <2>3. Loop!TypeOK'
    BY <1>1, <1>2, <1>5, <2>1 DEF LoopIInv, Loop!TypeOK
  <2>4. LoopConstructing'
    BY <1>1 DEF LoopIInv, LoopConstructing
  <2>5. LoopConstructed'
    BY <1>1, <2>2 DEF LoopIInv, LoopConstructed
  <2>6. Loop!TicksAsConfigured'
    BY <1>1, <2>1, <2>2 DEF LoopIInv, Loop!TicksAsConfigured
  <2>7. Loop!NoneWithoutScope'
    BY <1>1, <2>2 DEF LoopIInv, Loop!NoneWithoutScope
  <2> QED
    BY <1>1, <2>3, <2>4, <2>5, <2>6, <2>7 DEF LoopIInv
<1> QED
  BY <1>1, <1>3, <1>4, <1>5

LEMMA LoopStepIInv == ASSUME Loop!Parameters, LoopIInv, [Loop!Next]_(Loop!vars) PROVE LoopIInv'
<1>1. CASE Loop!Construct
  BY <1>1, LoopConstructIInv
<1>2. CASE \E i \in DOMAIN sources : Loop!Load(i)
  BY <1>2, LoopLoadIInv
<1>3. CASE \E i \in DOMAIN sources : Loop!Crawl(i)
  BY <1>3, LoopCrawlIInv
<1>4. CASE UNCHANGED Loop!vars
  BY <1>4 DEF Loop!vars, LoopIInv, Loop!TypeOK, LoopConstructing, LoopConstructed,
     Loop!TicksAsConfigured, Loop!NoneWithoutScope
<1> QED
  BY <1>1, <1>2, <1>3, <1>4 DEF Loop!Next, Loop!Step
-----------------------------------------------------------------------------
(* A step of Startup is one of the race or of the loop.                    *)
LoopInv == part = "loop" => LoopIInv
RaceInv == IF part = "race" THEN IInv ELSE NoRace

LEMMA LoopStart == StartupInit => LoopInv
  BY StartupAssumption, LoopInitIInv DEF StartupInit, LoopInv

LEMMA LoopStep == LoopInv /\ [StartupNext]_all => LoopInv'
<1>1. ASSUME LoopIInv, part = "loop", [StartupNext]_all PROVE LoopIInv'
  <2>1. [Loop!Next]_(Loop!vars)
    BY <1>1 DEF StartupNext, Race, Load, all, loop, Loop!vars
  <2> QED
    BY <1>1, <2>1, StartupAssumption, LoopStepIInv
<1>2. [StartupNext]_all => part' = part
  BY DEF StartupNext, Race, Load, all
<1> QED
  BY <1>1, <1>2 DEF LoopInv

(* Crawlers tick as they are configured, once per interval that did not    *)
(* wrap, and none without a scope: for every configuration, order of its   *)
(* types and outcome of what the constructors try.                         *)
THEOREM ConfiguredAsLoaded == StartupSpec => []LoadedAsConfigured
<1>1. LoopInv => LoadedAsConfigured
  BY DEF LoopInv, LoopIInv, LoadedAsConfigured
<1> QED
  BY <1>1, LoopStart, LoopStep, PTL DEF StartupSpec

LEMMA RaceStart == StartupInit => RaceInv
  BY InitIInv DEF StartupInit, RaceInv

LEMMA RaceStep == RaceInv /\ [StartupNext]_all => RaceInv'
<1>1. [StartupNext]_all => part' = part
  BY DEF StartupNext, Race, Load, all
<1>2. ASSUME part = "race", IInv, [StartupNext]_all PROVE IInv'
  <2>1. [Next]_vars
    BY <1>2 DEF StartupNext, Race, Load, all
  <2> QED
    BY <1>2, <2>1, NextIInv
<1>3. ASSUME part # "race", NoRace, [StartupNext]_all PROVE NoRace'
  <2>1. UNCHANGED vars
    BY <1>3 DEF StartupNext, Race, Load, all
  <2> QED
    BY <1>3, <2>1 DEF NoRace, vars, runner
<1> QED
  BY <1>1, <1>2, <1>3 DEF RaceInv

(* What the theorems above say of the runner by itself holds in Startup.   *)
THEOREM RacesAreSafe == StartupSpec => [](StartedAtMostOnce /\ AnswersAgree /\ RejectedStartsNothing)
<1>1. IInv => StartedAtMostOnce /\ AnswersAgree /\ RejectedStartsNothing
  BY LaunchesOnce, AnswersOnce DEF IInv, StartedOnce, RejectedStartsNothing
<1>2. NoRace => StartedAtMostOnce /\ AnswersAgree /\ RejectedStartsNothing
  BY RunnerAssumption DEF NoRace, StartedAtMostOnce, AnswersAgree, RejectedStartsNothing
<1>3. RaceInv => StartedAtMostOnce /\ AnswersAgree /\ RejectedStartsNothing
  BY <1>1, <1>2 DEF RaceInv
<1> QED
  BY <1>3, RaceStart, RaceStep, PTL DEF StartupSpec
=============================================================================
