---------------------------- MODULE CrawlerConfig ----------------------------
(***************************************************************************)
(* From a configuration to running crawlers: Start goes through the data   *)
(* sources, type by type in the order of a Go map, and has a constructor   *)
(* read the key-value pairs of each (NewPostgresCrawler and so on).  An    *)
(* error leaves a data source out; a crawler without one gets a goroutine  *)
(* that makes its ticker.  A panic in any of them ends the process.        *)
(*                                                                         *)
(* A value is a record: env is the variable of a value "${env}", and else  *)
(* NoText, with the text; amount and unit are read off crawl intervals only.   *)
(***************************************************************************)
EXTENDS Integers, FiniteSets, Sequences

CONSTANTS Configs,       \* sequences of data sources: [type, pairs]
          Env,           \* environment variable -> text
          MaxDuration    \* durations from MaxDuration on are negative

Default == 30
Minute == 60
Literal == "${...}"      \* the text of a value that names a variable
NoText == ""

Type == {"kubernetes", "aws", "gcp", "aws_flow_logs", "mongodb", "postgres", "mariadb", "mysql"}
Value == [env : STRING, text : STRING, amount : Int, unit : STRING]
Source == [type : Type, pairs : Seq([key : STRING, value : Value])]

(* The second conjunct spells out what the prover does not know of strings.*)
Parameters ==
    /\ Configs \subseteq Seq(Source)
    /\ NoText \in STRING /\ Literal \in STRING
    /\ \A e \in DOMAIN Env : Env[e] \in STRING
    /\ MaxDuration \in Nat \ {0}

VARIABLES sources,       \* the configured data sources
          group,         \* the type being loaded
          loading,       \* the data source being constructed, 0: none
          next,          \* the pair its constructor reads next
          crawler,       \* the crawler under construction
          state,         \* what became of each data source
          alive          \* the process

vars == <<sources, group, loading, next, crawler, state, alive>>
-----------------------------------------------------------------------------
New == [scope |-> NoText, interval |-> Default, client |-> FALSE]

Text(v) == IF v.env = NoText THEN v.text ELSE Literal

(* LoadValueFromEnvConfig: no text if the variable is not set.             *)
LoadValueFromEnvConfig(v) ==
    IF v.env = NoText THEN {v.text} ELSE {Env[v.env] : e \in {v.env} \intersect DOMAIN Env}

(* Mutant: the amount is always taken for seconds. *)
SecondsOnly(v) == {v.amount}

(* time.Duration has a fixed width and wraps.                              *)
Wrapped(d) == ((d + MaxDuration) % (2 * MaxDuration)) - MaxDuration

(* What ParseInt and the unit make of a crawl interval; a unit other than  *)
(* s and m gives none.                                                     *)
Interval(v) == {Wrapped(v.amount * f[2]) : f \in {g \in {<<"s", 1>>, <<"m", Minute>>} : g[1] = v.unit}}
Parses(v) == v.env = NoText /\ v.unit # NoText

(* What a constructor may make of a pair: the crawler, an error, a panic.  *)
Going(c) == [outcome |-> "ok", crawler |-> c]
Error == [outcome |-> "error", crawler |-> New]
Panic == [outcome |-> "panic", crawler |-> New]

(* The last character of an empty value is asked for, without a look.      *)
CrawlInterval(v, other, c) ==
    IF Text(v) = NoText THEN {Panic}
    ELSE IF ~Parses(v) THEN {Error}
    ELSE {Going([c EXCEPT !.interval = IF Interval(v) # {} THEN CHOOSE d \in Interval(v) : TRUE ELSE other])}

Scope(t, c) == {Going([c EXCEPT !.scope = t])}
Password(v, c) == IF LoadValueFromEnvConfig(v) = {} THEN {Error} ELSE {Going(c)}
SSLMode(v, c) == IF Text(v) \in {"require", "disable"} THEN {Going(c)} ELSE {Error}
MayFail(c) == {Going(c), Error}

(* What each constructor makes of a pair.                                  *)
NewMongoDBCrawler(p, c) ==
    CASE p.key = "crawl_interval" -> CrawlInterval(p.value, Default, c)
      [] p.key = "scope_id" -> Scope(Text(p.value), c)
      [] p.key = "db_pass" -> Password(p.value, c)
      [] OTHER -> {Going(c)}

NewPostgresCrawler(p, c) ==
    IF p.key = "ssl_mode" THEN SSLMode(p.value, c) ELSE NewMongoDBCrawler(p, c)

NewMariadbCrawler(p, c) == NewPostgresCrawler(p, c)
NewMysqlCrawler(p, c) == NewPostgresCrawler(p, c)

(* AWS reads its interval when it crawls, flow logs have no scope.         *)
MakeAWS(p, c) == IF p.key = "scope_id" THEN Scope(Text(p.value), c) ELSE {Going(c)}
NewAWSFlowLogs(p, c) == IF p.key = "crawl_interval" THEN CrawlInterval(p.value, Default, c) ELSE {Going(c)}

(* GCP keeps the interval it has for an unknown unit.                      *)
NewGCPCrawler(p, c) ==
    CASE p.key = "crawl_interval" -> CrawlInterval(p.value, c.interval, c)
      [] p.key = "scope_id" -> Scope(Text(p.value), c)
      [] p.key = "credentials_file" -> MayFail(c)
      [] p.key = "in_cloud" /\ Text(p.value) = "true" -> MayFail(c)
      [] p.key = "project_id" /\ Text(p.value) = NoText -> {Error}
      [] OTHER -> {Going(c)}

(* The first way to the cluster that works is kept, and every value is     *)
(* read from the environment; an empty scope is passed over.               *)
KubernetesClient(c) == IF c.client THEN {Going(c)} ELSE {Going([c EXCEPT !.client = TRUE]), Error}

MakeKubernetesCrawler(p, c) ==
    IF LoadValueFromEnvConfig(p.value) = {} THEN {Error}
    ELSE LET value == CHOOSE t \in LoadValueFromEnvConfig(p.value) : TRUE IN
         CASE p.key = "crawl_interval" -> CrawlInterval(p.value, Default, c)
           [] p.key = "scope_id" /\ value # NoText -> Scope(value, c)
           [] p.key = "config_file" -> KubernetesClient(c)
           [] p.key = "in_cluster" /\ value = "true" -> KubernetesClient(c)
           [] p.key = "prometheus_host" -> MayFail(c)
           [] OTHER -> {Going(c)}

ReadPair(type, p, c) ==
    CASE type = "postgres" -> NewPostgresCrawler(p, c)
      [] type = "mariadb" -> NewMariadbCrawler(p, c)
      [] type = "mysql" -> NewMysqlCrawler(p, c)
      [] type = "mongodb" -> NewMongoDBCrawler(p, c)
      [] type = "aws" -> MakeAWS(p, c)
      [] type = "aws_flow_logs" -> NewAWSFlowLogs(p, c)
      [] type = "gcp" -> NewGCPCrawler(p, c)
      [] type = "kubernetes" -> MakeKubernetesCrawler(p, c)

(* Mutant: the scope may be missing. *)
FinishUnscoped(type, c) ==
    IF type \in {"kubernetes", "aws"} THEN {Going(c)} ELSE MayFail(c)

(* After the pairs: the scope must be there, but for flow logs, and what   *)
(* is connected to must answer, except that Kubernetes and AWS connect     *)
(* later.                                                                  *)
Finish(type, c) ==
    IF type # "aws_flow_logs" /\ c.scope = NoText THEN {Error}
    ELSE IF type \in {"kubernetes", "aws"} THEN {Going(c)} ELSE MayFail(c)
-----------------------------------------------------------------------------
Init ==
    /\ sources \in Configs
    /\ group = NoText /\ loading = 0 /\ next = 1
    /\ crawler = New
    /\ state = [i \in DOMAIN sources |-> [status |-> "waiting", interval |-> 0]]
    /\ alive = TRUE

Waiting(type) == {i \in DOMAIN sources : sources[i].type = type /\ state[i].status = "waiting"}

(* A type after the other, its data sources in order.                      *)
Load(i) ==
    /\ alive /\ loading = 0
    /\ Waiting(group) = {} \/ group = sources[i].type
    /\ i \in Waiting(sources[i].type) /\ \A j \in Waiting(sources[i].type) : i <= j
    /\ group' = sources[i].type
    /\ loading' = i /\ next' = 1 /\ crawler' = New
    /\ UNCHANGED <<sources, state, alive>>

(* Mutant: an error ends the loop over the data sources. *)
BecomesFatal(status) ==
    /\ state' = [state EXCEPT ![loading] = [status |-> status, interval |-> crawler.interval]]
    /\ loading' = 0
    /\ alive' = (status # "rejected")

Becomes(status) ==
    /\ state' = [state EXCEPT ![loading] = [status |-> status, interval |-> crawler.interval]]
    /\ loading' = 0
    /\ UNCHANGED alive

Construct ==
    /\ alive /\ loading # 0
    /\ LET type == sources[loading].type
           pairs == sources[loading].pairs IN
       \E r \in IF next <= Len(pairs) THEN ReadPair(type, pairs[next], crawler) ELSE Finish(type, crawler) :
          CASE r.outcome = "panic" -> alive' = FALSE /\ UNCHANGED <<loading, next, crawler, state>>
            [] r.outcome = "error" -> Becomes("rejected") /\ UNCHANGED <<next, crawler>>
            [] r.outcome = "ok" /\ next <= Len(pairs) ->
                   next' = next + 1 /\ crawler' = r.crawler /\ UNCHANGED <<loading, state, alive>>
            [] OTHER -> Becomes("started") /\ UNCHANGED <<next, crawler>>
    /\ UNCHANGED <<sources, group>>

(* GetCrawlInterval: the first interval of an AWS data source; without one *)
(* that is right the goroutine ends.                                       *)
Given(pairs, key) == {k \in DOMAIN pairs : pairs[k].key = key}
First(S) == CHOOSE k \in S : \A l \in S : k <= l

GetCrawlInterval(pairs) ==
    LET given == Given(pairs, "crawl_interval")
        v == pairs[First(given)].value
    IN IF given = {} \/ (Parses(v) /\ Interval(v) = {}) THEN Error
       ELSE CHOOSE r \in CrawlInterval(v, Default, New) : TRUE

(* The goroutine's first step: a ticker with an interval that is not       *)
(* positive panics.                                                        *)
Crawl(i) ==
    /\ alive /\ state[i].status = "started"
    /\ LET r == IF sources[i].type = "aws" THEN GetCrawlInterval(sources[i].pairs)
                ELSE Going([New EXCEPT !.interval = state[i].interval]) IN
       IF r.outcome = "error"
       THEN state' = [state EXCEPT ![i].status = "ended"] /\ UNCHANGED alive
       ELSE IF r.outcome = "panic" \/ r.crawler.interval <= 0
       THEN alive' = FALSE /\ UNCHANGED state
       ELSE /\ state' = [state EXCEPT ![i] = [status |-> "crawling", interval |-> r.crawler.interval]]
            /\ UNCHANGED alive
    /\ UNCHANGED <<sources, group, loading, next, crawler>>

Step == Construct \/ \E i \in DOMAIN sources : Load(i) \/ Crawl(i)
Next == Step

(* Start runs to its end, and goroutines get to run.                       *)
Spec == Init /\ [][Next]_vars /\ WF_vars(Step)
-----------------------------------------------------------------------------
(* Variables have their types; a data source is constructed while waiting.   *)
TypeOK ==
    /\ loading \in {0} \union DOMAIN sources
    /\ loading # 0 => next \in 1..(Len(sources[loading].pairs) + 1) /\ state[loading].status = "waiting"
    /\ crawler \in [scope : STRING, interval : Int, client : BOOLEAN]
    /\ alive \in BOOLEAN
    /\ state \in [DOMAIN sources -> [status : {"waiting", "rejected", "started", "ended", "crawling"},
                                     interval : Int]]

Latest(S) == CHOOSE k \in S : \A l \in S : l <= k

(* A crawler that ticks does so every 30 seconds unless a crawl interval   *)
(* is configured, and then as the last one says, for AWS the first: as     *)
(* many seconds or minutes, unless these are more than wrap around once,   *)
(* or every 30 seconds for another unit.                                   *)
Ticks(source, interval) ==
    LET given == Given(source.pairs, "crawl_interval")
        v == source.pairs[IF source.type = "aws" THEN First(given) ELSE Latest(given)].value
        d == v.amount * (IF v.unit = "m" THEN Minute ELSE 1)
    IN /\ interval > 0
       /\ given = {} => interval = Default
       /\ given # {} /\ v.unit \in {"s", "m"} /\ -MaxDuration <= d /\ d < 2 * MaxDuration => interval = d
       /\ given # {} /\ v.unit \notin {"s", "m"} /\ source.type # "gcp" => interval = Default
TicksAsConfigured ==
    \A i \in DOMAIN sources : state[i].status = "crawling" => Ticks(sources[i], state[i].interval)

(* No crawler ticks whose elements would have no scope in their names.     *)
HasScope(pairs) ==
    \E k \in Given(pairs, "scope_id") : pairs[k].value.env # NoText \/ pairs[k].value.text # NoText
NoneWithoutScope ==
    \A i \in DOMAIN sources :
        (state[i].status \in {"started", "crawling"} /\ sources[i].type # "aws_flow_logs") =>
            HasScope(sources[i].pairs)

(* One data source's errors are its own: in the end every other one was    *)
(* loaded, unless one has an interval that is empty or not positive, on    *)
(* which the process dies.                                                 *)
Deadly(p) ==
    /\ p.key = "crawl_interval"
    /\ \/ Text(p.value) = NoText
       \/ p.value.unit \in {"s", "m"} /\ ~(\E d \in Interval(p.value) : d > 0)
OthersLoaded ==
    <>[](\/ \A i \in DOMAIN sources : state[i].status \in {"rejected", "ended", "crawling"}
         \/ \E i \in DOMAIN sources : \E k \in DOMAIN sources[i].pairs : Deadly(sources[i].pairs[k]))
=============================================================================
