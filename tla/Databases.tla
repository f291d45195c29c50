----------------------------- MODULE Databases -----------------------------
(***************************************************************************)
(* The three database crawlers, one at a time: the process runs one for    *)
(* each data source and they share nothing but the channel.  A database is *)
(* given with what may exist in it, what may fail and what may change.     *)
(***************************************************************************)
EXTENDS Naturals, FiniteSets, Sequences, TLC

CONSTANTS Engines,       \* the databases that are crawled, by name
          Postgres, Maria, Mongo     \* name -> the constants of its crawler

VARIABLES engine,        \* the database whose crawler runs
          live, changes, failures, pc, batch, steady, excused,         \* of all three
          tables, table, indexes,                          \* PostgreSQL and MariaDB
          schemas, schema, keys, unread, views, pgSent,    \* PostgreSQL
          names, mariaSent,                                \* MariaDB
          at, collections, collection, element, fields, mongoSent  \* MongoDB

ofPostgres == <<schemas, schema, keys, unread, views, pgSent>>
ofMaria == <<names, mariaSent>>
ofMongo == <<at, collections, collection, element, fields, mongoSent>>
crawler == <<live, changes, failures, pc, batch, steady, excused>>
vars == <<engine, crawler, tables, table, indexes, ofPostgres, ofMaria, ofMongo>>

Pg(e) == INSTANCE PostgresCrawler WITH
    sent <- pgSent, Object <- Postgres[e].Object, Initially <- Postgres[e].Initially,
    SearchPath <- Postgres[e].SearchPath, Upstream <- Postgres[e].Upstream,
    MaxFailures <- Postgres[e].MaxFailures, MaxChanges <- Postgres[e].MaxChanges
Ma(e) == INSTANCE MariaCrawler WITH
    sent <- mariaSent, Table <- Maria[e].Table, Initially <- Maria[e].Initially,
    External <- Maria[e].External,
    MaxFailures <- Maria[e].MaxFailures, MaxChanges <- Maria[e].MaxChanges
Mo(e) == INSTANCE MongoCrawler WITH
    sent <- mongoSent, Databases <- Mongo[e].Databases, Collection <- Mongo[e].Collection,
    Initially <- Mongo[e].Initially, Sample <- Mongo[e].Sample, Guess <- Mongo[e].Guess,
    Denied <- Mongo[e].Denied,
    MaxFailures <- Mongo[e].MaxFailures, MaxChanges <- Mongo[e].MaxChanges

ASSUME DatabasesAssumption ==
    /\ \A e \in DOMAIN Postgres : Pg(e)!Parameters /\ e \notin DOMAIN Maria \union DOMAIN Mongo
    /\ \A e \in DOMAIN Maria : Ma(e)!Parameters /\ e \notin DOMAIN Mongo
    /\ \A e \in DOMAIN Mongo : Mo(e)!Parameters
-----------------------------------------------------------------------------
NoPostgres == schemas = {} /\ schema = "" /\ keys = {} /\ unread = {} /\ views = {} /\ pgSent = <<>>
NoMaria == names = {} /\ mariaSent = {}
NoMongo == at = 0 /\ collections = {} /\ collection = {} /\ element = {} /\ fields = {} /\ mongoSent = <<>>
NoTables == tables = {} /\ table = [kind |-> "none"] /\ indexes = {}

Init ==
    /\ engine \in Engines
    /\ \/ \E e \in DOMAIN Postgres : engine = e /\ Pg(e)!Init /\ NoMaria /\ NoMongo
       \/ \E e \in DOMAIN Maria : engine = e /\ Ma(e)!Init /\ NoPostgres /\ NoMongo
       \/ \E e \in DOMAIN Mongo : engine = e /\ Mo(e)!Init /\ NoPostgres /\ NoMaria /\ NoTables

OnlyPostgres == UNCHANGED <<engine, ofMaria, ofMongo>>
OnlyMaria == UNCHANGED <<engine, ofPostgres, ofMongo>>
OnlyMongo == UNCHANGED <<engine, tables, table, indexes, ofPostgres, ofMaria>>

Crawl ==
    \/ \E e \in DOMAIN Postgres : engine = e /\ Pg(e)!Crawl /\ OnlyPostgres
    \/ \E e \in DOMAIN Maria : engine = e /\ Ma(e)!Crawl /\ OnlyMaria
    \/ \E e \in DOMAIN Mongo : engine = e /\ Mo(e)!Crawl /\ OnlyMongo

Change ==
    \/ \E e \in DOMAIN Postgres : engine = e /\ (\E o \in Postgres[e].Object : Pg(e)!Change(o)) /\ OnlyPostgres
    \/ \E e \in DOMAIN Maria : engine = e /\ (\E t \in Maria[e].Table : Ma(e)!Change(t)) /\ OnlyMaria
    \/ \E e \in DOMAIN Mongo : engine = e /\ (\E c \in Mongo[e].Collection : Mo(e)!Change(c)) /\ OnlyMongo

Next == Crawl \/ Change

(* Each crawler's own fairness: it ticks, and its queries return.          *)
Spec == Init /\ [][Next]_vars /\ WF_vars(Crawl)
-----------------------------------------------------------------------------
(* What failing queries may cost a batch and no more.  PostgreSQL: a batch *)
(* carries on what the schemas before it gave; MariaDB: a shipped batch    *)
(* has every table but those whose own query failed; MongoDB: the batches  *)
(* are those of the first databases, and small collections are whole.      *)
BatchesComplete ==
    /\ \A e \in DOMAIN Postgres : engine = e => Pg(e)!CarriedOn
    /\ \A e \in DOMAIN Maria : engine = e => Ma(e)!FailureIsLocal
    /\ \A e \in DOMAIN Mongo : engine = e => Mo(e)!ShippedInOrder /\ Mo(e)!SmallOnesWhole

(* The foreign keys of the tables that are shown are relations, whatever   *)
(* fails and changes around them.                                          *)
KeysShown ==
    /\ \A e \in DOMAIN Postgres : engine = e => Pg(e)!KeysShown
    /\ \A e \in DOMAIN Maria : engine = e => Ma(e)!KeysShown

(* No relation is made up: PostgreSQL's lead to elements of the batch,     *)
(* MariaDB's to what a key of that name refers to, MongoDB's references to *)
(* collections of the database.  And variables have their types.           *)
RelationsTrue ==
    /\ \A e \in DOMAIN Postgres : engine = e => Pg(e)!TypeOK /\ Pg(e)!RelationsResolved
    /\ \A e \in DOMAIN Maria : engine = e => Ma(e)!TypeOK /\ Ma(e)!KeysTrue
    /\ \A e \in DOMAIN Mongo : engine = e => Mo(e)!TypeOK /\ Mo(e)!ReferencesTrue

(* Once queries stop failing, a table or collection that stays is shown    *)
(* again and again.                                                        *)
ShownInTheEnd ==
    /\ \A e \in DOMAIN Postgres : engine = e => Pg(e)!ShownInTheEnd
    /\ \A e \in DOMAIN Maria : engine = e => Ma(e)!ShownInTheEnd
    /\ \A e \in DOMAIN Mongo : engine = e => Mo(e)!ShownInTheEnd

(* The comment above PostgreSQL's Crawl (postgres.go:130): the crawler     *)
(* "retrieves all the Tables", here when no query fails and nothing        *)
(* changes.                                                                *)
AllTablesRetrieved ==
    \A e \in DOMAIN Postgres : engine = e /\ Postgres[e].MaxChanges = 0 => Pg(e)!AllTablesRetrieved
=============================================================================
