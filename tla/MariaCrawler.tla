---------------------------- MODULE MariaCrawler ----------------------------
(***************************************************************************)
(* The MariaDB and MySQL crawler (internal/integrations/mariadb): a crawl  *)
(* reads the tables of one database, each with its constraints and         *)
(* indexes, and ships one batch whatever failed on the way.  Every query   *)
(* is a step and may fail or be cut short; tables are created and dropped  *)
(* between the queries.                                                    *)
(*                                                                         *)
(* An internal name is <<"", name>>, scope and schema left out, and        *)
(* <<"", "">> the database.  Some relations use names from the             *)
(* configuration as they are: <<"raw", name>>.                             *)
(***************************************************************************)
EXTENDS Naturals, FiniteSets

CONSTANTS Table,         \* with its constraints, indexes and whether all columns are in the primary key
          Initially,     \* the tables there at the start
          External,      \* externalMappingID, if there is one
          MaxFailures,   \* bound on queries that fail or are cut short
          MaxChanges     \* bound on tables created or dropped

NoName == ""

(* A table has a name, no other table and no index has it: the internal    *)
(* name of an index could be taken for a table's.                          *)
Parameters ==
    /\ Initially \subseteq Table /\ MaxFailures \in Nat /\ MaxChanges \in Nat
    /\ \A t, u \in Table : t.name = u.name => t = u
    /\ \A t, u \in Table : t.name # NoName /\ t.name \notin u.indexes

Database == <<NoName, NoName>>
Raw(n) == <<"raw", n>>
Internal(n) == <<NoName, n>>
Empty == [elements |-> {}, relations |-> {}]

VARIABLES live,          \* the tables of the database
          pc,            \* the next query
          tables,        \* tableNames still to be read
          table,         \* the table being read
          names,         \* its constraintNames still to be read
          indexes,       \* its indexes still to be read
          batch,         \* allCrawledElements
          sent,          \* the batches of the last crawl
          failures, changes,
          steady,        \* ghost: tables there ever since the crawl began
          excused        \* ghost: queries of the crawl that failed

vars == <<live, pc, tables, table, names, indexes, batch, sent, failures, changes, steady, excused>>
-----------------------------------------------------------------------------
With(elements, relations) ==
    [elements |-> batch.elements \union elements, relations |-> batch.relations \union relations]

(* A query answers with all rows, or with some: an error that leaves those *)
(* read before it, or rows.Err never asked.                                *)
Ask(query, rows, Use(_)) ==
    \/ Use(rows) /\ UNCHANGED <<failures, excused>>
    \/ /\ failures < MaxFailures
       /\ failures' = failures + 1
       /\ excused' = excused \union {query}
       /\ \E some \in SUBSET rows : Use(some)
Fails(query) ==
    /\ failures < MaxFailures
    /\ failures' = failures + 1
    /\ excused' = excused \union {query}

(* Mutant: the columns are asked for without the name of the constraint. *)
ReferredAny(n) == UNION {UNION {c.to : c \in t.constraints} : t \in live}

(* The tables a constraint refers to.  The columns are asked for by the    *)
(* name of the constraint, which a unique key of another table may share.  *)
Referred(n) == UNION {UNION {c.to : c \in {d \in t.constraints : d.name = n}} : t \in live}

(* The query for the names joins the columns by table only: a table whose  *)
(* columns are all in the primary key has none.                            *)
ConstraintNames(t) ==
    IF t \in live /\ ~t.primaryOnly THEN {c.name : c \in t.constraints} ELSE {}
-----------------------------------------------------------------------------
Init ==
    /\ live = Initially /\ changes = 0
    /\ pc = "idle"
    /\ tables = {} /\ names = {} /\ indexes = {}
    /\ table = [name |-> NoName]
    /\ batch = Empty /\ sent = {}
    /\ failures = 0
    /\ steady = {} /\ excused = {}

(* A table is created or dropped.                                          *)
Change(t) ==
    /\ changes < MaxChanges
    /\ changes' = changes + 1
    /\ live' = IF t \in live THEN live \ {t} ELSE live \union {t}
    /\ steady' = steady \ {t}
    /\ UNCHANGED <<pc, tables, table, names, indexes, batch, sent, failures, excused>>

(* The database's element is there before anything is asked.               *)
Tick ==
    /\ pc = "idle" /\ pc' = "tables"
    /\ batch' = [elements |-> {Database},
                 relations |-> {<<e, Database>> : e \in External} \union {<<Raw("host"), Raw("db")>>}]
    /\ sent' = {}
    /\ steady' = live /\ excused' = {}
    /\ UNCHANGED <<live, changes, tables, table, names, indexes, failures>>

(* An error is ignored.                                                    *)
ListTables ==
    /\ pc = "tables" /\ pc' = "table"
    /\ Ask(<<"tables">>, live, LAMBDA rows : tables' = rows)
    /\ UNCHANGED <<live, changes, table, names, indexes, batch, sent, steady>>

(* The columns, which only fill the element, and the primary key: without  *)
(* it the table has no constraints.                                        *)
ReadTable(t) ==
    /\ pc = "table" /\ t \in tables
    /\ tables' = tables \ {t} /\ table' = t
    /\ \/ pc' = "names" /\ UNCHANGED <<failures, excused>>
       \/ pc' = "indexes" /\ Fails(<<"constraints", t.name>>)
    /\ UNCHANGED <<live, changes, names, indexes, batch, sent, steady>>

ListConstraints ==
    /\ pc = "names" /\ pc' = "constraint"
    /\ Ask(<<"constraints", table.name>>, ConstraintNames(table), LAMBDA rows : names' = rows)
    /\ UNCHANGED <<live, changes, tables, table, indexes, batch, sent, steady>>

(* An error of the query for the names is not looked at: the rows are nil, *)
(* and asking for the first one panics.  The process starts again.         *)
ConstraintsPanic ==
    /\ pc = "names" /\ pc' = "idle"
    /\ Fails(<<"constraints", table.name>>)
    /\ batch' = Empty /\ tables' = {} /\ sent' = {}
    /\ UNCHANGED <<live, changes, table, names, indexes, steady>>

(* Mutant: an error gives up the remaining constraints. *)
ReadConstraintStopping(n) ==
    /\ pc = "constraint" /\ n \in names
    /\ \/ /\ names' = names \ {n} /\ UNCHANGED <<failures, excused>>
          /\ batch' = With({}, {<<Internal(table.name), Internal(u)>> : u \in Referred(n)})
       \/ names' = {} /\ Fails(<<"constraint", table.name, n>>) /\ UNCHANGED batch
    /\ UNCHANGED <<live, changes, pc, tables, table, indexes, sent, steady>>

(* An error skips the constraint.                                          *)
ReadConstraint(n) ==
    /\ pc = "constraint" /\ n \in names
    /\ names' = names \ {n}
    /\ Ask(<<"constraint", table.name, n>>, Referred(n), LAMBDA rows :
           batch' = With({}, {<<Internal(table.name), Internal(u)>> : u \in rows}))
    /\ UNCHANGED <<live, changes, pc, tables, table, indexes, sent, steady>>

ConstraintsDone ==
    /\ pc = "constraint" /\ names = {} /\ pc' = "indexes"
    /\ UNCHANGED <<live, changes, tables, table, names, indexes, batch, sent, failures, steady, excused>>

(* Mutant: an error leaves the table's element out. *)
ListIndexesSkipping ==
    /\ pc = "indexes"
    /\ \/ pc' = "index" /\ indexes' = table.indexes /\ UNCHANGED <<failures, excused>>
       \/ pc' = "table" /\ indexes' = {} /\ Fails(<<"indexes", table.name>>)
    /\ UNCHANGED <<live, changes, tables, table, names, batch, sent, steady>>

(* An error is ignored here too.                                           *)
ListIndexes ==
    /\ pc = "indexes" /\ pc' = "index"
    /\ Ask(<<"indexes", table.name>>, IF table \in live THEN table.indexes ELSE {},
           LAMBDA rows : indexes' = rows)
    /\ UNCHANGED <<live, changes, tables, table, names, batch, sent, steady>>

(* An index whose columns cannot be read is skipped.  Its name is unique   *)
(* in its table only: PRIMARY stands for the primary keys of all tables.   *)
ReadIndex(i) ==
    /\ pc = "index" /\ i \in indexes
    /\ indexes' = indexes \ {i}
    /\ Ask(<<"indexes", table.name>>, {i}, LAMBDA rows :
           batch' = With({Internal(j) : j \in rows},
                         {Internal(table.name), Raw("db")} \X {Internal(j) : j \in rows}))
    /\ UNCHANGED <<live, changes, pc, tables, table, names, sent, steady>>

AddTable ==
    /\ pc = "index" /\ indexes = {} /\ pc' = "table"
    /\ batch' = With({Internal(table.name)}, {})
    /\ UNCHANGED <<live, changes, tables, table, names, indexes, sent, failures, steady, excused>>

(* Mutant: the slice is kept from crawl to crawl. *)
ShipKeeping ==
    /\ pc = "table" /\ tables = {} /\ pc' = "idle"
    /\ sent' = {batch}
    /\ UNCHANGED <<live, changes, tables, table, names, indexes, batch, failures, steady, excused>>

(* Mutant: an error is kept, and later crawls ship nothing. *)
ShipUnlessFailed ==
    /\ pc = "table" /\ tables = {} /\ pc' = "idle"
    /\ sent' = IF failures = 0 THEN {batch} ELSE {}
    /\ batch' = Empty
    /\ UNCHANGED <<live, changes, tables, table, names, indexes, failures, steady, excused>>

Ship ==
    /\ pc = "table" /\ tables = {} /\ pc' = "idle"
    /\ sent' = {batch}
    /\ batch' = Empty
    /\ UNCHANGED <<live, changes, tables, table, names, indexes, failures, steady, excused>>

Crawl ==
    \/ Tick \/ ListTables \/ ListConstraints \/ ConstraintsPanic \/ ConstraintsDone
    \/ ListIndexes \/ AddTable \/ Ship
    \/ \E t \in tables : ReadTable(t)
    \/ \E n \in names : ReadConstraint(n)
    \/ \E i \in indexes : ReadIndex(i)

Next == Crawl \/ \E t \in Table : Change(t)

(* The ticker ticks, and every query returns.                              *)
Spec == Init /\ [][Next]_vars /\ WF_vars(Crawl)
-----------------------------------------------------------------------------
(* Variables have their types; between crawls nothing is left over.          *)
TypeOK ==
    /\ live \subseteq Table /\ steady \subseteq live /\ tables \subseteq Table
    /\ pc \in {"idle", "tables", "table", "names", "constraint", "indexes", "index"}
    /\ pc = "idle" => tables = {} /\ batch = Empty
    /\ Cardinality(sent) <= 1
    /\ names # {} => pc = "constraint" /\ names \subseteq {c.name : c \in table.constraints}
    /\ indexes # {} => pc = "index" /\ indexes \subseteq table.indexes
    /\ failures \in 0..MaxFailures /\ changes \in 0..MaxChanges

(* A crawl that ships shows every table that was there all the time and    *)
(* every index of it, except where the query for the tables, or for this   *)
(* table's indexes, failed; constraints cost a table nothing.              *)
FailureIsLocal ==
    \A b \in sent : \A t \in steady :
        <<"tables">> \notin excused =>
            /\ Internal(t.name) \in b.elements
            /\ <<"indexes", t.name>> \notin excused =>
                  \A i \in t.indexes : <<Internal(t.name), Internal(i)>> \in b.relations

(* Every foreign key of such a table is a relation, unless a query for it  *)
(* failed or all columns of the table are in its primary key, as in a      *)
(* table that only joins two others.                                       *)
KeysShown ==
    \A b \in sent : \A t \in steady : \A c \in t.constraints :
        ( /\ {<<"tables">>, <<"constraints", t.name>>, <<"constraint", t.name, c.name>>} \intersect excused = {}
          /\ ~t.primaryOnly )
        => \A u \in c.to : <<Internal(t.name), Internal(u)>> \in b.relations

(* A relation between tables comes from a foreign key of the first that    *)
(* leads to the second, or the first has a constraint of the same name as  *)
(* such a key of another table.                                            *)
TableNames == {t.name : t \in Table}
KeysTrue ==
    \A b \in sent : \A t, u \in Table :
        <<Internal(t.name), Internal(u.name)>> \in b.relations =>
            \E c \in t.constraints : \E o \in Table : \E d \in o.constraints :
                d.name = c.name /\ u.name \in d.to

(* Once queries stop failing a table that stays is shown again and again,  *)
(* a process that died of a failing query included.                        *)
ShownInTheEnd ==
    \A t \in Table : <>[](t \in live) => []<>(\E b \in sent : Internal(t.name) \in b.elements)
=============================================================================
