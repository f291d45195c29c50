-------------------------- MODULE PostgresCrawler --------------------------
(***************************************************************************)
(* The PostgreSQL crawler (internal/integrations/postgres): a crawl reads  *)
(* schema after schema, in each its tables with their foreign keys and     *)
(* indexes and then its materialized views, and ships a batch per schema   *)
(* that got that far.  The batches of a crawl share one slice, which grows *)
(* from schema to schema.  Every query is a step of its own: it may fail,  *)
(* or be cut short without a sign, since rows.Err is never asked; and      *)
(* objects are created and dropped between the queries.                    *)
(*                                                                         *)
(* An internal name is <<schema, name>>, the scope and the database left   *)
(* out, with "" for the name of a schema and <<"", "">> for the database.  *)
(***************************************************************************)
EXTENDS Naturals, FiniteSets, Sequences

CONSTANTS Object,        \* what may exist: schema, table, key, index, view
          Initially,     \* the objects there at the start
          SearchPath,    \* the schemas in the search_path of the connection
          Upstream,      \* the cloud instance or host above the database, if known
          MaxFailures,   \* bound on queries that fail or are cut short
          MaxChanges     \* bound on objects created or dropped

NoName == ""
Database == <<NoName, NoName>>
SchemaName(s) == <<s, NoName>>
Name(o) == <<o.schema, o.name>>

(* What an object needs: its schema, an index and a foreign key its table, *)
(* a foreign key also the table referred to.                               *)
Needs(o) ==
    {p \in Object : \/ p.kind = "schema" /\ p.schema = o.schema
                    \/ p.kind = "table" /\ Name(p) \in o.of
                    \/ o.kind = "key" /\ p.kind = "table" /\ Name(p) = o.to} \ {o}
Closed(objects) == \A o \in objects : Needs(o) \subseteq objects

(* Every object has a schema.  Tables, indexes and views share the names   *)
(* of a schema, and a name is that of one of them.  A foreign key is in    *)
(* the schema of its tables, and leads to a table.                         *)
TablesOf(objects) == {o \in objects : o.kind = "table"}
Relation == {o \in Object : o.kind \in {"table", "index", "view"}}
Parameters ==
    /\ Initially \subseteq Object /\ Closed(Initially)
    /\ MaxFailures \in Nat /\ MaxChanges \in Nat
    /\ \A o \in Object : \E p \in Object : p.kind = "schema" /\ p.schema = o.schema
    /\ \A o \in Relation : o.name # NoName /\ Name(o) \notin Upstream
    /\ \A o, p \in Relation : Name(o) = Name(p) => o = p
    /\ \A k \in {o \in Object : o.kind = "key"} :
          /\ k.to \in {Name(t) : t \in TablesOf(Object)}
          /\ k.of \subseteq {Name(t) : t \in {p \in TablesOf(Object) : p.schema = k.schema}}

VARIABLES live,          \* the objects of the database
          pc,            \* the next query of the crawl
          schemas,       \* schemaNames still to be read
          schema,        \* the schema being read
          tables,        \* tableNames still to be read
          table,         \* the table being read
          keys,          \* its foreign keys still to be read
          indexes,       \* its indexes as listed
          unread,        \* those whose columns are still to be read
          views,         \* materializedViewNames still to be read
          batch,         \* allCrawledElements
          sent,          \* the batches of the last crawl
          failures, changes,
          steady,        \* ghost: objects there ever since the crawl began
          excused        \* ghost: queries of the crawl that failed

reading == <<schemas, schema, tables, table, keys, indexes, unread, views>>
vars == <<live, changes, pc, reading, batch, sent, failures, steady, excused>>
-----------------------------------------------------------------------------
Of(kind, s) == {o \in live : o.kind = kind /\ o.schema = s}
OfTable(kind) == {o \in Of(kind, schema) : Name(table) \in o.of}

With(elements, relations) ==
    [elements |-> batch.elements \union elements, relations |-> batch.relations \union relations]

LastSent == sent[Len(sent)]
Batch(s, b) == [of |-> s, elements |-> b.elements, relations |-> b.relations]

(* A query answers with all rows, or it fails: some rows, and an error or  *)
(* none.                                                                   *)
Ask(query, rows, Use(_, _)) ==
    \/ Use(rows, FALSE) /\ UNCHANGED <<failures, excused>>
    \/ /\ failures < MaxFailures
       /\ failures' = failures + 1
       /\ excused' = excused \union {query}
       /\ \E some \in SUBSET rows, error \in BOOLEAN : Use(some, error)

(* The columns of an index are asked for by its bare name, cast to         *)
(* regclass, which is an error unless a schema of the search path has it.  *)
Visible(i) == \E s \in SearchPath : \E j \in Of("index", s) : j.name = i.name
-----------------------------------------------------------------------------
Init ==
    /\ live = Initially /\ changes = 0
    /\ pc = "idle"
    /\ schemas = {} /\ tables = {} /\ keys = {} /\ indexes = {} /\ unread = {} /\ views = {}
    /\ schema = NoName /\ table = [kind |-> "none"]
    /\ batch = [elements |-> {}, relations |-> {}]
    /\ sent = <<>>
    /\ failures = 0
    /\ steady = {} /\ excused = {}

(* CREATE, or DROP ... CASCADE.                                            *)
Change(o) ==
    /\ changes < MaxChanges
    /\ changes' = changes + 1
    /\ IF o \in live THEN live' = {p \in live : p # o /\ o \notin Needs(p)}
                     ELSE live' = live \union {o}
    /\ Closed(live')
    /\ steady' = steady \intersect live'
    /\ UNCHANGED <<pc, reading, batch, sent, failures, excused>>

Tick ==
    /\ pc = "idle" /\ pc' = "schemas"
    /\ sent' = <<>>
    /\ steady' = live /\ excused' = {}
    /\ UNCHANGED <<live, changes, reading, batch, failures>>

(* An error is logged, and what was listed before it is used.              *)
ListSchemas ==
    /\ pc = "schemas" /\ pc' = "schema"
    /\ Ask(<<"schemas">>, {o.schema : o \in {p \in live : p.kind = "schema"}},
           LAMBDA rows, error : schemas' = rows)
    /\ batch' = [elements |-> {Database}, relations |-> {<<u, Database>> : u \in Upstream}]
    /\ UNCHANGED <<live, changes, schema, tables, table, keys, indexes, unread, views, sent, steady>>

(* An error skips the schema.                                              *)
ListTables(s) ==
    /\ pc = "schema" /\ s \in schemas
    /\ schemas' = schemas \ {s} /\ schema' = s
    /\ Ask(<<"tables", s>>, Of("table", s), LAMBDA rows, error :
           IF error THEN pc' = "schema" /\ UNCHANGED <<tables, batch>>
           ELSE /\ pc' = "table" /\ tables' = rows
                /\ batch' = With({}, {<<Database, SchemaName(s)>>}))
    /\ UNCHANGED <<live, changes, table, keys, indexes, unread, views, sent, steady>>

(* The columns, which only fill the element, and the names of the          *)
(* constraints; errors keep what was read before them.                     *)
ReadTable(t) ==
    /\ pc = "table" /\ t \in tables /\ pc' = "key"
    /\ tables' = tables \ {t} /\ table' = t
    /\ Ask(<<"constraints", Name(t)>>, {k \in Of("key", schema) : Name(t) \in k.of},
           LAMBDA rows, error : keys' = rows)
    /\ batch' = With({}, {<<SchemaName(schema), Name(t)>>})
    /\ UNCHANGED <<live, changes, schemas, schema, indexes, unread, views, sent, steady>>

(* Mutant: the schema of the referenced table is taken for the table's. *)
ReadKeyInSchema(k) ==
    /\ pc = "key" /\ k \in keys
    /\ batch' = With({}, {<<Name(table), <<schema, k.to[2]>>>>})
    /\ keys' = keys \ {k}
    /\ UNCHANGED <<live, changes, pc, schemas, schema, tables, table, indexes, unread,
                   views, sent, steady, failures, excused>>

(* The type of a constraint and, in a second query, the table it refers    *)
(* to.  An error of the first gives up the remaining constraints, one of   *)
(* the second this constraint.                                             *)
ReadKey(k) ==
    /\ pc = "key" /\ k \in keys
    /\ Ask(<<"constraints", Name(table)>>, {k} \intersect live, LAMBDA rows, error :
           /\ batch' = With({}, {<<Name(table), r.to>> : r \in IF error THEN {} ELSE rows})
           /\ keys' \in {keys \ {k}} \union (IF error THEN {{}} ELSE {}))
    /\ UNCHANGED <<live, changes, pc, schemas, schema, tables, table, indexes, unread,
                   views, sent, steady>>

(* An error leaves the table's element out.                                *)
ListIndexes ==
    /\ pc = "key" /\ keys = {}
    /\ Ask(<<"indexes", Name(table)>>, OfTable("index"), LAMBDA rows, error :
           /\ pc' = IF error THEN "table" ELSE "index"
           /\ indexes' = (IF error THEN {} ELSE rows) /\ unread' = indexes')
    /\ UNCHANGED <<live, changes, schemas, schema, tables, table, keys, views, batch, sent, steady>>

ReadIndex(i) ==
    /\ pc = "index" /\ i \in unread
    /\ Ask(<<"indexes", Name(table)>>, {i}, LAMBDA rows, error :
           IF error \/ ~Visible(i)
           THEN pc' = "table" /\ indexes' = {} /\ unread' = {}
           ELSE pc' = "index" /\ unread' = unread \ {i} /\ UNCHANGED indexes)
    /\ UNCHANGED <<live, changes, schemas, schema, tables, table, keys, views, batch, sent, steady>>

(* Mutant: the table's element is made in the loop over its indexes. *)
AddTableIfIndexed ==
    /\ pc = "index" /\ unread = {} /\ pc' = "table"
    /\ indexes' = {}
    /\ batch' = With({Name(i) : i \in indexes} \union {Name(table) : i \in indexes}, {})
    /\ UNCHANGED <<live, changes, schemas, schema, tables, table, keys, unread, views,
                   sent, failures, steady, excused>>

AddTable ==
    /\ pc = "index" /\ unread = {} /\ pc' = "table"
    /\ indexes' = {}
    /\ batch' = With({Name(i) : i \in indexes} \union {Name(table)},
                     {Name(table), Database, SchemaName(schema)} \X {Name(i) : i \in indexes})
    /\ UNCHANGED <<live, changes, schemas, schema, tables, table, keys, unread, views,
                   sent, failures, steady, excused>>

(* An error skips the schema: its element is missing, what was read of it  *)
(* stays for the next schema's batch.                                      *)
ListViews ==
    /\ pc = "table" /\ tables = {}
    /\ Ask(<<"views", schema>>, Of("view", schema), LAMBDA rows, error :
           /\ pc' = IF error THEN "schema" ELSE "view"
           /\ views' = IF error THEN {} ELSE rows)
    /\ UNCHANGED <<live, changes, schemas, schema, tables, table, keys, indexes, unread,
                   batch, sent, steady>>

(* Mutant: the relations are made before the error is looked at. *)
ReadViewEarly(v) ==
    /\ pc = "view" /\ v \in views
    /\ views' = views \ {v}
    /\ Ask(<<"view", Name(v)>>, {v}, LAMBDA rows, error :
           batch' = With(IF error THEN {} ELSE {Name(v)},
                         {Database, SchemaName(schema)} \X {Name(v)}))
    /\ UNCHANGED <<live, changes, pc, schemas, schema, tables, table, keys, indexes, unread,
                   sent, steady>>

ReadView(v) ==
    /\ pc = "view" /\ v \in views
    /\ views' = views \ {v}
    /\ Ask(<<"view", Name(v)>>, {v}, LAMBDA rows, error :
           batch' = IF error THEN batch
                    ELSE With({Name(v)}, {Database, SchemaName(schema)} \X {Name(v)}))
    /\ UNCHANGED <<live, changes, pc, schemas, schema, tables, table, keys, indexes, unread,
                   sent, steady>>

(* Mutant: the slice starts anew after each batch. *)
ShipAfresh ==
    /\ pc = "view" /\ views = {} /\ pc' = "schema"
    /\ sent' = Append(sent, Batch(schema, With({SchemaName(schema)}, {})))
    /\ batch' = [elements |-> {}, relations |-> {}]
    /\ UNCHANGED <<live, changes, reading, failures, steady, excused>>

Ship ==
    /\ pc = "view" /\ views = {} /\ pc' = "schema"
    /\ batch' = With({SchemaName(schema)}, {})
    /\ sent' = Append(sent, Batch(schema, batch'))
    /\ UNCHANGED <<live, changes, reading, failures, steady, excused>>

(* Nothing is shipped of a crawl without a schema, not even the database.  *)
End ==
    /\ pc = "schema" /\ schemas = {} /\ pc' = "idle"
    /\ UNCHANGED <<live, changes, reading, batch, sent, failures, steady, excused>>

Crawl ==
    \/ Tick \/ ListSchemas \/ ListIndexes \/ AddTable \/ ListViews \/ Ship \/ End
    \/ \E s \in schemas : ListTables(s)
    \/ \E t \in tables : ReadTable(t)
    \/ \E k \in keys : ReadKey(k)
    \/ \E i \in unread : ReadIndex(i)
    \/ \E v \in views : ReadView(v)

Next == Crawl \/ \E o \in Object : Change(o)

(* The ticker ticks, and every query returns.                              *)
Spec == Init /\ [][Next]_vars /\ WF_vars(Crawl)
-----------------------------------------------------------------------------
(* Variables have their types; a table is read in its own schema.            *)
TypeOK ==
    /\ live \subseteq Object /\ Closed(live) /\ steady \subseteq live
    /\ pc \in {"idle", "schemas", "schema", "table", "key", "index", "view"}
    /\ \A o \in tables \union keys \union indexes \union views : o.schema = schema
    /\ unread \subseteq indexes /\ (indexes # {} => pc = "index")
    /\ \A i \in DOMAIN sent : DOMAIN sent[i] = {"of", "elements", "relations"}
    /\ failures \in 0..MaxFailures /\ changes \in 0..MaxChanges

(* Why a table has no element: a list it would have been in failed, or one *)
(* of its indexes could not be read, because it was dropped meanwhile or   *)
(* no schema of the search path has it.                                    *)
IndexesOf(t) == {o \in Object : o.kind = "index" /\ Name(t) \in o.of}
Shaky(t) ==
    \/ {<<"schemas">>, <<"tables", t.schema>>, <<"indexes", Name(t)>>} \intersect excused # {}
    \/ \E i \in IndexesOf(t) : (i \in live <=> i \notin steady) \/ ~Visible(i)

(* A batch holds all that the crawl has read so far: also the tables of a  *)
(* schema whose own batch was given up when its views could not be listed, *)
(* in a database that does not change.                                     *)
CarriedOn ==
    (pc = "schema" /\ changes = 0 /\ sent # <<>> /\ schema = LastSent.of) =>
        \A t \in TablesOf(steady) :
            t.schema \notin schemas /\ ~Shaky(t) => Name(t) \in LastSent.elements

(* Every foreign key of a table that is shown is a relation in the last    *)
(* batch, also when it leads to another schema.                            *)
KeysShown ==
    (pc = "idle" /\ sent # <<>>) =>
        \A k \in {o \in steady : o.kind = "key"} : \A n \in k.of \intersect LastSent.elements :
            (n # k.to /\ <<"constraints", n>> \notin excused) => <<n, k.to>> \in LastSent.relations

(* At the end of a crawl both ends of each relation of its last batch that *)
(* were there all the time are elements of that batch, whatever schema     *)
(* they belong to, unless a query they depend on failed; in a database     *)
(* that does not change.                                                   *)
RelationsResolved ==
    (pc = "idle" /\ changes = 0 /\ sent # <<>>) =>
        \A o \in {p \in steady : p.kind \in {"table", "index", "view"}} : \A r \in LastSent.relations :
            ( /\ Name(o) \in {r[1], r[2]}
              /\ {<<"schemas">>, <<"tables", o.schema>>, <<"views", o.schema>>} \intersect excused = {}
              /\ o.kind = "table" => ~Shaky(o) )
            => Name(o) \in LastSent.elements

(* Once queries stop failing, a table that stays is shown again and again. *)
ShownInTheEnd ==
    \A t \in TablesOf(Object) :
        <>[](t \in live /\ \A i \in IndexesOf(t) : Visible(i))
            => []<>(sent # <<>> /\ Name(t) \in LastSent.elements)

(* The comment above Crawl (postgres.go:130): the crawler "retrieves all   *)
(* the Tables", here when no query fails and nothing changes.              *)
AllTablesRetrieved ==
    (pc = "idle" /\ excused = {} /\ sent # <<>>) =>
        \A t \in TablesOf(steady) : Name(t) \in LastSent.elements
=============================================================================
