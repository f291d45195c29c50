---------------------------- MODULE MongoCrawler ----------------------------
(***************************************************************************)
(* The MongoDB crawler (internal/integrations/mongodb): a crawl goes       *)
(* through the configured databases in order and ships a batch for each.   *)
(* The columns and the references of a collection are guessed from two     *)
(* samples of its documents.  Every request is a step and may fail or end  *)
(* early; collections come and go between the requests.                    *)
(*                                                                         *)
(* An internal name is <<db>>, <<db, collection>> or                       *)
(* <<db, collection, index>>, the scope left out.                          *)
(***************************************************************************)
EXTENDS Naturals, FiniteSets, Sequences

CONSTANTS Databases,     \* crawler.DBName
          Collection,    \* [db, name, docs, indexes]; a document maps fields to types
          Initially,     \* the collections there at the start
          Sample,        \* the documents a sample has at most: 64
          Guess,         \* getCollectionNameFromColumnID: field -> collection name
          Denied,        \* databases whose collections may never be listed
          MaxFailures,   \* bound on requests that fail or end early
          MaxChanges     \* bound on collections created or dropped

VARIABLES live,          \* the collections of the server
          pc,            \* the next request
          at,            \* index of the database in Databases
          collections,   \* the collections still to be read
          collection,    \* the one being read
          element,       \* mongoCollection: what is read of it
          fields,        \* ObjectID fields of the second sample still to be guessed
          batch,         \* allCrawledElements
          sent,          \* the batches of the last crawl
          failures, changes,
          steady,        \* ghost: collections there ever since the crawl began
          excused        \* ghost: requests of the crawl that failed

vars == <<live, pc, at, collections, collection, element, fields, batch, sent,
          failures, changes, steady, excused>>
-----------------------------------------------------------------------------
(* A database has one collection of a name, with finitely many documents.  *)
Parameters ==
    /\ Initially \subseteq Collection /\ MaxFailures \in Nat /\ MaxChanges \in Nat
    /\ Databases \in Seq(STRING) /\ Sample \in Nat
    /\ \A c, d \in Collection : c.db = d.db /\ c.name = d.name => c = d
    /\ \A c \in Collection : IsFiniteSet(c.docs)

Name(c) == <<c.db, c.name>>
IndexName(c, i) == <<c.db, c.name, i>>
NoName == ""
None == [db |-> NoName, name |-> NoName, docs |-> {}, indexes |-> {}]
Batch(db) == [of |-> db, elements |-> batch.elements, relations |-> batch.relations]
Bare(n) == [name |-> n, columns |-> <<>>, references |-> {}, indexes |-> {}]

(* What a request about a collection finds: nothing once it was dropped.   *)
Docs == IF collection \in live THEN collection.docs ELSE {}
Indexes == IF collection \in live THEN collection.indexes ELSE {}

CollectionsOf(db) == {c \in live : c.db = db}

(* A request answers with all there is, or fails or ends early: what was   *)
(* read before is used.                                                    *)
Ask(request, found, Use(_)) ==
    \/ Use(found) /\ UNCHANGED <<failures, excused>>
    \/ /\ failures < MaxFailures
       /\ failures' = failures + 1
       /\ excused' = excused \union {request}
       /\ \E some \in SUBSET found : Use(some)

(* $sample: any so many documents, in any order.                           *)
Samples(docs) ==
    {s \in SUBSET docs : Cardinality(s) = IF Cardinality(docs) < Sample THEN Cardinality(docs) ELSE Sample}
Fields(docs) == UNION {DOMAIN d : d \in docs}

(* Mutant: only the fields all documents have become columns. *)
ColumnsCommon(docs) ==
    {f \in [{x \in Fields(docs) : \A d \in docs : x \in DOMAIN d} -> UNION {{d[x] : x \in DOMAIN d} : d \in docs}] :
        \A x \in DOMAIN f : \E d \in docs : f[x] = d[x]}

(* A column has the type of the document with it that comes first.         *)
ColumnsOf(docs) ==
    {f \in [Fields(docs) -> UNION {{d[x] : x \in DOMAIN d} : d \in docs}] :
        \A x \in DOMAIN f : \E d \in docs : x \in DOMAIN d /\ f[x] = d[x]}
References(docs) == {x \in Fields(docs) \ {"_id"} : \E d \in docs : x \in DOMAIN d /\ d[x] = "objectId"}
-----------------------------------------------------------------------------
Init ==
    /\ live = Initially /\ changes = 0
    /\ pc = "idle" /\ at = 0
    /\ collections = {} /\ collection = None /\ element = Bare(<<>>) /\ fields = {}
    /\ batch = [elements |-> {}, relations |-> {}]
    /\ sent = <<>>
    /\ failures = 0
    /\ steady = {} /\ excused = {}

(* A collection is created or dropped.                                     *)
Change(c) ==
    /\ changes < MaxChanges
    /\ changes' = changes + 1
    /\ live' = IF c \in live THEN live \ {c} ELSE live \union {c}
    /\ steady' = steady \ {c}
    /\ UNCHANGED <<pc, at, collections, collection, element, fields, batch, sent, failures, excused>>

(* Mutant: a crawl goes on where the last one ended. *)
TickContinuing ==
    /\ pc = "idle" /\ pc' = "database"
    /\ sent' = <<>>
    /\ steady' = live /\ excused' = {}
    /\ UNCHANGED <<live, changes, at, collections, collection, element, fields, batch, failures>>

Tick ==
    /\ pc = "idle" /\ pc' = "database" /\ at' = 0
    /\ sent' = <<>>
    /\ steady' = live /\ excused' = {}
    /\ UNCHANGED <<live, changes, collections, collection, element, fields, batch, failures>>

Done ==
    /\ pc = "database" /\ at = Len(Databases) /\ pc' = "idle"
    /\ UNCHANGED <<live, changes, at, collections, collection, element, fields, batch, sent,
                   failures, steady, excused>>

(* Mutant: a database that fails is passed over. *)
ListCollectionsGoingOn ==
    /\ pc = "database" /\ at < Len(Databases) /\ at' = at + 1
    /\ LET db == Databases[at + 1] IN
       /\ batch' = [elements |-> {Bare(<<db>>)}, relations |-> {}]
       /\ \/ /\ db \notin Denied
             /\ pc' = "collection" /\ collections' = CollectionsOf(db)
             /\ UNCHANGED <<failures, excused>>
          \/ /\ pc' = "database" /\ UNCHANGED collections
             /\ db \in Denied \/ failures < MaxFailures
             /\ failures' = IF db \in Denied THEN failures ELSE failures + 1
             /\ excused' = excused \union {<<db>>}
    /\ UNCHANGED <<live, changes, collection, element, fields, sent, steady>>

(* A new slice with the element of the next database.  If its collections  *)
(* cannot be listed the crawl returns the error; the batches of the        *)
(* databases before it are on the channel.                                 *)
ListCollections ==
    /\ pc = "database" /\ at < Len(Databases) /\ at' = at + 1
    /\ LET db == Databases[at + 1] IN
       /\ batch' = [elements |-> {Bare(<<db>>)}, relations |-> {}]
       /\ \/ /\ db \notin Denied
             /\ pc' = "collection" /\ collections' = CollectionsOf(db)
             /\ UNCHANGED <<failures, excused>>
          \/ /\ pc' = "idle" /\ UNCHANGED collections
             /\ db \in Denied \/ failures < MaxFailures
             /\ failures' = IF db \in Denied THEN failures ELSE failures + 1
             /\ excused' = excused \union {<<db>>}
    /\ UNCHANGED <<live, changes, collection, element, fields, sent, steady>>

(* The names of the indexes, for the element.                              *)
ReadCollection(c) ==
    /\ pc = "collection" /\ c \in collections /\ pc' = "columns"
    /\ collections' = collections \ {c} /\ collection' = c
    /\ Ask(<<c.db, c.name, "names">>, IF c \in live THEN c.indexes ELSE {},
           LAMBDA names : element' = [Bare(Name(c)) EXCEPT !.indexes = names])
    /\ UNCHANGED <<live, changes, at, fields, batch, sent, steady>>

ReadColumns ==
    /\ pc = "columns" /\ pc' = "constraints"
    /\ \E s \in Samples(Docs) : Ask(<<collection.db, collection.name, "columns">>, s, LAMBDA docs :
           \E f \in ColumnsOf(docs) : element' = [element EXCEPT !.columns = f])
    /\ UNCHANGED <<live, changes, at, collections, collection, fields, batch, sent, steady>>

(* A second sample, for the constraints.                                   *)
SampleConstraints ==
    /\ pc = "constraints" /\ pc' = "references"
    /\ \E s \in Samples(Docs) : Ask(<<collection.db, collection.name, "references">>, s, LAMBDA docs :
           fields' = References(docs))
    /\ UNCHANGED <<live, changes, at, collections, collection, element, batch, sent, steady>>

(* Mutant: the name guessed is not looked up. *)
GuessReferenceUnchecked(x) ==
    /\ pc = "references" /\ x \in fields
    /\ fields' = fields \ {x}
    /\ element' = [element EXCEPT !.references = @ \union {<<x, <<collection.db, Guess[x]>>>>}]
    /\ UNCHANGED <<live, changes, pc, at, collections, collection, batch, sent, failures, steady, excused>>

(* A field with an ObjectID refers to the collection of the plural of its  *)
(* name, if the database has one now; if that cannot be asked, to none.    *)
GuessReference(x) ==
    /\ pc = "references" /\ x \in fields
    /\ fields' = fields \ {x}
    /\ Ask(<<collection.db, collection.name, "references">>,
           {c \in live : c.db = collection.db /\ c.name = Guess[x]}, LAMBDA found :
           element' = [element EXCEPT !.references = @ \union {<<x, Name(c)>> : c \in found}])
    /\ UNCHANGED <<live, changes, pc, at, collections, collection, batch, sent, steady>>

(* The element and its relation; then the indexes once more, with their    *)
(* columns, for elements of their own.                                     *)
AddCollection ==
    /\ pc = "references" /\ fields = {} /\ pc' = "collection"
    /\ Ask(<<collection.db, collection.name, "indexes">>, Indexes, LAMBDA found :
           batch' = [elements |-> batch.elements \union {element}
                                    \union {Bare(IndexName(collection, i)) : i \in found},
                     relations |-> batch.relations \union {<<<<collection.db>>, Name(collection)>>}
                                    \union {<<Name(collection), IndexName(collection, i)>> : i \in found}])
    /\ UNCHANGED <<live, changes, at, collections, collection, element, fields, sent, steady>>

Ship ==
    /\ pc = "collection" /\ collections = {} /\ pc' = "database"
    /\ sent' = Append(sent, Batch(Databases[at]))
    /\ UNCHANGED <<live, changes, at, collections, collection, element, fields, batch,
                   failures, steady, excused>>

Crawl ==
    \/ Tick \/ Done \/ ListCollections \/ ReadColumns \/ SampleConstraints \/ AddCollection \/ Ship
    \/ \E c \in collections : ReadCollection(c)
    \/ \E x \in fields : GuessReference(x)

Next == Crawl \/ \E c \in Collection : Change(c)

(* The ticker ticks, and every request returns.                            *)
Spec == Init /\ [][Next]_vars /\ WF_vars(Crawl)
-----------------------------------------------------------------------------
(* Variables have their types, and a batch has each name once.               *)
TypeOK ==
    /\ live \subseteq Collection /\ steady \subseteq live /\ collections \subseteq Collection
    /\ pc \in {"idle", "database", "collection", "columns", "constraints", "references"}
    /\ at \in 0..Len(Databases)
    /\ \A c \in collections : c.db = Databases[at]
    /\ \A e, f \in batch.elements : e.name = f.name => e = f
    /\ failures \in 0..MaxFailures /\ changes \in 0..MaxChanges

(* The batches of a crawl are those of the databases from the first on, in *)
(* order and none left out, up to one whose collections could not be       *)
(* listed.                                                                 *)
ShippedInOrder ==
    /\ \A i \in DOMAIN sent : sent[i].of = Databases[i]
    /\ pc = "idle" /\ at > 0 => Len(sent) = IF <<Databases[at]>> \in excused THEN at - 1 ELSE at

(* Collections small enough for a sample are shown whole: all fields, and  *)
(* a reference for each ObjectID field named like a collection that was    *)
(* there all the time; whatever the other requests did.                    *)
Elements == UNION {sent[i].elements : i \in DOMAIN sent}
SmallOnesWhole ==
    \A c \in steady : \A e \in Elements : (e.name = Name(c) /\ Cardinality(c.docs) <= Sample) =>
        /\ <<c.db, c.name, "columns">> \notin excused => DOMAIN e.columns = Fields(c.docs)
        /\ <<c.db, c.name, "references">> \notin excused =>
              \A x \in References(c.docs) : \A d \in steady :
                  d.db = c.db /\ d.name = Guess[x] => <<x, Name(d)>> \in e.references

(* A reference leads to a collection of the database that was there during *)
(* the crawl; with nothing changing, to one that is there.                 *)
ReferencesTrue ==
    \A e \in Elements : \A r \in e.references :
        \E c \in IF changes = 0 THEN live ELSE Collection : Name(c) = r[2] /\ c.db = e.name[1]

(* Once requests stop failing a collection that stays is shown again and   *)
(* again, unless a database that may never be listed comes before it, or   *)
(* is its own.                                                             *)
ShownInTheEnd ==
    \A c \in Collection : \A i \in DOMAIN Databases :
        (c.db = Databases[i] /\ \A j \in 1..i : Databases[j] \notin Denied) =>
            (<>[](c \in live) => []<>(\E e \in Elements : e.name = Name(c)))

=============================================================================
