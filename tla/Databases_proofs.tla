-------------------------- MODULE Databases_proofs --------------------------
(***************************************************************************)
(* Proofs about the database crawlers, for any databases, failing queries  *)
(* and changes between the queries: what failures may cost a batch, that   *)
(* foreign keys are shown and that no relation is made up.  Each crawler   *)
(* has an inductive invariant, which says what of a table or collection is *)
(* still to be read, in hand or in the batch.                              *)
(***************************************************************************)
EXTENDS Databases, FiniteSetTheorems, TLAPS

LEMMA NamesDiffer ==
    ASSUME NEW a, NEW b, NEW c, NEW d, NEW e, NEW f
    PROVE  <<a>> # <<b, c>> /\ <<a>> # <<d, e, f>> /\ <<b, c>> # <<d, e, f>>
  OBVIOUS

LEMMA AppendIs ==
    ASSUME NEW S, NEW s \in Seq(S), NEW e
    PROVE  /\ Append(s, e) \in Seq(S \union {e})
           /\ Len(Append(s, e)) = Len(s) + 1 /\ Len(s) \in Nat
           /\ DOMAIN Append(s, e) = 1..(Len(s) + 1) /\ DOMAIN s = 1..Len(s)
           /\ \A i \in 1..Len(s) : Append(s, e)[i] = s[i]
           /\ Append(s, e)[Len(s) + 1] = e
  OBVIOUS

LEMMA ColumnsSet ==
    ASSUME NEW e, NEW n, NEW c, NEW r, NEW i, NEW x,
           e = [name |-> n, columns |-> c, references |-> r, indexes |-> i]
    PROVE  [e EXCEPT !.columns = x] = [name |-> n, columns |-> x, references |-> r, indexes |-> i]
  OBVIOUS

LEMMA ReferencesSet ==
    ASSUME NEW e, NEW n, NEW c, NEW r, NEW i, NEW x,
           e = [name |-> n, columns |-> c, references |-> r, indexes |-> i]
    PROVE  [e EXCEPT !.references = x] = [name |-> n, columns |-> c, references |-> x, indexes |-> i]
  OBVIOUS
-----------------------------------------------------------------------------
(* MariaDB.                                                               *)
MaReading(ds) == pc \in {"names", "constraint", "indexes", "index"}
MaCrawling(ds) == MaReading(ds) \/ pc = "table"

(* What the crawl has on its hands.                                        *)
MaControl(ds) ==
    /\ pc \in {"names", "constraint", "indexes", "index"} => table \in Maria[ds].Table
    /\ mariaSent # {} => pc = "idle"

(* A table there all the time is still to be read, is being read, or is in *)
(* the batch.                                                              *)
MaIndexShown(ds, b, t, i) == <<Ma(ds)!Internal(t.name), Ma(ds)!Internal(i)>> \in b.relations
MaInBatch(ds, b, t) ==
    /\ Ma(ds)!Internal(t.name) \in b.elements
    /\ <<"indexes", t.name>> \notin excused => \A i \in t.indexes : MaIndexShown(ds, b, t, i)
MaKept(ds) ==
    (MaCrawling(ds) /\ <<"tables">> \notin excused) =>
        \A t \in steady :
            \/ t \in tables
            \/ MaReading(ds) /\ t = table
            \/ MaInBatch(ds, batch, t)
MaIndexesKept(ds) ==
    (pc = "index" /\ table \in steady /\ <<"indexes", table.name>> \notin excused) =>
        \A i \in table.indexes : i \in indexes \/ MaIndexShown(ds, batch, table, i)

(* A foreign key of such a table, unless a query for it failed, is still   *)
(* to be read or a relation of the batch.                                  *)
MaAsked(ds, t) ==
    /\ {<<"tables">>, <<"constraints", t.name>>} \intersect excused = {}
    /\ ~t.primaryOnly
MaKeyShown(ds, b, t, c) ==
    <<"constraint", t.name, c.name>> \notin excused =>
        \A u \in c.to : <<Ma(ds)!Internal(t.name), Ma(ds)!Internal(u)>> \in b.relations
MaKeysKept(ds) ==
    MaCrawling(ds) =>
        \A t \in steady : MaAsked(ds, t) =>
            \/ t \in tables
            \/ t = table /\ pc = "names"
            \/ \A c \in t.constraints :
                  \/ t = table /\ pc = "constraint" /\ c.name \in names
                  \/ MaKeyShown(ds, batch, t, c)

(* Every relation between tables comes from a key.                         *)
MaKeyOf(ds, t, u) ==
    \E c \in t.constraints : \E o \in Maria[ds].Table : \E d \in o.constraints :
        d.name = c.name /\ u.name \in d.to
MaTrueKeys(ds) ==
    \A t, u \in Maria[ds].Table :
        <<Ma(ds)!Internal(t.name), Ma(ds)!Internal(u.name)>> \in batch.relations => MaKeyOf(ds, t, u)

MaIInv(ds) ==
    /\ Ma(ds)!TypeOK /\ MaControl(ds) /\ MaKept(ds) /\ MaIndexesKept(ds) /\ MaKeysKept(ds) /\ MaTrueKeys(ds)
    /\ Ma(ds)!FailureIsLocal /\ Ma(ds)!KeysShown /\ Ma(ds)!KeysTrue
-----------------------------------------------------------------------------
LEMMA MaCardinalityIs == ASSUME NEW ds, NEW S PROVE Ma(ds)!Cardinality(S) = Cardinality(S)
  BY DEF Cardinality, Ma!Cardinality

LEMMA MaInitIInv == ASSUME NEW ds, Ma(ds)!Parameters, Ma(ds)!Init PROVE MaIInv(ds)
  <1>1. Ma(ds)!Cardinality(mariaSent) <= 1
    BY FS_EmptySet, MaCardinalityIs DEF Ma!Init
  <1>2. failures \in 0..Maria[ds].MaxFailures /\ changes \in 0..Maria[ds].MaxChanges
    BY DEF Ma!Parameters, Ma!Init
  <1>3. Ma(ds)!TypeOK
    BY <1>1, <1>2 DEF Ma!Parameters, Ma!Init, Ma!TypeOK
  <1>4. MaControl(ds) /\ MaKept(ds) /\ MaIndexesKept(ds) /\ MaKeysKept(ds) /\ MaTrueKeys(ds)
    BY DEF Ma!Init, MaControl, MaKept, MaIndexesKept, MaKeysKept, MaTrueKeys, MaReading,
       MaCrawling, Ma!Empty
  <1>5. Ma(ds)!FailureIsLocal /\ Ma(ds)!KeysShown /\ Ma(ds)!KeysTrue
    BY DEF Ma!Init, Ma!FailureIsLocal, Ma!KeysShown, Ma!KeysTrue
  <1> QED
    BY <1>3, <1>4, <1>5 DEF MaIInv

(* What a crawl without a batch on the channel must keep.                  *)
LEMMA MaUnsent ==
    ASSUME NEW ds,
           mariaSent' = {} PROVE Ma(ds)!FailureIsLocal' /\ Ma(ds)!KeysShown' /\ Ma(ds)!KeysTrue'
  BY DEF Ma!FailureIsLocal, Ma!KeysShown, Ma!KeysTrue


(* What is left of a bound on failing queries.                             *)
LEMMA MaFailsBound ==
    ASSUME NEW ds, Ma(ds)!TypeOK, Ma(ds)!Parameters, failures < Maria[ds].MaxFailures,
           failures' = failures + 1
                    PROVE  failures' \in 0..Maria[ds].MaxFailures
  BY DEF Ma!TypeOK, Ma!Parameters

LEMMA MaChangeIInv ==
    ASSUME NEW ds, Ma(ds)!Parameters, MaIInv(ds), NEW t \in Maria[ds].Table, Ma(ds)!Change(t)
    PROVE  MaIInv(ds)'
  <1> USE DEF MaIInv
  <1>1. /\ changes' \in 0..Maria[ds].MaxChanges /\ live' \subseteq Maria[ds].Table /\ steady' \subseteq steady
        /\ steady' \subseteq live'
        /\ UNCHANGED <<pc, tables, table, names, indexes, batch, mariaSent, failures, excused>>
    BY DEF Ma!Parameters, Ma!TypeOK, Ma!Change
  <1>2. Ma(ds)!TypeOK' /\ MaControl(ds)' /\ MaTrueKeys(ds)' /\ Ma(ds)!KeysTrue'
    BY <1>1 DEF Ma!TypeOK, MaControl, MaTrueKeys, MaKeyOf, Ma!KeysTrue
  <1>3. MaKept(ds)' /\ MaIndexesKept(ds)' /\ MaKeysKept(ds)'
    BY <1>1 DEF MaKept, MaIndexesKept, MaKeysKept, MaReading, MaCrawling, MaInBatch, MaIndexShown,
       MaAsked, MaKeyShown
  <1>4. Ma(ds)!FailureIsLocal' /\ Ma(ds)!KeysShown'
    BY <1>1 DEF Ma!FailureIsLocal, Ma!KeysShown
  <1> QED
    BY <1>2, <1>3, <1>4

LEMMA MaTickIInv == ASSUME NEW ds, Ma(ds)!Parameters, MaIInv(ds), Ma(ds)!Tick PROVE MaIInv(ds)'
  <1> USE DEF MaIInv
  <1>1. /\ pc = "idle" /\ pc' = "tables" /\ mariaSent' = {} /\ excused' = {} /\ steady' = live
        /\ batch' = [elements |-> {Ma(ds)!Database},
                     relations |-> {<<e, Ma(ds)!Database>> : e \in Maria[ds].External} \union {<<Ma(ds)!Raw("host"), Ma(ds)!Raw("db")>>}]
        /\ UNCHANGED <<live, changes, tables, table, names, indexes, failures>>
    BY DEF Ma!Tick
  <1>2. Ma(ds)!Cardinality(mariaSent') <= 1
    BY <1>1, FS_EmptySet, MaCardinalityIs
  <1>3. Ma(ds)!TypeOK' /\ MaControl(ds)'
    BY <1>1, <1>2 DEF Ma!TypeOK, MaControl
  <1>4. MaKept(ds)' /\ MaIndexesKept(ds)' /\ MaKeysKept(ds)'
    BY <1>1 DEF MaKept, MaIndexesKept, MaKeysKept, MaReading, MaCrawling
  <1>5. ASSUME NEW t \in Maria[ds].Table, NEW u \in Maria[ds].Table,
               <<Ma(ds)!Internal(t.name), Ma(ds)!Internal(u.name)>> \in batch'.relations
        PROVE  FALSE
    <2>1. Ma(ds)!Internal(u.name) # Ma(ds)!Database
      BY DEF Ma!Parameters, Ma!Internal, Ma!Database
    <2>2. "raw" # Ma(ds)!NoName
      BY Zenon DEF Ma!NoName
    <2>3. Ma(ds)!Internal(t.name) # Ma(ds)!Raw("host")
      BY <2>2 DEF Ma!Internal, Ma!Raw
    <2> QED
      BY <1>1, <1>5, <2>1, <2>3
  <1> QED
    BY <1>1, <1>3, <1>4, <1>5, MaUnsent DEF MaTrueKeys

LEMMA MaListTablesIInv ==
    ASSUME NEW ds, Ma(ds)!Parameters, MaIInv(ds), Ma(ds)!ListTables
    PROVE  MaIInv(ds)'
  <1> USE DEF MaIInv
  <1>1. /\ pc = "tables" /\ pc' = "table" /\ mariaSent' = {}
        /\ UNCHANGED <<live, changes, table, names, indexes, batch, mariaSent, steady>>
        /\ tables' \subseteq live /\ failures' \in 0..Maria[ds].MaxFailures
        /\ <<"tables">> \in excused' \/ tables' = live
    BY MaFailsBound DEF Ma!ListTables, Ma!Ask, Ma!TypeOK, MaControl
  <1>2. Ma(ds)!TypeOK' /\ MaControl(ds)' /\ MaTrueKeys(ds)'
    BY <1>1 DEF Ma!TypeOK, MaControl, MaTrueKeys, MaKeyOf
  <1>3. MaKept(ds)' /\ MaIndexesKept(ds)' /\ MaKeysKept(ds)'
    BY <1>1 DEF Ma!TypeOK, MaKept, MaIndexesKept, MaKeysKept, MaReading, MaCrawling, MaAsked
  <1> QED
    BY <1>1, <1>2, <1>3, MaUnsent

LEMMA MaReadTableIInv ==
    ASSUME NEW ds, Ma(ds)!Parameters, MaIInv(ds), NEW t \in tables, Ma(ds)!ReadTable(t)
    PROVE  MaIInv(ds)'
  <1> USE DEF MaIInv
  <1>1. /\ pc = "table" /\ t \in tables /\ pc' \in {"names", "indexes"} /\ mariaSent' = {}
        /\ tables' = tables \ {t} /\ table' = t
        /\ UNCHANGED <<live, changes, names, indexes, batch, mariaSent, steady>>
        /\ failures' \in 0..Maria[ds].MaxFailures /\ excused \subseteq excused'
        /\ pc' = "names" \/ <<"constraints", t.name>> \in excused'
    BY MaFailsBound DEF Ma!ReadTable, Ma!Fails, Ma!TypeOK, MaControl
  <1>2. names = {} /\ indexes = {}
    BY <1>1 DEF Ma!TypeOK
  <1>3. Ma(ds)!TypeOK' /\ MaControl(ds)' /\ MaTrueKeys(ds)'
    BY <1>1, <1>2 DEF Ma!TypeOK, MaControl, MaTrueKeys, MaKeyOf
  <1>4. MaKept(ds)' /\ MaIndexesKept(ds)'
    BY <1>1, <1>2 DEF MaKept, MaIndexesKept, MaReading, MaCrawling, MaInBatch, MaIndexShown
  <1>5. MaKeysKept(ds)'
    BY <1>1, <1>2 DEF MaKeysKept, MaReading, MaCrawling, MaAsked, MaKeyShown
  <1> QED
    BY <1>1, <1>3, <1>4, <1>5, MaUnsent

LEMMA MaListConstraintsIInv ==
    ASSUME NEW ds, Ma(ds)!Parameters, MaIInv(ds), Ma(ds)!ListConstraints
    PROVE  MaIInv(ds)'
  <1> USE DEF MaIInv
  <1>1. /\ pc = "names" /\ pc' = "constraint" /\ mariaSent' = {}
        /\ UNCHANGED <<live, changes, tables, table, indexes, batch, mariaSent, steady>>
        /\ failures' \in 0..Maria[ds].MaxFailures /\ excused \subseteq excused'
        /\ names' \subseteq {c.name : c \in table.constraints}
        /\ \/ <<"constraints", table.name>> \in excused'
           \/ names' = Ma(ds)!ConstraintNames(table)
    BY MaFailsBound DEF Ma!ListConstraints, Ma!Ask, Ma!TypeOK, MaControl, Ma!ConstraintNames
  <1>2. Ma(ds)!TypeOK' /\ MaControl(ds)' /\ MaTrueKeys(ds)'
    BY <1>1 DEF Ma!TypeOK, MaControl, MaTrueKeys, MaKeyOf
  <1>3. MaKept(ds)' /\ MaIndexesKept(ds)'
    BY <1>1 DEF MaKept, MaIndexesKept, MaReading, MaCrawling, MaInBatch, MaIndexShown
  <1>4. MaKeysKept(ds)'
    <2> SUFFICES ASSUME NEW t \in steady, MaAsked(ds, t)' PROVE
            \/ t \in tables \/ (t = table /\ \A c \in t.constraints : c.name \in names')
            \/ \A c \in t.constraints : MaKeyShown(ds, batch, t, c)'
      BY <1>1 DEF MaKeysKept, MaKeyShown
    <2>1. MaAsked(ds, t)
      BY <1>1 DEF MaAsked
    <2>2. CASE t = table
      BY <1>1, <2>2 DEF MaAsked, Ma!ConstraintNames, Ma!TypeOK
    <2>3. CASE t # table
      BY <1>1, <2>1, <2>3 DEF MaKeysKept, MaCrawling, MaReading, MaKeyShown
    <2> QED
      BY <2>2, <2>3
  <1> QED
    BY <1>1, <1>2, <1>3, <1>4, MaUnsent

LEMMA MaConstraintsPanicIInv ==
    ASSUME NEW ds, Ma(ds)!Parameters, MaIInv(ds), Ma(ds)!ConstraintsPanic
    PROVE  MaIInv(ds)'
  <1> USE DEF MaIInv
  <1>1. /\ pc = "names" /\ pc' = "idle" /\ mariaSent' = {} /\ tables' = {} /\ batch' = Ma(ds)!Empty
        /\ UNCHANGED <<live, changes, table, names, indexes, steady>>
        /\ failures' \in 0..Maria[ds].MaxFailures
    BY MaFailsBound DEF Ma!ConstraintsPanic, Ma!Fails
  <1>2. Ma(ds)!Cardinality(mariaSent') <= 1
    BY <1>1, FS_EmptySet, MaCardinalityIs
  <1>3. Ma(ds)!TypeOK' /\ MaControl(ds)' /\ MaTrueKeys(ds)'
    BY <1>1, <1>2 DEF Ma!TypeOK, MaControl, MaTrueKeys, Ma!Empty
  <1>4. MaKept(ds)' /\ MaIndexesKept(ds)' /\ MaKeysKept(ds)'
    BY <1>1 DEF MaKept, MaIndexesKept, MaKeysKept, MaReading, MaCrawling
  <1> QED
    BY <1>1, <1>3, <1>4, MaUnsent

(* The constraint's own tables are all among those found under its name.   *)
LEMMA MaReadConstraintIInv ==
    ASSUME NEW ds, Ma(ds)!Parameters, MaIInv(ds), NEW n \in names, Ma(ds)!ReadConstraint(n)
    PROVE  MaIInv(ds)'
  <1> USE DEF MaIInv
  <1>1. PICK some \in SUBSET Ma(ds)!Referred(n) :
          /\ batch' = [elements |-> batch.elements \union {},
                       relations |-> batch.relations
                          \union {<<Ma(ds)!Internal(table.name), Ma(ds)!Internal(u)>> : u \in some}]
          /\ <<"constraint", table.name, n>> \in excused' \/ some = Ma(ds)!Referred(n)
          /\ failures' \in 0..Maria[ds].MaxFailures /\ excused \subseteq excused'
    BY MaFailsBound DEF Ma!ReadConstraint, Ma!Ask, Ma!With, Ma!TypeOK
  <1>2. /\ pc = "constraint" /\ names' = names \ {n} /\ mariaSent' = {} /\ table \in Maria[ds].Table
        /\ UNCHANGED <<live, changes, pc, tables, table, indexes, mariaSent, steady>>
    BY DEF Ma!ReadConstraint, MaControl
  <1>3. Ma(ds)!TypeOK' /\ MaControl(ds)'
    BY <1>1, <1>2 DEF Ma!TypeOK, MaControl
  <1>4. batch'.elements = batch.elements /\ batch.relations \subseteq batch'.relations
    BY <1>1
  <1>5. MaKept(ds)' /\ MaIndexesKept(ds)'
    BY <1>1, <1>2, <1>4 DEF MaKept, MaIndexesKept, MaReading, MaCrawling, MaInBatch, MaIndexShown
  <1>6. MaKeysKept(ds)'
    <2> SUFFICES ASSUME NEW t \in steady, MaAsked(ds, t)', t \notin tables, NEW c \in t.constraints,
                        ~(t = table /\ c.name \in names')
                 PROVE  MaKeyShown(ds, batch, t, c)'
      BY <1>2 DEF MaKeysKept
    <2>1. MaAsked(ds, t)
      BY <1>1 DEF MaAsked
    <2>2. CASE MaKeyShown(ds, batch, t, c)
      BY <1>1, <1>4, <2>2 DEF MaKeyShown
    <2>3. CASE t = table /\ c.name = n
      <3>1. c.to \subseteq Ma(ds)!Referred(n)
        BY <2>3 DEF Ma!Referred, Ma!TypeOK
      <3> QED
        BY <1>1, <2>3, <3>1 DEF MaKeyShown
    <2> QED
      BY <1>2, <2>1, <2>2, <2>3 DEF MaKeysKept, MaCrawling, MaReading
  <1>7. MaTrueKeys(ds)'
    <2> SUFFICES ASSUME NEW t \in Maria[ds].Table, NEW u \in Maria[ds].Table,
                        <<Ma(ds)!Internal(t.name), Ma(ds)!Internal(u.name)>> \in batch'.relations
                 PROVE  MaKeyOf(ds, t, u)
      BY DEF MaTrueKeys, MaKeyOf
    <2>1. CASE <<Ma(ds)!Internal(t.name), Ma(ds)!Internal(u.name)>> \in batch.relations
      BY <2>1 DEF MaTrueKeys
    <2>2. CASE t.name = table.name /\ u.name \in Ma(ds)!Referred(n)
      <3>1. t = table
        BY <1>2, <2>2 DEF Ma!Parameters
      <3>2. PICK c \in t.constraints : c.name = n
        BY <1>2, <3>1 DEF Ma!TypeOK
      <3>3. PICK o \in Maria[ds].Table : \E d \in o.constraints : d.name = n /\ u.name \in d.to
        BY <2>2 DEF Ma!Referred, Ma!TypeOK
      <3> QED
        BY <3>2, <3>3 DEF MaKeyOf
    <2> QED
      BY <1>1, <2>1, <2>2 DEF Ma!Internal
  <1> QED
    BY <1>2, <1>3, <1>5, <1>6, <1>7, MaUnsent

LEMMA MaConstraintsDoneIInv ==
    ASSUME NEW ds, Ma(ds)!Parameters, MaIInv(ds), Ma(ds)!ConstraintsDone
    PROVE  MaIInv(ds)'
  <1> USE DEF MaIInv
  <1>1. /\ pc = "constraint" /\ names = {} /\ pc' = "indexes" /\ mariaSent' = {}
        /\ UNCHANGED <<live, changes, tables, table, names, indexes, batch, mariaSent, failures, steady, excused>>
    BY DEF Ma!ConstraintsDone, MaControl
  <1>2. Ma(ds)!TypeOK' /\ MaControl(ds)' /\ MaTrueKeys(ds)'
    BY <1>1 DEF Ma!TypeOK, MaControl, MaTrueKeys, MaKeyOf
  <1>3. MaKept(ds)' /\ MaIndexesKept(ds)' /\ MaKeysKept(ds)'
    BY <1>1 DEF MaKept, MaIndexesKept, MaKeysKept, MaReading, MaCrawling, MaInBatch, MaIndexShown,
       MaAsked, MaKeyShown
  <1> QED
    BY <1>1, <1>2, <1>3, MaUnsent

LEMMA MaListIndexesIInv ==
    ASSUME NEW ds, Ma(ds)!Parameters, MaIInv(ds), Ma(ds)!ListIndexes
    PROVE  MaIInv(ds)'
  <1> USE DEF MaIInv
  <1>1. /\ pc = "indexes" /\ pc' = "index" /\ mariaSent' = {} /\ names = {}
        /\ UNCHANGED <<live, changes, tables, table, names, batch, mariaSent, steady>>
        /\ failures' \in 0..Maria[ds].MaxFailures /\ excused \subseteq excused'
        /\ indexes' \subseteq table.indexes
        /\ \/ <<"indexes", table.name>> \in excused'
           \/ indexes' = IF table \in live THEN table.indexes ELSE {}
    BY MaFailsBound DEF Ma!ListIndexes, Ma!Ask, Ma!TypeOK, MaControl
  <1>2. Ma(ds)!TypeOK' /\ MaControl(ds)' /\ MaTrueKeys(ds)'
    BY <1>1 DEF Ma!TypeOK, MaControl, MaTrueKeys, MaKeyOf
  <1>3. MaKept(ds)' /\ MaKeysKept(ds)'
    BY <1>1 DEF MaKept, MaKeysKept, MaReading, MaCrawling, MaInBatch, MaIndexShown, MaAsked,
       MaKeyShown
  <1>4. MaIndexesKept(ds)'
    BY <1>1 DEF MaIndexesKept, Ma!TypeOK
  <1> QED
    BY <1>1, <1>2, <1>3, <1>4, MaUnsent

LEMMA MaReadIndexIInv ==
    ASSUME NEW ds, Ma(ds)!Parameters, MaIInv(ds), NEW i \in indexes, Ma(ds)!ReadIndex(i)
    PROVE  MaIInv(ds)'
  <1> USE DEF MaIInv
  <1>1. PICK some \in SUBSET {i} :
          /\ batch' = [elements |-> batch.elements \union {Ma(ds)!Internal(j) : j \in some},
                       relations |-> batch.relations
                          \union ({Ma(ds)!Internal(table.name), Ma(ds)!Raw("db")} \X {Ma(ds)!Internal(j) : j \in some})]
          /\ <<"indexes", table.name>> \in excused' \/ some = {i}
          /\ failures' \in 0..Maria[ds].MaxFailures /\ excused \subseteq excused'
    BY MaFailsBound DEF Ma!ReadIndex, Ma!Ask, Ma!With, Ma!TypeOK
  <1>2. /\ pc = "index" /\ indexes' = indexes \ {i} /\ mariaSent' = {} /\ table \in Maria[ds].Table /\ i \in table.indexes
        /\ UNCHANGED <<live, changes, pc, tables, table, names, mariaSent, steady>>
    BY DEF Ma!ReadIndex, MaControl, Ma!TypeOK
  <1>3. Ma(ds)!TypeOK' /\ MaControl(ds)'
    BY <1>1, <1>2 DEF Ma!TypeOK, MaControl
  <1>4. batch.elements \subseteq batch'.elements /\ batch.relations \subseteq batch'.relations
    BY <1>1
  <1>5. MaKept(ds)' /\ MaKeysKept(ds)'
    BY <1>1, <1>2, <1>4 DEF MaKept, MaKeysKept, MaReading, MaCrawling, MaInBatch, MaIndexShown,
       MaAsked, MaKeyShown
  <1>6. MaIndexesKept(ds)'
    <2>1. <<"indexes", table.name>> \notin excused' => MaIndexShown(ds, batch, table, i)'
      BY <1>1, <1>2 DEF MaIndexShown
    <2> QED
      BY <1>1, <1>2, <1>4, <2>1 DEF MaIndexesKept, MaIndexShown
  <1>7. MaTrueKeys(ds)'
    <2> SUFFICES ASSUME NEW t \in Maria[ds].Table, NEW u \in Maria[ds].Table,
                        <<Ma(ds)!Internal(t.name), Ma(ds)!Internal(u.name)>> \in batch'.relations
                 PROVE  MaKeyOf(ds, t, u)
      BY DEF MaTrueKeys, MaKeyOf
    <2>1. Ma(ds)!Internal(u.name) # Ma(ds)!Internal(i)
      BY <1>2 DEF Ma!Parameters, Ma!Internal
    <2>2. <<Ma(ds)!Internal(t.name), Ma(ds)!Internal(u.name)>> \in batch.relations
      BY <1>1, <2>1
    <2> QED
      BY <2>2 DEF MaTrueKeys
  <1> QED
    BY <1>2, <1>3, <1>5, <1>6, <1>7, MaUnsent

LEMMA MaAddTableIInv ==
    ASSUME NEW ds, Ma(ds)!Parameters, MaIInv(ds), Ma(ds)!AddTable
    PROVE  MaIInv(ds)'
  <1> USE DEF MaIInv
  <1>1. /\ pc = "index" /\ indexes = {} /\ pc' = "table" /\ mariaSent' = {} /\ names = {}
        /\ batch' = [elements |-> batch.elements \union {Ma(ds)!Internal(table.name)},
                     relations |-> batch.relations \union {}]
        /\ UNCHANGED <<live, changes, tables, table, names, indexes, mariaSent, failures, steady, excused>>
    BY DEF Ma!AddTable, Ma!With, MaControl, Ma!TypeOK
  <1>2. Ma(ds)!TypeOK' /\ MaControl(ds)' /\ MaTrueKeys(ds)'
    BY <1>1 DEF Ma!TypeOK, MaControl, MaTrueKeys, MaKeyOf
  <1>3. MaKeysKept(ds)' /\ MaIndexesKept(ds)'
    BY <1>1 DEF MaKeysKept, MaIndexesKept, MaReading, MaCrawling, MaAsked, MaKeyShown
  <1>4. MaKept(ds)'
    BY <1>1 DEF MaKept, MaIndexesKept, MaReading, MaCrawling, MaInBatch, MaIndexShown
  <1> QED
    BY <1>1, <1>2, <1>3, <1>4, MaUnsent

(* What the crawl ships has every table it had to keep.                    *)
LEMMA MaShipIInv == ASSUME NEW ds, Ma(ds)!Parameters, MaIInv(ds), Ma(ds)!Ship PROVE MaIInv(ds)'
  <1> USE DEF MaIInv
  <1>1. /\ pc = "table" /\ tables = {} /\ pc' = "idle" /\ mariaSent' = {batch} /\ batch' = Ma(ds)!Empty
        /\ UNCHANGED <<live, changes, tables, table, names, indexes, failures, steady, excused>>
    BY DEF Ma!Ship
  <1>2. Ma(ds)!Cardinality(mariaSent') <= 1
    BY <1>1, FS_Singleton, MaCardinalityIs
  <1>3. Ma(ds)!TypeOK' /\ MaControl(ds)' /\ MaTrueKeys(ds)'
    BY <1>1, <1>2 DEF Ma!TypeOK, MaControl, MaTrueKeys, Ma!Empty
  <1>4. MaKept(ds)' /\ MaIndexesKept(ds)' /\ MaKeysKept(ds)'
    BY <1>1 DEF MaKept, MaIndexesKept, MaKeysKept, MaReading, MaCrawling
  <1>5. Ma(ds)!FailureIsLocal'
    BY <1>1 DEF Ma!FailureIsLocal, MaKept, MaCrawling, MaReading, MaInBatch, MaIndexShown
  <1>6. Ma(ds)!KeysShown'
    BY <1>1 DEF Ma!KeysShown, MaKeysKept, MaCrawling, MaReading, MaAsked, MaKeyShown
  <1>7. Ma(ds)!KeysTrue'
    BY <1>1 DEF Ma!KeysTrue, MaTrueKeys, MaKeyOf
  <1> QED
    BY <1>3, <1>4, <1>5, <1>6, <1>7

LEMMA MaStepIInv == ASSUME NEW ds, Ma(ds)!Parameters, MaIInv(ds), Ma(ds)!Next PROVE MaIInv(ds)'
  BY MaChangeIInv, MaTickIInv, MaListTablesIInv, MaReadTableIInv, MaListConstraintsIInv,
     MaConstraintsPanicIInv,
     MaReadConstraintIInv, MaConstraintsDoneIInv, MaListIndexesIInv, MaReadIndexIInv, MaAddTableIInv, MaShipIInv
     DEF Ma!Next, Ma!Crawl
-----------------------------------------------------------------------------
(* PostgreSQL.                                                            *)
PgReading(ds) == pc \in {"table", "key", "index", "view"}
PgCrawling(ds) == PgReading(ds) \/ pc = "schema"

(* What the crawl has on its hands, and where the last batch came from.    *)
PgControl(ds) ==
    /\ pgSent \in Seq({pgSent[i] : i \in DOMAIN pgSent})
    /\ tables \subseteq Pg(ds)!TablesOf(Postgres[ds].Object) /\ \A k \in keys : k \in Postgres[ds].Object /\ k.kind = "key"
    /\ \A v \in views : v \in Postgres[ds].Object /\ v.kind = "view"
    /\ tables # {} => pc \in {"table", "key", "index"}
    /\ keys # {} => pc = "key"
    /\ views # {} => pc = "view"
    /\ pc \in {"key", "index"} => table \in Pg(ds)!TablesOf(Postgres[ds].Object) /\ table.schema = schema
    /\ \A i \in indexes : i \in Pg(ds)!IndexesOf(table)
    /\ PgReading(ds) => schema \notin schemas
    /\ pc = "schemas" => pgSent = <<>>
    /\ (PgCrawling(ds) /\ pgSent # <<>>) => Pg(ds)!LastSent.of \notin schemas /\ (PgReading(ds) => Pg(ds)!LastSent.of # schema)
    /\ (pc = "schema" /\ pgSent # <<>> /\ schema = Pg(ds)!LastSent.of) => batch.elements = Pg(ds)!LastSent.elements

(* In a database that does not change a table without a cause to be        *)
(* missing is still to be read, is being read, or is in the batch; in the  *)
(* batch last sent unless its schema was given up.                         *)
PgKept(ds) ==
    (PgCrawling(ds) /\ changes = 0) =>
        \A t \in Pg(ds)!TablesOf(steady) : ~Pg(ds)!Shaky(t) =>
            \/ t.schema \in schemas
            \/ t \in tables
            \/ pc \in {"key", "index"} /\ t = table
            \/ Pg(ds)!Name(t) \in batch.elements
PgSettled(ds) ==
    (PgCrawling(ds) /\ changes = 0) =>
        \A t \in Pg(ds)!TablesOf(steady) : ~Pg(ds)!Shaky(t) /\ <<"views", t.schema>> \notin excused =>
            \/ t.schema \in schemas
            \/ PgReading(ds) /\ t.schema = schema
            \/ pgSent # <<>> /\ Pg(ds)!Name(t) \in Pg(ds)!LastSent.elements

(* A table of a batch has its foreign keys there.                          *)
PgKeysOf(ds, n) == {k \in steady : k.kind = "key" /\ n \in k.of}
PgShown(ds, b, k, n) == <<"constraints", n>> \notin excused => <<n, k.to>> \in b.relations
PgKeyed(ds, b) == \A n \in b.elements : \A k \in PgKeysOf(ds, n) : PgShown(ds, b, k, n)
PgKeysKept(ds) ==
    /\ PgCrawling(ds) => PgKeyed(ds, batch)
    /\ pgSent # <<>> => PgKeyed(ds, Pg(ds)!LastSent)
    /\ pc \in {"key", "index"} => \A k \in PgKeysOf(ds, Pg(ds)!Name(table)) : k \in keys \/ PgShown(ds, batch, k, Pg(ds)!Name(table))

(* A relation leads to elements of the batch, tables, schemas, the         *)
(* database, or from what is above it.                                     *)
PgLeads(ds, b, x) ==
    \/ x \in b.elements \union Postgres[ds].Upstream \/ x = Pg(ds)!Database
    \/ \E s : x = Pg(ds)!SchemaName(s)
    \/ \E t \in Pg(ds)!TablesOf(Postgres[ds].Object) : x = Pg(ds)!Name(t)
PgResolved(ds, b) == \A r \in b.relations : PgLeads(ds, b, r[1]) /\ PgLeads(ds, b, r[2])
PgBatchesResolved(ds) == PgResolved(ds, batch) /\ (pgSent # <<>> => PgResolved(ds, Pg(ds)!LastSent))

PgIInv(ds) ==
    /\ Pg(ds)!TypeOK /\ PgControl(ds) /\ PgKept(ds) /\ PgSettled(ds) /\ PgKeysKept(ds) /\ PgBatchesResolved(ds)
    /\ Pg(ds)!CarriedOn /\ Pg(ds)!KeysShown /\ Pg(ds)!RelationsResolved
-----------------------------------------------------------------------------
LEMMA PgInitIInv == ASSUME NEW ds, Pg(ds)!Parameters, Pg(ds)!Init PROVE PgIInv(ds)
  <1>1. Pg(ds)!TypeOK
    BY DEF Pg!Parameters, Pg!Init, Pg!TypeOK
  <1>2. pgSent = <<>> /\ pgSent \in Seq({pgSent[i] : i \in DOMAIN pgSent})
    BY DEF Pg!Init
  <1>3. PgControl(ds) /\ PgKept(ds) /\ PgSettled(ds) /\ PgKeysKept(ds) /\ PgBatchesResolved(ds)
    BY <1>2 DEF Pg!Init, PgControl, PgKept, PgSettled, PgKeysKept, PgBatchesResolved, PgResolved,
       PgReading, PgCrawling
  <1>4. Pg(ds)!CarriedOn /\ Pg(ds)!KeysShown /\ Pg(ds)!RelationsResolved
    BY <1>2 DEF Pg!CarriedOn, Pg!KeysShown, Pg!RelationsResolved
  <1> QED
    BY <1>1, <1>3, <1>4 DEF PgIInv

LEMMA PgFailsBound ==
    ASSUME NEW ds, Pg(ds)!TypeOK, Pg(ds)!Parameters, failures < Postgres[ds].MaxFailures,
           failures' = failures + 1
                    PROVE  failures' \in 0..Postgres[ds].MaxFailures
  BY DEF Pg!TypeOK, Pg!Parameters

(* What the properties say follows from what the crawl keeps.              *)
LEMMA PgKeptShows ==
    ASSUME NEW ds, PgControl(ds)', PgKept(ds)', PgKeysKept(ds)'
    PROVE  Pg(ds)!CarriedOn' /\ Pg(ds)!KeysShown'
  <1>1. Pg(ds)!CarriedOn'
    BY DEF Pg!CarriedOn, PgControl, PgKept, PgCrawling, PgReading
  <1>2. Pg(ds)!KeysShown'
    BY DEF Pg!KeysShown, PgKeysKept, PgKeyed, PgKeysOf, PgShown
  <1> QED
    BY <1>1, <1>2

(* What failed stays failed, and no batch loses what was right.            *)
LEMMA PgMonotone ==
    ASSUME NEW ds, UNCHANGED <<live, steady>>, excused \subseteq excused'
    PROVE  /\ \A t : Pg(ds)!Shaky(t) => Pg(ds)!Shaky(t)'
           /\ \A n : PgKeysOf(ds, n)' = PgKeysOf(ds, n)
           /\ \A b, k, n : PgShown(ds, b, k, n) => PgShown(ds, b, k, n)'
           /\ \A b : PgKeyed(ds, b) => PgKeyed(ds, b)'
  <1>1. \A t : Pg(ds)!Shaky(t) => Pg(ds)!Shaky(t)'
    BY DEF Pg!Shaky, Pg!Visible, Pg!Of
  <1>2. \A n : PgKeysOf(ds, n)' = PgKeysOf(ds, n)
    BY DEF PgKeysOf
  <1>3. \A b, k, n : PgShown(ds, b, k, n) => PgShown(ds, b, k, n)'
    BY DEF PgShown
  <1> QED
    BY <1>1, <1>2, <1>3 DEF PgKeyed

LEMMA PgResolvedGrows ==
    ASSUME NEW ds, NEW b, PgResolved(ds, b), NEW c, b.elements \subseteq c.elements,
           \A r \in c.relations : r \in b.relations \/ (PgLeads(ds, c, r[1]) /\ PgLeads(ds, c, r[2]))
    PROVE  PgResolved(ds, c)
  BY DEF PgResolved, PgLeads

(* The end of a relation that is a steady index or view is an element.     *)
LEMMA PgNamesApart ==
    ASSUME NEW ds, Pg(ds)!Parameters, NEW o \in Pg(ds)!Relation
    PROVE  /\ Pg(ds)!Name(o) # Pg(ds)!Database /\ \A s : Pg(ds)!Name(o) # Pg(ds)!SchemaName(s)
           /\ Pg(ds)!Name(o) \notin Postgres[ds].Upstream
           /\ o.kind # "table" => \A t \in Pg(ds)!TablesOf(Postgres[ds].Object) : Pg(ds)!Name(o) # Pg(ds)!Name(t)
  <1>1. Pg(ds)!Name(o) # Pg(ds)!Database /\ \A s : Pg(ds)!Name(o) # Pg(ds)!SchemaName(s)
    BY DEF Pg!Parameters, Pg!Name, Pg!Database, Pg!SchemaName
  <1>2. o.kind # "table" => \A t \in Pg(ds)!TablesOf(Postgres[ds].Object) : Pg(ds)!Name(o) # Pg(ds)!Name(t)
    BY DEF Pg!Parameters, Pg!Relation, Pg!TablesOf
  <1> QED
    BY <1>1, <1>2 DEF Pg!Parameters

LEMMA PgResolvedShows ==
    ASSUME NEW ds, Pg(ds)!Parameters, NEW b, PgResolved(ds, b), NEW o \in Pg(ds)!Relation,
           o.kind # "table",
           NEW r \in b.relations, Pg(ds)!Name(o) \in {r[1], r[2]}
    PROVE  Pg(ds)!Name(o) \in b.elements
  BY PgNamesApart DEF PgResolved, PgLeads

LEMMA PgChangeIInv ==
    ASSUME NEW ds, Pg(ds)!Parameters, PgIInv(ds), NEW o \in Postgres[ds].Object, Pg(ds)!Change(o)
    PROVE  PgIInv(ds)'
  <1> USE DEF PgIInv
  <1>1. /\ changes' \in 0..Postgres[ds].MaxChanges /\ changes' # 0 /\ live' \subseteq Postgres[ds].Object /\ Pg(ds)!Closed(live')
        /\ steady' = steady \intersect live'
        /\ UNCHANGED <<pc, Pg(ds)!reading, batch, pgSent, failures, excused>>
        /\ Pg(ds)!LastSent' = Pg(ds)!LastSent
    BY DEF Pg!LastSent, Pg!Parameters, Pg!TypeOK, Pg!Change
  <1>2. Pg(ds)!TypeOK' /\ PgControl(ds)'
    BY <1>1 DEF Pg!TypeOK, PgControl, PgCrawling, PgReading, Pg!reading, Pg!Closed
  <1>3. PgKept(ds)' /\ PgSettled(ds)'
    BY <1>1 DEF PgKept, PgSettled
  <1>4. PgKeysKept(ds)'
    BY <1>1 DEF PgKeysKept, PgKeyed, PgKeysOf, PgShown, PgCrawling, PgReading, Pg!reading
  <1>5. PgBatchesResolved(ds)'
    BY <1>1 DEF PgBatchesResolved, PgResolved, PgLeads
  <1>6. Pg(ds)!RelationsResolved'
    BY <1>1 DEF Pg!RelationsResolved
  <1> QED
    BY <1>2, <1>3, <1>4, <1>5, <1>6, PgKeptShows

LEMMA PgTickIInv == ASSUME NEW ds, Pg(ds)!Parameters, PgIInv(ds), Pg(ds)!Tick PROVE PgIInv(ds)'
  <1> USE DEF PgIInv
  <1>1. /\ pc = "idle" /\ pc' = "schemas" /\ pgSent' = <<>> /\ excused' = {} /\ steady' = live
        /\ UNCHANGED <<live, changes, Pg(ds)!reading, batch, failures>>
    BY DEF Pg!Tick
  <1>2. pgSent' \in Seq({pgSent'[i] : i \in DOMAIN pgSent'}) /\ DOMAIN pgSent' = {}
    BY <1>1
  <1>3. Pg(ds)!TypeOK' /\ PgControl(ds)'
    BY <1>1, <1>2 DEF Pg!TypeOK, PgControl, PgCrawling, PgReading, Pg!reading
  <1>4. PgKept(ds)' /\ PgSettled(ds)' /\ PgKeysKept(ds)'
    BY <1>1 DEF PgKept, PgSettled, PgKeysKept, PgCrawling, PgReading
  <1>5. PgBatchesResolved(ds)' /\ Pg(ds)!RelationsResolved'
    BY <1>1 DEF PgBatchesResolved, PgResolved, Pg!RelationsResolved, PgLeads
  <1> QED
    BY <1>3, <1>4, <1>5, PgKeptShows

LEMMA PgListSchemasIInv ==
    ASSUME NEW ds, Pg(ds)!Parameters, PgIInv(ds), Pg(ds)!ListSchemas
    PROVE  PgIInv(ds)'
  <1> USE DEF PgIInv
  <1> DEFINE all == {o.schema : o \in {p \in live : p.kind = "schema"}}
  <1>1. /\ pc = "schemas" /\ pc' = "schema" /\ pgSent = <<>> /\ pgSent' = pgSent
        /\ batch' = [elements |-> {Pg(ds)!Database}, relations |-> {<<u, Pg(ds)!Database>> : u \in Postgres[ds].Upstream}]
        /\ failures' \in 0..Postgres[ds].MaxFailures /\ excused \subseteq excused'
        /\ <<"schemas">> \in excused' \/ schemas' = all
        /\ UNCHANGED <<live, changes, schema, tables, table, keys, indexes, unread, views, pgSent, steady>>
        /\ Pg(ds)!LastSent' = Pg(ds)!LastSent
    BY PgFailsBound DEF Pg!LastSent, Pg!ListSchemas, Pg!Ask, Pg!TypeOK, PgControl
  <1>2. Pg(ds)!TypeOK' /\ PgControl(ds)'
    BY <1>1 DEF Pg!TypeOK, PgControl, PgCrawling, PgReading
  <1>3. PgKept(ds)' /\ PgSettled(ds)'
    <2> SUFFICES ASSUME NEW t \in Pg(ds)!TablesOf(steady), <<"schemas">> \notin excused' PROVE t.schema \in schemas'
      BY <1>1 DEF PgKept, PgSettled, Pg!Shaky, Pg!TablesOf
    <2>1. t \in live /\ t \in Postgres[ds].Object /\ t.kind = "table"
      BY DEF Pg!TablesOf, Pg!TypeOK
    <2>2. PICK p \in Postgres[ds].Object : p.kind = "schema" /\ p.schema = t.schema
      BY <2>1 DEF Pg!Parameters
    <2>3. p \in Pg(ds)!Needs(t)
      BY <2>1, <2>2 DEF Pg!Needs
    <2>4. p \in live
      BY <2>1, <2>3 DEF Pg!Closed, Pg!TypeOK
    <2> QED
      BY <1>1, <2>2, <2>4
  <1>4. PgKeysKept(ds)'
    <2>1. ASSUME NEW k \in PgKeysOf(ds, Pg(ds)!Database) PROVE FALSE
      <3>1. k \in Postgres[ds].Object /\ k.kind = "key" /\ Pg(ds)!Database \in k.of
        BY DEF PgKeysOf, Pg!TypeOK
      <3>2. PICK t \in Pg(ds)!TablesOf(Postgres[ds].Object) : Pg(ds)!Name(t) = Pg(ds)!Database
        BY <3>1 DEF Pg!Parameters
      <3> QED
        BY <3>2, PgNamesApart DEF Pg!TablesOf, Pg!Relation
    <2> QED
      BY <1>1, <2>1, PgMonotone DEF PgKeysKept, PgKeyed
  <1>5. PgBatchesResolved(ds)' /\ Pg(ds)!RelationsResolved'
    BY <1>1 DEF PgBatchesResolved, PgResolved, Pg!RelationsResolved, PgLeads
  <1> QED
    BY <1>2, <1>3, <1>4, <1>5, PgKeptShows

LEMMA PgListTablesIInv ==
    ASSUME NEW ds, Pg(ds)!Parameters, PgIInv(ds), NEW s \in schemas, Pg(ds)!ListTables(s)
    PROVE  PgIInv(ds)'
  <1> USE DEF PgIInv
  <1>1. /\ pc = "schema" /\ schemas' = schemas \ {s} /\ schema' = s
        /\ failures' \in 0..Postgres[ds].MaxFailures /\ excused \subseteq excused'
        /\ \/ /\ pc' = "schema" /\ <<"tables", s>> \in excused' /\ UNCHANGED <<tables, batch>>
           \/ /\ pc' = "table" /\ tables' \subseteq Pg(ds)!Of("table", s)
              /\ <<"tables", s>> \in excused' \/ tables' = Pg(ds)!Of("table", s)
              /\ batch' = Pg(ds)!With({}, {<<Pg(ds)!Database, Pg(ds)!SchemaName(s)>>})
        /\ UNCHANGED <<live, changes, table, keys, indexes, unread, views, pgSent, steady>>
        /\ Pg(ds)!LastSent' = Pg(ds)!LastSent
    BY PgFailsBound DEF Pg!LastSent, Pg!ListTables, Pg!Ask, Pg!TypeOK
  <1>2. tables = {} /\ keys = {} /\ indexes = {} /\ views = {}
    BY <1>1 DEF PgControl, Pg!TypeOK
  <1>3. /\ batch.elements \subseteq batch'.elements /\ batch'.elements \subseteq batch.elements
        /\ batch.relations \subseteq batch'.relations
        /\ batch'.relations \subseteq batch.relations \union {<<Pg(ds)!Database, Pg(ds)!SchemaName(s)>>}
    BY <1>1 DEF Pg!With
  <1>4. Pg(ds)!TypeOK'
    BY <1>1, <1>2 DEF Pg!TypeOK, Pg!Of
  <1>5. PgControl(ds)'
    BY <1>1, <1>2 DEF Pg!TypeOK, PgControl, Pg!Of, Pg!TablesOf, PgCrawling, PgReading
  <1>6. PgKept(ds)'
    <2> SUFFICES ASSUME changes = 0, NEW t \in Pg(ds)!TablesOf(steady), ~Pg(ds)!Shaky(t)', t.schema \notin schemas', t \notin tables'
                 PROVE  Pg(ds)!Name(t) \in batch'.elements
      BY <1>1 DEF PgKept, Pg!TablesOf
    <2>1. t.schema # s
      BY <1>1 DEF Pg!Shaky, Pg!Of, Pg!TablesOf, Pg!TypeOK
    <2> QED
      BY <1>1, <1>2, <1>3, <2>1, PgMonotone DEF PgKept, PgCrawling, PgReading
  <1>7. PgSettled(ds)'
    <2> SUFFICES ASSUME changes = 0, NEW t \in Pg(ds)!TablesOf(steady), ~Pg(ds)!Shaky(t)', t.schema \notin schemas',
                        <<"views", t.schema>> \notin excused', ~(PgReading(ds)' /\ t.schema = s)
                 PROVE  pgSent # <<>> /\ Pg(ds)!Name(t) \in Pg(ds)!LastSent.elements
      BY <1>1 DEF PgSettled, Pg!TablesOf
    <2>1. t.schema # s
      BY <1>1 DEF Pg!Shaky, PgReading
    <2> QED
      BY <1>1, <2>1, PgMonotone DEF PgSettled, PgCrawling, PgReading
  <1>8. PgKeysKept(ds)'
    BY <1>1, <1>3, PgMonotone DEF PgKeysKept, PgKeyed, PgShown, PgCrawling, PgReading
  <1>9. PgBatchesResolved(ds)' /\ Pg(ds)!RelationsResolved'
    BY <1>1, <1>3 DEF PgBatchesResolved, PgResolved, Pg!RelationsResolved, PgLeads
  <1> QED
    BY <1>4, <1>5, <1>6, <1>7, <1>8, <1>9, PgKeptShows

LEMMA PgReadTableIInv ==
    ASSUME NEW ds, Pg(ds)!Parameters, PgIInv(ds), NEW t \in tables, Pg(ds)!ReadTable(t)
    PROVE  PgIInv(ds)'
  <1> USE DEF PgIInv
  <1> DEFINE all == {k \in Pg(ds)!Of("key", schema) : Pg(ds)!Name(t) \in k.of}
  <1>1. /\ pc = "table" /\ pc' = "key" /\ tables' = tables \ {t} /\ table' = t
        /\ batch' = Pg(ds)!With({}, {<<Pg(ds)!SchemaName(schema), Pg(ds)!Name(t)>>})
        /\ failures' \in 0..Postgres[ds].MaxFailures /\ excused \subseteq excused'
        /\ keys' \subseteq all /\ (<<"constraints", Pg(ds)!Name(t)>> \in excused' \/ keys' = all)
        /\ UNCHANGED <<live, changes, schemas, schema, indexes, unread, views, pgSent, steady>>
        /\ Pg(ds)!LastSent' = Pg(ds)!LastSent
    BY PgFailsBound DEF Pg!LastSent, Pg!ReadTable, Pg!Ask, Pg!TypeOK
  <1>2. t \in Pg(ds)!TablesOf(Postgres[ds].Object) /\ t.schema = schema /\ keys = {} /\ indexes = {} /\ views = {}
    BY <1>1 DEF PgControl, Pg!TypeOK
  <1>3. /\ batch'.elements = batch.elements /\ batch.relations \subseteq batch'.relations
        /\ batch'.relations \subseteq batch.relations \union {<<Pg(ds)!SchemaName(schema), Pg(ds)!Name(t)>>}
    BY <1>1 DEF Pg!With
  <1>4. Pg(ds)!TypeOK'
    BY <1>1, <1>2 DEF Pg!TypeOK, Pg!Of
  <1>5. PgControl(ds)'
    BY <1>1, <1>2 DEF Pg!TypeOK, PgControl, Pg!Of, PgCrawling, PgReading
  <1>6. PgKept(ds)'
    BY <1>1, <1>3, PgMonotone DEF PgKept, PgCrawling, PgReading
  <1>7. PgSettled(ds)'
    BY <1>1, PgMonotone DEF PgSettled, PgCrawling, PgReading
  <1>8. PgKeysKept(ds)'
    <2>1. ASSUME NEW k \in PgKeysOf(ds, Pg(ds)!Name(t)) PROVE k \in all
      <3>1. k \in live /\ k \in Postgres[ds].Object /\ k.kind = "key" /\ Pg(ds)!Name(t) \in k.of
        BY DEF PgKeysOf, Pg!TypeOK
      <3>2. PICK u \in Pg(ds)!TablesOf(Postgres[ds].Object) : u.schema = k.schema /\ Pg(ds)!Name(t) = Pg(ds)!Name(u)
        BY <3>1 DEF Pg!Parameters
      <3>3. k.schema = schema
        BY <1>2, <3>2 DEF Pg!Name
      <3> QED
        BY <3>1, <3>3 DEF Pg!Of
    <2> QED
      BY <1>1, <1>3, <2>1, PgMonotone DEF PgKeysKept, PgKeyed, PgShown, PgCrawling, PgReading
  <1>9. PgBatchesResolved(ds)' /\ Pg(ds)!RelationsResolved'
    <2>1. PgResolved(ds, batch')
      <3>1. PgLeads(ds, batch', Pg(ds)!SchemaName(schema)) /\ PgLeads(ds, batch', Pg(ds)!Name(t))
        BY <1>2 DEF PgLeads
      <3> QED
        BY <1>3, <3>1, PgResolvedGrows DEF PgBatchesResolved
    <2> QED
      BY <1>1, <2>1 DEF PgBatchesResolved, PgResolved, Pg!RelationsResolved, PgLeads
  <1> QED
    BY <1>4, <1>5, <1>6, <1>7, <1>8, <1>9, PgKeptShows

LEMMA PgReadKeyIInv ==
    ASSUME NEW ds, Pg(ds)!Parameters, PgIInv(ds), NEW k \in keys, Pg(ds)!ReadKey(k)
    PROVE  PgIInv(ds)'
  <1> USE DEF PgIInv
  <1>1. PICK found \in SUBSET ({k} \intersect live) :
          /\ batch' = Pg(ds)!With({}, {<<Pg(ds)!Name(table), r.to>> : r \in found})
          /\ <<"constraints", Pg(ds)!Name(table)>> \in excused' \/ (found = {k} \intersect live /\ keys' = keys \ {k})
          /\ failures' \in 0..Postgres[ds].MaxFailures /\ excused \subseteq excused'
          /\ keys' \subseteq keys
    BY PgFailsBound DEF Pg!ReadKey, Pg!Ask, Pg!TypeOK
  <1>2. /\ pc = "key" /\ k \in Postgres[ds].Object /\ table \in Pg(ds)!TablesOf(Postgres[ds].Object)
        /\ UNCHANGED <<live, changes, pc, schemas, schema, tables, table, indexes, unread, views, pgSent, steady>>
        /\ Pg(ds)!LastSent' = Pg(ds)!LastSent
    BY DEF Pg!LastSent, Pg!ReadKey, PgControl
  <1>3. /\ batch'.elements = batch.elements /\ batch.relations \subseteq batch'.relations
        /\ batch'.relations \subseteq batch.relations \union {<<Pg(ds)!Name(table), r.to>> : r \in found}
        /\ {<<Pg(ds)!Name(table), r.to>> : r \in found} \subseteq batch'.relations
    BY <1>1 DEF Pg!With
  <1>4. Pg(ds)!TypeOK'
    BY <1>1, <1>2 DEF Pg!TypeOK
  <1>5. PgControl(ds)'
    BY <1>1, <1>2 DEF PgControl, PgCrawling, PgReading
  <1>6. PgKept(ds)'
    BY <1>1, <1>2, <1>3, PgMonotone DEF PgKept, PgCrawling, PgReading
  <1>7. PgSettled(ds)'
    BY <1>1, <1>2, PgMonotone DEF PgSettled, PgCrawling, PgReading
  <1>8. PgKeysKept(ds)'
    <2>1. k \in steady => PgShown(ds, batch, k, Pg(ds)!Name(table))' \/ <<"constraints", Pg(ds)!Name(table)>> \in excused'
      BY <1>1, <1>2, <1>3 DEF PgShown, Pg!TypeOK
    <2>2. ASSUME NEW l \in PgKeysOf(ds, Pg(ds)!Name(table)), l \notin keys' PROVE PgShown(ds, batch, l, Pg(ds)!Name(table))'
      <3>1. CASE l = k
        BY <1>2, <2>1, <3>1 DEF PgKeysOf, PgShown
      <3>2. CASE l \in keys /\ l # k
        BY <1>1, <1>2, <2>2, <3>2 DEF PgShown
      <3>3. CASE l \notin keys
        BY <1>1, <1>2, <1>3, <3>3 DEF PgKeysKept, PgShown
      <3> QED
        BY <3>1, <3>2, <3>3
    <2>3. PgKeyed(ds, batch)' /\ (pgSent # <<>> => PgKeyed(ds, Pg(ds)!LastSent))'
      BY <1>1, <1>2, <1>3, PgMonotone DEF PgKeysKept, PgKeyed, PgShown, PgCrawling, PgReading
    <2> QED
      BY <1>1, <1>2, <2>2, <2>3, PgMonotone DEF PgKeysKept
  <1>9. PgBatchesResolved(ds)' /\ Pg(ds)!RelationsResolved'
    <2>1. ASSUME NEW r \in found PROVE \E t \in Pg(ds)!TablesOf(Postgres[ds].Object) : r.to = Pg(ds)!Name(t)
      BY <1>2 DEF Pg!Parameters, PgControl
    <2>2. PgResolved(ds, batch)'
      BY <1>2, <1>3, <2>1 DEF PgBatchesResolved, PgResolved, PgLeads
    <2> QED
      BY <1>2, <2>2 DEF PgBatchesResolved, PgResolved, Pg!RelationsResolved, PgLeads
  <1> QED
    BY <1>4, <1>5, <1>6, <1>7, <1>8, <1>9, PgKeptShows

LEMMA PgListIndexesIInv ==
    ASSUME NEW ds, Pg(ds)!Parameters, PgIInv(ds), Pg(ds)!ListIndexes
    PROVE  PgIInv(ds)'
  <1> USE DEF PgIInv
  <1>1. /\ pc = "key" /\ keys = {} /\ table \in Pg(ds)!TablesOf(Postgres[ds].Object) /\ table.schema = schema
        /\ \/ pc' = "table" /\ indexes' = {} /\ <<"indexes", Pg(ds)!Name(table)>> \in excused'
           \/ pc' = "index" /\ indexes' \subseteq Pg(ds)!OfTable("index")
        /\ unread' = indexes'
        /\ failures' \in 0..Postgres[ds].MaxFailures /\ excused \subseteq excused'
        /\ UNCHANGED <<live, changes, schemas, schema, tables, table, keys, views, batch, pgSent, steady>>
        /\ Pg(ds)!LastSent' = Pg(ds)!LastSent
    BY PgFailsBound DEF Pg!LastSent, Pg!ListIndexes, Pg!Ask, Pg!TypeOK, PgControl
  <1>2. Pg(ds)!TypeOK'
    BY <1>1 DEF Pg!TypeOK, Pg!OfTable, Pg!Of, PgControl
  <1>3. PgControl(ds)'
    BY <1>1 DEF PgControl, Pg!TypeOK, Pg!OfTable, Pg!Of, Pg!IndexesOf, PgCrawling, PgReading
  <1>4. PgKept(ds)'
    BY <1>1, PgMonotone DEF PgKept, Pg!Shaky, PgCrawling, PgReading
  <1>5. PgSettled(ds)'
    BY <1>1, PgMonotone DEF PgSettled, PgCrawling, PgReading
  <1>6. PgKeysKept(ds)'
    BY <1>1, PgMonotone DEF PgKeysKept, PgKeyed, PgCrawling, PgReading
  <1>7. PgBatchesResolved(ds)' /\ Pg(ds)!RelationsResolved'
    BY <1>1 DEF PgBatchesResolved, PgResolved, Pg!RelationsResolved, PgLeads
  <1> QED
    BY <1>2, <1>3, <1>4, <1>5, <1>6, <1>7, PgKeptShows

LEMMA PgReadIndexIInv ==
    ASSUME NEW ds, Pg(ds)!Parameters, PgIInv(ds), NEW i \in unread, Pg(ds)!ReadIndex(i)
    PROVE  PgIInv(ds)'
  <1> USE DEF PgIInv
  <1>1. /\ pc = "index" /\ table \in Pg(ds)!TablesOf(Postgres[ds].Object) /\ table.schema = schema /\ i \in Pg(ds)!IndexesOf(table)
        /\ \/ /\ pc' = "table" /\ indexes' = {} /\ unread' = {}
              /\ <<"indexes", Pg(ds)!Name(table)>> \in excused' \/ ~Pg(ds)!Visible(i)
           \/ pc' = "index" /\ unread' = unread \ {i} /\ indexes' = indexes
        /\ failures' \in 0..Postgres[ds].MaxFailures /\ excused \subseteq excused'
        /\ UNCHANGED <<live, changes, schemas, schema, tables, table, keys, views, batch, pgSent, steady>>
        /\ Pg(ds)!LastSent' = Pg(ds)!LastSent
    BY PgFailsBound DEF Pg!LastSent, Pg!ReadIndex, Pg!Ask, Pg!TypeOK, PgControl
  <1>2. Pg(ds)!TypeOK'
    BY <1>1 DEF Pg!TypeOK
  <1>3. PgControl(ds)'
    BY <1>1 DEF PgControl, PgCrawling, PgReading
  <1>4. PgKept(ds)'
    <2>1. pc' = "table" => Pg(ds)!Shaky(table)'
      BY <1>1 DEF Pg!Shaky, Pg!Visible, Pg!Of
    <2> QED
      BY <1>1, <2>1, PgMonotone DEF PgKept, PgCrawling, PgReading
  <1>5. PgSettled(ds)'
    BY <1>1, PgMonotone DEF PgSettled, PgCrawling, PgReading
  <1>6. PgKeysKept(ds)'
    BY <1>1, PgMonotone DEF PgKeysKept, PgKeyed, PgCrawling, PgReading
  <1>7. PgBatchesResolved(ds)' /\ Pg(ds)!RelationsResolved'
    BY <1>1 DEF PgBatchesResolved, PgResolved, Pg!RelationsResolved, PgLeads
  <1> QED
    BY <1>2, <1>3, <1>4, <1>5, <1>6, <1>7, PgKeptShows

LEMMA PgAddTableIInv ==
    ASSUME NEW ds, Pg(ds)!Parameters, PgIInv(ds), Pg(ds)!AddTable
    PROVE  PgIInv(ds)'
  <1> USE DEF PgIInv
  <1>1. /\ pc = "index" /\ pc' = "table" /\ indexes' = {} /\ unread = {} /\ keys = {}
        /\ table \in Pg(ds)!TablesOf(Postgres[ds].Object) /\ table.schema = schema
        /\ batch' = Pg(ds)!With({Pg(ds)!Name(i) : i \in indexes} \union {Pg(ds)!Name(table)},
                         {Pg(ds)!Name(table), Pg(ds)!Database, Pg(ds)!SchemaName(schema)} \X {Pg(ds)!Name(i) : i \in indexes})
        /\ UNCHANGED <<live, changes, schemas, schema, tables, table, keys, unread, views,
                       pgSent, failures, steady, excused>>
        /\ Pg(ds)!LastSent' = Pg(ds)!LastSent
    BY DEF Pg!LastSent, Pg!AddTable, PgControl
  <1>2. /\ batch'.elements = batch.elements \union {Pg(ds)!Name(i) : i \in indexes} \union {Pg(ds)!Name(table)}
        /\ batch.relations \subseteq batch'.relations
        /\ batch'.relations = batch.relations
              \union ({Pg(ds)!Name(table), Pg(ds)!Database, Pg(ds)!SchemaName(schema)} \X {Pg(ds)!Name(i) : i \in indexes})
    BY <1>1 DEF Pg!With
  <1>3. Pg(ds)!TypeOK'
    BY <1>1 DEF Pg!TypeOK
  <1>4. PgControl(ds)'
    BY <1>1 DEF PgControl, PgCrawling, PgReading
  <1>5. PgKept(ds)'
    BY <1>1, <1>2, PgMonotone DEF PgKept, PgCrawling, PgReading
  <1>6. PgSettled(ds)'
    BY <1>1, PgMonotone DEF PgSettled, PgCrawling, PgReading
  <1>7. PgKeysKept(ds)'
    <2>1. ASSUME NEW i \in indexes, NEW k \in PgKeysOf(ds, Pg(ds)!Name(i)) PROVE FALSE
      <3>1. i \in Pg(ds)!Relation /\ i.kind # "table"
        BY DEF PgControl, Pg!IndexesOf, Pg!Relation
      <3>2. k \in Postgres[ds].Object /\ k.kind = "key" /\ Pg(ds)!Name(i) \in k.of
        BY DEF PgKeysOf, Pg!TypeOK
      <3>3. PICK t \in Pg(ds)!TablesOf(Postgres[ds].Object) : Pg(ds)!Name(i) = Pg(ds)!Name(t)
        BY <3>2 DEF Pg!Parameters
      <3> QED
        BY <3>1, <3>3, PgNamesApart
    <2>2. \A k \in PgKeysOf(ds, Pg(ds)!Name(table)) : PgShown(ds, batch, k, Pg(ds)!Name(table))
      BY <1>1 DEF PgKeysKept
    <2>3. \A k, n : PgShown(ds, batch, k, n) => PgShown(ds, batch, k, n)'
      BY <1>1, <1>2 DEF PgShown
    <2>4. PgKeyed(ds, batch)'
      <3> SUFFICES ASSUME NEW n \in batch'.elements, NEW k \in PgKeysOf(ds, n) PROVE PgShown(ds, batch, k, n)'
        BY <1>1, PgMonotone DEF PgKeyed
      <3>1. n \in batch.elements => PgShown(ds, batch, k, n)
        BY <1>1 DEF PgKeysKept, PgKeyed, PgCrawling, PgReading
      <3> QED
        BY <1>2, <2>1, <2>2, <2>3, <3>1
    <2> QED
      BY <1>1, <2>4, PgMonotone DEF PgKeysKept
  <1>8. PgBatchesResolved(ds)' /\ Pg(ds)!RelationsResolved'
    <2>1. PgResolved(ds, batch)'
      BY <1>1, <1>2 DEF PgBatchesResolved, PgResolved, PgLeads
    <2> QED
      BY <1>1, <2>1 DEF PgBatchesResolved, PgResolved, Pg!RelationsResolved, PgLeads
  <1> QED
    BY <1>3, <1>4, <1>5, <1>6, <1>7, <1>8, PgKeptShows

LEMMA PgListViewsIInv ==
    ASSUME NEW ds, Pg(ds)!Parameters, PgIInv(ds), Pg(ds)!ListViews
    PROVE  PgIInv(ds)'
  <1> USE DEF PgIInv
  <1>1. /\ pc = "table" /\ tables = {}
        /\ \/ pc' = "schema" /\ views' = {} /\ <<"views", schema>> \in excused'
           \/ pc' = "view" /\ views' \subseteq Pg(ds)!Of("view", schema)
        /\ failures' \in 0..Postgres[ds].MaxFailures /\ excused \subseteq excused'
        /\ UNCHANGED <<live, changes, schemas, schema, tables, table, keys, indexes, unread, batch, pgSent, steady>>
        /\ Pg(ds)!LastSent' = Pg(ds)!LastSent
    BY PgFailsBound DEF Pg!LastSent, Pg!ListViews, Pg!Ask, Pg!TypeOK
  <1>2. Pg(ds)!TypeOK'
    BY <1>1 DEF Pg!TypeOK, Pg!Of, PgControl
  <1>3. PgControl(ds)'
    BY <1>1 DEF PgControl, Pg!TypeOK, Pg!Of, PgCrawling, PgReading
  <1>4. PgKept(ds)'
    BY <1>1, PgMonotone DEF PgKept, PgCrawling, PgReading
  <1>5. PgSettled(ds)'
    BY <1>1, PgMonotone DEF PgSettled, PgCrawling, PgReading
  <1>6. PgKeysKept(ds)'
    BY <1>1, PgMonotone DEF PgKeysKept, PgKeyed, PgCrawling, PgReading
  <1>7. PgBatchesResolved(ds)' /\ Pg(ds)!RelationsResolved'
    BY <1>1 DEF PgBatchesResolved, PgResolved, Pg!RelationsResolved, PgLeads
  <1> QED
    BY <1>2, <1>3, <1>4, <1>5, <1>6, <1>7, PgKeptShows

LEMMA PgReadViewIInv ==
    ASSUME NEW ds, Pg(ds)!Parameters, PgIInv(ds), NEW v \in views, Pg(ds)!ReadView(v)
    PROVE  PgIInv(ds)'
  <1> USE DEF PgIInv
  <1>1. /\ pc = "view" /\ pc' = "view" /\ v \in Postgres[ds].Object /\ v.kind = "view" /\ views' = views \ {v}
        /\ \/ batch' = batch
           \/ batch' = Pg(ds)!With({Pg(ds)!Name(v)}, {Pg(ds)!Database, Pg(ds)!SchemaName(schema)} \X {Pg(ds)!Name(v)})
        /\ failures' \in 0..Postgres[ds].MaxFailures /\ excused \subseteq excused'
        /\ UNCHANGED <<live, changes, pc, schemas, schema, tables, table, keys, indexes, unread, pgSent, steady>>
        /\ Pg(ds)!LastSent' = Pg(ds)!LastSent
    BY PgFailsBound DEF Pg!LastSent, Pg!ReadView, Pg!Ask, Pg!TypeOK, PgControl
  <1>2. /\ batch.elements \subseteq batch'.elements /\ batch'.elements \subseteq batch.elements \union {Pg(ds)!Name(v)}
        /\ batch.relations \subseteq batch'.relations
        /\ \A r \in batch'.relations :
              \/ r \in batch.relations
              \/ Pg(ds)!Name(v) \in batch'.elements /\ r \in {Pg(ds)!Database, Pg(ds)!SchemaName(schema)} \X {Pg(ds)!Name(v)}
    BY <1>1 DEF Pg!With
  <1>3. Pg(ds)!TypeOK'
    BY <1>1 DEF Pg!TypeOK
  <1>4. PgControl(ds)'
    BY <1>1 DEF PgControl, PgCrawling, PgReading
  <1>5. PgKept(ds)'
    BY <1>1, <1>2, PgMonotone DEF PgKept, PgCrawling, PgReading
  <1>6. PgSettled(ds)'
    BY <1>1, PgMonotone DEF PgSettled, PgCrawling, PgReading
  <1>7. PgKeysKept(ds)'
    <2>1. ASSUME NEW k \in PgKeysOf(ds, Pg(ds)!Name(v)) PROVE FALSE
      <3>1. v \in Pg(ds)!Relation /\ v.kind # "table"
        BY <1>1 DEF Pg!Relation
      <3>2. k \in Postgres[ds].Object /\ k.kind = "key" /\ Pg(ds)!Name(v) \in k.of
        BY DEF PgKeysOf, Pg!TypeOK
      <3>3. PICK t \in Pg(ds)!TablesOf(Postgres[ds].Object) : Pg(ds)!Name(v) = Pg(ds)!Name(t)
        BY <3>2 DEF Pg!Parameters
      <3> QED
        BY <3>1, <3>3, PgNamesApart
    <2>2. PgKeyed(ds, batch)'
      BY <1>1, <1>2, <2>1, PgMonotone DEF PgKeysKept, PgKeyed, PgShown, PgCrawling, PgReading
    <2> QED
      BY <1>1, <2>2, PgMonotone DEF PgKeysKept
  <1>8. PgBatchesResolved(ds)' /\ Pg(ds)!RelationsResolved'
    <2>1. PgResolved(ds, batch')
      <3>1. PgLeads(ds, batch', Pg(ds)!SchemaName(schema)) /\ PgLeads(ds, batch', Pg(ds)!Database)
        BY DEF PgLeads
      <3>2. Pg(ds)!Name(v) \in batch'.elements => PgLeads(ds, batch', Pg(ds)!Name(v))
        BY DEF PgLeads
      <3> QED
        BY <1>2, <3>1, <3>2, PgResolvedGrows DEF PgBatchesResolved
    <2> QED
      BY <1>1, <2>1 DEF PgBatchesResolved, PgResolved, Pg!RelationsResolved, PgLeads
  <1> QED
    BY <1>3, <1>4, <1>5, <1>6, <1>7, <1>8, PgKeptShows

LEMMA PgShipIInv == ASSUME NEW ds, Pg(ds)!Parameters, PgIInv(ds), Pg(ds)!Ship PROVE PgIInv(ds)'
  <1> USE DEF PgIInv
  <1>1. /\ pc = "view" /\ pc' = "schema" /\ views = {}
        /\ batch' = Pg(ds)!With({Pg(ds)!SchemaName(schema)}, {})
        /\ pgSent' = Append(pgSent, Pg(ds)!Batch(schema, batch'))
        /\ UNCHANGED <<live, changes, Pg(ds)!reading, failures, steady, excused>>
    BY DEF Pg!Ship
  <1> DEFINE S == {pgSent[i] : i \in DOMAIN pgSent}
             b == Pg(ds)!Batch(schema, batch')
  <1>2. /\ pgSent' \in Seq(S \union {b}) /\ Len(pgSent') = Len(pgSent) + 1 /\ Len(pgSent) \in Nat
        /\ DOMAIN pgSent' = 1..(Len(pgSent) + 1) /\ DOMAIN pgSent = 1..Len(pgSent)
        /\ \A i \in 1..Len(pgSent) : pgSent'[i] = pgSent[i]
        /\ pgSent'[Len(pgSent) + 1] = b
    BY <1>1, AppendIs DEF PgControl
  <1>3. /\ b.of = schema /\ b.elements = batch'.elements /\ b.relations = batch'.relations
        /\ DOMAIN b = {"of", "elements", "relations"}
    BY DEF Pg!Batch
  <1> HIDE DEF b
  <1>4. pgSent' # <<>> /\ Pg(ds)!LastSent' = b
    BY <1>2 DEF Pg!LastSent
  <1>5. pgSent' \in Seq({pgSent'[i] : i \in DOMAIN pgSent'})
    <2>1. S \union {b} = {pgSent'[i] : i \in DOMAIN pgSent'}
      BY <1>2
    <2> QED
      BY <1>2, <2>1
  <1>6. batch'.elements = batch.elements \union {Pg(ds)!SchemaName(schema)} /\ batch'.relations = batch.relations
    BY <1>1 DEF Pg!With
  <1>7. Pg(ds)!TypeOK'
    <2>1. \A i \in DOMAIN pgSent' : DOMAIN pgSent'[i] = {"of", "elements", "relations"}
      BY <1>2, <1>3 DEF Pg!TypeOK
    <2> QED
      BY <1>1, <2>1 DEF Pg!TypeOK, Pg!reading
  <1>8. PgControl(ds)'
    BY <1>1, <1>3, <1>4, <1>5 DEF PgControl, PgCrawling, PgReading, Pg!reading
  <1>9. PgKept(ds)'
    BY <1>1, <1>6, PgMonotone DEF PgKept, PgCrawling, PgReading, Pg!reading
  <1>10. PgSettled(ds)'
    BY <1>1, <1>3, <1>4, <1>6, PgMonotone DEF PgKept, PgSettled, PgControl, PgCrawling, PgReading,
       Pg!reading
  <1>11. PgKeysKept(ds)'
    <2>1. ASSUME NEW k \in PgKeysOf(ds, Pg(ds)!SchemaName(schema)) PROVE FALSE
      <3>1. k \in Postgres[ds].Object /\ k.kind = "key" /\ Pg(ds)!SchemaName(schema) \in k.of
        BY DEF PgKeysOf, Pg!TypeOK
      <3>2. PICK t \in Pg(ds)!TablesOf(Postgres[ds].Object) : Pg(ds)!Name(t) = Pg(ds)!SchemaName(schema)
        BY <3>1 DEF Pg!Parameters
      <3> QED
        BY <3>2, PgNamesApart DEF Pg!TablesOf, Pg!Relation
    <2>2. PgKeyed(ds, batch)'
      BY <1>1, <1>6, <2>1, PgMonotone DEF PgKeysKept, PgKeyed, PgShown, PgCrawling, PgReading
    <2>3. PgKeyed(ds, Pg(ds)!LastSent)'
      BY <1>3, <1>4, <2>2 DEF PgKeyed, PgShown
    <2> QED
      BY <1>1, <2>2, <2>3 DEF PgKeysKept
  <1>12. PgBatchesResolved(ds)' /\ Pg(ds)!RelationsResolved'
    <2>1. PgResolved(ds, batch')
      BY <1>6, PgResolvedGrows DEF PgBatchesResolved
    <2>2. PgResolved(ds, b)
      BY <1>3, <2>1, PgResolvedGrows
    <2> QED
      BY <1>1, <1>4, <2>1, <2>2 DEF PgBatchesResolved, PgResolved, Pg!RelationsResolved, PgLeads
  <1> QED
    BY <1>7, <1>8, <1>9, <1>10, <1>11, <1>12, PgKeptShows

(* At the end of a crawl nothing is left to be read.                       *)
LEMMA PgEndIInv == ASSUME NEW ds, Pg(ds)!Parameters, PgIInv(ds), Pg(ds)!End PROVE PgIInv(ds)'
  <1> USE DEF PgIInv
  <1>1. /\ pc = "schema" /\ schemas = {} /\ pc' = "idle"
        /\ UNCHANGED <<live, changes, Pg(ds)!reading, batch, pgSent, failures, steady, excused>>
        /\ Pg(ds)!LastSent' = Pg(ds)!LastSent
    BY DEF Pg!LastSent, Pg!End
  <1>2. Pg(ds)!TypeOK'
    BY <1>1 DEF Pg!TypeOK, Pg!reading
  <1>3. PgControl(ds)'
    BY <1>1 DEF PgControl, PgCrawling, PgReading, Pg!reading
  <1>4. PgKept(ds)' /\ PgSettled(ds)'
    BY <1>1 DEF PgKept, PgSettled, PgCrawling, PgReading
  <1>5. PgKeysKept(ds)' /\ PgBatchesResolved(ds)'
    BY <1>1, PgMonotone DEF PgKeysKept, PgBatchesResolved, PgResolved, PgLeads, PgCrawling,
       PgReading
  <1>6. Pg(ds)!RelationsResolved'
    <2>3. {p \in steady : p.kind \in {"table", "index", "view"}} \subseteq Pg(ds)!Relation
      BY DEF Pg!Relation, Pg!TypeOK
    <2>4. \A t : Pg(ds)!Shaky(t) => Pg(ds)!Shaky(t)'
      BY <1>1, PgMonotone
    <2> SUFFICES ASSUME changes = 0, pgSent # <<>>, NEW o \in Pg(ds)!Relation, o \in steady,
                        NEW r \in Pg(ds)!LastSent.relations, Pg(ds)!Name(o) \in {r[1], r[2]},
                        <<"views", o.schema>> \notin excused, o.kind = "table" => ~Pg(ds)!Shaky(o)
                 PROVE  Pg(ds)!Name(o) \in Pg(ds)!LastSent.elements
      BY <1>1, <2>3, <2>4 DEF Pg!RelationsResolved
    <2>1. CASE o.kind = "table"
      BY <1>1, <2>1 DEF PgSettled, PgCrawling, PgReading, Pg!TablesOf
    <2>2. CASE o.kind # "table"
      BY <2>2, PgResolvedShows DEF PgBatchesResolved
    <2> QED
      BY <2>1, <2>2
  <1> QED
    BY <1>2, <1>3, <1>4, <1>5, <1>6, PgKeptShows

LEMMA PgStepIInv == ASSUME NEW ds, Pg(ds)!Parameters, PgIInv(ds), Pg(ds)!Next PROVE PgIInv(ds)'
  BY PgChangeIInv, PgTickIInv, PgListSchemasIInv, PgListTablesIInv, PgReadTableIInv, PgReadKeyIInv,
     PgListIndexesIInv,
     PgReadIndexIInv, PgAddTableIInv, PgListViewsIInv, PgReadViewIInv, PgShipIInv, PgEndIInv DEF Pg!Next, Pg!Crawl
-----------------------------------------------------------------------------
(* MongoDB.                                                               *)
MoInHand(ds) == pc \in {"columns", "constraints", "references"}
MoFresh(ds) == MoInHand(ds) \/ pc = "collection"

(* What the crawl has on its hands.                                        *)
MoControl(ds) ==
    /\ mongoSent \in Seq({mongoSent[i] : i \in DOMAIN mongoSent})
    /\ IF MoFresh(ds) THEN at \in 1..Len(Mongo[ds].Databases) ELSE collections = {}
    /\ MoInHand(ds) =>
          /\ collection \in Mongo[ds].Collection \ collections
          /\ collection.db = Mongo[ds].Databases[at]
          /\ element = [name |-> Mo(ds)!Name(collection), columns |-> element.columns,
                        references |-> element.references, indexes |-> element.indexes]

(* A batch has the database, and collections that were read with their     *)
(* indexes.                                                                *)
MoRead(ds, c) == c.db = Mongo[ds].Databases[at] /\ c \notin collections /\ ~(MoInHand(ds) /\ c = collection)
MoNamed(ds) ==
    MoFresh(ds) => \A e \in batch.elements :
                \/ e.name = <<Mongo[ds].Databases[at]>>
                \/ \E c \in Mongo[ds].Collection : MoRead(ds, c) /\ (e.name = Mo(ds)!Name(c) \/ \E i \in c.indexes : e.name = Mo(ds)!IndexName(c, i))

(* How many batches were sent: one of each database behind the crawl.      *)
MoOrder(ds) ==
    /\ pc = "database" => Len(mongoSent) = at
    /\ MoFresh(ds) => Len(mongoSent) = at - 1
    /\ pc # "idle" => \A i \in DOMAIN Mongo[ds].Databases : <<Mongo[ds].Databases[i]>> \notin excused

(* Small collections are whole in the batch; the one in hand has what was  *)
(* asked for so far.                                                       *)
MoColumnsWhole(ds, c, e) ==
    <<c.db, c.name, "columns">> \notin excused => DOMAIN e.columns = Mo(ds)!Fields(c.docs)
MoRefers(ds, c, e, x) ==
    \A d \in steady : d.db = c.db /\ d.name = Mongo[ds].Guess[x] => <<x, Mo(ds)!Name(d)>> \in e.references
MoWhole(ds, c, e) ==
    (e.name = Mo(ds)!Name(c) /\ Mo(ds)!Cardinality(c.docs) <= Mongo[ds].Sample) =>
        /\ MoColumnsWhole(ds, c, e)
        /\ <<c.db, c.name, "references">> \notin excused => \A x \in Mo(ds)!References(c.docs) : MoRefers(ds, c, e, x)
MoSmalls(ds) ==
    /\ MoFresh(ds) => \A c \in steady : \A e \in batch.elements : MoWhole(ds, c, e)
    /\ (MoInHand(ds) /\ collection \in steady /\ Mo(ds)!Cardinality(collection.docs) <= Mongo[ds].Sample) =>
          /\ pc \in {"constraints", "references"} => MoColumnsWhole(ds, collection, element)
          /\ (pc = "references" /\ <<collection.db, collection.name, "references">> \notin excused) =>
                \A x \in Mo(ds)!References(collection.docs) : x \in fields \/ MoRefers(ds, collection, element, x)

(* References of the batch and of the collection in hand are true.         *)
MoTrue(ds, e) ==
    \A r \in e.references :
        \E c \in IF changes = 0 THEN live ELSE Mongo[ds].Collection : Mo(ds)!Name(c) = r[2] /\ c.db = e.name[1]
MoTrueRefs(ds) == (\A e \in batch.elements : MoTrue(ds, e)) /\ (MoInHand(ds) => MoTrue(ds, element))

MoIInv(ds) ==
    /\ Mo(ds)!TypeOK /\ MoControl(ds) /\ MoNamed(ds) /\ MoOrder(ds) /\ MoSmalls(ds) /\ MoTrueRefs(ds)
    /\ Mo(ds)!ShippedInOrder /\ Mo(ds)!SmallOnesWhole /\ Mo(ds)!ReferencesTrue
-----------------------------------------------------------------------------
LEMMA MoCardinalityIs == ASSUME NEW ds, NEW S PROVE Mo(ds)!Cardinality(S) = Cardinality(S)
  BY DEF Cardinality, Mo!Cardinality

LEMMA MoFiniteIs == ASSUME NEW ds, NEW S PROVE Mo(ds)!IsFiniteSet(S) <=> IsFiniteSet(S)
  BY DEF IsFiniteSet, Mo!IsFiniteSet

(* A sample of a small collection is the whole of it.                      *)
LEMMA MoSampleIsAll ==
    ASSUME NEW ds, NEW docs, Mo(ds)!IsFiniteSet(docs), Mongo[ds].Sample \in Nat,
           Mo(ds)!Cardinality(docs) <= Mongo[ds].Sample, NEW s \in Mo(ds)!Samples(docs)
    PROVE  s = docs
  <1>1. s \in SUBSET docs /\ Mo(ds)!Cardinality(s) = Mo(ds)!Cardinality(docs)
    BY FS_CardinalityType, MoCardinalityIs, MoFiniteIs DEF Mo!Samples
  <1> QED
    BY <1>1, FS_Subset, MoCardinalityIs, MoFiniteIs
-----------------------------------------------------------------------------
LEMMA MoInitIInv == ASSUME NEW ds, Mo(ds)!Parameters, Mo(ds)!Init PROVE MoIInv(ds)
  <1>1. Mo(ds)!TypeOK
    BY DEF Mo!Parameters, Mo!Init, Mo!TypeOK
  <1>2. mongoSent \in Seq({mongoSent[i] : i \in DOMAIN mongoSent}) /\ DOMAIN mongoSent = {}
    BY DEF Mo!Init
  <1>3. MoControl(ds) /\ MoNamed(ds) /\ MoOrder(ds) /\ MoSmalls(ds) /\ MoTrueRefs(ds)
    BY <1>2 DEF Mo!Init, MoControl, MoNamed, MoOrder, MoSmalls, MoTrueRefs, MoFresh, MoInHand
  <1>4. Mo(ds)!ShippedInOrder /\ Mo(ds)!SmallOnesWhole /\ Mo(ds)!ReferencesTrue
    BY <1>2 DEF Mo!Init, Mo!ShippedInOrder, Mo!SmallOnesWhole, Mo!ReferencesTrue, Mo!Elements
  <1> QED
    BY <1>1, <1>3, <1>4 DEF MoIInv

(* What was sent stays right when a request fails or a collection goes.    *)
LEMMA MoSentKept ==
    ASSUME NEW ds, Mo(ds)!SmallOnesWhole, Mo(ds)!ReferencesTrue, UNCHANGED <<mongoSent, live,
           changes>>,
           steady' \subseteq steady, excused \subseteq excused'
    PROVE  Mo(ds)!SmallOnesWhole' /\ Mo(ds)!ReferencesTrue'
  <1>1. Mo(ds)!SmallOnesWhole'
    BY DEF Mo!SmallOnesWhole, Mo!Elements
  <1>2. Mo(ds)!ReferencesTrue'
    BY DEF Mo!ReferencesTrue, Mo!Elements
  <1> QED
    BY <1>1, <1>2

LEMMA MoFailsBound ==
    ASSUME NEW ds, Mo(ds)!TypeOK, Mo(ds)!Parameters, failures < Mongo[ds].MaxFailures,
           failures' = failures + 1
                    PROVE  failures' \in 0..Mongo[ds].MaxFailures
  BY DEF Mo!TypeOK, Mo!Parameters

LEMMA MoChangeIInv ==
    ASSUME NEW ds, Mo(ds)!Parameters, MoIInv(ds), NEW c \in Mongo[ds].Collection, Mo(ds)!Change(c)
    PROVE  MoIInv(ds)'
  <1> USE DEF MoIInv
  <1>1. /\ changes' \in 0..Mongo[ds].MaxChanges /\ changes' # 0 /\ live' \subseteq Mongo[ds].Collection
        /\ steady' \subseteq steady /\ steady' \subseteq live'
        /\ UNCHANGED <<pc, at, collections, collection, element, fields, batch, mongoSent, failures, excused>>
    BY DEF Mo!Parameters, Mo!TypeOK, Mo!Change
  <1>2. Mo(ds)!TypeOK' /\ MoControl(ds)'
    BY <1>1 DEF Mo!TypeOK, MoControl, MoFresh, MoInHand
  <1>7. MoNamed(ds)' /\ MoOrder(ds)' /\ Mo(ds)!ShippedInOrder'
    BY <1>1 DEF MoNamed, MoRead, MoOrder, Mo!ShippedInOrder, MoFresh, MoInHand
  <1>3. MoSmalls(ds)' /\ Mo(ds)!SmallOnesWhole'
    BY <1>1 DEF MoSmalls, MoWhole, MoColumnsWhole, MoRefers, MoFresh, MoInHand, Mo!SmallOnesWhole,
       Mo!Elements
  <1>4. \A e : MoTrue(ds, e) => MoTrue(ds, e)'
    BY <1>1 DEF MoTrue, Mo!TypeOK
  <1>5. MoTrueRefs(ds)'
    BY <1>1, <1>4 DEF MoTrueRefs, MoInHand
  <1>6. Mo(ds)!ReferencesTrue'
    BY <1>1 DEF Mo!ReferencesTrue, Mo!Elements, Mo!TypeOK
  <1> QED
    BY <1>2, <1>3, <1>5, <1>6, <1>7

LEMMA MoTickIInv == ASSUME NEW ds, Mo(ds)!Parameters, MoIInv(ds), Mo(ds)!Tick PROVE MoIInv(ds)'
  <1> USE DEF MoIInv
  <1>1. /\ pc = "idle" /\ pc' = "database" /\ at' = 0 /\ mongoSent' = <<>> /\ steady' = live /\ excused' = {}
        /\ UNCHANGED <<live, changes, collections, collection, element, fields, batch, failures>>
    BY DEF Mo!Tick
  <1>2. mongoSent' \in Seq({mongoSent'[i] : i \in DOMAIN mongoSent'}) /\ DOMAIN mongoSent' = {} /\ Len(mongoSent') = 0
    BY <1>1
  <1>3. Len(Mongo[ds].Databases) \in Nat
    BY DEF Mo!Parameters
  <1>4. Mo(ds)!TypeOK' /\ MoControl(ds)' /\ MoNamed(ds)' /\ MoOrder(ds)'
    BY <1>1, <1>2, <1>3 DEF Mo!TypeOK, MoControl, MoNamed, MoOrder, MoFresh, MoInHand
  <1>5. MoSmalls(ds)' /\ Mo(ds)!ShippedInOrder' /\ Mo(ds)!SmallOnesWhole' /\ Mo(ds)!ReferencesTrue'
    BY <1>1, <1>2 DEF MoSmalls, MoFresh, MoInHand, Mo!ShippedInOrder, Mo!SmallOnesWhole,
       Mo!ReferencesTrue, Mo!Elements
  <1>6. MoTrueRefs(ds)'
    BY <1>1 DEF MoTrueRefs, MoTrue, MoInHand
  <1> QED
    BY <1>4, <1>5, <1>6

LEMMA MoDoneIInv == ASSUME NEW ds, Mo(ds)!Parameters, MoIInv(ds), Mo(ds)!Done PROVE MoIInv(ds)'
  <1> USE DEF MoIInv
  <1>1. /\ pc = "database" /\ at = Len(Mongo[ds].Databases) /\ pc' = "idle"
        /\ UNCHANGED <<live, changes, at, collections, collection, element, fields, batch, mongoSent,
                       failures, steady, excused>>
    BY DEF Mo!Done
  <1>2. Mo(ds)!TypeOK' /\ MoControl(ds)' /\ MoNamed(ds)' /\ MoOrder(ds)'
    BY <1>1 DEF Mo!TypeOK, MoControl, MoNamed, MoOrder, MoFresh, MoInHand
  <1>3. Mo(ds)!ShippedInOrder'
    <2>1. Len(mongoSent) = at /\ \A i \in DOMAIN Mongo[ds].Databases : <<Mongo[ds].Databases[i]>> \notin excused
      BY <1>1 DEF MoOrder
    <2>2. at > 0 => at \in DOMAIN Mongo[ds].Databases
      BY <1>1 DEF Mo!Parameters
    <2> QED
      BY <1>1, <2>1, <2>2 DEF Mo!ShippedInOrder
  <1>4. MoSmalls(ds)' /\ MoTrueRefs(ds)'
    BY <1>1 DEF MoSmalls, MoFresh, MoInHand, MoTrueRefs, MoTrue
  <1> QED
    BY <1>1, <1>2, <1>3, <1>4, MoSentKept

LEMMA MoListCollectionsIInv ==
    ASSUME NEW ds, Mo(ds)!Parameters, MoIInv(ds), Mo(ds)!ListCollections
    PROVE  MoIInv(ds)'
  <1> USE DEF MoIInv
  <1> DEFINE db == Mongo[ds].Databases[at + 1]
  <1>1. /\ pc = "database" /\ at' = at + 1 /\ at' \in 1..Len(Mongo[ds].Databases) /\ at' \in DOMAIN Mongo[ds].Databases
        /\ batch' = [elements |-> {Mo(ds)!Bare(<<db>>)}, relations |-> {}]
        /\ UNCHANGED <<live, changes, collection, element, fields, mongoSent, steady>>
        /\ failures' \in 0..Mongo[ds].MaxFailures /\ excused \subseteq excused'
        /\ \/ pc' = "collection" /\ collections' = Mo(ds)!CollectionsOf(db) /\ excused' = excused
           \/ pc' = "idle" /\ collections' = {} /\ excused' = excused \union {<<db>>}
    BY MoFailsBound DEF Mo!ListCollections, Mo!TypeOK, Mo!Parameters, MoControl, MoFresh, MoInHand
  <1>2. Len(mongoSent) = at /\ at \in Nat
    BY <1>1 DEF MoOrder, Mo!TypeOK, Mo!Parameters
  <1>3. Mo(ds)!TypeOK'
    BY <1>1 DEF Mo!TypeOK, Mo!CollectionsOf
  <1>7. MoControl(ds)'
    BY <1>1 DEF MoControl, MoFresh, MoInHand
  <1>8. MoNamed(ds)'
    BY <1>1 DEF MoNamed, MoFresh, MoInHand, Mo!Bare
  <1>4. MoOrder(ds)' /\ Mo(ds)!ShippedInOrder'
    BY <1>1, <1>2 DEF MoOrder, Mo!ShippedInOrder, MoFresh, MoInHand
  <1>5. MoSmalls(ds)'
    <2>1. \A c \in Mongo[ds].Collection : <<db>> # Mo(ds)!Name(c)
      BY NamesDiffer DEF Mo!Name
    <2> QED
      BY <1>1, <2>1 DEF MoSmalls, MoWhole, MoFresh, MoInHand, Mo!Bare, Mo!TypeOK
  <1>6. MoTrueRefs(ds)'
    BY <1>1 DEF MoTrueRefs, MoTrue, MoInHand, Mo!Bare
  <1> QED
    BY <1>1, <1>3, <1>4, <1>5, <1>6, <1>7, <1>8, MoSentKept

LEMMA MoReadCollectionIInv ==
    ASSUME NEW ds, Mo(ds)!Parameters, MoIInv(ds), NEW c \in collections, Mo(ds)!ReadCollection(c)
    PROVE  MoIInv(ds)'
  <1> USE DEF MoIInv
  <1>1. /\ pc = "collection" /\ pc' = "columns" /\ collections' = collections \ {c} /\ collection' = c
        /\ c \in Mongo[ds].Collection /\ c.db = Mongo[ds].Databases[at]
        /\ \E n : element' = [Mo(ds)!Bare(Mo(ds)!Name(c)) EXCEPT !.indexes = n]
        /\ failures' \in 0..Mongo[ds].MaxFailures /\ excused \subseteq excused'
        /\ excused' \subseteq excused \union {<<c.db, c.name, "names">>}
        /\ UNCHANGED <<live, changes, at, fields, batch, mongoSent, steady>>
    BY MoFailsBound DEF Mo!ReadCollection, Mo!Ask, Mo!TypeOK
  <1>2. /\ element' = [name |-> Mo(ds)!Name(c), columns |-> <<>>, references |-> {}, indexes |-> element'.indexes]
    BY <1>1 DEF Mo!Bare
  <1>3. Mo(ds)!TypeOK' /\ MoControl(ds)'
    BY <1>1, <1>2 DEF Mo!TypeOK, MoControl, MoFresh, MoInHand
  <1>4. MoNamed(ds)'
    BY <1>1 DEF MoNamed, MoRead, MoFresh, MoInHand
  <1>5. MoOrder(ds)' /\ Mo(ds)!ShippedInOrder'
    BY <1>1, NamesDiffer DEF MoOrder, Mo!ShippedInOrder, MoFresh, MoInHand
  <1>6. MoSmalls(ds)'
    BY <1>1 DEF MoSmalls, MoWhole, MoColumnsWhole, MoRefers, MoFresh, MoInHand
  <1>7. MoTrueRefs(ds)'
    BY <1>1, <1>2 DEF MoTrueRefs, MoTrue, MoInHand
  <1> QED
    BY <1>1, <1>3, <1>4, <1>5, <1>6, <1>7, MoSentKept

LEMMA MoReadColumnsIInv ==
    ASSUME NEW ds, Mo(ds)!Parameters, MoIInv(ds), Mo(ds)!ReadColumns
    PROVE  MoIInv(ds)'
  <1> USE DEF MoIInv
  <1> DEFINE q == <<collection.db, collection.name, "columns">>
  <1>1. /\ pc = "columns" /\ pc' = "constraints"
        /\ failures' \in 0..Mongo[ds].MaxFailures /\ excused \subseteq excused' /\ excused' \subseteq excused \union {q}
        /\ UNCHANGED <<live, changes, at, collections, collection, fields, batch, mongoSent, steady>>
    BY MoFailsBound DEF Mo!ReadColumns, Mo!Ask, Mo!TypeOK
  <1>2. PICK s \in Mo(ds)!Samples(Mo(ds)!Docs) : \E docs \in SUBSET s : \E f \in Mo(ds)!ColumnsOf(docs) :
            /\ element' = [element EXCEPT !.columns = f]
            /\ docs = s \/ q \in excused'
    BY DEF Mo!ReadColumns, Mo!Ask
  <1>3. PICK docs \in SUBSET s : \E f \in Mo(ds)!ColumnsOf(docs) :
            /\ element' = [element EXCEPT !.columns = f]
            /\ docs = s \/ q \in excused'
    BY <1>2
  <1>4. PICK f \in Mo(ds)!ColumnsOf(docs) :
            /\ element' = [element EXCEPT !.columns = f]
            /\ docs = s \/ q \in excused'
    BY <1>3
  <1>5. element' = [name |-> Mo(ds)!Name(collection), columns |-> f, references |-> element.references,
                    indexes |-> element.indexes]
    BY <1>1, <1>4, ColumnsSet DEF MoControl, MoInHand
  <1>6. Mo(ds)!TypeOK' /\ MoControl(ds)'
    BY <1>1, <1>5 DEF Mo!TypeOK, MoControl, MoFresh, MoInHand
  <1>7. MoNamed(ds)' /\ MoOrder(ds)' /\ Mo(ds)!ShippedInOrder'
    BY <1>1, NamesDiffer DEF MoNamed, MoRead, MoOrder, Mo!ShippedInOrder, MoFresh, MoInHand
  <1>8. MoSmalls(ds)'
    <2>1. ASSUME collection \in steady, Mo(ds)!Cardinality(collection.docs) <= Mongo[ds].Sample
          PROVE  MoColumnsWhole(ds, collection, element)'
      <3>1. Mo(ds)!Docs = collection.docs /\ Mo(ds)!IsFiniteSet(collection.docs) /\ Mongo[ds].Sample \in Nat
        BY <2>1 DEF Mo!Docs, Mo!TypeOK, Mo!Parameters
      <3>2. s = collection.docs
        BY <2>1, <3>1, MoSampleIsAll
      <3>3. DOMAIN f = Mo(ds)!Fields(docs)
        BY DEF Mo!ColumnsOf
      <3> QED
        BY <1>1, <1>4, <1>5, <3>2, <3>3 DEF MoColumnsWhole
    <2> QED
      BY <1>1, <2>1 DEF MoSmalls, MoWhole, MoColumnsWhole, MoRefers, MoFresh, MoInHand
  <1>9. MoTrueRefs(ds)'
    BY <1>1, <1>5 DEF MoTrueRefs, MoTrue, MoInHand, MoControl
  <1> QED
    BY <1>1, <1>6, <1>7, <1>8, <1>9, MoSentKept

LEMMA MoSampleConstraintsIInv ==
    ASSUME NEW ds, Mo(ds)!Parameters, MoIInv(ds), Mo(ds)!SampleConstraints
    PROVE  MoIInv(ds)'
  <1> USE DEF MoIInv
  <1> DEFINE q == <<collection.db, collection.name, "references">>
  <1>1. /\ pc = "constraints" /\ pc' = "references"
        /\ failures' \in 0..Mongo[ds].MaxFailures /\ excused \subseteq excused' /\ excused' \subseteq excused \union {q}
        /\ UNCHANGED <<live, changes, at, collections, collection, element, batch, mongoSent, steady>>
    BY MoFailsBound DEF Mo!SampleConstraints, Mo!Ask, Mo!TypeOK
  <1>2. PICK s \in Mo(ds)!Samples(Mo(ds)!Docs) : q \in excused' \/ fields' = Mo(ds)!References(s)
    BY DEF Mo!SampleConstraints, Mo!Ask
  <1>3. Mo(ds)!TypeOK' /\ MoControl(ds)'
    BY <1>1 DEF Mo!TypeOK, MoControl, MoFresh, MoInHand
  <1>4. MoNamed(ds)' /\ MoOrder(ds)' /\ Mo(ds)!ShippedInOrder'
    BY <1>1, NamesDiffer DEF MoNamed, MoRead, MoOrder, Mo!ShippedInOrder, MoFresh, MoInHand
  <1>5. MoSmalls(ds)'
    <2>1. ASSUME collection \in steady, Mo(ds)!Cardinality(collection.docs) <= Mongo[ds].Sample, q \notin excused'
          PROVE  fields' = Mo(ds)!References(collection.docs)
      <3>1. Mo(ds)!Docs = collection.docs /\ Mo(ds)!IsFiniteSet(collection.docs) /\ Mongo[ds].Sample \in Nat
        BY <2>1 DEF Mo!Docs, Mo!TypeOK, Mo!Parameters
      <3>2. s = collection.docs
        BY <2>1, <3>1, MoSampleIsAll
      <3> QED
        BY <1>2, <2>1, <3>2
    <2> QED
      BY <1>1, <2>1 DEF MoSmalls, MoWhole, MoColumnsWhole, MoRefers, MoFresh, MoInHand
  <1>6. MoTrueRefs(ds)'
    BY <1>1 DEF MoTrueRefs, MoTrue, MoInHand
  <1> QED
    BY <1>1, <1>3, <1>4, <1>5, <1>6, MoSentKept

LEMMA MoGuessReferenceIInv ==
    ASSUME NEW ds, Mo(ds)!Parameters, MoIInv(ds), NEW x \in fields, Mo(ds)!GuessReference(x)
    PROVE  MoIInv(ds)'
  <1> USE DEF MoIInv
  <1> DEFINE q == <<collection.db, collection.name, "references">>
             all == {c \in live : c.db = collection.db /\ c.name = Mongo[ds].Guess[x]}
  <1>1. /\ pc = "references" /\ fields' = fields \ {x}
        /\ failures' \in 0..Mongo[ds].MaxFailures /\ excused \subseteq excused' /\ excused' \subseteq excused \union {q}
        /\ UNCHANGED <<live, changes, pc, at, collections, collection, batch, mongoSent, steady>>
    BY MoFailsBound DEF Mo!GuessReference, Mo!Ask, Mo!TypeOK
  <1>2. PICK found \in SUBSET all :
            /\ element' = [element EXCEPT !.references = @ \union {<<x, Mo(ds)!Name(c)>> : c \in found}]
            /\ found = all \/ q \in excused'
    BY DEF Mo!GuessReference, Mo!Ask
  <1>3. element' = [name |-> Mo(ds)!Name(collection), columns |-> element.columns,
                    references |-> element.references \union {<<x, Mo(ds)!Name(c)>> : c \in found},
                    indexes |-> element.indexes]
    <2> DEFINE y == element.references \union {<<x, Mo(ds)!Name(c)>> : c \in found}
    <2>1. element' = [element EXCEPT !.references = y]
      BY <1>2
    <2> HIDE DEF y
    <2>2. element' = [name |-> Mo(ds)!Name(collection), columns |-> element.columns,
                      references |-> y, indexes |-> element.indexes]
      BY <1>1, <2>1, ReferencesSet DEF MoControl, MoInHand
    <2> QED
      BY <2>2 DEF y
  <1>4. Mo(ds)!TypeOK' /\ MoControl(ds)'
    BY <1>1, <1>3 DEF Mo!TypeOK, MoControl, MoFresh, MoInHand
  <1>5. MoNamed(ds)' /\ MoOrder(ds)' /\ Mo(ds)!ShippedInOrder'
    BY <1>1, NamesDiffer DEF MoNamed, MoRead, MoOrder, Mo!ShippedInOrder, MoFresh, MoInHand
  <1>6. MoSmalls(ds)'
    <2>1. q \notin excused' => MoRefers(ds, collection, element, x)'
      BY <1>1, <1>2, <1>3 DEF MoRefers, Mo!TypeOK
    <2>2. \A y : MoRefers(ds, collection, element, y) => MoRefers(ds, collection, element, y)'
      BY <1>1, <1>3 DEF MoRefers
    <2>3. element'.columns = element.columns
      BY <1>3
    <2>4. (collection \in steady /\ Mo(ds)!Cardinality(collection.docs) <= Mongo[ds].Sample) =>
             /\ MoColumnsWhole(ds, collection, element)'
             /\ q \notin excused' => \A y \in Mo(ds)!References(collection.docs) :
                                         y \in fields' \/ MoRefers(ds, collection, element, y)'
      BY <1>1, <2>1, <2>2, <2>3 DEF MoSmalls, MoColumnsWhole, MoInHand
    <2>5. \A c \in steady : \A e \in batch.elements : MoWhole(ds, c, e) => MoWhole(ds, c, e)'
      BY <1>1 DEF MoWhole, MoColumnsWhole, MoRefers
    <2> QED
      BY <1>1, <2>4, <2>5 DEF MoSmalls, MoFresh, MoInHand
  <1>7. MoTrueRefs(ds)'
    <2>1. collection.db = element'.name[1] /\ collection.db = element.name[1]
      BY <1>1, <1>3 DEF Mo!Name, MoControl, MoInHand
    <2>2. ASSUME NEW c \in found PROVE c \in live /\ c \in Mongo[ds].Collection /\ c.db = element'.name[1]
      BY <2>1 DEF Mo!TypeOK
    <2>3. MoTrue(ds, element)'
      BY <1>1, <1>3, <2>1, <2>2 DEF MoTrueRefs, MoTrue, MoInHand
    <2> QED
      BY <1>1, <2>3 DEF MoTrueRefs, MoTrue, MoInHand
  <1> QED
    BY <1>1, <1>4, <1>5, <1>6, <1>7, MoSentKept

LEMMA MoAddCollectionIInv ==
    ASSUME NEW ds, Mo(ds)!Parameters, MoIInv(ds), Mo(ds)!AddCollection
    PROVE  MoIInv(ds)'
  <1> USE DEF MoIInv
  <1> DEFINE q == <<collection.db, collection.name, "indexes">>
  <1>1. /\ pc = "references" /\ fields = {} /\ pc' = "collection"
        /\ failures' \in 0..Mongo[ds].MaxFailures /\ excused \subseteq excused' /\ excused' \subseteq excused \union {q}
        /\ collection \in Mongo[ds].Collection /\ collection \notin collections /\ collection.db = Mongo[ds].Databases[at]
        /\ element.name = Mo(ds)!Name(collection) /\ at' = at
        /\ UNCHANGED <<live, changes, at, collections, collection, element, fields, mongoSent, steady>>
    BY MoFailsBound DEF Mo!AddCollection, Mo!Ask, Mo!TypeOK, MoControl, MoInHand
  <1>2. PICK found \in SUBSET collection.indexes :
            batch'.elements = batch.elements \union {element} \union {Mo(ds)!Bare(Mo(ds)!IndexName(collection, i)) : i \in found}
    BY DEF Mo!AddCollection, Mo!Ask, Mo!Indexes
  <1>3. \A e \in batch'.elements :
           \/ e \in batch.elements
           \/ e = element
           \/ \E i \in collection.indexes : e = Mo(ds)!Bare(Mo(ds)!IndexName(collection, i))
    BY <1>2
  <1>4. ASSUME NEW e \in batch.elements
        PROVE  e.name # Mo(ds)!Name(collection) /\ \A i : e.name # Mo(ds)!IndexName(collection, i)
    <2>1. CASE e.name = <<Mongo[ds].Databases[at]>>
      BY <2>1, NamesDiffer DEF Mo!Name, Mo!IndexName
    <2>2. ASSUME NEW c \in Mongo[ds].Collection, MoRead(ds, c), e.name = Mo(ds)!Name(c) \/ \E i : e.name = Mo(ds)!IndexName(c, i)
          PROVE  e.name # Mo(ds)!Name(collection) /\ \A i : e.name # Mo(ds)!IndexName(collection, i)
      <3>1. c # collection
        BY <1>1, <2>2 DEF MoRead, MoInHand
      <3>2. c.name # collection.name
        BY <1>1, <2>2, <3>1 DEF MoRead, Mo!Parameters
      <3> QED
        BY <2>2, <3>2, NamesDiffer DEF Mo!Name, Mo!IndexName
    <2> QED
      BY <1>1, <2>1, <2>2 DEF MoNamed, MoFresh, MoInHand
  <1>5. Mo(ds)!TypeOK'
    <2>1. \A n : Mo(ds)!Bare(n).name = n
      BY DEF Mo!Bare
    <2>2. \A i : Mo(ds)!Name(collection) # Mo(ds)!IndexName(collection, i)
      BY NamesDiffer DEF Mo!Name, Mo!IndexName
    <2>3. \A i, j : Mo(ds)!IndexName(collection, i) = Mo(ds)!IndexName(collection, j) => i = j
      BY DEF Mo!IndexName
    <2>4. ASSUME NEW e \in batch'.elements, NEW f \in batch'.elements, e.name = f.name PROVE e = f
      <3>1. CASE e \in batch.elements /\ f \in batch.elements
        BY <2>4, <3>1 DEF Mo!TypeOK
      <3>2. CASE e = element \/ f = element
        BY <1>1, <1>3, <1>4, <2>1, <2>2, <2>4, <3>2
      <3>3. CASE \E i \in collection.indexes : e = Mo(ds)!Bare(Mo(ds)!IndexName(collection, i)) \/ f = Mo(ds)!Bare(Mo(ds)!IndexName(collection, i))
        BY <1>1, <1>3, <1>4, <2>1, <2>2, <2>3, <2>4, <3>3
      <3> QED
        BY <1>3, <3>1, <3>2, <3>3
    <2> QED
      BY <1>1, <2>4 DEF Mo!TypeOK
  <1>6. MoControl(ds)'
    BY <1>1 DEF MoControl, MoFresh, MoInHand
  <1>7. MoNamed(ds)'
    <2>1. MoRead(ds, collection)' /\ \A c : MoRead(ds, c) => MoRead(ds, c)'
      BY <1>1 DEF MoRead, MoInHand
    <2>2. ASSUME NEW e \in batch.elements
          PROVE  (e.name = <<Mongo[ds].Databases[at]>> \/ \E c \in Mongo[ds].Collection : MoRead(ds, c) /\ (e.name = Mo(ds)!Name(c) \/ \E i \in c.indexes : e.name = Mo(ds)!IndexName(c, i)))'
      BY <1>1, <2>1 DEF MoNamed, MoFresh, MoInHand
    <2>3. ASSUME NEW i \in collection.indexes
          PROVE  Mo(ds)!Bare(Mo(ds)!IndexName(collection, i)).name = Mo(ds)!IndexName(collection, i)
      BY DEF Mo!Bare
    <2> QED
      BY <1>1, <1>3, <2>1, <2>2, <2>3 DEF MoNamed
  <1>8. MoOrder(ds)' /\ Mo(ds)!ShippedInOrder'
    BY <1>1, NamesDiffer DEF MoOrder, Mo!ShippedInOrder, MoFresh, MoInHand
  <1>9. MoSmalls(ds)'
    <2> SUFFICES ASSUME NEW c \in steady, NEW e \in batch'.elements PROVE MoWhole(ds, c, e)'
      BY <1>1 DEF MoSmalls, MoInHand
    <2>1. CASE e \in batch.elements
      BY <1>1, <2>1 DEF MoSmalls, MoWhole, MoColumnsWhole, MoRefers, MoFresh, MoInHand
    <2>2. CASE e = element
      <3>1. e.name = Mo(ds)!Name(c) => c = collection
        BY <1>1, <2>2 DEF Mo!TypeOK, Mo!Parameters, Mo!Name
      <3> QED
        <4> SUFFICES ASSUME c = collection, Mo(ds)!Cardinality(collection.docs) <= Mongo[ds].Sample
                     PROVE  /\ MoColumnsWhole(ds, collection, element)'
                            /\ <<collection.db, collection.name, "references">> \notin excused' =>
                                  \A x \in Mo(ds)!References(collection.docs) : MoRefers(ds, collection, element, x)'
          BY <1>1, <2>2, <3>1 DEF MoWhole
        <4>1. MoColumnsWhole(ds, collection, element)'
          BY <1>1 DEF MoSmalls, MoColumnsWhole, MoInHand
        <4>2. <<collection.db, collection.name, "references">> \notin excused' =>
                 \A x \in Mo(ds)!References(collection.docs) : MoRefers(ds, collection, element, x)'
          BY <1>1 DEF MoSmalls, MoRefers, MoInHand
        <4> QED
          BY <4>1, <4>2
    <2>3. CASE \E i \in collection.indexes : e = Mo(ds)!Bare(Mo(ds)!IndexName(collection, i))
      <3>1. PICK i \in collection.indexes : e = Mo(ds)!Bare(Mo(ds)!IndexName(collection, i))
        BY <2>3
      <3>2. e.name # Mo(ds)!Name(c)
        BY <3>1, NamesDiffer DEF Mo!Bare, Mo!Name, Mo!IndexName
      <3> QED
        BY <3>2 DEF MoWhole
    <2> QED
      BY <1>3, <2>1, <2>2, <2>3
  <1>10. MoTrueRefs(ds)'
    <2> SUFFICES ASSUME NEW e \in batch'.elements PROVE MoTrue(ds, e)'
      BY <1>1 DEF MoTrueRefs, MoInHand
    <2>1. CASE e \in batch.elements \/ e = element
      BY <1>1, <2>1 DEF MoTrueRefs, MoTrue, MoInHand
    <2>2. CASE \E i \in collection.indexes : e = Mo(ds)!Bare(Mo(ds)!IndexName(collection, i))
      BY <2>2 DEF MoTrue, Mo!Bare
    <2> QED
      BY <1>3, <2>1, <2>2
  <1> QED
    BY <1>1, <1>5, <1>6, <1>7, <1>8, <1>9, <1>10, MoSentKept

LEMMA MoShipIInv == ASSUME NEW ds, Mo(ds)!Parameters, MoIInv(ds), Mo(ds)!Ship PROVE MoIInv(ds)'
  <1> USE DEF MoIInv
  <1>1. /\ pc = "collection" /\ collections = {} /\ pc' = "database"
        /\ mongoSent' = Append(mongoSent, Mo(ds)!Batch(Mongo[ds].Databases[at]))
        /\ UNCHANGED <<live, changes, at, collections, collection, element, fields, batch,
                       failures, steady, excused>>
    BY DEF Mo!Ship
  <1> DEFINE S == {mongoSent[i] : i \in DOMAIN mongoSent}
             b == Mo(ds)!Batch(Mongo[ds].Databases[at])
  <1>2. /\ mongoSent' \in Seq(S \union {b}) /\ Len(mongoSent') = Len(mongoSent) + 1 /\ Len(mongoSent) \in Nat
        /\ DOMAIN mongoSent' = 1..(Len(mongoSent) + 1) /\ DOMAIN mongoSent = 1..Len(mongoSent)
        /\ \A i \in 1..Len(mongoSent) : mongoSent'[i] = mongoSent[i]
        /\ mongoSent'[Len(mongoSent) + 1] = b
    BY <1>1, AppendIs DEF MoControl
  <1>3. b.of = Mongo[ds].Databases[at] /\ b.elements = batch.elements
    BY DEF Mo!Batch
  <1> HIDE DEF b
  <1>4. mongoSent' \in Seq({mongoSent'[i] : i \in DOMAIN mongoSent'})
    <2>1. S \union {b} = {mongoSent'[i] : i \in DOMAIN mongoSent'}
      BY <1>2
    <2> QED
      BY <1>2, <2>1
  <1>5. Len(mongoSent) = at - 1 /\ at \in 1..Len(Mongo[ds].Databases)
    BY <1>1 DEF MoOrder, MoControl, MoFresh
  <1>6. \A i \in DOMAIN mongoSent' : (i \in DOMAIN mongoSent /\ mongoSent'[i] = mongoSent[i]) \/ (i = at /\ mongoSent'[i] = b)
    <2>1. Len(mongoSent) + 1 = at /\ \A i \in 1..(Len(mongoSent) + 1) : i \in 1..Len(mongoSent) \/ i = Len(mongoSent) + 1
      BY <1>2, <1>5 DEF Mo!Parameters
    <2> QED
      BY <1>2, <2>1
  <1>7. Mo(ds)!TypeOK' /\ MoNamed(ds)'
    BY <1>1 DEF Mo!TypeOK, MoNamed, MoFresh, MoInHand
  <1>14. MoControl(ds)'
    <2>1. ~MoFresh(ds)' /\ ~MoInHand(ds)' /\ collections' = {}
      BY <1>1 DEF MoFresh, MoInHand
    <2> QED
      BY <1>4, <2>1 DEF MoControl
  <1>8. MoOrder(ds)'
    <2>1. Len(mongoSent') = at
      BY <1>2, <1>5 DEF Mo!Parameters
    <2> QED
      BY <1>1, <2>1 DEF MoOrder, MoFresh, MoInHand
  <1>9. Mo(ds)!ShippedInOrder'
    BY <1>1, <1>3, <1>6 DEF Mo!ShippedInOrder
  <1>10. MoSmalls(ds)' /\ MoTrueRefs(ds)'
    BY <1>1 DEF MoSmalls, MoFresh, MoInHand, MoTrueRefs, MoTrue
  <1>11. \A e \in Mo(ds)!Elements' : e \in Mo(ds)!Elements \/ e \in batch.elements
    BY <1>3, <1>6 DEF Mo!Elements
  <1>12. Mo(ds)!SmallOnesWhole'
    <2> SUFFICES ASSUME NEW c \in steady, NEW e \in Mo(ds)!Elements' PROVE MoWhole(ds, c, e)
      BY <1>1 DEF Mo!SmallOnesWhole, MoWhole, MoColumnsWhole, MoRefers
    <2>1. CASE e \in Mo(ds)!Elements
      BY <2>1 DEF Mo!SmallOnesWhole, MoWhole, MoColumnsWhole, MoRefers
    <2>2. CASE e \in batch.elements
      BY <1>1, <2>2 DEF MoSmalls, MoFresh
    <2> QED
      BY <1>11, <2>1, <2>2
  <1>13. Mo(ds)!ReferencesTrue'
    BY <1>1, <1>11 DEF Mo!ReferencesTrue, MoTrueRefs, MoTrue
  <1> QED
    BY <1>7, <1>8, <1>9, <1>10, <1>12, <1>13, <1>14

LEMMA MoStepIInv == ASSUME NEW ds, Mo(ds)!Parameters, MoIInv(ds), Mo(ds)!Next PROVE MoIInv(ds)'
  BY MoChangeIInv, MoTickIInv, MoDoneIInv, MoListCollectionsIInv, MoReadCollectionIInv,
     MoReadColumnsIInv,
     MoSampleConstraintsIInv, MoGuessReferenceIInv, MoAddCollectionIInv, MoShipIInv DEF Mo!Next, Mo!Crawl
-----------------------------------------------------------------------------
(* The three together: one of them runs, and its data source is its own.   *)
IInv ==
    /\ \A e \in DOMAIN Postgres : engine = e => PgIInv(e)
    /\ \A e \in DOMAIN Maria : engine = e => MaIInv(e)
    /\ \A e \in DOMAIN Mongo : engine = e => MoIInv(e)

LEMMA PgSame ==
    ASSUME NEW ds, PgIInv(ds), UNCHANGED vars
    PROVE  PgIInv(ds)'
  <1>1. UNCHANGED <<live, changes, failures, pc, batch, steady, excused, tables, table, indexes,
                    schemas, schema, keys, unread, views, pgSent>>
    BY DEF vars, crawler, ofPostgres
  <1>2. Pg(ds)!TypeOK'
    BY <1>1 DEF PgIInv, Pg!TypeOK, Pg!Closed, Pg!Needs
  <1>3. PgControl(ds)'
    BY <1>1 DEF PgIInv, PgControl, PgCrawling, PgReading, Pg!LastSent, Pg!IndexesOf
  <1>4. PgKept(ds)' /\ PgSettled(ds)'
    BY <1>1 DEF PgIInv, PgKept, PgSettled, PgCrawling, PgReading, Pg!LastSent, Pg!Shaky, Pg!Visible, Pg!Of
  <1>5. PgKeysKept(ds)' /\ PgBatchesResolved(ds)'
    BY <1>1 DEF PgIInv, PgKeysKept, PgKeyed, PgKeysOf, PgShown, PgBatchesResolved, PgResolved, PgLeads,
       PgCrawling, PgReading, Pg!LastSent
  <1>6. Pg(ds)!CarriedOn' /\ Pg(ds)!KeysShown' /\ Pg(ds)!RelationsResolved'
    BY <1>1 DEF PgIInv, Pg!CarriedOn, Pg!KeysShown, Pg!RelationsResolved, Pg!LastSent, Pg!Shaky,
       Pg!Visible, Pg!Of
  <1> QED
    BY <1>2, <1>3, <1>4, <1>5, <1>6 DEF PgIInv

LEMMA MaSame ==
    ASSUME NEW ds, MaIInv(ds), UNCHANGED vars
    PROVE  MaIInv(ds)'
  <1>1. UNCHANGED <<live, changes, failures, pc, batch, steady, excused, tables, table, indexes,
                    names, mariaSent>>
    BY DEF vars, crawler, ofMaria
  <1>2. Ma(ds)!TypeOK' /\ MaControl(ds)' /\ MaTrueKeys(ds)'
    BY <1>1 DEF MaIInv, Ma!TypeOK, MaControl, MaTrueKeys, MaKeyOf
  <1>3. MaKept(ds)' /\ MaIndexesKept(ds)' /\ MaKeysKept(ds)'
    BY <1>1 DEF MaIInv, MaKept, MaIndexesKept, MaKeysKept, MaReading, MaCrawling, MaInBatch,
       MaIndexShown, MaAsked, MaKeyShown
  <1>4. Ma(ds)!FailureIsLocal' /\ Ma(ds)!KeysShown' /\ Ma(ds)!KeysTrue'
    BY <1>1 DEF MaIInv, Ma!FailureIsLocal, Ma!KeysShown, Ma!KeysTrue
  <1> QED
    BY <1>2, <1>3, <1>4 DEF MaIInv

LEMMA MoSame ==
    ASSUME NEW ds, MoIInv(ds), UNCHANGED vars
    PROVE  MoIInv(ds)'
  <1>1. UNCHANGED <<live, changes, failures, pc, batch, steady, excused, at, collections, collection,
                    element, fields, mongoSent>>
    BY DEF vars, crawler, ofMongo
  <1>2. Mo(ds)!TypeOK' /\ MoControl(ds)'
    BY <1>1 DEF MoIInv, Mo!TypeOK, MoControl, MoFresh, MoInHand
  <1>3. MoNamed(ds)' /\ MoOrder(ds)' /\ MoSmalls(ds)' /\ MoTrueRefs(ds)'
    BY <1>1 DEF MoIInv, MoNamed, MoRead, MoOrder, MoSmalls, MoWhole, MoColumnsWhole, MoRefers, MoTrueRefs,
       MoTrue, MoFresh, MoInHand
  <1>4. Mo(ds)!ShippedInOrder' /\ Mo(ds)!SmallOnesWhole' /\ Mo(ds)!ReferencesTrue'
    BY <1>1 DEF MoIInv, Mo!ShippedInOrder, Mo!SmallOnesWhole, Mo!ReferencesTrue, Mo!Elements
  <1> QED
    BY <1>2, <1>3, <1>4 DEF MoIInv

LEMMA InitIInv == ASSUME Init PROVE IInv
  BY DatabasesAssumption, PgInitIInv, MaInitIInv, MoInitIInv DEF Init, IInv

LEMMA NextIInv == ASSUME IInv, Next PROVE IInv'
  <1>1. CASE \E e \in DOMAIN Postgres : engine = e /\ Pg(e)!Next /\ engine' = engine
    BY <1>1, DatabasesAssumption, PgStepIInv DEF IInv
  <1>2. CASE \E e \in DOMAIN Maria : engine = e /\ Ma(e)!Next /\ engine' = engine
    BY <1>2, DatabasesAssumption, MaStepIInv DEF IInv
  <1>3. CASE \E e \in DOMAIN Mongo : engine = e /\ Mo(e)!Next /\ engine' = engine
    BY <1>3, DatabasesAssumption, MoStepIInv DEF IInv
  <1> QED
    BY <1>1, <1>2, <1>3 DEF Next, Crawl, Change, OnlyPostgres, OnlyMaria, OnlyMongo,
       Pg!Next, Ma!Next, Mo!Next

LEMMA Invariant == Spec => []IInv
  <1>1. ASSUME IInv, UNCHANGED vars PROVE IInv'
    BY <1>1, PgSame, MaSame, MoSame DEF IInv, vars
  <1> QED
    BY <1>1, InitIInv, NextIInv, PTL DEF Spec

(* Whatever fails, a batch has what it must have.  PostgreSQL's carries on *)
(* what the schemas before it gave; MariaDB's lacks only tables whose own  *)
(* query failed; MongoDB ships a batch for each database up to one that    *)
(* cannot be listed, and collections no larger than a sample are whole.    *)
THEOREM BatchesAreComplete == Spec => []BatchesComplete
  <1>1. IInv => BatchesComplete
    BY DEF IInv, PgIInv, MaIInv, MoIInv, BatchesComplete
  <1> QED
    BY <1>1, Invariant, PTL

(* The foreign keys of PostgreSQL's and MariaDB's tables that were there   *)
(* all the time are relations of a batch that shows the table, unless the  *)
(* query for them failed.                                                  *)
THEOREM KeysAreShown == Spec => []KeysShown
  <1>1. IInv => KeysShown
    BY DEF IInv, PgIInv, MaIInv, KeysShown
  <1> QED
    BY <1>1, Invariant, PTL

(* No relation is made up: PostgreSQL's lead to elements, MariaDB's are    *)
(* foreign keys, MongoDB's references lead to collections of the database. *)
THEOREM RelationsAreTrue == Spec => []RelationsTrue
  <1>1. IInv => RelationsTrue
    BY DEF IInv, PgIInv, MaIInv, MoIInv, RelationsTrue
  <1> QED
    BY <1>1, Invariant, PTL
=============================================================================
