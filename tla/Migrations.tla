----------------------------- MODULE Migrations -----------------------------
(***************************************************************************)
(* store.Migrate (internal/storage/sqlstore): several processes start on   *)
(* one database, left by any release, and bring its schema up to date, one *)
(* transaction per migration.  Whether a migration is applied is read      *)
(* outside of that transaction.                                            *)
(*                                                                         *)
(* The schema is the number of the last migration it has: each of the four *)
(* creates, drops or alters things so that it works only on the schema of  *)
(* the one before and fails on its own.                                    *)
(***************************************************************************)
EXTENDS Naturals

CONSTANTS Process,
          Last,         \* version of the last migration (4)
          MaxStops      \* bound on errors and crashes

Version == 1..Last

VARIABLES schema,             \* of the database, as committed
          schema_migrations,  \* versions recorded, as committed
          pc, at,             \* of each process: where it is, at which version
          stops

database == <<schema, schema_migrations>>
vars == <<database, pc, at, stops>>

(* Transactions that have changed the schema: the next one to do so waits  *)
(* (PostgreSQL) or fails (SQLite) until they end.                          *)
Changing == {p \in Process : pc[p] \in {"record", "commit"}}

Go(p, step) == pc' = [pc EXCEPT ![p] = step]
Proceed(p) ==
    /\ at' = [at EXCEPT ![p] = @ + 1]
    /\ Go(p, "check")
-----------------------------------------------------------------------------
Init ==
    /\ schema \in 0..Last
    /\ schema_migrations = 1..schema
    /\ pc = [p \in Process |-> "down"]
    /\ at = [p \in Process |-> 1]
    /\ stops = 0

(* main starts: Migrate, up to CREATE TABLE IF NOT EXISTS.                 *)
Start(p) ==
    /\ pc[p] = "down"
    /\ Go(p, "check")
    /\ at' = [at EXCEPT ![p] = 1]
    /\ UNCHANGED <<database, stops>>

Applied(p) ==
    /\ pc[p] = "check" /\ at[p] \in schema_migrations
    /\ Proceed(p)
    /\ UNCHANGED <<database, stops>>

NotApplied(p) ==
    /\ pc[p] = "check" /\ at[p] \in Version \ schema_migrations
    /\ Go(p, "apply")
    /\ UNCHANGED <<database, at, stops>>

Return(p) ==
    /\ pc[p] = "check" /\ at[p] = Last + 1
    /\ Go(p, "ready")
    /\ UNCHANGED <<database, at, stops>>
-----------------------------------------------------------------------------
Apply(p) ==
    /\ pc[p] = "apply" /\ Changing = {}
    /\ schema = at[p] - 1
    /\ Go(p, "record")
    /\ UNCHANGED <<database, at, stops>>

(* Somebody else was faster: the table exists, the column is gone, or the  *)
(* version has its row.  Migrate returns the error and the program ends.   *)
Refused(p) ==
    /\ \/ pc[p] = "apply" /\ Changing = {} /\ schema # at[p] - 1
       \/ pc[p] = "record" /\ at[p] \in schema_migrations
    /\ Go(p, "down")
    /\ UNCHANGED <<database, at, stops>>

(* Mutant: the row is written outside of the transaction. *)
RecordOutside(p) ==
    /\ pc[p] = "record" /\ at[p] \notin schema_migrations
    /\ schema_migrations' = schema_migrations \union {at[p]}
    /\ Go(p, "commit")
    /\ UNCHANGED <<schema, at, stops>>

Record(p) ==
    /\ pc[p] = "record" /\ at[p] \notin schema_migrations
    /\ Go(p, "commit")
    /\ UNCHANGED <<database, at, stops>>

CommitTx(p) ==
    /\ pc[p] = "commit"
    /\ schema' = at[p]
    /\ schema_migrations' = schema_migrations \union {at[p]}

Commit(p) ==
    /\ CommitTx(p)
    /\ Proceed(p)
    /\ UNCHANGED stops

(* Mutant: the transaction of a migration that failed is committed. *)
StopCommitting(p) ==
    /\ pc[p] # "down" /\ stops < MaxStops
    /\ \/ UNCHANGED database
       \/ CommitTx(p)
       \/ pc[p] = "record" /\ schema' = at[p] /\ UNCHANGED schema_migrations
    /\ Go(p, "down")
    /\ stops' = stops + 1
    /\ UNCHANGED at

(* Mutant: a migration that failed is logged, and the next one tried. *)
StopSkipping(p) ==
    /\ pc[p] \in {"check", "apply", "record"} /\ at[p] \in Version /\ stops < MaxStops
    /\ Proceed(p)
    /\ stops' = stops + 1
    /\ UNCHANGED database

(* Any call fails or the process dies, and the transaction is rolled back; *)
(* during the commit it may have gone through.  A ready process may end.   *)
Stop(p) ==
    /\ pc[p] # "down" /\ stops < MaxStops
    /\ UNCHANGED database \/ CommitTx(p)
    /\ Go(p, "down")
    /\ stops' = stops + 1
    /\ UNCHANGED at
-----------------------------------------------------------------------------
Migrate(p) ==
    \/ Applied(p) \/ NotApplied(p) \/ Return(p)
    \/ Apply(p) \/ Refused(p) \/ Record(p) \/ Commit(p)

Next == \E p \in Process : Start(p) \/ Migrate(p) \/ Stop(p)

(* A program that ended is started again, and its calls return.            *)
Spec == Init /\ [][Next]_vars /\ \A p \in Process : SF_vars(Start(p) \/ Migrate(p))
-----------------------------------------------------------------------------
(* Every variable has its type; no migration past the last is applied.     *)
TypeOK ==
    /\ schema \in 0..Last
    /\ schema_migrations \subseteq Version
    /\ pc \in [Process -> {"down", "check", "apply", "record", "commit", "ready"}]
    /\ at \in [Process -> 1..(Last + 1)]
    /\ stops \in 0..MaxStops

(* The versions recorded are exactly those whose changes the schema has,   *)
(* whichever processes race and wherever they die.                         *)
RecordedAsApplied == schema_migrations = 1..schema

(* Migrate returns nil only when the schema is the one the queries expect. *)
ReadyMeansCurrent == \A p \in Process : pc[p] = "ready" => schema = Last

(* Races and crashes leave nothing behind that keeps the program from      *)
(* starting for good.                                                      *)
ReadyInTheEnd == \A p \in Process : <>[](pc[p] = "ready")
=============================================================================
