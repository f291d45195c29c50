---------------------------- MODULE MCDatabases ----------------------------
(* Databases of each engine, in which either queries fail and nothing      *)
(* changes, or objects come and go while one query fails.                  *)
EXTENDS Databases
-----------------------------------------------------------------------------
(* PostgreSQL: two schemas, of which the search path has one, a foreign    *)
(* key between them, an index each and a materialized view; a second index *)
(* that only the other schema has.                                         *)
Obj(kind, s, n, of) == [kind |-> kind, schema |-> s, name |-> n, of |-> of]
PgUsers == Obj("table", "public", "users", {})
PgOrders == Obj("table", "sales", "orders", {})
PgName(t) == <<t.schema, t.name>>
PgKey == [kind |-> "key", schema |-> "sales", name |-> "fk",
          of |-> {PgName(PgOrders)}, to |-> PgName(PgUsers)]
PgIndexes == {Obj("index", "public", "pk", {PgName(PgUsers)}), Obj("index", "sales", "pk", {PgName(PgOrders)})}
PgHidden == {Obj("index", "sales", "pk2", {PgName(PgOrders)})}
PgObject == {Obj("schema", s, "", {}) : s \in {"public", "sales"}}
              \union {PgUsers, PgOrders, PgKey, Obj("view", "sales", "total", {})} \union PgIndexes

PgDatabase(objects, failures_, changes_) ==
    [Object |-> objects, Initially |-> objects, SearchPath |-> {"public"}, Upstream |-> {<<"host", "db">>},
     MaxFailures |-> failures_, MaxChanges |-> changes_]
MCPostgres ==
    [postgres |-> PgDatabase(PgObject, 2, 0), postgres_changing |-> PgDatabase(PgObject, 1, 2),
     postgres_hidden |-> PgDatabase(PgObject \union PgHidden, 0, 0)]

(* MariaDB: two tables with keys, one that only joins them, and a unique   *)
(* key with the name of a foreign key.                                     *)
TableOf(n, only, cs, is) == [name |-> n, primaryOnly |-> only, constraints |-> cs, indexes |-> is]
Constraint(n, to) == [name |-> n, to |-> to]
MaUsers == TableOf("users", FALSE, {Constraint("email", {})}, {"PRIMARY", "email"})
MaOrders == TableOf("orders", FALSE, {Constraint("fk_user", {"users"}), Constraint("fk_first", {"orders"})}, {"PRIMARY"})
MaJoins == TableOf("users_orders", TRUE, {Constraint("fk_u", {"users"}), Constraint("fk_o", {"orders"})}, {"PRIMARY"})
MaRoles == TableOf("roles", FALSE, {Constraint("fk_user", {})}, {})

MaDatabase(tables_, failures_, changes_) ==
    [Table |-> tables_, Initially |-> tables_, External |-> {<<"cloud", "sql">>},
     MaxFailures |-> failures_, MaxChanges |-> changes_]
MCMaria ==
    [maria |-> MaDatabase({MaUsers, MaOrders, MaJoins}, 2, 0),
     maria_changing |-> MaDatabase({MaUsers, MaOrders, MaRoles}, 1, 2)]

(* MongoDB: three databases; one collection refers to another and has a    *)
(* field of two types, one has more documents than a sample; the second    *)
(* database may never be listed while collections come and go.             *)
CollectionIn(db, n, ds, is) == [db |-> db, name |-> n, docs |-> ds, indexes |-> is]
Doc(x, type) == ("_id" :> "objectId") @@ (x :> type)
MoCollection ==
    {CollectionIn("a", "users", {Doc("name", "string")}, {"_id_"}),
     CollectionIn("a", "orders", {Doc("userId", "objectId") @@ ("total" :> "int64"), Doc("total", "string")}, {"_id_"}),
     CollectionIn("b", "logs", {Doc("userId", "objectId"), Doc("line", "string"), Doc("line", "array")}, {}),
     CollectionIn("c", "users", {}, {})}

MoServer(denied, failures_, changes_) ==
    [Databases |-> <<"a", "b", "c">>, Collection |-> MoCollection, Initially |-> MoCollection,
     Sample |-> 2, Guess |-> ("userId" :> "users"), Denied |-> denied,
     MaxFailures |-> failures_, MaxChanges |-> changes_]
MCMongo == [mongo |-> MoServer({}, 2, 0), mongo_changing |-> MoServer({"b"}, 1, 2)]
=============================================================================
