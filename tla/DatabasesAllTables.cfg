SPECIFICATION Spec
CONSTANTS
  Engines = {"postgres_hidden"}
  Postgres <- MCPostgres
  Maria <- MCMaria
  Mongo <- MCMongo
INVARIANTS AllTablesRetrieved
