SPECIFICATION Spec
CONSTANTS
  Engines = {"postgres", "postgres_changing", "postgres_hidden", "maria", "maria_changing", "mongo", "mongo_changing"}
  Postgres <- MCPostgres
  Maria <- MCMaria
  Mongo <- MCMongo
INVARIANTS BatchesComplete KeysShown RelationsTrue
PROPERTY ShownInTheEnd
