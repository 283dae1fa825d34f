CONSTANTS
  Connectors = {"TRINO", "DEMO", "HYPER_GRPC", "SALESFORCE_DATA_CLOUD"}
  MaxQueries = 2
  MaxBatches = 2
  MaxFetches = 2
  MaxResets = 1
  MaxUpdates = 2
SPECIFICATION FairSpec
INVARIANTS
  TypeOK
  QueriesAreListed
  ExecutorsMatchStates
  ResultsAreComplete
  OneUpdateAtATime
PROPERTIES
  ListIsUpdated
  WorkEnds
CHECK_DEADLOCK FALSE
