CONSTANTS
  Tables = {"t"}
  Null = Null
  Garbage = Garbage
  Connectors = {"serverless", "demo", "hyper", "salesforce", "trino"}
  Default = "trino"
  Opened = {"trino"}
  Examples <- MCExamples
  MultiRange = TRUE
  Typed <- MCTyped
  MaxText = 2
  MaxEdits = 3
  MaxActs = 0
  MaxWaiting = 3
SPECIFICATION Spec
INVARIANTS
  AllChangesAreMirrored
CHECK_DEADLOCK FALSE
