CONSTANTS
  Tables = {"t"}
  Null = Null
  Garbage = Garbage
  Connectors = {"serverless", "trino"}
  Default = "serverless"
  Opened = {"serverless", "trino"}
  Examples <- MCExamples
  MultiRange = FALSE
  Typed <- MCTyped
  MaxText = 2
  MaxEdits = 1
  MaxActs = 2
  MaxWaiting = 2
SPECIFICATION FairSpec
INVARIANTS
  BuffersAreOwned
  EditorMirrorsScript
  AnalysesAreCurrent
  FocusIsDerived
PROPERTIES
  EditorSettles
CHECK_DEADLOCK FALSE
