CONSTANTS
  Connectors = {"demo", "hyper", "salesforce", "trino"}
  Links <- MCLinks
  MaxSetups = 2
  MaxLinks = 2
SPECIFICATION FairSpec
INVARIANTS
  OneSetupPerConnection
  OnlineIsChecked
  ConnectingIsDriven
  ErrorsAreCurrent
PROPERTIES
  AppIsDecided
  CancelledSetupsEnd
CHECK_DEADLOCK FALSE
