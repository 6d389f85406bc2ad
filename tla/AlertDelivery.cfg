CONSTANTS
  MaxInputs = 3
  MaxFaults = 1
  StreamCapacity = 2
  Severities = {"BEHAVIOR_ALERT"}
  QueueCapacity = 2
  MaxBatch = 2
  InitialBackoff = 1
  BackoffCap = 2
  Deployments <- MCDeployments
SPECIFICATION FairSpec
INVARIANTS
  TypeOK
  Accounted
  LoggedInOrder
  NothingSkipped
PROPERTIES
  HopsAreLossyChannels
  RecordsSettle
CHECK_DEADLOCK FALSE
