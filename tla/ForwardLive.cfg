SPECIFICATION FairSpec
CONSTANTS
  Queries <- TwoQueries
  TargetCount = 1
  ExcludedQueries <- Q2
  DryRun = FALSE
  MaxRetry = 2
  SameTimeQueries = FALSE
PROPERTIES
  NewQueriesForwarded
  CanceledCopiesEnd
  SignalEndsRun
