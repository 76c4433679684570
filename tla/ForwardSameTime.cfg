SPECIFICATION Spec
CONSTANTS
  Queries <- TwoQueries
  TargetCount = 1
  ExcludedQueries <- Q2
  DryRun = FALSE
  MaxRetry = 2
  SameTimeQueries = TRUE
INVARIANTS
  OldQueriesWereLookedAt
