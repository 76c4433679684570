SPECIFICATION Spec
CONSTANTS
  Queries <- TwoQueries
  TargetCount = 2
  ExcludedQueries <- Q2
  DryRun = FALSE
  MaxRetry = 2
  SameTimeQueries = FALSE
INVARIANTS
  PreexistingNotForwarded
  OldQueriesWereLookedAt
  RunningCopiesCanBeFound
  ExitLeavesNothing
PROPERTIES
  LookedAtOnce
