SPECIFICATION FairSpec
CONSTANTS
  TableCount = 3
  ColumnKinds <- Kinds
  Parallelisms <- OneOrTwo
  Servers <- AllServers
  FromFile = TRUE
INVARIANTS
  NameSearchBounded
  TablesSettled
PROPERTIES
  SaveEnds
  ImplementsPool
