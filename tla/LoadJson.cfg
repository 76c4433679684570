SPECIFICATION FairSpec
CONSTANTS
  FileCount = 2
  Infos <- ThreeInfos
  Parallelisms <- OneOrTwo
  Now = 5
  RecordRun = TRUE
  HasInflux = TRUE
  HasMySQL = TRUE
INVARIANTS
  RunTimesExact
  ResultsComplete
  SummariesExact
PROPERTIES
  LoadEnds
  ImplementsPool
