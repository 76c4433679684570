SPECIFICATION FairSpec
CONSTANTS
  NoStage = NoStage
  Stages <- DiamondStages
  MainStage = "s1"
  NextStages <- DiamondNext
  AbortSetting <- AbortAtTop
  StreamCount <- One
  QueryRuns <- NoQueryInS1
  StageScripts = {}
  ScriptMayNotStart = {}
  ScriptMayFail = {}
  ExpandMayFail = {}
  UnreadableFile = {}
  RandomUntil <- Usable
  QueryMayFail = {"s2", "s3"}
  SaveOutput = {}
  SaveJson = {"s2"}
  ResultCapacity = 1
  MaxSignals = 0
INVARIANTS
  TypeOK
  PrerequisitesFirst
  NoQueryBelowAbortedStage
PROPERTIES
  SettingsWrittenOnceBeforeStart
  RunEnds
  ImplementsBenchmarkRun
