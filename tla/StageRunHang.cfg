SPECIFICATION FairSpec
CONSTANTS
  NoStage = NoStage
  Stages <- ForkStages
  MainStage = "s1"
  NextStages <- ForkNext
  AbortSetting <- AllUnset
  StreamCount <- One
  QueryRuns <- NoQueryInS1
  StageScripts = {}
  ScriptMayNotStart = {}
  ScriptMayFail = {}
  ExpandMayFail = {"s3"}
  UnreadableFile = {}
  RandomUntil <- Usable
  QueryMayFail = {}
  SaveOutput = {}
  SaveJson = {}
  ResultCapacity = 1
  MaxSignals = 0
PROPERTIES
  RunEnds
CHECK_DEADLOCK FALSE
