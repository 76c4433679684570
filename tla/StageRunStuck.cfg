SPECIFICATION HungServerSpec
CONSTANTS
  NoStage = NoStage
  Stages <- ForkStages
  MainStage = "s1"
  NextStages <- ForkNext
  AbortSetting <- AbortInS2
  StreamCount <- One
  QueryRuns <- NoQueryInS1
  StageScripts = {"s1", "s2"}
  ScriptMayNotStart = {"s2"}
  ScriptMayFail = {"s2"}
  ExpandMayFail = {"s3"}
  UnreadableFile = {"s2"}
  RandomUntil <- BadRandomBelowS1
  QueryMayFail = {"s2"}
  SaveOutput = {}
  SaveJson = {}
  ResultCapacity = 1
  MaxSignals = 1
INVARIANTS
  StuckOnlyBelowFailure
PROPERTIES
  AbortEndsRun
CHECK_DEADLOCK FALSE
