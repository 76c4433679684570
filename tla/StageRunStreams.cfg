SPECIFICATION Spec
CONSTANTS
  NoStage = NoStage
  Stages <- ChainStages
  MainStage = "s1"
  NextStages <- ChainNext
  AbortSetting <- AbortAtTop
  StreamCount <- TwoInS1
  QueryRuns <- TwoInS1
  StageScripts = {}
  ScriptMayNotStart = {}
  ScriptMayFail = {}
  ExpandMayFail = {}
  UnreadableFile = {"s2"}
  RandomUntil <- Usable
  QueryMayFail = {"s1"}
  SaveOutput = {"s1"}
  SaveJson = {"s2"}
  ResultCapacity = 1
  MaxSignals = 2
INVARIANTS
  WaitGroupCountsGoroutines
  NothingOutlivesWait
  EveryResultRecorded
  ExitCodeTellsFailure
  NoCrash
