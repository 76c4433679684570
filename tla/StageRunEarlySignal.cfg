SPECIFICATION Spec
CONSTANTS
  NoStage = NoStage
  Stages <- ChainStages
  MainStage = "s1"
  NextStages <- ChainNext
  AbortSetting <- AllUnset
  StreamCount <- One
  QueryRuns <- NoQueryInS1
  StageScripts = {}
  ScriptMayNotStart = {}
  ScriptMayFail = {}
  ExpandMayFail = {}
  UnreadableFile = {}
  RandomUntil <- Usable
  QueryMayFail = {}
  SaveOutput = {}
  SaveJson = {}
  ResultCapacity = 1
  MaxSignals = 1
INVARIANTS
  NoCrash
