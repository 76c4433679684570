SPECIFICATION Spec
CONSTANTS
  Texts <- MCTexts
  MaxToken = 6
  Paths <- MCPaths
  ReadDir <- MCReadDir
  Arguments <- MCArguments
  Contents <- MCContents
  RoundFiles <- MCRoundFiles
  ConfigDirs <- MCConfigDirs
  Inside <- MCInside
  Templates <- MCTemplates
  OtherFiles = {"other"}
  ParameterCount = 2
INVARIANTS
  SplitExact
  GraphExact
  NoRowsLost
  OutputsExact
CHECK_DEADLOCK FALSE
