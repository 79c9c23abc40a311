SPECIFICATION FairSpec
CONSTANTS
  KillsTree = FALSE
  HelpersHold = TRUE
  Campaigns <- MCCampaigns
  Repeat = 1
  SkipPreflight = FALSE
  Files = {"gold", "new", "linked"}
  Source = {"gold", "linked"}
  Links = {"linked"}
  Excluded = {".kawn"}
  TestOutput = {"new"}
  MaxFailures = 1
  MaxEdits = 1
INVARIANTS
  BoundaryIsAgentsOwn
  LittleIsLeft
PROPERTIES
  SessionsStartClean
  BenchmarkEnds
