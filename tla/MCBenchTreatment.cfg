SPECIFICATION Spec
CONSTANTS
  KillsTree = FALSE
  HelpersHold = FALSE
  Campaigns <- MCCampaigns
  Repeat = 1
  SkipPreflight = FALSE
  Files = {"gold", "new"}
  Source = {"gold"}
  Links = {}
  Excluded = {".kawn"}
  TestOutput = {"new"}
  MaxFailures = 1
  MaxEdits = 1
INVARIANTS
  TreatmentHasGraph
