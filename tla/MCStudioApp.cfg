SPECIFICATION FairSpec
CONSTANTS
  Tasks <- MCTasks
  Length <- MCLength
  Ports <- MCPorts
  Reports <- MCReports
  Strict = FALSE
  RecentMax = 2
  RecentShown = 2
  MaxScans = 2
  MaxAsks = 2
  MaxLoads = 2
INVARIANTS
  SpinnerMeansWork
  NothingStale
PROPERTIES
  LatestWins
  StudioSettles
