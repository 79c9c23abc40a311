SPECIFICATION FairSpec
CONSTANTS
  Paths <- MCPaths
  Selectors <- MCSelectors
  MaxScans = 1
  MaxEdits = 1
INVARIANTS
  HealthyMeansRetrieved
PROPERTIES
  CommandEnds
