SPECIFICATION PagesSpec
CONSTANTS
  GraphNodes <- MCNodes
  GraphEdges <- MCEdges
  LAYER_ORDER <- MCLayers
  Alphabet <- MCLayers
  MIN_PER_LAYER = 2
  NoCap = NoCap
  Searches = {"", "pay"}
  RenderLimit = 6
  Budget = 7
  MaxDepth = 2
  Focusable = {4, 10}
  Inputs <- MCInputs
  Large <- MCLarge
  NoInput = "none"
  MaxRequests = 2
INVARIANTS
  SampleIsFair
  LayoutFits
