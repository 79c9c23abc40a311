SPECIFICATION Spec
CONSTANTS
  Ids <- MCIds
  Info <- MCInfo
  NoNode = NoNode
  MaxFlow = 4
  PathOrder <- MCPathOrder
  Failed = Failed
  DataWords <- MCDataWords
  TestWords <- MCTestWords
  DocWords <- MCDocWords
  RankLimit = 5
  NoPath = NoPath
  Place <- MCPlace
  Malformed = Malformed
  Candidates <- MCCandidates
  Tasks <- MCTasks
  Budgets <- MCBudgets
  GitReports <- MCGitReports
INVARIANTS
  ReachIsExact
  FlowIsShortestWalk
  ImpactMissesNothing
  KeywordsDominate
  PackAccounts
  
CHECK_DEADLOCK FALSE
