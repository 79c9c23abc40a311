SPECIFICATION PipelineSpec
CONSTANTS
  Offered <- MCOffered
  Repos <- MCRepos
  MaxBytes = 2
  MaxFaults = 2
  Foreign <- MCForeign
  NoFile = NoFile
  UrlSegment <- MCUrlSegment
  CodeLikeSymbols <- MCCodeLike
  CodeLikeTables <- MCCodeLikeTables
  TestNames <- MCTestNames
  None = None
INVARIANTS
  FailureCostsItsOwn
  MembershipIsDeepest
  WorkspaceImportsLinked
  CallsLinkAcrossFiles
CHECK_DEADLOCK FALSE
