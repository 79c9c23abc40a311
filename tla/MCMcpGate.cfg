SPECIFICATION McpFairSpec
CONSTANTS
  Files = {f1}
  Tracked = {f1}
  Contents = {a}
  Absent = Absent
  Commits = {c1}
  NoCommit = NoCommit
  NoHead = NoHead
  BadHead = BadHead
  Scanners = {s1}
  Schemas = {1, 2}
  MaxClock = 0
  GitMayFail = TRUE
  Tampering = {}
  Missing = Missing
  Torn = Torn
  Edited = Edited
  Nothing = Nothing
  Supported = 1
  TTL = 2
INVARIANTS
  McpTypeOK
  FreshIsSound
  GateIsTightAtRest
  VerdictIsYoung
PROPERTIES
  WarningsClear
