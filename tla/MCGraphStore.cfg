SPECIFICATION Spec
CONSTANTS
  Files = {f1}
  Tracked = {f1}
  Contents = {a}
  Absent = Absent
  Commits = {c1, c2}
  NoCommit = NoCommit
  NoHead = NoHead
  BadHead = BadHead
  Scanners = {s1, s2}
  Schemas = {1}
  MaxClock = 1
  GitMayFail = FALSE
  Tampering = {"graph", "manifest", "all"}
  Missing = Missing
  Torn = Torn
  Edited = Edited
  Nothing = Nothing
SYMMETRY Symmetry
INVARIANTS
  TypeOK
  CalmScanIsFaithful
  LoneScanHeals
