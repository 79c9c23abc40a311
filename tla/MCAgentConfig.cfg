SPECIFICATION Spec
CONSTANTS
  r1 = r1
  bare = bare
  Agents = {merged, owned}
  Owned = {owned}
  Launches = {v1, v2}
  Rests = {bare, r1}
  Bare = bare
  UserFiles <- MCUserFiles
  Procs = {p1, p2}
  MaxCommands = 3
  MaxEdits = 1
  None = None
  Foreign = Foreign
  Unmanaged = Unmanaged
  Absent = Absent
  Garbled = Garbled
  Alien = Alien
  NoRecord = NoRecord
  NoTrip = NoTrip
SYMMETRY Symmetry
INVARIANTS
  DisconnectClean
  RoundTrip
PROPERTIES
  UserPartsKept
  WritesReversible
CHECK_DEADLOCK FALSE
