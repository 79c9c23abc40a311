SPECIFICATION Spec
CONSTANTS
  Names <- MCNames
  Legacy <- MCLegacy
  Migrators = {m1, m2}
  MaxScans = 2
  MaxStarts = 4
  Absent = Absent
  Torn = Torn
  Directory = Directory
  NoItem = NoItem
INVARIANTS
  PairIsTrue
  SuccessIsWhole
  NothingLost
PROPERTY
  TruncatesNothing
CHECK_DEADLOCK FALSE
