SPECIFICATION MCSpec
CONSTANTS
  OldKey = {o1}
  NewKey = {n1, n2}
  OperatorKey = {e1}
  NoKey = NoKey
  Bad = Bad
  Host = {core, sat}
  Core = core
  Admin = admin
  MaxRetired = 2
  AllowFile = TRUE
  MaxTurns = 2
  g1 = g1
  CoreKey = {g1, g2}
  RootKey = {s1}
  MasterKey = m
  NoSubkey = NoSubkey
  NumItems = 2
  NumRows <- Rows
  BatchSize = 1
  NumKeys = 2
  MaxRecords = 4
  Absent = Absent
SYMMETRY Symmetry
INVARIANTS
  KeysSurvive
  OldValuesOpen
  UnderTheRecordedKey
  RefusalIsForced
  ServedSealed
  SealedOpens
  ScrubStaysOwed
  StandaloneKeyKept
  LogReadsBack
PROPERTY ImplementsDurableLog
CHECK_DEADLOCK FALSE
