SPECIFICATION FairSpec
CONSTANTS
  Process = {a, b}
  Task = {t1, t2}
  MaxTime = 1
  NoDue = NoDue
  Batch = 1
  Unreadable = {t2}
  MaxStops = 1
  CoreMayFail = TRUE
  NoEdit = NoEdit
INVARIANTS
  OneClaimant
PROPERTIES
  ImplementsDueAnnouncement
  BacklogDrains
CHECK_DEADLOCK FALSE
