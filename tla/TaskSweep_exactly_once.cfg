SPECIFICATION FairSpec
CONSTANTS
  Process = {a, b}
  Task = {t1}
  MaxTime = 1
  NoDue = NoDue
  Batch = 1
  Unreadable = {}
  MaxStops = 1
  CoreMayFail = FALSE
  NoEdit = NoEdit
PROPERTY AnnouncedExactlyOnce
CHECK_DEADLOCK FALSE
