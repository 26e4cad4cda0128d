SPECIFICATION Spec
CONSTANTS
  Client = {a, b}
  NumRows = 3
  RowKey <- FileKeys
  RowExtra <- FileExtra
  k1 = k1
  k2 = k2
  blank = blank
  v1 = v1
  s1 = s1
  Key = {k1, k2}
  Blank = blank
  UserRecord = {u1}
  UserCells <- UserContent
  Slug = {s1}
  NoSlug = NoSlug
  Request <- FourRequests
  FanoutLimit = 1
  TypedCells <- OneTyped
  MaxEdits = 2
  NoJob = NoJob
  NoPreview = NoPreview
  NoResult = NoResult
SYMMETRY ClientSymmetry
INVARIANTS
  TypeOK
  RowsLandOnce
  PreviewIsCurrent
  FanoutCapped
  DuplicatesComeFromTheFile
PROPERTY OutcomeOnlyEmptied
CHECK_DEADLOCK FALSE
