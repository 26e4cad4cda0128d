SPECIFICATION Spec
CONSTANTS
  p1 = p1
  c1 = c1
  c2 = c2
  k1 = k1
  person = person
  company = company
  RecordId <- LinkRecordId
  ObjectOf <- ObjectOfId
  SourceObject = person
  TargetObject = company
  KeyObject = company
  RelationMultiple = TRUE
  KeyValue = {k1}
  NoKey = NoKey
  List = {l1}
  ListObject <- ListObjectOf
  Note = {n1}
SYMMETRY PairSymmetry
INVARIANTS
  TypeOK
  NothingLeftBehind
  IndexMatchesBag
  UniqueUnlessBypassed
  DriftExplained
PROPERTY NoteOutlivesItsRecord
CHECK_DEADLOCK FALSE
