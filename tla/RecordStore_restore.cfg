SPECIFICATION Spec
CONSTANTS
  p1 = p1
  c1 = c1
  c2 = c2
  k1 = k1
  person = person
  company = company
  RecordId <- TwoRecordId
  ObjectOf <- ObjectOfId
  SourceObject = person
  TargetObject = company
  KeyObject = company
  RelationMultiple = TRUE
  KeyValue = {k1}
  NoKey = NoKey
  List = {}
  ListObject <- ListObjectOf
  Note = {}
INVARIANT LiveUnique
CHECK_DEADLOCK FALSE
