SPECIFICATION MCSpec
CONSTANTS
  o1 = o1
  r1 = r1
  r2 = r2
  Client = {c1, c2}
  Object = {o1}
  Rec = {r1, r2}
  ObjectOf <- Of
  Name = {1, 2}
  StageId = {1, 2}
  None = None
  MaxWrites = 2
SYMMETRY Symmetry
INVARIANTS
  ConsumersKeepUp
  
CHECK_DEADLOCK FALSE
