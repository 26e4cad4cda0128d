SPECIFICATION Spec
CONSTANTS
  r1 = r1 r2 = r2 oa = oa ob = ob oc = oc od = od la = la lb = lb lc = lc ld = ld
  Row = {r1}
  OptionId = {oa, ob, oc, od}
  Label = {la, lb, lc, ld}
  Clear = Clear
  NoOption = NoOption
  DerivedId <- DerivedIds
  FirstConfig <- ThreeOptions
  Request <- Bodies
  MaxHeld = 2
  Page = 1
  MaxMigration = 2
  MaxPatches = 1
  MaxEdits = 0
  Patcher = {p1}
INVARIANTS
  NothingLeftOnADroppedOption
CHECK_DEADLOCK FALSE
