SPECIFICATION Spec
CONSTANTS
  r1 = r1 r2 = r2 oa = oa ob = ob oc = oc od = od la = la lb = lb lc = lc ld = ld
  Row = {r1}
  OptionId = {oa, ob, oc, od}
  Label = {la, lb, lc, ld}
  Clear = Clear
  NoOption = NoOption
  DerivedId <- DerivedIds
  FirstConfig <- ThreeOptions
  Request <- Bodies
  MaxHeld = 2
  Page = 1
  MaxMigration = 2
  MaxPatches = 2
  MaxEdits = 1
  Patcher = {p1, p2}
INVARIANTS
  AnsweredMeansMoved
  MovedOnce
CHECK_DEADLOCK FALSE
