SPECIFICATION FairSpec
CONSTANTS
  r1 = r1 r2 = r2 oa = oa ob = ob oc = oc od = od la = la lb = lb lc = lc ld = ld
  Row = {r1, r2}
  OptionId = {oa, ob, oc, od}
  Label = {la, lb, lc, ld}
  Clear = Clear
  NoOption = NoOption
  DerivedId <- DerivedIds
  FirstConfig <- ThreeOptions
  Request <- Bodies
  MaxHeld = 1
  Page = 1
  MaxMigration = 2
  MaxPatches = 1
  MaxEdits = 2
  Patcher = {p1}
INVARIANTS
  TypeOK
  AnsweredMeansMoved
  MovedOnce
PROPERTIES
  PatchEnds
CHECK_DEADLOCK FALSE
