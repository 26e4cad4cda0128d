SPECIFICATION MCSpec
CONSTANTS
  std = std
  cus = cus
  fName = fName
  fStage = fStage
  f1 = f1
  f2 = f2
  vAll = vAll
  vBoard = vBoard
  v1 = v1
  v2 = v2
  Client = {c1, c2}
  ObjectId <- Objects
  FieldId <- Fields
  ViewId <- Views
  ListId = {l1}
  RecordId = {r1}
  Slug <- SlugSet
  NameSlug = "name"
  Standard = {std}
  SeedField <- Seeds
  SeedView <- SeedViews
  TitleOfSeed <- Titles
  MaxPosition = 3
  Position <- Positions
  None = None
  Raw = Raw
  Null = Null
  MAX_SORTS = 2
  Deal = {1, 2}
  Option = {1, 2}
  Closed = {2}
  Amount = {5}
  MaxMoves = 2
  Filters <- BoardFilters
  Sorts <- BoardSorts
  PageSize = 1
  Multi <- Tags
  AskedRow <- Rows4
  AskedEntry <- Entries
  AskedCondition <- Conditions
  Combined <- Few
  MaxNodes = 5
SYMMETRY Symmetric
INVARIANTS NoOrphans OneDefault TitleIsAField NoGhostValues EveryRowOnceUnmoved FunnelCoversBoard FilterMeans
