CONSTANTS
  Members = {m1}
  Accounts = {a1}
  Bills = {b1}
  Amounts = {x1, x2}
  MaxDay = 1
  Drafts = {d1, d2}
  Keys = {k1, k2}
  RowIds = {1, 2}
  Tags = {1, 2}
  NoOne = NoOne
  NoKey = NoKey
  NoBill = NoBill
  NoAmount = NoAmount
  NoDraft = NoDraft
  NoTag = NoTag
  WithLegacy = FALSE
  WithWebForm = FALSE
  MayEdit = TRUE
SPECIFICATION Spec
SYMMETRY Symmetry
INVARIANTS TypeOK EditableMeansUnpaid
PROPERTIES ReportsOnlyRecorded UncertaintyRetained
