CONSTANTS
  Members = {m1, m2}
  Accounts = {a1}
  Bills = {b1}
  Amounts = {x1}
  MaxDay = 0
  Drafts = {d1, d2}
  Keys = {k1, k2}
  RowIds = {1, 2}
  Tags = {1, 2}
  NoOne = NoOne
  NoKey = NoKey
  NoBill = NoBill
  NoAmount = NoAmount
  NoDraft = NoDraft
  NoTag = NoTag
  WithLegacy = TRUE
  WithWebForm = TRUE
  MayEdit = FALSE
SPECIFICATION Spec
SYMMETRY Symmetry
INVARIANTS OnePaymentPerDraft ReleasedStaysUnpaid WritesAreRecoverable
PROPERTIES KeepsPromise
