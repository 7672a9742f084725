CONSTANTS
  Members = {m1, m2}
  Accounts = {a1}
  Bills = {b1}
  Amounts = {x1}
  MaxDay = 0
  Drafts = {d1}
  Keys = {k1}
  RowIds = {1}
  Tags = {1}
  NoOne = NoOne
  NoKey = NoKey
  NoBill = NoBill
  NoAmount = NoAmount
  NoDraft = NoDraft
  NoTag = NoTag
  WithLegacy = FALSE
  WithWebForm = FALSE
  MayEdit = TRUE
SPECIFICATION Spec
PROPERTIES UncertaintyRetained
