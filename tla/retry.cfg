CONSTANTS
  Members = {m1}
  Accounts = {a1}
  Bills = {b1}
  Amounts = {x1}
  MaxDay = 0
  Drafts = {d1}
  Keys = {k1}
  RowIds = {1, 2}
  Tags = {1, 2}
  NoOne = NoOne
  NoKey = NoKey
  NoBill = NoBill
  NoAmount = NoAmount
  NoDraft = NoDraft
  NoTag = NoTag
  WithLegacy = FALSE
  WithWebForm = FALSE
  MayEdit = FALSE
SPECIFICATION FairSpec
PROPERTIES ConfirmAgainConcludes
