CONSTANTS
  Members = {m1}
  Cards = {c1}
  Whats = {w1}
  Months = {1, 2}
  Categories = {g1, g2}
  Existing = {}
  Keys = {k1}
  Tags = {1, 2}
  Proposed = Proposed
  NoOne = NoOne
  NoKey = NoKey
  NoCard = NoCard
  NoWhat = NoWhat
  NoMonth = NoMonth
  NoCategory = NoCategory
  NoDraft = NoDraft
  NoTag = NoTag
  WithLegacy = FALSE
SPECIFICATION FairSpec
PROPERTIES ConfirmingAlwaysConcludes
