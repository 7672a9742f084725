CONSTANTS
  Members = {m1, m2}
  Cards = {c1}
  Whats = {w1}
  Months = {may, june}
  Categories = {g1}
  Existing = {}
  Keys = {k1, k2}
  Tags = {1, 2}
  Proposed = Proposed
  NoOne = NoOne
  NoKey = NoKey
  NoCard = NoCard
  NoWhat = NoWhat
  NoMonth = NoMonth
  NoCategory = NoCategory
  NoDraft = NoDraft
  NoTag = NoTag
  WithLegacy = TRUE
SPECIFICATION Spec
SYMMETRY Symmetry
INVARIANTS TypeOK OneGroupPerDraft EditableMeansUnsaved ScheduleIsPinned
PROPERTIES SavedIsSaved PurchaseKeepsPromise
