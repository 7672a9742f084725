\* Components that are never in the same behaviour share their model values.
CONSTANTS
  Obligations = {o1}
  Values = {x1, x2}
  DueMonths <- MCDueMonths
  Terms = {1}
  NoTerm = NoTerm
  Requests = {y1, y2}
  NoValue = NoValue
  NoMonth = NoMonth
  NoTemplate = NoTemplate
  NoObligation = NoObligation
  NoRequest = NoRequest
  Flat = {f1}
  Plans = {x1, x2}
  Reviews = {y1, y2}
  Calls = {z1, z2}
  Expenses = {e1}
  ByHand = {g1}
  Tokens = {j1}
  Amounts = {n1, n2}
  Categories = {k1, k2}
  NoToken = NoToken
  NoAmount = NoAmount
  NoCategory = NoCategory
  NoLine = NoLine
  OwnName = OwnName
  NoReview = NoReview
  NoExpense = NoExpense
  NoPurchase = NoPurchase
  NoPayload = NoPayload
  Users = {x1, x2}
  Households = {h1, h2}
  Accounts = {y1, y2}
  Codes = {z1, z2}
  NoHousehold = NoHousehold
  NoAccount = NoAccount
  NoCode = NoCode
  Attempts = {x1, x2, a3}
  Previews = {y1, y2}
  Sizes = {2}
  DayMax = 4
  PreviewMax = 3
  MaxJobs = 2
  Window = 3
  KeepFor = 6
  Skew = 1
  ClaimDelay = 1
  DayLength = 4
  LastTick = 6
  NoPreview = NoPreview
  Senders = {x1, x2}
  People = {p1, p2}
  Contents = {y1, y2}
  Drafts = {d1, d2}
  PromptTokens = {z1, z2}
  MessageIds = {1, 2}
  Nobody = Nobody
  NoContent = NoContent
  NoDraft = NoDraft
  Unbound = Unbound
  NoMessage = NoMessage
SPECIFICATION Spec
SYMMETRY Symmetry
INVARIANTS HouseholdTypeOK OccurrencePaidOnce ReplyNamesWhatIsPaid
  ProjectedIsPayable NothingDropsOut LineImportedOnce LineKeepsItsPurchase
  ConfirmedIsWhatWasChosen InvitedIsMember LinkIsWanted PaidWithinLimits ServedOnce
  RecordedAsConfirmed RecordedOnce PromptStaysUsable
PROPERTIES ReplacementIsFaithful PurchaseKeepsItsNames
CHECK_DEADLOCK FALSE
