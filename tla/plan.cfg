CONSTANTS
  Cards = {c1}
  NoCard = NoCard
  LastMonth = 2
  MaxAdvance = 1
  MonthLength <- Lengths
  ClosingDays = {0, 1, 2}
  MaxWebDay = 1
  PurchaseDates <- Early
  Amounts = {1}
  Paids = {1}
  Typed = {0}
  Purchases <- OneBuy
  ChargeIds = {1}
  PlanIds = {1}
  PaymentIds = {1}
  People = {p1}
  NoMonth = NoMonth
  NoTotal = NoTotal
SPECIFICATION Spec
PROPERTIES PurchaseKeepsPaid
