SPECIFICATION Spec
CONSTANTS
  a = a
  b = b
  d = d
  c0 = c0
  c1 = c1
  c2 = c2
  johor = johor
  selangor = selangor
  group = group
  AnyState = AnyState
  Group = {group}
  NoGroup = NoGroup
  NoQuotations = NoQuotations
  NoOrder = NoOrder
  Package = {a, b, d}
  State = {johor, selangor}
  Customer = {c0, c1, c2}
  OldCustomer = {c0}
  Selangor = selangor
  Limit = 1
  OldPromotion = 2
  Racing = FALSE
  MaxCrashes = 1
  MaxPatches = 1
  StateOf <- MCStateOf
  Catalogues <- MCCatalogues
  Baskets <- MCBaskets
  Promotion <- MCPromotion
  OldRows <- MCOldRows
INVARIANTS
  TypeOK
  PromotionIsCounted
  TotalIsOfTheSnapshot
  FulfilledIsReported
  ReportsAreNoticed
