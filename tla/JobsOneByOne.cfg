SPECIFICATION FairSpec
CONSTANTS
  d1 = d1
  w1 = w1
  i1 = i1
  NoAgent = NoAgent
  Unset = Unset
  t1 = t1
  Dealer = {d1}
  Worker = {w1}
  Independent = {i1}
  PaymentGatewayEnabled = TRUE
  Thread = {t1}
  Call = {"accept", "manualAssign", "allocate", "cancel", "revoke", "fail", "cancelByCustomer",
          "handle", "pay", "override", "expire", "patchCRM"}
  Serial = TRUE
  TicketLast = TRUE
  MaxRequests = 9
  MaxResponses = 2
  MaxHandlings = 5
  MaxCrashes = 0
INVARIANTS TypeOK AllocationBacked CalendarAgrees AcceptedOfferIsTaken PaymentRecognised
PROPERTY JobReturnsToMarket
