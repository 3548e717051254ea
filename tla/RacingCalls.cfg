SPECIFICATION Spec
CONSTANTS
  i1 = i1
  NoAgent = NoAgent
  Unset = Unset
  t1 = t1
  t2 = t2
  Dealer = {}
  Worker = {}
  Independent = {i1}
  PaymentGatewayEnabled = TRUE
  Thread = {t1,t2}
  Call = {"pay", "accept", "handle", "cancel", "expire", "patchCRM"}
  Serial = FALSE
  TicketLast = FALSE
  MaxRequests = 4
  MaxResponses = 2
  MaxHandlings = 3
  MaxCrashes = 1
INVARIANTS NoDispatchBeforePayment StatusTellsTruth
SYMMETRY ThreadSymmetry
