SPECIFICATION FairSpec
CONSTANTS
  d1 = d1
  d2 = d2
  NoAgent = NoAgent
  Unset = Unset
  t1 = t1
  t2 = t2
  Dealer = {d1,d2}
  Worker = {}
  Independent = {}
  PaymentGatewayEnabled = FALSE
  Thread = {t1,t2}
  Call = {"accept"}
  Serial = FALSE
  TicketLast = TRUE
  MaxRequests = 2
  MaxResponses = 0
  MaxHandlings = 0
  MaxCrashes = 0
PROPERTY JobTakenOnce
