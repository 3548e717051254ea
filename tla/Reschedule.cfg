SPECIFICATION Spec
CONSTANTS
  p1 = p1
  p2 = p2
  NoAgent = NoAgent
  Unset = Unset
  Unrated = Unrated
  Ratings = {5}
  Dealer = {}
  Worker = {}
  Independent = {p1, p2}
  PaymentGatewayEnabled = TRUE
  MaxAnswers = 3
  Arrivals = {48, 60}
  Instants = {0, 40, 46, 58}
  CancelLimit = 24
  MoveLimit = 3
  FreeLimit = 12
  Window = 2
  StartLimit = 2
  RemindBefore = {2}
  Multiple = FALSE
  Call = {"reschedule", "adminChange", "pay", "webhook", "cancelByCustomer", "fail", "refund", "rate", "accept", "handle"}
  Serial = TRUE
  TicketLast = TRUE
  MaxRequests = 5
INVARIANTS
  TypeOK
  SurchargeReceived
  PaidSurchargeMoves
  ImpactedIsFreed
  ReminderFollows
  RequestRemembers
