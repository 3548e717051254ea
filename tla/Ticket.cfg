SPECIFICATION FairSpec
CONSTANTS
  p1 = p1
  p2 = p2
  Provider = {p1, p2}
  NoProvider = NoProvider
  Setting <- MCSetting
  Serving <- MCServing
  Skill <- MCSkill
  Entitlement = {0}
  Call = {"accept", "giveUp", "changeStatus", "changeSetting"}
  Serial = TRUE
  TicketLast = TRUE
  MaxRequests = 3
  MaxTickets = 2
  MaxFailures = 1
  MaxCrashes = 1
INVARIANTS TypeOK OffersEndWithTheJob TheOfferedAreTold
PROPERTIES EverybodyIsOffered BatchesFollow
