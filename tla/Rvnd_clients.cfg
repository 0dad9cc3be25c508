SPECIFICATION Spec
CONSTANTS
  NoSession = NoSession
  Nobody = Nobody
  Clients = {"term", "store", "panel"}
  Sessions <- TwoSessions
  User <- Person
  SessionOf <- SeatOf
  Class <- WantsOf
  Preview = {"term"}
  Direct = {}
  Root = {}
  Members = {"term", "store", "panel"}
  Malformed = {}
  Mortal = {}
  Rule <- Shipped
  WhenUnavailable = "deny"
  TTL = 1
  MaxRestarts = 0
CHECK_DEADLOCK FALSE
INVARIANT OneAtATime
PROPERTY NeverInItsOwnWay
PROPERTY OnlyOnAgreement
