SPECIFICATION Spec
CONSTANTS
  NoSession = NoSession
  Nobody = Nobody
  Clients = {"term", "root", "probe"}
  Sessions <- TwoSessions
  User <- Person
  SessionOf <- SeatOf
  Class <- WantsOf
  Preview = {}
  Direct = {"root"}
  Root = {}
  Members = {"term", "probe"}
  Malformed = {"probe"}
  Mortal = {"term"}
  Rule <- Strict
  WhenUnavailable = "allow"
  TTL = 1
  MaxRestarts = 1
CHECK_DEADLOCK FALSE
INVARIANT OnRecord
PROPERTY Promise
PROPERTY Answered
