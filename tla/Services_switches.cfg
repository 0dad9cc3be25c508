SPECIFICATION Spec
CONSTANTS
  Order <- MCOrder
  Clients <- MCClients
  Installer = rvn
  MaxAsks = 2
  MaxInstalls = 1
  MaxKills = 1
  MaxTimeouts = 1
  MaxFailures = 1
INVARIANT KeptWord
PROPERTY TurnsOn
PROPERTY ComesUp
