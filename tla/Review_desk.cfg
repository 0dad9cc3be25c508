SPECIFICATION Spec
CONSTANTS
  None = None
  Torn = Torn
  Whole = Whole
  Files = {"conf", "acct"}
  Accounts = {"acct"}
  Versions <- TwoVersions
  Ships <- Shipping
  Moves <- Upgrades
  AdminBytes = {"mine"}
  InitialLive <- Image
  Editable = {"conf"}
  MaxSaves = 1
  MaxEdits = 1
  MaxMishaps = 1
INVARIANT OriginalsKept
INVARIANT Recorded
INVARIANT SettledOnRecord
