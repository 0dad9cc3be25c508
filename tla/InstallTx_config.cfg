SPECIFICATION Spec
CONSTANTS
  Absent = Absent
  Obstacle = Obstacle
  Torn = Torn
  NotInstalled = NotInstalled
  Nothing = Nothing
  Packages <- ConfNames
  Paths <- ConfPaths
  Releases <- ConfReleases
  Contents <- ConfBytes
  Name <- ConfName
  Version <- ConfVersion
  Ships <- ConfShips
  Bytes <- ConfShipped
  Depends <- ConfNone
  Provides <- ConfNone
  Replaces <- ConfNone
  Base <- ConfBase
  FileRank <- ConfRank
  Aur = {}
  NeverReplaced = {"acct"}
  InitialDisks <- ConfDisks
  Backup <- ConfBackup
  AdminBytes = {"edit"}
  MaxMishaps = 1
  CanCrash = TRUE
  EditsDuringTx = FALSE
INVARIANT ShippedOnRecord
PROPERTY EditsKept
PROPERTY AccountsKept
