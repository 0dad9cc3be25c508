SPECIFICATION Spec
CONSTANTS
  Absent = Absent
  Obstacle = Obstacle
  Torn = Torn
  NotInstalled = NotInstalled
  Nothing = Nothing
  Packages <- HandNames
  Paths <- HandPaths
  Releases <- HandReleases
  Contents <- HandBytes
  Name <- HandName
  Version <- HandVersion
  Ships <- HandShips
  Backup <- HandBackup
  Bytes <- HandShipped
  Depends <- HandDepends
  Provides <- HandProvides
  Replaces <- HandReplaces
  Base <- HandBase
  FileRank <- HandRank
  Aur = {"D1", "E1"}
  NeverReplaced = {}
  InitialDisks <- HandDisks
  AdminBytes = {}
  MaxMishaps = 1
  CanCrash = TRUE
  EditsDuringTx = FALSE
INVARIANT OneOwner
INVARIANT RetiredUnlessFailed
INVARIANT FilesPresent
INVARIANT DependenciesMet
