SPECIFICATION Spec
CONSTANTS
  MaxVer = 2
  PkgLevel = "Required"
  Keeps <- MCKeeps
  MaxCommands = 3
  MaxSweeps = 1
  MaxCrashes = 1
CHECK_DEADLOCK FALSE
INVARIANT InstalledIsGenuine
INVARIANT DatabaseSealed
PROPERTY CleanSpares
