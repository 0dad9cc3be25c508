SPECIFICATION Spec
CONSTANTS
  Tools = {a, b}
  Commands <- MCCommands
  Configs = {"none", "key", "garbled"}
  Order <- MCOrder
  Pkg <- MCPkg
  Broken = {"cut-1.0"}
  MaxStarts = 3
  MaxStops = 1
SYMMETRY Two
INVARIANT ServedWhole
INVARIANT SealMatches
PROPERTY NewestListed
CHECK_DEADLOCK FALSE
