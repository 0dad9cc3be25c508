SPECIFICATION Spec
CONSTANTS
  Order <- MCOrder
  Paths <- MCPaths
  Scripted <- MCScripted
  Decls <- MCDecls
  Defaults <- MCDefaults
  HookNames = {1, 2}
  HookSets <- MCHookSets
  MaxId = 3
  MaxCommands = 3
  MaxFaults = 2
INVARIANT Bracketed
INVARIANT AccountsAgree
INVARIANT Provisioned
