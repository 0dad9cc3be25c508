SPECIFICATION Spec
CONSTANTS
    None = None
    AnyVersion <- MCAny
    Toolchain <- MCToolchain
    Names <- MCNames
    Releases <- MCReleases
    Published <- MCPublished
    Machines <- MCMachines
    Orders <- MCOrders
    System <- MCSystem
    Ignore = {"mk"}
    Holds = {"devel"}
    Requests <- MCRequests
    Removals <- MCRemovals
    Devel = {"tool"}
    MaxCommands = 3
PROPERTY InstallsWhole
PROPERTY DependenciesFirst
PROPERTY RemovalBreaksNothing
PROPERTY SweepSpares
PROPERTY UpdateSettles
PROPERTY InstallsTheShown
CHECK_DEADLOCK FALSE
