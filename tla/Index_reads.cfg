SPECIFICATION Spec
CONSTANTS
    None = None
    Config <- MCConfig
    Readers = {r1}
    Seeders = {s1}
    MaxClock = 3
    MaxBuild = 3
INVARIANT ReadsWhatStood
INVARIANT NeverOlder
CHECK_DEADLOCK FALSE
