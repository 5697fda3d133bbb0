SPECIFICATION Spec
CONSTANTS
    Seeds = {a, b}
    NoSeed = NoSeed
    Fallible = {}
    Calls = {}
    MaxSalts = 2
    MaxCrashes = 2
INVARIANT LockedIsWhole
CHECK_DEADLOCK FALSE
