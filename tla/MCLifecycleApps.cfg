SPECIFICATION Spec
CONSTANTS
    Seeds = {a, b}
    NoSeed = NoSeed
    Fallible = {"store", "rpc", "biometric"}
    Calls = {"updateRpc"}
    MaxSalts = 2
    MaxCrashes = 2
INVARIANTS
    ReadySeedsKept
    KeptInv
CHECK_DEADLOCK FALSE
