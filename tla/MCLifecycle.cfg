SPECIFICATION Spec
CONSTANTS
    Seeds = {a, b}
    NoSeed = NoSeed
    Fallible = {"store", "load", "rpc", "biometric"}
    Calls = {"lock", "updateRpc"}
    MaxSalts = 2
    MaxCrashes = 2
INVARIANTS
    TypeOK
    AccountIsStored
    KeysMatchTier
    LifecycleInv
CHECK_DEADLOCK FALSE
