SPECIFICATION FairSpec
CONSTANTS
    Seeds = {a, b}
    NoSeed = NoSeed
    Fallible = {"biometric"}
    Calls = {"lock"}
    MaxSalts = 2
    MaxCrashes = 2
PROPERTY UnlockSucceeds
CHECK_DEADLOCK FALSE
