SPECIFICATION Spec
CONSTANTS
    Payments = {1, 2}
    Withdrawals = {3}
    Limit = 20
    Fallible = {}
    MaxBlocks = 3
    MaxCrashes = 0
INVARIANT NothingSkipped
CHECK_DEADLOCK FALSE
