SPECIFICATION Spec
CONSTANTS
    Rate = 2
    Word = 64
    FeePercent = 50
    HasCollector = TRUE
    TxIds = {t1, t2}
    Arrivals = {5}
    Receipts = {3}
    MaxIncoming = 1
    MaxEvictions = 1
    StartsDeployed = TRUE
    RequestKinds = {"transfer", "withdraw", "ragequit", "rollover"}
    RequestSats = {1, 4}
    MaxRequests = 2
SYMMETRY TxSymmetry
INVARIANTS
    CiphersTrue
    SpendProofsCoherent
    CurrentSpendLands
    IInv
CHECK_DEADLOCK FALSE
