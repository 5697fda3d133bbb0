SPECIFICATION FairSpec
CONSTANTS
    Rate = 2
    Word = 64
    FeePercent = 50
    HasCollector = TRUE
    TxIds = {t1, t2}
    Arrivals = {5}
    Receipts = {1}
    MaxIncoming = 1
    MaxEvictions = 1
    StartsDeployed = FALSE
    RequestKinds = {"transfer", "withdraw", "ragequit", "rollover", "fund", "token"}
    RequestSats = {3}
    MaxRequests = 1
CHECK_DEADLOCK FALSE
PROPERTIES
    ImplementsPurse
    Settles
