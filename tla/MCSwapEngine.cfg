SPECIFICATION FairSpec
CONSTANTS
    Pays = {p1}
    Receives = {r1}
    OnRamps = {o1}
    NoSwap = NoSwap
    MaxQuotes = 2
    MaxDrops = 1
INVARIANTS
    EngineInv
    SdkNeverAhead
PROPERTIES
    ImplementsPromise
    CallReturns
    LockedIsClaimed
