SPECIFICATION Spec
CONSTANTS
    Names = {m1, m2}
    Keys = {k1, k2}
    Objects = {o1, o2}
    Nothing = Nothing
    NoEntry = NoEntry
SYMMETRY StorageSymmetry
INVARIANTS
    StorageInv
    SettledIsKept
PROPERTIES
    ImplementsDurableMap
