\* Three processes register one token whose contract appears at some time.
CONSTANTS
    p1 = p1  p2 = p2  p3 = p3
    Procs = {p1, p2, p3}
    Symbol = Symbol
    Unknown = Unknown
    NoRow = NoRow
    Decimals = 6
SPECIFICATION RegistryFairSpec
INVARIANTS
    RegistryInv
PROPERTIES
    KnownStaysKnown
    SymbolBecomesKnown
CHECK_DEADLOCK FALSE
