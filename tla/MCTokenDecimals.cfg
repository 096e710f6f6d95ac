\* One process, and a decimals() call that fails once.
CONSTANTS
    p1 = p1  p2 = p2  p3 = p3
    Procs = {p1}
    Symbol = Symbol
    Unknown = Unknown
    NoRow = NoRow
    Decimals = 6
SPECIFICATION RegistryFairSpec
PROPERTIES
    UnknownMetadataIsRetried
CHECK_DEADLOCK FALSE
