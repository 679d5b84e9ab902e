SPECIFICATION Spec
CONSTANTS
    Texts <- MCTexts
    HashLength = 2
    WordNibbles = 2
    BigNibbles = 3
    U64Nibbles = 2
    UintNibbles = 1
    MaxUint64 = 15
    BigBits = 5
    ByteBits = 2
    WordBytes = 2
    Values <- MCValues
    w1 = w1
    w2 = w2
    w3 = w3
    Writers = {w1, w2, w3}
    None = None
    Partial = Partial
INVARIANTS
    DecodersExact
    FixedWidthExact
    LoopsExact
    AtomicWrite
PROPERTIES
    FailureKeeps
