SPECIFICATION Spec
CONSTANTS
    Subs = {x1, x2, x3}
INVARIANTS
    CloseCancelsAll
    TracksOpen
PROPERTIES
    CallsReturn
