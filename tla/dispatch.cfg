SPECIFICATION Spec
CONSTANTS
    Apis <- MCApis
    Whitelists <- MCWhitelists
    LowerFirst <- MCLowerFirst
    Fronts <- MCFronts
    Messages <- MCMessages
INVARIANTS
    CallsFit
    ExposesExactly
    Reachable
    BatchAgrees
CHECK_DEADLOCK FALSE
