SPECIFICATION Spec
CONSTANTS
    NoId = NoId
    b1 = b1
    b2 = b2
    MODIFICATION_CAP = 2
    InitialQty = 2
    InitialPrice = 1
    BrokerIds <- MCBrokerIds
    Amendments <- MCAmendments
    Frames <- MCFrames
    Times <- MCTimes
INVARIANTS
    NeverRaises
    ReplayIsIdempotent
PROPERTIES
    NeverRegresses
    CancelIntentHeld
CHECK_DEADLOCK FALSE
