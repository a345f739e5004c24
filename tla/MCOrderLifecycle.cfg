SPECIFICATION Spec
CONSTANTS
    NoId = NoId
    BrokerId = BrokerId
    MODIFICATION_CAP = 1
    InitialQty = 2
    InitialPrice = 1
    MaxQty = 2
    Prices <- MCPrices
    Amendments <- ShrinkAndReprice
    WorkingWords = {"OPEN"}
    CompleteWords = {"COMPLETE", "OPEN"}
    QtyGarbled = FALSE
    MaxEntries = 2
    MaxAge = 0
    MaxLag = 1
    MaxTime = 2
    LapseAllowed = TRUE
    ModifyMayBeRefused = TRUE
    ResponseMayBeLost = TRUE
    CrashAllowed = TRUE
INVARIANTS
    RowNeverAheadOfBook
    FinalFrameSettles
PROPERTIES
    ImplementsOrderRow
