SPECIFICATION FairSpec
CONSTANTS
    NoId = NoId
    BrokerId = BrokerId
    MODIFICATION_CAP = 1
    InitialQty = 2
    InitialPrice = 1
    MaxQty = 3
    Prices <- MCPrices
    Amendments <- EnlargeOrReprice
    WorkingWords = {"OPEN"}
    CompleteWords = {"COMPLETE"}
    QtyGarbled = FALSE
    MaxEntries = 2
    MaxAge = 0
    MaxLag = 0
    MaxTime = 2
    LapseAllowed = FALSE
    ModifyMayBeRefused = TRUE
    ResponseMayBeLost = FALSE
    CrashAllowed = FALSE

PROPERTIES OrdersSettle
CHECK_DEADLOCK FALSE
