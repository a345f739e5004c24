SPECIFICATION PartsSpec
CONSTANTS
    NoId = NoId
    NoSnapshot = NoSnapshot
    b1 = b1
    w1 = w1
    w2 = w2
    MODIFICATION_CAP = 2
    InitialQty = 2
    InitialPrice = 1
    MaxTime = 1
    BrokerIds <- MCBrokerIds
    Writers <- MCWriters
    Frames <- MCFrames
    Amendments <- MCAmendments
    Ids = {b1, b2}
    MaxEntries = 2
    MaxAge = 0
    Times = {0, 1}
    MaxHeld = 4
    Entry = {e1, e2}
    Reducing = {r1}
    Cap = 2
    Burst = 2
    Second = 2
    MaxStep = 4
    MaxSteps = 1
    MaxNewDays = 1
    e1 = e1
    e2 = e2
    r1 = r1
    LastMessage = 3
    Critical = {1, 3}
    Unsendable = {1}
    DrainBatch = 1
    DrainScan = 2
    MaxBackoff = 2
    MaxFaults = 1
INVARIANTS BufferKeepsUpdates PacedWithinBudget
PROPERTIES AuditChain FlattenSent OwnerIsTold
CHECK_DEADLOCK FALSE
