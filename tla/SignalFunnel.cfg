SPECIFICATION LiveSpec
CONSTANTS
    a = a
    b = b
    c = c
    orb = orb
    Pairs = {a, b}
    StrategyOf <- MCStrategyOf
    StrategyCap <- MCStrategyCap
    MaxDay = 2
    Scores = {1, 2, 3}
    Margin = 1
    ForwardCap = 1
    MaxPending = 1
    MaxBatch = 1
    MaxPublished = 4
    MaxStops = 1
    RaisesIn = {"calling"}
INVARIANT CapsHold
PROPERTIES SlotsPayForCalls QueueEmpties
CHECK_DEADLOCK FALSE
