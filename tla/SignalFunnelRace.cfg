SPECIFICATION Spec
CONSTANTS
    a = a
    b = b
    c = c
    orb = orb
    Pairs = {a, b, c}
    StrategyOf <- MCStrategyOf
    StrategyCap <- MCTwoSlots
    MaxDay = 3
    Scores = {1, 2}
    Margin = 1
    ForwardCap = 1
    MaxPending = 1
    MaxBatch = 1
    MaxPublished = 4
    MaxStops = 1
    RaisesIn = {"calling"}
SYMMETRY MCSymmetry
INVARIANT EvaluatedKeepsItsSlot
CHECK_DEADLOCK FALSE
