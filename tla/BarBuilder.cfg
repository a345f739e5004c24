SPECIFICATION TicksSpec
CONSTANTS
    LastMinute = 2
    Prints <- MCPrints
    RECENT_BARS_PER_SYMBOL = 2
    MaxStops = 1
    MaxLost = 1
    LastDay = 1
    MaxTicks = 3
    MaxFaults = 2
    Retention = 0
INVARIANTS BuiltOnceInOrder BarsAreTrue
PROPERTIES TicksReadOnce
CHECK_DEADLOCK FALSE
