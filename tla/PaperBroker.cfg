SPECIFICATION PaperSpec
CONSTANTS
    OrderIds = {o1, o2}
    GttIds = {g}
    Symbols = {a, b}
    Ticking = {a}
    Prices = {1}
    Quotes = {1, 2}
    Qtys = {1, 2}
    Sides = {"SELL"}
    Types = {"SL-M"}
    Share = 4
    MaxPlaced = 1
    DayMinutes = 2
    MaxMinute = 2
    Trades = {0, 4}
    GttShapes <- MCGttShapes
    MaxTape <- MCMaxTape
    Restated = {0}
    BarVolumes = {4}
    a = a
    b = b
SYMMETRY MCSymmetry
INVARIANTS ShareHolds OneLegPerTrigger
PROPERTIES ImplementsBroker DayOrdersLapse
CHECK_DEADLOCK FALSE
