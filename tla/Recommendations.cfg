SPECIFICATION PartsSpec
CONSTANTS
    Entries = {e1}
    Manages = {m1, m2, m3}
    r1 = r1
    n1 = n1
    n2 = n2
    Runs <- MCRuns
    Agents <- MCAgents
    AgentOf <- MCAgentOf
    Allocation <- MCAllocation
    Elapsed <- MCElapsed
    Credit = 3
    DG3Spend = 2
    DG2Spend = 1
    MaxCost = 1
    MAX_SCHEMA_RETRIES = 1
    Sessions = 3
    LastWindow = 1
    MaxRestarts = 1
SYMMETRY MCSymmetry
INVARIANTS AnsweredIsLabelled OneStandingExit SpendWithinReach
PROPERTIES ImplementsTrade
CHECK_DEADLOCK FALSE
