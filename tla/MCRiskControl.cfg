SPECIFICATION ScenarioSpec
CONSTANTS
    Causes <- MCCauses
    Evaluations <- AnyEvaluation
    Today = 1
    MaxBridge = 2
    MaxAdmitted = 1
    CrashAllowed = TRUE
    Pids = {p1, p2}
    NoPid = NoPid
    DownStale = 0
    Grace = 1
    KillMayFail = TRUE
    MaxStrangers = 1
    MaxDeaths = 1
INVARIANTS
    LedgerDominates
    UncrashedControlsHold
    OutageKnownOnce
PROPERTIES
    RearmOnlyByClearing
    DailyCauseOutlivesItsDay
