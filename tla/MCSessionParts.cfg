SPECIFICATION PartsSpec
CONSTANTS
    MaxToken = 2
    MaxFaults = 3
    StopAllowed = TRUE
    Calls = {c1, c2}
    MaxTokens = 3
    CrashAllowed = TRUE
    KillAllowed = TRUE
    c1 = c1
    c2 = c2
    Logins = {l1, l2}
    Boot = boot
    Jobs = {1, 2}
INVARIANTS RejectionAlertedOnce WatchedExactlyWhileSpawned
PROPERTIES FeedFreezeLifts LoginRunsItsCourse
CHECK_DEADLOCK FALSE
