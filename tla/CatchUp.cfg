SPECIFICATION PartsSpec
CONSTANTS
    instruments = instruments
    earnings = earnings
    digest = digest
    bhavcopy = bhavcopy
    NoJob = NoJob
    Safety = {instruments, earnings}
    Latest = {digest}
    DateKeyed = {bhavcopy}
    Deferred = {digest}
    Hydrated = {instruments, digest}
    Registries <- MCRegistries
    Span <- MCSpan
    FireAt <- MCFireAt
    TradingDays <- MCTradingDays
    MaxDay = 3
    MaxLookback = 1
    GiveUpAfter = 0
    MaxStops = 1
    Pids = {p1, p2}
    NoPid = NoPid
    DownStale = 0
    Grace = 1
    KillMayFail = FALSE
    MaxStrangers = 0
    MaxDeaths = 0
PROPERTIES LiftedOnlyWhenVerified FailedDaysResolved FreezesLift OutagesHandled
