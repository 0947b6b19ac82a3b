SPECIFICATION PlatformSpec
CONSTANTS
    Runtimes = {r1, r2, r3}
    NoRuntime = NoRuntime
    DiskMayFill = TRUE
    MaxRuntimeCrashes = 1
    SignalIds = {i1, i2}
    MaxSignalAge = 1
    MaxClock = 2
    MaxRestarts = 1
    PlaneClients = {c1, c2}
    BootStages = {"HISTORICAL_REPLAY"}
    ReportedStages = {"HISTORICAL_REPLAY"}
    Documents = {d}
    MaxRevision = 3
    RegistryClients = {k1, k2}
    CatalogStage = "INTAKE"
    RunServices = {"INTAKE", "AUDIT"}
    MaxVersions = 2
    MaxTransitions = 2
    MaxVerdicts = 2
    MaxSignalsHour = 2
    MaxTradesDay = 3
    MaxLosses = 2
    Hour = 2
    CooldownLength = 3
    DayLength = 4
    MaxBatch = 2
    MaxClosed = 4
    MaxTime = 7
    Symbols = {"EURUSD", "GBPUSD", "XAUUSD"}
    CorrelationGroups <- DefaultGroups
    Candidates <- Generated
    MinConfidence = 2
    TradeCap = 3
    PositionCap = 2
    MaxRaw = 3
    LiveSignals = {"l1", "l2", "l3"}
    NoSignal = "none"
    SymbolOf <- OfLiveSymbol
    TradeSessions = {"london", "newyork"}
    MaxBotStops = 1
CHECK_DEADLOCK FALSE
INVARIANTS
    PlatformTypeOK
    
    NoLockLeftBehind
    OneDecisionPerSignal
    OneOrderAfterClosing
    LedgerIsChain
    PromotionsRestOnPass
    StageIsLastTransition
    NeverAheadOfHistory
    OverrunIsOneTick
    SelectionIsSafe
    NoneDroppedInVain
    OneOrderPerSignal
    OnePositionPerSymbol
    SessionEndsFlat
PROPERTIES
    OnlyLateWordsOverwrite
    PlaneImplementsLifecycle
    CooldownHolds
