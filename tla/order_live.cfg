SPECIFICATION FairSpec
CONSTANTS
    Intents = {i1, i2}
    KeyOf <- SharedKey
    Execs = {e1, e2}
    OrderIds = {o1, o2}
    None = None
    ORDER_RETRY_ATTEMPTS = 2
    RECONCILE_EVERY_N_TICKS = 2
    HidesFill = {"ambiguous"}
    InsertsMayFail = FALSE
    BoundedFlight = TRUE
    ShortPass = TRUE
    MaxCrashes = 1
    MaxRows = 2
PROPERTIES
    EveryRecordResolved
    RecoveryJournalsOnce
INVARIANTS
    IInv
