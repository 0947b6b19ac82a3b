SPECIFICATION Spec
CONSTANTS
    Intents = {i1, i2}
    KeyOf <- SharedKey
    Execs = {e1, e2}
    OrderIds = {o1, o2, o3}
    None = None
    ORDER_RETRY_ATTEMPTS = 2
    RECONCILE_EVERY_N_TICKS = 2
    HidesFill = {"ambiguous"}
    InsertsMayFail = FALSE
    BoundedFlight = TRUE
    ShortPass = TRUE
    MaxCrashes = 2
    MaxRows = 2
SYMMETRY Symmetry
INVARIANTS
    OneActivePerIntent
    IncompleteIsRecoverable
    CompletedIsJournaled
    NoForgottenPosition
    OneFillPerRecord
PROPERTIES
    LegalRecordSteps
    RecoveredOrderIsFree
    ImplementsLedger
