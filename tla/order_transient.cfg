SPECIFICATION Spec
CONSTANTS
    Intents = {i1, i2}
    KeyOf <- OwnKeys
    Execs = {e1, e2}
    OrderIds = {o1, o2, o3}
    None = None
    ORDER_RETRY_ATTEMPTS = 2
    RECONCILE_EVERY_N_TICKS = 2
    HidesFill = {"ambiguous", "transient"}
    InsertsMayFail = FALSE
    BoundedFlight = TRUE
    ShortPass = TRUE
    MaxCrashes = 0
    MaxRows = 2
INVARIANTS
    OneFillPerRecord
