SPECIFICATION RuntimeSpec
CONSTANTS
    Runtimes = {r1, r2, r3}
    NoRuntime = NoRuntime
    DiskMayFill = FALSE
    MaxRuntimeCrashes = 1
CHECK_DEADLOCK FALSE
INVARIANT OneAuthority
