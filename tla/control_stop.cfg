SPECIFICATION FairSpec
CONSTANTS
    Handlers = {h1, h2}
    Runner = runner
    Scopes = {"block_only"}
    Sources = {toggle}
    NoSource = NoSource
    Positions = {p1}
    MaxStamps = 2
    MaxCrashes = 1
INVARIANTS
    HandledStopIsFlat
PROPERTIES
    StopEndsOnlyByClear
    EveryStopHandled
