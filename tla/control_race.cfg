SPECIFICATION Spec
CONSTANTS
    Handlers = {h1}
    Runner = runner
    Scopes = {"block_only"}
    Sources = {toggle}
    NoSource = NoSource
    Positions = {p1}
    MaxStamps = 2
    MaxCrashes = 1
PROPERTIES
    StopBindsNextIntent
