SPECIFICATION Spec
CONSTANTS
    Symbols = {s1, s2, s3}
    Tickets = {t1, t2, t3}
    NoTicket = NoTicket
    Profits <- WinOrLose
    MAX_TRADES_PER_DAY = 4
    MAX_OPEN_POSITIONS = 2
    DAILY_LOSS_LIMIT = 3
    MAX_CONSECUTIVE_LOSSES = 3
    PORT_MAX_TRADES_PER_DAY = 8
    PORT_MAX_OPEN_POSITIONS = 3
    PORT_DAILY_LOSS_LIMIT = 4
    PORT_WEEKLY_LOSS_LIMIT = 6
    Faults = {"insert", "get_positions", "balance", "closing_deal"}
    HostIsUtc = TRUE
    MaxCrashes = 0
    MaxUnwritten = 0
    MaxRows = 1
    LastDay = 1
SYMMETRY Symmetry
INVARIANTS
    CountsMatch
    OnePerSymbol
    OpenCap
