SPECIFICATION FairSpec
CONSTANTS
    Symbols = {s1}
    Tickets = {t1, t2}
    NoTicket = NoTicket
    Profits <- JustLose
    MAX_TRADES_PER_DAY = 4
    MAX_OPEN_POSITIONS = 2
    DAILY_LOSS_LIMIT = 2
    MAX_CONSECUTIVE_LOSSES = 3
    PORT_MAX_TRADES_PER_DAY = 8
    PORT_MAX_OPEN_POSITIONS = 3
    PORT_DAILY_LOSS_LIMIT = 9
    PORT_WEEKLY_LOSS_LIMIT = 9
    Faults = {"mark", "get_positions", "balance", "closing_deal"}
    HostIsUtc = TRUE
    MaxCrashes = 1
    MaxUnwritten = 0
    MaxRows = 2
    LastDay = 1
PROPERTIES
    SeenCloseScored
    HaltOutlivesRestart
