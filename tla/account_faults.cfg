SPECIFICATION Spec
CONSTANTS
    Symbols = {s1}
    Tickets = {t1, t2}
    NoTicket = NoTicket
    Profits <- JustLose
    MAX_TRADES_PER_DAY = 4
    MAX_OPEN_POSITIONS = 2
    DAILY_LOSS_LIMIT = 3
    MAX_CONSECUTIVE_LOSSES = 3
    PORT_MAX_TRADES_PER_DAY = 8
    PORT_MAX_OPEN_POSITIONS = 3
    PORT_DAILY_LOSS_LIMIT = 4
    PORT_WEEKLY_LOSS_LIMIT = 6
    Faults = {"ambiguous", "log_open", "insert", "mark", "get_positions", "balance", "closing_deal", "update_close", "torn_save"}
    HostIsUtc = FALSE
    MaxCrashes = 1
    MaxUnwritten = 1
    MaxRows = 2
    LastDay = 1
SYMMETRY Symmetry
INVARIANTS
    TypeOK
    NeverScoredTwice
    BooksAgreeUntilCrash
