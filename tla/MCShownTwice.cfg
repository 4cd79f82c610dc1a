CONSTANTS
    None = None
    Me = Me
    Peer = Peer
    Third = Third
    Shop = Shop
    Dates <- MCDates
    Units <- MCUnits
    BATCH = 2
    InPlay = {"Sui"}
    Ledgers <- MCLedgers
    OtherLedger <- MCOtherLedger
    Heights = {2, 3}
    MIN_PAGE = 1
    DEFAULT_PAGE = 2
    HISTORY_CHROME = 1
    LIMIT = 7
    MaxReq = 2
SPECIFICATION Spec
CHECK_DEADLOCK FALSE
INVARIANT ShownOnce
