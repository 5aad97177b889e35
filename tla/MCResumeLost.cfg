CONSTANTS
    x1 = x1
    Xids <- MCXids
    NoXid = NoXid
    None = None
    NoConn = NoConn
    MaxFile = 1
    MaxSeq = 3
    GtidBase = 8
    Window = 2
    MaxTrx = 3
    MaxConn = 2
    QueueCap = 1
    MaxHeldXA = 0
    DrainMayTimeOut = FALSE
    MaxSqlErrors = 0
    ConnectMayFail = FALSE
    MaxCrash = 1
SPECIFICATION SpecR
INVARIANT EveryTransactionAccounted

