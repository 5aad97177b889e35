\* A serial source crossing gtid 9 to 10, up to two crashes anywhere and one
\* failed statement.
CONSTANTS
    x1 = x1
    Xids <- MCXids
    NoXid = NoXid
    None = None
    NoConn = NoConn
    MaxFile = 1
    MaxSeq = 4
    GtidBase = 8
    Window = 2
    MaxTrx = 4
    MaxConn = 2
    QueueCap = 1
    MaxHeldXA = 0
    DrainMayTimeOut = FALSE
    MaxSqlErrors = 1
    ConnectMayFail = FALSE
    MaxCrash = 2
    SourceWrites <- ChainedWrites
SPECIFICATION SpecR
INVARIANT EveryTransactionAccounted
INVARIANT AtMostOnce
PROPERTY Progress
INVARIANT ConnectionExclusive
