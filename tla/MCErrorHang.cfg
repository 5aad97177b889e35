CONSTANTS
    x1 = x1
    x2 = x2
    Xids <- MCXids
    NoXid = NoXid
    None = None
    NoConn = NoConn
    MaxFile = 1
    MaxSeq = 3
    GtidBase = 0
    Window = 2
    MaxTrx = 3
    MaxConn = 2
    QueueCap = 1
    MaxHeldXA = 1
    DrainMayTimeOut = FALSE
    MaxSqlErrors = 1
    ConnectMayFail = FALSE
SPECIFICATION Spec
PROPERTY ErrorEndsProcess
