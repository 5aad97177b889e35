\* Liveness with one XID held at a time, drain timeouts and no failed
\* statement: transactions are replayed, and quit() ends every thread.
CONSTANTS
    x1 = x1
    x2 = x2
    Xids <- MCXid
    NoXid = NoXid
    None = None
    NoConn = NoConn
    MaxFile = 2
    MaxSeq = 3
    GtidBase = 0
    Window = 2
    MaxTrx = 3
    MaxConn = 2
    QueueCap = 1
    MaxHeldXA = 1
    DrainMayTimeOut = TRUE
    MaxSqlErrors = 0
    ConnectMayFail = FALSE
SPECIFICATION Spec
PROPERTY Progress
PROPERTY ShutdownCompletes
