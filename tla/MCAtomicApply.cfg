\* Two transactions in two binlog files and one failed statement: the
\* drain at the file boundary hands the failed job's connection to the next.
CONSTANTS
    x1 = x1
    x2 = x2
    Xids <- MCXids
    NoXid = NoXid
    None = None
    NoConn = NoConn
    MaxFile = 2
    MaxSeq = 3
    GtidBase = 0
    Window = 2
    MaxTrx = 2
    MaxConn = 2
    QueueCap = 1
    MaxHeldXA = 1
    DrainMayTimeOut = FALSE
    MaxSqlErrors = 1
    ConnectMayFail = FALSE
SPECIFICATION Spec
INVARIANT AtomicApply
