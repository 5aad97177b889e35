CONSTANTS
    x1 = x1
    x2 = x2
    Xids <- MCXids
    NoXid = NoXid
    None = None
    NoConn = NoConn
    MaxFile = 2
    MaxSeq = 3
    GtidBase = 0
    Window = 2
    MaxTrx = 3
    MaxConn = 2
    QueueCap = 1
    MaxHeldXA = 2
    DrainMayTimeOut = FALSE
    MaxSqlErrors = 0
    ConnectMayFail = TRUE
SPECIFICATION Spec
INVARIANT TypeOK
INVARIANT InterleavedIsIndependence
INVARIANT ConnectionExclusive
INVARIANT XACommitOnPrepareConnection
INVARIANT FileBoundaryRespected
SYMMETRY XidSymmetry
