\* xa-suspension.py against every coordinator schedule that keeps its XA
\* lines in the hour named in the xid: a coordinator that is slow rather
\* than dead or that aborts, and connections that fail during XA RECOVER,
\* show binary logs, mysqlbinlog and XA COMMIT/ROLLBACK.  Two backends, two
\* xids neither of which grep confuses with the other, three hours across
\* a day boundary (the last-hour and yesterday cases of get_binlog).
CONSTANTS
    x1 = x1
    x2 = x2
    Xids <- MCXids
    HexInside <- NoContainment
    NBackends = 2
    HoursPerDay = 2
    MaxTime = 2
    ConnectMayFail = TRUE
    BinlogReadMayFail = TRUE
    Timely = FALSE
    TrxWithinHour = TRUE
SPECIFICATION Spec
INVARIANT CommittedOnlyIfDecided
SYMMETRY XidSymmetry
