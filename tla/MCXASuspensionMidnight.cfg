\* xa-suspension.py under its own assumptions (a transaction prepared at
\* both scans is abandoned; its XA lines fall in the hour named in its xid)
\* and with every connection working: the pool of get_status reads the
\* backends' binlogs one after another while the clock passes midnight.
\* Expected: AtomicOutcome is violated.
CONSTANTS
    x1 = x1
    x2 = x2
    Xids <- MCXids
    HexInside <- NoContainment
    NBackends = 2
    HoursPerDay = 2
    MaxTime = 2
    ConnectMayFail = FALSE
    BinlogReadMayFail = FALSE
    Timely = TRUE
    TrxWithinHour = TRUE
SPECIFICATION Spec
INVARIANT AtomicOutcome
SYMMETRY XidSymmetry
