\* xa-suspension.py under its own assumptions and with every connection
\* working, against a coordinator that numbers its xids ..._1, ..._12: the
\* hex of x1 is a substring of the hex of x2, and grep_status for x1 also
\* returns the XA lines of x2.  No midnight in reach (MaxTime 1).
\* Expected: CommittedOnlyIfDecided is violated.
CONSTANTS
    x1 = x1
    x2 = x2
    Xids <- MCXids
    HexInside <- SequenceNumbered
    NBackends = 2
    HoursPerDay = 2
    MaxTime = 1
    ConnectMayFail = FALSE
    BinlogReadMayFail = FALSE
    Timely = TRUE
    TrxWithinHour = TRUE
SPECIFICATION Spec
INVARIANT CommittedOnlyIfDecided
