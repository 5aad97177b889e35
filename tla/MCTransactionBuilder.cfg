\* Two transactions of every kind but XA ROLLBACK, up to two row events
\* each, every filter outcome, IGNORE_DDL on or off: the reader refines
\* TransactionStream.
CONSTANTS
    x1 = x1
    Xids <- MCXids
    NoXid = NoXid
    RowKinds = {"ALLOWED", "SKIP_SCHEMA", "FILTERED"}
    MaxRows = 2
    MaxTrx = 2
    SourceKinds <- SealedKinds
SPECIFICATION Spec
PROPERTY StreamRefined
