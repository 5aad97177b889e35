--------------------------- MODULE TransactionStream ---------------------------
(***************************************************************************)
(* What the transaction builder promises (spec section 4.1): the source   *)
(* commits a sequence of transactions, and the reader returns them one by *)
(* one, in order, each sealed with the kind, XID, file and statement list *)
(* the specification gives it.  A step returns one whole transaction.     *)
(***************************************************************************)
EXTENDS Naturals, Sequences, SequencesExt

CONSTANTS
    Xids,         \* XA transaction identifiers
    NoXid,        \* Transaction.XID = None
    RowKinds,     \* what the table filter makes of a row event
    MaxRows,      \* row events in one transaction
    MaxTrx,       \* transactions the source commits
    SourceKinds   \* the kinds of transaction the source writes

VARIABLES
    src,        \* the transactions the source commits
    out,        \* the transactions returned so far
    ignoreDdl   \* config.IGNORE_DDL, fixed when the reader starts

\* The transactions a MySQL source commits to a row-based binlog:
\* ordinary DML (a BEGIN query, row events, an Xid event), a statement-based
\* DML (BEGIN, the statement, Xid), DDL on a table or a database, an XA
\* transaction prepared (XA START, rows, XA END, XA PREPARE) or committed in
\* one phase, and the XA COMMIT or XA ROLLBACK of a prepared one.  rotate:
\* the binlog rotates to a new file before the transaction.
AllKinds == {"DML", "SBR", "DDL", "DDL_DB", "XA_PREPARE", "XA_ONE_PHASE",
             "XA_COMMIT", "XA_ROLLBACK"}
HasRows  == {"DML", "XA_PREPARE", "XA_ONE_PHASE"}
HasXid   == {"XA_PREPARE", "XA_ONE_PHASE", "XA_COMMIT", "XA_ROLLBACK"}

Shapes ==
    {t \in [kind : SourceKinds, rows : BoundedSeq(RowKinds, MaxRows),
            xid : Xids \cup {NoXid}, rotate : BOOLEAN] :
        /\ t.kind \notin HasRows => t.rows = <<>>
        /\ (t.kind \in HasXid) <=> (t.xid # NoXid)}

\* The stream starts with the rotate event that names the first file.
Sources == {s \in [1..MaxTrx -> Shapes] : s[1].rotate}

\* The file a transaction is written to: files are numbered in order.
FileOf(s, i) == Cardinality({k \in 1..i : s[k].rotate})

\* One statement per row event that passes the filter.
Stmts(rows) == [k \in 1..Cardinality({j \in DOMAIN rows : rows[j] = "ALLOWED"})
                   |-> "stmt"]

\* A BEGIN ... COMMIT body: one statement runs alone, no statement at all
\* runs nothing.
Wrapped(b) == CASE Len(b) = 0 -> <<>>
                [] Len(b) = 1 -> b
                [] OTHER      -> <<"begin">> \o b \o <<"commit">>

\* The statement list the specification assigns to a source transaction.
SqlOf(t) ==
    CASE t.kind = "DML"          -> Wrapped(Stmts(t.rows))
      [] t.kind = "SBR"          -> <<"stmt">>
      [] t.kind = "DDL"          -> IF ignoreDdl THEN <<>> ELSE <<"use", "ddl">>
      [] t.kind = "DDL_DB"       -> IF ignoreDdl THEN <<>> ELSE <<"ddl">>
      [] t.kind = "XA_PREPARE"   -> IF Stmts(t.rows) = <<>> THEN <<>>
                                    ELSE <<"start transaction">> \o Stmts(t.rows)
      [] t.kind = "XA_ONE_PHASE" -> <<"start transaction">> \o Stmts(t.rows)
                                    \o <<"commit">>
      [] t.kind = "XA_COMMIT"    -> <<"commit">>
      [] t.kind = "XA_ROLLBACK"  -> <<"rollback">>

\* The sealed transaction: NORMAL unless it is an XA PREPARE or COMMIT,
\* which carry their XID; skip records that a row of a skipped schema
\* was dropped.
Expected(s, i) ==
    LET t == s[i] IN
    [gtid |-> i,
     file |-> FileOf(s, i),
     type |-> CASE t.kind = "XA_PREPARE" -> "XA_PREPARE"
                [] t.kind = "XA_COMMIT"  -> "XA_COMMIT"
                [] OTHER                 -> "NORMAL",
     xid  |-> IF t.kind \in {"XA_PREPARE", "XA_COMMIT"} THEN t.xid ELSE NoXid,
     sql  |-> SqlOf(t),
     skip |-> \E k \in DOMAIN t.rows : t.rows[k] = "SKIP_SCHEMA"]

Init == src \in Sources /\ out = <<>> /\ ignoreDdl \in BOOLEAN

\* The reader returns the next transaction.
Return ==
    /\ Len(out) < Len(src)
    /\ out' = Append(out, Expected(src, Len(out) + 1))
    /\ UNCHANGED <<src, ignoreDdl>>

\* Every committed transaction is eventually returned.
Spec == Init /\ [][Return]_<<src, out, ignoreDdl>>
        /\ WF_<<src, out, ignoreDdl>>(Return)
=============================================================================
