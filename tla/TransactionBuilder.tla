-------------------------- MODULE TransactionBuilder --------------------------
(***************************************************************************)
(* BinlogTrxReader (src/dumpbinlog-tool/transaction.py): fetch_one reads  *)
(* binlog events one at a time and feeds them to the Transaction it is    *)
(* building (_feed_event, _process_rows_event) until an event seals it;   *)
(* then it trims the statement list (_trim) and returns it.               *)
(*                                                                         *)
(* The statements are abstracted to what _trim and the dispatcher tell    *)
(* apart: "begin", "commit" (the case-insensitive 'commit' / 'COMMIT'),   *)
(* "start transaction", "rollback", "use", "ddl" and "stmt" (a row or     *)
(* query statement).  gtid, last_committed, sequence_number and timestamp *)
(* are copied from the GtidEvent together; the gtid stands for them.      *)
(***************************************************************************)
EXTENDS Naturals, Sequences, SequencesExt

CONSTANTS Xids, NoXid, RowKinds, MaxRows, MaxTrx, SourceKinds

VARIABLES
    input,     \* the source transactions, in commit order
    pos,       \* binlog events consumed so far
    curFile,   \* self.current_file (0 before the first RotateEvent)
    trx,       \* the Transaction fetch_one is building
    returned,  \* the transactions fetch_one has returned
    ignoreDdl  \* self._IGNORE_DDL, read from the configuration once

vars == <<input, pos, curFile, trx, returned, ignoreDdl>>

Stream == INSTANCE TransactionStream
          WITH src <- input, out <- returned

\* An event of the binlog: its class and the fields _feed_event reads.
Ev(kind, gtid, row, q, one, xid) ==
    [kind |-> kind, gtid |-> gtid, row |-> row, q |-> q, one |-> one, xid |-> xid]
Query(q, x) == Ev("QUERY", 0, "", q, FALSE, x)
RowEvents(rows) == [k \in DOMAIN rows |-> Ev("ROWS", 0, rows[k], "", FALSE, NoXid)]

\* The events MySQL writes for the i-th source transaction t.
EventsOf(t, i) ==
    (IF t.rotate THEN <<Ev("ROTATE", 0, "", "", FALSE, NoXid)>> ELSE <<>>)
    \o <<Ev("GTID", i, "", "", FALSE, NoXid)>>
    \o CASE t.kind = "DML" -> <<Query("BEGIN", NoXid)>> \o RowEvents(t.rows)
                              \o <<Ev("XID", 0, "", "", FALSE, NoXid)>>
         [] t.kind = "SBR" -> <<Query("BEGIN", NoXid), Query("OTHER", NoXid),
                                Ev("XID", 0, "", "", FALSE, NoXid)>>
         [] t.kind = "DDL"    -> <<Query("DDL", NoXid)>>
         [] t.kind = "DDL_DB" -> <<Query("DDL_DB", NoXid)>>
         [] t.kind \in {"XA_PREPARE", "XA_ONE_PHASE"} ->
                <<Query("XA START", t.xid)>> \o RowEvents(t.rows)
                \o <<Query("XA END", t.xid),
                     Ev("XA_PREPARE", 0, "", "", t.kind = "XA_ONE_PHASE", t.xid)>>
         [] t.kind = "XA_COMMIT"   -> <<Query("XA COMMIT", t.xid)>>
         [] t.kind = "XA_ROLLBACK" -> <<Query("XA ROLLBACK", t.xid)>>

Events == FlattenSeq([i \in DOMAIN input |-> EventsOf(input[i], i)])
-----------------------------------------------------------------------------
\* Transaction(): no gtid (0 is None), type NORMAL, XID None, no statement.
NewTrx == [gtid |-> 0, file |-> 0, type |-> "NORMAL", xid |-> NoXid,
           sql |-> <<>>, skip |-> FALSE]

\* Fault variant used by a mutation run: the BEGIN, COMMIT case is gone.
TrimNoEmpty(t) ==
    IF t.type = "NORMAL" /\ Len(t.sql) = 3 /\ t.sql[1] = "begin"
       /\ t.sql[3] = "commit"
    THEN [t EXCEPT !.sql = <<t.sql[2]>>]
    ELSE IF t.type = "XA_PREPARE" /\ t.sql = <<"start transaction">>
         THEN [t EXCEPT !.sql = <<>>] ELSE t

\* BinlogTrxReader._trim: BEGIN, x, COMMIT becomes x and then BEGIN,
\* COMMIT becomes nothing; an XA PREPARE of START TRANSACTION alone
\* becomes nothing.
Trim(t) ==
    IF t.type = "NORMAL"
    THEN LET s1 == IF Len(t.sql) = 3 /\ t.sql[1] = "begin"
                      /\ t.sql[3] = "commit"
                   THEN <<t.sql[2]>> ELSE t.sql
         IN  [t EXCEPT !.sql = IF s1 = <<"begin", "commit">> THEN <<>> ELSE s1]
    ELSE IF t.type = "XA_PREPARE" /\ t.sql = <<"start transaction">>
         THEN [t EXCEPT !.sql = <<>>] ELSE t

\* The next event.
ev == Events[pos + 1]

\* The event was consumed and the transaction t is not finished.
Keep(t) == pos' = pos + 1 /\ trx' = t /\ UNCHANGED <<input, curFile, returned, ignoreDdl>>

\* _feed_event returned True: fetch_one records last_log_pos, trims and
\* returns the transaction; the next call starts a new one.
Seal(t) ==
    /\ pos' = pos + 1
    /\ returned' = Append(returned, Trim(t))
    /\ trx' = NewTrx
    /\ UNCHANGED <<input, curFile, ignoreDdl>>

AddSql(t, s) == [t EXCEPT !.sql = Append(@, s)]

\* RotateEvent: self.current_file = event.next_binlog.
FetchRotate ==
    /\ pos < Len(Events) /\ ev.kind = "ROTATE"
    /\ curFile' = curFile + 1
    /\ pos' = pos + 1
    /\ UNCHANGED <<input, trx, returned, ignoreDdl>>

\* GtidEvent: gtid, last_committed, sequence_number, timestamp and the
\* current file are set on the transaction being built.
FetchGtid ==
    /\ pos < Len(Events) /\ ev.kind = "GTID"
    /\ Keep([trx EXCEPT !.gtid = ev.gtid, !.file = curFile])

\* A rows event (_process_rows_event): a skipped schema only sets
\* is_skip_schema, a table outside ALLOW_TABLES is dropped, any other row
\* becomes a statement.  The transaction is not finished.
FeedRows ==
    /\ pos < Len(Events) /\ ev.kind = "ROWS"
    /\ Keep(CASE ev.row = "SKIP_SCHEMA" -> [trx EXCEPT !.skip = TRUE]
              [] ev.row = "FILTERED"    -> trx
              [] ev.row = "ALLOWED"     -> AddSql(trx, "stmt"))

\* XidEvent: 'commit' is appended and the transaction is finished.
FeedXid ==
    /\ pos < Len(Events) /\ ev.kind = "XID"
    /\ Seal(AddSql(trx, "commit"))

\* XAPrepareEvent: one phase appends 'commit'; two phases make it an XA
\* PREPARE with the event's XID.  Either way it is finished.
FeedXAPrepare ==
    /\ pos < Len(Events) /\ ev.kind = "XA_PREPARE"
    /\ Seal(IF ev.one THEN AddSql(trx, "commit")
            ELSE [trx EXCEPT !.type = "XA_PREPARE", !.xid = ev.xid])

\* A statement is_ddl classifies: with IGNORE_DDL the transaction is sealed
\* as it is; otherwise the DDL is appended, after 'use <schema>' unless it
\* creates or drops a database (is_ddl_database).
FeedDdl(t, q) ==
    IF ignoreDdl THEN t
    ELSE IF q = "DDL" THEN AddSql(AddSql(t, "use"), "ddl") ELSE AddSql(t, "ddl")

\* QueryEvent, by the prefix of its text, then is_ddl.  XA COMMIT takes the
\* XID _get_xid decodes from the query (the gtrid of X'..',X'..',n).
FeedQuery ==
    /\ pos < Len(Events) /\ ev.kind = "QUERY"
    /\ LET q == ev.q IN
       CASE q = "XA START"    -> Keep(AddSql(trx, "start transaction"))
         [] q = "XA ROLLBACK" -> Keep(AddSql(trx, "rollback"))
         [] q = "XA END"      -> Keep(trx)
         [] q = "XA COMMIT"   ->
                Seal([AddSql(trx, "commit") EXCEPT !.type = "XA_COMMIT",
                                                    !.xid = ev.xid])
         [] q \in {"DDL", "DDL_DB"} -> Seal(FeedDdl(trx, q))
         [] q = "BEGIN"  -> Keep(AddSql(trx, "begin"))
         [] q = "OTHER"  -> Keep(AddSql(trx, "stmt"))

\* blocking=True: with no more events, fetch_one waits.
Idle == pos = Len(Events) /\ UNCHANGED vars

Init ==
    /\ input \in Stream!Sources
    /\ pos = 0 /\ curFile = 0 /\ trx = NewTrx /\ returned = <<>>
    /\ ignoreDdl \in BOOLEAN

Next == FetchRotate \/ FetchGtid \/ FeedRows \/ FeedXid \/ FeedXAPrepare
        \/ FeedQuery \/ Idle

\* The reader runs in the main thread whenever events are available.
Spec == Init /\ [][Next]_vars /\ WF_vars(Next)
-----------------------------------------------------------------------------
\* Refinement: every behaviour of the reader, event by event, is one of
\* TransactionStream, returning each committed transaction whole, in
\* order, as the specification seals and trims it (XA ROLLBACK included).
StreamRefined == Stream!Spec
=============================================================================
