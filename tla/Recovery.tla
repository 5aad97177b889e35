------------------------------ MODULE Recovery ------------------------------
(***************************************************************************)
(* The resume protocol of dumpbinlog-tool (src/dumpbinlog-tool/           *)
(* recovery.py): recovery.read builds a PreviousExecution from the tail   *)
(* of progress.log, and PreviousExecution.executed tells the dispatcher   *)
(* which re-streamed transactions to skip.                                *)
(*                                                                         *)
(* A progress.log line is written from the Transaction the worker ran     *)
(* (Transaction.__repr__: gtid type XID binlog_file last_log_pos          *)
(* timestamp) and read back into one (recovery.read).  In the model a     *)
(* line is the binlog index g of that transaction; the fields it carries  *)
(* are those of bl[g].  The gtid string is "uuid:N" with N = GtidBase + g *)
(* for one source server, and it is compared as a string.                 *)
(***************************************************************************)
EXTENDS TransactionModel, Sequences, SequencesExt, TLC

CONSTANTS
    GtidBase,   \* transaction number of the source before binlog[1]
    Window      \* lines of progress.log recovery.read looks at (50)

ASSUME GtidBase \in Nat /\ Window \in Nat \ {0}

\* The decimal digits of n, most significant first (str(n)).
RECURSIVE Digits(_)
Digits(n) == IF n < 10 THEN <<n>> ELSE Append(Digits(n \div 10), n % 10)

\* Python's < on two strings: the first differing character decides, and a
\* proper prefix is smaller.
RECURSIVE StrLess(_, _)
StrLess(s, t) ==
    /\ t # <<>>
    /\ \/ s = <<>>
       \/ Head(s) < Head(t)
       \/ Head(s) = Head(t) /\ StrLess(Tail(s), Tail(t))

\* key=lambda trx: trx.gtid; "uuid:" is common to both strings.
GtidLess(a, b) == StrLess(Digits(GtidBase + a), Digits(GtidBase + b))

\* The fields of a progress.log line that recovery.read keeps.
Entry(bl, g) == [gtid |-> g, type |-> bl[g].type, xid |-> bl[g].xid]

\* recovery.read returned None: dumpbinlog.main starts at BINLOG_POS.
NoPrev == [anchor |-> 0, seen |-> <<>>, trxs |-> {}, allTested |-> FALSE]

\* reverse_readline yields the lines of progress.log newest first (the
\* buffered reading from the end is abstracted to whole lines) and read
\* stops after Window of them.
LastLines(log) ==
    Reverse(SubSeq(log, IF Len(log) > Window THEN Len(log) - Window + 1 ELSE 1,
                   Len(log)))

\* The window is sorted by gtid string, the first one is
\* the resume anchor (from_trx) and the others are tracked, unseen, in
\* overlapped_gtids.  A gtid logged twice is tracked once.
Read(bl, log) ==
    IF log = <<>> THEN NoPrev
    ELSE LET sorted == SortSeq(LastLines(log), GtidLess)
             rest   == ToSet(Tail(sorted))
         IN  [anchor    |-> sorted[1],
              seen      |-> [g \in rest |-> FALSE],
              trxs      |-> {Entry(bl, g) : g \in rest},
              allTested |-> FALSE]

\* Fault variant used by a mutation run: the stream restarts one
\* transaction after the anchor's end.
ResumeAfterNext(pe) == pe.anchor + 1

\* pos_config = {'log_file': start_log_file, 'log_pos': start_log_pos}:
\* last_log_pos is the end of the anchor's terminating event, so the
\* stream restarts with the transaction after the anchor.
ResumeIndex(pe) == pe.anchor

\* PreviousExecution._has_paired_trx
HasPairedTrx(pe, x) ==
    \E t \in pe.trxs : t.type = "XA_COMMIT" /\ t.xid = x

\* Fault variants used by mutation runs: executed() answers with the old
\* seen mark instead of TRUE, or skips an untracked gtid.
ExecutedReturnsMark(bl, pe, g) ==
    /\ ~pe.allTested
    /\ g \in DOMAIN pe.seen
    /\ pe.seen[g]
ExecutedUntracked(bl, pe, g) ==
    /\ ~pe.allTested
    /\ g \in DOMAIN pe.seen =>
          (bl[g].type = "XA_PREPARE" => HasPairedTrx(pe, bl[g].xid))

\* The answer of PreviousExecution.executed(gtid): once every tracked gtid
\* was seen it is FALSE; an untracked gtid is FALSE; a tracked XA PREPARE
\* is skipped only if its XA COMMIT is logged too; any other tracked one
\* is skipped.
Executed(bl, pe, g) ==
    /\ ~pe.allTested
    /\ g \in DOMAIN pe.seen
    /\ bl[g].type = "XA_PREPARE" => HasPairedTrx(pe, bl[g].xid)

\* What executed(gtid) leaves in the PreviousExecution: a tracked gtid is
\* marked seen and _all_tested becomes all(overlapped_gtids.values()).
AfterExecuted(pe, g) ==
    IF ~pe.allTested /\ g \in DOMAIN pe.seen
    THEN LET seen == [pe.seen EXCEPT ![g] = TRUE]
         IN  [pe EXCEPT !.seen = seen,
                        !.allTested = \A h \in DOMAIN seen : seen[h]]
    ELSE pe

=============================================================================
