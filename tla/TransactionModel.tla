-------------------------- MODULE TransactionModel --------------------------
(***************************************************************************)
(* The Transaction entity of dumpbinlog-tool (src/dumpbinlog-tool/        *)
(* transaction.py, class Transaction) and its pairwise concurrency test    *)
(* Transaction.interleaved.                                                *)
(*                                                                         *)
(* A transaction is a record.  Its gtid is its position in the source      *)
(* binlog and is kept outside the record (the binlog is a sequence, the    *)
(* gtid of binlog[i] is i).  The statement list is abstracted to whether   *)
(* it is empty: the dispatcher only ever tests len(sql_list) == 0.         *)
(***************************************************************************)
EXTENDS Naturals

CONSTANTS
    Xids,      \* identifiers of XA transactions (model values)
    NoXid,     \* Transaction.XID = None
    MaxFile,   \* binlog files are 1..MaxFile, in rotation order
    MaxSeq     \* largest sequence_number the source writes in one file

ASSUME /\ NoXid \notin Xids
       /\ MaxFile \in Nat \ {0}
       /\ MaxSeq \in Nat \ {0}

\* Transaction.TRX_NORMAL, TRX_XA_PREPARE, TRX_XA_COMMIT
TrxTypes == {"NORMAL", "XA_PREPARE", "XA_COMMIT"}

\* The fields of a sealed transaction that the dispatcher reads.
\* Transaction.isvalid and the asserts of interleaved require lc < sn.
Trx == {t \in [file  : 1..MaxFile,
               lc    : 0..MaxSeq,
               sn    : 1..MaxSeq,
               type  : TrxTypes,
               xid   : Xids \cup {NoXid},
               empty : BOOLEAN] :
           /\ t.lc < t.sn
           /\ (t.type = "NORMAL") <=> (t.xid = NoXid)}

\* Fault variant used by a mutation run: >= where the code has >.
InterleavedInclusive(self, other) ==
    \/ /\ self.lc < other.lc
       /\ self.sn >= other.lc
    \/ /\ other.lc < self.sn
       /\ other.sn > self.lc

\* Transaction.interleaved(self, other): the [last_committed,
\* sequence_number] ranges of the two transactions overlap.
Interleaved(self, other) ==
    \/ /\ self.lc < other.lc
       /\ self.sn > other.lc
    \/ /\ other.lc < self.sn
       /\ other.sn > self.lc

\* MySQL's LOGICAL_CLOCK rule, the reference the test stands for: within
\* one binlog file a transaction b may only start once every transaction a
\* with a.sn <= b.lc has committed.
DependsOn(b, a) == a.file = b.file /\ a.sn <= b.lc
=============================================================================
