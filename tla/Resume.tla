------------------------------- MODULE Resume -------------------------------
(***************************************************************************)
(* The replay process of Dispatcher across a crash and restart.  The      *)
(* process may die at any point (kill, power loss, an operator restarting *)
(* it after an error).  What survives is the source binlog and            *)
(* progress.log; the queues, threads, sessions and run() locals are lost, *)
(* and each session's open work is rolled back.                          *)
(* The new process runs dumpbinlog.main from the top: recovery.read on    *)
(* progress.log, the stream opened at the resume position, a new          *)
(* dispatcher holding the PreviousExecution.                              *)
(***************************************************************************)
EXTENDS Dispatcher

CONSTANT MaxCrash   \* crashes in one behaviour

ASSUME MaxCrash \in Nat

\* The process dies and is started again (dumpbinlog.main: recovery.read,
\* pos_config from the PreviousExecution, a new TransactionDispatcher).
\* The destination keeps what was committed.
Restart ==
    /\ crashes < MaxCrash
    /\ crashes' = crashes + 1
    /\ LET pe == Read(binlog, plog)
       IN  /\ prev' = pe
           /\ rpos' = IF plog = <<>> THEN 0 ELSE ResumeIndex(pe)
    /\ mpc' = "fetch" /\ mtrx' = 0 /\ trxq' = <<>>
    /\ dpc' = "top" /\ dtrx' = 0 /\ dconn' = NoConn /\ dclear' = FALSE
    /\ curFile' = 0 /\ running' = {}
    /\ conns' = [c \in Conns |-> [status |-> "NONE", xid |-> NoXid,
                                  ignored |-> FALSE]]
    /\ jobs' = <<>> /\ done' = <<>>
    /\ wpc' = [w \in Workers |-> "wait"] /\ wjob' = [w \in Workers |-> NoJob]
    /\ shutdown' = FALSE /\ interrupted' = FALSE /\ alive' = TRUE
    /\ prepOn' = [x \in Xids |-> NoConn]
    /\ sess' = [c \in Conns |-> NoWork]
    /\ UNCHANGED <<binlog, plog, sqlErrors>>

\* A crash between two steps of the process.
CrashRestart ==
    /\ Restart
    /\ UNCHANGED <<partial, unlogged>>

\* Workers in Job.execute whose statements have all run, the last one
\* committing (COMMIT, a DDL, XA COMMIT), and whose trx_logger.info has
\* not run yet.  An XA PREPARE commits nothing: its work stays open on
\* the session.
Committing == {w \in Workers : /\ wpc[w] = "exec" /\ ~wjob[w].empty
                               /\ binlog[wjob[w].gtid].type # "XA_PREPARE"}

\* The crash falls after the commits of the workers S and before their
\* progress.log lines: the destination has the transactions, the log
\* does not.
CommitThenCrash ==
    \E S \in SUBSET Committing \ {{}} :
        /\ alive
        /\ Restart
        /\ partial' = UNION {CommitOpen(wjob[w].conn) : w \in S}
        /\ unlogged' = unlogged \cup {<<wjob[w].gtid, Len(plog)>> : w \in S}

NextR == Next \/ CrashRestart \/ CommitThenCrash

\* A crash is not fair: the process may run undisturbed.
SpecR == Init /\ [][NextR]_vars /\ Fairness
-----------------------------------------------------------------------------
(* Properties                                                              *)

\* Transactions the running process holds: in the main thread, on
\* trx_queue, in run()'s trx, issued and not yet executed, or failed in a
\* worker that has not raised g_shutdown yet.
Pending == ({mtrx, dtrx} \ {0}) \cup (ToSet(trxq) \ {None}) \cup InFlight
           \cup {wjob[w].gtid : w \in {w \in Workers : wpc[w] = "interrupt"}}

\* Nothing read from the stream falls through the cracks: unless the run
\* is shutting down, every transaction up to the stream position is in
\* progress.log, still held by the process, or committed on the
\* destination in a crash window.  After a restart this is
\* what the resume position (recovery.read) and the skip predicate
\* (PreviousExecution.executed) must preserve.
EveryTransactionAccounted ==
    (alive /\ ~shutdown) =>
        \A g \in 1..rpos : \/ g \in ToSet(plog) \/ g \in Pending
                           \/ \E u \in unlogged : u[1] = g

\* A transaction is applied to the destination at most once across
\* restarts, with two exceptions.  An XA PREPARE, which executed()
\* replays on purpose when its XA COMMIT is not in the window: otherwise
\* progress.log never records a transaction twice.  And a transaction
\* whose commit a crash separated from its progress.log line (Job.execute
\* commits, then logs): the replay after the restart applies it again,
\* but only one progress.log had not recorded before the crash, so the
\* duplicates are bounded by the crash windows, not made by resume.
AtMostOnce ==
    /\ \A i, j \in DOMAIN plog :
          (i < j /\ plog[i] = plog[j]) => binlog[plog[i]].type = "XA_PREPARE"
    /\ \A u \in unlogged : \A i \in 1..u[2] : plog[i] # u[1]
=============================================================================
