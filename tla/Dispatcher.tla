----------------------------- MODULE Dispatcher -----------------------------
(***************************************************************************)
(* The replay process of dumpbinlog-tool: the main thread that reads       *)
(* transactions from the binlog and puts them on trx_queue (dumpbinlog.py  *)
(* main), the Dispatcher-Thread (executor.py TransactionDispatcher.run),   *)
(* the pool of MysqlConnection objects it owns, and the worker threads     *)
(* (_worker, Job.execute) that talk to it through the g_jobs and           *)
(* g_jobs_done queues and the g_shutdown flag.                             *)
(*                                                                         *)
(* The binlog itself is generated as the run goes: each fetch appends one  *)
(* sealed transaction that MySQL could have written next.                  *)
(***************************************************************************)
EXTENDS Recovery, Sequences, SequencesExt, FiniteSets

CONSTANTS
    MaxTrx,          \* number of transactions the source writes
    MaxConn,         \* max_connections: size of the pool and of the workers
    QueueCap,        \* capacity of trx_queue (500 in dumpbinlog.py)
    MaxHeldXA,       \* most XA transactions prepared and not yet committed
    DrainMayTimeOut, \* a job may outlast the 5 s get timeout of _drain_jobs
    MaxSqlErrors,    \* statements that fail with pymysql.err.Error, at most
    ConnectMayFail,  \* pymysql.connect may raise OperationalError
    None,            \* the None sentinel of trx_queue and g_jobs
    NoConn           \* no MysqlConnection (conn is None)

ASSUME /\ MaxTrx \in Nat \ {0} /\ MaxSeq >= MaxTrx
       /\ MaxConn \in Nat \ {0} /\ QueueCap \in Nat \ {0}
       /\ MaxHeldXA \in Nat /\ MaxSqlErrors \in Nat
       /\ {DrainMayTimeOut, ConnectMayFail} \subseteq BOOLEAN

Gtids   == 1..MaxTrx
Conns   == 1..MaxConn       \* self._connections, in creation order
Workers == 1..MaxConn       \* _create_threads starts max_connections threads

\* A Job pairs a transaction with a connection; empty is len(sql_list) == 0.
Jobs  == [gtid : Gtids, conn : Conns, empty : BOOLEAN]
NoJob == [gtid |-> 0, conn |-> NoConn, empty |-> FALSE]

ConnStatus == {"NONE", "IDLE", "BUSY", "XA_PREPARED"}   \* NONE: not opened
NewConn == [status |-> "IDLE", xid |-> NoXid, ignored |-> FALSE]

VARIABLES
    binlog,      \* the source binlog written so far; gtid i is binlog[i]
    crashes,     \* restarts of the process so far (see Resume)
    mpc, mtrx,   \* main thread: where it is, the transaction it holds
    rpos,        \* the stream: transactions of the binlog read so far
    trxq,        \* trx_queue
    dpc,         \* Dispatcher-Thread: where it is in run()
    dtrx, dconn, dclear, \* run()'s locals trx, conn, and trx.sql_list = []
    curFile,     \* run()'s current_file (0 is '')
    running,     \* self._running_transactions
    conns,       \* self._connections: status, _xid, xa_prepare_ignored
    jobs,        \* g_jobs
    done,        \* g_jobs_done
    wpc, wjob,   \* each worker: where it is, the job it executes
    shutdown,    \* g_shutdown
    interrupted, \* _thread.interrupt_main() pending in the main thread
    alive,       \* FALSE once force_exit() ended the process
    plog,        \* progress.log: the gtids trx_logger wrote, in order
    prepOn,      \* history: the connection each XA PREPARE was issued on
    prev,        \* self._prev_execution (NoPrev for None)
    sqlErrors,   \* statements that have failed so far
    sess,        \* each destination session's open, uncommitted work
    partial,     \* transactions of which only some statements committed
    unlogged     \* history: commits whose progress.log line a crash lost,
                 \* each with the length of progress.log at the crash

mainVars == <<mpc, mtrx, rpos>>
dispVars == <<dpc, dtrx, dconn, dclear, curFile, running, prev>>
destVars == <<sqlErrors, sess, partial, unlogged>>
workVars == <<jobs, done, wpc, wjob>>
flagVars == <<shutdown, interrupted, alive>>
srcVars  == <<binlog, crashes>>
vars == <<srcVars, destVars, mainVars, trxq, dispVars, conns, workVars,
          flagVars, plog, prepOn>>

-----------------------------------------------------------------------------
(* The source.  Within one file sequence_number counts up from 1 and      *)
(* last_committed is any earlier sequence number (WRITESET tracking may    *)
(* lower it); a rotation starts the next file.                             *)

LastFile == IF binlog = <<>> THEN 1 ELSE Last(binlog).file
NextSn(f) == IF binlog # <<>> /\ Last(binlog).file = f
             THEN Last(binlog).sn + 1 ELSE 1
XidsOf(type) == {binlog[i].xid : i \in {i \in DOMAIN binlog :
                                           binlog[i].type = type}}
HeldXids == XidsOf("XA_PREPARE") \ XidsOf("XA_COMMIT")

SourceNext ==
    {t \in Trx : /\ t.file \in {LastFile, LastFile + 1}
                 /\ t.sn = NextSn(t.file)
                 /\ \/ t.type = "NORMAL" /\ ~t.empty
                    \/ /\ t.type = "XA_PREPARE"
                       /\ t.xid \notin XidsOf("XA_PREPARE")
                       /\ Cardinality(HeldXids) < MaxHeldXA
                    \/ t.type = "XA_COMMIT" /\ t.xid \in HeldXids /\ ~t.empty}

\* What the source writes next.  An MC module may narrow it to a workload.
SourceWrites == SourceNext

-----------------------------------------------------------------------------
(* The connection pool (TransactionDispatcher._get_appropriate_connection) *)

Opened  == {c \in Conns : conns[c].status # "NONE"}
CanOpen == Cardinality(Opened) < MaxConn

\* Fault variants used by mutation runs: the lookup takes any connection
\* that is not XA_PREPARED, or any XA_PREPARED one whatever its XID.
PickNotPrepared(cs, g) ==
    LET cand == IF binlog[g].type = "XA_COMMIT"
                THEN {c \in Conns : cs[c].status = "XA_PREPARED"
                                    /\ cs[c].xid = binlog[g].xid}
                ELSE {c \in Conns : cs[c].status \notin {"NONE", "XA_PREPARED"}}
    IN  IF cand = {} THEN NoConn ELSE Min(cand)
PickAnyPrepared(cs, g) ==
    LET cand == IF binlog[g].type = "XA_COMMIT"
                THEN {c \in Conns : cs[c].status = "XA_PREPARED"}
                ELSE {c \in Conns : cs[c].status = "IDLE"}
    IN  IF cand = {} THEN NoConn ELSE Min(cand)

\* The first connection in self._connections that trx may use.
Pick(cs, g) ==
    LET cand == IF binlog[g].type = "XA_COMMIT"
                THEN {c \in Conns : cs[c].status = "XA_PREPARED"
                                    /\ cs[c].xid = binlog[g].xid}
                ELSE {c \in Conns : cs[c].status = "IDLE"}
    IN  IF cand = {} THEN NoConn ELSE Min(cand)

\* One call: open a connection while the pool is below capacity (a failed
\* connect ends the process), then look one up; a commit paired with an
\* ignored prepare has its statements cleared.
GetConnection(g) ==
    \/ /\ CanOpen /\ ConnectMayFail
       /\ alive' = FALSE
       /\ UNCHANGED <<dconn, dclear, conns>>
    \/ LET cs == IF CanOpen
                 THEN [conns EXCEPT ![Cardinality(Opened) + 1] = NewConn]
                 ELSE conns
           c  == Pick(cs, g)
       IN  /\ conns' = cs
           /\ dconn' = c
           /\ dclear' = (c # NoConn /\ binlog[g].type = "XA_COMMIT"
                         /\ cs[c].ignored)
           /\ UNCHANGED alive

\* TransactionDispatcher._can_do_parallel
CanDoParallel(g) ==
    running = {} \/ \E r \in running : Interleaved(binlog[g], binlog[r])

\* Fault variant: the transaction is never removed from the running set.
AfterExecuteKeepsRunning(j) ==
    /\ conns' = [conns EXCEPT ![j.conn] =
                   IF binlog[j.gtid].type = "XA_PREPARE"
                   THEN [status |-> "XA_PREPARED", xid |-> binlog[j.gtid].xid,
                         ignored |-> j.empty]
                   ELSE [@ EXCEPT !.status = "IDLE", !.ignored = FALSE]]
    /\ running' = running

\* Job.after_execute, then removal from the running set.
AfterExecute(j) ==
    /\ conns' = [conns EXCEPT ![j.conn] =
                   IF binlog[j.gtid].type = "XA_PREPARE"
                   THEN [status |-> "XA_PREPARED", xid |-> binlog[j.gtid].xid,
                         ignored |-> j.empty]
                   ELSE [@ EXCEPT !.status = "IDLE", !.ignored = FALSE]]
    /\ running' = running \ {j.gtid}

\* One g_jobs_done.get() of _complete_jobs or _drain_jobs.
CompleteJob ==
    /\ done # <<>>
    /\ AfterExecute(Head(done))
    /\ done' = Tail(done)
-----------------------------------------------------------------------------
(* The destination session of each connection.  __init__ sets autocommit, *)
(* so a session has open work only inside an explicit transaction: every  *)
(* non-empty job starts with BEGIN, START TRANSACTION, a DDL or (XA        *)
(* COMMIT) COMMIT, and each of these first commits what the session holds  *)
(* open.  A NORMAL job then commits its own work; an XA PREPARE leaves it  *)
(* open for the paired XA COMMIT.  Open work is only a gtid and whether it *)
(* is all of the transaction's statements.                                 *)

NoWork == [gtid |-> 0, whole |-> FALSE]

\* The first statement of a job commits the session's open work.
CommitOpen(c) ==
    IF sess[c].gtid # 0 /\ ~sess[c].whole
    THEN partial \cup {sess[c].gtid} ELSE partial

\* All statements of job j ran.
RunAll(j) ==
    /\ partial' = IF j.empty THEN partial ELSE CommitOpen(j.conn)
    /\ sess' = [sess EXCEPT ![j.conn] =
                  IF j.empty THEN @
                  ELSE IF binlog[j.gtid].type = "XA_PREPARE"
                  THEN [gtid |-> j.gtid, whole |-> TRUE] ELSE NoWork]

\* A statement of job j failed and the rest were abandoned: the first one
\* (nothing ran), or a later one of a NORMAL or XA PREPARE job, which
\* leaves the statements before it open on the session.
RunUntilError(j) ==
    \/ UNCHANGED <<sess, partial>>
    \/ /\ binlog[j.gtid].type # "XA_COMMIT"
       /\ partial' = CommitOpen(j.conn)
       /\ sess' = [sess EXCEPT ![j.conn] = [gtid |-> j.gtid, whole |-> FALSE]]

-----------------------------------------------------------------------------
(* Main thread: for trx in stream: trx_queue.put(trx); on KeyboardInterrupt *)
(* stream.close(), dispatcher.quit(), dispatcher.join().                   *)

\* BinlogTrxReader.fetch_one returns the next sealed transaction, one the
\* source writes now.  A pending interrupt_main() is raised at the next
\* bytecode instead.
MainFetch ==
    /\ alive
    /\ mpc = "fetch" /\ ~interrupted
    /\ rpos = Len(binlog) /\ Len(binlog) < MaxTrx
    /\ \E t \in SourceWrites : binlog' = Append(binlog, t)
    /\ rpos' = rpos + 1 /\ mtrx' = rpos + 1
    /\ mpc' = "put"
    /\ UNCHANGED <<crashes, destVars, trxq, dispVars, conns, workVars,
                   flagVars, plog, prepOn>>

\* fetch_one returns a transaction the source wrote before: after a restart
\* the stream starts again at the resume position.
MainRead ==
    /\ alive
    /\ mpc = "fetch" /\ ~interrupted
    /\ rpos < Len(binlog)
    /\ rpos' = rpos + 1 /\ mtrx' = rpos + 1
    /\ mpc' = "put"
    /\ UNCHANGED <<srcVars, destVars, trxq, dispVars, conns, workVars,
                   flagVars, plog, prepOn>>

\* Fault variant: the put does not block on a full queue.
MainPutUnbounded ==
    /\ alive
    /\ mpc = "put"
    /\ trxq' = Append(trxq, mtrx)
    /\ mpc' = "fetch" /\ mtrx' = 0
    /\ UNCHANGED <<srcVars, destVars, rpos, dispVars, conns, workVars,
                   flagVars, plog, prepOn>>

\* trx_queue.put(trx) blocks while the queue is full.
MainPut ==
    /\ alive
    /\ mpc = "put"
    /\ Len(trxq) < QueueCap
    /\ trxq' = Append(trxq, mtrx)
    /\ mpc' = "fetch" /\ mtrx' = 0
    /\ UNCHANGED <<srcVars, destVars, rpos, dispVars, conns, workVars,
                   flagVars, plog, prepOn>>

\* The KeyboardInterrupt of interrupt_main() is raised only between
\* bytecodes, never inside a blocked put; raising it clears the request.
MainInterrupted ==
    /\ alive
    /\ mpc = "fetch" /\ interrupted
    /\ mpc' = "quit" /\ interrupted' = FALSE
    /\ UNCHANGED <<srcVars, destVars, mtrx, rpos, trxq, dispVars, conns,
                   workVars, shutdown, alive, plog, prepOn>>

\* Control-C: a real SIGINT interrupts the main thread even when blocked
\* (a pending interrupt_main() is the same SIGINT and is raised with it).
\* Pressed while the interpreter waits for the threads of an aborted main,
\* it ends the process.
UserInterrupt ==
    /\ alive
    /\ \/ mpc \in {"fetch", "put"} /\ mpc' = "quit" /\ UNCHANGED alive
       \/ mpc = "aborted" /\ alive' = FALSE /\ UNCHANGED mpc
    /\ interrupted' = FALSE
    /\ UNCHANGED <<srcVars, destVars, mtrx, rpos, trxq, dispVars, conns,
                   workVars, shutdown, plog, prepOn>>

\* The finally block: stream.close(), then TransactionDispatcher.quit.  A
\* pending interrupt is raised first.
MainQuit ==
    /\ alive
    /\ mpc = "quit" /\ ~interrupted
    /\ shutdown' = TRUE
    /\ trxq' = IF trxq = <<>> THEN <<None>> ELSE trxq
    /\ mpc' = "join"
    /\ UNCHANGED <<srcVars, destVars, mtrx, rpos, dispVars, conns, workVars,
                   interrupted, alive, plog, prepOn>>

\* A second KeyboardInterrupt, raised in the finally block before quit():
\* main() ends with it, and the interpreter waits for the non-daemon
\* dispatcher and worker threads.
MainAbort ==
    /\ alive
    /\ mpc = "quit" /\ interrupted
    /\ mpc' = "aborted" /\ interrupted' = FALSE
    /\ UNCHANGED <<srcVars, destVars, mtrx, rpos, trxq, dispVars, conns,
                   workVars, shutdown, alive, plog, prepOn>>

\* dispatcher.join() returns once run() has returned.
MainJoined ==
    /\ alive
    /\ mpc = "join" /\ dpc = "exit"
    /\ mpc' = "done"
    /\ UNCHANGED <<srcVars, destVars, mtrx, rpos, trxq, dispVars, conns,
                   workVars, flagVars, plog, prepOn>>

-----------------------------------------------------------------------------
(* Dispatcher-Thread: TransactionDispatcher.run                           *)

\* Top of the loop; on shutdown _join_all_threads posts the sentinel.
DispTop ==
    /\ alive
    /\ dpc = "top"
    /\ IF shutdown
       THEN jobs' = Append(jobs, None) /\ dpc' = "joinwait"
       ELSE dpc' = "get" /\ UNCHANGED jobs
    /\ UNCHANGED <<srcVars, destVars, mainVars, trxq, dtrx, dconn, dclear,
                   curFile, running, prev, conns, done, wpc, wjob, flagVars,
                   plog, prepOn>>

\* _join_all_threads polls until no worker is alive.
DispJoined ==
    /\ alive
    /\ dpc = "joinwait" /\ \A w \in Workers : wpc[w] = "exited"
    /\ dpc' = "exit"
    /\ UNCHANGED <<srcVars, destVars, mainVars, trxq, dtrx, dconn, dclear,
                   curFile, running, prev, conns, workVars, flagVars, plog,
                   prepOn>>

\* trx = self._trx_queue.get(); None and the transactions the previous
\* execution already replayed (PreviousExecution.executed) are skipped; a
\* new file is drained first.
DispGet ==
    /\ alive
    /\ dpc = "get" /\ trxq # <<>>
    /\ trxq' = Tail(trxq)
    /\ LET g == Head(trxq) IN
       IF g = None
       THEN dpc' = "top" /\ UNCHANGED <<dtrx, prev>>
       ELSE /\ prev' = AfterExecuted(prev, g)
            /\ IF Executed(binlog, prev, g)
               THEN dpc' = "top" /\ UNCHANGED dtrx
               ELSE /\ dtrx' = g
                    /\ dpc' = IF binlog[g].file # curFile
                              THEN "drain" ELSE "probe"
    /\ UNCHANGED <<srcVars, destVars, mainVars, dconn, dclear, curFile,
                   running, conns, workVars, flagVars, plog, prepOn>>

\* _drain_jobs: one g_jobs_done.get(timeout=5) while jobs are running.
DispDrainOne ==
    /\ alive
    /\ dpc = "drain" /\ running # {}
    /\ CompleteJob
    /\ UNCHANGED <<srcVars, destVars, mainVars, trxq, dpc, dtrx, dconn,
                   dclear, curFile, prev, jobs, wpc, wjob, flagVars, plog,
                   prepOn>>

\* Fault variant: the drain returns at once.
DispDrainEndNoWait ==
    /\ alive
    /\ dpc = "drain"
    /\ curFile' = binlog[dtrx].file
    /\ dpc' = "probe"
    /\ UNCHANGED <<srcVars, destVars, mainVars, trxq, dtrx, dconn, dclear,
                   running, prev, conns, workVars, flagVars, plog, prepOn>>

\* _drain_jobs returns when nothing runs, or when the get timed out.
DispDrainEnd ==
    /\ alive
    /\ dpc = "drain"
    /\ running = {} \/ (DrainMayTimeOut /\ done = <<>>)
    /\ curFile' = binlog[dtrx].file
    /\ dpc' = "probe"
    /\ UNCHANGED <<srcVars, destVars, mainVars, trxq, dtrx, dconn, dclear,
                   running, prev, conns, workVars, flagVars, plog, prepOn>>

\* Probe parallelism before taking a connection.
DispProbe ==
    /\ alive
    /\ dpc = "probe"
    /\ IF CanDoParallel(dtrx)
       THEN GetConnection(dtrx)
       ELSE dconn' = NoConn /\ UNCHANGED <<conns, dclear, alive>>
    /\ dpc' = "loop"
    /\ UNCHANGED <<srcVars, destVars, mainVars, trxq, dtrx, curFile, running,
                   prev, workVars, shutdown, interrupted, plog, prepOn>>

\* The while-else: a job is issued (Job.__init__ marks the conn BUSY).
DispIssue ==
    /\ alive
    /\ dpc = "loop"
    /\ dconn # NoConn /\ CanDoParallel(dtrx)
    /\ running' = running \cup {dtrx}
    /\ conns' = [conns EXCEPT ![dconn].status = "BUSY"]
    /\ jobs' = Append(jobs, [gtid |-> dtrx, conn |-> dconn,
                             empty |-> binlog[dtrx].empty \/ dclear])
    /\ prepOn' = IF binlog[dtrx].type = "XA_PREPARE"
                 THEN [prepOn EXCEPT ![binlog[dtrx].xid] = dconn] ELSE prepOn
    /\ dpc' = "top"
    /\ dtrx' = 0 /\ dconn' = NoConn /\ dclear' = FALSE
    /\ UNCHANGED <<srcVars, destVars, mainVars, trxq, curFile, prev, done,
                   wpc, wjob, flagVars, plog>>

\* The loop condition holds: go and complete jobs.
DispWait ==
    /\ alive
    /\ dpc = "loop"
    /\ ~(dconn # NoConn /\ CanDoParallel(dtrx))
    /\ dpc' = "complete"
    /\ UNCHANGED <<srcVars, destVars, mainVars, trxq, dtrx, dconn, dclear,
                   curFile, running, prev, conns, workVars, flagVars, plog,
                   prepOn>>

\* _complete_jobs: take finished jobs until g_jobs_done is empty.
DispCompleteOne ==
    /\ alive
    /\ dpc = "complete"
    /\ CompleteJob
    /\ UNCHANGED <<srcVars, destVars, mainVars, trxq, dpc, dtrx, dconn,
                   dclear, curFile, prev, jobs, wpc, wjob, flagVars, plog,
                   prepOn>>

DispCompleteEnd ==
    /\ alive
    /\ dpc = "complete" /\ done = <<>>
    /\ dpc' = "reget"
    /\ UNCHANGED <<srcVars, destVars, mainVars, trxq, dtrx, dconn, dclear,
                   curFile, running, prev, conns, workVars, flagVars, plog,
                   prepOn>>

\* Retry the connection if none is held, then break out on g_shutdown
\* (the transaction is dropped).
DispReget ==
    /\ alive
    /\ dpc = "reget"
    /\ IF dconn = NoConn
       THEN GetConnection(dtrx)
       ELSE UNCHANGED <<conns, dconn, dclear, alive>>
    /\ dpc' = IF shutdown THEN "top" ELSE "loop"
    /\ UNCHANGED <<srcVars, destVars, mainVars, trxq, dtrx, curFile, running,
                   prev, workVars, shutdown, interrupted, plog, prepOn>>

-----------------------------------------------------------------------------
(* Worker threads: _worker and Job.execute                                *)

\* Fault variant: the worker passes the sentinel on but does not break.
WorkerTakeNoBreak(w) ==
    /\ alive
    /\ wpc[w] = "wait" /\ jobs # <<>>
    /\ IF Head(jobs) = None
       THEN /\ jobs' = Append(Tail(jobs), None)
            /\ UNCHANGED <<wpc, wjob>>
       ELSE /\ jobs' = Tail(jobs)
            /\ wpc' = [wpc EXCEPT ![w] = "exec"]
            /\ wjob' = [wjob EXCEPT ![w] = Head(jobs)]
    /\ UNCHANGED <<srcVars, destVars, mainVars, trxq, dispVars, conns, done,
                   flagVars, plog, prepOn>>

\* job = g_jobs.get(); the None sentinel is put back before the thread ends.
WorkerTake(w) ==
    /\ alive
    /\ wpc[w] = "wait" /\ jobs # <<>>
    /\ IF Head(jobs) = None
       THEN /\ jobs' = Append(Tail(jobs), None)
            /\ wpc' = [wpc EXCEPT ![w] = "exited"]
            /\ UNCHANGED wjob
       ELSE /\ jobs' = Tail(jobs)
            /\ wpc' = [wpc EXCEPT ![w] = "exec"]
            /\ wjob' = [wjob EXCEPT ![w] = Head(jobs)]
    /\ UNCHANGED <<srcVars, destVars, mainVars, trxq, dispVars, conns, done,
                   flagVars, plog, prepOn>>

\* Job.execute: every statement succeeds, trx_logger logs the transaction,
\* and _worker puts the job on g_jobs_done.
WorkerExecute(w) ==
    /\ alive
    /\ wpc[w] = "exec"
    /\ RunAll(wjob[w])
    /\ plog' = Append(plog, wjob[w].gtid)
    /\ done' = Append(done, wjob[w])
    /\ wpc' = [wpc EXCEPT ![w] = "wait"]
    /\ wjob' = [wjob EXCEPT ![w] = NoJob]
    /\ UNCHANGED <<srcVars, sqlErrors, unlogged, mainVars, trxq, dispVars,
                   conns, jobs, flagVars, prepOn>>

\* Job.execute: a statement raises pymysql.err.Error, the rest are
\* abandoned, and the worker reads g_shutdown.  When it is already set the
\* job returns at once and _worker puts it on g_jobs_done.
WorkerFail(w) ==
    /\ alive
    /\ wpc[w] = "exec" /\ ~wjob[w].empty /\ sqlErrors < MaxSqlErrors
    /\ sqlErrors' = sqlErrors + 1
    /\ RunUntilError(wjob[w])
    /\ IF shutdown
       THEN /\ done' = Append(done, wjob[w])
            /\ wpc' = [wpc EXCEPT ![w] = "wait"]
            /\ wjob' = [wjob EXCEPT ![w] = NoJob]
       ELSE /\ wpc' = [wpc EXCEPT ![w] = "interrupt"]
            /\ UNCHANGED <<done, wjob>>
    /\ UNCHANGED <<srcVars, unlogged, mainVars, trxq, dispVars, conns, jobs,
                   flagVars, plog, prepOn>>

\* g_shutdown was False when read: set it, interrupt_main(), return.
\* Another failing worker may have read it in between.
WorkerInterrupt(w) ==
    /\ alive
    /\ wpc[w] = "interrupt"
    /\ shutdown' = TRUE /\ interrupted' = TRUE
    /\ done' = Append(done, wjob[w])
    /\ wpc' = [wpc EXCEPT ![w] = "wait"]
    /\ wjob' = [wjob EXCEPT ![w] = NoJob]
    /\ UNCHANGED <<srcVars, destVars, mainVars, trxq, dispVars, conns, jobs,
                   alive, plog, prepOn>>

-----------------------------------------------------------------------------
Init ==
    /\ binlog = <<>> /\ crashes = 0
    /\ mpc = "fetch" /\ mtrx = 0 /\ rpos = 0
    /\ trxq = <<>>
    /\ dpc = "top" /\ dtrx = 0 /\ dconn = NoConn /\ dclear = FALSE
    /\ curFile = 0
    /\ running = {}
    /\ conns = [c \in Conns |-> [status |-> "NONE", xid |-> NoXid,
                                 ignored |-> FALSE]]
    /\ jobs = <<>> /\ done = <<>>
    /\ wpc = [w \in Workers |-> "wait"] /\ wjob = [w \in Workers |-> NoJob]
    /\ shutdown = FALSE /\ interrupted = FALSE /\ alive = TRUE
    /\ plog = <<>>
    /\ prepOn = [x \in Xids |-> NoConn]
    /\ prev = NoPrev
    /\ sqlErrors = 0 /\ sess = [c \in Conns |-> NoWork] /\ partial = {}
    /\ unlogged = {}

Main == MainFetch \/ MainRead \/ MainPut \/ MainInterrupted \/ UserInterrupt
        \/ MainQuit \/ MainAbort \/ MainJoined
Dispatch == DispTop \/ DispJoined \/ DispGet \/ DispDrainOne \/ DispDrainEnd
            \/ DispProbe \/ DispIssue \/ DispWait \/ DispCompleteOne
            \/ DispCompleteEnd \/ DispReget
Worker(w) == WorkerTake(w) \/ WorkerExecute(w) \/ WorkerFail(w)
             \/ WorkerInterrupt(w)

\* The process has ended: main returned, or force_exit(), or main was
\* aborted and every thread has returned.
ProcessEnded ==
    \/ mpc = "done" \/ ~alive
    \/ mpc = "aborted" /\ dpc = "exit" /\ \A w \in Workers : wpc[w] = "exited"

Terminated == ProcessEnded /\ UNCHANGED vars

Next == Main \/ Dispatch \/ (\E w \in Workers : Worker(w)) \/ Terminated

\* Threads are scheduled by the OS: each one that can run eventually does.
\* Reading what the source has written is fair; waiting for the source to
\* write more (it may be idle) and Control-C are not.
Fairness ==
    /\ WF_vars(MainRead \/ MainPut \/ MainInterrupted \/ MainQuit \/ MainAbort
               \/ MainJoined)
    /\ WF_vars(Dispatch)
    /\ \A w \in Workers : WF_vars(Worker(w))

Spec == Init /\ [][Next]_vars /\ Fairness
-----------------------------------------------------------------------------
(* Properties                                                              *)

Conn == Conns \cup {NoConn}

TypeOK ==
    /\ binlog \in Seq(Trx) /\ Len(binlog) <= MaxTrx /\ crashes \in Nat
    /\ mpc \in {"fetch", "put", "quit", "join", "done", "aborted"}
    /\ mtrx \in 0..MaxTrx
    /\ rpos \in 0..Len(binlog) /\ prev.anchor \in 0..Len(binlog)
    /\ trxq \in Seq(Gtids \cup {None}) /\ Len(trxq) <= QueueCap
    /\ dpc \in {"top", "get", "drain", "probe", "loop", "complete", "reget",
                "joinwait", "exit"}
    /\ dtrx \in 0..MaxTrx /\ dconn \in Conn /\ dclear \in BOOLEAN
    /\ curFile \in 0..MaxFile /\ running \subseteq Gtids
    /\ conns \in [Conns -> [status : ConnStatus, xid : Xids \cup {NoXid},
                            ignored : BOOLEAN]]
    /\ jobs \in Seq(Jobs \cup {None}) /\ done \in Seq(Jobs)
    /\ wpc \in [Workers -> {"wait", "exec", "interrupt", "exited"}]
    /\ wjob \in [Workers -> Jobs \cup {NoJob}]
    /\ {shutdown, interrupted, alive} \subseteq BOOLEAN
    /\ plog \in Seq(Gtids) /\ prepOn \in [Xids -> Conn]
    /\ sqlErrors \in 0..MaxSqlErrors /\ partial \subseteq Gtids
    /\ sess \in [Conns -> [gtid : 0..MaxTrx, whole : BOOLEAN]]
    /\ unlogged \subseteq Gtids \X Nat

\* Jobs issued and not yet executed to the end (queued or in a worker).
InFlight == {j.gtid : j \in ToSet(jobs) \ {None}}
            \cup {wjob[w].gtid : w \in {w \in Workers : wpc[w] = "exec"}}

\* Jobs whose connection the dispatcher has not taken back yet.
Owned == (ToSet(jobs) \ {None}) \cup ToSet(done)
         \cup {wjob[w] : w \in {w \in Workers : wpc[w] \in {"exec", "interrupt"}}}

\* Single-writer discipline of the connection pool (Job.__init__,
\* Job.after_execute, _running_transactions): a connection is BUSY exactly
\* while one job owns it, no two jobs share one, the running set is the set
\* of owned transactions, and the connection run() holds for the next job
\* is not in use.
ConnectionExclusive ==
    /\ \A j1, j2 \in Owned : j1 # j2 => j1.conn # j2.conn
    /\ \A c \in Conns : conns[c].status = "BUSY" <=> \E j \in Owned : j.conn = c
    /\ running = {j.gtid : j \in Owned}
    /\ dconn # NoConn => conns[dconn].status \in {"IDLE", "XA_PREPARED"}

\* The XA PREPARE issued for an XID.
PrepareOf(x) == CHOOSE i \in DOMAIN binlog :
                    binlog[i].type = "XA_PREPARE" /\ binlog[i].xid = x

\* XA pairing of _get_appropriate_connection and after_execute: an XA
\* COMMIT runs on the very connection its XA PREPARE ran on, and it runs no
\* statement exactly when the prepare ran none.
XACommitOnPrepareConnection ==
    \A j \in Owned :
        binlog[j.gtid].type = "XA_COMMIT" =>
            LET x == binlog[j.gtid].xid
            IN  /\ j.conn = prepOn[x]
                /\ j.empty = binlog[PrepareOf(x)].empty

\* Dependency numbers of two files are not comparable, so _drain_jobs must
\* let every job of the old file finish before one of the new file runs.
FileBoundaryRespected ==
    \A a, b \in InFlight : binlog[a].file = binlog[b].file

\* A transaction reaches the destination whole or not at all.  A failed
\* statement leaves what ran before it open on the session and Job.execute
\* returns; the connection goes back to the pool (after_execute), and the
\* first statement of any later job on it would commit that part.
AtomicApply == partial = {}

\* The LOGICAL_CLOCK rule: two transactions never execute at the same time
\* when one depends on the other.
NoDependentConcurrency ==
    \A a, b \in InFlight : ~DependsOn(binlog[b], binlog[a])

\* Once quit() has run, run() and every worker thread return: the None
\* put on trx_queue wakes run(), whose _join_all_threads posts the g_jobs
\* sentinel that each worker passes on before it exits (or the process
\* was ended by force_exit).
ShutdownCompletes ==
    mpc = "join" ~> ((dpc = "exit" /\ \A w \in Workers : wpc[w] = "exited")
                 \/ ~alive)

\* Every transaction read from the binlog is eventually replayed and logged
\* to progress.log, unless the run is shut down or ended.
Progress ==
    \A g \in Gtids :
        (g <= Len(binlog)) ~> (g \in ToSet(plog) \/ shutdown \/ ~alive)

\* After a worker's SQL error interrupts the main thread, the process ends
\* without the operator's help.
ErrorEndsProcess ==
    interrupted ~> ProcessEnded
=============================================================================
