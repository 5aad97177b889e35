# TLA+ models of cetus dumpbinlog-tool

This directory models the binlog replay tool in `src/dumpbinlog-tool/`. The
tool reads a MySQL binlog, rebuilds transactions, and replays them on a
destination MySQL server. It runs transactions in parallel when the source's
commit-order numbers say that is safe, and it can resume after a crash from
`progress.log`. It also models `src/xa-suspension-tool/`, a daemon that
resolves XA transactions left prepared on the backends of a cetus proxy.
The modules are checked with TLC. `PROJECT.json` lists the
components, runs, mutants, the map from definitions to source lines, the
findings and the hazards.

## 1. Inventory

### Components and their state

| Component | Source | State | Operations |
|---|---|---|---|
| TransactionModel | `transaction.py` `Transaction` | gtid, last_committed, sequence_number, binlog_file, last_log_pos, sql_list, XID, type, is_skip_schema | `isvalid`, `interleaved` (pure) |
| TransactionBuilder | `transaction.py` `BinlogTrxReader` | `current_file`, the transaction being built | `fetch_one`, `_feed_event`, `_process_rows_event`, `_trim`, `_get_xid`, `sql_insert/update/delete`, `is_ddl` |
| ConnectionPool | `executor.py` `MysqlConnection` | per connection: status IDLE/BUSY/XA_PREPARED, `_xid`, `xa_prepare_ignored`; the list `_connections` | open (in `_get_appropriate_connection`), `Job.__init__` (BUSY), `Job.after_execute` |
| Dispatcher | `executor.py` `TransactionDispatcher`, `_worker`, `Job` | `_running_transactions`, `current_file`, the run() locals, globals `g_jobs`, `g_jobs_done`, `g_shutdown`, the worker threads | `run`, `_can_do_parallel`, `_get_appropriate_connection`, `_complete_jobs`, `_drain_jobs`, `quit`, `_join_all_threads`, `Job.execute` |
| RecoveryLog | `recovery.py` | `progress.log`; `PreviousExecution`: start file/pos, `overlapped_gtids` seen-map, `_all_tested`, recovered transactions | `read`, `reverse_readline`, `executed`, `_has_paired_trx` |
| Orchestrator | `dumpbinlog.py` `main` | `trx_queue` (capacity 500), the reader loop | read loop, `KeyboardInterrupt` handling, `quit`, `join`, choice of resume coordinate |
| Configuration, Logging | `cetus_config.py`, `logger.py` | constants read once | none after start |
| XA suspension tool | `xa-suspension-tool/xa-suspension.py` | none kept between rounds; a round's XA RECOVER lists, suspended xids, status dicts | `main`, `xa_recover`, `get_suspension_xid`, `get_status`, `get_binlog`, `grep_status`, `suspension_status`, `handle_suspension`, `xa_commit`, `xa_rollback` |

### How the parts interact

- The main thread iterates `BinlogTrxReader` and puts each sealed transaction
  on `trx_queue`. The put blocks when the queue is full. This is the
  backpressure.
- The Dispatcher-Thread takes transactions in order. It skips those that
  recovery says were executed. It drains all running jobs at a file change.
  It waits until the transaction interleaves with a running one and a
  connection is available. Then it marks the connection BUSY, adds the
  transaction to the running set and puts a `Job` on `g_jobs`.
- `max_connections` worker threads take jobs from `g_jobs` and execute the
  statements. On success a worker appends the transaction to `progress.log`.
  On the first SQL error a worker sets `g_shutdown` and calls
  `interrupt_main()`. In both cases the job goes to `g_jobs_done`.
- Only the dispatcher reads `g_jobs_done`. It calls `after_execute`, which
  sets the connection IDLE, or XA_PREPARED with the XID for an XA PREPARE. It
  then removes the transaction from the running set.
- An XA COMMIT can only use the XA_PREPARED connection that holds its XID. If
  its prepare ran no statements, the commit's statements are cleared too.
- Shutdown: `quit()` sets `g_shutdown` and puts `None` on an empty
  `trx_queue`. The dispatcher posts a `None` sentinel on `g_jobs`, and each
  worker passes it on before it exits. A failed connect calls `os._exit`.
- On restart `recovery.read` takes the last 50 lines of `progress.log` and
  sorts them by gtid. The first one becomes the resume position (the end of
  that transaction). The others are skipped once when the stream brings them
  again. An XA PREPARE is skipped only if its commit is also in the window.

- The XA suspension tool is independent of the replay tool. In each round
  it runs XA RECOVER on every backend, sleeps 10 s, and runs it again. An
  xid listed by both scans of a backend is suspended there. A pool of
  `get_status` processes reads each backend's binlog with `mysqlbinlog`
  for the hour in the xid's name and greps the XA lines of the xid. The
  strongest status (COMMIT > ROLLBACK > PREPARE > END > START > NULL) per
  backend, and then over the backends, decides XA COMMIT or XA ROLLBACK
  for every suspended branch. NULL decides nothing.

### What is hard

- **Concurrency.** One dispatcher, N workers and the main thread share three
  queues and a flag. Jobs finish in any order. The running set, which gates
  admission, changes only when the dispatcher processes completions.
- **Ordering.** Parallelism is licensed only by last_committed and
  sequence_number within one file. XA COMMITs must pair with their prepare's
  session.
- **Timeouts.** The 5 s drain timeout and the 0.5 s completion poll.
- **Failure.** SQL errors, connect failures (`os._exit`), Control-C, and a
  crash at any point, followed by resume from `progress.log`.
- **Resources.** `trx_queue` is bounded, the pool has `max_connections`
  sessions, and prepared XA transactions hold sessions.

### What makes each component correct

- TransactionModel: `interleaved` is symmetric and matches MySQL's
  LOGICAL_CLOCK rule: b may run beside an earlier a iff `b.lc < a.sn`.
- Dispatcher and ConnectionPool: it never runs dependent transactions
  together, and never runs transactions of two files together. A connection
  belongs to at most one job. An XA COMMIT runs on its prepare's session. Every
  transaction is eventually replayed. Shutdown completes.
- RecoveryLog: after a crash and resume, every transaction is applied exactly
  once, including the XA transactions in flight at the crash.
- TransactionBuilder: every event sequence gives well-formed transactions,
  and XA START/END/PREPARE/COMMIT/ROLLBACK close the right transactions.
  Trimming follows the spec's examples.
- Orchestrator: an error or Control-C ends the process.
- XA suspension tool: an xid ends committed on every backend or rolled
  back on every backend (atomicity). A branch is committed only if the
  coordinator decided to commit.

## 2. Plan

In order of importance:

1. `TransactionModel.tla` (done): the record and `Interleaved`, with
   `InterleavedIsIndependence` (in `MCDispatcher`) checking it against the
   reference rule.
2. `Dispatcher.tla` (done): main thread, Dispatcher-Thread, worker pool,
   connection pool, the three queues, `g_shutdown`, SQL and connect failures,
   Control-C. The binlog is produced nondeterministically, one transaction
   per fetch.
3. `Recovery.tla` and `Resume.tla` (done): `read`, `executed` and the
   resume coordinate, with gtid strings compared as strings. They are
   composed with Dispatcher: `CrashRestart` loses the sessions (open XA work
   is rolled back) and keeps `progress.log`, and the restart resumes.
4. Destination state in Dispatcher (done): each session's open work, so
   that partial failures (a failed statement followed by an implicit
   commit) are visible. Property: `AtomicApply`.
5. `TransactionBuilder.tla` (done): events to sealed transactions (XA, DDL,
   trim), shown to implement `TransactionStream.tla`.
7. Composition of TransactionBuilder with Dispatcher, so that the
   dispatcher consumes what the builder returns (the XA ROLLBACK merge would
   then reach the pool).
6. Orchestrator details (done): the non-atomic check-and-set of
   `g_shutdown`, and a KeyboardInterrupt raised inside the `finally` block.
8. `XASuspension.tla` (done): the suspension tool's rounds against a cetus
   coordinator that may stall, with atomicity of the XA outcome.
9. The crash window of `Job.execute` (done): a kill after a job's commit
   and before its `progress.log` line (`CommitThenCrash`), with the
   destination's commits that the log does not know kept as history.

## 3. Modules

### TransactionModel.tla

`Trx` is the set of sealed transactions as the dispatcher reads them:
`file`, `lc` (last_committed), `sn` (sequence_number), `type`, `xid`, and
`empty` (whether `sql_list` is empty, the only property of the statements the
dispatcher tests). The gtid is the transaction's index in the binlog.
`Interleaved` is `Transaction.interleaved` as written. `DependsOn` is the
reference: MySQL's rule that b waits for every a with `a.sn <= b.lc` in the
same file.

### Dispatcher.tla

| Code | Model |
|---|---|
| main loop, `trx_queue.put` | `MainFetch` (fetch_one returns the next transaction), `MainPut` (blocks when full) |
| `except KeyboardInterrupt` from `interrupt_main()` | `MainInterrupted`: only between bytecodes, so never in a blocked put |
| Control-C | `UserInterrupt` (not fair) |
| `finally: quit(); join()` | `MainQuit`, `MainJoined` |
| a pending interrupt raised in `finally` before `quit()` | `MainAbort`: main ends, and the interpreter waits for the non-daemon threads (`ProcessEnded`); Control-C then ends it |
| `run()` top, `_join_all_threads` | `DispTop`, `DispJoined` |
| `trx_queue.get`, None, file check | `DispGet` |
| `_drain_jobs` | `DispDrainOne`, `DispDrainEnd` (timeout when `DrainMayTimeOut`) |
| probe then `_get_appropriate_connection` | `DispProbe` with `GetConnection`/`Pick` |
| while-else issuing `Job` | `DispIssue` |
| loop body: `_complete_jobs`, retry connection, `g_shutdown` break | `DispWait`, `DispCompleteOne`, `DispCompleteEnd`, `DispReget` |
| `_worker` | `WorkerTake` (sentinel passed on) |
| `Job.execute`, all statements succeed | `WorkerExecute`: `RunAll` on the session, `trx_logger` appends to `plog` |
| `Job.execute`, `except pymysql.err.Error` | `WorkerFail`: `RunUntilError`, then reads `g_shutdown`; `WorkerInterrupt`: sets it and calls `interrupt_main()`, a separate step, so two failing workers can both get there |
| `Job.after_execute` | `AfterExecute` inside `CompleteJob` |
| `force_exit` | `alive` becomes FALSE in `GetConnection` |

`sess[c]` is what destination session c holds open. The connections use
autocommit, so a session holds work only inside an explicit transaction.
Every non-empty job starts with a statement that commits what is open
(BEGIN, START TRANSACTION, a DDL, or the XA COMMIT's COMMIT). A NORMAL job
ends with its own commit, and an XA PREPARE leaves its work open for the
commit. A failed job leaves nothing new (its first statement failed) or the
statements before the failure open (`RunUntilError`). `partial` collects
the transactions whose incomplete work a later statement committed. A
NORMAL job is modelled in its wrapped form. The single statement that
`_trim` leaves unwrapped is not told apart: it joins an open transaction
instead of committing it, which only delays the same commit.

Each blocking call is a guard. The 0.5 s poll of `_complete_jobs` is modelled
as "take completions until `g_jobs_done` is empty", because the timeout only
delays. The source is generated: within a file `sn` counts up from 1, `lc` is
any smaller number (WRITESET tracking can lower it), a rotation starts the
next file, and an XA COMMIT names a prepared, uncommitted XID. `MaxHeldXA`
bounds the number of XA transactions that are prepared and not committed.

### Recovery.tla

| Code | Model |
|---|---|
| a `progress.log` line | the binlog index g of the logged transaction; the fields are those of `binlog[g]` |
| `reverse_readline`, `if i >= 50: break` | `LastLines`: the newest `Window` lines, newest first |
| `sorted(..., key=lambda trx: trx.gtid)` | `SortSeq` with `GtidLess`: `StrLess` over `Digits(GtidBase + g)`, Python's string order |
| `PreviousExecution.__init__` | `Read`: `anchor` (`transactions[0]`), `seen` (`overlapped_gtids`), `trxs`, `allTested` |
| `start_log_file`, `start_log_pos` | `ResumeIndex`: the stream restarts after the anchor, since `last_log_pos` is the end of its last event |
| `executed`, `_has_paired_trx` | `Executed` (the answer) and `AfterExecuted` (the seen mark and `_all_tested`) |

Dispatcher's `DispGet` calls both on each transaction it takes, as run()
does. `rpos` is the stream position: `MainRead` returns a transaction the
source already wrote (after a restart), `MainFetch` waits for a new one.

### Resume.tla

`Restart` is `dumpbinlog.main` run again after the process died:
`binlog`, `plog` and what the destination committed survive; every queue,
thread, session and local is reset; `prev` is `Read(binlog, plog)` and
the stream restarts at `ResumeIndex` (at the start when `progress.log` is
empty). A prepared XA transaction's work is lost with its session.
`CrashRestart` is a kill between two steps. `CommitThenCrash` is a kill
inside `Job.execute` after the statements of one or more workers have
committed and before their `trx_logger.info`: the destination has those
transactions, `progress.log` does not. The history variable `unlogged`
(declared in Dispatcher, changed only here) records each such commit
with the length of `progress.log` at the crash.
`EveryTransactionAccounted` says every transaction up to the stream
position is logged, still held by the process, or committed in such a
window; `AtMostOnce` says a transaction is applied twice only when it is
an unpaired XA PREPARE replayed on purpose or its commit fell in a crash
window before `progress.log` had recorded it: the resume protocol adds no
duplicates of its own.

### TransactionStream.tla and TransactionBuilder.tla

`TransactionStream` is the spec's promise (section 4.1): a source commits
`MaxTrx` transactions, each a shape (kind, row events with their filter
outcome, XID, whether the binlog rotates before it), and `Return` hands
back the next one sealed with the type, XID, file and trimmed statement
list the spec assigns to it (`Expected`, `SqlOf`).

`TransactionBuilder` consumes the events MySQL writes for the same source
(`EventsOf`: rotate, GTID, BEGIN/rows/Xid, XA START/rows/XA END/XA
PREPARE, XA COMMIT, XA ROLLBACK, DDL queries) one per step:

| Code | Model |
|---|---|
| `RotateEvent`, `GtidEvent` in `fetch_one` | `FetchRotate`, `FetchGtid` |
| `_process_rows_event` | `FeedRows`: skipped schema sets `skip`, a filtered table is dropped, else a statement |
| `XidEvent`, `XAPrepareEvent` | `FeedXid`, `FeedXAPrepare` (one phase appends commit, else type XA_PREPARE) |
| `QueryEvent` branches, `is_ddl`, `_get_xid` | `FeedQuery`, `FeedDdl` (IGNORE_DDL, `use` unless a database DDL) |
| finished: `last_log_pos`, `_trim`, return | `Seal` with `Trim` |
| `blocking=True` | `Idle` |

Statements are tokens ("begin", "commit", "stmt", ...), which is all that
`_trim` and the dispatcher tell apart. `StreamRefined == Stream!Spec`,
with `Stream == INSTANCE TransactionStream WITH src <- input, out <-
returned`, is checked as a temporal property: every builder step is a
stutter or one `Return`, and all transactions are eventually returned.

### XASuspension.tla

The tool is one process. Its environment is the cetus XA coordinator, which
is not in this repository, and the MySQL backends. `MCXASuspension.tla`
fixes two xids, the two substring relations `HexInside` takes between
them (none, or x1's hex inside x2's), and their symmetry, which is sound
only with no containment. `GrepStatus(lines, x)` keeps the lines of `x`
and of every `y` with `<<x, y>> \in HexInside`, as `grep hex(xid)` does.

| Code | Model |
|---|---|
| cetus: XA START on every backend, XA END + XA PREPARE per branch, commit or abort | `XAStart`, `XAPrepare`, `XACommitDecision`, `XAAbortDecision`, `XACommitBranch`, `XARollbackBranch` (environment; no fairness, so it may stop anywhere) |
| MySQL XA COMMIT / XA ROLLBACK of a prepared branch, and its binlog line | `Resolve` (an unknown xid is an error that changes nothing) |
| the hour passing | `Tick`; `Day`, `HourOf` with `HoursPerDay` hours a day |
| `get_all_suspesion_xid`: `map(xa_recover, ...)`, `sleep(10)`, the second map | `Scan1`, `Scan2`, one backend per step, with `XARecover` (the prepared xids, or False) |
| `get_suspension_xid`, the `TypeError` on False, `xid_final_is_null`, main's `continue` | `SuspensionRaises`, `GetSuspensionXid`, the branches of `Scan2`, `NewRound` |
| `Pool(...).map(get_status, ...)` | `StatusRead(b)`, one per backend in any order |
| `get_binlog_name` failing: `{}` | the second disjunct of `StatusRead` |
| `binlog_start_time[0]` raising `IndexError` outside main's try | `StatusDies`, then `Ended` |
| `get_binlog` window, `grep_status`, the if/elif chains | `InWindow`, `WindowLines`, `GrepStatus`, `Strongest`, `GetStatus`, `FinalStatus` |
| `handle_suspension`, `xa_commit`, `xa_rollback` | `Handle(b, x)`, backends in order, with `RollbackStatuses` |

A backend's binlog is a set of XA lines `[xid, kind, at]`, because the
status is chosen by priority, not by position. XA START and XA END are
written with the prepare and stamped with the start hour. The model keeps
the lines of the binlog files rather than the files themselves. The
temp file and the shell commands are abstracted to "the lines in the
window". The constants `Timely` and `TrxWithinHour` are the tool's own
assumptions, written as guards on the coordinator:
- `Timely`: a coordinator does not act on an xid after the tool has seen it
  prepared in both scans.
- `TrxWithinHour`: all of an xid's XA lines fall in the hour named in the
  xid.

`ConnectMayFail` lets XA RECOVER and XA COMMIT/ROLLBACK fail.
`BinlogReadMayFail` lets a backend be unreachable while its binlog is
read.

## 4. Runs

| Run | Config | Expect | Shows |
|---|---|---|---|
| dispatcher_safety | `MCDispatcher.cfg` | pass | `TypeOK`. `InterleavedIsIndependence`: for every two transactions of one file the source wrote (every range with sequence numbers up to 3), `interleaved` is symmetric and equals LOGICAL_CLOCK independence. `ConnectionExclusive`: a BUSY connection has exactly one owning job, the running set equals the owned transactions, and the reserved connection is free. `XACommitOnPrepareConnection`: a commit runs on its prepare's session and is empty iff the prepare was. `FileBoundaryRespected` when the drain waits. |
| dispatcher_progress | `MCDispatcherProgress.cfg` | pass | `Progress`: every transaction read is logged (or shutdown), across rotations and drain timeouts, when held XA < connections. `ShutdownCompletes`: once `quit()` has run, run() and all workers return. |
| dependent_concurrency | `MCDependentConcurrency.cfg` | violation | `NoDependentConcurrency` fails: `any()` in `_can_do_parallel` admits B(lc 1, sn 3) beside C(0, 2) while A(0, 1), on which B depends, still runs. |
| error_hang | `MCErrorHang.cfg` | violation | `ErrorEndsProcess` fails: after Control-C the worker's `interrupt_main()` is raised inside `finally` before `quit()`, no `None` reaches `trx_queue`, and run() blocks in `get` forever. Two workers that both read `g_shutdown` as False reach the same state without Control-C. A main thread blocked in `put` on the full queue, which never sees the interrupt, is a third way. |
| partial_commit | `MCAtomicApply.cfg` | violation | `AtomicApply` fails: an XA PREPARE's second statement fails and `g_shutdown` is set; the next transaction, an XA COMMIT in the next file, takes the drain path, whose while-else issues it without checking `g_shutdown`; after_execute has marked the session XA_PREPARED, and its COMMIT commits the half-run prepare (21 steps). |
| resume_safety | `MCResume.cfg` | pass | With a serial source, one failed statement and up to two crashes (between steps or between a commit and its log line), `EveryTransactionAccounted` and `AtMostOnce` hold across gtids 9 and 10, `Progress` holds after the last restart, and `ConnectionExclusive` holds through failed jobs and restarts. |
| resume_loses_inflight | `MCResumeLost.cfg` | violation | `EveryTransactionAccounted` fails: 1 and 2 run in parallel, 2 is logged, crash; the anchor is 2 and 1 is never replayed. |
| resume_xa_stall | `MCResumeXA.cfg` | violation | `Progress` fails: a crash right after an XA PREPARE is logged makes it the anchor, and its re-streamed commit waits forever for a prepared connection. |
| builder_refinement | `MCTransactionBuilder.cfg` | pass | `StreamRefined` for two transactions of every kind but XA ROLLBACK, every filter outcome, up to two row events, rotations, IGNORE_DDL on or off (a variable fixed in `Init`, as the configuration is read once). |
| xa_suspension_safety | `MCXASuspension.cfg` | pass | `CommittedOnlyIfDecided`: slow, stopped or aborting coordinators, failed XA RECOVER, XA COMMIT/ROLLBACK and binlog reads, and the day boundary never make the tool commit a branch of an xid whose coordinator did not decide to commit, when no xid's hex is a substring of another's (`HexInside <- NoContainment`; 844k states; the coordinator writes its lines in the xid's hour, `TrxWithinHour`, which keeps the run small). |
| xa_suspension_midnight | `MCXASuspensionMidnight.cfg` | violation | `AtomicOutcome` fails with every connection working and under the tool's assumptions. x1 is committed on backend 1 and still prepared on backend 2. Backend 2's binlog is read before midnight (PREPARE). Backend 1's is read after midnight, which searches today's window for yesterday's hour (NULL). The tool rolls back backend 2 (15 states). |
| xa_suspension_grep | `MCXASuspensionGrep.cfg` | violation | `CommittedOnlyIfDecided` fails with cetus's sequence-numbered xids (`HexInside <- SequenceNumbered`: the hex of x1, `..._1`, is a prefix of that of x2, `..._12`). x2 is committed on backend 1 while x1 is prepared there and undecided; `grep_status` for x1 returns x2's COMMIT line, and the tool commits x1 on both backends. |

### Bounds

There are 3 transactions and sequence numbers up to 3. That is the fewest that
show a transaction depending on one running transaction while it overlaps
another (needs 3), two concurrent prepares plus a commit, and a rotation with
transactions on both sides. There are 2 files, `MaxConn = 2` (workers =
connections, as `_create_threads` does), and `QueueCap = 1`, so that the
put blocks. The safety run has two XIDs and `MaxHeldXA = 2`, so a commit must
pick between two prepared sessions. `dependent_concurrency` uses 3
connections, so that three jobs can run at once. XIDs are symmetric in the
safety run. Liveness runs use no symmetry. The progress run uses one XID
(one XA transaction held at a time) and no SQL error, so it finishes in
about 2 minutes. The failure paths (one failed statement, the interrupt
in `finally`) are explored by `resume_safety`, whose serial source keeps
them small. `MaxSqlErrors` bounds the failed statements of a behaviour.
`partial_commit` needs one error and a rotation, so it uses two
transactions in two files.
Mutation runs (`PROJECT.json` "mutants") show that each property of a passing
run fails under a plausible bug: `>=` in interleaved, a put that does not
block, a lookup that takes a non-IDLE connection or ignores the XID, a drain
that does not wait, a worker that does not break after passing on the
sentinel, an `after_execute` that leaves the transaction running,
`executed` skipping untracked gtids or answering with the old seen mark,
a resume one transaction past the anchor, a `grep` that matches the XA
lines of every xid, and a `_trim` without the
`BEGIN, COMMIT` case.

The resume runs use 4 transactions, `GtidBase = 8` so that the gtids cross
from 9 to 10 (where the string sort differs from the numeric one), `Window
= 2` for the 50-line window (a window smaller than the log is what matters),
and two crashes. The passing resume runs restrict the source to chained
transactions (`lc = sn - 1`, via `SourceWrites <- ChainedWrites`), so
execution is serial: with parallel transactions the code really does lose
or duplicate transactions, as the violation runs show. The builder run uses
two transactions (the XA ROLLBACK merge needs a following transaction) and
up to two row events (the `BEGIN, x, COMMIT` trim needs one, the untrimmed
list two).

With a parallel source and a window smaller than the log, `AtMostOnce` is
violated too: with plog `<<2,1,3>>` and a window of 2 the window is
`[1,3]`, the anchor is 1, and 2 is re-streamed untracked and replayed
again. The spec bounds the window to 50 entries and replays untracked
gtids, so it leaves this open; it is listed as a hazard rather than a run.

Two questions of the dispatcher are answered by changing constants
rather than by runs of their own:
- `MCDispatcher.cfg` with `DrainMayTimeOut = TRUE`, `MaxHeldXA = 1` and
  `ConnectMayFail = FALSE` breaks `FileBoundaryRespected` when
  `_drain_jobs` times out.
- `MCDispatcherProgress.cfg` with `Xids <- MCXids`, `MaxFile = 1`,
  `MaxHeldXA = 2` and `DrainMayTimeOut = FALSE` breaks `Progress`: the two
  held prepares take both connections, and the next transaction waits
  forever.
- `MCTransactionBuilder.cfg` with `SourceKinds <- AllKindsMC` (XA ROLLBACK
  included) breaks `StreamRefined`: `_feed_event` appends ROLLBACK for XA
  ROLLBACK and does not seal it (`transaction.py:226`), so the next
  transaction (gtid 2's DDL) is returned carrying the ROLLBACK, where the
  specification seals XA ROLLBACK as a NORMAL transaction.

The suspension runs use two backends, the fewest where one branch can be
committed and another rolled back. They use two xids, so that a grep that
matches another xid's lines can commit the wrong one (the mutant of
`GrepStatus`). There are three hours with `HoursPerDay = 2`: hour 0 and
hour 1 of day 0, and hour 0 of day 1. So the last-hour case of
`get_binlog`, the yesterday case and a read on the wrong day all happen.
With `MaxTime = 1` (no midnight), `MCXASuspensionMidnight.cfg` passes:
under its assumptions and without failures the tool's decision is atomic.
Its other ways to break `AtomicOutcome` are listed as hazards. Each one
breaks it by flipping a single constant:
- `Timely = FALSE`: a slow coordinator commits after the tool's rollback.
- `BinlogReadMayFail = TRUE`: an unreachable backend's COMMIT is not seen.
- `TrxWithinHour = FALSE`: a COMMIT is written after the xid's hour.

### Fairness

Each thread is weakly fair: main's put/interrupt/quit/abort/join, the whole
Dispatcher-Thread, and each worker. They are OS threads that run whenever
they are not blocked. `MainFetch` is not fair, because the source may stay
idle. `UserInterrupt` is not fair, because an operator may never press
Control-C. `MainRead` is fair: after a restart the transactions the source
already wrote are there to read. `CrashRestart` and `CommitThenCrash` are not fair. The builder
is weakly fair: `fetch_one` runs while events are available. Deadlock is checked in every run. A finished process (`mpc =
"done"` or after `force_exit`) stutters in `Terminated`. `XASuspension` is checked for safety only and
assumes no fairness. A daemon that died in `StatusDies` stutters in
`Ended`.

## 5. Not modelled, and why

- SQL text, row formatting (`sql_insert/update/delete`), DDL detection by
  text and XID hex decoding: data. The builder models event kinds and
  statement tokens; XIDs are the decoded gtrids.
- That a transaction committed in a crash window is applied twice after
  the restart is not a violation: the spec lists exactly-once delivery
  across the crash boundary as a non-goal. `AtMostOnce` bounds it instead.
- The destination server's data: only the open work of each session and
  which transactions were committed in part. A failed statement is assumed
  not to roll the transaction back. A deadlock error would roll it back,
  which is the harmless case.
- `cetus_config.py`, `logger.py`: configuration and logging. Their values
  are the constants.
- In `xa-suspension.py`: configuration parsing (`get_config`), logging,
  the temp files and shell commands (abstracted to the set of XA lines in
  the window), and xid names. xids are model values with a given
  substring relation, so an xid without an `_hh_` part (an `IndexError`
  outside main's try) is a hazard rather than a behaviour of the model. The order of
  the xids within one backend's list is free. Whether the daemon keeps
  running is not stated: nothing restarts it after `StatusDies`.
- `--dry-run`: it prints instead of replaying.
