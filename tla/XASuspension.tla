---------------------------- MODULE XASuspension ----------------------------
(***************************************************************************)
(* xa-suspension-tool/xa-suspension.py: a daemon that finds XA            *)
(* transactions left prepared ("suspended") on the MySQL backends of a     *)
(* cetus proxy and resolves them.  Each round of main() runs XA RECOVER on *)
(* every backend, sleeps 10 s, runs it again, and treats an xid listed by  *)
(* both scans of a backend as suspended on it.  It then reads every        *)
(* backend's binlog for the hour named in the xid (mysqlbinlog             *)
(* --start-datetime/--stop-datetime, egrep "^XA", grep hex(xid)), takes    *)
(* the strongest status per backend and over all backends (COMMIT >        *)
(* ROLLBACK > PREPARE > END > START > NULL), and issues XA COMMIT or XA    *)
(* ROLLBACK for every suspended branch.                                    *)
(*                                                                         *)
(* The environment is the cetus XA coordinator (outside this repository): *)
(* it starts an xid on every backend, prepares each branch, then commits   *)
(* every branch or aborts, and may stop at any point.  Each backend keeps  *)
(* its branch state (what XA RECOVER lists) and a binlog of XA lines with  *)
(* the hour they were written.  Hours are counted from 0; a day has        *)
(* HoursPerDay of them.                                                    *)
(***************************************************************************)
EXTENDS Naturals, FiniteSets, Sequences, SequencesExt

CONSTANTS
    NBackends,         \* len(BACKEND_CONF)
    Xids,              \* xids the coordinator may use
    HexInside,         \* <<x, y>>: hex(x) is a substring of hex(y), as for
                       \* cetus's sequence-numbered xids ..._1 and ..._12
    HoursPerDay,       \* hours in a day (24; fewer keep the model small)
    MaxTime,           \* last hour the clock reaches
    ConnectMayFail,    \* MySQLdb.connect may fail (XA RECOVER, XA COMMIT/ROLLBACK)
    BinlogReadMayFail, \* a backend may be unreachable while its binlog is read
    Timely,            \* the 10 s assumption: a coordinator never acts on an
                       \* xid after the tool has seen it prepared twice
    TrxWithinHour      \* a coordinator writes all XA lines of an xid in the
                       \* hour the xid was started (the hour in its name)

ASSUME /\ NBackends \in Nat \ {0} /\ HoursPerDay \in Nat \ {0} /\ MaxTime \in Nat
       /\ {ConnectMayFail, BinlogReadMayFail, Timely, TrxWithinHour} \subseteq BOOLEAN
       /\ HexInside \subseteq {p \in Xids \X Xids : p[1] # p[2]}

Backends == 1..NBackends     \* BACKEND_CONF, in configuration order
Times    == 0..MaxTime
Day(t)    == t \div HoursPerDay
HourOf(t) == t % HoursPerDay

\* the if/elif chains of get_status and suspension_status, strongest first
Priority == <<"COMMIT", "ROLLBACK", "PREPARE", "END", "START">>

VARIABLES
    cst,        \* coordinator: "idle", "active", "commit" or "abort" per xid
    startTime,  \* hour the coordinator issued XA START (named in the xid)
    rm,         \* rm[b][x]: the state of xid x's branch on backend b
    binlog,     \* binlog[b]: the XA lines backend b has written
    clock,      \* the current hour
    tpc,        \* main(): "scan1", "scan2", "status", "handle" or "dead"
    idx,        \* map(xa_recover, BACKEND_CONF): next backend to scan
    rec1, rec2, \* all_backend_xid, all_backend_xid_next
    final,      \* final_xid: xids suspended per backend
    st,         \* pool.map(get_status): the status dict of each backend
    reading,    \* backends whose get_status has not returned yet
    todo,       \* handle_suspension: branches not yet resolved
    abandoned   \* history: xids the tool has found suspended

coord == <<cst, startTime, rm>>
tool  == <<tpc, idx, rec1, rec2, final, st, reading, todo>>
vars  == <<coord, binlog, clock, tool, abandoned>>

NoRecovered == [b \in Backends |-> [ok |-> TRUE, xids |-> {}]]

Init ==
    /\ cst = [x \in Xids |-> "idle"]
    /\ startTime = [x \in Xids |-> 0]
    /\ rm = [b \in Backends |-> [x \in Xids |-> "none"]]
    /\ binlog = [b \in Backends |-> {}]
    /\ clock = 0
    /\ tpc = "scan1" /\ idx = 1
    /\ rec1 = NoRecovered /\ rec2 = NoRecovered
    /\ final = [b \in Backends |-> {}]
    /\ st = [b \in Backends |-> <<>>]
    /\ reading = {}
    /\ todo = {}
    /\ abandoned = {}

-----------------------------------------------------------------------------
(* The cetus coordinator and MySQL (environment)                           *)

\* The coordinator may still act on x: it is not past the tool's 10 s
\* window (when Timely), and it is still in x's start hour (when
\* TrxWithinHour).
CoordinatorMayAct(x) ==
    /\ ~Timely \/ x \notin abandoned
    /\ ~TrxWithinHour \/ clock = startTime[x]

Log(x, k, t) == [xid |-> x, kind |-> k, at |-> t]

XAStart(x) ==
    /\ cst[x] = "idle"
    /\ cst' = [cst EXCEPT ![x] = "active"]
    /\ startTime' = [startTime EXCEPT ![x] = clock]
    /\ rm' = [b \in Backends |-> [rm[b] EXCEPT ![x] = "active"]]
    /\ UNCHANGED <<binlog, clock, tool, abandoned>>

\* XA END + XA PREPARE on one branch.  MySQL writes the branch's XA START
\* and XA END lines with the prepare, stamped when they were issued.
XAPrepare(x, b) ==
    /\ cst[x] = "active" /\ rm[b][x] = "active" /\ CoordinatorMayAct(x)
    /\ rm' = [rm EXCEPT ![b][x] = "prepared"]
    /\ binlog' = [binlog EXCEPT ![b] = @ \cup
                    {Log(x, "START", startTime[x]), Log(x, "END", startTime[x]),
                     Log(x, "PREPARE", clock)}]
    /\ UNCHANGED <<cst, startTime, clock, tool, abandoned>>

\* A branch fails (or the client rolls back): the coordinator aborts x.
XAAbortDecision(x, b) ==
    /\ cst[x] = "active" /\ rm[b][x] = "active" /\ CoordinatorMayAct(x)
    /\ cst' = [cst EXCEPT ![x] = "abort"]
    /\ rm' = [rm EXCEPT ![b][x] = "rolledback"]
    /\ UNCHANGED <<startTime, binlog, clock, tool, abandoned>>

XACommitDecision(x) ==
    /\ cst[x] = "active" /\ CoordinatorMayAct(x)
    /\ \A b \in Backends : rm[b][x] = "prepared"
    /\ cst' = [cst EXCEPT ![x] = "commit"]
    /\ UNCHANGED <<startTime, rm, binlog, clock, tool, abandoned>>

\* XA COMMIT / XA ROLLBACK of one branch in state "prepared" (an unknown
\* xid is an error that changes nothing); only a prepared branch is logged.
Resolve(b, x, outcome) ==
    /\ rm' = [rm EXCEPT ![b][x] = IF @ = "prepared" THEN outcome ELSE @]
    /\ binlog' = [binlog EXCEPT ![b] =
                    IF rm[b][x] = "prepared"
                    THEN @ \cup {Log(x, IF outcome = "committed" THEN "COMMIT"
                                               ELSE "ROLLBACK", clock)}
                    ELSE @]

XACommitBranch(x, b) ==
    /\ cst[x] = "commit" /\ rm[b][x] = "prepared" /\ CoordinatorMayAct(x)
    /\ Resolve(b, x, "committed")
    /\ UNCHANGED <<cst, startTime, clock, tool, abandoned>>

\* An active branch is rolled back by MySQL when its session goes away.
XARollbackBranch(x, b) ==
    /\ cst[x] = "abort" /\ rm[b][x] \in {"active", "prepared"} /\ CoordinatorMayAct(x)
    /\ IF rm[b][x] = "active"
         THEN rm' = [rm EXCEPT ![b][x] = "rolledback"] /\ UNCHANGED binlog
         ELSE Resolve(b, x, "rolledback")
    /\ UNCHANGED <<cst, startTime, clock, tool, abandoned>>

Tick ==
    /\ clock < MaxTime
    /\ clock' = clock + 1
    /\ UNCHANGED <<coord, binlog, tool, abandoned>>

Coordinator ==
    \/ \E x \in Xids : XAStart(x) \/ XACommitDecision(x)
    \/ \E x \in Xids, b \in Backends :
          \/ XAPrepare(x, b) \/ XAAbortDecision(x, b)
          \/ XACommitBranch(x, b) \/ XARollbackBranch(x, b)
-----------------------------------------------------------------------------
(* The tool: main() and the functions it calls                             *)

\* xa_recover: the xids of "xa recover" (the branches in state prepared),
\* or False when the connection or the query fails.
XARecover(b) ==
    {[ok |-> TRUE, xids |-> {x \in Xids : rm[b][x] = "prepared"}]}
    \cup (IF ConnectMayFail THEN {[ok |-> FALSE, xids |-> {}]} ELSE {})

\* get_suspension_xid iterates over both lists: a False first list, or a
\* False second list under a non-empty first one, raises TypeError, which
\* main() catches and answers with continue.
SuspensionRaises(r1, r2) ==
    \E b \in Backends : ~r1[b].ok \/ (r1[b].xids # {} /\ ~r2[b].ok)

GetSuspensionXid(r1, r2) == r1.xids \cap r2.xids

\* A round of main()'s loop is over: the locals of the functions it called
\* are gone and the next round starts with the first XA RECOVER.
NewRound ==
    /\ tpc' = "scan1" /\ idx' = 1
    /\ rec1' = NoRecovered /\ rec2' = NoRecovered
    /\ final' = [b \in Backends |-> {}] /\ st' = [b \in Backends |-> <<>>]
    /\ reading' = {} /\ todo' = {}

\* get_all_suspesion_xid, first map(xa_recover, BACKEND_CONF), one backend
\* per step, then time.sleep(10).
Scan1 ==
    /\ tpc = "scan1"
    /\ \E r \in XARecover(idx) : rec1' = [rec1 EXCEPT ![idx] = r]
    /\ IF idx = NBackends THEN tpc' = "scan2" /\ idx' = 1
                          ELSE idx' = idx + 1 /\ UNCHANGED tpc
    /\ UNCHANGED <<coord, binlog, clock, rec2, final, st, reading, todo, abandoned>>

\* The second map(xa_recover, ...); after the last backend the suspended
\* xids per backend, and main()'s branch on xid_final_is_null: nothing
\* suspended starts a new round, otherwise suspension_status starts the
\* pool of get_status, one per backend.
Scan2 ==
    /\ tpc = "scan2"
    /\ \E r \in XARecover(idx) :
         LET r2 == [rec2 EXCEPT ![idx] = r]
             f  == [b \in Backends |-> GetSuspensionXid(rec1[b], r2[b])]
         IN CASE idx < NBackends ->
                   /\ rec2' = r2 /\ idx' = idx + 1
                   /\ UNCHANGED <<tpc, rec1, final, st, reading, todo, abandoned>>
              [] SuspensionRaises(rec1, r2) \/ \A b \in Backends : f[b] = {} ->
                   NewRound /\ UNCHANGED abandoned
              [] OTHER ->
                   /\ tpc' = "status" /\ final' = f /\ reading' = Backends
                   /\ idx' = 1 /\ rec1' = NoRecovered /\ rec2' = NoRecovered
                   /\ abandoned' = abandoned \cup UNION {f[b] : b \in Backends}
                   /\ UNCHANGED <<st, todo>>
    /\ UNCHANGED <<coord, binlog, clock>>

\* get_all_xid
AllXid == UNION {final[b] : b \in Backends}

\* get_binlog: mysqlbinlog --start-datetime "<today> hh:00:00"
\* --stop-datetime "<today> hh+1:00:00", or, for hour 23 read at hour 0,
\* from yesterday 23:00:00 to today 00:00:00.  For hour 23 read later in
\* the day the stop time "24:00:00" is not a datetime mysqlbinlog accepts:
\* it prints nothing.  The binlog files are read newest first; the model
\* keeps the lines, not the files.
InWindow(t, h) ==
    IF h = HoursPerDay - 1
    THEN HourOf(clock) = 0 /\ Day(t) + 1 = Day(clock) /\ HourOf(t) = h
    ELSE Day(t) = Day(clock) /\ HourOf(t) = h

WindowLines(b, h) == {l \in binlog[b] : InWindow(l.at, h)}

\* A grep whose pattern matches the XA lines of every xid in the window.
GrepStatusAnyXid(lines, x) == {l.kind : l \in lines}

\* grep_status: the XA\s(\w+) words of the window's lines that grep finds
\* for hex(xid): the lines of the xid and of every xid whose hex contains
\* its hex.
GrepStatus(lines, x) ==
    {l.kind : l \in {l \in lines : l.xid = x \/ <<x, l.xid>> \in HexInside}}

\* The strongest status of a set, in the order of the if/elif chains.
Strongest(S) ==
    LET i == SelectInSeq(Priority, LAMBDA k : k \in S)
    IN  IF i = 0 THEN "NULL" ELSE Priority[i]

\* get_status of one backend: the xids grouped by the hour in their name,
\* one window per hour, and the strongest word found for each xid.
GetStatus(b) ==
    [x \in AllXid |-> Strongest(GrepStatus(WindowLines(b, HourOf(startTime[x])), x))]

\* suspension_status: the strongest status over the backends whose dict
\* has the xid (has_key).
FinalStatus(x) ==
    Strongest({st[b][x] : b \in {c \in Backends : x \in DOMAIN st[c]}})

\* One get_status of the pool returns: its status dict, or {} when
\* get_binlog_name cannot connect.  When the last one returns,
\* handle_suspension starts.
StatusRead(b) ==
    /\ tpc = "status" /\ b \in reading
    /\ \/ st' = [st EXCEPT ![b] = GetStatus(b)]
       \/ BinlogReadMayFail /\ st' = [st EXCEPT ![b] = <<>>]
    /\ reading' = reading \ {b}
    /\ IF reading' = {}
         THEN tpc' = "handle" /\ todo' = {<<c, x>> \in Backends \X Xids : x \in final[c]}
         ELSE UNCHANGED <<tpc, todo>>
    /\ UNCHANGED <<coord, binlog, clock, idx, rec1, rec2, final, abandoned>>

\* The backend goes away after show binary logs: get_binlog prints
\* nothing, binlog_start_time is [], binlog_start_time[0] raises
\* IndexError in the pool, pool.map re-raises it and main() ends.
StatusDies(b) ==
    /\ tpc = "status" /\ b \in reading /\ BinlogReadMayFail
    /\ tpc' = "dead"
    /\ UNCHANGED <<coord, binlog, clock, idx, rec1, rec2, final, st, reading, todo, abandoned>>

\* status[j] in 'PREPARE ROLLBACK END START' is a substring test; for the
\* six values a status can take it is this membership.
RollbackStatuses == {"PREPARE", "ROLLBACK", "END", "START"}

\* handle_suspension, one xa_rollback or xa_commit per step, backends in
\* order.  A failed connection is logged and skipped; after the last
\* branch main() starts a new round.
Handle(b, x) ==
    /\ tpc = "handle" /\ <<b, x>> \in todo
    /\ \A c \in Backends : (\E y \in Xids : <<c, y>> \in todo) => b <= c
    /\ LET d == FinalStatus(x) IN
         \/ /\ d \in RollbackStatuses \cup {"COMMIT"}
            /\ Resolve(b, x, IF d = "COMMIT" THEN "committed" ELSE "rolledback")
         \/ /\ d \notin RollbackStatuses \cup {"COMMIT"} \/ ConnectMayFail
            /\ UNCHANGED <<rm, binlog>>
    /\ IF todo = {<<b, x>>}
         THEN NewRound
         ELSE /\ todo' = todo \ {<<b, x>>}
              /\ UNCHANGED <<tpc, idx, rec1, rec2, final, st, reading>>
    /\ UNCHANGED <<cst, startTime, clock, abandoned>>

Tool ==
    \/ Scan1 \/ Scan2
    \/ \E b \in Backends : StatusRead(b) \/ StatusDies(b)
    \/ \E b \in Backends, x \in Xids : Handle(b, x)

\* After StatusDies the process has ended; nothing of the tool moves again.
Ended == tpc = "dead" /\ UNCHANGED vars

Next == Coordinator \/ Tick \/ Tool \/ Ended

Spec == Init /\ [][Next]_vars

-----------------------------------------------------------------------------
(* Properties                                                              *)

\* The outcome of an XA transaction is atomic: no xid is committed on one
\* backend and rolled back on another, whatever mix of coordinator steps
\* and suspension rounds (XA RECOVER twice, binlog status, XA COMMIT or
\* XA ROLLBACK per branch) produced it.
AtomicOutcome ==
    \A x \in Xids : ~\E b1, b2 \in Backends :
        rm[b1][x] = "committed" /\ rm[b2][x] = "rolledback"

\* The tool never commits what the coordinator did not decide to commit:
\* a branch is committed (by the coordinator or by handle_suspension) only
\* for an xid whose coordinator reached the commit decision.
CommittedOnlyIfDecided ==
    \A x \in Xids : (\E b \in Backends : rm[b][x] = "committed") => cst[x] = "commit"
====
