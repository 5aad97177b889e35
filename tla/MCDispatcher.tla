--------------------------- MODULE MCDispatcher ---------------------------
(***************************************************************************)
(* Instantiates Dispatcher for TLC.                                        *)
(***************************************************************************)
EXTENDS Dispatcher, TLC

CONSTANTS x1, x2

MCXids == {x1, x2}

\* One XID, for the liveness runs: prepared XA transactions are distinguished
\* only by their XID, and with one held at a time one suffices.
MCXid == {x1}

\* XIDs are only compared for equality and chosen fresh.
XidSymmetry == Permutations(MCXids)

\* The overlap test _can_do_parallel admits by is symmetric, and for any
\* two transactions of one binlog file, the later one may run beside the
\* earlier exactly when it does not depend on it under MySQL's
\* LOGICAL_CLOCK rule.
InterleavedIsIndependence ==
    \A i, j \in DOMAIN binlog :
        LET a == binlog[i]
            b == binlog[j]
        IN  a.file = b.file =>
                /\ Interleaved(a, b) = Interleaved(b, a)
                /\ i < j => (Interleaved(a, b) <=> ~DependsOn(b, a))
=============================================================================
