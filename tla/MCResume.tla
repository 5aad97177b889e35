------------------------------ MODULE MCResume ------------------------------
(***************************************************************************)
(* Instantiates Resume for TLC.                                            *)
(***************************************************************************)
EXTENDS Resume, TLC

CONSTANTS x1

MCXids == {x1}

\* A source where every transaction depends on the one before it
\* (last_committed = sequence_number - 1): jobs finish in binlog order.
ChainedWrites == {t \in SourceNext : t.lc = t.sn - 1}
=============================================================================
