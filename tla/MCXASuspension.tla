-------------------------- MODULE MCXASuspension --------------------------
(***************************************************************************)
(* Instantiates XASuspension for TLC.                                      *)
(***************************************************************************)
EXTENDS XASuspension, TLC

CONSTANTS x1, x2

MCXids == {x1, x2}

\* xids none of whose hex is a substring of another's (numbered with a
\* fixed width): grep_status finds only the xid's own lines.
NoContainment == {}

\* cetus numbers its xids with a growing sequence number: the hex of x1
\* (..._1) is a prefix of the hex of x2 (..._12).
SequenceNumbered == {<<x1, x2>>}

\* With NoContainment xids are only compared for equality, and the
\* coordinator treats every xid alike.
XidSymmetry == Permutations(MCXids)
=============================================================================
