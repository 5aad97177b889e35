------------------------- MODULE MCTransactionBuilder -------------------------
(***************************************************************************)
(* Instantiates TransactionBuilder for TLC.                                *)
(***************************************************************************)
EXTENDS TransactionBuilder

CONSTANTS x1

MCXids == {x1}

\* Every kind of transaction a source writes, but XA ROLLBACK.
SealedKinds == {"DML", "SBR", "DDL", "DDL_DB", "XA_PREPARE", "XA_ONE_PHASE",
                "XA_COMMIT"}
\* Every kind, XA ROLLBACK included.
AllKindsMC == SealedKinds \cup {"XA_ROLLBACK"}
=============================================================================
