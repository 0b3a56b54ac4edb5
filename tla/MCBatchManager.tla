--------------------------- MODULE MCBatchManager ---------------------------
(* Small instances of BatchManager.                                         *)
EXTENDS BatchManager, TLC

CONSTANTS t1, t2, t3, t4, t5, t6, k1, k2

\* Four tasks under k1, for two rounds of a barrier of two, and two under k2.
KeyTwo == t1 :> k1 @@ t2 :> k1 @@ t3 :> k1 @@ t4 :> k1 @@ t5 :> k2 @@ t6 :> k2
=============================================================================
