----------------------------- MODULE MCCoRwLock -----------------------------
(* Instances of CoRwLock for TLC.                                           *)
EXTENDS CoRwLock, TLC

CONSTANTS t1, t2, t3

Calls111 == t1 :> 1 @@ t2 :> 1 @@ t3 :> 1
Calls211 == t1 :> 2 @@ t2 :> 1 @@ t3 :> 1
=============================================================================
