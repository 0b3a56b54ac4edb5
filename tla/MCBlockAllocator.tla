-------------------------- MODULE MCBlockAllocator --------------------------
(* Small instances of BlockAllocator.                                       *)
EXTENDS BlockAllocator, TLC

CONSTANTS t1, t2

TwoMaps == t1 :> 0 @@ t2 :> 1
OneMap == [t \in Threads |-> 0]
Buckets == <<1, 2>>
=============================================================================
