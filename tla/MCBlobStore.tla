----------------------------- MODULE MCBlobStore -----------------------------
(* Instances of BlobStore for TLC: blobA is there with one unit and a          *)
(* replica, blobB is not.                                                      *)
EXTENDS BlobStore

CONSTANTS blobA, blobB, t1, t2, t3, e1, e2, e3, e4

AllKinds == {"put", "replace", "get", "rget", "del", "trunc", "move", "rput",
             "rmove", "reclaim", "flush"}
SomeRanges == {<<0, 1>>, <<1, 2>>, <<0, 0>>, <<1, 1>>}
FirstUnit == {<<0, 1>>}
PrimaryOfOne == [n \in Names |-> IF n = blobA THEN <<e1>> ELSE <<>>]
ReplicaOfOne == [n \in Names |-> IF n = blobA THEN <<e3>> ELSE <<>>]
NoReplica == [n \in Names |-> <<>>]
\* e2 and e4 are free at the start, and both above FlushData's level.
Alike == {p @@ q : p \in Permutations(Tasks), q \in Permutations({e2, e4})}
=============================================================================
