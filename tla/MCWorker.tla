------------------------------ MODULE MCWorker ------------------------------
(* Small instances of Worker.                                               *)
EXTENDS Worker, TLC

CONSTANTS w1, w2, e1, e2, r1, r2, s1, s2, m1

OneSub == s1 :> r1
ParentR1 == s1 :> r1 @@ s2 :> r1

\* Two subtasks of the same request are alike.
SubtasksAlike == Permutations({s1, s2})
=============================================================================
