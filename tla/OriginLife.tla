----------------------------- MODULE OriginLife -----------------------------
(***************************************************************************)
(* What the cross-node task path promises to the worker that hands it an    *)
(* origin task: the task is taken over once, stays with the path while its  *)
(* replicas run, is claimed by one thread, and is given back once, through  *)
(* EndTask.  It is never given back before its claim and never twice.       *)
(***************************************************************************)
CONSTANT Origins

VARIABLE life    \* life[o] \in {"new", "waiting", "claimed", "done"}

Init == life = [o \in Origins |-> "new"]

Step(o, from, to) == life[o] = from /\ life' = [life EXCEPT ![o] = to]

Submit(o) == Step(o, "new", "waiting")
Claim(o)  == Step(o, "waiting", "claimed")
Finish(o) == Step(o, "claimed", "done")

Next == \E o \in Origins : Submit(o) \/ Claim(o) \/ Finish(o)
Spec == Init /\ [][Next]_life
=============================================================================
