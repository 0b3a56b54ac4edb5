----------------------------- MODULE MCRun2Run -----------------------------
(* Small instances of Run2Run.                                              *)
EXTENDS Run2Run, TLC

CONSTANTS o1, o2, k1, k2, n1, n2, c1

Physical(n) == [mode |-> "physical", to |-> n]
Container(c) == [mode |-> "container", to |-> c]

\* Replicas to a node and to a container, that may be on the same peer.
QueryBoth == o1 :> <<Physical(n1), Container(c1)>>
QueryOne == o1 :> <<Container(c1)>>
QueryTwoTasks == o1 :> <<Physical(n1)>> @@ o2 :> <<Physical(n1)>>
QueryThenLost == o1 :> <<Container(c1)>> @@ o2 :> <<Physical(n1), [mode |-> "unroutable", to |-> None]>>
QueryLost == o1 :> <<Physical(n1), [mode |-> "unroutable", to |-> None]>>
HomeN1 == c1 :> n1
=============================================================================
