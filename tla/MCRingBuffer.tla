---- MODULE MCRingBuffer ----
(* The ring buffer for TLC: two producers, two consumers.                  *)
EXTENDS RingBuffer

CONSTANTS prodA, prodB, consA, consB

MCThreads == {prodA, prodB, consA, consB}

\* Who may push and pop each ring.  On a growing ring the consumer pushes too,
\* as a worker does on the lane it drains.
MCProducers ==
    [k \in Kinds |->
       CASE k = "spsc" -> {prodA} [] k = "ext" -> {prodA, consA} [] OTHER -> {prodA, prodB}]

MCConsumers ==
    [k \in Kinds |->
       IF k \in {"mpmc", "ext"} THEN {consA, consB} ELSE {consA}]

MCPushes == [k \in Kinds |-> IF k = "spsc" THEN 4 ELSE 2]

\* The net worker, which drains the NetQueue and puts back on it the responses
\* it could not send (IpcCpu2CpuZmq::SendOut).
NetProducers == [k \in Kinds |-> {prodA, consA}]

NetConsumers == [k \in Kinds |-> {consA}]
====
