------------------------------ MODULE Run2Run ------------------------------
(***************************************************************************)
(* The cross-node task path of one runtime daemon                          *)
(* (context-runtime/src/ipc/ipc_run2run.cc), seen from the node that sends  *)
(* the tasks.  An origin task is fanned out into one replica per resolved   *)
(* pool query; every replica travels to a peer, runs there and is answered; *)
(* the answers are counted in the origin's CompletedReplicas() and the      *)
(* counter reaching Subtasks().size() completes the origin with EndTask.    *)
(*                                                                          *)
(* Three threads of the daemon meet on this state:                          *)
(*   "S"  net_send_worker: the admin Send tick (retry queues, dead-node     *)
(*        scan, progress probes, SendIn);                                   *)
(*   "R"  the peer-recv thread: RecvOut and RecvIn;                         *)
(*   "H"  the worker that runs HeartbeatProbe, which flushes the retry      *)
(*        queues of a node and then revives it.                             *)
(* A step is what a thread does between two mutex or atomic operations.     *)
(***************************************************************************)
EXTENDS Naturals, Sequences, FiniteSets

CONSTANTS
    Origins,      \* origin tasks handed to SendIn
    Keys,         \* addresses an origin can have: net_key_ = size_t(origin)
    Nodes,        \* peers of this node
    Containers,   \* containers of the pool, named by DirectId and Range queries
    Query,        \* Query[o]: the PoolQueries() of o, one per replica
    AdminOrigins, \* origins of the admin pool (not probe-eligible)
    ZeroTimeout,  \* origins whose net_timeout is 0
    Home,         \* the address map before any recovery
    ZeroNode,     \* the peer with node id 0, or None
    MaxReplicas,  \* bound: replicas of an origin
    MaxFalse,     \* bound: wrong verdicts of the failure detector
    MaxCrashes,   \* bound: crashes of peers
    MaxFaults,    \* bound: wrong verdicts and crashes together
    Restarts,     \* may a crashed peer come back
    DropReplies,  \* may a peer drop an answer it owes to this node
    None          \* no node, origin or key

Modes == {"physical", "container", "unroutable"}
Replicas(o) == 1..Len(Query[o])
Threads == {"S", "R", "H"}
Rids == 1..MaxReplicas

ASSUME QueryAssumption ==
    /\ MaxReplicas \in Nat \ {0}
    /\ \A o \in Origins :
          /\ Query[o] \in Seq([mode : Modes, to : Nodes \cup Containers \cup {None}])
          /\ Len(Query[o]) \in 1..MaxReplicas
          /\ \A r \in Replicas(o) :
                /\ Query[o][r].mode = "physical" => Query[o][r].to \in Nodes
                /\ Query[o][r].mode = "container" => Query[o][r].to \in Containers
    /\ Home \in [Containers -> Nodes]
    /\ AdminOrigins \subseteq Origins /\ ZeroTimeout \subseteq Origins
    /\ None \notin Origins \cup Keys \cup Nodes \cup Containers
    /\ MaxFalse \in Nat /\ MaxCrashes \in Nat /\ MaxFaults \in Nat
    /\ Restarts \in BOOLEAN /\ DropReplies \in BOOLEAN

VARIABLES
    keyOf,        \* address of each origin, None before SendIn
    send_map,     \* net_key -> origin waiting for its replicas
    progress_map, \* net_key -> per-replica target and accounted flag
    subtasks,     \* Subtasks().size() of each origin
    completed,    \* CompletedReplicas() of each origin
    ended,        \* how often EndTask was called on each origin
    timedOut,     \* origins whose return code is kRun2RunNetworkTimeoutRC
    counted,      \* history: how often each replica was counted
    send_in_retry,\* replicas waiting to be sent, with the node they wait for
    retry_lock,   \* the thread that holds retry_queues_mutex_ across steps
    pc, cur,      \* per thread: its place in the code, the replica it handles
    todo,         \* S: replicas to fail, collected under a lock already dropped
    snd,          \* S: the SendIn in progress
    fin, reviving,\* R, H: FlushStaleStateForNode in progress
    nodeState,    \* this node's view of its peers
    indirect,     \* peers pending_indirect_probes_ has a probe of
    aged,         \* peers dead for longer than the task timeout
    addr,         \* address_map_: container -> node
    wrong,        \* number of wrong verdicts so far
    net,          \* requests and answers on the wire
    probes,       \* pending_progress_queries_
    running,      \* per peer: replicas it received and has not answered
    recv_map,     \* per peer: the (net_key, replica) entries of its recv_map_
    out_retry,    \* per peer: answers it could not send yet
    up, crashes   \* which peers run, and how many crashes there were

originVars == <<keyOf, send_map, progress_map, subtasks, completed, ended, timedOut, counted>>
retryVars  == <<send_in_retry, retry_lock>>
threadVars == <<pc, cur, todo, snd, fin, reviving>>
memberVars == <<nodeState, indirect, aged, addr, wrong>>
peerVars   == <<running, recv_map, out_retry, up, crashes>>
vars == <<originVars, retryVars, threadVars, memberVars, net, probes, peerVars>>

NoSend == [o |-> None, i |-> 0, targets |-> [r \in Rids |-> None]]
NoCur == [o |-> None, k |-> None, r |-> 1, src |-> None]
NoProgress == [known |-> FALSE, target |-> [r \in Rids |-> None],
               size |-> 0, accounted |-> {}, probe |-> FALSE]

Init ==
    /\ keyOf = [o \in Origins |-> None]
    /\ send_map = [k \in Keys |-> None]
    /\ progress_map = [k \in Keys |-> NoProgress]
    /\ subtasks = [o \in Origins |-> 0]
    /\ completed = [o \in Origins |-> 0]
    /\ ended = [o \in Origins |-> 0]
    /\ timedOut = {}
    /\ counted = [o \in Origins |-> [r \in Rids |-> 0]]
    /\ send_in_retry = {}
    /\ retry_lock = None
    /\ pc = [t \in Threads |-> "idle"]
    /\ cur = [t \in Threads |-> NoCur]
    /\ todo = {}
    /\ snd = NoSend
    /\ fin = [t \in Threads |-> {}]
    /\ reviving = [t \in Threads |-> None]
    /\ nodeState = [n \in Nodes |-> "kAlive"]
    /\ indirect = {}
    /\ aged = {}
    /\ addr = Home
    /\ wrong = 0
    /\ net = {}
    /\ probes = {}
    /\ running = [n \in Nodes |-> {}]
    /\ recv_map = [n \in Nodes |-> {}]
    /\ out_retry = [n \in Nodes |-> {}]
    /\ up = Nodes
    /\ crashes = 0

-----------------------------------------------------------------------------
(* Membership, as the task path sees and changes it.                        *)

IsAlive(n) == nodeState[n] = "kAlive"

\* A verdict about n is wrong when n runs and is called dead, or does not run
\* and is called alive; only wrong verdicts are bounded.
Judge(bad) == /\ bad => wrong < MaxFalse /\ wrong + crashes < MaxFaults
              /\ wrong' = IF bad THEN wrong + 1 ELSE wrong

SetDead(n) ==
    /\ Judge(n \in up /\ IsAlive(n))
    /\ nodeState' = [nodeState EXCEPT ![n] = "kDead"]
    /\ UNCHANGED <<indirect, aged, addr>>

SetAlive(n) ==
    /\ nodeState' = [nodeState EXCEPT ![n] = "kAlive"]
    /\ aged' = aged \ {n}
    /\ UNCHANGED addr

-----------------------------------------------------------------------------
(* Accounting and completion, shared by every path that counts a replica.   *)

\* MarkReplicaAccounted returns TRUE: the caller may count the replica.
MayCount(k, r) ==
    \/ ~progress_map[k].known
    \/ r > progress_map[k].size
    \/ r \notin progress_map[k].accounted

Mark(k, r) ==
    progress_map' = IF progress_map[k].known /\ r <= progress_map[k].size
                    THEN [progress_map EXCEPT ![k].accounted = @ \cup {r}]
                    ELSE progress_map

\* fetch_add on CompletedReplicas() and the comparison with Subtasks().size().
IsLast(o) == completed[o] + 1 = subtasks[o]

Count(o, r) ==
    /\ completed' = [completed EXCEPT ![o] = @ + 1]
    /\ counted' = [counted EXCEPT ![o][r] = @ + 1]

\* The thread is done with its replica.
Drop(t) == /\ pc' = [pc EXCEPT ![t] = "idle"]
           /\ cur' = [cur EXCEPT ![t] = NoCur]
Goto(t, l) == pc' = [pc EXCEPT ![t] = l] /\ UNCHANGED cur

\* Mutants: the completing thread ends the origin without claiming it, the second
\* one on any count from the size up.
CountReplicaUnclaimed(t) ==
    /\ pc[t] = "count"
    /\ Count(cur[t].o, cur[t].r)
    /\ IF IsLast(cur[t].o) THEN Goto(t, "end") ELSE Drop(t)
    /\ UNCHANGED <<keyOf, send_map, progress_map, subtasks, ended, timedOut, retryVars,
                   todo, snd, fin, reviving, memberVars, net, probes, peerVars>>
CountReplicaAtLeast(t) ==
    /\ pc[t] = "count"
    /\ Count(cur[t].o, cur[t].r)
    /\ IF completed[cur[t].o] + 1 >= subtasks[cur[t].o] THEN Goto(t, "end") ELSE Drop(t)
    /\ UNCHANGED <<keyOf, send_map, progress_map, subtasks, ended, timedOut, retryVars,
                   todo, snd, fin, reviving, memberVars, net, probes, peerVars>>

\* RecvOutAggregate and HandleTaskProgressResult from the fetch_add on; the
\* latter sets the network-timeout return code first.
CountReplica(t) ==
    /\ pc[t] = "count"
    /\ Count(cur[t].o, cur[t].r)
    /\ IF IsLast(cur[t].o) THEN Goto(t, "claim") ELSE Drop(t)
    /\ timedOut' = IF t = "S" THEN timedOut \cup {cur[t].o} ELSE timedOut
    /\ UNCHANGED <<keyOf, send_map, progress_map, subtasks, ended, retryVars,
                   todo, snd, fin, reviving, memberVars, net, probes, peerVars>>

\* Mutant: the claim leaves the origin in send_map_.
ClaimOriginKeeps(t) ==
    /\ pc[t] = "claim"
    /\ IF send_map[cur[t].k] # None THEN Goto(t, "end") ELSE Drop(t)
    /\ progress_map' = [progress_map EXCEPT ![cur[t].k] = NoProgress]
    /\ UNCHANGED <<keyOf, send_map, subtasks, completed, ended, timedOut, counted, retryVars,
                   todo, snd, fin, reviving, memberVars, net, probes, peerVars>>

ClaimOrigin(t) ==
    LET k == cur[t].k IN
    /\ pc[t] = "claim"
    /\ IF send_map[k] # None THEN Goto(t, "end") ELSE Drop(t)
    /\ send_map' = [send_map EXCEPT ![k] = None]
    /\ progress_map' = [progress_map EXCEPT ![k] = NoProgress]
    /\ UNCHANGED <<keyOf, subtasks, completed, ended, timedOut, counted, retryVars,
                   todo, snd, fin, reviving, memberVars, net, probes, peerVars>>

\* RecvOutCompleteOriginTask after the claim: Subtasks().clear() and EndTask.
EndTask(t) ==
    LET o == cur[t].o IN
    /\ pc[t] = "end"
    /\ Drop(t)
    /\ subtasks' = [subtasks EXCEPT ![o] = 0]
    /\ ended' = [ended EXCEPT ![o] = @ + 1]
    /\ UNCHANGED <<keyOf, send_map, progress_map, completed, timedOut, counted, retryVars,
                   todo, snd, fin, reviving, memberVars, net, probes, peerVars>>

-----------------------------------------------------------------------------
(* Thread S: SendIn.                                                        *)

SFree == pc["S"] = "idle" /\ todo = {} /\ snd = NoSend

\* The address of an origin is free again once its last holder dropped it.
Held(o) == \/ snd.o = o
           \/ \E t \in Threads : cur[t].o = o \/ \E f \in fin[t] : f[2] = o
FreeKey(k) == \A o \in Origins : keyOf[o] = k => ended[o] > 0 /\ ~Held(o)

\* Mutant: Subtasks() is not resized up front but grows with the replicas sent.
SendInGrowing(o) ==
    /\ SFree /\ keyOf[o] = None
    /\ \E k \in Keys :
          /\ FreeKey(k)
          /\ keyOf' = [keyOf EXCEPT ![o] = k]
          /\ send_map' = [send_map EXCEPT ![k] = o]
    /\ subtasks' = [subtasks EXCEPT ![o] = 1]
    /\ snd' = [NoSend EXCEPT !.o = o, !.i = 1]
    /\ UNCHANGED <<progress_map, completed, ended, timedOut, counted, retryVars,
                   pc, cur, todo, fin, reviving, memberVars, net, probes, peerVars>>

SendIn(o) ==
    /\ SFree /\ keyOf[o] = None
    /\ \E k \in Keys :
          /\ FreeKey(k)
          /\ keyOf' = [keyOf EXCEPT ![o] = k]
          /\ send_map' = [send_map EXCEPT ![k] = o]
    /\ subtasks' = [subtasks EXCEPT ![o] = Len(Query[o])]
    /\ snd' = [NoSend EXCEPT !.o = o, !.i = 1]
    /\ UNCHANGED <<progress_map, completed, ended, timedOut, counted, retryVars,
                   pc, cur, todo, fin, reviving, memberVars, net, probes, peerVars>>

\* SendInResolveTargetNode; None stands for kInvalidNodeId and for a node that
\* is not in the hostfile.
Resolve(q) == CASE q.mode = "physical" -> q.to
                [] q.mode = "container" -> addr[q.to]
                [] q.mode = "unroutable" -> None

Sending == pc["S"] = "idle" /\ snd # NoSend /\ snd.i <= Len(Query[snd.o])
Target == Resolve(Query[snd.o][snd.i])
NextReplica == snd' = [snd EXCEPT !.i = @ + 1]
NextReplicaTo(n) == snd' = [snd EXCEPT !.i = @ + 1, !.targets[snd.i] = n]
Request(o, r, n) == [t |-> "in", o |-> o, k |-> keyOf[o], r |-> r, n |-> n]
RetryEntry(o, r, n) == [o |-> o, k |-> keyOf[o], r |-> r, n |-> n, old |-> FALSE]

SkipUnroutable ==
    /\ Sending /\ Target = None
    /\ NextReplica
    /\ UNCHANGED <<originVars, retryVars, pc, cur, todo, fin, reviving,
                   memberVars, net, probes, peerVars>>

SkipDead ==
    /\ Sending /\ Target # None /\ ~IsAlive(Target) /\ snd.o \in ZeroTimeout
    /\ Count(snd.o, snd.i)
    /\ NextReplica
    /\ IF IsLast(snd.o)
       THEN /\ pc' = [pc EXCEPT !["S"] = "claim"]
            /\ cur' = [cur EXCEPT !["S"] = [o |-> snd.o, k |-> keyOf[snd.o], r |-> snd.i, src |-> snd.o]]
       ELSE UNCHANGED <<pc, cur>>
    /\ UNCHANGED <<keyOf, send_map, progress_map, subtasks, ended, timedOut, retryVars,
                   todo, fin, reviving, memberVars, net, probes, peerVars>>

QueueDead ==
    /\ Sending /\ Target # None /\ ~IsAlive(Target) /\ snd.o \notin ZeroTimeout
    /\ snd' = [snd EXCEPT !.targets[snd.i] = Target]
    /\ Goto("S", "queue")
    /\ UNCHANGED <<originVars, retryVars, todo, fin, reviving, memberVars, net, probes, peerVars>>

\* SendInTransmitReplica: sent, or to be put back (EAGAIN), or to be put back and
\* the node declared dead (no connection, or any other return code).
Transmit ==
    /\ Sending /\ Target # None /\ IsAlive(Target)
    /\ \/ /\ NextReplicaTo(Target)
          /\ net' = net \cup {Request(snd.o, snd.i, Target)}
          /\ UNCHANGED <<pc, cur, memberVars>>
       \/ /\ snd' = [snd EXCEPT !.targets[snd.i] = Target]
          /\ Goto("S", "queue")
          /\ UNCHANGED memberVars \/ SetDead(Target)
          /\ UNCHANGED net
    /\ UNCHANGED <<originVars, retryVars, todo, fin, reviving, probes, peerVars>>

\* The push onto send_in_retry_, under retry_queues_mutex_.
QueueForRetry ==
    /\ pc["S"] = "queue" /\ retry_lock = None
    /\ send_in_retry' = send_in_retry \cup {RetryEntry(snd.o, snd.i, snd.targets[snd.i])}
    /\ NextReplica
    /\ Goto("S", "idle")
    /\ UNCHANGED <<originVars, retry_lock, todo, fin, reviving, memberVars, net, probes, peerVars>>

\* The last statement of SendIn.  A replica without a target is recorded as
\* accounted; whatever happened to the others meanwhile is not looked at.
RegisterOriginProgress ==
    LET o == snd.o
        size == Len(Query[o]) IN
    /\ pc["S"] = "idle" /\ snd # NoSend /\ snd.i > size
    /\ progress_map' = [progress_map EXCEPT ![keyOf[o]] =
          [known |-> TRUE, target |-> snd.targets, size |-> size,
           accounted |-> {r \in 1..size : snd.targets[r] = None},
           probe |-> o \notin AdminOrigins]]
    /\ snd' = NoSend
    /\ UNCHANGED <<keyOf, send_map, subtasks, completed, ended, timedOut, counted, retryVars,
                   pc, cur, todo, fin, reviving, memberVars, net, probes, peerVars>>

-----------------------------------------------------------------------------
(* Thread S: the rest of the Send tick.                                     *)

\* RerouteRetryEntry; node id 0 is taken for "no new node".
Reroute(e) == LET q == Query[e.o][e.r]
                  n == Resolve(q)
              IN  IF q.mode = "container" /\ n # ZeroNode /\ n # e.n THEN n ELSE None
RetryDest(e) == IF IsAlive(e.n) THEN e.n
                ELSE IF Reroute(e) # None /\ IsAlive(Reroute(e)) THEN Reroute(e) ELSE None

\* The timeout of an entry is that of the replica's own query: a physical query is
\* the origin's, any other is made by the resolution with the default timeout.
Expired(e) == e.old \/ (e.o \in ZeroTimeout /\ Query[e.o][e.r].mode = "physical")

\* One pass over send_in_retry_ under retry_queues_mutex_: expired entries are
\* collected and failed after the unlock, the others sent if that succeeds.
ProcessRetryQueues ==
    LET expired == {e \in send_in_retry : Expired(e)}
        sendable == {e \in send_in_retry \ expired : RetryDest(e) # None} IN
    /\ SFree /\ retry_lock = None
    /\ \E sent \in SUBSET sendable :
          /\ send_in_retry' = (send_in_retry \ (expired \cup sendable))
                \cup {[e EXCEPT !.n = RetryDest(e)] : e \in sendable \ sent}
          /\ net' = net \cup {[t |-> "in", o |-> e.o, k |-> e.k, r |-> e.r, n |-> RetryDest(e)] : e \in sent}
    /\ todo' = {<<e.k, e.r>> : e \in expired}
    /\ UNCHANGED <<originVars, retry_lock, pc, cur, snd, fin, reviving, memberVars, probes, peerVars>>

\* Mutant: the node a replica's query resolves to now, not the one it was sent to.
ScanSendMapTimeoutsMoved ==
    /\ SFree
    /\ todo' = {w \in Keys \X Rids :
                  LET p == progress_map[w[1]]
                      o == send_map[w[1]]
                      n == Resolve(Query[o][w[2]]) IN
                  /\ p.known /\ o # None
                  /\ w[2] <= p.size /\ w[2] \notin p.accounted
                  /\ n # None /\ nodeState[n] = "kDead" /\ (n \in aged \/ o \in ZeroTimeout)}
    /\ UNCHANGED <<originVars, retryVars, pc, cur, snd, fin, reviving, memberVars, net, probes, peerVars>>
\* The snapshot of replicas whose node has been dead for the task timeout.
ScanSendMapTimeouts ==
    LET late(k, n) == nodeState[n] = "kDead" /\ (n \in aged \/ send_map[k] \in ZeroTimeout) IN
    /\ SFree
    /\ todo' = {w \in Keys \X Rids :
                  LET p == progress_map[w[1]] IN
                  /\ p.known /\ send_map[w[1]] # None
                  /\ w[2] <= p.size /\ w[2] \notin p.accounted
                  /\ p.target[w[2]] # None /\ late(w[1], p.target[w[2]])}
    /\ UNCHANGED <<originVars, retryVars, pc, cur, snd, fin, reviving, memberVars, net, probes, peerVars>>

\* ScanTaskProgress, first half: a completed probe is removed; a "gone" answer
\* fails its replica, any other outcome is ignored.
ReapProbe ==
    /\ SFree
    /\ \E p \in probes :
          /\ p.st \in {"running", "gone", "failed"}
          /\ probes' = probes \ {p}
          /\ todo' = IF p.st = "gone" THEN {<<p.k, p.r>>} ELSE {}
    /\ UNCHANGED <<originVars, retryVars, pc, cur, snd, fin, reviving, memberVars, net, peerVars>>

\* ScanTaskProgress, second half, with CollectStuckReplicas.
FireProbes ==
    LET stuck == {w \in Keys \X Rids :
                    LET p == progress_map[w[1]] IN
                    /\ p.known /\ p.probe
                    /\ w[2] <= p.size /\ w[2] \notin p.accounted
                    /\ p.target[w[2]] # None /\ IsAlive(p.target[w[2]])}
        fresh == {w \in stuck : \A p \in probes : <<p.k, p.r>> # w} IN
    /\ SFree /\ fresh # {}
    /\ probes' = probes \cup
          {[k |-> w[1], r |-> w[2], n |-> progress_map[w[1]].target[w[2]], st |-> "sent"] : w \in fresh}
    /\ UNCHANGED <<originVars, retryVars, threadVars, memberVars, net, peerVars>>

\* HandleTaskProgressResult(gone = true): claim the accounting transition...
GoneMark ==
    /\ pc["S"] = "idle"
    /\ \E w \in todo :
          /\ todo' = todo \ {w}
          /\ IF MayCount(w[1], w[2])
             THEN /\ Mark(w[1], w[2])
                  /\ pc' = [pc EXCEPT !["S"] = "find"]
                  /\ cur' = [cur EXCEPT !["S"] = [NoCur EXCEPT !.k = w[1], !.r = w[2]]]
             ELSE UNCHANGED <<progress_map, pc, cur>>
    /\ UNCHANGED <<keyOf, send_map, subtasks, completed, ended, timedOut, counted, retryVars,
                   snd, fin, reviving, memberVars, net, probes, peerVars>>

\* Mutant: the result of the lookup is used without a null check.
GoneFindUnchecked ==
    /\ pc["S"] = "find"
    /\ pc' = [pc EXCEPT !["S"] = "count"]
    /\ cur' = [cur EXCEPT !["S"].o = send_map[cur["S"].k]]
    /\ UNCHANGED <<originVars, retryVars, todo, snd, fin, reviving, memberVars, net, probes, peerVars>>

\* ...and look the origin up, in a second critical section.
GoneFind ==
    LET o == send_map[cur["S"].k] IN
    /\ pc["S"] = "find"
    /\ IF o = None
       THEN Drop("S")
       ELSE /\ pc' = [pc EXCEPT !["S"] = "count"]
            /\ cur' = [cur EXCEPT !["S"].o = o]
    /\ UNCHANGED <<originVars, retryVars, todo, snd, fin, reviving, memberVars, net, probes, peerVars>>

-----------------------------------------------------------------------------
(* Thread R: RecvOut.                                                       *)

RFree == pc["R"] = "idle" /\ reviving["R"] = None

\* The origin an answer is matched with, None when it is refused.
Match(k, r) == LET o == send_map[k] IN IF o # None /\ r <= subtasks[o] THEN o ELSE None

RecvOutDeserialize ==
    /\ RFree
    /\ \E m \in net :
          /\ m.t = "out"
          /\ net' = net \ {m}
          /\ IF Match(m.k, m.r) = None
             THEN UNCHANGED <<pc, cur>>
             ELSE /\ pc' = [pc EXCEPT !["R"] = "aggregate"]
                  /\ cur' = [cur EXCEPT !["R"] =
                        [o |-> Match(m.k, m.r), k |-> m.k, r |-> m.r, src |-> m.o]]
    /\ UNCHANGED <<originVars, retryVars, todo, snd, fin, reviving, memberVars, probes, peerVars>>

RecvOutAggregate ==
    LET o == Match(cur["R"].k, cur["R"].r) IN
    /\ pc["R"] = "aggregate"
    /\ IF o = None
       THEN Drop("R")
       ELSE /\ pc' = [pc EXCEPT !["R"] = "mark"]
            /\ cur' = [cur EXCEPT !["R"].o = o]
    /\ UNCHANGED <<originVars, retryVars, todo, snd, fin, reviving, memberVars, net, probes, peerVars>>

MarkReplicaAccounted ==
    /\ pc["R"] = "mark"
    /\ IF MayCount(cur["R"].k, cur["R"].r)
       THEN Mark(cur["R"].k, cur["R"].r) /\ Goto("R", "count")
       ELSE Drop("R") /\ UNCHANGED progress_map
    /\ UNCHANGED <<keyOf, send_map, subtasks, completed, ended, timedOut, counted, retryVars,
                   todo, snd, fin, reviving, memberVars, net, probes, peerVars>>

-----------------------------------------------------------------------------
(* Threads R and H: FlushStaleStateForNode, then SetAlive.                  *)

\* The entries for the node are erased one by one under retry_queues_mutex_; each
\* is counted towards the origin found at its key...
FlushLock(t) ==
    /\ pc[t] = "lock" /\ retry_lock = None
    /\ retry_lock' = t
    /\ Goto(t, "flush")
    /\ UNCHANGED <<originVars, send_in_retry, todo, snd, fin, reviving, memberVars, net, probes, peerVars>>

FlushFind(t) ==
    /\ pc[t] = "flush"
    /\ \E e \in send_in_retry :
          /\ e.n = reviving[t]
          /\ send_in_retry' = send_in_retry \ {e}
          /\ IF send_map[e.k] = None
             THEN UNCHANGED <<pc, cur>>
             ELSE /\ pc' = [pc EXCEPT ![t] = "discount"]
                  /\ cur' = [cur EXCEPT ![t] = [o |-> send_map[e.k], k |-> e.k, r |-> e.r, src |-> None]]
    /\ UNCHANGED <<originVars, retry_lock, todo, snd, fin, reviving, memberVars, net, probes, peerVars>>

\* Mutant: the flush counts the discarded replicas and completes nothing.
FlushCountOnly(t) ==
    /\ pc[t] = "discount"
    /\ Count(cur[t].o, cur[t].r)
    /\ pc' = [pc EXCEPT ![t] = "flush"]
    /\ cur' = [cur EXCEPT ![t] = NoCur]
    /\ UNCHANGED <<keyOf, send_map, progress_map, subtasks, ended, timedOut, retryVars,
                   todo, snd, fin, reviving, memberVars, net, probes, peerVars>>

FlushCount(t) ==
    /\ pc[t] = "discount"
    /\ Count(cur[t].o, cur[t].r)
    /\ fin' = IF IsLast(cur[t].o) THEN [fin EXCEPT ![t] = @ \cup {<<cur[t].k, cur[t].o>>}] ELSE fin
    /\ pc' = [pc EXCEPT ![t] = "flush"]
    /\ cur' = [cur EXCEPT ![t] = NoCur]
    /\ UNCHANGED <<keyOf, send_map, progress_map, subtasks, ended, timedOut, retryVars,
                   todo, snd, reviving, memberVars, net, probes, peerVars>>

FlushUnlock(t) ==
    /\ pc[t] = "flush" /\ \A e \in send_in_retry : e.n # reviving[t]
    /\ retry_lock' = None
    /\ Goto(t, "idle")
    /\ UNCHANGED <<originVars, send_in_retry, todo, snd, fin, reviving, memberVars, net, probes, peerVars>>

\* ...and the origins that reached their size are completed after the unlock.
FlushNext(t) ==
    /\ pc[t] = "idle"
    /\ \E f \in fin[t] :
          /\ fin' = [fin EXCEPT ![t] = @ \ {f}]
          /\ pc' = [pc EXCEPT ![t] = "claim"]
          /\ cur' = [cur EXCEPT ![t] = [o |-> f[2], k |-> f[1], r |-> 1, src |-> None]]
    /\ UNCHANGED <<originVars, retryVars, todo, snd, reviving, memberVars, net, probes, peerVars>>

FlushDone(t) ==
    /\ pc[t] = "idle" /\ reviving[t] # None /\ fin[t] = {}
    /\ SetAlive(reviving[t])
    /\ UNCHANGED <<indirect, wrong>>
    /\ reviving' = [reviving EXCEPT ![t] = None]
    /\ UNCHANGED <<originVars, retryVars, pc, cur, todo, snd, fin, net, probes, peerVars>>

StartFlush(t, n) ==
    /\ pc' = [pc EXCEPT ![t] = "lock"]
    /\ reviving' = [reviving EXCEPT ![t] = n]
    /\ UNCHANGED cur

\* RecvInHandleOne for a task that peer n sends and whose task_id_.node_id_ is c
\* (None: this node).  A subtask inherits its task's id, so c is the node that
\* made the root task.  First c is revived; then, unless its pool is unknown here,
\* n is flushed and revived if it is (still) dead.
RecvIn(n, c) ==
    LET dead == c # None /\ ~IsAlive(c) IN
    /\ RFree /\ n \in up
    /\ Judge(dead /\ c \notin up)
    /\ IF dead THEN SetAlive(c) ELSE UNCHANGED <<nodeState, aged, addr>>
    /\ UNCHANGED indirect
    /\ \/ nodeState'[n] = "kDead" /\ StartFlush("R", n)
       \/ dead /\ UNCHANGED <<pc, cur, reviving>>
    /\ UNCHANGED <<originVars, retryVars, todo, snd, fin, net, probes, peerVars>>

-----------------------------------------------------------------------------
(* Thread H: HeartbeatProbe, and what else decides that a peer is gone, as   *)
(* far as the task path sees them.                                          *)

HFree == pc["H"] = "idle" /\ reviving["H"] = None

\* A direct or indirect probe of n has completed.  A dead node is flushed and
\* revived.  A node in kProbeFailed has indirect probes only, and one in
\* kSuspected has none.
ProbeCompleted(n) ==
    /\ HFree
    /\ Judge(n \notin up /\ ~IsAlive(n))
    /\ \/ /\ nodeState[n] = "kDead"
          /\ StartFlush("H", n)
          /\ indirect' \in {indirect, indirect \ {n}}
          /\ UNCHANGED <<nodeState, aged, addr>>
       \/ /\ nodeState[n] = "kProbeFailed" /\ n \in indirect
          /\ SetAlive(n)
          /\ indirect' = indirect \ {n}
          /\ UNCHANGED <<pc, cur, reviving>>
    /\ UNCHANGED <<originVars, retryVars, todo, snd, fin, net, probes, peerVars>>

\* A direct probe of n times out: indirect probes start if there are helpers.
DirectProbeTimeout(n) ==
    /\ HFree /\ nodeState[n] \in {"kAlive", "kDead"}
    /\ Judge(n \in up /\ IsAlive(n))
    /\ nodeState' = IF IsAlive(n) THEN [nodeState EXCEPT ![n] = "kProbeFailed"] ELSE nodeState
    /\ indirect' = IF \E m \in Nodes \ {n} : IsAlive(m) THEN indirect \cup {n} ELSE indirect
    /\ UNCHANGED <<originVars, retryVars, threadVars, aged, addr, net, probes, peerVars>>

\* The last indirect probe of n fails or times out.
IndirectProbesFail(n) ==
    /\ HFree /\ n \in indirect
    /\ nodeState' = IF nodeState[n] = "kProbeFailed"
                    THEN [nodeState EXCEPT ![n] = "kSuspected"] ELSE nodeState
    /\ indirect' = indirect \ {n}
    /\ UNCHANGED <<originVars, retryVars, threadVars, aged, addr, wrong, net, probes, peerVars>>

\* The suspicion timeout.  Traffic from n vetoes it.
DeclareDead(n) ==
    /\ HFree /\ nodeState[n] = "kSuspected"
    /\ SetDead(n)
    /\ UNCHANGED <<originVars, retryVars, threadVars, net, probes, peerVars>>

\* AnnounceShutdown: n, whatever its state, says that it leaves.
AnnounceShutdown(n) ==
    /\ nodeState[n] # "kDead"
    /\ SetDead(n)
    /\ UNCHANGED <<originVars, retryVars, threadVars, net, probes, peerVars>>

\* Time passes: a dead node or a retry entry reaches the task timeout.
AgeDead(n) ==
    /\ nodeState[n] = "kDead"
    /\ aged' = aged \cup {n}
    /\ UNCHANGED <<originVars, retryVars, threadVars, nodeState, indirect, addr, wrong, net, probes, peerVars>>

AgeRetry ==
    /\ \E e \in send_in_retry :
          send_in_retry' = (send_in_retry \ {e}) \cup {[e EXCEPT !.old = TRUE]}
    /\ UNCHANGED <<originVars, retry_lock, threadVars, memberVars, net, probes, peerVars>>

\* RecoverContainers: the containers of a dead node move to a live one.
Recover(n) ==
    /\ nodeState[n] = "kDead"
    /\ \E m \in Nodes :
          /\ IsAlive(m)
          /\ addr' = [c \in Containers |-> IF addr[c] = n THEN m ELSE addr[c]]
    /\ UNCHANGED <<originVars, retryVars, threadVars, nodeState, indirect, aged, wrong, net, probes, peerVars>>

-----------------------------------------------------------------------------
(* The peers.  A peer's view of this node is not modelled: an answer it     *)
(* cannot send at once waits in its send_out_retry_.                        *)

selfVars == <<originVars, retryVars, threadVars, memberVars>>

\* RecvInHandleOne at n: recv_map_ is written, or the task is dropped because
\* its pool has no container there.
PeerRecvIn(n) ==
    /\ n \in up
    /\ \E m \in net :
          /\ m.t = "in" /\ m.n = n
          /\ net' = net \ {m}
          /\ \/ /\ running' = [running EXCEPT ![n] = @ \cup {[o |-> m.o, k |-> m.k, r |-> m.r]}]
                /\ recv_map' = [recv_map EXCEPT ![n] = @ \cup {<<m.k, m.r>>}]
             \/ UNCHANGED <<running, recv_map>>
    /\ UNCHANGED <<selfVars, probes, out_retry, up, crashes>>

Answer(x, n) == [t |-> "out", o |-> x.o, k |-> x.k, r |-> x.r, n |-> n]

\* SendOut at n: recv_map_ is erased first, then the answer is sent or parked.
SendOut(n, x) ==
    /\ recv_map' = [recv_map EXCEPT ![n] = @ \ {<<x.k, x.r>>}]
    /\ \/ /\ net' = net \cup {Answer(x, n)}
          /\ out_retry' = [out_retry EXCEPT ![n] = @ \ {x}]
       \/ /\ out_retry' = [out_retry EXCEPT ![n] = @ \cup {x}]
          /\ UNCHANGED net

PeerFinish(n) ==
    /\ \E x \in running[n] :
          /\ running' = [running EXCEPT ![n] = @ \ {x}]
          /\ SendOut(n, x)
    /\ UNCHANGED <<selfVars, probes, up, crashes>>

PeerRetryOut(n) ==
    /\ \E x \in out_retry[n] : SendOut(n, x)
    /\ UNCHANGED <<selfVars, probes, running, up, crashes>>

\* The send_out_retry_ timeout: the answer is dropped and nobody is told.
PeerDropOut(n) ==
    /\ DropReplies
    /\ \E x \in out_retry[n] : out_retry' = [out_retry EXCEPT ![n] = @ \ {x}]
    /\ UNCHANGED <<selfVars, net, probes, running, recv_map, up, crashes>>

\* QueryTaskProgress at n.  Requests and probes share a connection, and so do
\* answers of both kinds: a probe is not handled before a request sent ahead of
\* it, nor is its answer seen before an answer sent ahead of it.
PeerProbe(n) ==
    /\ n \in up
    /\ \E p \in probes :
          /\ p.n = n /\ p.st = "sent"
          /\ \A m \in net : ~(m.n = n /\ m.k = p.k /\ m.r = p.r)
          /\ ~(pc["R"] # "idle" /\ cur["R"].k = p.k /\ cur["R"].r = p.r)
          /\ \/ probes' = (probes \ {p}) \cup
                   {[p EXCEPT !.st = IF <<p.k, p.r>> \in recv_map[n] THEN "running" ELSE "gone"]}
             \/ DropReplies /\ probes' = (probes \ {p}) \cup {[p EXCEPT !.st = "lost"]}
    /\ UNCHANGED <<selfVars, net, peerVars>>

\* The probe is an admin task: only the dead-node scan can fail it.
ProbeFails ==
    /\ \E p \in probes :
          /\ p.st \in {"sent", "lost"} /\ nodeState[p.n] = "kDead" /\ p.n \in aged
          /\ probes' = (probes \ {p}) \cup {[p EXCEPT !.st = "failed"]}
    /\ UNCHANGED <<selfVars, net, peerVars>>

Crash(n) ==
    /\ n \in up /\ crashes < MaxCrashes /\ wrong + crashes < MaxFaults
    /\ up' = up \ {n}
    /\ crashes' = crashes + 1
    /\ running' = [running EXCEPT ![n] = {}]
    /\ recv_map' = [recv_map EXCEPT ![n] = {}]
    /\ out_retry' = [out_retry EXCEPT ![n] = {}]
    /\ \E lost \in SUBSET {m \in net : m.n = n} :
          /\ {m \in net : m.n = n /\ m.t = "in"} \subseteq lost
          /\ net' = net \ lost
    /\ probes' = {IF p.n = n /\ p.st = "sent" THEN [p EXCEPT !.st = "lost"] ELSE p : p \in probes}
    /\ UNCHANGED selfVars

\* What was sent to a peer that is down is lost or delivered after it restarts.
Restart(n) ==
    /\ Restarts /\ n \notin up
    /\ up' = up \cup {n}
    /\ \/ net' = {m \in net : ~(m.n = n /\ m.t = "in")}
       \/ UNCHANGED net
    /\ UNCHANGED <<selfVars, probes, running, recv_map, out_retry, crashes>>

-----------------------------------------------------------------------------

Complete(t) == CountReplica(t) \/ ClaimOrigin(t) \/ EndTask(t)
Send == (\E o \in Origins : SendIn(o)) \/ SkipUnroutable \/ SkipDead \/ QueueDead
        \/ Transmit \/ QueueForRetry \/ RegisterOriginProgress
Gone == GoneMark \/ GoneFind
Answered == RecvOutDeserialize \/ RecvOutAggregate \/ MarkReplicaAccounted
Revive(t) == FlushLock(t) \/ FlushFind(t) \/ FlushCount(t) \/ FlushUnlock(t)
             \/ FlushNext(t) \/ FlushDone(t)
Verdict(n) == DirectProbeTimeout(n) \/ IndirectProbesFail(n) \/ DeclareDead(n) \/ AnnounceShutdown(n)
              \/ AgeDead(n) \/ Recover(n)
Member == \E n \in Nodes : \/ ProbeCompleted(n) \/ Verdict(n)
                           \/ \E c \in Nodes \cup {None} : RecvIn(n, c)
Peer == \E n \in Nodes : \/ PeerRecvIn(n) \/ PeerFinish(n) \/ PeerRetryOut(n) \/ PeerDropOut(n)
                         \/ PeerProbe(n) \/ Crash(n) \/ Restart(n)

Next == \/ Send \/ Gone \/ Answered
        \/ \E t \in Threads : Complete(t) \/ Revive(t)
        \/ ProcessRetryQueues \/ ScanSendMapTimeouts \/ ReapProbe \/ FireProbes
        \/ AgeRetry \/ ProbeFails \/ Member \/ Peer

Spec == Init /\ [][Next]_vars

\* The threads keep running and the Send tick is periodic; the peers that are up
\* make progress; time passes, so that probes of a peer that is down time out, as
\* do indirect probes.  A suspected peer is declared dead when it is silent; when
\* it is not, its heartbeats, which bear its own id, revive it.  An answer that can
\* be sent again is sent in the end.
Fairness ==
    /\ WF_vars(Send) /\ WF_vars(Gone) /\ WF_vars(Answered)
    /\ \A t \in Threads : WF_vars(Complete(t)) /\ WF_vars(Revive(t))
    /\ SF_vars(ProcessRetryQueues) /\ SF_vars(ScanSendMapTimeouts)
    /\ SF_vars(ReapProbe) /\ SF_vars(FireProbes)
    /\ WF_vars(AgeRetry) /\ WF_vars(ProbeFails)
    /\ \A n \in Nodes :
          /\ WF_vars(AgeDead(n))
          /\ WF_vars(DeclareDead(n) \/ (nodeState[n] = "kSuspected" /\ RecvIn(n, n)))
          /\ WF_vars(n \notin up /\ IsAlive(n) /\ DirectProbeTimeout(n))
          /\ WF_vars(nodeState[n] = "kProbeFailed" /\ IndirectProbesFail(n))
          /\ WF_vars(PeerRecvIn(n)) /\ WF_vars(PeerFinish(n))
          /\ WF_vars(PeerProbe(n)) /\ SF_vars(PeerRetryOut(n) /\ net' # net)
FairSpec == Spec /\ Fairness

-----------------------------------------------------------------------------
(* Properties.                                                              *)

Cur == [o : Origins \cup {None}, k : Keys \cup {None}, r : Rids, src : Origins \cup {None}]
Progress == [known : BOOLEAN, target : [Rids -> Nodes \cup {None}], size : 0..MaxReplicas,
             accounted : SUBSET Rids, probe : BOOLEAN]
Task == [o : Origins, k : Keys, r : Rids]

Pcs == {"idle", "queue", "lock", "flush", "find", "aggregate", "mark", "count", "discount", "claim", "end"}
Unheld == {"idle", "queue", "lock", "flush"}   \* the thread handles no replica

OriginType ==
    /\ keyOf \in [Origins -> Keys \cup {None}]
    /\ send_map \in [Keys -> Origins \cup {None}]
    /\ progress_map \in [Keys -> Progress]
    /\ subtasks \in [Origins -> 0..MaxReplicas]
    /\ completed \in [Origins -> Nat] /\ ended \in [Origins -> Nat]
    /\ timedOut \subseteq Origins
    /\ counted \in [Origins -> [Rids -> Nat]]
    /\ send_in_retry \subseteq [o : Origins, k : Keys, r : Rids, n : Nodes, old : BOOLEAN]
    /\ \A e \in send_in_retry : e.r \in Replicas(e.o)
ThreadType ==
    /\ pc \in [Threads -> Pcs]
    /\ retry_lock \in Threads \cup {None}
    /\ cur \in [Threads -> Cur]
    /\ \A t \in Threads : /\ pc[t] \in Unheld \cup {"find"} <=> cur[t].o = None
                          /\ pc[t] \in Unheld <=> cur[t].k = None
                          /\ pc[t] \in {"lock", "flush", "discount"} => reviving[t] # None
    /\ pc["S"] \notin {"lock", "flush", "discount"}
    /\ pc["S"] = "queue" => snd # NoSend /\ snd.i <= Len(Query[snd.o]) /\ snd.targets[snd.i] # None
    /\ pc["H"] \notin {"find", "queue"} /\ pc["R"] \notin {"find", "queue"}
    /\ todo \subseteq Keys \X Rids
    /\ snd \in [o : Origins \cup {None}, i : 0..MaxReplicas + 1, targets : [Rids -> Nodes \cup {None}]]
    /\ snd = NoSend <=> snd.o = None
    /\ snd # NoSend => snd.i \in 1..(Len(Query[snd.o]) + 1) /\ keyOf[snd.o] # None
    /\ fin \in [Threads -> SUBSET (Keys \X Origins)]
    /\ reviving \in [Threads -> Nodes \cup {None}]
MemberType ==
    /\ nodeState \in [Nodes -> {"kAlive", "kProbeFailed", "kSuspected", "kDead"}]
    /\ indirect \subseteq Nodes
    /\ aged \subseteq Nodes
    /\ addr \in [Containers -> Nodes]
    /\ wrong \in 0..MaxFalse
PeerType ==
    /\ net \subseteq [t : {"in", "out"}, o : Origins, k : Keys, r : Rids, n : Nodes]
    /\ probes \subseteq [k : Keys, r : Rids, n : Nodes,
                         st : {"sent", "lost", "running", "gone", "failed"}]
    /\ running \in [Nodes -> SUBSET Task] /\ out_retry \in [Nodes -> SUBSET Task]
    /\ recv_map \in [Nodes -> SUBSET (Keys \X Rids)]
    /\ up \subseteq Nodes /\ crashes \in 0..MaxCrashes

\* Every variable of the task path has its type; a thread holds an origin exactly
\* between its lookup and its last use of it.
TypeOK == OriginType /\ ThreadType /\ MemberType /\ PeerType

\* Exactly-once completion (issue #856): however answers, dead-node scans, gone
\* probes, retry timeouts and flushes race on the three threads, EndTask is
\* called at most once on an origin.
EndTaskOnce == \A o \in Origins : ended[o] <= 1

\* An origin is completed only by a full count: EndTask is never called on an
\* origin whose CompletedReplicas() is short of its number of replicas.
EndedOnFullCount == \A o \in Origins : ended[o] > 0 => completed[o] >= Len(Query[o])

\* No origin is forgotten (the hang of issue #856): an origin that still sits in
\* send_map_ with a full count has a thread on its way to claim it.
FullCountIsClaimed ==
    \A o \in Origins :
       (keyOf[o] # None /\ send_map[keyOf[o]] = o /\ completed[o] >= subtasks[o]) =>
          \E t \in Threads : \/ pc[t] = "claim" /\ cur[t].k = keyOf[o]
                             \/ <<keyOf[o], o>> \in fin[t]

\* Every replica is counted towards its origin at most once.  The code does not
\* ensure this (RegisterLast.cfg).
CountedOnce == \A o \in Origins : \A r \in Rids : counted[o][r] <= 1

\* An answer is aggregated into the origin that sent its request.  The code does
\* not ensure this (WrongOrigin.cfg).
AnswerReachesItsOrigin == pc["R"] = "mark" => cur["R"].o = cur["R"].src

Routable(o) == \A r \in Replicas(o) : Query[o][r].mode # "unroutable"

\* The direct probe of n failed and no indirect probe is under way.
ProbedByNobody(n) == nodeState[n] = "kProbeFailed" /\ n \notin indirect

\* Every origin whose replicas all have a target completes in the end, provided
\* that no peer is left in kProbeFailed for ever without a probe: whatever is
\* lost, one of answer, retry timeout, progress probe and dead-node scan comes.
Completes ==
    (\A n \in Nodes : []<>~ProbedByNobody(n)) =>
       \A o \in Origins : Routable(o) => <>(ended[o] > 0)

\* No caller ever hangs on a dead node: every origin whose replicas all have a
\* target completes in the end.  Only with the premise of Completes
\* (ProbeFailedHang.cfg).
NoCallerHangs == \A o \in Origins : Routable(o) => <>(ended[o] > 0)

\* Every origin completes in the end, replicas without a target or not.  The code
\* does not ensure this (UnroutableHang.cfg).
AllComplete == \A o \in Origins : <>(ended[o] > 0)

-----------------------------------------------------------------------------
(* Who owns an origin: the inductive invariant behind exactly-once completion. *)

\* The memory of o may have been given to another task.
Released(o) == ended[o] > 0 /\ ~Held(o)

\* Whatever a thread holds under an address is the origin of that address.
KeysMatch ==
    /\ \A k \in Keys : send_map[k] # None => keyOf[send_map[k]] = k
    /\ \A t \in Threads : cur[t].o # None => keyOf[cur[t].o] = cur[t].k
    /\ \A t \in Threads : \A f \in fin[t] : keyOf[f[2]] = f[1]

\* Two origins share an address only when the earlier one has been released.
OneOwner ==
    \A o, p \in Origins : (o # p /\ keyOf[o] = keyOf[p] /\ keyOf[o] # None) =>
       Released(o) \/ Released(p)

\* A waiting origin, and one a thread is about to end, has not been ended; only
\* one thread is about to end it.
EndIsOwned ==
    /\ \A k \in Keys : send_map[k] # None => ended[send_map[k]] = 0
    /\ \A t \in Threads : pc[t] = "end" => ended[cur[t].o] = 0 /\ send_map[cur[t].k] = None
    /\ \A t, u \in Threads : (t # u /\ pc[t] = "end" /\ pc[u] = "end") => cur[t].o # cur[u].o
    /\ \A o \in Origins : keyOf[o] = None => ended[o] = 0

\* Whoever claims or ends an origin has seen a full count.
CountsAreFull ==
    /\ \A o \in Origins : /\ subtasks[o] \in {0, Len(Query[o])}
                          /\ keyOf[o] = None => completed[o] = 0
    /\ \A k \in Keys : send_map[k] # None => subtasks[send_map[k]] = Len(Query[send_map[k]])
    /\ \A t \in Threads :
          /\ pc[t] \in {"claim", "end"} => completed[cur[t].o] >= Len(Query[cur[t].o])
          /\ \A f \in fin[t] : completed[f[2]] >= Len(Query[f[2]])
          /\ reviving[t] = None => fin[t] = {}

\* The ownership invariant: an address has one live origin, that origin is ended
\* by the one thread whose ClaimOrigin erased it, on a full count, and none with
\* a full count is left without a thread on its way to claim it.
Ownership == /\ KeysMatch /\ OneOwner /\ EndIsOwned /\ CountsAreFull
             /\ EndTaskOnce /\ EndedOnFullCount /\ FullCountIsClaimed

\* The task path implements OriginLife: an origin is "waiting" while send_map_
\* holds it, "claimed" once ClaimOrigin erased it, "done" after EndTask.
LifeOf(o) == IF keyOf[o] = None THEN "new"
             ELSE IF ended[o] > 0 THEN "done"
             ELSE IF send_map[keyOf[o]] = o THEN "waiting" ELSE "claimed"
Life == INSTANCE OriginLife WITH life <- [o \in Origins |-> LifeOf(o)]
ImplementsOriginLife == Life!Spec
=============================================================================
