--------------------------- MODULE Run2RunProofs ---------------------------
(***************************************************************************)
(* Proofs about Run2Run, for any number of origins, replicas, addresses and *)
(* peers, and any number of crashes and wrong verdicts: the types of its    *)
(* state, the ownership invariant and what follows from it.  Every origin is *)
(* ended at most once, on a full count, and the task path implements        *)
(* OriginLife.                                                              *)
(***************************************************************************)
EXTENDS Run2Run, TLAPS

USE DEF Threads, Rids, Replicas, Pcs, Unheld

-----------------------------------------------------------------------------
(* Type correctness.                                                        *)

LEMMA InitType == Init => TypeOK
  <1> SUFFICES ASSUME Init PROVE TypeOK  BY Zenon
  <1> USE QueryAssumption DEF Init
  <1>1. OriginType  BY DEF OriginType, NoProgress, Progress
  <1>2. ThreadType  BY DEF ThreadType, NoCur, NoSend, Cur
  <1>3. MemberType  BY DEF MemberType
  <1>4. PeerType  BY DEF PeerType, Task
  <1> QED BY <1>1, <1>2, <1>3, <1>4, Zenon DEF TypeOK

\* A thread past its lookup holds an origin, a key and a replica id.
LEMMA HoldsTyped ==
    ASSUME TypeOK, NEW t \in Threads, pc[t] \notin Unheld \cup {"find"}
    PROVE  cur[t] \in Cur /\ cur[t].o \in Origins /\ cur[t].k \in Keys /\ cur[t].r \in Rids
  BY Zenon DEF TypeOK, ThreadType, Cur

\* The SendIn in progress is of a known origin and at one of its replicas.
LEMMA SendTyped ==
    ASSUME TypeOK, snd # NoSend
    PROVE  /\ snd.o \in Origins /\ snd.i \in Nat /\ snd.i >= 1 /\ snd.i <= Len(Query[snd.o]) + 1
           /\ Len(Query[snd.o]) \in Nat /\ Len(Query[snd.o]) <= MaxReplicas
           /\ keyOf[snd.o] \in Keys
  BY QueryAssumption DEF TypeOK, ThreadType, OriginType

LEMMA QueryTyped ==
    ASSUME NEW o \in Origins, NEW i \in 1..Len(Query[o])
    PROVE  /\ Query[o][i] \in [mode : Modes, to : Nodes \cup Containers \cup {None}]
           /\ Query[o][i].mode = "physical" => Query[o][i].to \in Nodes
           /\ Query[o][i].mode = "container" => Query[o][i].to \in Containers
  <1> DEFINE Q == [mode : Modes, to : Nodes \cup Containers \cup {None}]
  <1>1. Query[o] \in Seq(Q)  BY Zenon, QueryAssumption
  <1>2. Query[o][i] \in Q
    <2> HIDE DEF Q
    <2> QED BY <1>1
  <1> QED BY <1>2, QueryAssumption, Zenon

LEMMA SendingTyped ==
    ASSUME TypeOK, Sending
    PROVE  /\ snd.o \in Origins /\ snd.i \in Rids /\ keyOf[snd.o] \in Keys
           /\ snd.i \in 1..Len(Query[snd.o])
           /\ Target \in Nodes \cup {None}
  <1>1. snd.i \in Rids /\ snd.o \in Origins /\ keyOf[snd.o] \in Keys /\ snd.i \in 1..Len(Query[snd.o])
    BY SendTyped, QueryAssumption DEF Sending
  <1>3. Target \in Nodes \cup {None}
    BY <1>1, QueryTyped, Zenon DEF Target, Resolve, Modes, TypeOK, MemberType
  <1> QED BY <1>1, <1>3, Zenon

\* The number of wrong verdicts stays within its bound.
LEMMA JudgeType == ASSUME TypeOK, NEW bad, Judge(bad) PROVE wrong' \in 0..MaxFalse
  <1>1. MaxFalse \in Nat  BY QueryAssumption, Zenon
  <1> QED BY <1>1 DEF Judge, TypeOK, MemberType

\* A thread that drops its replica, or goes on with it, keeps its type.
LEMMA DropType ==
    ASSUME TypeOK, NEW t \in Threads, pc[t] \notin Unheld \cup {"find"},
           \/ Drop(t)
           \/ Goto(t, "claim") \/ Goto(t, "end") \/ Goto(t, "count"),
           UNCHANGED <<todo, snd, fin, reviving, keyOf, retry_lock>>
    PROVE  ThreadType'
  <1>1. NoCur \in Cur /\ NoCur.o = None /\ NoCur.k = None  BY QueryAssumption DEF NoCur, Cur
  <1>2. CASE Drop(t)
    BY <1>1, <1>2, Zenon DEF TypeOK, ThreadType, Drop
  <1>3. CASE Goto(t, "claim") \/ Goto(t, "end") \/ Goto(t, "count")
    BY <1>3 DEF TypeOK, ThreadType, Goto
  <1> QED BY <1>2, <1>3, Zenon

\* Counting a replica keeps the types of both counters.
LEMMA CountType ==
    ASSUME TypeOK, NEW o \in Origins, NEW r \in Rids, Count(o, r)
    PROVE  completed' \in [Origins -> Nat] /\ counted' \in [Origins -> [Rids -> Nat]]
  <1>1. completed' \in [Origins -> Nat]  BY DEF Count, TypeOK, OriginType
  <1>2. counted \in [Origins -> [Rids -> Nat]]  BY Zenon DEF TypeOK, OriginType
  <1> DEFINE f == counted[o]
  <1>a. f \in [Rids -> Nat]  BY <1>2, Zenon
  <1>3. [f EXCEPT ![r] = @ + 1] \in [Rids -> Nat]
    <2> HIDE DEF f
    <2> QED BY <1>a
  <1>4. counted' = [counted EXCEPT ![o] = [counted[o] EXCEPT ![r] = @ + 1]]  BY Zenon DEF Count
  <1>5. counted' \in [Origins -> [Rids -> Nat]]  BY <1>2, <1>3, <1>4, Zenon
  <1> QED BY <1>1, <1>5, Zenon

\* Every step keeps the types, one case per action.
LEMMA CompleteType ==
    ASSUME TypeOK, NEW t \in Threads, Complete(t) PROVE TypeOK'
  <1> USE DEF originVars, retryVars, memberVars, peerVars
  <1>1. CASE CountReplica(t)
    <2>1. cur[t].o \in Origins /\ cur[t].r \in Rids  BY <1>1, HoldsTyped, Zenon DEF CountReplica
    <2>2. completed' \in [Origins -> Nat] /\ counted' \in [Origins -> [Rids -> Nat]]
      BY <1>1, <2>1, CountType, Zenon DEF CountReplica
    <2>4. OriginType'  BY Zenon, <1>1, <2>1, <2>2 DEF CountReplica, TypeOK, OriginType
    <2>5. ThreadType'  BY <1>1, DropType, Zenon DEF CountReplica
    <2> QED BY <1>1, <2>4, <2>5, Zenon DEF CountReplica, TypeOK, MemberType, PeerType
  <1>2. CASE ClaimOrigin(t)
    <2>1. cur[t].k \in Keys  BY <1>2, HoldsTyped, Zenon DEF ClaimOrigin
    <2>2. NoProgress \in Progress  BY QueryAssumption DEF NoProgress, Progress
    <2>3. OriginType'  BY <1>2, <2>1, <2>2, Zenon DEF ClaimOrigin, TypeOK, OriginType
    <2>5. ThreadType'  BY <1>2, DropType, Zenon DEF ClaimOrigin
    <2> QED BY Zenon, <1>2, <2>3, <2>5 DEF ClaimOrigin, TypeOK, MemberType, PeerType
  <1>3. CASE EndTask(t)
    <2>1. cur[t].o \in Origins  BY <1>3, HoldsTyped, Zenon DEF EndTask
    <2>2. OriginType'
      <3>1. subtasks \in [Origins -> 0..MaxReplicas] /\ ended \in [Origins -> Nat]
        BY Zenon DEF TypeOK, OriginType
      <3>2. /\ subtasks' = [subtasks EXCEPT ![cur[t].o] = 0]
            /\ ended' = [ended EXCEPT ![cur[t].o] = @ + 1]
        BY <1>3, Zenon DEF EndTask
      <3>3. subtasks' \in [Origins -> 0..MaxReplicas] /\ ended' \in [Origins -> Nat]
        BY <2>1, <3>1, <3>2, QueryAssumption
      <3> QED BY Zenon, <1>3, <3>3 DEF EndTask, TypeOK, OriginType
    <2>5. ThreadType'  BY <1>3, DropType, Zenon DEF EndTask
    <2> QED BY <1>3, <2>2, <2>5, Zenon DEF EndTask, TypeOK, MemberType, PeerType
  <1> QED BY <1>1, <1>2, <1>3, Zenon DEF Complete

\* SendIn at a replica: it records a target, goes on to the next replica, or both.
LEMMA SndStep ==
    ASSUME TypeOK, snd # NoSend, snd.i <= Len(Query[snd.o]), NEW n \in Nodes,
           \/ NextReplica \/ NextReplicaTo(n)
           \/ snd' = [snd EXCEPT !.targets[snd.i] = n]
    PROVE  /\ snd' \in [o : Origins \cup {None}, i : 0..MaxReplicas + 1, targets : [Rids -> Nodes \cup {None}]]
           /\ snd' # NoSend /\ snd'.o = snd.o /\ snd'.o # None
           /\ snd'.i \in 1..(Len(Query[snd'.o]) + 1)
           /\ snd' = [snd EXCEPT !.targets[snd.i] = n] => snd'.i = snd.i /\ snd'.targets[snd'.i] = n
  <1>1. /\ snd.o \in Origins /\ snd.i \in Rids /\ snd.i \in 1..Len(Query[snd.o])
        /\ snd \in [o : Origins \cup {None}, i : 0..MaxReplicas + 1, targets : [Rids -> Nodes \cup {None}]]
    BY SendTyped, QueryAssumption DEF TypeOK, ThreadType
  <1>2. snd.i + 1 \in 0..MaxReplicas + 1 /\ snd.i + 1 \in 1..(Len(Query[snd.o]) + 1)
    BY <1>1, QueryAssumption
  <1>3. [snd.targets EXCEPT ![snd.i] = n] \in [Rids -> Nodes \cup {None}]  BY <1>1, Zenon
  <1>4. snd.i \in 1..(Len(Query[snd.o]) + 1)  BY <1>1, QueryAssumption
  <1>5. /\ snd' \in [o : Origins \cup {None}, i : 0..MaxReplicas + 1, targets : [Rids -> Nodes \cup {None}]]
        /\ snd'.o = snd.o /\ snd'.i \in {snd.i, snd.i + 1}
    <2>1. CASE NextReplica  BY <2>1, <1>1, <1>2, Zenon DEF NextReplica
    <2>2. CASE NextReplicaTo(n)
      <3>1. snd' = [snd EXCEPT !.i = snd.i + 1, !.targets = [snd.targets EXCEPT ![snd.i] = n]]
        BY <2>2, Zenon DEF NextReplicaTo
      <3> QED BY Zenon, <3>1, <1>1, <1>2, <1>3
    <2>3. CASE snd' = [snd EXCEPT !.targets[snd.i] = n]
      <3>1. snd' = [snd EXCEPT !.targets = [snd.targets EXCEPT ![snd.i] = n]]  BY <2>3, Zenon
      <3> QED BY Zenon, <3>1, <1>1, <1>3
    <2> QED BY <2>1, <2>2, <2>3, Zenon
  <1>6. ASSUME snd' = [snd EXCEPT !.targets[snd.i] = n]
        PROVE  snd'.i = snd.i /\ snd'.targets[snd'.i] = n
    <2>1. snd' = [snd EXCEPT !.targets = [snd.targets EXCEPT ![snd.i] = n]]  BY <1>6, Zenon
    <2>2. snd'.i = snd.i /\ snd'.targets = [snd.targets EXCEPT ![snd.i] = n]  BY <2>1, <1>1, Zenon
    <2>3. snd.targets \in [Rids -> Nodes \cup {None}]  BY <1>1, Zenon
    <2> QED BY Zenon, <2>2, <2>3, <1>1
  <1>7. snd' # NoSend /\ snd'.o # None  BY <1>1, <1>5, QueryAssumption DEF NoSend
  <1> QED BY <1>1, <1>2, <1>4, <1>5, <1>6, <1>7, Zenon

LEMMA SendType == TypeOK /\ Send => TypeOK'
  <1> SUFFICES ASSUME TypeOK, Send PROVE TypeOK'  BY Zenon
  <1> USE DEF originVars, retryVars, memberVars, peerVars
  <1>1. ASSUME NEW o \in Origins, SendIn(o) PROVE TypeOK'
    <2>1. PICK k \in Keys : /\ keyOf' = [keyOf EXCEPT ![o] = k]
                            /\ send_map' = [send_map EXCEPT ![k] = o]
      BY Zenon, <1>1 DEF SendIn
    <2>2. Len(Query[o]) \in 1..MaxReplicas  BY QueryAssumption, Zenon
    <2>3. OriginType'  BY SMTT(30), <1>1, <2>1, <2>2, QueryAssumption DEF SendIn, TypeOK, OriginType
    <2>4. snd' = [o |-> o, i |-> 1, targets |-> [r \in Rids |-> None]]
      BY Zenon, <1>1 DEF SendIn, NoSend
    <2>5. keyOf'[o] # None  BY <2>1, QueryAssumption, Zenon DEF TypeOK, OriginType
    <2>6. ThreadType'
      BY <1>1, <2>2, <2>4, <2>5, QueryAssumption DEF SendIn, SFree, TypeOK, ThreadType, NoSend
    <2> QED BY <1>1, <2>3, <2>6, Zenon DEF SendIn, TypeOK, MemberType, PeerType
  <1>a. Sending => Target \in Nodes \cup {None} /\ snd # NoSend /\ snd.i <= Len(Query[snd.o])
    BY SendingTyped, Zenon DEF Sending
  <1>2. ASSUME SkipUnroutable \/ SkipDead PROVE ThreadType'
    <2>1. /\ snd.o \in Origins /\ snd.i \in Rids /\ snd.i \in 1..Len(Query[snd.o])
          /\ keyOf[snd.o] \in Keys /\ keyOf' = keyOf /\ pc["S"] = "idle"
      BY <1>2, SendingTyped, Zenon DEF SkipUnroutable, SkipDead, Sending
    <2>2. snd.i + 1 \in 0..MaxReplicas + 1 /\ snd.i + 1 \in 1..(Len(Query[snd.o]) + 1)
      BY SMTT(30), <2>1, QueryAssumption
    <2>3. /\ snd' \in [o : Origins \cup {None}, i : 0..MaxReplicas + 1, targets : [Rids -> Nodes \cup {None}]]
          /\ snd'.o = snd.o /\ snd'.i = snd.i + 1
      BY <1>2, <2>1, <2>2, Zenon DEF SkipUnroutable, SkipDead, NextReplica, TypeOK, ThreadType
    <2>4. snd' # NoSend /\ snd'.o # None  BY <2>1, <2>3, QueryAssumption DEF NoSend
    <2>5. /\ UNCHANGED <<retry_lock, todo, fin, reviving>>
          /\ \/ pc' = pc /\ cur' = cur
             \/ /\ pc' = [pc EXCEPT !["S"] = "claim"]
                /\ cur' = [cur EXCEPT !["S"] = [o |-> snd.o, k |-> keyOf[snd.o], r |-> snd.i, src |-> snd.o]]
      BY <1>2, Zenon DEF SkipUnroutable, SkipDead
    <2>6. /\ pc' \in [Threads -> Pcs] /\ cur' \in [Threads -> Cur]
          /\ \A t \in Threads : /\ pc'[t] \in Unheld \cup {"find"} <=> cur'[t].o = None
                                /\ pc'[t] \in Unheld <=> cur'[t].k = None
                                /\ pc'[t] \in {"lock", "flush", "discount"} => reviving'[t] # None
          /\ pc'["S"] \notin {"lock", "flush", "discount", "queue"}
          /\ pc'["H"] = pc["H"] /\ pc'["R"] = pc["R"]
      <3>1. CASE pc' = pc /\ cur' = cur  BY <3>1, <2>1, <2>5, Zenon DEF TypeOK, ThreadType
      <3>2. CASE /\ pc' = [pc EXCEPT !["S"] = "claim"]
                 /\ cur' = [cur EXCEPT !["S"] = [o |-> snd.o, k |-> keyOf[snd.o], r |-> snd.i, src |-> snd.o]]
        BY <3>2, <2>1, <2>5, QueryAssumption, Zenon DEF TypeOK, ThreadType, Cur
      <3> QED BY <2>5, <3>1, <3>2, Zenon
    <2> QED BY Zenon, <2>1, <2>2, <2>3, <2>4, <2>5, <2>6, QueryAssumption DEF TypeOK, ThreadType
  <1>3. CASE SkipUnroutable
    BY Zenon, <1>2, <1>3 DEF SkipUnroutable, TypeOK, OriginType, MemberType, PeerType
  <1>4. CASE SkipDead
    <2>2. snd.o \in Origins /\ snd.i \in Rids  BY <1>4, SendingTyped, Zenon DEF SkipDead
    <2>3. completed' \in [Origins -> Nat] /\ counted' \in [Origins -> [Rids -> Nat]]
      BY <1>4, <2>2, CountType, Zenon DEF SkipDead
    <2>4. OriginType'  BY <1>4, <2>3, Zenon DEF SkipDead, TypeOK, OriginType
    <2> QED BY <1>2, <1>4, <2>4, Zenon DEF SkipDead, TypeOK, MemberType, PeerType
  <1>5. ASSUME Sending, Target \in Nodes, keyOf' = keyOf,
               UNCHANGED <<retry_lock, todo, fin, reviving>>,
               \/ NextReplicaTo(Target) /\ UNCHANGED <<pc, cur>>
               \/ snd' = [snd EXCEPT !.targets[snd.i] = Target] /\ Goto("S", "queue")
        PROVE  ThreadType'
    <2>1. /\ snd' \in [o : Origins \cup {None}, i : 0..MaxReplicas + 1, targets : [Rids -> Nodes \cup {None}]]
          /\ snd' # NoSend /\ snd'.o = snd.o /\ snd'.o # None
          /\ snd'.i \in 1..(Len(Query[snd'.o]) + 1)
          /\ snd' = [snd EXCEPT !.targets[snd.i] = Target] => snd'.i = snd.i /\ snd'.targets[snd'.i] = Target
      BY <1>5, <1>a, SndStep, Zenon
    <2>2. pc["S"] = "idle" /\ keyOf'[snd'.o] # None /\ Target # None /\ snd.i <= Len(Query[snd'.o])
      BY <1>5, <1>a, <2>1, QueryAssumption, Zenon DEF Sending, TypeOK, ThreadType
    <2>3. CASE NextReplicaTo(Target) /\ UNCHANGED <<pc, cur>>
      BY <1>5, <2>1, <2>2, <2>3, Zenon DEF TypeOK, ThreadType
    <2>4. CASE snd' = [snd EXCEPT !.targets[snd.i] = Target] /\ Goto("S", "queue")
      <3>1. /\ pc' = [pc EXCEPT !["S"] = "queue"] /\ cur' = cur
            /\ snd'.i <= Len(Query[snd'.o]) /\ snd'.targets[snd'.i] # None
        BY <2>1, <2>2, <2>4, Zenon DEF Goto
      <3> QED BY <1>5, <2>1, <2>2, <3>1, Zenon DEF TypeOK, ThreadType
    <2> QED BY <1>5, <2>3, <2>4, Zenon
  <1>6. CASE QueueDead
    <2>1. ThreadType'  BY <1>6, <1>5, <1>a, Zenon DEF QueueDead
    <2> QED BY Zenon, <1>6, <2>1 DEF QueueDead, TypeOK, OriginType, MemberType, PeerType
  <1>8. CASE Transmit
    <2>1. ThreadType'  BY <1>8, <1>5, <1>a, Zenon DEF Transmit
    <2>3. Target \in Nodes  BY <1>8, SendingTyped, Zenon DEF Transmit
    <2>4. MemberType'
      <3>1. wrong' \in 0..MaxFalse  BY <1>8, JudgeType, Zenon DEF Transmit, SetDead, TypeOK, MemberType
      <3> QED BY <1>8, <2>3, <3>1, Zenon DEF Transmit, SetDead, TypeOK, MemberType
    <2>5. Request(snd.o, snd.i, Target) \in [t : {"in", "out"}, o : Origins, k : Keys, r : Rids, n : Nodes]
      BY <1>8, <2>3, SendingTyped, Zenon DEF Transmit, Request
    <2>6. PeerType'  BY <1>8, <2>5, Zenon DEF Transmit, TypeOK, PeerType
    <2> QED BY <1>8, <2>1, <2>4, <2>6, Zenon DEF Transmit, TypeOK, OriginType
  <1>9. CASE QueueForRetry
    <2> DEFINE e == RetryEntry(snd.o, snd.i, snd.targets[snd.i])
    <2>1. /\ snd # NoSend /\ snd.i <= Len(Query[snd.o]) /\ snd.targets[snd.i] # None
          /\ snd.o \in Origins /\ snd.i \in Rids /\ snd.i \in 1..Len(Query[snd.o]) /\ keyOf[snd.o] \in Keys
      BY <1>9, SendTyped, QueryAssumption DEF QueueForRetry, TypeOK, ThreadType
    <2>2. snd.targets[snd.i] \in Nodes  BY Zenon, <2>1 DEF TypeOK, ThreadType
    <2>3. e \in [o : Origins, k : Keys, r : Rids, n : Nodes, old : BOOLEAN] /\ e.r \in Replicas(e.o)
      BY <2>1, <2>2, Zenon DEF RetryEntry
    <2> HIDE DEF e
    <2>4. send_in_retry' = send_in_retry \cup {e}  BY Zenon, <1>9 DEF QueueForRetry, e
    <2>5. OriginType'  BY Zenon, <1>9, <2>3, <2>4 DEF QueueForRetry, TypeOK, OriginType
    <2>6. /\ snd' \in [o : Origins \cup {None}, i : 0..MaxReplicas + 1, targets : [Rids -> Nodes \cup {None}]]
          /\ snd' # NoSend /\ snd'.o = snd.o /\ snd'.o # None
          /\ snd'.i \in 1..(Len(Query[snd'.o]) + 1)
      BY <1>9, <2>1, <2>2, SndStep, Zenon DEF QueueForRetry
    <2>7. /\ pc' = [pc EXCEPT !["S"] = "idle"] /\ cur' = cur /\ keyOf' = keyOf /\ keyOf[snd.o] # None
          /\ UNCHANGED <<retry_lock, todo, fin, reviving>> /\ pc["S"] = "queue"
      BY Zenon, <1>9, <2>1, QueryAssumption DEF QueueForRetry, Goto
    <2>8. ThreadType'  BY <2>6, <2>7, Zenon DEF TypeOK, ThreadType
    <2> QED BY <1>9, <2>5, <2>8, Zenon DEF QueueForRetry, TypeOK, MemberType, PeerType
  <1>7. CASE RegisterOriginProgress
    <2>1. snd.o \in Origins /\ keyOf[snd.o] \in Keys /\ Len(Query[snd.o]) \in 0..MaxReplicas
      BY <1>7, SendTyped DEF RegisterOriginProgress
    <2>2. snd.targets \in [Rids -> Nodes \cup {None}]  BY Zenon DEF TypeOK, ThreadType
    <2>3. progress_map' \in [Keys -> Progress]
      BY SMTT(30), <1>7, <2>1, <2>2, QueryAssumption DEF RegisterOriginProgress, TypeOK, OriginType, Progress
    <2>4. OriginType'  BY <1>7, <2>3, Zenon DEF RegisterOriginProgress, TypeOK, OriginType
    <2>5. ThreadType'
      BY <1>7, QueryAssumption DEF RegisterOriginProgress, TypeOK, ThreadType, NoSend
    <2> QED BY <1>7, <2>4, <2>5, Zenon DEF RegisterOriginProgress, TypeOK, MemberType, PeerType
  <1> QED BY <1>1, <1>3, <1>4, <1>6, <1>7, <1>8, <1>9, Zenon DEF Send

\* Marking a replica as accounted keeps the type of progress_map_.
LEMMA MarkType ==
    ASSUME TypeOK, NEW k \in Keys, NEW r \in Rids, Mark(k, r)
    PROVE  progress_map' \in [Keys -> Progress]
  <1>1. progress_map \in [Keys -> Progress]  BY Zenon DEF TypeOK, OriginType
  <1> DEFINE p == progress_map[k]
  <1>2. p \in Progress  BY <1>1, Zenon
  <1>3. [p EXCEPT !.accounted = @ \cup {r}] \in Progress
    <2> HIDE DEF p
    <2> QED BY <1>2, Zenon DEF Progress
  <1> QED BY <1>1, <1>3, Zenon DEF Mark

LEMMA TickType ==
    ASSUME TypeOK,
           ProcessRetryQueues \/ ScanSendMapTimeouts \/ ReapProbe \/ FireProbes \/ AgeRetry
    PROVE  TypeOK'
  <1> USE DEF originVars, retryVars, memberVars, peerVars, threadVars
  <1> DEFINE E == [o : Origins, k : Keys, r : Rids, n : Nodes, old : BOOLEAN]
  <1>0. /\ send_in_retry \subseteq E
        /\ \A e \in send_in_retry : e.r \in Replicas(e.o)
    BY Zenon DEF TypeOK, OriginType
  <1>1. CASE ProcessRetryQueues
    <2> DEFINE expired == {e \in send_in_retry : Expired(e)}
               sendable == {e \in send_in_retry \ expired : RetryDest(e) # None}
    <2>1. PICK sent \in SUBSET sendable :
             /\ send_in_retry' = (send_in_retry \ (expired \cup sendable))
                   \cup {[e EXCEPT !.n = RetryDest(e)] : e \in sendable \ sent}
             /\ net' = net \cup {[t |-> "in", o |-> e.o, k |-> e.k, r |-> e.r, n |-> RetryDest(e)] : e \in sent}
      BY Zenon, <1>1 DEF ProcessRetryQueues
    <2>2. ASSUME NEW e \in sendable PROVE RetryDest(e) \in Nodes
      <3>1. e \in E /\ RetryDest(e) # None /\ e.r \in Replicas(e.o)  BY <1>0, Zenon
      <3>2. Reroute(e) \in Nodes \cup {None}
        BY <3>1, QueryTyped, Zenon DEF Reroute, Resolve, TypeOK, MemberType
      <3> QED BY <3>1, <3>2, Zenon DEF RetryDest
    <2>3. send_in_retry' \subseteq E  BY <1>0, <2>1, <2>2
    <2>a. \A e \in send_in_retry' : e.r \in Replicas(e.o)
      <3>1. ASSUME NEW e \in sendable
            PROVE  [e EXCEPT !.n = RetryDest(e)].r = e.r /\ [e EXCEPT !.n = RetryDest(e)].o = e.o
        BY <1>0, Zenon
      <3> QED BY <1>0, <2>1, <3>1
    <2>8. OriginType'  BY <1>1, <2>3, <2>a, Zenon DEF ProcessRetryQueues, TypeOK, OriginType
    <2>9. net' \subseteq [t : {"in", "out"}, o : Origins, k : Keys, r : Rids, n : Nodes]
      BY <1>0, <2>1, <2>2 DEF TypeOK, PeerType
    <2>10. PeerType'  BY <1>1, <2>9, Zenon DEF ProcessRetryQueues, TypeOK, PeerType
    <2>11. todo' \subseteq Keys \X Rids  BY <1>0, <1>1 DEF ProcessRetryQueues
    <2>12. ThreadType'  BY Zenon, <1>1, <2>11 DEF ProcessRetryQueues, TypeOK, ThreadType
    <2> QED BY <1>1, <2>8, <2>10, <2>12, Zenon DEF ProcessRetryQueues, TypeOK, MemberType
  <1>2. CASE ScanSendMapTimeouts
    <2>1. todo' \subseteq Keys \X Rids  BY Zenon, <1>2 DEF ScanSendMapTimeouts
    <2>2. ThreadType'  BY Zenon, <1>2, <2>1 DEF ScanSendMapTimeouts, TypeOK, ThreadType
    <2> QED BY Zenon, <1>2, <2>2 DEF ScanSendMapTimeouts, TypeOK, OriginType, MemberType, PeerType
  <1>3. CASE ReapProbe
    <2>1. todo' \subseteq Keys \X Rids /\ probes' \subseteq probes
      BY <1>3 DEF ReapProbe, TypeOK, PeerType
    <2>2. ThreadType'  BY <1>3, <2>1, Zenon DEF ReapProbe, TypeOK, ThreadType
    <2>3. PeerType'  BY Zenon, <1>3, <2>1 DEF ReapProbe, TypeOK, PeerType
    <2> QED BY <1>3, <2>2, <2>3, Zenon DEF ReapProbe, TypeOK, OriginType, MemberType
  <1>4. CASE FireProbes
    <2>1. ASSUME NEW w \in Keys \X Rids, progress_map[w[1]].target[w[2]] # None
          PROVE  [k |-> w[1], r |-> w[2], n |-> progress_map[w[1]].target[w[2]], st |-> "sent"]
                    \in [k : Keys, r : Rids, n : Nodes, st : {"sent", "lost", "running", "gone", "failed"}]
      <3>1. w[1] \in Keys /\ w[2] \in Rids  BY Zenon
      <3>2. progress_map[w[1]] \in Progress  BY <3>1, Zenon DEF TypeOK, OriginType
      <3>3. progress_map[w[1]].target \in [Rids -> Nodes \cup {None}]  BY <3>2, Zenon DEF Progress
      <3>4. progress_map[w[1]].target[w[2]] \in Nodes  BY Zenon, <2>1, <3>1, <3>3
      <3> QED BY <3>1, <3>4, Zenon
    <2>2. probes' \subseteq [k : Keys, r : Rids, n : Nodes, st : {"sent", "lost", "running", "gone", "failed"}]
      <3>1. \A p \in probes' :
               \/ p \in probes
               \/ \E w \in Keys \X Rids :
                     /\ progress_map[w[1]].target[w[2]] # None
                     /\ p = [k |-> w[1], r |-> w[2], n |-> progress_map[w[1]].target[w[2]], st |-> "sent"]
        BY ZenonT(30), <1>4 DEF FireProbes
      <3> QED BY <2>1, <3>1, Zenon DEF TypeOK, PeerType
    <2>3. PeerType'  BY Zenon, <1>4, <2>2 DEF FireProbes, TypeOK, PeerType
    <2> QED BY Zenon, <1>4, <2>3 DEF FireProbes, TypeOK, OriginType, MemberType, ThreadType
  <1>5. CASE AgeRetry
    <2>1. PICK e \in send_in_retry :
             send_in_retry' = (send_in_retry \ {e}) \cup {[e EXCEPT !.old = TRUE]}
      BY <1>5, Zenon DEF AgeRetry
    <2>2. send_in_retry' \subseteq E /\ \A x \in send_in_retry' : x.r \in Replicas(x.o)
      BY Zenon, <1>0, <2>1
    <2> QED BY Zenon, <1>5, <2>2 DEF AgeRetry, TypeOK, OriginType, MemberType, PeerType, ThreadType
  <1> QED BY <1>1, <1>2, <1>3, <1>4, <1>5, Zenon

LEMMA LookupType == ASSUME TypeOK, Gone \/ Answered PROVE TypeOK'
  <1> USE DEF originVars, retryVars, memberVars, peerVars
  <1>1. CASE GoneMark
    <2>1. PICK w \in todo :
          /\ todo' = todo \ {w}
          /\ IF MayCount(w[1], w[2])
             THEN /\ Mark(w[1], w[2])
                  /\ pc' = [pc EXCEPT !["S"] = "find"]
                  /\ cur' = [cur EXCEPT !["S"] = [NoCur EXCEPT !.k = w[1], !.r = w[2]]]
             ELSE UNCHANGED <<progress_map, pc, cur>>
      BY Zenon, <1>1 DEF GoneMark
    <2>2. w[1] \in Keys /\ w[2] \in Rids  BY Zenon DEF TypeOK, ThreadType
    <2>3. progress_map' \in [Keys -> Progress]  BY <2>1, <2>2, MarkType, Zenon DEF TypeOK, OriginType
    <2>4. OriginType'  BY <1>1, <2>3, Zenon DEF GoneMark, TypeOK, OriginType
    <2> DEFINE c == [NoCur EXCEPT !.k = w[1], !.r = w[2]]
    <2>5. c \in Cur /\ c.o = None /\ c.k # None  BY Zenon, <2>2, QueryAssumption DEF NoCur, Cur
    <2>a. \/ pc' = pc /\ cur' = cur
          \/ pc' = [pc EXCEPT !["S"] = "find"] /\ cur' = [cur EXCEPT !["S"] = c]
      BY <2>1, Zenon
    <2> HIDE DEF c
    <2>6. ThreadType'  BY <1>1, <2>1, <2>5, <2>a DEF GoneMark, TypeOK, ThreadType
    <2> QED BY <1>1, <2>4, <2>6, Zenon DEF GoneMark, TypeOK, MemberType, PeerType
  <1>2. CASE GoneFind
    <2>1. cur["S"] \in Cur /\ cur["S"].k \in Keys  BY <1>2, Zenon DEF GoneFind, TypeOK, ThreadType, Cur
    <2>2. send_map[cur["S"].k] \in Origins \cup {None}  BY <2>1, Zenon DEF TypeOK, OriginType
    <2>3. NoCur \in Cur /\ NoCur.o = None /\ NoCur.k = None  BY QueryAssumption DEF NoCur, Cur
    <2> DEFINE c == [cur["S"] EXCEPT !.o = send_map[cur["S"].k]]
    <2>4. c \in Cur /\ c.o = send_map[cur["S"].k] /\ c.k \in Keys  BY <2>1, <2>2, Zenon DEF Cur
    <2>5. \/ Drop("S")
          \/ /\ pc' = [pc EXCEPT !["S"] = "count"] /\ cur' = [cur EXCEPT !["S"] = c]
             /\ c.o # None
      BY <1>2, <2>4, Zenon DEF GoneFind
    <2> HIDE DEF c
    <2>6. ThreadType'
      <3>1. /\ pc["S"] = "find"
            /\ UNCHANGED <<retry_lock, todo, snd, fin, reviving, keyOf>>
        BY Zenon, <1>2 DEF GoneFind
      <3>2. CASE Drop("S")
        BY <2>3, <3>1, <3>2, QueryAssumption, Zenon DEF Drop, TypeOK, ThreadType
      <3>3. CASE ~Drop("S")
        BY <2>4, <2>5, <3>1, <3>3, QueryAssumption DEF TypeOK, ThreadType
      <3> QED BY <3>2, <3>3, Zenon
    <2> QED BY Zenon, <1>2, <2>6 DEF GoneFind, TypeOK, OriginType, MemberType, PeerType
  <1>3. CASE RecvOutDeserialize
    <2>1. PICK m \in net :
          /\ net' = net \ {m}
          /\ IF Match(m.k, m.r) = None
             THEN UNCHANGED <<pc, cur>>
             ELSE /\ pc' = [pc EXCEPT !["R"] = "aggregate"]
                  /\ cur' = [cur EXCEPT !["R"] =
                        [o |-> Match(m.k, m.r), k |-> m.k, r |-> m.r, src |-> m.o]]
      BY <1>3, Zenon DEF RecvOutDeserialize
    <2>2. m.k \in Keys /\ m.r \in Rids /\ m.o \in Origins  BY Zenon DEF TypeOK, PeerType
    <2>3. Match(m.k, m.r) \in Origins \cup {None}  BY <2>2, Zenon DEF Match, TypeOK, OriginType
    <2> DEFINE c == [o |-> Match(m.k, m.r), k |-> m.k, r |-> m.r, src |-> m.o]
    <2>4. c \in Cur /\ c.o = Match(m.k, m.r) /\ c.k # None  BY <2>2, <2>3, QueryAssumption, Zenon DEF Cur
    <2>5. \/ pc' = pc /\ cur' = cur
          \/ /\ pc' = [pc EXCEPT !["R"] = "aggregate"] /\ cur' = [cur EXCEPT !["R"] = c]
             /\ c.o # None
      BY Zenon, <2>1
    <2> HIDE DEF c
    <2>6. ThreadType'  BY <1>3, <2>4, <2>5 DEF RecvOutDeserialize, TypeOK, ThreadType
    <2>7. PeerType'  BY <1>3, <2>1, Zenon DEF RecvOutDeserialize, TypeOK, PeerType
    <2> QED BY <1>3, <2>6, <2>7, Zenon DEF RecvOutDeserialize, TypeOK, OriginType, MemberType
  <1>4. CASE RecvOutAggregate
    <2>1. cur["R"] \in Cur /\ cur["R"].k \in Keys /\ cur["R"].r \in Rids
      BY Zenon, <1>4, HoldsTyped DEF RecvOutAggregate
    <2> DEFINE o == Match(cur["R"].k, cur["R"].r)
               c == [cur["R"] EXCEPT !.o = o]
    <2>2. o \in Origins \cup {None}  BY Zenon, <2>1 DEF Match, TypeOK, OriginType
    <2>3. NoCur \in Cur /\ NoCur.o = None /\ NoCur.k = None  BY QueryAssumption DEF NoCur, Cur
    <2>4. c \in Cur /\ c.o = o /\ c.k \in Keys  BY <2>1, <2>2, Zenon DEF Cur
    <2>5. \/ Drop("R")
          \/ /\ pc' = [pc EXCEPT !["R"] = "mark"] /\ cur' = [cur EXCEPT !["R"] = c]
             /\ c.o # None
      BY <1>4, <2>4, Zenon DEF RecvOutAggregate
    <2> HIDE DEF c, o
    <2>6. ThreadType'
      BY SMTT(30), <1>4, <2>3, <2>4, <2>5, QueryAssumption DEF RecvOutAggregate, Drop, TypeOK, ThreadType
    <2> QED BY Zenon, <1>4, <2>6 DEF RecvOutAggregate, TypeOK, OriginType, MemberType, PeerType
  <1>5. CASE MarkReplicaAccounted
    <2>1. cur["R"].k \in Keys /\ cur["R"].r \in Rids  BY Zenon, <1>5, HoldsTyped DEF MarkReplicaAccounted
    <2>2. progress_map' \in [Keys -> Progress]
      BY <1>5, <2>1, MarkType, Zenon DEF MarkReplicaAccounted, TypeOK, OriginType
    <2>3. OriginType'  BY <1>5, <2>2, Zenon DEF MarkReplicaAccounted, TypeOK, OriginType
    <2>4. ThreadType'  BY <1>5, DropType, Zenon DEF MarkReplicaAccounted
    <2> QED BY <1>5, <2>3, <2>4, Zenon DEF MarkReplicaAccounted, TypeOK, MemberType, PeerType
  <1> QED BY <1>1, <1>2, <1>3, <1>4, <1>5, Zenon DEF Gone, Answered

LEMMA ReviveType == ASSUME TypeOK, NEW t \in Threads, Revive(t) PROVE TypeOK'
  <1> USE DEF originVars, retryVars, memberVars, peerVars
  <1>0. NoCur \in Cur /\ NoCur.o = None /\ NoCur.k = None  BY QueryAssumption DEF NoCur, Cur
  <1>1. CASE FlushLock(t)
    <2>1. ThreadType'  BY <1>1, Zenon DEF FlushLock, Goto, TypeOK, ThreadType
    <2> QED BY Zenon, <1>1, <2>1 DEF FlushLock, TypeOK, OriginType, MemberType, PeerType
  <1>2. CASE FlushFind(t)
    <2>1. PICK e \in send_in_retry :
          /\ send_in_retry' = send_in_retry \ {e}
          /\ \/ pc' = pc /\ cur' = cur
             \/ /\ send_map[e.k] # None
                /\ pc' = [pc EXCEPT ![t] = "discount"]
                /\ cur' = [cur EXCEPT ![t] = [o |-> send_map[e.k], k |-> e.k, r |-> e.r, src |-> None]]
      BY <1>2, Zenon DEF FlushFind
    <2>2. e.k \in Keys /\ e.r \in Rids  BY Zenon DEF TypeOK, OriginType
    <2> DEFINE c == [o |-> send_map[e.k], k |-> e.k, r |-> e.r, src |-> None]
    <2>3. c \in Cur /\ c.o = send_map[e.k] /\ c.k # None
      BY Zenon, <2>2, QueryAssumption DEF Cur, TypeOK, OriginType
    <2>4. \/ pc' = pc /\ cur' = cur
          \/ pc' = [pc EXCEPT ![t] = "discount"] /\ cur' = [cur EXCEPT ![t] = c] /\ c.o # None
      BY Zenon, <2>1, <2>3
    <2> HIDE DEF c
    <2>5. pc[t] = "flush" /\ UNCHANGED <<retry_lock, todo, snd, fin, reviving, keyOf>>
      BY <1>2, Zenon DEF FlushFind
    <2>6. ThreadType'  BY <2>3, <2>4, <2>5 DEF TypeOK, ThreadType
    <2>7. OriginType'  BY Zenon, <1>2, <2>1 DEF FlushFind, TypeOK, OriginType
    <2> QED BY Zenon, <1>2, <2>6, <2>7 DEF FlushFind, TypeOK, MemberType, PeerType
  <1>3. CASE FlushCount(t)
    <2>1. cur[t].o \in Origins /\ cur[t].r \in Rids /\ cur[t].k \in Keys
      BY Zenon, <1>3, HoldsTyped DEF FlushCount
    <2>2. completed' \in [Origins -> Nat] /\ counted' \in [Origins -> [Rids -> Nat]]
      BY Zenon, <1>3, <2>1, CountType DEF FlushCount
    <2>3. OriginType'  BY Zenon, <1>3, <2>2 DEF FlushCount, TypeOK, OriginType
    <2>4. fin' \in [Threads -> SUBSET (Keys \X Origins)]
      <3>1. fin \in [Threads -> SUBSET (Keys \X Origins)]  BY Zenon DEF TypeOK, ThreadType
      <3>2. \/ fin' = fin
            \/ fin' = [fin EXCEPT ![t] = fin[t] \cup {<<cur[t].k, cur[t].o>>}]
        BY Zenon, <1>3 DEF FlushCount
      <3> QED BY <2>1, <3>1, <3>2
    <2>5. /\ pc' = [pc EXCEPT ![t] = "flush"] /\ cur' = [cur EXCEPT ![t] = NoCur] /\ pc[t] = "discount"
          /\ UNCHANGED <<retry_lock, todo, snd, reviving, keyOf>>
      BY ZenonT(30), <1>3 DEF FlushCount
    <2>6. ThreadType'  BY <1>0, <2>4, <2>5, Zenon DEF TypeOK, ThreadType
    <2> QED BY Zenon, <1>3, <2>3, <2>6 DEF FlushCount, TypeOK, MemberType, PeerType
  <1>4. CASE FlushUnlock(t)
    <2>1. ThreadType'  BY <1>4, Zenon DEF FlushUnlock, Goto, TypeOK, ThreadType
    <2> QED BY Zenon, <1>4, <2>1 DEF FlushUnlock, TypeOK, OriginType, MemberType, PeerType
  <1>5. CASE FlushNext(t)
    <2>1. PICK f \in fin[t] :
             /\ fin' = [fin EXCEPT ![t] = @ \ {f}]
             /\ pc' = [pc EXCEPT ![t] = "claim"]
             /\ cur' = [cur EXCEPT ![t] = [o |-> f[2], k |-> f[1], r |-> 1, src |-> None]]
      BY Zenon, <1>5 DEF FlushNext
    <2>2. f[1] \in Keys /\ f[2] \in Origins  BY DEF TypeOK, ThreadType
    <2> DEFINE c == [o |-> f[2], k |-> f[1], r |-> 1, src |-> None]
    <2>b. 1 \in Rids  BY QueryAssumption
    <2>3. c \in Cur /\ c.o # None /\ c.k # None  BY <2>2, <2>b, QueryAssumption, Zenon DEF Cur
    <2> HIDE DEF c
    <2>4. cur' = [cur EXCEPT ![t] = c]  BY <2>1, Zenon DEF c
    <2>c. fin' \in [Threads -> SUBSET (Keys \X Origins)]  BY <2>1, Zenon DEF TypeOK, ThreadType
    <2>5. ThreadType'
      <3>1. pc' = [pc EXCEPT ![t] = "claim"]  BY <2>1, Zenon
      <3>2. UNCHANGED <<todo, snd, reviving, keyOf, retry_lock>>  BY <1>5, Zenon DEF FlushNext
      <3> QED BY <3>1, <3>2, <2>c, <2>3, <2>4 DEF TypeOK, ThreadType
    <2> QED BY Zenon, <1>5, <2>5 DEF FlushNext, TypeOK, OriginType, MemberType, PeerType
  <1>6. CASE FlushDone(t)
    <2>1. MemberType'  BY Zenon, <1>6 DEF FlushDone, SetAlive, TypeOK, ThreadType, MemberType
    <2>2. ThreadType'  BY <1>6, Zenon DEF FlushDone, TypeOK, ThreadType
    <2> QED BY Zenon, <1>6, <2>1, <2>2 DEF FlushDone, TypeOK, OriginType, PeerType
  <1> QED BY <1>1, <1>2, <1>3, <1>4, <1>5, <1>6, Zenon DEF Revive

LEMMA MemberKept == ASSUME TypeOK, Member PROVE TypeOK'
  <1> USE DEF originVars, retryVars, memberVars, peerVars, threadVars
  <1>0. ASSUME NEW t \in {"R", "H"}, NEW n \in Nodes, pc[t] = "idle",
               StartFlush(t, n) \/ UNCHANGED <<pc, cur, reviving>>,
               UNCHANGED <<retry_lock, todo, snd, fin, keyOf>>
        PROVE  ThreadType'
    <2>1. CASE StartFlush(t, n)
      <3>1. n # None  BY Zenon, QueryAssumption
      <3> QED BY <1>0, <2>1, <3>1, ZenonT(30) DEF StartFlush, TypeOK, ThreadType
    <2>2. CASE UNCHANGED <<pc, cur, reviving>>  BY Zenon, <1>0, <2>2 DEF TypeOK, ThreadType
    <2> QED BY <1>0, <2>1, <2>2, Zenon
  <1>1. ASSUME NEW n \in Nodes, NEW c \in Nodes \cup {None}, RecvIn(n, c) PROVE TypeOK'
    <2>1. MemberType'
      <3>1. wrong' \in 0..MaxFalse  BY <1>1, JudgeType, Zenon DEF RecvIn
      <3> QED BY <1>1, <3>1, Zenon DEF RecvIn, SetAlive, TypeOK, MemberType
    <2>2. ThreadType'  BY <1>0, <1>1, Zenon DEF RecvIn, RFree
    <2> QED BY Zenon, <1>1, <2>1, <2>2 DEF RecvIn, TypeOK, OriginType, PeerType
  <1>2. ASSUME NEW n \in Nodes, ProbeCompleted(n) PROVE TypeOK'
    <2>1. MemberType'
      <3>1. wrong' \in 0..MaxFalse  BY <1>2, JudgeType, Zenon DEF ProbeCompleted
      <3> QED BY <1>2, <3>1, Zenon DEF ProbeCompleted, SetAlive, TypeOK, MemberType
    <2>2. ThreadType'  BY <1>0, <1>2, Zenon DEF ProbeCompleted, HFree
    <2> QED BY Zenon, <1>2, <2>1, <2>2 DEF ProbeCompleted, TypeOK, OriginType, PeerType
  <1>3. ASSUME NEW n \in Nodes, Verdict(n) PROVE TypeOK'
    <2>1. MemberType'
      <3>1. CASE DirectProbeTimeout(n)
        <4>1. wrong' \in 0..MaxFalse  BY <3>1, JudgeType, Zenon DEF DirectProbeTimeout
        <4> QED BY <3>1, <4>1, Zenon DEF DirectProbeTimeout, TypeOK, MemberType
      <3>2. CASE IndirectProbesFail(n)  BY <3>2, Zenon DEF IndirectProbesFail, TypeOK, MemberType
      <3>3. CASE DeclareDead(n) \/ AnnounceShutdown(n)
        <4>1. wrong' \in 0..MaxFalse
          BY <3>3, JudgeType, Zenon DEF DeclareDead, AnnounceShutdown, SetDead
        <4> QED BY <3>3, <4>1, Zenon DEF DeclareDead, AnnounceShutdown, SetDead, TypeOK, MemberType
      <3>4. CASE AgeDead(n)  BY <3>4, Zenon DEF AgeDead, TypeOK, MemberType
      <3>5. CASE Recover(n)  BY <3>5, Zenon DEF Recover, TypeOK, MemberType
      <3> QED BY <1>3, <3>1, <3>2, <3>3, <3>4, <3>5, Zenon DEF Verdict
    <2>2. UNCHANGED <<originVars, retryVars, threadVars, net, probes, peerVars>>
      BY <1>3, Zenon DEF Verdict, DirectProbeTimeout, IndirectProbesFail, DeclareDead, AnnounceShutdown, AgeDead, Recover
    <2> QED BY Zenon, <2>1, <2>2 DEF TypeOK, OriginType, ThreadType, PeerType
  <1> QED BY <1>1, <1>2, <1>3, Zenon DEF Member

\* The peers' steps leave this node's state alone.
LEMMA PeerSelf == ASSUME Peer \/ ProbeFails PROVE UNCHANGED selfVars
  BY Zenon DEF Peer, ProbeFails, PeerRecvIn, PeerFinish, PeerRetryOut, PeerDropOut, PeerProbe, Crash, Restart

LEMMA PeerKept == ASSUME TypeOK, Peer \/ ProbeFails PROVE TypeOK'
  <1> DEFINE M == [t : {"in", "out"}, o : Origins, k : Keys, r : Rids, n : Nodes]
             P == [k : Keys, r : Rids, n : Nodes, st : {"sent", "lost", "running", "gone", "failed"}]
  <1>1. net \subseteq M /\ probes \subseteq P  BY Zenon DEF TypeOK, PeerType
  <1>2. ASSUME NEW n \in Nodes, NEW x \in Task, SendOut(n, x)
        PROVE  /\ net' \subseteq M /\ out_retry' \in [Nodes -> SUBSET Task]
               /\ recv_map' \in [Nodes -> SUBSET (Keys \X Rids)]
    <2>1. Answer(x, n) \in M  BY Zenon DEF Answer, Task
    <2> QED BY <1>1, <1>2, <2>1 DEF SendOut, TypeOK, PeerType
  <1>3. ASSUME NEW p \in probes, NEW s \in {"sent", "lost", "running", "gone", "failed"}
        PROVE  [p EXCEPT !.st = s] \in P
    BY <1>1, Zenon
  <1>4. PeerType'
    <2>1. ASSUME NEW n \in Nodes, PeerRecvIn(n) PROVE PeerType'
      <3>1. PICK m \in net :
              /\ m.t = "in" /\ m.n = n
              /\ net' = net \ {m}
              /\ \/ /\ running' = [running EXCEPT ![n] = @ \cup {[o |-> m.o, k |-> m.k, r |-> m.r]}]
                    /\ recv_map' = [recv_map EXCEPT ![n] = @ \cup {<<m.k, m.r>>}]
                 \/ UNCHANGED <<running, recv_map>>
        BY <2>1, Zenon DEF PeerRecvIn
      <3>2. [o |-> m.o, k |-> m.k, r |-> m.r] \in Task /\ <<m.k, m.r>> \in Keys \X Rids
        BY <1>1, Zenon DEF Task
      <3> QED BY <2>1, <3>1, <3>2 DEF PeerRecvIn, TypeOK, PeerType
    <2>2. ASSUME NEW n \in Nodes, PeerFinish(n) PROVE PeerType'
      <3>1. PICK x \in running[n] :
              running' = [running EXCEPT ![n] = @ \ {x}] /\ SendOut(n, x)
        BY Zenon, <2>2 DEF PeerFinish
      <3>2. x \in Task  BY Zenon DEF TypeOK, PeerType
      <3> QED BY <2>2, <1>2, <3>1, <3>2, Zenon DEF PeerFinish, TypeOK, PeerType
    <2>3. ASSUME NEW n \in Nodes, PeerRetryOut(n) PROVE PeerType'
      <3>1. PICK x \in out_retry[n] : SendOut(n, x)  BY Zenon, <2>3 DEF PeerRetryOut
      <3>2. x \in Task  BY Zenon DEF TypeOK, PeerType
      <3> QED BY <2>3, <1>2, <3>1, <3>2, Zenon DEF PeerRetryOut, TypeOK, PeerType
    <2>4. ASSUME NEW n \in Nodes, PeerDropOut(n) PROVE PeerType'
      BY <2>4, Zenon DEF PeerDropOut, TypeOK, PeerType
    <2>5. ASSUME NEW n \in Nodes, PeerProbe(n) PROVE PeerType'
      <3>1. PICK p \in probes : \E s \in {"running", "gone", "lost"} :
               probes' = (probes \ {p}) \cup {[p EXCEPT !.st = s]}
        BY <2>5, Zenon DEF PeerProbe
      <3>2. probes' \subseteq P  BY <1>1, <1>3, <3>1, Zenon
      <3> QED BY <2>5, <3>2, Zenon DEF PeerProbe, peerVars, TypeOK, PeerType
    <2>6. ASSUME NEW n \in Nodes, Crash(n) PROVE PeerType'
      <3>1. \A q \in probes' : q \in probes \/ \E p \in probes : q = [p EXCEPT !.st = "lost"]
        BY <2>6, Zenon DEF Crash
      <3>2. probes' \subseteq P  BY <1>1, <1>3, <3>1
      <3>3. net' \subseteq net /\ up' \subseteq up /\ crashes' \in 0..MaxCrashes
        BY <2>6, QueryAssumption DEF Crash, TypeOK, PeerType
      <3> QED BY <2>6, <3>2, <3>3, Zenon DEF Crash, TypeOK, PeerType
    <2>7. ASSUME NEW n \in Nodes, Restart(n) PROVE PeerType'
      BY <2>7, Zenon DEF Restart, TypeOK, PeerType
    <2>8. CASE ProbeFails
      <3>1. PICK p \in probes : probes' = (probes \ {p}) \cup {[p EXCEPT !.st = "failed"]}
        BY <2>8, Zenon DEF ProbeFails
      <3>2. probes' \subseteq P  BY <1>1, <1>3, <3>1, Zenon
      <3> QED BY <2>8, <3>2, Zenon DEF ProbeFails, peerVars, TypeOK, PeerType
    <2> QED BY <2>1, <2>2, <2>3, <2>4, <2>5, <2>6, <2>7, <2>8, Zenon DEF Peer
  <1>5. OriginType' /\ ThreadType' /\ MemberType'
    BY ZenonT(30), PeerSelf DEF selfVars, originVars, retryVars, threadVars, memberVars, TypeOK, OriginType, ThreadType, MemberType
  <1> QED BY <1>4, <1>5, Zenon DEF TypeOK

LEMMA NextType == TypeOK /\ [Next]_vars => TypeOK'
  <1> SUFFICES ASSUME TypeOK, [Next]_vars PROVE TypeOK'  BY Zenon
  <1>1. CASE UNCHANGED vars
    BY Zenon, <1>1 DEF vars, originVars, retryVars, threadVars, memberVars, peerVars,
                TypeOK, OriginType, ThreadType, MemberType, PeerType
  <1> QED BY <1>1, CompleteType, SendType, TickType, LookupType, ReviveType, MemberKept, PeerKept, Zenon DEF Next

\* Every reachable state of the task path is well typed, and a thread holds an
\* origin exactly from its lookup to its last use of it.
THEOREM TypeCorrect == Spec => []TypeOK
  BY InitType, NextType, PTL DEF Spec

HIDE DEF Threads, Rids, Replicas, Pcs, Unheld


-----------------------------------------------------------------------------
(* Initially, and while an origin is looked up, counted and claimed. *)

LEMMA LenTyped == ASSUME NEW o \in Origins
                  PROVE  Len(Query[o]) \in Nat /\ Len(Query[o]) >= 1
  BY QueryAssumption

\* What a step of one thread does to pc and cur, thread by thread.
LEMMA ThreadStep ==
    ASSUME TypeOK, NEW t \in Threads, NEW l, NEW c,
           pc' = [pc EXCEPT ![t] = l], cur' = [cur EXCEPT ![t] = c]
    PROVE  /\ pc'[t] = l /\ cur'[t] = c
           /\ \A u \in Threads : u # t => pc'[u] = pc[u] /\ cur'[u] = cur[u]
  BY Zenon DEF TypeOK, ThreadType

LEMMA InitOwnership == ASSUME Init PROVE Ownership
  <1> USE QueryAssumption DEF Init
  <1>1. KeysMatch  BY Zenon DEF KeysMatch, NoCur
  <1>2. OneOwner  BY Zenon DEF OneOwner
  <1>3. EndIsOwned  BY Zenon DEF EndIsOwned
  <1>4. CountsAreFull  BY Zenon DEF CountsAreFull
  <1>5. EndTaskOnce /\ EndedOnFullCount  BY DEF EndTaskOnce, EndedOnFullCount
  <1>6. FullCountIsClaimed  BY Zenon DEF FullCountIsClaimed
  <1> QED BY <1>1, <1>2, <1>3, <1>4, <1>5, <1>6, Zenon DEF Ownership

\* A step that forgets no key and lets go of no ended origin's release keeps
\* addresses apart.
LEMMA OneOwnerKept ==
    ASSUME OneOwner, keyOf' = keyOf, \A o \in Origins : Released(o) => Released(o)'
    PROVE  OneOwner'
  BY Zenon DEF OneOwner

\* The SendIn in progress may move on or finish: nobody's ownership changes.
LEMMA FrameOwnership ==
    ASSUME Ownership, TypeOK, snd'.o \in {snd.o, None},
           UNCHANGED <<keyOf, send_map, subtasks, completed, ended, pc, cur, fin, reviving>>
    PROVE  Ownership'
  <1> USE DEF Ownership
  <1>1. \A o \in Origins : Released(o) => Released(o)'  BY QueryAssumption, Zenon DEF Released, Held
  <1>2. OneOwner'  BY <1>1, OneOwnerKept, Zenon
  <1>3. KeysMatch' /\ EndIsOwned' /\ CountsAreFull'  BY Zenon DEF KeysMatch, EndIsOwned, CountsAreFull
  <1>4. EndTaskOnce' /\ EndedOnFullCount'  BY Zenon DEF EndTaskOnce, EndedOnFullCount
  <1>5. FullCountIsClaimed'  BY Zenon DEF FullCountIsClaimed
  <1> QED BY <1>2, <1>3, <1>4, <1>5, Zenon

\* A thread that looks an origin up, keeps the one it has or drops it, without
\* counting, claiming or ending anything; it may start to revive a node.
LEMMA LookupOwnership ==
    ASSUME Ownership, TypeOK, NEW t \in Threads, NEW l, NEW c,
           pc[t] \notin {"claim", "end"}, l \notin {"claim", "end"},
           pc' = [pc EXCEPT ![t] = l], cur' = [cur EXCEPT ![t] = c],
           \/ c.o = None
           \/ c.k \in Keys /\ c.o = send_map[c.k]
           \/ c.o = cur[t].o /\ c.k = cur[t].k,
           snd'.o \in {snd.o, None}, \A u \in Threads : reviving'[u] = None => reviving[u] = None,
           UNCHANGED <<keyOf, send_map, subtasks, completed, ended, fin>>
    PROVE  Ownership'
  <1> USE DEF Ownership
  <1>0. /\ pc'[t] = l /\ cur'[t] = c
        /\ \A u \in Threads : u # t => pc'[u] = pc[u] /\ cur'[u] = cur[u]
    BY Zenon, ThreadStep
  <1>1. \A o \in Origins : Released(o) => Released(o)'
    <2> SUFFICES ASSUME NEW o \in Origins, Released(o), Held(o)' PROVE FALSE
      BY Zenon DEF Released
    <2>1. c.o = o  BY <1>0, QueryAssumption DEF Released, Held
    <2>2. ~(c.o = cur[t].o)  BY <2>1, Zenon DEF Released, Held
    <2>3. c.k \in Keys /\ send_map[c.k] = o  BY <2>1, <2>2, QueryAssumption, Zenon
    <2>4. ended[o] = 0  BY <2>3, QueryAssumption, Zenon DEF EndIsOwned
    <2> QED BY <2>4 DEF Released
  <1>2. OneOwner'  BY <1>1, OneOwnerKept, Zenon
  <1>3. KeysMatch'  BY <1>0 DEF KeysMatch
  <1>4. EndIsOwned'  BY <1>0 DEF EndIsOwned
  <1>5. CountsAreFull'  BY <1>0, Zenon DEF CountsAreFull
  <1>6. EndTaskOnce' /\ EndedOnFullCount'  BY Zenon DEF EndTaskOnce, EndedOnFullCount
  <1>7. FullCountIsClaimed'  BY <1>0 DEF FullCountIsClaimed
  <1> QED BY <1>2, <1>3, <1>4, <1>5, <1>6, <1>7, Zenon

\* The same when the SendIn in progress and the revivals are left alone.
LEMMA QuietLookup ==
    ASSUME Ownership, TypeOK, NEW t \in Threads, NEW l, NEW c,
           pc[t] \notin {"claim", "end"}, l \notin {"claim", "end"},
           pc' = [pc EXCEPT ![t] = l], cur' = [cur EXCEPT ![t] = c],
           \/ c.o = None
           \/ c.k \in Keys /\ c.o = send_map[c.k]
           \/ c.o = cur[t].o /\ c.k = cur[t].k,
           UNCHANGED <<keyOf, send_map, subtasks, completed, ended, snd, fin, reviving>>
    PROVE  Ownership'
  <1>1. snd'.o \in {snd.o, None} /\ \A u \in Threads : reviving'[u] = None => reviving[u] = None
    BY Zenon
  <1>2. UNCHANGED <<keyOf, send_map, subtasks, completed, ended, fin>>  BY Zenon
  <1> QED BY Zenon, <1>1, <1>2, LookupOwnership

\* The origin found at the address of an origin that a thread holds is that origin.
LEMMA HeldIsCurrent ==
    ASSUME Ownership, TypeOK, NEW o \in Origins, Held(o), NEW k \in Keys, keyOf[o] = k,
           send_map[k] # None
    PROVE  send_map[k] = o
  <1> DEFINE p == send_map[k]
  <1>1. p \in Origins /\ keyOf[p] = k /\ ended[p] = 0
    BY Zenon DEF Ownership, KeysMatch, EndIsOwned, TypeOK, OriginType
  <1>2. ~Released(o) /\ ~Released(p)  BY <1>1 DEF Released
  <1> QED BY <1>1, <1>2, QueryAssumption, Zenon DEF Ownership, OneOwner

\* Completion: counting a replica, claiming the origin, ending it.
LEMMA CountOwnership ==
    ASSUME Ownership, TypeOK, NEW t \in Threads, NEW o \in Origins, NEW k \in Keys, NEW c,
           Held(o), keyOf[o] = k, pc[t] \notin {"claim", "end"},
           completed' = [completed EXCEPT ![o] = @ + 1],
           IF IsLast(o)
           THEN /\ pc' = [pc EXCEPT ![t] = "claim"]
                /\ cur' = [cur EXCEPT ![t] = c] /\ c.o = o /\ c.k = k
           ELSE \/ pc' = pc /\ cur' = cur
                \/ Drop(t),
           snd'.o = snd.o,
           UNCHANGED <<keyOf, send_map, subtasks, ended, fin, reviving>>
    PROVE  Ownership'
  <1> USE DEF Ownership
  <1>0. /\ \A u \in Threads : u # t => pc'[u] = pc[u] /\ cur'[u] = cur[u]
        /\ IF IsLast(o) THEN pc'[t] = "claim" /\ cur'[t] = c
           ELSE \/ pc'[t] = pc[t] /\ cur'[t] = cur[t]
                \/ pc'[t] = "idle" /\ cur'[t] = NoCur
    BY ThreadStep DEF Drop
  <1>a. /\ completed'[o] = completed[o] + 1
        /\ \A p \in Origins : /\ completed[p] \in Nat /\ completed'[p] \in Nat
                              /\ completed'[p] >= completed[p]
                              /\ p # o => completed'[p] = completed[p]
    BY DEF TypeOK, OriginType
  <1>b. NoCur.o = None  BY Zenon DEF NoCur
  <1>c. \A p \in Origins : /\ Len(Query[p]) \in Nat /\ Len(Query[p]) >= 1
                           /\ subtasks[p] \in Nat /\ ended[p] \in Nat
    BY SMTT(30), LenTyped, QueryAssumption DEF TypeOK, OriginType
  <1>d. IsLast(o) => completed'[o] = Len(Query[o])
    BY <1>a, <1>c DEF IsLast, CountsAreFull
  <1>e. \A u \in Threads : /\ pc[u] \in {"claim", "end"} => cur[u].o \in Origins
                           /\ \A f \in fin[u] : f[1] \in Keys /\ f[2] \in Origins
    <2>1. ASSUME NEW u \in Threads, pc[u] \in {"claim", "end"} PROVE cur[u].o \in Origins
      <3>1. pc[u] \notin Unheld \cup {"find"}  BY <2>1 DEF Unheld
      <3> QED BY <3>1, HoldsTyped, Zenon
    <2>2. ASSUME NEW u \in Threads, NEW f \in fin[u] PROVE f[1] \in Keys /\ f[2] \in Origins
      <3>1. f \in Keys \X Origins  BY Zenon DEF TypeOK, ThreadType
      <3> QED BY <3>1
    <2> QED BY <2>1, <2>2, Zenon
  <1>1. \A p \in Origins : Released(p) => Released(p)'
    <2> SUFFICES ASSUME NEW p \in Origins, Released(p), Held(p)' PROVE FALSE
      BY Zenon DEF Released
    <2>1. p # o  BY Zenon DEF Released
    <2>2. PICK u \in Threads : cur'[u].o = p
      BY <2>1, Zenon DEF Released, Held
    <2>3. cur[u].o # p  BY Zenon DEF Released, Held
    <2>4. p # None  BY QueryAssumption, Zenon
    <2> QED BY <1>0, <1>b, <2>1, <2>2, <2>3, <2>4, Zenon
  <1>2. OneOwner'  BY <1>1, OneOwnerKept, Zenon
  <1>3. KeysMatch'
    <2>1. ASSUME NEW u \in Threads, cur'[u].o # None PROVE keyOf[cur'[u].o] = cur'[u].k
      <3>1. \/ cur'[u] = cur[u]
            \/ cur'[u] = NoCur
            \/ cur'[u] = c
        BY <1>0, Zenon
      <3>2. CASE cur'[u] = cur[u]  BY <2>1, <3>2, Zenon DEF KeysMatch
      <3>3. CASE cur'[u] = c
        <4>1. cur'[u] = cur[u] \/ cur'[u] = NoCur \/ (c.o = o /\ c.k = k)  BY <1>0, Zenon
        <4> QED BY <2>1, <3>2, <3>3, <4>1, <1>b, Zenon
      <3> QED BY <2>1, <3>1, <3>2, <3>3, <1>b, Zenon
    <2> QED BY <2>1, Zenon DEF KeysMatch
  <1>4. EndIsOwned'
    <2>1. \A u \in Threads : pc'[u] = "end" => pc[u] = "end" /\ cur'[u] = cur[u]
      <3> SUFFICES ASSUME NEW u \in Threads, pc'[u] = "end" PROVE pc[u] = "end" /\ cur'[u] = cur[u]
        BY Zenon
      <3>1. "end" # "claim" /\ "end" # "idle"  OBVIOUS
      <3> QED BY <1>0, <3>1, Zenon
    <2>2. \A u \in Threads : pc'[u] = "end" => ended[cur'[u].o] = 0 /\ send_map[cur'[u].k] = None
      BY <2>1, Zenon DEF EndIsOwned
    <2>3. \A u, v \in Threads : (u # v /\ pc'[u] = "end" /\ pc'[v] = "end") => cur'[u].o # cur'[v].o
      BY <2>1, ZenonT(30) DEF EndIsOwned
    <2>4. /\ \A h \in Keys : send_map'[h] # None => ended'[send_map'[h]] = 0
          /\ \A p \in Origins : keyOf'[p] = None => ended'[p] = 0
      BY Zenon DEF EndIsOwned
    <2>5. ended' = ended /\ send_map' = send_map
      BY Zenon
    <2> QED BY <2>2, <2>3, <2>4, <2>5, Zenon DEF EndIsOwned
  <1>5. CountsAreFull'
    <2>1. \A p \in Origins : keyOf[p] = None => completed'[p] = 0
      BY <1>a, QueryAssumption, Zenon DEF CountsAreFull
    <2>2. \A u \in Threads : pc'[u] \in {"claim", "end"} =>
             cur'[u].o \in Origins /\ completed'[cur'[u].o] >= Len(Query[cur'[u].o])
      <3> SUFFICES ASSUME NEW u \in Threads, pc'[u] \in {"claim", "end"}
                   PROVE cur'[u].o \in Origins /\ completed'[cur'[u].o] >= Len(Query[cur'[u].o])
        BY Zenon
      <3>1. CASE pc'[u] = pc[u] /\ cur'[u] = cur[u]
        BY SMTT(30), <3>1, <1>a, <1>c, <1>e DEF CountsAreFull
      <3>2. CASE u = t /\ IsLast(o)  BY <3>2, <1>0, <1>a, <1>c, <1>d
      <3> QED BY <1>0, <3>1, <3>2, Zenon
    <2>3. \A u \in Threads : \A f \in fin[u] : completed'[f[2]] >= Len(Query[f[2]])
      BY <1>a, <1>c, <1>e DEF CountsAreFull
    <2> QED BY <2>1, <2>2, <2>3, Zenon DEF CountsAreFull
  <1>6. EndTaskOnce' /\ EndedOnFullCount'
    BY <1>a, <1>c DEF EndTaskOnce, EndedOnFullCount
  <1>7. FullCountIsClaimed'
    <2> SUFFICES ASSUME NEW p \in Origins, keyOf[p] # None, send_map[keyOf[p]] = p,
                        completed'[p] >= subtasks[p]
                 PROVE  \E u \in Threads : \/ pc'[u] = "claim" /\ cur'[u].k = keyOf[p]
                                           \/ <<keyOf[p], p>> \in fin[u]
      BY Zenon DEF FullCountIsClaimed
    <2>1. CASE completed[p] >= subtasks[p]
      <3>1. PICK u \in Threads : \/ pc[u] = "claim" /\ cur[u].k = keyOf[p]
                                 \/ <<keyOf[p], p>> \in fin[u]
        BY <2>1, Zenon DEF FullCountIsClaimed
      <3>2. pc[u] = "claim" => u # t  BY Zenon
      <3> QED BY <1>0, <3>1, <3>2, Zenon
    <2>2. CASE ~(completed[p] >= subtasks[p])
      <3>1. p = o /\ IsLast(o)  BY <1>a, <1>c, <2>2 DEF IsLast
      <3> QED BY <3>1, <1>0, Zenon
    <2> QED BY <2>1, <2>2, Zenon
  <1> QED BY <1>2, <1>3, <1>4, <1>5, <1>6, <1>7, Zenon

LEMMA ClaimOwnership == ASSUME Ownership, TypeOK, NEW t \in Threads, ClaimOrigin(t) PROVE Ownership'
  <1> USE DEF Ownership
  <1> DEFINE o == cur[t].o
             k == cur[t].k
  <1>0. o \in Origins /\ k \in Keys /\ keyOf[o] = k /\ Held(o)
    BY HoldsTyped, QueryAssumption, Zenon DEF Unheld, ClaimOrigin, KeysMatch, Held
  <1>1. /\ \A u \in Threads : u # t => pc'[u] = pc[u] /\ cur'[u] = cur[u]
        /\ IF send_map[k] # None THEN pc'[t] = "end" /\ cur'[t] = cur[t]
           ELSE pc'[t] = "idle" /\ cur'[t] = NoCur
    BY ZenonT(30) DEF ClaimOrigin, Goto, Drop, TypeOK, ThreadType
  <1>2. /\ send_map'[k] = None
        /\ \A j \in Keys : j # k => send_map'[j] = send_map[j]
    BY <1>0, Zenon DEF ClaimOrigin, TypeOK, OriginType
  <1>3. UNCHANGED <<keyOf, subtasks, completed, ended, snd, fin, reviving>>  BY Zenon DEF ClaimOrigin
  <1>4. send_map[k] # None => send_map[k] = o /\ ended[o] = 0
    BY <1>0, HeldIsCurrent DEF EndIsOwned
  <1>b. NoCur.o = None  BY Zenon DEF NoCur
  <1>e. pc[t] = "claim"  BY Zenon DEF ClaimOrigin
  <1>f. \A u \in Threads : pc[u] = "end" => cur[u].o \in Origins /\ cur[u].k \in Keys
    BY HoldsTyped, Zenon DEF Unheld
  <1> HIDE DEF o, k
  <1>5. \A p \in Origins : Released(p) => Released(p)'
    BY <1>0, <1>1, <1>3, <1>b, QueryAssumption DEF Released, Held, o
  <1>6. OneOwner'  BY <1>3, <1>5, OneOwnerKept, Zenon
  <1>7. KeysMatch'  BY <1>1, <1>2, <1>3, <1>b DEF KeysMatch
  <1>8. EndIsOwned'
    <2>1. \A j \in Keys : send_map'[j] # None => ended'[send_map'[j]] = 0
      BY <1>2, <1>3, Zenon DEF EndIsOwned
    <2>2. \A u \in Threads : pc'[u] = "end" => ended'[cur'[u].o] = 0 /\ send_map'[cur'[u].k] = None
      <3> SUFFICES ASSUME NEW u \in Threads, pc'[u] = "end"
                   PROVE  ended'[cur'[u].o] = 0 /\ send_map'[cur'[u].k] = None
        BY Zenon
      <3>1. CASE u = t  BY <3>1, <1>1, <1>2, <1>3, <1>4, Zenon DEF o, k
      <3>2. CASE u # t
        <4>1. pc[u] = "end" /\ cur'[u] = cur[u] /\ cur[u].k \in Keys  BY <3>2, <1>1, <1>f, Zenon
        <4> QED BY <4>1, <1>2, <1>3, Zenon DEF EndIsOwned
      <3> QED BY <3>1, <3>2, Zenon
    <2>3. ASSUME NEW u \in Threads, u # t, pc'[u] = "end", pc'[t] = "end"
          PROVE  cur'[u].o # cur'[t].o
      <3>1. pc[u] = "end" /\ cur'[u] = cur[u] /\ send_map[k] # None /\ cur'[t].o = o
        BY <2>3, <1>1, Zenon DEF o
      <3>2. send_map[cur[u].k] = None /\ cur[u].o # None /\ keyOf[cur[u].o] = cur[u].k
        BY <3>1, <1>f, QueryAssumption, Zenon DEF EndIsOwned, KeysMatch
      <3> QED BY <3>1, <3>2, <1>0, Zenon
    <2>4. ASSUME NEW u \in Threads, NEW v \in Threads, u # v, pc'[u] = "end", pc'[v] = "end"
          PROVE  cur'[u].o # cur'[v].o
      <3>1. CASE u # t /\ v # t
        <4>1. pc[u] = "end" /\ pc[v] = "end" /\ cur'[u] = cur[u] /\ cur'[v] = cur[v]
          BY <2>4, <3>1, <1>1, Zenon
        <4> QED BY <2>4, <4>1, Zenon DEF EndIsOwned
      <3>2. CASE u = t \/ v = t  BY <2>3, <2>4, <3>2, Zenon
      <3> QED BY <3>1, <3>2, Zenon
    <2> QED BY <2>1, <2>2, <2>4, <1>3, Zenon DEF EndIsOwned
  <1>9. CountsAreFull'
    BY ZenonT(30), <1>1, <1>2, <1>3, <1>e DEF CountsAreFull
  <1>10. EndTaskOnce' /\ EndedOnFullCount'  BY Zenon, <1>3 DEF EndTaskOnce, EndedOnFullCount
  <1>11. FullCountIsClaimed'
    <2> SUFFICES ASSUME NEW p \in Origins, keyOf[p] # None, send_map'[keyOf[p]] = p,
                        completed[p] >= subtasks[p]
                 PROVE  \E u \in Threads : \/ pc'[u] = "claim" /\ cur'[u].k = keyOf[p]
                                           \/ <<keyOf[p], p>> \in fin[u]
      BY <1>3, Zenon DEF FullCountIsClaimed
    <2>1. keyOf[p] \in Keys  BY Zenon DEF TypeOK, OriginType
    <2>2. keyOf[p] # k /\ send_map[keyOf[p]] = p  BY Zenon, <2>1, <1>2, QueryAssumption
    <2>3. PICK u \in Threads : \/ pc[u] = "claim" /\ cur[u].k = keyOf[p]
                               \/ <<keyOf[p], p>> \in fin[u]
      BY <2>2, Zenon DEF FullCountIsClaimed
    <2>4. pc[u] = "claim" /\ cur[u].k = keyOf[p] => u # t  BY <2>2, Zenon DEF k
    <2> QED BY Zenon, <2>3, <2>4, <1>1
  <1> QED BY <1>6, <1>7, <1>8, <1>9, <1>10, <1>11, Zenon

-----------------------------------------------------------------------------
(* The end of an origin, and a new origin at an address. *)

LEMMA EndOwnership == ASSUME Ownership, TypeOK, NEW t \in Threads, EndTask(t) PROVE Ownership'
  <1> USE DEF Ownership
  <1> DEFINE o == cur[t].o
             k == cur[t].k
  <1>0. o \in Origins /\ k \in Keys /\ keyOf[o] = k /\ pc[t] = "end"
    BY HoldsTyped, QueryAssumption, Zenon DEF Unheld, EndTask, KeysMatch
  <1>a. ended[o] = 0 /\ send_map[k] = None  BY <1>0, Zenon DEF EndIsOwned
  <1>1. /\ \A u \in Threads : u # t => pc'[u] = pc[u] /\ cur'[u] = cur[u]
        /\ pc'[t] = "idle" /\ cur'[t] = NoCur
    BY Zenon DEF EndTask, Drop, TypeOK, ThreadType
  <1>2. /\ ended'[o] = 1 /\ subtasks'[o] = 0
        /\ \A p \in Origins : p # o => ended'[p] = ended[p] /\ subtasks'[p] = subtasks[p]
    BY <1>0, <1>a DEF EndTask, TypeOK, OriginType
  <1>3. UNCHANGED <<keyOf, send_map, completed, snd, fin, reviving>>  BY Zenon DEF EndTask
  <1>4. \A j \in Keys : send_map[j] # o
    BY <1>0, <1>a, QueryAssumption DEF KeysMatch
  <1>b. NoCur.o = None  BY Zenon DEF NoCur
  <1>c. \A j \in Keys : send_map[j] # None => send_map[j] \in Origins  BY Zenon DEF TypeOK, OriginType
  <1>d. \A u \in Threads : pc[u] = "end" => cur[u].o \in Origins  BY HoldsTyped, Zenon DEF Unheld
  <1> HIDE DEF o, k
  <1>5. \A p \in Origins : Released(p) => Released(p)'
    BY <1>0, <1>1, <1>2, <1>3, <1>b, QueryAssumption DEF Released, Held, o
  <1>6. OneOwner'  BY <1>3, <1>5, OneOwnerKept, Zenon
  <1>7. KeysMatch'  BY <1>1, <1>3, <1>b, Zenon DEF KeysMatch
  <1>8. EndIsOwned'
    <2>1. \A j \in Keys : send_map'[j] # None => ended'[send_map'[j]] = 0
      BY <1>2, <1>3, <1>4, <1>c, ZenonT(30) DEF EndIsOwned
    <2>2. \A u \in Threads : pc'[u] = "end" => ended'[cur'[u].o] = 0 /\ send_map'[cur'[u].k] = None
      <3> SUFFICES ASSUME NEW u \in Threads, pc'[u] = "end"
                   PROVE  ended'[cur'[u].o] = 0 /\ send_map'[cur'[u].k] = None
        BY Zenon
      <3>1. u # t /\ pc[u] = "end" /\ cur'[u] = cur[u]  BY <1>1, Zenon
      <3>2. cur[u].o # o  BY <3>1, <1>0, Zenon DEF EndIsOwned, o
      <3> QED BY <3>1, <3>2, <1>2, <1>3, <1>d DEF EndIsOwned
    <2>3. ASSUME NEW u \in Threads, NEW v \in Threads, u # v, pc'[u] = "end", pc'[v] = "end"
          PROVE  cur'[u].o # cur'[v].o
      BY SMTT(30), <2>3, <1>1 DEF EndIsOwned
    <2>4. \A p \in Origins : keyOf'[p] = None => ended'[p] = 0
      BY <1>0, <1>2, <1>3, QueryAssumption DEF EndIsOwned
    <2> QED BY <2>1, <2>2, <2>3, <2>4, Zenon DEF EndIsOwned
  <1>9. CountsAreFull'
    <2>1. \A p \in Origins : subtasks'[p] \in {0, Len(Query[p])} /\ (keyOf'[p] = None => completed'[p] = 0)
      BY <1>2, <1>3, Zenon DEF CountsAreFull
    <2>2. \A j \in Keys : send_map'[j] # None => subtasks'[send_map'[j]] = Len(Query[send_map'[j]])
      BY <1>2, <1>3, <1>4, <1>c, Zenon DEF CountsAreFull
    <2>3. \A u \in Threads : pc'[u] \in {"claim", "end"} => completed'[cur'[u].o] >= Len(Query[cur'[u].o])
      BY <1>1, <1>3, ZenonT(30) DEF CountsAreFull
    <2> QED BY <2>1, <2>2, <2>3, <1>3, Zenon DEF CountsAreFull
  <1>10. EndTaskOnce'  BY <1>2 DEF EndTaskOnce
  <1>11. EndedOnFullCount'
    <2>1. completed[o] >= Len(Query[o])  BY <1>0, Zenon DEF CountsAreFull, o
    <2> QED BY <2>1, <1>2, <1>3, Zenon DEF EndedOnFullCount
  <1>12. FullCountIsClaimed'
    <2> SUFFICES ASSUME NEW p \in Origins, keyOf[p] # None, send_map[keyOf[p]] = p,
                        completed[p] >= subtasks'[p]
                 PROVE  \E u \in Threads : \/ pc'[u] = "claim" /\ cur'[u].k = keyOf[p]
                                           \/ <<keyOf[p], p>> \in fin[u]
      BY <1>3, Zenon DEF FullCountIsClaimed
    <2>1. keyOf[p] \in Keys  BY Zenon DEF TypeOK, OriginType
    <2>2. p # o /\ subtasks'[p] = subtasks[p]  BY <2>1, <1>2, <1>4, Zenon
    <2>3. PICK u \in Threads : \/ pc[u] = "claim" /\ cur[u].k = keyOf[p]
                               \/ <<keyOf[p], p>> \in fin[u]
      BY <2>2, Zenon DEF FullCountIsClaimed
    <2> QED BY <2>3, <1>0, <1>1, Zenon
  <1> QED BY <1>6, <1>7, <1>8, <1>9, <1>10, <1>11, <1>12, Zenon

\* A new origin takes an address whose earlier owners have all been released.
LEMMA SendInOwnership ==
    ASSUME Ownership, TypeOK, NEW o \in Origins, SendIn(o) PROVE Ownership'
  <1> USE DEF Ownership
  <1>0. PICK k \in Keys : /\ FreeKey(k)
                          /\ keyOf' = [keyOf EXCEPT ![o] = k]
                          /\ send_map' = [send_map EXCEPT ![k] = o]
    BY Zenon DEF SendIn
  <1>1. /\ keyOf[o] = None /\ keyOf'[o] = k
        /\ \A p \in Origins : p # o => keyOf'[p] = keyOf[p]
        /\ send_map'[k] = o /\ \A j \in Keys : j # k => send_map'[j] = send_map[j]
        /\ subtasks'[o] = Len(Query[o])
        /\ \A p \in Origins : p # o => subtasks'[p] = subtasks[p]
        /\ snd'.o = o /\ snd.o = None
        /\ UNCHANGED <<completed, ended, pc, cur, fin, reviving>>
    BY <1>0, Zenon DEF SendIn, SFree, NoSend, TypeOK, OriginType
  <1>2. \A p \in Origins : keyOf[p] = k => Released(p)  BY <1>0, Zenon DEF FreeKey, Released
  <1>a. k # None  BY QueryAssumption, Zenon
  <1>b. \A u \in Threads : cur[u].o \in Origins \cup {None} /\ \A f \in fin[u] : f[2] \in Origins /\ f[1] \in Keys
    BY DEF TypeOK, ThreadType, Cur
  <1>c. \A j \in Keys : send_map[j] # None => send_map[j] \in Origins  BY Zenon DEF TypeOK, OriginType
  <1>3. send_map[k] = None
    <2> SUFFICES ASSUME send_map[k] # None PROVE FALSE  BY Zenon
    <2>1. send_map[k] \in Origins /\ keyOf[send_map[k]] = k /\ ended[send_map[k]] = 0
      BY <1>c, Zenon DEF KeysMatch, EndIsOwned
    <2>2. Released(send_map[k])  BY <2>1, <1>2, Zenon
    <2> QED BY <2>1, <2>2 DEF Released
  <1>d. \A u \in Threads : cur[u].o # None => cur[u].o # o /\ cur[u].k # k
    <2> SUFFICES ASSUME NEW u \in Threads, cur[u].o # None PROVE cur[u].o # o /\ cur[u].k # k
      BY Zenon
    <2>1. keyOf[cur[u].o] = cur[u].k /\ cur[u].o \in Origins  BY <1>b, Zenon DEF KeysMatch
    <2>2. ~Released(cur[u].o)  BY Zenon DEF Released, Held
    <2>3. cur[u].k # k  BY <1>2, <2>1, <2>2, Zenon
    <2>4. cur[u].k # None
      BY QueryAssumption, ZenonT(30) DEF TypeOK, ThreadType
    <2> QED BY <2>1, <2>3, <2>4, <1>1, Zenon
  <1>e. \A u \in Threads : \A f \in fin[u] : f[2] # o /\ f[1] # k
    <2> SUFFICES ASSUME NEW u \in Threads, NEW f \in fin[u] PROVE f[2] # o /\ f[1] # k
      BY Zenon
    <2>1. keyOf[f[2]] = f[1] /\ f[2] \in Origins /\ f[1] \in Keys  BY <1>b, Zenon DEF KeysMatch
    <2>2. ~Released(f[2])  BY Zenon DEF Released, Held
    <2> QED BY <1>1, <1>2, <2>1, <2>2, QueryAssumption
  <1>f. Len(Query[o]) \in Nat /\ Len(Query[o]) >= 1  BY LenTyped, Zenon
  <1>g. \A u \in Threads : pc[u] \in {"claim", "end"} => cur[u].o # None
    BY HoldsTyped, QueryAssumption, Zenon DEF Unheld
  <1>4. OneOwner'
    <2>1. ended[o] = 0  BY <1>1, ZenonT(30) DEF EndIsOwned
    <2>2. \A p \in Origins : Released(p) => p # o /\ Released(p)'
      BY <1>1, <2>1, QueryAssumption DEF Released, Held
    <2> SUFFICES ASSUME NEW p \in Origins, NEW q \in Origins, p # q,
                        keyOf'[p] = keyOf'[q], keyOf'[p] # None
                 PROVE  Released(p)' \/ Released(q)'
      BY Zenon DEF OneOwner
    <2>3. CASE p # o /\ q # o  BY <2>2, <2>3, <1>1, Zenon DEF OneOwner
    <2>4. CASE p = o  BY <2>2, <2>4, <1>1, <1>2, Zenon
    <2>5. CASE q = o  BY <2>2, <2>5, <1>1, <1>2, Zenon
    <2> QED BY <2>3, <2>4, <2>5, Zenon
  <1>5. KeysMatch'
    <2>1. \A j \in Keys : send_map'[j] # None => keyOf'[send_map'[j]] = j
      <3> SUFFICES ASSUME NEW j \in Keys, send_map'[j] # None PROVE keyOf'[send_map'[j]] = j
        BY Zenon
      <3>1. CASE j = k  BY <3>1, <1>1, Zenon
      <3>2. CASE j # k
        <4>1. send_map[j] \in Origins /\ keyOf[send_map[j]] = j  BY <3>2, <1>1, <1>c, Zenon DEF KeysMatch
        <4> QED BY <3>2, <4>1, <1>1, QueryAssumption
      <3> QED BY <3>1, <3>2, Zenon
    <2> QED BY <2>1, <1>1, <1>b, <1>d, <1>e DEF KeysMatch
  <1>s. send_map'[k] = o /\ \A j \in Keys : j # k => send_map'[j] = send_map[j]  BY <1>1, Zenon
  <1>t. /\ subtasks'[o] = Len(Query[o])
        /\ \A p \in Origins : p # o => subtasks'[p] = subtasks[p]
    BY <1>1, Zenon
  <1>u. UNCHANGED <<completed, ended, pc, cur, fin, reviving>>  BY <1>1, Zenon
  <1>6. EndIsOwned'
    <2>1. ASSUME NEW j \in Keys, send_map'[j] # None PROVE ended'[send_map'[j]] = 0
      <3>1. CASE j = k
        <4>1. ended[o] = 0  BY <1>1, Zenon DEF EndIsOwned
        <4> QED BY <3>1, <4>1, <1>s, <1>u, Zenon
      <3>2. CASE j # k
        <4>1. send_map'[j] = send_map[j]  BY <3>2, <1>s, Zenon
        <4> QED BY <2>1, <4>1, <1>u, Zenon DEF EndIsOwned
      <3> QED BY <3>1, <3>2, Zenon
    <2>2. ASSUME NEW u \in Threads, pc'[u] = "end"
          PROVE  ended'[cur'[u].o] = 0 /\ send_map'[cur'[u].k] = None
      <3>1. pc[u] = "end" /\ cur'[u] = cur[u]  BY <2>2, <1>u, Zenon
      <3>2. ended[cur[u].o] = 0 /\ send_map[cur[u].k] = None  BY <3>1, Zenon DEF EndIsOwned
      <3>3. cur[u].k # k /\ cur[u].k \in Keys
        <4>1. cur[u].o # None  BY <3>1, <1>g, Zenon
        <4>2. cur[u].k = keyOf[cur[u].o] /\ cur[u].o \in Origins  BY <4>1, <1>b, Zenon DEF KeysMatch
        <4>3. cur[u].k # k  BY <4>1, <1>d, Zenon
        <4> QED BY <4>3, <3>1, HoldsTyped, Zenon DEF Unheld
      <3> QED BY <3>1, <3>2, <3>3, <1>s, <1>u, Zenon
    <2>3. \A p \in Origins : keyOf'[p] = None => ended'[p] = 0
      BY <1>1, <1>a, Zenon DEF EndIsOwned
    <2>4. \A u, v \in Threads : (u # v /\ pc'[u] = "end" /\ pc'[v] = "end") => cur'[u].o # cur'[v].o
      BY <1>u, Zenon DEF EndIsOwned
    <2> QED BY <2>1, <2>2, <2>3, <2>4, Zenon DEF EndIsOwned
  <1>7. CountsAreFull'
    <2>1. \A p \in Origins : subtasks'[p] \in {0, Len(Query[p])} /\ (keyOf'[p] = None => completed'[p] = 0)
      BY Zenon, <1>1, <1>a DEF CountsAreFull
    <2>2. ASSUME NEW j \in Keys, send_map'[j] # None
          PROVE  subtasks'[send_map'[j]] = Len(Query[send_map'[j]])
      <3>1. CASE j = k  BY <3>1, <1>s, <1>t, Zenon
      <3>2. CASE j # k
        <4>1. send_map'[j] = send_map[j] /\ send_map[j] \in Origins  BY <2>2, <3>2, <1>s, <1>c, Zenon
        <4>2. subtasks[send_map[j]] = Len(Query[send_map[j]])  BY <2>2, <4>1, Zenon DEF CountsAreFull
        <4> QED BY <4>1, <4>2, <1>t, Zenon
      <3> QED BY <3>1, <3>2, Zenon
    <2>3. \A u \in Threads :
             /\ pc'[u] \in {"claim", "end"} => completed'[cur'[u].o] >= Len(Query[cur'[u].o])
             /\ \A f \in fin'[u] : completed'[f[2]] >= Len(Query[f[2]])
             /\ reviving'[u] = None => fin'[u] = {}
      BY <1>u, Zenon DEF CountsAreFull
    <2> QED BY Zenon, <2>1, <2>2, <2>3 DEF CountsAreFull
  <1>8. EndTaskOnce' /\ EndedOnFullCount'  BY <1>1, Zenon DEF EndTaskOnce, EndedOnFullCount
  <1>9. FullCountIsClaimed'
    <2> SUFFICES ASSUME NEW p \in Origins, keyOf'[p] # None, send_map'[keyOf'[p]] = p,
                        completed[p] >= subtasks'[p]
                 PROVE  \E u \in Threads : \/ pc[u] = "claim" /\ cur[u].k = keyOf'[p]
                                           \/ <<keyOf'[p], p>> \in fin[u]
      BY <1>1, ZenonT(30) DEF FullCountIsClaimed
    <2>1. completed[o] = 0  BY <1>1, Zenon DEF CountsAreFull
    <2>2. p # o  BY SMTT(30), <2>1, <1>1, <1>f
    <2>3. keyOf'[p] = keyOf[p] /\ subtasks'[p] = subtasks[p] /\ keyOf[p] \in Keys
      BY <2>2, <1>1 DEF TypeOK, OriginType
    <2>4. keyOf[p] # k  BY <2>2, <2>3, <1>1, Zenon
    <2> QED BY <2>3, <2>4, <1>1 DEF FullCountIsClaimed
  <1> QED BY <1>4, <1>5, <1>6, <1>7, <1>8, <1>9, Zenon

-----------------------------------------------------------------------------
(* The flush that revives a dead node. *)

\* FlushStaleStateForNode counts what it discards, and keeps for a claim every
\* origin whose count it fills.
LEMMA FlushOwnership ==
    ASSUME Ownership, TypeOK, NEW t \in Threads, FlushCount(t)
    PROVE  Ownership'
  <1> USE DEF Ownership
  <1>h. PICK o \in Origins, k \in Keys : o = cur[t].o /\ k = cur[t].k
    BY HoldsTyped, Zenon DEF FlushCount, Unheld
  <1>0. /\ keyOf[o] = k /\ Held(o) /\ pc[t] = "discount" /\ reviving[t] # None
        /\ UNCHANGED <<keyOf, send_map, subtasks, ended, snd, reviving>>
    BY <1>h, QueryAssumption, Zenon DEF FlushCount, KeysMatch, Held, TypeOK, ThreadType
  <1>1. /\ pc'[t] = "flush" /\ cur'[t] = NoCur /\ NoCur.o = None
        /\ \A u \in Threads : u # t => pc'[u] = pc[u] /\ cur'[u] = cur[u]
    <2>1. pc' = [pc EXCEPT ![t] = "flush"] /\ cur' = [cur EXCEPT ![t] = NoCur]  BY Zenon DEF FlushCount
    <2>2. NoCur.o = None  BY Zenon DEF NoCur
    <2>3. /\ pc'[t] = "flush" /\ cur'[t] = NoCur
          /\ \A u \in Threads : u # t => pc'[u] = pc[u] /\ cur'[u] = cur[u]
      BY Zenon, <2>1, ThreadStep
    <2> QED BY <2>2, <2>3, Zenon
  <1>2. /\ completed'[o] = completed[o] + 1
        /\ \A p \in Origins : /\ completed[p] \in Nat /\ completed'[p] \in Nat
                              /\ completed'[p] >= completed[p]
                              /\ p # o => completed'[p] = completed[p]
    BY <1>h DEF FlushCount, Count, TypeOK, OriginType
  <1>3. /\ \A u \in Threads : u # t => fin'[u] = fin[u]
        /\ fin'[t] = IF IsLast(o) THEN fin[t] \cup {<<k, o>>} ELSE fin[t]
    BY <1>h, Zenon DEF FlushCount, TypeOK, ThreadType
  <1>4. \A p \in Origins : /\ Len(Query[p]) \in Nat /\ Len(Query[p]) >= 1
                           /\ subtasks[p] \in Nat /\ ended[p] \in Nat
    BY LenTyped, QueryAssumption DEF TypeOK, OriginType
  <1>5. IsLast(o) => completed'[o] = Len(Query[o])
    BY SMTT(30), <1>2, <1>4 DEF IsLast, CountsAreFull
  <1>6. \A u \in Threads : /\ pc[u] \in {"claim", "end"} => cur[u].o \in Origins
                           /\ \A f \in fin[u] : f[1] \in Keys /\ f[2] \in Origins
    BY HoldsTyped DEF TypeOK, ThreadType, Unheld
  <1>f. \A u \in Threads : \A f \in fin'[u] : f \in fin[u] \/ (u = t /\ f[1] = k /\ f[2] = o /\ IsLast(o))
    BY <1>3
  <1>7. \A p \in Origins : Released(p) => Released(p)'
    <2> SUFFICES ASSUME NEW p \in Origins, Released(p), Held(p)' PROVE FALSE
      BY <1>0, Zenon DEF Released
    <2>1. p # o  BY <1>0, Zenon DEF Released
    <2> QED BY <1>0, <1>1, <1>f, <2>1, QueryAssumption, Zenon DEF Released, Held
  <1>8. OneOwner'  BY <1>0, <1>7, OneOwnerKept, Zenon
  <1>9. KeysMatch'  BY SMTT(30), <1>0, <1>1, <1>f DEF KeysMatch
  <1>10. EndIsOwned'  BY <1>0, <1>1 DEF EndIsOwned
  <1>11. CountsAreFull'
    <2>1. \A p \in Origins : keyOf[p] = None => completed'[p] = 0
      BY <1>0, <1>2, QueryAssumption, Zenon DEF CountsAreFull
    <2>2. \A u \in Threads : pc'[u] \in {"claim", "end"} => completed'[cur'[u].o] >= Len(Query[cur'[u].o])
      BY SMTT(30), <1>1, <1>2, <1>4, <1>6 DEF CountsAreFull
    <2>3. \A u \in Threads : \A f \in fin[u] : completed'[f[2]] >= Len(Query[f[2]])
      BY SMTT(30), <1>2, <1>4, <1>6 DEF CountsAreFull
    <2>4. \A u \in Threads : \A f \in fin'[u] : completed'[f[2]] >= Len(Query[f[2]])
      BY <2>3, <1>2, <1>4, <1>5, <1>f
    <2>5. \A u \in Threads : reviving[u] = None => fin'[u] = {}
      BY <1>0, <1>3, Zenon DEF CountsAreFull
    <2> QED BY <2>1, <2>2, <2>4, <2>5, <1>0, Zenon DEF CountsAreFull
  <1>12. EndTaskOnce' /\ EndedOnFullCount'
    <2>1. EndTaskOnce'  BY <1>0, Zenon DEF EndTaskOnce
    <2>2. ASSUME NEW p \in Origins, ended'[p] > 0 PROVE completed'[p] >= Len(Query[p])
      BY <1>0, <1>2, <1>4, <2>2 DEF EndedOnFullCount
    <2> QED BY <2>1, <2>2, Zenon DEF EndedOnFullCount
  <1>13. FullCountIsClaimed'
    <2> SUFFICES ASSUME NEW p \in Origins, keyOf[p] # None, send_map[keyOf[p]] = p,
                        completed'[p] >= subtasks[p]
                 PROVE  \E u \in Threads : \/ pc'[u] = "claim" /\ cur'[u].k = keyOf[p]
                                           \/ <<keyOf[p], p>> \in fin'[u]
      BY <1>0, Zenon DEF FullCountIsClaimed
    <2>1. CASE completed[p] >= subtasks[p]
      <3>1. PICK u \in Threads : \/ pc[u] = "claim" /\ cur[u].k = keyOf[p]
                                 \/ <<keyOf[p], p>> \in fin[u]
        BY <2>1, Zenon DEF FullCountIsClaimed
      <3>2. pc[u] = "claim" => u # t  BY <1>0, Zenon
      <3> QED BY <1>1, <1>3, <3>1, <3>2, Zenon
    <2>2. CASE ~(completed[p] >= subtasks[p])
      <3>1. p = o /\ IsLast(o)  BY <1>2, <1>4, <2>2 DEF IsLast
      <3> QED BY <3>1, <1>0, <1>3, Zenon
    <2> QED BY <2>1, <2>2, Zenon
  <1> QED BY <1>8, <1>9, <1>10, <1>11, <1>12, <1>13, Zenon

LEMMA ReviveOwnership == ASSUME Ownership, TypeOK, NEW t \in Threads, Revive(t) PROVE Ownership'
  <1> USE DEF Ownership
  <1>3. CASE FlushLock(t) \/ FlushUnlock(t)
    <2>1. /\ \E l \in {"flush", "idle"} : pc' = [pc EXCEPT ![t] = l]
          /\ cur' = [cur EXCEPT ![t] = cur[t]] /\ pc[t] \notin {"claim", "end"}
      BY <1>3, Zenon DEF FlushLock, FlushUnlock, Goto, TypeOK, ThreadType
    <2>2. UNCHANGED <<keyOf, send_map, subtasks, completed, ended, snd, fin, reviving>>
      BY <1>3, Zenon DEF FlushLock, FlushUnlock, originVars
    <2> QED BY Zenon, <2>1, <2>2, LookupOwnership
  <1>4. CASE FlushFind(t)
    <2>1. PICK e \in send_in_retry :
             \/ pc' = pc /\ cur' = cur
             \/ /\ pc' = [pc EXCEPT ![t] = "discount"]
                /\ cur' = [cur EXCEPT ![t] = [o |-> send_map[e.k], k |-> e.k, r |-> e.r, src |-> None]]
      BY <1>4, Zenon DEF FlushFind
    <2> DEFINE c == [o |-> send_map[e.k], k |-> e.k, r |-> e.r, src |-> None]
    <2>2. c.k \in Keys /\ c.o = send_map[c.k]  BY Zenon DEF TypeOK, OriginType
    <2>3. \/ pc' = pc /\ cur' = cur
          \/ pc' = [pc EXCEPT ![t] = "discount"] /\ cur' = [cur EXCEPT ![t] = c]
      BY <2>1, Zenon
    <2>4. /\ pc[t] = "flush"
          /\ UNCHANGED <<keyOf, send_map, subtasks, completed, ended, snd, fin, reviving>>
      BY <1>4, Zenon DEF FlushFind, originVars
    <2> HIDE DEF c
    <2> QED BY <2>2, <2>3, <2>4, FrameOwnership, LookupOwnership, Zenon
  <1>1. CASE FlushNext(t)
    <2>1. PICK f \in fin[t] :
             /\ fin' = [fin EXCEPT ![t] = @ \ {f}]
             /\ pc' = [pc EXCEPT ![t] = "claim"]
             /\ cur' = [cur EXCEPT ![t] = [o |-> f[2], k |-> f[1], r |-> 1, src |-> None]]
      BY Zenon, <1>1 DEF FlushNext
    <2> DEFINE c == [o |-> f[2], k |-> f[1], r |-> 1, src |-> None]
    <2>2. c.o = f[2] /\ c.k = f[1] /\ f[1] \in Keys /\ f[2] \in Origins /\ f = <<f[1], f[2]>>
      BY DEF TypeOK, ThreadType
    <2>3. /\ pc'[t] = "claim" /\ cur'[t] = c
          /\ \A u \in Threads : u # t => pc'[u] = pc[u] /\ cur'[u] = cur[u]
      BY Zenon, <2>1, ThreadStep
    <2>4. fin'[t] = fin[t] \ {f} /\ \A u \in Threads : u # t => fin'[u] = fin[u]
      BY <2>1, Zenon DEF TypeOK, ThreadType
    <2>5. pc[t] = "idle" /\ UNCHANGED <<keyOf, send_map, subtasks, completed, ended, snd, reviving>>
      BY <1>1, Zenon DEF FlushNext, originVars
    <2>6. keyOf[f[2]] = f[1] /\ completed[f[2]] >= Len(Query[f[2]])
      BY Zenon DEF KeysMatch, CountsAreFull
    <2> HIDE DEF c
    <2>7. \A o \in Origins : Released(o) => Released(o)'
      <3> SUFFICES ASSUME NEW o \in Origins, Released(o), Held(o)' PROVE FALSE
        BY <2>5, Zenon DEF Released
      <3> QED BY <2>2, <2>3, <2>4, <2>5 DEF Released, Held
    <2>8. OneOwner'  BY <2>5, <2>7, OneOwnerKept, Zenon
    <2>9. KeysMatch'  BY SMTT(30), <2>2, <2>3, <2>4, <2>5, <2>6 DEF KeysMatch
    <2>10. EndIsOwned'  BY <2>3, <2>5 DEF EndIsOwned
    <2>11. CountsAreFull'  BY <2>2, <2>3, <2>4, <2>5, <2>6, Zenon DEF CountsAreFull
    <2>12. EndTaskOnce' /\ EndedOnFullCount'  BY <2>5, Zenon DEF EndTaskOnce, EndedOnFullCount
    <2>13. FullCountIsClaimed'
      <3> SUFFICES ASSUME NEW p \in Origins, keyOf[p] # None, send_map[keyOf[p]] = p,
                          completed[p] >= subtasks[p]
                   PROVE  \E u \in Threads : \/ pc'[u] = "claim" /\ cur'[u].k = keyOf[p]
                                             \/ <<keyOf[p], p>> \in fin'[u]
        BY <2>5, Zenon DEF FullCountIsClaimed
      <3>1. PICK u \in Threads : \/ pc[u] = "claim" /\ cur[u].k = keyOf[p]
                                 \/ <<keyOf[p], p>> \in fin[u]
        BY Zenon DEF FullCountIsClaimed
      <3>2. CASE pc[u] = "claim" /\ cur[u].k = keyOf[p]  BY <3>2, <2>3, <2>5, Zenon
      <3>3. CASE <<keyOf[p], p>> \in fin[u] /\ u # t  BY <3>3, <2>4, Zenon
      <3>4. CASE <<keyOf[p], p>> \in fin[t] /\ u = t
        <4>1. CASE f = <<keyOf[p], p>>  BY <4>1, <2>2, <2>3, Zenon
        <4>2. CASE f # <<keyOf[p], p>>  BY <4>2, <3>4, <2>4, Zenon
        <4> QED BY <4>1, <4>2, Zenon
      <3> QED BY <3>1, <3>2, <3>3, <3>4, Zenon
    <2> QED BY <2>8, <2>9, <2>10, <2>11, <2>12, <2>13, Zenon
  <1>2. CASE FlushDone(t)
    <2>1. /\ fin[t] = {} /\ reviving'[t] = None
          /\ \A u \in Threads : u # t => reviving'[u] = reviving[u]
          /\ UNCHANGED <<keyOf, send_map, subtasks, completed, ended, pc, cur, snd, fin>>
      BY <1>2, Zenon DEF FlushDone, originVars, TypeOK, ThreadType
    <2>2. KeysMatch' /\ EndIsOwned'
      <3>1. KeysMatch'  BY Zenon, <2>1 DEF KeysMatch
      <3>2. EndIsOwned'  BY Zenon, <2>1 DEF EndIsOwned
      <3> QED BY <3>1, <3>2, Zenon
    <2>3. EndTaskOnce' /\ EndedOnFullCount' /\ FullCountIsClaimed'
      BY <2>1, Zenon DEF EndTaskOnce, EndedOnFullCount, FullCountIsClaimed
    <2>4. \A o \in Origins : Released(o) => Released(o)'  BY <2>1, Zenon DEF Released, Held
    <2>5. OneOwner'  BY <2>1, <2>4, OneOwnerKept, Zenon
    <2>6. CountsAreFull'  BY <2>1, Zenon DEF CountsAreFull
    <2> QED BY <2>2, <2>3, <2>5, <2>6, Zenon
  <1> QED BY <1>1, <1>2, <1>3, <1>4, FlushOwnership, Zenon DEF Revive

\* Every step keeps ownership, one case per action.

-----------------------------------------------------------------------------
(* Every step, and what follows. *)

LEMMA NextOwnership == ASSUME Ownership, TypeOK, [Next]_vars PROVE Ownership'
  <1> USE DEF originVars, threadVars
  <1>0. "S" \in Threads /\ "R" \in Threads /\ "H" \in Threads  BY Zenon DEF Threads
  <1>1. CASE UNCHANGED vars  BY <1>1, FrameOwnership, Zenon DEF vars
  <1>2. ASSUME NEW t \in Threads, Complete(t) PROVE Ownership'
    <2>1. CASE CountReplica(t)
      <3>1. /\ cur[t].o \in Origins /\ cur[t].k \in Keys /\ pc[t] = "count"
        BY <2>1, HoldsTyped, Zenon DEF Unheld, CountReplica
      <3>2. Held(cur[t].o) /\ keyOf[cur[t].o] = cur[t].k
        BY <3>1, QueryAssumption, Zenon DEF Held, Ownership, KeysMatch
      <3>3. IsLast(cur[t].o) => pc' = [pc EXCEPT ![t] = "claim"] /\ cur' = [cur EXCEPT ![t] = cur[t]]
        BY <2>1, Zenon DEF CountReplica, Goto, TypeOK, ThreadType
      <3>4. ~IsLast(cur[t].o) => Drop(t)  BY <2>1, Zenon DEF CountReplica
      <3>5. /\ completed' = [completed EXCEPT ![cur[t].o] = @ + 1] /\ snd'.o = snd.o
            /\ UNCHANGED <<keyOf, send_map, subtasks, ended, fin, reviving>>
        BY <2>1, Zenon DEF CountReplica, Count
      <3> QED BY Zenon, <3>1, <3>2, <3>3, <3>4, <3>5, CountOwnership
    <2> QED BY <1>2, <2>1, ClaimOwnership, EndOwnership, Zenon DEF Complete
  <1>3. CASE Send
    <2>1. CASE \E o \in Origins : SendIn(o)  BY <2>1, SendInOwnership, Zenon
    <2>2. CASE SkipUnroutable
      <3>1. snd'.o = snd.o  BY <2>2, Zenon DEF SkipUnroutable, NextReplica, TypeOK, ThreadType
      <3> QED BY <2>2, <3>1, FrameOwnership, Zenon DEF SkipUnroutable
    <2>3. CASE QueueDead \/ Transmit
      <3>1. /\ snd'.o = snd.o /\ pc["S"] = "idle"
            /\ UNCHANGED <<keyOf, send_map, subtasks, completed, ended, fin, reviving>>
        BY Zenon, <2>3 DEF QueueDead, Transmit, Sending, NextReplicaTo, TypeOK, ThreadType
      <3>2. \/ pc' = pc /\ cur' = cur
            \/ pc' = [pc EXCEPT !["S"] = "queue"] /\ cur' = [cur EXCEPT !["S"] = cur["S"]]
        BY <2>3, Zenon DEF QueueDead, Transmit, Goto, TypeOK, ThreadType
      <3> QED BY <3>1, <3>2, <1>0, FrameOwnership, LookupOwnership
    <2>6. CASE QueueForRetry
      <3>1. /\ snd'.o = snd.o /\ pc["S"] = "queue"
            /\ UNCHANGED <<keyOf, send_map, subtasks, completed, ended, fin, reviving>>
        BY <2>6, Zenon DEF QueueForRetry, NextReplica, TypeOK, ThreadType
      <3>2. pc' = [pc EXCEPT !["S"] = "idle"] /\ cur' = [cur EXCEPT !["S"] = cur["S"]]
        BY <2>6, Zenon DEF QueueForRetry, Goto, TypeOK, ThreadType
      <3>3. "idle" \notin {"claim", "end"} /\ pc["S"] \notin {"claim", "end"}  BY <3>1, Zenon
      <3>4. snd'.o \in {snd.o, None} /\ \A u \in Threads : reviving'[u] = None => reviving[u] = None
        BY <3>1, Zenon
      <3>5. UNCHANGED <<keyOf, send_map, subtasks, completed, ended, fin>>  BY <3>1, Zenon
      <3> QED BY Zenon, <3>2, <3>3, <3>4, <3>5, <1>0, LookupOwnership
    <2>4. CASE RegisterOriginProgress
      <3>1. snd'.o = None  BY <2>4, Zenon DEF RegisterOriginProgress, NoSend
      <3> QED BY <2>4, <3>1, FrameOwnership, Zenon DEF RegisterOriginProgress
    <2>5. CASE SkipDead
      <3> DEFINE c == [o |-> snd.o, k |-> keyOf[snd.o], r |-> snd.i, src |-> snd.o]
      <3>1. snd.o \in Origins /\ keyOf[snd.o] \in Keys /\ pc["S"] = "idle"
        BY <2>5, SendingTyped, Zenon DEF SkipDead, Sending
      <3>2. Held(snd.o) /\ c.o = snd.o /\ c.k = keyOf[snd.o]  BY Zenon DEF Held
      <3>3. IsLast(snd.o) => pc' = [pc EXCEPT !["S"] = "claim"] /\ cur' = [cur EXCEPT !["S"] = c]
        BY <2>5, Zenon DEF SkipDead
      <3>4. ~IsLast(snd.o) => pc' = pc /\ cur' = cur  BY <2>5, Zenon DEF SkipDead
      <3>5. /\ completed' = [completed EXCEPT ![snd.o] = @ + 1]
            /\ UNCHANGED <<keyOf, send_map, subtasks, ended, fin, reviving>>
        BY <2>5, Zenon DEF SkipDead, Count
      <3>6. snd'.o = snd.o  BY <2>5, Zenon DEF SkipDead, NextReplica, TypeOK, ThreadType
      <3> HIDE DEF c
      <3> DEFINE o == snd.o
                 k == keyOf[snd.o]
      <3>7. IF IsLast(o) THEN /\ pc' = [pc EXCEPT !["S"] = "claim"]
                              /\ cur' = [cur EXCEPT !["S"] = c] /\ c.o = o /\ c.k = k
            ELSE (pc' = pc /\ cur' = cur) \/ Drop("S")
        BY <3>2, <3>3, <3>4, Zenon
      <3>8. o \in Origins /\ k \in Keys /\ Held(o) /\ keyOf[o] = k /\ pc["S"] \notin {"claim", "end"}
        BY <3>1, <3>2, Zenon
      <3>9. completed' = [completed EXCEPT ![o] = @ + 1] /\ snd'.o = snd.o  BY <3>5, <3>6, Zenon
      <3> HIDE DEF o, k
      <3> QED BY Zenon, <3>5, <3>7, <3>8, <3>9, <1>0, CountOwnership
    <2> QED BY <1>3, <2>1, <2>2, <2>3, <2>4, <2>5, <2>6, Zenon DEF Send
  <1>4. CASE Gone \/ Answered
    <2>1. CASE GoneMark
      <3>1. PICK w \in todo :
               \/ pc' = pc /\ cur' = cur
               \/ /\ pc' = [pc EXCEPT !["S"] = "find"]
                  /\ cur' = [cur EXCEPT !["S"] = [NoCur EXCEPT !.k = w[1], !.r = w[2]]]
        BY Zenon, <2>1 DEF GoneMark
      <3> DEFINE c == [NoCur EXCEPT !.k = w[1], !.r = w[2]]
      <3>2. c.o = None  BY Zenon DEF NoCur
      <3>4. \/ pc' = pc /\ cur' = cur
            \/ pc' = [pc EXCEPT !["S"] = "find"] /\ cur' = [cur EXCEPT !["S"] = c]
        BY <3>1, Zenon
      <3>3. /\ pc["S"] = "idle"
            /\ UNCHANGED <<keyOf, send_map, subtasks, completed, ended, snd, fin, reviving>>
        BY <2>1, Zenon DEF GoneMark
      <3> HIDE DEF c
      <3>5. pc["S"] \notin {"claim", "end"} /\ "find" \notin {"claim", "end"}  BY <3>3, Zenon
      <3>6. CASE pc' = pc /\ cur' = cur  BY <3>3, <3>6, FrameOwnership, Zenon
      <3>7. CASE pc' = [pc EXCEPT !["S"] = "find"] /\ cur' = [cur EXCEPT !["S"] = c]
        BY Zenon, <3>2, <3>3, <3>5, <3>7, <1>0, QuietLookup
      <3> QED BY <3>4, <3>6, <3>7, Zenon
    <2>2. CASE GoneFind
      <3> DEFINE c == [cur["S"] EXCEPT !.o = send_map[cur["S"].k]]
      <3>1. cur["S"] \in Cur /\ cur["S"].k \in Keys
        BY <2>2, <1>0, Zenon DEF GoneFind, TypeOK, ThreadType, Cur, Unheld
      <3>2. c.o = send_map[c.k] /\ c.k \in Keys  BY <3>1, Zenon DEF Cur
      <3>3. \/ pc' = [pc EXCEPT !["S"] = "idle"] /\ cur' = [cur EXCEPT !["S"] = NoCur]
            \/ pc' = [pc EXCEPT !["S"] = "count"] /\ cur' = [cur EXCEPT !["S"] = c]
        BY <2>2, Zenon DEF GoneFind, Drop
      <3>4. /\ pc["S"] = "find" /\ NoCur.o = None
            /\ UNCHANGED <<keyOf, send_map, subtasks, completed, ended, snd, fin, reviving>>
        BY <2>2, Zenon DEF GoneFind, NoCur
      <3>5. pc["S"] \notin {"claim", "end"} /\ "idle" \notin {"claim", "end"} /\ "count" \notin {"claim", "end"}
        BY <3>4, Zenon
      <3> HIDE DEF c
      <3>6. CASE pc' = [pc EXCEPT !["S"] = "idle"] /\ cur' = [cur EXCEPT !["S"] = NoCur]
        BY Zenon, <3>4, <3>6, <3>5, <1>0, QuietLookup
      <3>7. CASE pc' = [pc EXCEPT !["S"] = "count"] /\ cur' = [cur EXCEPT !["S"] = c]
        BY Zenon, <3>2, <3>4, <3>7, <3>5, <1>0, QuietLookup
      <3> QED BY <3>3, <3>6, <3>7, Zenon
    <2>3. CASE RecvOutDeserialize
      <3>1. PICK m \in net :
               \/ pc' = pc /\ cur' = cur
               \/ /\ pc' = [pc EXCEPT !["R"] = "aggregate"]
                  /\ cur' = [cur EXCEPT !["R"] =
                               [o |-> Match(m.k, m.r), k |-> m.k, r |-> m.r, src |-> m.o]]
        BY <2>3, Zenon DEF RecvOutDeserialize
      <3> DEFINE c == [o |-> Match(m.k, m.r), k |-> m.k, r |-> m.r, src |-> m.o]
      <3>2. m.k \in Keys  BY Zenon DEF TypeOK, PeerType
      <3>3. c.k \in Keys /\ (c.o = None \/ c.o = send_map[c.k])  BY <3>2, Zenon DEF Match
      <3>4. /\ pc["R"] = "idle"
            /\ UNCHANGED <<keyOf, send_map, subtasks, completed, ended, snd, fin, reviving>>
        BY <2>3, Zenon DEF RecvOutDeserialize, RFree
      <3> HIDE DEF c
      <3>5. \/ pc' = pc /\ cur' = cur
            \/ pc' = [pc EXCEPT !["R"] = "aggregate"] /\ cur' = [cur EXCEPT !["R"] = c]
        BY <3>1, Zenon DEF c
      <3> QED BY <3>3, <3>4, <3>5, <1>0, FrameOwnership, QuietLookup
    <2>4. CASE RecvOutAggregate
      <3> DEFINE c == [cur["R"] EXCEPT !.o = Match(cur["R"].k, cur["R"].r)]
      <3>1. cur["R"] \in Cur /\ cur["R"].k \in Keys  BY <2>4, <1>0, HoldsTyped, Zenon DEF Unheld, RecvOutAggregate
      <3>2. c.k \in Keys /\ (c.o = None \/ c.o = send_map[c.k])  BY <3>1, Zenon DEF Cur, Match
      <3>3. \/ pc' = [pc EXCEPT !["R"] = "idle"] /\ cur' = [cur EXCEPT !["R"] = NoCur]
            \/ pc' = [pc EXCEPT !["R"] = "mark"] /\ cur' = [cur EXCEPT !["R"] = c]
        BY <2>4, Zenon DEF RecvOutAggregate, Drop
      <3>4. /\ pc["R"] = "aggregate" /\ NoCur.o = None
            /\ UNCHANGED <<keyOf, send_map, subtasks, completed, ended, snd, fin, reviving>>
        BY <2>4, Zenon DEF RecvOutAggregate, NoCur
      <3> HIDE DEF c
      <3> QED BY <3>2, <3>3, <3>4, <1>0, QuietLookup
    <2>5. CASE MarkReplicaAccounted
      <3>1. \/ pc' = [pc EXCEPT !["R"] = "idle"] /\ cur' = [cur EXCEPT !["R"] = NoCur]
            \/ pc' = [pc EXCEPT !["R"] = "count"] /\ cur' = [cur EXCEPT !["R"] = cur["R"]]
        BY <2>5, Zenon DEF MarkReplicaAccounted, Drop, Goto, TypeOK, ThreadType
      <3>2. /\ pc["R"] = "mark" /\ NoCur.o = None
            /\ UNCHANGED <<keyOf, send_map, subtasks, completed, ended, snd, fin, reviving>>
        BY <2>5, Zenon DEF MarkReplicaAccounted, NoCur
      <3> QED BY <3>1, <3>2, <1>0, QuietLookup
    <2> QED BY <1>4, <2>1, <2>2, <2>3, <2>4, <2>5, Zenon DEF Gone, Answered
  <1>5. CASE ProcessRetryQueues \/ ScanSendMapTimeouts \/ ReapProbe \/ FireProbes \/ AgeRetry
    BY Zenon, <1>5, FrameOwnership DEF ProcessRetryQueues, ScanSendMapTimeouts, ReapProbe, FireProbes, AgeRetry
  <1>6. CASE Peer \/ ProbeFails  BY <1>6, PeerSelf, FrameOwnership, Zenon DEF selfVars
  <1>a. ASSUME NEW t \in Threads, NEW n \in Nodes, pc[t] = "idle",
               StartFlush(t, n) \/ UNCHANGED <<pc, cur, reviving>>,
               UNCHANGED <<originVars, snd, fin>>
        PROVE  Ownership'
    <2>1. CASE StartFlush(t, n)
      <3>1. /\ pc' = [pc EXCEPT ![t] = "lock"] /\ cur' = [cur EXCEPT ![t] = cur[t]]
            /\ \A u \in Threads : reviving'[u] = None => reviving[u] = None
        BY <2>1, QueryAssumption, Zenon DEF StartFlush, TypeOK, ThreadType
      <3>2. snd'.o = snd.o /\ UNCHANGED <<keyOf, send_map, subtasks, completed, ended, fin>>  BY <1>a, Zenon
      <3> QED BY Zenon, <1>a, <3>1, <3>2, LookupOwnership
    <2>2. CASE UNCHANGED <<pc, cur, reviving>>  BY <1>a, <2>2, FrameOwnership, Zenon
    <2> QED BY <1>a, <2>1, <2>2, Zenon
  <1>7. ASSUME NEW n \in Nodes, NEW c \in Nodes \cup {None}, RecvIn(n, c) PROVE Ownership'
    BY <1>0, <1>a, <1>7, Zenon DEF RecvIn, RFree
  <1>8. ASSUME NEW n \in Nodes, ProbeCompleted(n) PROVE Ownership'
    BY <1>0, <1>a, <1>8, Zenon DEF ProbeCompleted, HFree
  <1>9. ASSUME NEW n \in Nodes, Verdict(n) PROVE Ownership'
    BY <1>9, FrameOwnership, Zenon
       DEF Verdict, DirectProbeTimeout, IndirectProbesFail, DeclareDead, AnnounceShutdown, AgeDead, Recover
  <1> QED BY <1>1, <1>2, <1>3, <1>4, <1>5, <1>6, <1>7, <1>8, <1>9, ReviveOwnership, Zenon DEF Next, Member

\* Ownership holds in every reachable state, for any number of origins, replicas,
\* addresses, peers, crashes and wrong verdicts.
THEOREM OwnershipHolds == Spec => []Ownership
  <1>1. Ownership /\ TypeOK /\ [Next]_vars => Ownership'  BY NextOwnership, Zenon
  <1> QED BY <1>1, InitOwnership, TypeCorrect, PTL DEF Spec

\* EndTask is called at most once on an origin.
THEOREM ExactlyOnce == Spec => []EndTaskOnce
  <1>1. Ownership => EndTaskOnce  BY Zenon DEF Ownership
  <1> QED BY <1>1, OwnershipHolds, PTL

\* EndTask is called on an origin only after all its replicas were counted.
THEOREM FullCountFirst == Spec => []EndedOnFullCount
  <1>1. Ownership => EndedOnFullCount  BY Zenon DEF Ownership
  <1> QED BY <1>1, OwnershipHolds, PTL

\* An origin with a full count that still waits has a thread about to claim it.
THEOREM NoneForgotten == Spec => []FullCountIsClaimed
  <1>1. Ownership => FullCountIsClaimed  BY Zenon DEF Ownership
  <1> QED BY <1>1, OwnershipHolds, PTL

-----------------------------------------------------------------------------
(* The task path implements OriginLife: only SendIn, ClaimOrigin and EndTask *)
(* move an origin, each one stage ahead.                                     *)

LEMMA InitLife == ASSUME Init PROVE Life!Init
  BY Zenon DEF Init, Life!Init, LifeOf

\* A step that moves no origin is a stuttering step.
LEMMA StutterLife ==
    ASSUME UNCHANGED <<keyOf, send_map, ended>>
    PROVE  UNCHANGED [o \in Origins |-> LifeOf(o)]
  BY Zenon DEF LifeOf

\* A step that moves one origin and leaves the others is a step of OriginLife.
LEMMA MoveLife ==
    ASSUME NEW o \in Origins, \A p \in Origins : p # o => LifeOf(p)' = LifeOf(p),
           \/ LifeOf(o) = "new" /\ LifeOf(o)' = "waiting"
           \/ LifeOf(o) = "waiting" /\ LifeOf(o)' = "claimed"
           \/ LifeOf(o) = "claimed" /\ LifeOf(o)' = "done"
    PROVE  Life!Next
  <1> DEFINE L == [p \in Origins |-> LifeOf(p)]
  <1>1. L' = [p \in Origins |-> LifeOf(p)']  BY Zenon
  <1>2. L[o] = LifeOf(o)  BY Zenon
  <1>3. L' = [L EXCEPT ![o] = LifeOf(o)']  BY Zenon, <1>1
  <1> HIDE DEF L
  <1>4. \/ L[o] = "new" /\ L' = [L EXCEPT ![o] = "waiting"]
        \/ L[o] = "waiting" /\ L' = [L EXCEPT ![o] = "claimed"]
        \/ L[o] = "claimed" /\ L' = [L EXCEPT ![o] = "done"]
    BY Zenon, <1>2, <1>3
  <1> QED BY Zenon, <1>4 DEF L, Life!Next, Life!Submit, Life!Claim, Life!Finish, Life!Step

LEMMA NextLife ==
    ASSUME Ownership, TypeOK, [Next]_vars PROVE [Life!Next]_([o \in Origins |-> LifeOf(o)])
  <1> USE DEF originVars, threadVars
  <1>0. ASSUME UNCHANGED <<keyOf, send_map, ended>> PROVE [Life!Next]_([o \in Origins |-> LifeOf(o)])
    BY <1>0, StutterLife, Zenon
  <1>1. CASE UNCHANGED vars  BY <1>1, <1>0, Zenon DEF vars
  <1>2. ASSUME NEW o \in Origins, SendIn(o) PROVE Life!Next
    <2>1. PICK k \in Keys : /\ FreeKey(k)
                            /\ keyOf' = [keyOf EXCEPT ![o] = k]
                            /\ send_map' = [send_map EXCEPT ![k] = o]
      BY Zenon, <1>2 DEF SendIn
    <2>2. keyOf[o] = None /\ ended' = ended /\ k # None  BY <1>2, QueryAssumption, Zenon DEF SendIn
    <2>3. ended[o] = 0  BY <2>2, Zenon DEF Ownership, EndIsOwned
    <2>4. LifeOf(o) = "new" /\ LifeOf(o)' = "waiting"
      BY <2>1, <2>2, <2>3 DEF LifeOf, TypeOK, OriginType
    <2>5. ASSUME NEW p \in Origins, p # o PROVE LifeOf(p)' = LifeOf(p)
      <3>1. keyOf'[p] = keyOf[p]  BY <2>1, <2>5, Zenon DEF TypeOK, OriginType
      <3>2. CASE keyOf[p] = None  BY <3>1, <3>2, Zenon DEF LifeOf
      <3>3. CASE keyOf[p] = k  BY <3>1, <3>3, <2>1, <2>2, Zenon DEF LifeOf, FreeKey
      <3>4. CASE keyOf[p] \notin {None, k}
        BY <3>1, <3>4, <2>1, <2>2, Zenon DEF LifeOf, TypeOK, OriginType
      <3> QED BY <3>2, <3>3, <3>4, Zenon
    <2> QED BY <2>4, <2>5, MoveLife, Zenon
  <1>3. ASSUME NEW t \in Threads, ClaimOrigin(t) PROVE [Life!Next]_([o \in Origins |-> LifeOf(o)])
    <2>0. PICK o \in Origins, k \in Keys : o = cur[t].o /\ k = cur[t].k
      BY <1>3, HoldsTyped, Zenon DEF Unheld, ClaimOrigin
    <2>1. keyOf[o] = k /\ Held(o) /\ k # None
      BY <2>0, <1>3, HoldsTyped, QueryAssumption, Zenon DEF Unheld, ClaimOrigin, Ownership, KeysMatch, Held
    <2>2. send_map' = [send_map EXCEPT ![k] = None] /\ UNCHANGED <<keyOf, ended>>
      BY <1>3, <2>0, Zenon DEF ClaimOrigin
    <2>3. CASE send_map[k] = None
      <3>1. send_map' = send_map  BY <2>1, <2>2, <2>3, Zenon DEF TypeOK, OriginType
      <3> QED BY <2>2, <3>1, <1>0, Zenon
    <2>4. CASE send_map[k] # None
      <3>1. send_map[k] = o /\ ended[o] = 0
        BY SMTT(30), <2>1, <2>4, HeldIsCurrent DEF Ownership, EndIsOwned
      <3>2. LifeOf(o) = "waiting" /\ LifeOf(o)' = "claimed"
        BY <2>1, <2>2, <3>1, QueryAssumption DEF LifeOf, TypeOK, OriginType
      <3>3. ASSUME NEW p \in Origins, p # o PROVE LifeOf(p)' = LifeOf(p)
        <4>1. CASE keyOf[p] = k
          <5>1. Released(p)  BY <2>1, <3>3, <4>1, Zenon DEF Ownership, OneOwner, Released
          <5> QED BY <5>1, <2>2, Zenon DEF Released, LifeOf
        <4>2. CASE keyOf[p] # k  BY <4>2, <2>1, <2>2, Zenon DEF LifeOf, TypeOK, OriginType
        <4> QED BY <4>1, <4>2, Zenon
      <3> QED BY <2>1, <3>2, <3>3, MoveLife, ZenonT(30)
    <2> QED BY <2>3, <2>4, Zenon
  <1>4. ASSUME NEW t \in Threads, EndTask(t) PROVE Life!Next
    <2>0. PICK o \in Origins, k \in Keys : o = cur[t].o /\ k = cur[t].k
      BY Zenon, <1>4, HoldsTyped DEF Unheld, EndTask
    <2>1. keyOf[o] = k /\ k # None
      BY <2>0, <1>4, HoldsTyped, QueryAssumption, Zenon DEF Unheld, EndTask, Ownership, KeysMatch
    <2>2. ended[o] = 0 /\ send_map[k] = None
      BY Zenon, <1>4, <2>0 DEF EndTask, Ownership, EndIsOwned
    <2>3. ended' = [ended EXCEPT ![o] = @ + 1] /\ UNCHANGED <<keyOf, send_map>>
      BY <1>4, <2>0, Zenon DEF EndTask
    <2>4. ended'[o] = 1  BY SMTT(30), <2>1, <2>2, <2>3 DEF TypeOK, OriginType
    <2>5. LifeOf(o) = "claimed" /\ LifeOf(o)' = "done"
      BY <2>1, <2>2, <2>3, <2>4, QueryAssumption DEF LifeOf
    <2>6. ASSUME NEW p \in Origins, p # o PROVE LifeOf(p)' = LifeOf(p)
      BY <2>3, <2>6, Zenon DEF LifeOf, TypeOK, OriginType
    <2> QED BY <2>1, <2>5, <2>6, MoveLife, Zenon
  <1>5. CASE SkipUnroutable \/ SkipDead \/ QueueDead \/ Transmit \/ QueueForRetry \/ RegisterOriginProgress
    <2>1. CASE SkipUnroutable \/ SkipDead \/ QueueDead
      BY <2>1, <1>0, Zenon DEF SkipUnroutable, SkipDead, QueueDead
    <2>2. CASE Transmit \/ QueueForRetry \/ RegisterOriginProgress
      BY <2>2, <1>0, Zenon DEF Transmit, QueueForRetry, RegisterOriginProgress
    <2> QED BY <1>5, <2>1, <2>2, Zenon
  <1>6. CASE Gone \/ Answered
    <2>1. CASE Gone  BY Zenon, <2>1, <1>0 DEF Gone, GoneMark, GoneFind
    <2>2. CASE RecvOutDeserialize \/ RecvOutAggregate
      BY <2>2, <1>0, Zenon DEF RecvOutDeserialize, RecvOutAggregate
    <2>3. CASE MarkReplicaAccounted  BY <2>3, <1>0, Zenon DEF MarkReplicaAccounted
    <2> QED BY <1>6, <2>1, <2>2, <2>3, Zenon DEF Answered
  <1>7. ASSUME NEW t \in Threads, CountReplica(t) \/ Revive(t)
        PROVE [Life!Next]_([o \in Origins |-> LifeOf(o)])
    <2>1. CASE CountReplica(t) \/ FlushCount(t)  BY <2>1, <1>0, Zenon DEF CountReplica, FlushCount
    <2>2. CASE FlushLock(t) \/ FlushUnlock(t)  BY <2>2, <1>0, Zenon DEF FlushLock, FlushUnlock
    <2>3. CASE FlushFind(t)  BY <2>3, <1>0, Zenon DEF FlushFind
    <2>4. CASE FlushNext(t) \/ FlushDone(t)  BY Zenon, <2>4, <1>0 DEF FlushNext, FlushDone
    <2> QED BY <1>7, <2>1, <2>2, <2>3, <2>4, Zenon DEF Revive
  <1>8. CASE ProcessRetryQueues \/ ScanSendMapTimeouts \/ ReapProbe \/ FireProbes \/ AgeRetry
    BY Zenon, <1>8, <1>0 DEF ProcessRetryQueues, ScanSendMapTimeouts, ReapProbe, FireProbes, AgeRetry
  <1>9. CASE Peer \/ ProbeFails  BY <1>9, <1>0, PeerSelf, Zenon DEF selfVars
  <1>10. CASE Member
    <2>1. UNCHANGED <<keyOf, send_map, ended>>
      BY <1>10, Zenon DEF Member, ProbeCompleted, RecvIn, Verdict, DirectProbeTimeout, IndirectProbesFail,
                   DeclareDead, AnnounceShutdown, AgeDead, Recover
    <2> QED BY <2>1, <1>0, Zenon
  <1> QED BY <1>1, <1>2, <1>3, <1>4, <1>5, <1>6, <1>7, <1>8, <1>9, <1>10, Zenon DEF Next, Send, Complete

\* The task path takes every origin over once, claims it once and gives it back
\* once, in this order, whatever its threads and its peers do.
THEOREM TaskPathImplementsOriginLife == Spec => ImplementsOriginLife
  <1>1. Ownership /\ TypeOK /\ [Next]_vars => [Life!Next]_([o \in Origins |-> LifeOf(o)])
    BY NextLife, Zenon
  <1>2. Init => Life!Init  BY InitLife, Zenon
  <1> QED BY <1>1, <1>2, OwnershipHolds, TypeCorrect, PTL DEF Spec, ImplementsOriginLife, Life!Spec
=============================================================================
