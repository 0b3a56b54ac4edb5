------------------------- MODULE BatchManagerProofs -------------------------
(***************************************************************************)
(* Proofs about BatchManager, for every set of tasks and keys.  BatchInv is *)
(* the inductive invariant: a task is in one place at a time, and a key is  *)
(* in in_flight_ exactly while one group of it is on its way or running.    *)
(***************************************************************************)
EXTENDS BatchManager, TLAPS

\* The places of a task inside the batch manager.
InGroup(t) == t \in groups[KeyOf[t]].members
InDue(t) == t \in due[KeyOf[t]]
InAgg(t) == \E a \in aggs : t \in a.todo

Keyed ==
    /\ \A k \in Keys : \A t \in groups[k].members \cup due[k] : KeyOf[t] = k
    /\ \A a \in aggs : \A t \in a.ms : KeyOf[t] = a.k

OnePlace ==
    \A t \in Tasks :
       /\ t \in new => t \notin forwarded /\ ~InGroup(t) /\ ~InDue(t) /\ ~InAgg(t) /\ completed[t] = 0
       /\ t \in forwarded => ~InGroup(t) /\ ~InDue(t) /\ ~InAgg(t) /\ completed[t] = 0
       /\ InGroup(t) => ~InDue(t) /\ ~InAgg(t) /\ completed[t] = 0
       /\ InDue(t) => ~InAgg(t) /\ completed[t] = 0
       /\ InAgg(t) => completed[t] = 0

DisjointAggs == \A a, b \in aggs : a # b => a.todo \cap b.todo = {}

BatchInv ==
    /\ TypeOK /\ Keyed /\ OnePlace /\ DisjointAggs
    /\ CompletedOnce /\ ClaimIsExact /\ OneAggregatePerKey

-----------------------------------------------------------------------------

\* BatchInv holds initially.
LEMMA BatchInit == Init => BatchInv
BY BatchAssumption DEF Init, BatchInv, TypeOK, Keyed, OnePlace, DisjointAggs, CompletedOnce,
   ClaimIsExact, OneAggregatePerKey, InGroup, InDue, InAgg, NoGroup, Group

\* Routing a task preserves it.
LEMMA RoutePreserves ==
    ASSUME BatchInv, NEW t \in Tasks, RouteManyToOne(t)
    PROVE  BatchInv'
<1> USE DEF BatchInv
<1>1. t \in new /\ new' = new \ {t} /\ UNCHANGED <<alone, in_flight, due, aggs, completed, lost, poolVars>>
  BY DEF RouteManyToOne
<1>2. CASE t \in Remote
  <2>1. forwarded' = forwarded \cup {t} /\ UNCHANGED groups
    BY <1>2 DEF RouteManyToOne
  <2>2. TypeOK' /\ Keyed' /\ DisjointAggs' /\ CompletedOnce' /\ ClaimIsExact' /\ OneAggregatePerKey'
    BY <1>1, <2>1 DEF TypeOK, Keyed, DisjointAggs, CompletedOnce, ClaimIsExact, OneAggregatePerKey, poolVars
  <2>3. OnePlace'
    BY <1>1, <2>1 DEF OnePlace, InGroup, InDue, InAgg
  <2> QED BY <2>2, <2>3
<1>3. CASE t \notin Remote
  <2> DEFINE k == KeyOf[t]
  <2>1. Add(t) /\ UNCHANGED forwarded
    BY <1>3 DEF RouteManyToOne
  <2>2. k \in Keys /\ groups[k] \in Group
    BY BatchAssumption DEF TypeOK
  <2>3. PICK g \in Group : groups' = [groups EXCEPT ![k] = g] /\ g.members = groups[k].members \cup {t}
    <3>1. CASE groups[k].members = {}
      <4> DEFINE g == [members |-> {t}, count_based |-> t \in AllToOne, over |-> FALSE]
      <4>1. g \in Group
        BY DEF Group
      <4>2. groups' = [groups EXCEPT ![k] = g]
        BY <2>1, <3>1 DEF Add
      <4> QED BY Zenon, <3>1, <4>1, <4>2
    <3>2. CASE groups[k].members # {}
      <4> DEFINE g == [members |-> groups[k].members \cup {t},
                       count_based |-> groups[k].count_based, over |-> groups[k].over]
      <4>1. g \in Group /\ g.members = groups[k].members \cup {t}
        BY <2>2 DEF Group
      <4>2. groups' = [groups EXCEPT ![k] = g]
        BY Zenon, <2>1, <3>2 DEF Add
      <4> QED BY Zenon, <4>1, <4>2
    <3> QED BY <3>1, <3>2
  <2> HIDE DEF k
  <2>4. TypeOK'
    BY <1>1, <2>1, <2>2, <2>3 DEF TypeOK, poolVars
  <2>5. \A j \in Keys : groups'[j].members = IF j = k THEN groups[k].members \cup {t} ELSE groups[j].members
    BY Zenon, <2>2, <2>3 DEF TypeOK
  <2>6. Keyed'
    BY <1>1, <2>5 DEF Keyed, k
  <2>7. \A u \in Tasks : InGroup(u)' <=> InGroup(u) \/ u = t
    BY <2>5, BatchAssumption DEF InGroup, Keyed, k
  <2>8. OnePlace'
    BY <1>1, <2>1, <2>7 DEF OnePlace, InDue, InAgg
  <2> QED
    BY <1>1, <2>4, <2>6, <2>8 DEF DisjointAggs, CompletedOnce, ClaimIsExact, OneAggregatePerKey
<1> QED BY <1>2, <1>3

\* The run of a forwarded task preserves it.
LEMMA ForwardedPreserves ==
    ASSUME BatchInv, NEW t \in Tasks, RecvForwarded(t)
    PROVE  BatchInv'
<1> USE DEF BatchInv
<1>1. /\ t \in forwarded /\ forwarded' = forwarded \ {t} /\ alone' = alone \cup {t}
      /\ completed' = [completed EXCEPT ![t] = @ + 1]
      /\ UNCHANGED <<new, groups, in_flight, due, aggs, lost, poolVars>>
  BY DEF RecvForwarded
<1>2. completed[t] = 0 /\ ~InGroup(t) /\ ~InDue(t) /\ ~InAgg(t) /\ t \notin new
  BY <1>1 DEF OnePlace
<1>3. TypeOK'
  BY <1>1 DEF TypeOK, poolVars
<1>4. OnePlace' /\ CompletedOnce'
  BY <1>1, <1>2 DEF OnePlace, CompletedOnce, InGroup, InDue, InAgg, TypeOK
<1> QED
  BY <1>1, <1>3, <1>4 DEF Keyed, DisjointAggs, ClaimIsExact, OneAggregatePerKey

\* The passing of time preserves it.
LEMMA WindowPreserves ==
    ASSUME BatchInv, NEW k \in Keys, WindowElapses(k)
    PROVE  BatchInv'
<1> USE DEF BatchInv
<1>1. groups' = [groups EXCEPT ![k].over = TRUE] /\ UNCHANGED <<taskVars, in_flight, due, aggs, completed, lost, poolVars>>
  BY DEF WindowElapses
<1>2. groups' \in [Keys -> Group] /\ \A j \in Keys : groups'[j].members = groups[j].members
  BY Zenon, <1>1 DEF TypeOK, Group
<1>3. TypeOK'
  BY <1>1, <1>2 DEF TypeOK, taskVars, poolVars
<1>4. Keyed'
  BY <1>1, <1>2 DEF Keyed
<1>5. OnePlace'
  BY <1>1, <1>2, BatchAssumption DEF OnePlace, InGroup, InDue, InAgg, taskVars
<1> QED
  BY <1>1, <1>3, <1>4, <1>5 DEF DisjointAggs, CompletedOnce, ClaimIsExact, OneAggregatePerKey

\* FlushDue preserves it: only keys without a claim are flushed.
LEMMA FlushPreserves == ASSUME BatchInv, FlushDue PROVE BatchInv'
<1> USE DEF BatchInv
<1> DEFINE flush == {k \in Keys \ in_flight : groups[k].members # {} /\ Ready(k)}
<1>1. /\ \A k \in Keys : due[k] = {}
      /\ in_flight' = in_flight \cup flush
      /\ due' = [k \in Keys |-> IF k \in flush THEN groups[k].members ELSE {}]
      /\ groups' = [k \in Keys |-> IF k \in flush THEN NoGroup ELSE groups[k]]
      /\ UNCHANGED <<taskVars, aggs, completed, lost, poolVars>>
  BY DEF FlushDue
<1>2. flush \subseteq Keys \ in_flight /\ \A k \in flush : groups[k].members # {}
  OBVIOUS
<1> HIDE DEF flush
<1>3. NoGroup \in Group /\ NoGroup.members = {}
  BY DEF NoGroup, Group
<1>4. \A k \in Keys : groups[k].members \subseteq Tasks
  BY DEF TypeOK, Group
<1>5. TypeOK'
  BY <1>1, <1>2, <1>3, <1>4 DEF TypeOK, taskVars, poolVars
<1>6. Keyed'
  BY <1>1, <1>2, <1>3 DEF Keyed
<1>7. \A t \in Tasks : /\ InGroup(t)' <=> InGroup(t) /\ KeyOf[t] \notin flush
                       /\ InDue(t)' <=> InGroup(t) /\ KeyOf[t] \in flush
                       /\ InAgg(t)' <=> InAgg(t)
  BY <1>1, <1>3, BatchAssumption DEF InGroup, InDue, InAgg
<1>8. OnePlace'
  BY <1>1, <1>7 DEF OnePlace, taskVars
<1>9. ClaimIsExact'
  BY <1>1, <1>2 DEF ClaimIsExact
<1>10. OneAggregatePerKey'
  <2>1. \A a \in aggs : a.k \in Keys /\ (a.st = "running" => a.k \in in_flight)
    BY DEF TypeOK, Agg, ClaimIsExact
  <2> QED BY <1>1, <1>2, <2>1 DEF OneAggregatePerKey
<1> QED
  BY <1>1, <1>5, <1>6, <1>8, <1>9, <1>10 DEF DisjointAggs, CompletedOnce

\* Building the aggregate of a due group, or dropping the group, preserves it.
LEMMA BuildPreserves ==
    ASSUME BatchInv, NEW k \in Keys, BuildAndSubmit(k)
    PROVE  BatchInv'
<1> USE DEF BatchInv
<1>1. due[k] # {} /\ due' = [due EXCEPT ![k] = {}] /\ UNCHANGED <<taskVars, groups, completed, poolVars>>
  BY DEF BuildAndSubmit
<1>2. \A j \in Keys : due'[j] = IF j = k THEN {} ELSE due[j]
  BY <1>1 DEF TypeOK
<1>3. \A t \in Tasks : InDue(t)' <=> InDue(t) /\ KeyOf[t] # k
  BY <1>2, BatchAssumption DEF InDue
<1>4. due[k] \subseteq Tasks /\ \A t \in due[k] : KeyOf[t] = k
  BY DEF TypeOK, Keyed
<1>5. ~\E a \in aggs : a.k = k /\ a.st = "running"
  BY <1>1 DEF OneAggregatePerKey
<1>6. CASE pool
  <2> DEFINE b == [k |-> k, ms |-> due[k], todo |-> due[k], st |-> "running"]
  <2>1. aggs' = aggs \cup {b} /\ UNCHANGED <<in_flight, lost>>
    BY <1>6 DEF BuildAndSubmit
  <2>2. b \in Agg /\ b.k = k /\ b.ms = due[k] /\ b.todo = due[k] /\ b.st = "running"
    BY <1>4 DEF Agg
  <2> HIDE DEF b
  <2>3. TypeOK'
    BY <1>1, <2>1, <2>2 DEF TypeOK, taskVars, poolVars
  <2>4. Keyed'
    BY <1>1, <1>2, <1>4, <2>1, <2>2 DEF Keyed
  <2>5. \A t \in Tasks : InAgg(t)' <=> InAgg(t) \/ t \in due[k]
    BY <2>1, <2>2 DEF InAgg
  <2>6. \A t \in Tasks : t \in due[k] <=> InDue(t) /\ KeyOf[t] = k
    BY <1>4 DEF InDue
  <2>7. OnePlace'
    BY <1>1, <1>3, <2>5, <2>6 DEF OnePlace, InGroup, taskVars
  <2>8. DisjointAggs'
    <3>1. \A a \in aggs : a.todo \cap due[k] = {}
      BY <1>4, <2>6 DEF OnePlace, InAgg
    <3> QED BY <2>1, <2>2, <3>1 DEF DisjointAggs
  <2>9. ClaimIsExact'
    BY <1>1, <1>2, <1>5, <2>1, <2>2 DEF ClaimIsExact
  <2>10. OneAggregatePerKey'
    BY <1>2, <1>5, <2>1, <2>2 DEF OneAggregatePerKey, TypeOK, Agg
  <2> QED
    BY <1>1, <2>3, <2>4, <2>7, <2>8, <2>9, <2>10 DEF CompletedOnce
<1>7. CASE ~pool
  <2>1. in_flight' = in_flight \ {k} /\ lost' = lost \cup due[k] /\ UNCHANGED aggs
    BY <1>7 DEF BuildAndSubmit
  <2>2. TypeOK'
    BY <1>1, <1>4, <2>1 DEF TypeOK, taskVars, poolVars
  <2>3. Keyed' /\ DisjointAggs' /\ CompletedOnce'
    BY <1>1, <1>2, <2>1 DEF Keyed, DisjointAggs, CompletedOnce
  <2>4. OnePlace'
    BY <1>1, <1>3, <2>1 DEF OnePlace, InGroup, InAgg, taskVars
  <2>5. ClaimIsExact'
    BY <1>2, <1>5, <2>1 DEF ClaimIsExact
  <2>6. OneAggregatePerKey'
    BY <1>2, <2>1 DEF OneAggregatePerKey, TypeOK, Agg
  <2> QED BY <2>2, <2>3, <2>4, <2>5, <2>6
<1> QED BY <1>6, <1>7

\* What replacing an aggregate by one with the same members left keeps.
LEMMA UpdateKeeps ==
    ASSUME BatchInv, NEW a \in aggs, NEW b \in Agg, Update(a, b),
           b.k = a.k, b.ms = a.ms, b.todo = a.todo,
           UNCHANGED <<taskVars, groups, due, completed, lost, poolVars>>, in_flight' \subseteq in_flight
    PROVE  TypeOK' /\ Keyed' /\ OnePlace' /\ DisjointAggs' /\ CompletedOnce'
<1> USE DEF BatchInv
<1>1. aggs' = (aggs \ {a}) \cup {b}
  BY DEF Update
<1>2. TypeOK'
  BY <1>1 DEF TypeOK, taskVars, poolVars
<1>3. Keyed'
  BY <1>1 DEF Keyed
<1>4. \A t \in Tasks : InAgg(t)' <=> InAgg(t)
  BY <1>1 DEF InAgg
<1>5. OnePlace' /\ CompletedOnce'
  BY <1>4 DEF OnePlace, CompletedOnce, InGroup, InDue, taskVars
<1>6. DisjointAggs'
  BY <1>1 DEF DisjointAggs
<1> QED BY <1>2, <1>3, <1>5, <1>6

\* The release of a claim preserves BatchInv: the aggregate was the one that held it.
LEMMA ReleasePreserves ==
    ASSUME BatchInv, NEW a \in aggs, ReleaseClaim(a)
    PROVE  BatchInv'
<1> DEFINE b == [a EXCEPT !.st = "released"]
<1>1. /\ a.st = "running" /\ in_flight' = in_flight \ {a.k} /\ Update(a, b)
      /\ UNCHANGED <<taskVars, groups, due, completed, lost, poolVars>>
  BY DEF ReleaseClaim
<1>2. a \in Agg
  BY DEF BatchInv, TypeOK
<1>3. b \in Agg /\ b.k = a.k /\ b.ms = a.ms /\ b.todo = a.todo /\ b.st = "released"
  BY <1>2 DEF Agg
<1> HIDE DEF b
<1>4. TypeOK' /\ Keyed' /\ OnePlace' /\ DisjointAggs' /\ CompletedOnce'
  BY <1>1, <1>3, UpdateKeeps
<1>5. aggs' = (aggs \ {a}) \cup {b} /\ due' = due
  BY <1>1 DEF Update
<1>6. /\ ClaimIsExact /\ OneAggregatePerKey /\ a.k \in Keys
      /\ due[a.k] = {} /\ \A c \in aggs : (c.k = a.k /\ c.st = "running") => c = a
  BY <1>1, <1>2 DEF BatchInv, OneAggregatePerKey, Agg
<1>7. ClaimIsExact'
  BY <1>1, <1>3, <1>5, <1>6 DEF ClaimIsExact
<1>8. OneAggregatePerKey'
  BY <1>3, <1>5, <1>6 DEF OneAggregatePerKey
<1> QED BY <1>4, <1>7, <1>8 DEF BatchInv

\* So does taking the members out of pending_.
LEMMA TakePreserves ==
    ASSUME BatchInv, NEW a \in aggs, TakeMembers(a)
    PROVE  BatchInv'
<1> DEFINE b == [a EXCEPT !.st = "taken"]
<1>1. /\ a.st = "released" /\ Update(a, b)
      /\ UNCHANGED <<taskVars, groups, in_flight, due, completed, lost, poolVars>>
  BY DEF TakeMembers
<1>2. a \in Agg
  BY DEF BatchInv, TypeOK
<1>3. b \in Agg /\ b.k = a.k /\ b.ms = a.ms /\ b.todo = a.todo /\ b.st = "taken"
  BY <1>2 DEF Agg
<1> HIDE DEF b
<1>4. TypeOK' /\ Keyed' /\ OnePlace' /\ DisjointAggs' /\ CompletedOnce'
  BY <1>1, <1>3, UpdateKeeps
<1>5. aggs' = (aggs \ {a}) \cup {b} /\ due' = due /\ in_flight' = in_flight
  BY <1>1 DEF Update
<1>6. ClaimIsExact' /\ OneAggregatePerKey'
  BY <1>1, <1>3, <1>5 DEF BatchInv, ClaimIsExact, OneAggregatePerKey
<1> QED BY <1>4, <1>6 DEF BatchInv

\* And the completion of a member: no other aggregate holds it.
LEMMA CompletePreserves ==
    ASSUME BatchInv, NEW a \in aggs, CompleteMember(a)
    PROVE  BatchInv'
<1> USE DEF BatchInv
<1>1. PICK t \in a.todo :
         /\ completed' = [completed EXCEPT ![t] = @ + 1]
         /\ IF a.todo = {t} THEN aggs' = aggs \ {a} ELSE Update(a, [a EXCEPT !.todo = @ \ {t}])
  BY Zenon DEF CompleteMember
<1>2. a.st = "taken" /\ UNCHANGED <<taskVars, groups, in_flight, due, lost, poolVars>>
  BY DEF CompleteMember
<1>3. a \in Agg /\ t \in Tasks /\ a.todo \subseteq a.ms
  BY DEF TypeOK, Agg
<1>4. /\ t \notin new /\ t \notin forwarded /\ ~InGroup(t) /\ ~InDue(t) /\ completed[t] = 0
      /\ \A c \in aggs : t \in c.todo => c = a
  BY <1>3 DEF OnePlace, InAgg, DisjointAggs
<1> DEFINE b == [a EXCEPT !.todo = @ \ {t}]
<1>5. b \in Agg /\ b.k = a.k /\ b.ms = a.ms /\ b.todo = a.todo \ {t} /\ b.st = "taken"
  BY <1>2, <1>3 DEF Agg
<1>6. \/ a.todo = {t} /\ aggs' = aggs \ {a}
      \/ a.todo # {t} /\ aggs' = (aggs \ {a}) \cup {b}
  BY <1>1 DEF Update
<1> HIDE DEF b
<1>7. TypeOK'
  BY <1>1, <1>2, <1>3, <1>5, <1>6 DEF TypeOK, taskVars, poolVars
<1>8. Keyed'
  BY <1>2, <1>5, <1>6 DEF Keyed
<1>9. \A u \in Tasks : InAgg(u)' <=> InAgg(u) /\ u # t
  BY <1>4, <1>5, <1>6 DEF InAgg
<1>10. \A u \in Tasks : completed'[u] = IF u = t THEN 1 ELSE completed[u]
  BY <1>1, <1>3, <1>4 DEF TypeOK
<1>11. OnePlace' /\ CompletedOnce'
  BY <1>2, <1>4, <1>9, <1>10 DEF OnePlace, CompletedOnce, InGroup, InDue, taskVars
<1>12. DisjointAggs'
  BY <1>5, <1>6 DEF DisjointAggs
<1>13. ClaimIsExact'
  BY <1>2, <1>5, <1>6 DEF ClaimIsExact
<1>14. OneAggregatePerKey'
  BY <1>2, <1>5, <1>6 DEF OneAggregatePerKey
<1> QED BY <1>7, <1>8, <1>11, <1>12, <1>13, <1>14

\* BatchInv always holds.
LEMMA BatchInvariant == Spec => []BatchInv
<1>1. BatchInv /\ [Next]_vars => BatchInv'
  <2> SUFFICES ASSUME BatchInv, [Next]_vars PROVE BatchInv'
    OBVIOUS
  <2>1. ASSUME NEW t \in Tasks, RouteManyToOne(t) \/ RecvForwarded(t) PROVE BatchInv'
    BY <2>1, RoutePreserves, ForwardedPreserves
  <2>2. ASSUME NEW k \in Keys, WindowElapses(k) \/ BuildAndSubmit(k) PROVE BatchInv'
    BY <2>2, WindowPreserves, BuildPreserves
  <2>3. CASE FlushDue
    BY <2>3, FlushPreserves
  <2>4. CASE OnAggregateComplete
    BY <2>4, ReleasePreserves, TakePreserves, CompletePreserves DEF OnAggregateComplete
  <2>5. CASE Unregister \/ Register \/ UNCHANGED vars
    <3>1. /\ UNCHANGED <<taskVars, groups, in_flight, due, aggs, completed, lost>>
          /\ pool' \in BOOLEAN /\ gone' \in 0..MaxUnregister
      <4>1. gone \in 0..MaxUnregister /\ pool \in BOOLEAN /\ MaxUnregister \in Nat
        BY BatchAssumption DEF BatchInv, TypeOK
      <4>2. CASE Unregister
        <5>1. gone' = gone + 1 /\ gone < MaxUnregister /\ pool' = FALSE
          BY <4>2 DEF Unregister
        <5>2. gone' \in 0..MaxUnregister
          BY <4>1, <5>1
        <5>3. UNCHANGED <<taskVars, groups, in_flight, due, aggs, completed, lost>>
          BY <4>2 DEF Unregister
        <5> QED BY Zenon, <5>1, <5>2, <5>3
      <4>3. CASE Register
        BY <4>1, <4>3 DEF Register
      <4>4. CASE UNCHANGED vars
        BY <4>1, <4>4 DEF vars, poolVars
      <4> QED BY <2>5, <4>2, <4>3, <4>4
    <3> QED
      BY Zenon, <3>1 DEF BatchInv, TypeOK, Keyed, OnePlace, DisjointAggs, CompletedOnce, ClaimIsExact,
         OneAggregatePerKey, InGroup, InDue, InAgg, taskVars
  <2> QED
    BY <2>1, <2>2, <2>3, <2>4, <2>5 DEF Next
<1> QED
  BY <1>1, BatchInit, PTL DEF Spec

-----------------------------------------------------------------------------

\* Every collective task is completed at most once.
THEOREM BatchCompletedOnce == Spec => []CompletedOnce
<1>1. BatchInv => CompletedOnce
  BY DEF BatchInv
<1> QED BY <1>1, BatchInvariant, PTL

\* The collectives of a key are serialised.
THEOREM BatchSerialised == Spec => []OneAggregatePerKey
<1>1. BatchInv => OneAggregatePerKey
  BY DEF BatchInv
<1> QED BY <1>1, BatchInvariant, PTL

\* No claim leaks and none is missing.
THEOREM BatchClaims == Spec => []ClaimIsExact
<1>1. BatchInv => ClaimIsExact
  BY DEF BatchInv
<1> QED BY <1>1, BatchInvariant, PTL

-----------------------------------------------------------------------------
(* The barrier, when no key is used in both modes.                          *)

Homogeneous == \A t, u \in Tasks : KeyOf[t] = KeyOf[u] => (t \in AllToOne <=> u \in AllToOne)

Full(ms) == ms \cap AllToOne # {} => Cardinality(ms \cap AllToOne) >= NumContainers

BarrierInv ==
    /\ \A k \in Keys : \A t \in groups[k].members : groups[k].count_based <=> t \in AllToOne
    /\ \A k \in Keys : Full(due[k])
    /\ BarrierIsFull

\* An AllToOne aggregate contains a task for every container, provided the tasks of
\* a key are all in the same mode.
THEOREM BatchBarrier == ASSUME Homogeneous PROVE Spec => []BarrierIsFull
<1> USE DEF Full
<1>1. Init => BarrierInv
  BY DEF Init, BarrierInv, BarrierIsFull, NoGroup
<1>2. BatchInv /\ BarrierInv /\ [Next]_vars => BarrierInv'
  <2> SUFFICES ASSUME BatchInv, BarrierInv, [Next]_vars PROVE BarrierInv'
    OBVIOUS
  <2>0. TypeOK /\ Keyed
    BY DEF BatchInv
  <2>1. ASSUME NEW t \in Tasks, RouteManyToOne(t) PROVE BarrierInv'
    <3>1. CASE t \in Remote
      BY <2>1, <3>1 DEF RouteManyToOne, BarrierInv, BarrierIsFull
    <3>2. CASE t \notin Remote
      <4> DEFINE k == KeyOf[t]
      <4>1. Add(t) /\ UNCHANGED <<due, aggs>> /\ k \in Keys
        BY <2>1, <3>2, BatchAssumption DEF RouteManyToOne
      <4>2. CASE groups[k].members = {}
        <5>1. groups' = [groups EXCEPT ![k] = [members |-> {t}, count_based |-> t \in AllToOne, over |-> FALSE]]
          BY <4>1, <4>2 DEF Add
        <5> QED BY Zenon, <2>0, <4>1, <5>1 DEF BarrierInv, BarrierIsFull, TypeOK
      <4>3. CASE groups[k].members # {}
        <5>1. groups' = [groups EXCEPT ![k] = [members |-> groups[k].members \cup {t},
                            count_based |-> groups[k].count_based, over |-> groups[k].over]]
          BY Zenon, <4>1, <4>3 DEF Add
        <5>2. groups[k].members \subseteq Tasks
          BY <2>0, <4>1 DEF TypeOK, Group
        <5>3. groups[k].count_based <=> t \in AllToOne
          BY <2>0, <4>1, <4>3, <5>2 DEF BarrierInv, Homogeneous, Keyed
        <5> QED BY <2>0, <4>1, <5>1, <5>3 DEF BarrierInv, BarrierIsFull, TypeOK
      <4> QED BY <4>2, <4>3
    <3> QED BY <3>1, <3>2
  <2>2. ASSUME NEW t \in Tasks, RecvForwarded(t) PROVE BarrierInv'
    BY <2>2 DEF RecvForwarded, BarrierInv, BarrierIsFull
  <2>3. ASSUME NEW k \in Keys, WindowElapses(k) PROVE BarrierInv'
    <3>1. \A j \in Keys : groups'[j].members = groups[j].members /\ groups'[j].count_based = groups[j].count_based
      BY <2>0, <2>3 DEF WindowElapses, TypeOK, Group
    <3> QED BY <2>3, <3>1 DEF WindowElapses, BarrierInv, BarrierIsFull
  <2>4. ASSUME NEW k \in Keys, BuildAndSubmit(k) PROVE BarrierInv'
    BY <2>0, <2>4 DEF BuildAndSubmit, BarrierInv, BarrierIsFull, TypeOK
  <2>5. CASE FlushDue
    <3>1. \A k \in Keys : (groups[k].members # {} /\ Ready(k)) => Full(groups[k].members)
      <4> SUFFICES ASSUME NEW k \in Keys, Ready(k), groups[k].members \cap AllToOne # {}
                   PROVE  Cardinality(groups[k].members \cap AllToOne) >= NumContainers
        OBVIOUS
      <4>1. groups[k].count_based
        BY DEF BarrierInv
      <4>2. groups[k].members \cap AllToOne = groups[k].members
        BY <4>1 DEF BarrierInv
      <4> QED BY <4>1, <4>2 DEF Ready
    <3>2. \A k \in Keys : due'[k] = {} \/ (groups[k].members # {} /\ Ready(k) /\ due'[k] = groups[k].members)
      BY <2>5 DEF FlushDue
    <3>3. \A k \in Keys : groups'[k] = NoGroup \/ groups'[k] = groups[k]
      BY <2>5 DEF FlushDue
    <3>4. aggs' = aggs
      BY <2>5 DEF FlushDue
    <3>5. \A k \in Keys : Full(due'[k])
      BY <3>1, <3>2
    <3> QED BY <3>3, <3>4, <3>5 DEF BarrierInv, BarrierIsFull, NoGroup
  <2>6. CASE OnAggregateComplete
    <3>1. \A b \in aggs' : \E a \in aggs : b.ms = a.ms
      BY <2>0, <2>6 DEF OnAggregateComplete, ReleaseClaim, TakeMembers, CompleteMember, Update, TypeOK, Agg
    <3>2. UNCHANGED <<groups, due>>
      BY <2>6 DEF OnAggregateComplete, ReleaseClaim, TakeMembers, CompleteMember
    <3> QED BY <3>1, <3>2 DEF BarrierInv, BarrierIsFull
  <2>7. CASE Unregister \/ Register \/ UNCHANGED vars
    BY <2>7 DEF Unregister, Register, vars, BarrierInv, BarrierIsFull
  <2> QED
    BY <2>1, <2>2, <2>3, <2>4, <2>5, <2>6, <2>7 DEF Next
<1>3. BarrierInv => BarrierIsFull
  BY DEF BarrierInv
<1> QED
  BY <1>1, <1>2, <1>3, BatchInvariant, PTL DEF Spec
=============================================================================
