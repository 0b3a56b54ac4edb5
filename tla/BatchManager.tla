---------------------------- MODULE BatchManager ----------------------------
(***************************************************************************)
(* The collectives: ManyToOne and AllToOne tasks are parked at the leader   *)
(* of their neighborhood, grouped by key, run as one aggregate task, and    *)
(* completed with its result (context-runtime/src/batch_manager.cc, and     *)
(* IpcManager::RouteManyToOne that feeds it).                               *)
(*                                                                          *)
(* Add runs on any worker of the leader, FlushDue and BuildAndSubmit on     *)
(* worker 0, OnAggregateComplete on the worker that ran the aggregate.  A   *)
(* step is a critical section of mu_ or pending_mu_, or the completion of   *)
(* one member.                                                              *)
(***************************************************************************)
EXTENDS Naturals, FiniteSets

CONSTANTS
    Tasks,          \* collective tasks
    Keys,           \* group keys: pool, method, container hash and batch key
    KeyOf,          \* the key of each task
    AllToOne,       \* the tasks in AllToOne mode; the others are ManyToOne
    Remote,         \* the tasks submitted on a node that is not the leader
    NumContainers,  \* num_containers_ of the pool
    MaxUnregister   \* bound: how often the pool is unregistered

ASSUME BatchAssumption ==
    /\ KeyOf \in [Tasks -> Keys]
    /\ AllToOne \subseteq Tasks /\ Remote \subseteq Tasks
    /\ IsFiniteSet(Tasks)
    /\ NumContainers \in Nat \ {0} /\ MaxUnregister \in Nat

VARIABLES
    new,         \* tasks not yet routed
    forwarded,   \* tasks on their way from a remote node to the leader
    groups,      \* key -> members, their flush condition and whether it is over
    in_flight,   \* keys whose aggregate is claimed and not complete
    due,         \* worker 0: groups taken out of groups_ and not yet submitted
    aggs,        \* submitted aggregates: pending_ and agg_group_
    completed,   \* how often EndTask was called on each task
    alone,       \* tasks that ran by themselves
    lost,        \* members nobody holds any more
    pool, gone   \* is the pool registered, and how often it was unregistered

taskVars == <<new, forwarded, alone>>
poolVars == <<pool, gone>>
vars == <<taskVars, groups, in_flight, due, aggs, completed, lost, poolVars>>

NoGroup == [members |-> {}, count_based |-> FALSE, over |-> FALSE]

Init ==
    /\ new = Tasks /\ forwarded = {} /\ alone = {} /\ lost = {}
    /\ groups = [k \in Keys |-> NoGroup]
    /\ in_flight = {}
    /\ due = [k \in Keys |-> {}]
    /\ aggs = {}
    /\ completed = [t \in Tasks |-> 0]
    /\ pool = TRUE /\ gone = 0

-----------------------------------------------------------------------------
(* Routing.                                                                 *)

\* BatchManager::Add: the first member of a group decides how it is flushed.
Add(t) ==
    LET k == KeyOf[t] IN
    groups' = [groups EXCEPT ![k] =
                 IF @.members = {}
                 THEN [members |-> {t}, count_based |-> t \in AllToOne, over |-> FALSE]
                 ELSE [members |-> @.members \cup {t}, count_based |-> @.count_based, over |-> @.over]]

RouteManyToOne(t) ==
    /\ t \in new
    /\ new' = new \ {t}
    /\ IF t \in Remote
       THEN forwarded' = forwarded \cup {t} /\ UNCHANGED groups
       ELSE Add(t) /\ UNCHANGED forwarded
    /\ UNCHANGED <<alone, in_flight, due, aggs, completed, lost, poolVars>>

\* A forwarded task arrives at the leader.  Its query is the Physical one it was
\* sent with and RecvInHandleOne marks it routed, so RouteTask runs it at once.
RecvForwarded(t) ==
    /\ t \in forwarded
    /\ forwarded' = forwarded \ {t}
    /\ alone' = alone \cup {t}
    /\ completed' = [completed EXCEPT ![t] = @ + 1]
    /\ UNCHANGED <<new, groups, in_flight, due, aggs, lost, poolVars>>

-----------------------------------------------------------------------------
(* Worker 0.                                                                *)

\* The batch window of a ManyToOne group elapses.
WindowElapses(k) ==
    /\ groups[k].members # {} /\ ~groups[k].count_based /\ ~groups[k].over
    /\ groups' = [groups EXCEPT ![k].over = TRUE]
    /\ UNCHANGED <<taskVars, in_flight, due, aggs, completed, lost, poolVars>>

\* Mutant: the barrier is one task short.
ReadyEarly(k) ==
    IF groups[k].count_based
    THEN pool /\ Cardinality(groups[k].members) + 1 >= NumContainers
    ELSE groups[k].over
Ready(k) ==
    IF groups[k].count_based
    THEN pool /\ Cardinality(groups[k].members) >= NumContainers
    ELSE groups[k].over

\* Mutant: a ready group is flushed whether or not its key is in flight.
FlushDueUnclaimed ==
    LET flush == {k \in Keys : groups[k].members # {} /\ Ready(k)} IN
    /\ \A k \in Keys : due[k] = {}
    /\ flush # {}
    /\ in_flight' = in_flight \cup flush
    /\ due' = [k \in Keys |-> IF k \in flush THEN groups[k].members ELSE {}]
    /\ groups' = [k \in Keys |-> IF k \in flush THEN NoGroup ELSE groups[k]]
    /\ UNCHANGED <<taskVars, aggs, completed, lost, poolVars>>

\* Mutant: only the time window makes a group due.
FlushDueWindowed ==
    LET flush == {k \in Keys \ in_flight : groups[k].members # {} /\ ~groups[k].count_based /\ Ready(k)} IN
    /\ \A k \in Keys : due[k] = {}
    /\ flush # {}
    /\ in_flight' = in_flight \cup flush
    /\ due' = [k \in Keys |-> IF k \in flush THEN groups[k].members ELSE {}]
    /\ groups' = [k \in Keys |-> IF k \in flush THEN NoGroup ELSE groups[k]]
    /\ UNCHANGED <<taskVars, aggs, completed, lost, poolVars>>

\* FlushDue: one pass over groups_ under mu_.
FlushDue ==
    LET flush == {k \in Keys \ in_flight : groups[k].members # {} /\ Ready(k)} IN
    /\ \A k \in Keys : due[k] = {}
    /\ flush # {}
    /\ in_flight' = in_flight \cup flush
    /\ due' = [k \in Keys |-> IF k \in flush THEN groups[k].members ELSE {}]
    /\ groups' = [k \in Keys |-> IF k \in flush THEN NoGroup ELSE groups[k]]
    /\ UNCHANGED <<taskVars, aggs, completed, lost, poolVars>>

\* BuildAndSubmit: without a container (or a copy of the first member) the claim is
\* given back and the members are dropped; else the aggregate is sent to run.
BuildAndSubmit(k) ==
    /\ due[k] # {}
    /\ due' = [due EXCEPT ![k] = {}]
    /\ IF pool
       THEN /\ aggs' = aggs \cup {[k |-> k, ms |-> due[k], todo |-> due[k], st |-> "running"]}
            /\ UNCHANGED <<in_flight, lost>>
       ELSE /\ in_flight' = in_flight \ {k}
            /\ lost' = lost \cup due[k]
            /\ UNCHANGED aggs
    /\ UNCHANGED <<taskVars, groups, completed, poolVars>>

-----------------------------------------------------------------------------
(* OnAggregateComplete, on the worker that ran the aggregate.               *)

Update(a, b) == aggs' = (aggs \ {a}) \cup {b}

\* Mutant: the claim is kept.
ReleaseNothing(a) ==
    /\ a.st = "running"
    /\ Update(a, [a EXCEPT !.st = "released"])
    /\ UNCHANGED <<taskVars, groups, in_flight, due, completed, lost, poolVars>>
\* The aggregate has run: its key is released...
ReleaseClaim(a) ==
    /\ a.st = "running"
    /\ in_flight' = in_flight \ {a.k}
    /\ Update(a, [a EXCEPT !.st = "released"])
    /\ UNCHANGED <<taskVars, groups, due, completed, lost, poolVars>>

\* ...its members are taken out of pending_...
TakeMembers(a) ==
    /\ a.st = "released"
    /\ Update(a, [a EXCEPT !.st = "taken"])
    /\ UNCHANGED <<taskVars, groups, in_flight, due, completed, lost, poolVars>>

\* Mutant: the members are completed from pending_ without being taken out of it.
CompleteMemberKeeps(a) ==
    /\ a.st = "taken"
    /\ \E t \in a.todo : completed' = [completed EXCEPT ![t] = @ + 1]
    /\ UNCHANGED <<taskVars, groups, in_flight, due, aggs, lost, poolVars>>
\* ...and completed one after the other.
CompleteMember(a) ==
    /\ a.st = "taken"
    /\ \E t \in a.todo :
          /\ completed' = [completed EXCEPT ![t] = @ + 1]
          /\ IF a.todo = {t}
             THEN aggs' = aggs \ {a}
             ELSE Update(a, [a EXCEPT !.todo = @ \ {t}])
    /\ UNCHANGED <<taskVars, groups, in_flight, due, lost, poolVars>>

\* The pool is destroyed, and created again.
Unregister ==
    /\ pool /\ gone < MaxUnregister
    /\ pool' = FALSE /\ gone' = gone + 1
    /\ UNCHANGED <<taskVars, groups, in_flight, due, aggs, completed, lost>>
Register ==
    /\ ~pool /\ pool' = TRUE
    /\ UNCHANGED <<taskVars, groups, in_flight, due, aggs, completed, lost, gone>>

OnAggregateComplete == \E a \in aggs : ReleaseClaim(a) \/ TakeMembers(a) \/ CompleteMember(a)

Next ==
    \/ \E t \in Tasks : RouteManyToOne(t) \/ RecvForwarded(t)
    \/ \E k \in Keys : WindowElapses(k) \/ BuildAndSubmit(k)
    \/ FlushDue \/ OnAggregateComplete
    \/ Unregister \/ Register

Spec == Init /\ [][Next]_vars

\* Tasks are routed and delivered, time passes, worker 0 loops, workers run tasks.
Fairness ==
    /\ \A t \in Tasks : WF_vars(RouteManyToOne(t)) /\ WF_vars(RecvForwarded(t))
    /\ \A k \in Keys : WF_vars(WindowElapses(k)) /\ WF_vars(BuildAndSubmit(k))
    /\ WF_vars(FlushDue) /\ WF_vars(OnAggregateComplete)
FairSpec == Spec /\ Fairness

-----------------------------------------------------------------------------
(* Properties.                                                              *)

Group == [members : SUBSET Tasks, count_based : BOOLEAN, over : BOOLEAN]
Agg == [k : Keys, ms : SUBSET Tasks, todo : SUBSET Tasks, st : {"running", "released", "taken"}]

\* The variables have their types, and no aggregate is empty.
TypeOK ==
    /\ new \subseteq Tasks /\ forwarded \subseteq Tasks /\ alone \subseteq Tasks /\ lost \subseteq Tasks
    /\ groups \in [Keys -> Group]
    /\ in_flight \subseteq Keys
    /\ due \in [Keys -> SUBSET Tasks]
    /\ aggs \subseteq Agg
    /\ \A a \in aggs : a.todo # {} /\ a.todo \subseteq a.ms
    /\ completed \in [Tasks -> Nat]
    /\ pool \in BOOLEAN /\ gone \in 0..MaxUnregister

\* Every member is completed at most once, however flushes, arrivals and
\* completions of the same key interleave.
CompletedOnce == \A t \in Tasks : completed[t] <= 1

\* Collectives of a key are serialised: no two of its aggregates run at a time, and
\* none is taken out of groups_ while one runs.
OneAggregatePerKey ==
    \A a \in aggs : a.st = "running" =>
       /\ due[a.k] = {}
       /\ \A b \in aggs : (b.k = a.k /\ b.st = "running") => b = a

\* A claim is held exactly for a group on its way to run or running: none leaks,
\* which would block its key for ever.
ClaimIsExact ==
    \A k \in Keys : k \in in_flight <=>
       due[k] # {} \/ \E a \in aggs : a.k = k /\ a.st = "running"

\* An aggregate with AllToOne members does not run before one task per container of
\* the pool has arrived.
BarrierIsFull ==
    \A a \in aggs : a.ms \cap AllToOne # {} => Cardinality(a.ms \cap AllToOne) >= NumContainers

\* A collective task never runs by itself.  One that is forwarded does
\* (BatchForwarded.cfg).
CollectiveIsBatched == alone = {}

\* In a pool that is not destroyed for good, a collective whose window is over or
\* whose barrier is full is served: its members complete, unless BuildAndSubmit
\* found the pool gone for a moment and dropped them.
ReadyIsServed ==
    <>[]pool => \A t \in Tasks :
       (t \in groups[KeyOf[t]].members /\ Ready(KeyOf[t])) ~> (completed[t] > 0 \/ t \in lost)
=============================================================================
