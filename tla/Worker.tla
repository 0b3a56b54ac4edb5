------------------------------- MODULE Worker -------------------------------
(***************************************************************************)
(* The workers of one runtime: the Run loop of context-runtime/src/         *)
(* worker.cc, the coroutines it drives, the park and wake handshake with    *)
(* the producers (SuspendMe, IpcManager::AwakenWorker), and the monitor     *)
(* thread that rescues a stalled worker (DefaultScheduler::LoadBalance).    *)
(*                                                                          *)
(* Every worker owns a lane of routed tasks, an event queue of completed    *)
(* subtasks, a shard of client requests, and the queues of tasks that wait  *)
(* for a timer or for a retry.  A task runs on one worker until it awaits   *)
(* a subtask, yields on a timer or finishes; the completion of a subtask    *)
(* goes to the event queue its parent was bound to.                         *)
(*                                                                          *)
(* Queues are FIFO sequences; RingBuffer models the rings under them.       *)
(***************************************************************************)
EXTENDS Naturals, Sequences, FiniteSets, FiniteSetsExt

CONSTANTS
    Baseline,    \* the workers started with the runtime
    Elastic,     \* the workers the monitor may add
    Roots,       \* client requests
    Subs,        \* subtasks
    ParentOf,    \* the request each subtask belongs to
    Periodic,    \* requests that are rescheduled when they end
    Mergeable,   \* requests their container coalesces into one merged task
    Merged,      \* merged tasks
    Polling,     \* tasks whose handler yields on a timer
    Private,     \* requests for a private method
    None,
    LaneDepth,   \* bound: queue depth of a lane, as the monitor reads it
    MaxYields,   \* bound: timer yields of one task
    Late,        \* tasks of a pool whose container is still being created
    MaxWedges,   \* bound: tasks that never return
    MaxRescues,  \* bound: event queues replaced by the monitor
    MaxGrown,    \* bound: elastic workers present when the pool is grown
    AwaitLater,  \* may a handler await a subtask after it yielded on a timer?
    Returns      \* may a task the monitor saw as stalled return after all?

Workers == Baseline \cup Elastic
Tasks == Roots \cup Subs \cup Merged
Queues == Workers \cup 1..MaxRescues

ASSUME WorkerAssumption ==
    /\ ParentOf \in [Subs -> Roots]
    /\ Periodic \subseteq Roots /\ Mergeable \subseteq Roots \ Periodic
    /\ Private \subseteq Roots /\ Polling \subseteq Tasks
    /\ Baseline \cap Elastic = {} /\ IsFiniteSet(Workers)
    /\ None \notin Workers \cup Tasks
    /\ {LaneDepth, MaxYields, MaxWedges, MaxRescues, MaxGrown} \subseteq Nat
    /\ Late \subseteq Roots \cup Subs
    /\ {AwaitLater, Returns} \subseteq BOOLEAN

VARIABLES
    task,      \* the RunContext and flags of each task
    wk,        \* the state of each worker thread
    lane,      \* routed tasks, per worker
    evq,       \* completed subtasks, per event queue object
    shard,     \* client requests, per worker
    ingress,   \* workers whose shard a client filled, its signal still due
    pending,   \* the parents of each merged task (GlobalBatchPending)
    answers,   \* how many responses each request was sent
    mon,       \* the monitor thread
    rescues,   \* event queues the monitor replaced so far
    registered,\* does the pool of the Late tasks have its container?
    wedged     \* workers whose task never returns

vars == <<task, wk, lane, evq, shard, ingress, pending, answers, mon, rescues,
          registered, wedged>>

queueVars == <<lane, evq, shard, ingress>>
ghostVars == <<pending, answers>>
monVars == <<mon, rescues, wedged>>

FreshTask ==
    [sent |-> FALSE, external |-> FALSE, started |-> FALSE, yielded |-> FALSE, timed |-> FALSE,
     awaited |-> None, done |-> FALSE, complete |-> FALSE, home |-> None,
     eq |-> None, kids |-> {}, yields |-> 0]

FreshWorker(w) ==
    [pc |-> "loop", cur |-> None, ret |-> None, back |-> None,
     aw |-> None, wl |-> None, todo |-> <<>>, group |-> <<>>, snap |-> <<>>,
     own |-> w, adopted |-> <<>>, timer |-> {}, retry |-> <<>>,
     laned |-> TRUE, active |-> TRUE, parked |-> FALSE, sig |-> FALSE]

Init ==
    /\ task = [t \in Tasks |-> FreshTask]
    /\ wk = [w \in Workers |-> IF w \in Baseline THEN FreshWorker(w)
                               ELSE [FreshWorker(w) EXCEPT !.pc = "off"]]
    /\ lane = [w \in Workers |-> <<>>]
    /\ evq = [q \in Queues |-> <<>>]
    /\ shard = [w \in Workers |-> <<>>]
    /\ ingress = {}
    /\ pending = [m \in Merged |-> {}]
    /\ answers = [t \in Roots |-> 0]
    /\ mon = [pc |-> "idle", w |-> None, r |-> None, wl |-> None]
    /\ rescues = 0
    /\ registered = (Late = {})
    /\ wedged = {}

Live == {w \in Workers : wk[w].pc # "off"}

\* last_exec_start_us_ is set: the worker is inside ExecTask.
IsExecuting(w) ==
    \/ wk[w].pc \in {"exec", "await", "suspend"}
    \/ wk[w].pc = "wake" /\ wk[w].back = "exec"

At(w, p) == wk[w].pc = p /\ w \notin wedged

Goto(w, p) == wk' = [wk EXCEPT ![w].pc = p]

-----------------------------------------------------------------------------
(* Routing and execution.                                                   *)

\* RouteLocal finds no container: GetContainer is invalid until the pool's
\* container is registered.
Dne(t) == t \in Late /\ ~registered

\* RouteAndExec and RouteOnly bind the task to the worker that runs it.
Bind(r, w) == [r EXCEPT !.home = w, !.eq = wk[w].own]

\* What RuntimeMapTask may answer, and what RouteLocal makes of it when it
\* must enqueue: never the lane of the worker that is pushing, if there is
\* another one.
RuntimeMapTask(w) == Live
ForcedDest(w) == IF Live = {w} THEN {w} ELSE Live \ {w}

\* Task::StartCoroutine resets the frame, ResumeCoroutine the yielded flag.
Slice(r) ==
    IF r.started THEN [r EXCEPT !.yielded = FALSE]
    ELSE [r EXCEPT !.yielded = FALSE, !.done = FALSE, !.kids = {}]

\* ExecTask up to the coroutine: worker w, whose record is now rec, drives
\* task t of T and then goes back to ret.
ExecTask(w, t, ret, rec, T) ==
    /\ wk' = [wk EXCEPT ![w] =
          [rec EXCEPT !.pc = IF ~T[t].started /\ T[t].external THEN "denied"
                             ELSE "exec",
                      !.cur = t, !.ret = ret]]
    /\ task' = [T EXCEPT ![t] = Slice(@)]

\* Push a routed task on the lane of d; AwakenWorker is the next step.
Enqueue(w, t, d, back, rec) ==
    /\ lane' = [lane EXCEPT ![d] = Append(@, t)]
    /\ wk' = [wk EXCEPT ![w] = [rec EXCEPT !.pc = "wake", !.wl = d,
                                           !.back = back]]

\* AwakenWorker: after the push, signal the lane's worker unless it is
\* active.  A completion signals the lane its parent is bound to now.
WakeTarget(x) == IF x \in Tasks THEN task[x].home ELSE x
Signalled(W, d) == IF W[d].active THEN W ELSE [W EXCEPT ![d].sig = TRUE]

AwakenWorker(w) ==
    /\ At(w, "wake")
    /\ wk' = Signalled([wk EXCEPT ![w].pc = wk[w].back, ![w].wl = None,
                                      ![w].back = None],
                       WakeTarget(wk[w].wl))
    /\ UNCHANGED <<task, queueVars, ghostVars, monVars, registered>>

-----------------------------------------------------------------------------
(* The coroutine that worker w drives.                                      *)

\* IpcCpu2Self::SendIn: the subtask gets its parent and is enqueued, or goes
\* to this worker's retry queue when RouteLocal finds no container here.
SendIn(w, s) ==
    LET t == wk[w].cur
        T == [task EXCEPT ![t].kids = @ \cup {s}, ![s].sent = TRUE]
    IN  /\ At(w, "exec")
        /\ ParentOf[s] = t /\ ~task[s].sent
        /\ task' = T
        /\ \/ /\ ~Dne(s)
              /\ \E d \in ForcedDest(w) : Enqueue(w, s, d, "exec", wk[w])
           \/ /\ Dne(s)
              /\ wk' = [wk EXCEPT ![w].retry = Append(@, s)]
              /\ UNCHANGED lane
        /\ UNCHANGED <<evq, shard, ingress, ghostVars, monVars, registered>>

\* Mutant: the future is not looked at before suspending on it.
AwaitReadyUnchecked(w, s) ==
    /\ At(w, "exec")
    /\ s \in task[wk[w].cur].kids
    /\ wk' = [wk EXCEPT ![w].pc = "await", ![w].aw = s]
    /\ UNCHANGED <<task, queueVars, ghostVars, monVars, registered>>

\* await_ready: a complete future does not suspend.
AwaitReady(w, s) ==
    LET t == wk[w].cur
    IN  /\ At(w, "exec")
        /\ s \in task[t].kids
        /\ IF task[s].complete
           THEN task' = [task EXCEPT ![t].kids = @ \ {s}] /\ UNCHANGED wk
           ELSE /\ wk' = [wk EXCEPT ![w].pc = "await", ![w].aw = s]
                /\ UNCHANGED task
        /\ UNCHANGED <<queueVars, ghostVars, monVars, registered>>

\* await_suspend_impl: first SetAwaitedFshm, then SetYielded; only then does
\* the coroutine give the worker back to ExecTask.
AwaitRecord(w) ==
    /\ At(w, "await")
    /\ task' = [task EXCEPT ![wk[w].cur].awaited = wk[w].aw,
                            ![wk[w].cur].kids = @ \ {wk[w].aw}]
    /\ Goto(w, "suspend")
    /\ UNCHANGED <<queueVars, ghostVars, monVars, registered>>

AwaitSuspend(w) ==
    /\ At(w, "suspend")
    /\ task' = [task EXCEPT ![wk[w].cur].yielded = TRUE,
                            ![wk[w].cur].timed = FALSE]
    /\ wk' = [wk EXCEPT ![w].pc = "post", ![w].aw = None]
    /\ UNCHANGED <<queueVars, ghostVars, monVars, registered>>

\* co_await yield(us), us > 0, to poll a lock, an I/O or a subtask.  Unless
\* AwaitLater, the subtasks in flight are polled and not awaited any more, as
\* ProbeRequest does; with it they may be, as in ModifyExistingData.
YieldTimer(w) ==
    LET t == wk[w].cur
    IN  /\ At(w, "exec")
        /\ t \in Polling /\ task[t].yields < MaxYields
        /\ task' = [task EXCEPT ![t].yielded = TRUE, ![t].timed = TRUE,
                                ![t].yields = @ + 1,
                                ![t].kids = IF AwaitLater THEN @ ELSE {}]
        /\ Goto(w, "post")
        /\ UNCHANGED <<queueVars, ghostVars, monVars, registered>>

\* The handler returns; it may leave subtasks in flight.
CoReturn(w) ==
    LET t == wk[w].cur
    IN  /\ At(w, "exec")
        /\ task' = [task EXCEPT ![t].done = TRUE, ![t].kids = {}]
        /\ Goto(w, "post")
        /\ UNCHANGED <<queueVars, ghostVars, monVars, registered>>

-----------------------------------------------------------------------------
(* The end of a slice.                                                      *)

\* EndTask, for worker w with record rec and the tasks T: a merged task
\* completes its parents, a periodic one is rescheduled, a subtask goes to the
\* event queue of its parent, a request is answered.
EndTask(w, t, can_resched, rec, T) ==
    \/ /\ t \in Merged
       /\ answers' = [r \in Roots |-> IF r \in pending[t] THEN answers[r] + 1
                                      ELSE answers[r]]
       /\ pending' = [pending EXCEPT ![t] = {}]
       /\ wk' = [wk EXCEPT ![w] = rec]
       /\ task' = T /\ UNCHANGED evq
    \/ /\ t \in Periodic /\ can_resched
       /\ task' = [T EXCEPT ![t].started = FALSE, ![t].timed = TRUE]
       /\ wk' = [wk EXCEPT ![w] = [rec EXCEPT !.timer = @ \cup {t}]]
       /\ UNCHANGED <<evq, ghostVars>>
    \/ /\ t \in Subs
       /\ evq' = [evq EXCEPT ![T[ParentOf[t]].eq] = Append(@, t)]
       /\ wk' = [wk EXCEPT ![w] = [rec EXCEPT !.pc = "wake", !.back = rec.pc,
                                              !.wl = ParentOf[t]]]
       /\ task' = T /\ UNCHANGED ghostVars
    \/ /\ t \in Roots /\ (t \notin Periodic \/ ~can_resched)
       /\ answers' = [answers EXCEPT ![t] = @ + 1]
       /\ wk' = [wk EXCEPT ![w] = rec]
       /\ task' = T /\ UNCHANGED <<evq, pending>>

Released(w) == [wk[w] EXCEPT !.pc = wk[w].ret, !.cur = None, !.ret = None]

\* Mutant: every suspended task is parked on a timer, not only polling ones.
ReturnedAlwaysParks(w) ==
    LET t == wk[w].cur
        T == [task EXCEPT ![t].started = TRUE]
    IN  /\ At(w, "post")
        /\ IF task[t].yielded /\ ~task[t].done
           THEN /\ wk' = [wk EXCEPT ![w] =
                    [Released(w) EXCEPT !.timer = @ \cup {t}]]
                /\ task' = T
                /\ UNCHANGED <<evq, ghostVars>>
           ELSE EndTask(w, t, TRUE, Released(w), T)
        /\ UNCHANGED <<lane, shard, ingress, monVars, registered>>

\* ExecTask after the coroutine: a task that yielded on a timer is parked, one
\* that awaits is left to the event queue, and anything else has ended.
Returned(w) ==
    LET t == wk[w].cur
        T == [task EXCEPT ![t].started = TRUE]
    IN  /\ At(w, "post")
        /\ IF task[t].yielded /\ ~task[t].done
           THEN /\ wk' = [wk EXCEPT ![w] =
                    IF task[t].timed
                    THEN [Released(w) EXCEPT !.timer = @ \cup {t}]
                    ELSE Released(w)]
                /\ task' = T
                /\ UNCHANGED <<evq, ghostVars>>
           ELSE EndTask(w, t, TRUE, Released(w), T)
        /\ UNCHANGED <<lane, shard, ingress, monVars, registered>>

\* ExecTask refuses a private method to an external client.
RejectedCall(w) ==
    /\ At(w, "denied")
    /\ EndTask(w, wk[w].cur, FALSE, Released(w), task)
    /\ UNCHANGED <<lane, shard, ingress, monVars, registered>>

-----------------------------------------------------------------------------
(* The Run loop.  An iteration looks at the shard, the lane, the event      *)
(* queues, the retry queue and the timers in turn; a look that finds its    *)
(* queue empty changes nothing and is not a step, so at "loop" the next     *)
(* step is whichever queue has something, in any order.                     *)

\* BatchCollect over the inbound shard: RouteOnly each request, keep the ones
\* that run here, batchable ones apart.
DrainMyShard(w) ==
    LET t == Head(shard[w])
        rec == [wk[w] EXCEPT !.pc = "ingest"]
    IN  /\ At(w, "loop") \/ At(w, "ingest")
        /\ shard[w] # <<>>
        /\ shard' = [shard EXCEPT ![w] = Tail(@)]
        /\ task' = [task EXCEPT ![t] = Bind(@, w)]
        /\ \/ /\ Dne(t)
              /\ wk' = [wk EXCEPT ![w] = [rec EXCEPT !.retry = Append(@, t)]]
              /\ UNCHANGED lane
           \/ /\ ~Dne(t)
              /\ wk' = [wk EXCEPT ![w] =
                    IF t \in Mergeable THEN [rec EXCEPT !.group = Append(@, t)]
                    ELSE [rec EXCEPT !.todo = Append(@, t)]]
              /\ UNCHANGED lane
           \/ /\ ~Dne(t)
              /\ \E d \in RuntimeMapTask(w) \ {w} :
                    Enqueue(w, t, d, "ingest", rec)
        /\ UNCHANGED <<evq, ingress, ghostVars, monVars, registered>>

Ingested(w) ==
    /\ At(w, "ingest")
    /\ Goto(w, "batch")
    /\ UNCHANGED <<task, queueVars, ghostVars, monVars, registered>>

\* Declined tasks run first, in arrival order.
RunPassthrough(w) ==
    /\ At(w, "batch") /\ wk[w].todo # <<>>
    /\ ExecTask(w, Head(wk[w].todo), "batch",
                [wk[w] EXCEPT !.todo = Tail(@)], task)
    /\ UNCHANGED <<queueVars, ghostVars, monVars, registered>>

\* SmashBatch: the group goes through unchanged, or a merged task stands for
\* its members (WorkerBatchSink::Passthrough and Emit).
SmashBatch(w) ==
    LET group == wk[w].group
    IN  /\ At(w, "batch") /\ wk[w].todo = <<>> /\ group # <<>>
        /\ \/ /\ wk' = [wk EXCEPT ![w].todo = group, ![w].group = <<>>]
              /\ UNCHANGED <<task, pending>>
           \/ \E m \in Merged :
              /\ Len(group) > 1 /\ ~task[m].sent
              /\ pending' = [pending EXCEPT ![m] = {group[i] : i \in DOMAIN group}]
              /\ ExecTask(w, m, "batch", [wk[w] EXCEPT !.group = <<>>],
                          [task EXCEPT ![m] = [Bind(@, w) EXCEPT !.sent = TRUE]])
        /\ UNCHANGED <<queueVars, answers, monVars, registered>>

BatchIsEmpty(w) ==
    /\ At(w, "batch") /\ wk[w].todo = <<>> /\ wk[w].group = <<>>
    /\ Goto(w, "loop")
    /\ UNCHANGED <<task, queueVars, ghostVars, monVars, registered>>

\* ProcessNewTask: a task on a lane is routed, so RouteAndExec runs it here.
ProcessNewTask(w) ==
    LET t == Head(lane[w])
    IN  /\ At(w, "loop") /\ wk[w].laned /\ lane[w] # <<>>
        /\ lane' = [lane EXCEPT ![w] = Tail(@)]
        /\ ExecTask(w, t, "loop", wk[w],
                    [task EXCEPT ![t] = Bind(@, w)])
        /\ UNCHANGED <<evq, shard, ingress, ghostVars, monVars, registered>>

\* ProcessEventQueue: drain a snapshot of the worker's own queue and the ones
\* it adopted.  The popped future is complete from here on; its parent is
\* resumed only if this is the future it is suspended on.
HasEvents(w) ==
    \/ evq[wk[w].own] # <<>>
    \/ \E i \in DOMAIN wk[w].adopted : evq[wk[w].adopted[i]] # <<>>

SnapshotQueues(w) ==
    /\ At(w, "loop") /\ HasEvents(w)
    /\ wk' = [wk EXCEPT ![w].pc = "drain",
                        ![w].snap = <<wk[w].own>> \o wk[w].adopted]
    /\ UNCHANGED <<task, queueVars, ghostVars, monVars, registered>>

\* Mutants: any event of a subtask resumes a suspended parent (before issue
\* 705); a parent that awaits nothing is resumed as well (before issue 856).
ResumableByAny(s) ==
    /\ ~task[ParentOf[s]].done
    /\ task[ParentOf[s]].awaited # None

ResumableByNull(s) ==
    /\ ~task[ParentOf[s]].done
    /\ task[ParentOf[s]].awaited \in {s, None}

Resumable(s) ==
    /\ ~task[ParentOf[s]].done
    /\ task[ParentOf[s]].awaited = s

ProcessEvent(w) ==
    LET q == Head(wk[w].snap)
        s == Head(evq[q])
        p == ParentOf[s]
        T == [task EXCEPT ![s].complete = TRUE]
    IN  /\ At(w, "drain") /\ wk[w].snap # <<>> /\ evq[q] # <<>>
        /\ evq' = [evq EXCEPT ![q] = Tail(@)]
        /\ IF Resumable(s)
           THEN ExecTask(w, p, "drain", wk[w],
                         [T EXCEPT ![p].awaited = None, ![p].started = TRUE])
           ELSE task' = T /\ UNCHANGED wk
        /\ UNCHANGED <<lane, shard, ingress, ghostVars, monVars, registered>>

QueueIsEmpty(w) ==
    LET snap == wk[w].snap
    IN  /\ At(w, "drain") /\ snap # <<>> /\ evq[Head(snap)] = <<>>
        /\ IF Len(snap) > 1 THEN wk' = [wk EXCEPT ![w].snap = Tail(@)]
           ELSE wk' = [wk EXCEPT ![w].snap = <<>>,
                                 ![w].pc = "loop"]
        /\ UNCHANGED <<task, queueVars, ghostVars, monVars, registered>>

\* ProcessRetryQueue: route again, on a lane.  Until the container is there a
\* pass puts every task back.
ProcessRetry(w) ==
    /\ At(w, "loop") /\ wk[w].retry # <<>> /\ registered
    /\ \E d \in ForcedDest(w) :
          Enqueue(w, Head(wk[w].retry), d, "loop",
                  [wk[w] EXCEPT !.retry = Tail(@)])
    /\ UNCHANGED <<task, evq, shard, ingress, ghostVars, monVars, registered>>

\* ProcessPeriodicQueue: a task whose time has come is routed again, and runs
\* here or on the worker it is now mapped to.  It ran before, so it has its
\* container.
ProcessTimer(w, t) ==
    LET rec == [wk[w] EXCEPT !.timer = @ \ {t}]
        T == [task EXCEPT ![t].yielded = FALSE]
    IN  /\ At(w, "loop") /\ t \in wk[w].timer
        /\ \/ /\ ExecTask(w, t, "loop", rec, T)
              /\ UNCHANGED lane
           \/ /\ \E d \in RuntimeMapTask(w) \ {w} :
                    Enqueue(w, t, d, "loop", rec)
              /\ task' = T
        /\ UNCHANGED <<evq, shard, ingress, ghostVars, monVars, registered>>

-----------------------------------------------------------------------------
(* SuspendMe, once the worker has idled past its busy wait.                 *)

HasWork(w) ==
    \/ wk[w].laned /\ lane[w] # <<>>
    \/ HasEvents(w)
    \/ shard[w] # <<>>

CheckBeforePark(w) ==
    /\ At(w, "loop") /\ ~HasWork(w)
    /\ Goto(w, "park")
    /\ UNCHANGED <<task, queueVars, ghostVars, monVars, registered>>

\* Publish "parked" to both kinds of producers before the last look.
PublishParked(w) ==
    /\ At(w, "park")
    /\ wk' = [wk EXCEPT ![w].pc = "recheck", ![w].parked = TRUE,
                        ![w].active = IF wk[w].laned THEN FALSE ELSE @]
    /\ UNCHANGED <<task, queueVars, ghostVars, monVars, registered>>

Unparked(w, sig) ==
    wk' = [wk EXCEPT ![w].pc = "loop", ![w].parked = FALSE,
                     ![w].active = TRUE, ![w].sig = sig]

\* Mutant: no last look after "parked" was published.
RecheckParkedNever(w) ==
    /\ At(w, "recheck")
    /\ Goto(w, "wait")
    /\ UNCHANGED <<task, queueVars, ghostVars, monVars, registered>>

RecheckParked(w) ==
    /\ At(w, "recheck")
    /\ IF HasWork(w) THEN Unparked(w, wk[w].sig) ELSE Goto(w, "wait")
    /\ UNCHANGED <<task, queueVars, ghostVars, monVars, registered>>

\* EventManager::Wait returns on a signal, or after max_sleep at the latest.
WakeUp(w) ==
    /\ At(w, "wait") /\ Unparked(w, FALSE)
    /\ UNCHANGED <<task, queueVars, ghostVars, monVars, registered>>

-----------------------------------------------------------------------------
(* Clients, the container, and tasks that never return.                     *)

\* A client fills the shard of a worker, and then signals it if it is parked.
\* Only an external client is refused a private method.
Submit(t, w) ==
    /\ ~task[t].sent
    /\ \E external \in {FALSE, (t \in Private)} :
          task' = [task EXCEPT ![t].sent = TRUE, ![t].external = external]
    /\ shard' = [shard EXCEPT ![w] = Append(@, t)]
    /\ ingress' = ingress \cup {w}
    /\ UNCHANGED <<wk, lane, evq, ghostVars, monVars, registered>>

SignalConsumerIfParked(w) ==
    /\ w \in ingress
    /\ ingress' = ingress \ {w}
    /\ wk' = IF wk[w].parked THEN [wk EXCEPT ![w].sig = TRUE] ELSE wk
    /\ UNCHANGED <<task, lane, evq, shard, ghostVars, monVars, registered>>

\* CreatePool has built the static container, which accepts tasks, before it
\* registers the container that runs them.
RegisterContainer ==
    /\ ~registered
    /\ registered' = TRUE
    /\ UNCHANGED <<task, wk, queueVars, ghostVars, monVars>>

Wedge(w) ==
    /\ At(w, "exec") /\ Cardinality(wedged) < MaxWedges
    /\ wedged' = wedged \cup {w}
    /\ UNCHANGED <<task, wk, queueVars, ghostVars, mon, rescues, registered>>

-----------------------------------------------------------------------------
(* The monitor thread: the rescue of a stalled worker.                      *)

Stalled(w) == IsExecuting(w) /\ (Returns \/ w \in wedged)

\* ReleaseLane: the donor has no lane while its backlog is redistributed.
DetectStall(w) ==
    /\ mon.pc = "idle" /\ Stalled(w) /\ wk[w].laned
    /\ \/ rescues < MaxRescues
       \/ lane[w] # <<>>
    /\ mon' = [mon EXCEPT !.pc = "drain", !.w = w]
    /\ wk' = [wk EXCEPT ![w].laned = FALSE]
    /\ UNCHANGED <<task, queueVars, ghostVars, rescues, wedged, registered>>

\* PickLeastLoadedLive: the loads are not modelled, so any worker that has a
\* lane and need not be stalled may be the least loaded one.
Targets(w) == {d \in Live \ {w} : wk[d].laned /\ d \notin wedged}
HasRoom(d) == Len(lane[d]) + 2 < LaneDepth

Redistribute ==
    LET w == mon.w
    IN  /\ mon.pc = "drain" /\ mon.wl = None /\ lane[w] # <<>>
        /\ \/ \E d \in Targets(w) :
                /\ HasRoom(d)
                /\ lane' = [lane EXCEPT ![d] = Append(@, Head(lane[w])),
                                        ![w] = Tail(@)]
                /\ mon' = [mon EXCEPT !.wl = d]
           \/ /\ Targets(w) = {} \/ \E d \in Targets(w) : ~HasRoom(d)
              /\ lane' = [lane EXCEPT ![w] = Append(Tail(@), Head(@))]
              /\ mon' = [mon EXCEPT !.pc = "adopt"]
        /\ UNCHANGED <<task, wk, evq, shard, ingress, ghostVars, rescues,
                       wedged, registered>>

AwakenTarget ==
    /\ mon.wl # None
    /\ wk' = Signalled(wk, mon.wl)
    /\ mon' = [mon EXCEPT !.wl = None]
    /\ UNCHANGED <<task, queueVars, ghostVars, rescues, wedged, registered>>

LaneIsDrained ==
    /\ mon.pc = "drain" /\ mon.wl = None /\ lane[mon.w] = <<>>
    /\ mon' = [mon EXCEPT !.pc = "adopt"]
    /\ UNCHANGED <<task, wk, queueVars, ghostVars, rescues, wedged, registered>>

\* FindIdleElasticWorker, or SpawnAdditionalWorker while the pool may grow.
IdleElastic == {e \in Elastic : wk[e].pc # "off" /\ ~IsExecuting(e)}
Unspawned == IF IdleElastic = {} THEN {e \in Elastic : wk[e].pc = "off"} ELSE {}

\* AdoptLane gives the lane back; a worker is found to continue what waits.
AdoptLane ==
    LET W == [wk EXCEPT ![mon.w].laned = TRUE, ![mon.w].active = TRUE]
    IN  /\ mon.pc = "adopt"
        /\ \/ \E r \in IdleElastic :
                /\ rescues < MaxRescues
                /\ wk' = W /\ mon' = [mon EXCEPT !.pc = "replace", !.r = r]
           \/ \E r \in Unspawned :
                /\ rescues < MaxRescues
                /\ wk' = [W EXCEPT ![r].pc = "loop"]
                /\ mon' = [mon EXCEPT !.pc = "replace", !.r = r]
           \/ /\ rescues = MaxRescues \/ IdleElastic \cup Unspawned = {}
              /\ wk' = W /\ mon' = [mon EXCEPT !.pc = "idle", !.w = None]
        /\ UNCHANGED <<task, queueVars, ghostVars, rescues, wedged, registered>>

\* Mutant: the donor keeps its queue, as in an earlier version of the code.
ReplaceEventQueueShared ==
    /\ mon.pc = "replace"
    /\ rescues' = rescues + 1
    /\ wk' = [wk EXCEPT ![mon.r].adopted = Append(@, wk[mon.w].own)]
    /\ mon' = [mon EXCEPT !.pc = "transfer"]
    /\ UNCHANGED <<task, queueVars, ghostVars, wedged, registered>>

\* The rescuer adopts the donor's event queue, the donor gets a fresh one.
ReplaceEventQueue ==
    /\ mon.pc = "replace"
    /\ rescues' = rescues + 1
    /\ wk' = [wk EXCEPT ![mon.r].adopted = Append(@, wk[mon.w].own),
                        ![mon.w].own = rescues + 1]
    /\ mon' = [mon EXCEPT !.pc = "transfer"]
    /\ UNCHANGED <<task, queueVars, ghostVars, wedged, registered>>

TransferAdopted ==
    /\ mon.pc = "transfer"
    /\ wk' = [wk EXCEPT ![mon.r].adopted = @ \o wk[mon.w].adopted,
                        ![mon.w].adopted = <<>>]
    /\ mon' = [mon EXCEPT !.pc = "migrate"]
    /\ UNCHANGED <<task, queueVars, ghostVars, rescues, wedged, registered>>

\* Mutant: the tasks on timers are left behind.
MigrateRetriesOnly ==
    /\ mon.pc = "migrate"
    /\ wk' = [wk EXCEPT ![mon.r].retry = @ \o wk[mon.w].retry,
                        ![mon.w].retry = <<>>]
    /\ mon' = [mon EXCEPT !.pc = "idle", !.w = None, !.r = None]
    /\ UNCHANGED <<task, queueVars, ghostVars, rescues, wedged, registered>>

MigrateParkedTo ==
    /\ mon.pc = "migrate"
    /\ wk' = [wk EXCEPT ![mon.r].timer = @ \cup wk[mon.w].timer,
                        ![mon.r].retry = @ \o wk[mon.w].retry,
                        ![mon.w].timer = {}, ![mon.w].retry = <<>>]
    /\ mon' = [mon EXCEPT !.pc = "idle", !.w = None, !.r = None]
    /\ UNCHANGED <<task, queueVars, ghostVars, rescues, wedged, registered>>

\* RebalanceClasses: all workers of a cost class are busy, so it gets one more.
Grow(e) ==
    /\ mon.pc = "idle" /\ e \in Unspawned
    /\ Cardinality(Elastic \cap Live) < MaxGrown
    /\ Goto(e, "loop")
    /\ UNCHANGED <<task, queueVars, ghostVars, monVars, registered>>

-----------------------------------------------------------------------------
Coroutine(w) ==
    \/ \E s \in Subs : SendIn(w, s) \/ AwaitReady(w, s)
    \/ AwaitRecord(w) \/ AwaitSuspend(w) \/ YieldTimer(w) \/ CoReturn(w)

Loop(w) ==
    \/ Returned(w) \/ RejectedCall(w) \/ AwakenWorker(w)
    \/ DrainMyShard(w) \/ Ingested(w)
    \/ RunPassthrough(w) \/ SmashBatch(w) \/ BatchIsEmpty(w)
    \/ ProcessNewTask(w)
    \/ SnapshotQueues(w) \/ ProcessEvent(w) \/ QueueIsEmpty(w)
    \/ ProcessRetry(w)
    \/ \E t \in Tasks : ProcessTimer(w, t)
    \/ CheckBeforePark(w) \/ PublishParked(w) \/ RecheckParked(w) \/ WakeUp(w)

Monitor ==
    \/ \E w \in Workers : DetectStall(w) \/ Grow(w)
    \/ Redistribute \/ AwakenTarget \/ LaneIsDrained \/ AdoptLane
    \/ ReplaceEventQueue \/ TransferAdopted \/ MigrateParkedTo

Next ==
    \/ \E w \in Workers : Coroutine(w) \/ Loop(w) \/ Wedge(w)
    \/ \E t \in Roots, w \in Baseline : Submit(t, w)
    \/ \E w \in Baseline : SignalConsumerIfParked(w)
    \/ RegisterContainer
    \/ Monitor

Spec == Init /\ [][Next]_vars

\* A task that does not wedge its worker gives it back.  Every iteration of the
\* Run loop (or the forced scan after a wait) looks at every queue, so no queue
\* is passed over for ever however busy the others are.  The monitor is a
\* thread of its own with a fixed period.
Fairness ==
    /\ \A w \in Workers :
          /\ WF_vars(Coroutine(w) \/ Loop(w))
          /\ SF_vars(ProcessNewTask(w)) /\ SF_vars(SnapshotQueues(w))
          /\ SF_vars(ProcessRetry(w))
          /\ SF_vars(\E t \in Tasks : ProcessTimer(w, t))
    /\ \A w \in Baseline :
          SF_vars(DrainMyShard(w)) /\ WF_vars(SignalConsumerIfParked(w))
    /\ WF_vars(RegisterContainer) /\ WF_vars(Monitor)

FairSpec == Spec /\ Fairness

-----------------------------------------------------------------------------
(* Properties.                                                              *)

TaskContexts ==
    [sent : BOOLEAN, external : BOOLEAN, started : BOOLEAN, yielded : BOOLEAN,
     timed : BOOLEAN, awaited : Subs \cup {None}, done : BOOLEAN,
     complete : BOOLEAN, home : Workers \cup {None}, eq : Queues \cup {None},
     kids : SUBSET Subs, yields : 0..MaxYields]

WorkerThreads ==
    [pc : {"off", "loop", "ingest", "batch", "drain", "exec", "await",
           "suspend", "post", "denied", "wake", "park", "recheck", "wait"},
     cur : Tasks \cup {None}, aw : Subs \cup {None},
     ret : {"loop", "batch", "drain", None},
     back : {"loop", "ingest", "batch", "drain", "exec", None},
     wl : Workers \cup Roots \cup {None},
     todo : Seq(Roots), group : Seq(Mergeable), snap : Seq(Queues),
     own : Queues, adopted : Seq(Queues), timer : SUBSET Tasks,
     retry : Seq(Tasks), laned : BOOLEAN, active : BOOLEAN,
     parked : BOOLEAN, sig : BOOLEAN]

\* The types of the variables.
TypeOK ==
    /\ task \in [Tasks -> TaskContexts]
    /\ wk \in [Workers -> WorkerThreads]
    /\ lane \in [Workers -> Seq(Tasks)]
    /\ evq \in [Queues -> Seq(Subs)]
    /\ shard \in [Workers -> Seq(Roots)]
    /\ ingress \subseteq Baseline
    /\ pending \in [Merged -> SUBSET Mergeable]
    /\ answers \in [Roots -> Nat]
    /\ mon \in [pc : {"idle", "drain", "adopt", "replace", "transfer",
                      "migrate"},
                w : Workers \cup {None}, r : Elastic \cup {None},
                wl : Workers \cup {None}]
    /\ rescues \in 0..MaxRescues
    /\ registered \in BOOLEAN
    /\ wedged \subseteq Workers

Times(t, q) == Cardinality({i \in DOMAIN q : q[i] = t})

\* How many places of worker w hold task t: its queues, the batch it is
\* working through, and its hands.
PlacesOn(w, t) ==
    LET r == wk[w]
    IN  Times(t, lane[w]) + Times(t, shard[w]) + Times(t, r.todo)
        + Times(t, r.group) + Times(t, r.retry)
        + Cardinality({x \in {t} : x \in r.timer})
        + Cardinality({x \in {t} : x = r.cur})

Places(t) == MapThenSumSet(LAMBDA w : PlacesOn(w, t), Workers)

Running(t) == \E w \in Workers : wk[w].cur = t

\* Suspended on a subtask, in no queue: only an event can resume it.
Waiting(t) == task[t].awaited # None /\ ~Running(t)

Subsumed(t) == Cardinality({m \in Merged : t \in pending[m]})

\* How often task t was completed: a subtask by an event, a request by an
\* answer, a merged task by ending.
Completions(t) ==
    CASE t \in Subs ->
           MapThenSumSet(LAMBDA q : Times(t, evq[q]), Queues)
           + (IF task[t].complete THEN 1 ELSE 0)
      [] t \in Roots -> answers[t]
      [] t \in Merged -> IF task[t].done /\ ~Running(t) THEN 1 ELSE 0

\* No task is lost and none is doubled: a task that was sent is in exactly one
\* queue or in the hands of one worker, or waits for a subtask, or is subsumed
\* by a merged task, or was completed once; through routing, batching, timers,
\* retries and the rescue of its worker.
ExactlyOnePlace ==
    \A t \in Tasks :
        Places(t) + (IF Waiting(t) THEN 1 ELSE 0) + Completions(t)
            + (IF t \in Roots THEN Subsumed(t) ELSE 0)
        = (IF task[t].sent THEN 1 ELSE 0)

\* The exact match in ProcessEventQueue strands nobody: the subtask a task
\* waits for still has its event to come.
NoStrandedWaiter ==
    \A t \in Tasks : Waiting(t) => ~task[task[t].awaited].complete

\* An await returns only once the subtask it names is complete, whatever other
\* subtasks of the task end in the meantime.
AwaitReturnsComplete ==
    [][\A t \in Tasks :
          Waiting(t) /\ ~Waiting(t)' => task'[task[t].awaited].complete]_vars

SignalDue(w) ==
    \/ wk[w].sig
    \/ w \in ingress
    \/ mon.wl = w
    \/ \E v \in Workers : wk[v].pc = "wake" /\ WakeTarget(wk[v].wl) = w

\* A worker never sleeps on work: when it waits and its lane, its event queue
\* or its shard holds something, it was signalled or the producer is about to.
NoLostWakeup ==
    \A w \in Workers :
        /\ wk[w].pc = "wait"
        /\ lane[w] # <<>> \/ evq[wk[w].own] # <<>> \/ shard[w] # <<>>
        => SignalDue(w)

Owners(q) ==
    MapThenSumSet(LAMBDA w : Times(q, <<wk[w].own>> \o wk[w].adopted), Workers)

Consumers(q) ==
    {w \in Workers \ wedged :
        Times(q, <<wk[w].own>> \o wk[w].adopted \o wk[w].snap) > 0}

\* Every event queue belongs to one worker, which owns or adopted it, whatever
\* was rescued in which order, and nobody else may still pop from it.
OneConsumer ==
    \A q \in Workers \cup 1..rescues :
        Owners(q) = 1 /\ Cardinality(Consumers(q)) <= 1

\* A task nobody can run: a wedged worker has it in its hands, in the batch it
\* was working through, or in its shard, none of which a rescue moves.
Held(t) ==
    \E w \in wedged :
        \/ wk[w].cur = t
        \/ \E q \in {wk[w].todo, wk[w].group, shard[w]} : Times(t, q) > 0

Stranded(t) ==
    \/ Held(t)
    \/ Waiting(t) /\ Held(task[t].awaited)
    \/ \E m \in Merged : t \in pending[m] /\ Held(m)

\* Every request is answered, though a worker be wedged, unless it depends on
\* what the wedged worker had in hand: suspended, timed, retried and queued
\* tasks of that worker are continued by others.
RequestsAreAnswered ==
    \A t \in Roots \ Periodic :
        task[t].sent ~> (answers[t] = 1 \/ Stranded(t))
=============================================================================
