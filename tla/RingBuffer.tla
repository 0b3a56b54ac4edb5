---- MODULE RingBuffer ----
(***************************************************************************)
(* The ring buffer of ring_buffer.h under the worker lanes, the event      *)
(* queues and the network queue, atomic operation by atomic operation, for *)
(* the four sets of flags its aliases give it:                             *)
(*   spsc  spsc_ring_buffer: one producer, one consumer, a full ring       *)
(*         refuses (ERROR_ON_NO_SPACE);                                    *)
(*   mpsc  mpsc_ring_buffer, the NetQueue: lock-free producers, a full     *)
(*         ring makes them wait (WAIT_FOR_SPACE);                          *)
(*   mpmc  mpmc_ring_buffer: mpsc with Pop under the mutex (LOCK_POP);     *)
(*   ext   ext_spsc_queue, TaskLane and EventQueue: Push and Pop under the *)
(*         mutex, a full ring grows (DYNAMIC_SIZE).                        *)
(* The atomics of the host build are sequentially consistent, so a step is *)
(* one access to head_, tail_, an entry's flag or the mutex's counters.    *)
(* The 64-bit positions do not wrap in the life of a runtime.              *)
(***************************************************************************)
EXTENDS Integers, Sequences, Functions

CONSTANTS
    Threads,        \* the threads that use the ring
    Kinds,          \* the sets of flags checked, of the four above
    Producers,      \* for each kind, the threads that push
    Consumers,      \* for each kind, the threads that pop
    Depths,         \* the depths the ring may be constructed with
    Pushes          \* bound: for each kind, the calls of Push of one thread

ASSUME RingAssumption ==
    /\ Kinds \subseteq {"spsc", "mpsc", "mpmc", "ext"}
    /\ Producers \in [Kinds -> SUBSET Threads]
    /\ Consumers \in [Kinds -> SUBSET Threads]
    /\ Depths \subseteq Nat \ {0}
    /\ Pushes \in [Kinds -> Nat]
    \* What the letters of the lock-free aliases promise: one producer, one
    \* consumer.  The mutex serialises the others.
    /\ \A k \in Kinds \intersect {"spsc"} : \A t, u \in Producers[k] : t = u
    /\ \A k \in Kinds \intersect {"spsc", "mpsc"} : \A t, u \in Consumers[k] : t = u

VARIABLES
    kind,           \* FLAGS
    size_,          \* queue_.size(): one entry more than the depth
    ready_,         \* queue_: the indices of the entries whose flag is set
    data_,          \* queue_: the entries' data, by index
    head_,          \* the position Pop reads next
    tail_,          \* the position the next Push gets
    lock_,          \* the ticket mutex: the threads with a ticket, the one served first
    pc, op, val, head, tail,    \* each thread's call in progress and its locals
    calls,          \* the calls of Push that have returned, for each thread
    out             \* history: the values Pop has returned

queue_ == <<size_, ready_, data_>>

locals == <<op, val, head, tail, calls>>

vars == <<kind, queue_, head_, tail_, lock_, pc, locals, out>>

WaitForSpace == kind \in {"mpsc", "mpmc"}

ErrorOnNoSpace == kind = "spsc"

DynamicSize == kind = "ext"

\* LockPush and LockPop: the calls the mutex serialises.
Locked(o) == kind = "ext" \/ (kind = "mpmc" /\ o = "pop")

NoData == <<>>

\* A value is the call that pushes it.
Values == UNION {Threads \X (1..Pushes[k]) : k \in Kinds}

Init ==
    /\ kind \in Kinds
    /\ \E depth \in Depths : size_ = depth + 1
    /\ ready_ = {}
    /\ data_ = [i \in 0..(size_ - 1) |-> NoData]
    /\ head_ = 0 /\ tail_ = 0
    /\ lock_ = <<>>
    /\ pc = [t \in Threads |-> "idle"]
    /\ op = [t \in Threads |-> "pop"]
    /\ val = [t \in Threads |-> NoData]
    /\ head = [t \in Threads |-> 0]
    /\ tail = [t \in Threads |-> 0]
    /\ calls = [t \in Threads |-> 0]
    /\ out = <<>>

At(t, o, l) == op[t] = o /\ pc[t] = l

Goto(t, l) == pc' = [pc EXCEPT ![t] = l]

\* The end of a call: ScopedMutex's destructor unlocks, when there is one.
Leave(t) == IF Locked(op[t]) THEN "unlock" ELSE "idle"

-----------------------------------------------------------------------------
(* The mutex (mutex.h) and the start of a call.                            *)

\* Emplace or Pop up to its body: a locked call takes a ticket.
Begin(t, o, v) ==
    /\ pc[t] = "idle"
    /\ lock_' = IF Locked(o) THEN Append(lock_, t) ELSE lock_
    /\ Goto(t, IF Locked(o) THEN "lock" ELSE "load")
    /\ op' = [op EXCEPT ![t] = o]
    /\ val' = [val EXCEPT ![t] = v]
    /\ head' = [head EXCEPT ![t] = 0]
    /\ tail' = [tail EXCEPT ![t] = 0]
    /\ UNCHANGED <<kind, queue_, head_, tail_, calls, out>>

Push(t) ==
    /\ t \in Producers[kind] /\ calls[t] < Pushes[kind]
    /\ Begin(t, "push", <<t, calls[t] + 1>>)

Pop(t) == t \in Consumers[kind] /\ Begin(t, "pop", NoData)

\* Mutex::Lock's wait: the ticket served is this thread's.
Lock(t) ==
    /\ pc[t] = "lock" /\ Head(lock_) = t
    /\ Goto(t, "load")
    /\ UNCHANGED <<kind, queue_, head_, tail_, lock_, locals, out>>

Unlock(t) ==
    /\ pc[t] = "unlock"
    /\ lock_' = Tail(lock_)
    /\ Goto(t, "idle")
    /\ UNCHANGED <<kind, queue_, head_, tail_, locals, out>>

-----------------------------------------------------------------------------
(* EmplaceFixed.                                                           *)

\* head_ is read before a position is taken, so it may be old at the check.
LoadHead(t) ==
    /\ At(t, "push", "load") /\ ~DynamicSize
    /\ head' = [head EXCEPT ![t] = head_]
    /\ Goto(t, "reserve")
    /\ UNCHANGED <<kind, queue_, head_, tail_, lock_, op, val, tail, calls, out>>

\* tail_.fetch_add: the position is this thread's, whether it has space or not.
Reserve(t) ==
    /\ At(t, "push", "reserve")
    /\ tail' = [tail EXCEPT ![t] = tail_]
    /\ tail_' = tail_ + 1
    /\ Goto(t, "space")
    /\ UNCHANGED <<kind, queue_, head_, lock_, op, val, head, calls, out>>

\* size >= queue.size(), for the head_ the thread knows.
NoRoom(t) == tail[t] - head[t] + 1 >= size_

HasSpace(t) ==
    /\ At(t, "push", "space") /\ ~NoRoom(t)
    /\ Goto(t, "write")
    /\ UNCHANGED <<kind, queue_, head_, tail_, lock_, locals, out>>

\* Mutant: the spin keeps the head_ it read first.
SpinOnOldHead(t) ==
    /\ At(t, "push", "space") /\ NoRoom(t) /\ WaitForSpace
    /\ UNCHANGED vars

\* The spin of WAIT_FOR_SPACE: head_ is read again.
Spin(t) ==
    /\ At(t, "push", "space") /\ NoRoom(t) /\ WaitForSpace
    /\ head[t] # head_
    /\ head' = [head EXCEPT ![t] = head_]
    /\ UNCHANGED <<kind, queue_, head_, tail_, lock_, pc, op, val, tail, calls, out>>

\* Push returns to its caller.
Return(t) == calls' = [calls EXCEPT ![t] = @ + 1]

\* ERROR_ON_NO_SPACE gives the position back; Push returns false.
Refuse(t) ==
    /\ At(t, "push", "space") /\ NoRoom(t) /\ ErrorOnNoSpace
    /\ tail_' = tail_ - 1
    /\ Goto(t, "idle") /\ Return(t)
    /\ UNCHANGED <<kind, queue_, head_, lock_, op, val, head, tail, out>>

Index(p) == p % size_

Write(t) ==
    /\ At(t, "push", "write")
    /\ data_' = [data_ EXCEPT ![Index(tail[t])] = val[t]]
    /\ Goto(t, "ready")
    /\ UNCHANGED <<kind, size_, ready_, head_, tail_, lock_, locals, out>>

\* SetReady ends EmplaceFixed; the growing ring has tail_ to advance yet.
SetReady(t) ==
    /\ At(t, "push", "ready")
    /\ ready_' = ready_ \union {Index(tail[t])}
    /\ IF DynamicSize THEN Goto(t, "advance") /\ UNCHANGED calls
                      ELSE Goto(t, "idle") /\ Return(t)
    /\ UNCHANGED <<kind, size_, data_, head_, tail_, lock_, op, val, head, tail, out>>

-----------------------------------------------------------------------------
(* EmplaceImpl of a growing ring, under the mutex.                         *)

NewSize(old) == IF old > 1 THEN (old - 1) * 2 + 1 ELSE 2

\* The positions with an entry to keep.
Live == head_..(tail_ - 1)

\* Mutant: the data keep the index they had.
GrownInPlace(new) ==
    [i \in 0..(new - 1) |-> IF i \in DOMAIN data_ THEN data_[i] ELSE NoData]

\* The live entries move to their index under the new size.
Grown(new) ==
    [i \in 0..(new - 1) |->
       IF \E p \in Live : p % new = i
       THEN data_[Index(CHOOSE p \in Live : p % new = i)] ELSE NoData]

GrownReady(new) == {p % new : p \in {p \in Live : Index(p) \in ready_}}

LoadGrow(t) ==
    /\ At(t, "push", "load") /\ DynamicSize
    /\ head' = [head EXCEPT ![t] = head_]
    /\ tail' = [tail EXCEPT ![t] = tail_]
    /\ IF tail_ - head_ + 1 >= size_
       THEN /\ size_' = NewSize(size_)
            /\ data_' = Grown(size_')
            /\ ready_' = GrownReady(size_')
       ELSE UNCHANGED queue_
    /\ Goto(t, "write")
    /\ UNCHANGED <<kind, head_, tail_, lock_, op, val, calls, out>>

Advance(t) ==
    /\ At(t, "push", "advance")
    /\ tail_' = tail[t] + 1
    /\ Goto(t, Leave(t)) /\ Return(t)
    /\ UNCHANGED <<kind, queue_, head_, lock_, op, val, head, tail, out>>

-----------------------------------------------------------------------------
(* PopUnlocked.                                                            *)

PopHead(t) ==
    /\ At(t, "pop", "load")
    /\ head' = [head EXCEPT ![t] = head_]
    /\ Goto(t, "tail")
    /\ UNCHANGED <<kind, queue_, head_, tail_, lock_, op, val, tail, calls, out>>

PopTail(t) ==
    /\ At(t, "pop", "tail")
    /\ Goto(t, IF head[t] >= tail_ THEN Leave(t) ELSE "claim")
    /\ UNCHANGED <<kind, queue_, head_, tail_, lock_, locals, out>>

\* Mutant: head_ is advanced with the claim, before the value is read.
ClaimAdvances(t) ==
    /\ At(t, "pop", "claim")
    /\ IF Index(head[t]) \in ready_
       THEN /\ ready_' = ready_ \ {Index(head[t])}
            /\ head_' = head[t] + 1
            /\ Goto(t, "take")
       ELSE Goto(t, Leave(t)) /\ UNCHANGED <<ready_, head_>>
    /\ UNCHANGED <<kind, size_, data_, tail_, lock_, locals, out>>

\* IsReadySystem and the compare-and-swap: the flag goes from set to clear.
Claim(t) ==
    /\ At(t, "pop", "claim")
    /\ IF Index(head[t]) \in ready_
       THEN /\ ready_' = ready_ \ {Index(head[t])}
            /\ Goto(t, "take")
       ELSE Goto(t, Leave(t)) /\ UNCHANGED ready_
    /\ UNCHANGED <<kind, size_, data_, head_, tail_, lock_, locals, out>>

\* The value is read and the entry's copy dropped.
Take(t) ==
    /\ At(t, "pop", "take")
    /\ out' = Append(out, data_[Index(head[t])])
    /\ data_' = [data_ EXCEPT ![Index(head[t])] = NoData]
    /\ Goto(t, "release")
    /\ UNCHANGED <<kind, size_, ready_, head_, tail_, lock_, locals>>

Release(t) ==
    /\ At(t, "pop", "release")
    /\ head_' = head[t] + 1
    /\ Goto(t, Leave(t))
    /\ UNCHANGED <<kind, queue_, tail_, lock_, locals, out>>

-----------------------------------------------------------------------------
Step(t) ==
    \/ Push(t) \/ Pop(t) \/ Lock(t) \/ Unlock(t)
    \/ LoadHead(t) \/ Reserve(t) \/ HasSpace(t) \/ Spin(t) \/ Refuse(t)
    \/ Write(t) \/ SetReady(t) \/ LoadGrow(t) \/ Advance(t)
    \/ PopHead(t) \/ PopTail(t) \/ Claim(t) \/ Take(t) \/ Release(t)

Next == \E t \in Threads : Step(t)

Spec == Init /\ [][Next]_vars

\* Every thread keeps running, and a consumer keeps polling.
FairSpec == Spec /\ \A t \in Threads : WF_vars(Step(t))

-----------------------------------------------------------------------------
(* Properties.                                                             *)

Writing(t, p) ==
    /\ op[t] = "push" /\ pc[t] \in {"space", "write", "ready"}
    /\ tail[t] = p

\* The value of a position: in its entry, or still with the thread that took it.
ValueAt(p) ==
    IF \E t \in Threads : Writing(t, p)
    THEN val[CHOOSE t \in Threads : Writing(t, p)]
    ELSE data_[Index(p)]

\* The positions that count as queued: a Pop has happened once the value is
\* read, and a Push that may still be refused has not happened.
Oldest == head_ + (IF \E t \in Threads : At(t, "pop", "release") THEN 1 ELSE 0)

Newest == tail_ - (IF ErrorOnNoSpace /\ \E t \in Threads : At(t, "push", "space")
                   THEN 1 ELSE 0)

Queued == [i \in 1..(Newest - Oldest) |-> ValueAt(Oldest + i - 1)]

F == INSTANCE Fifo WITH items <- Queued

\* With any of the four sets of flags the ring is a first-in first-out queue:
\* no value is lost, overwritten, delivered twice or out of the order in which
\* the positions were taken, through wrap-around, waiting producers, refusals
\* and growth (Emplace, Pop, Grow).
ImplementsFifo == F!Spec

\* The values whose Push has returned.
Returned == {v \in Values : v[2] <= calls[v[1]]}

\* What the park path of a worker relies on (Empty(), read without the mutex):
\* when head_ and tail_ are equal every value whose Push has returned has been
\* delivered.  (A ring that refuses has returned from pushes of no effect.)
EmptyMeansDrained ==
    head_ = tail_ /\ ~ErrorOnNoSpace => Returned \subseteq Range(out)

\* The calls of Push are bounded, and in the end each has returned, be it by
\* waiting for space or by growing the ring, and all that was queued has been
\* delivered.  For a thread that pushes on the ring it drains, this is what the
\* growing ring was introduced for.
PushesArrive ==
    <>[](/\ Queued = <<>>
         /\ \A t \in Threads : op[t] = "push" => pc[t] = "idle")
====
