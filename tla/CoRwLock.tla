------------------------------ MODULE CoRwLock ------------------------------
(***************************************************************************)
(* The reader-writer lock ctp::RwLock and the reentrant lock CoRwLock over  *)
(* it (clio_ctp/thread/lock/rwlock.h, clio_runtime/corwlock.h).  It guards  *)
(* the allocator map of the IpcManager, the tag and target tables of the    *)
(* CTE core and every unordered_map_ll.                                     *)
(*                                                                          *)
(* An action is one atomic operation of the code: a load, a fetch_add or a  *)
(* compare-exchange.  A spin is an action that waits for its condition.     *)
(* Threads nest their calls as scoped guards do: the lock taken last is     *)
(* released first.                                                          *)
(***************************************************************************)
EXTENDS Naturals, Sequences, FiniteSets

CONSTANTS
    Threads,
    None,
    kFairnessBatch,  \* calls granted in one phase before it has to drain
    WriterPriority,  \* readers wait for writers first (unordered_map_ll)
    NestedReads,     \* a thread that reads may call ReadLock again
    MaxNest,         \* bound: calls a thread is inside of
    MaxCalls,        \* bound: calls of each thread
    WriterRange      \* cur_writer_ is counted modulo this (2^32 in the code)

ASSUME LockAssumption ==
    /\ IsFiniteSet(Threads) /\ None \notin Threads
    /\ {kFairnessBatch, MaxNest} \subseteq Nat /\ MaxCalls \in [Threads -> Nat]
    /\ {WriterPriority, NestedReads} \subseteq BOOLEAN
    /\ WriterRange \in Nat \ {0}

VARIABLES
    mode_, readers_, writers_, cur_writer_, ticket_, ops_since_switch_,
    holder_tid_, write_depth_, read_depth_,
    pc,      \* where each thread is
    want,    \* the call it is in: "read" or "write"
    mode,    \* its local copy of mode_
    tkt,     \* its ticket
    held,    \* the locks it is inside of, innermost first
    calls    \* how many calls it made

lockVars == <<mode_, readers_, writers_, cur_writer_, ticket_,
              ops_since_switch_>>
coVars == <<holder_tid_, write_depth_, read_depth_>>
vars == <<lockVars, coVars, pc, want, mode, tkt, held, calls>>

Init ==
    /\ mode_ = "none" /\ readers_ = 0 /\ writers_ = 0
    /\ cur_writer_ = 0 /\ ticket_ = 0 /\ ops_since_switch_ = 0
    /\ holder_tid_ = None /\ write_depth_ = 0 /\ read_depth_ = 0
    /\ pc = [t \in Threads |-> "run"]
    /\ want = [t \in Threads |-> "read"]
    /\ mode = [t \in Threads |-> "none"]
    /\ tkt = [t \in Threads |-> 0]
    /\ held = [t \in Threads |-> <<>>]
    /\ calls = [t \in Threads |-> 0]

At(t, p) == pc[t] = p
Goto(t, p) == pc' = [pc EXCEPT ![t] = p]
Push(t, h) == held' = [held EXCEPT ![t] = <<h>> \o @]
Pop(t) == held' = [held EXCEPT ![t] = Tail(@)]

\* The locks of RwLock itself, as opposed to reentrant calls of CoRwLock.
Holds(t, h) == \E i \in DOMAIN held[t] : held[t][i] = h

-----------------------------------------------------------------------------
(* CoRwLock.                                                                *)

HeldByThisThread(t) == holder_tid_ = t

MayCall(t) == At(t, "run") /\ calls[t] < MaxCalls[t] /\ Len(held[t]) < MaxNest

\* Both calls begin with a load of mode_.
Enter(t, k) ==
    /\ want' = [want EXCEPT ![t] = k]
    /\ mode' = [mode EXCEPT ![t] = mode_]
    /\ Goto(t, "gate")
    /\ UNCHANGED <<held, coVars>>

ReadLock(t) ==
    /\ MayCall(t)
    /\ Holds(t, "read") => NestedReads
    /\ calls' = [calls EXCEPT ![t] = @ + 1]
    /\ \/ /\ HeldByThisThread(t)
          /\ read_depth_' = read_depth_ + 1
          /\ Push(t, "read_again")
          /\ UNCHANGED <<holder_tid_, write_depth_, pc, want, mode>>
       \/ /\ ~HeldByThisThread(t)
          /\ Enter(t, "read")
    /\ UNCHANGED <<lockVars, tkt>>

\* A reader must not ask for the write lock: it would wait for itself.
WriteLock(t) ==
    /\ MayCall(t) /\ ~Holds(t, "read")
    /\ calls' = [calls EXCEPT ![t] = @ + 1]
    /\ \/ /\ HeldByThisThread(t)
          /\ write_depth_' = write_depth_ + 1
          /\ Push(t, "write_again")
          /\ UNCHANGED <<holder_tid_, read_depth_, pc, want, mode>>
       \/ /\ ~HeldByThisThread(t)
          /\ Enter(t, "write")
    /\ UNCHANGED <<lockVars, tkt>>

\* WriteLock returned from the RwLock: remember the thread.
TakeHolder(t) ==
    /\ At(t, "holder")
    /\ holder_tid_' = t /\ write_depth_' = 1
    /\ Push(t, "write") /\ Goto(t, "run")
    /\ UNCHANGED <<lockVars, read_depth_, want, mode, tkt, calls>>

\* A reentrant reader leaves its depth, any other the RwLock.
ReadUnlock(t) ==
    /\ At(t, "run") /\ held[t] # <<>> /\ Head(held[t]) \in {"read", "read_again"}
    /\ Pop(t)
    /\ \/ /\ HeldByThisThread(t) /\ read_depth_ > 0
          /\ read_depth_' = read_depth_ - 1
          /\ UNCHANGED readers_
       \/ /\ ~(HeldByThisThread(t) /\ read_depth_ > 0)
          /\ readers_' = readers_ - 1
          /\ UNCHANGED read_depth_
    /\ UNCHANGED <<mode_, writers_, cur_writer_, ticket_, ops_since_switch_,
                   holder_tid_, write_depth_, pc, want, mode, tkt, calls>>

\* Mutant: an inner WriteUnlock releases the lock as well.
WriteUnlockAlways(t) ==
    /\ At(t, "run") /\ held[t] # <<>>
    /\ Head(held[t]) \in {"write", "write_again"}
    /\ Pop(t)
    /\ write_depth_' = write_depth_ - 1
    /\ holder_tid_' = None /\ Goto(t, "unlock")
    /\ UNCHANGED <<lockVars, read_depth_, want, mode, tkt, calls>>

\* The outermost WriteUnlock clears the holder and releases the lock.
WriteUnlock(t) ==
    /\ At(t, "run") /\ held[t] # <<>>
    /\ Head(held[t]) \in {"write", "write_again"}
    /\ Pop(t)
    /\ write_depth_' = write_depth_ - 1
    /\ IF write_depth_ = 1 /\ read_depth_ = 0
       THEN holder_tid_' = None /\ Goto(t, "unlock")
       ELSE UNCHANGED <<holder_tid_, pc>>
    /\ UNCHANGED <<lockVars, read_depth_, want, mode, tkt, calls>>

-----------------------------------------------------------------------------
(* RwLock: entering.                                                        *)

\* Batched fairness: a call that finds the other side waiting, and then its own
\* phase used up, lets the phase drain.  Looked at once.
FairnessGate(t) ==
    /\ At(t, "gate")
    /\ IF /\ mode[t] = want[t]
          /\ IF want[t] = "read" THEN writers_ > 0 ELSE readers_ > 0
       THEN Goto(t, "batch") ELSE Goto(t, "count")
    /\ UNCHANGED <<lockVars, coVars, want, mode, tkt, held, calls>>

LookAtBatch(t) ==
    /\ At(t, "batch")
    /\ Goto(t, IF ops_since_switch_ >= kFairnessBatch THEN "drain" ELSE "count")
    /\ UNCHANGED <<lockVars, coVars, want, mode, tkt, held, calls>>

PhaseDrained(t) ==
    /\ At(t, "drain")
    /\ IF want[t] = "read" THEN readers_ = 0 ELSE writers_ = 0
    /\ Goto(t, "count")
    /\ UNCHANGED <<lockVars, coVars, want, mode, tkt, held, calls>>

CountOp(t) ==
    /\ At(t, "count")
    /\ ops_since_switch_' = ops_since_switch_ + 1
    /\ Goto(t, IF want[t] = "read" THEN "defer" ELSE "register")
    /\ UNCHANGED <<mode_, readers_, writers_, cur_writer_, ticket_, coVars,
                   want, mode, tkt, held, calls>>

\* With writer_priority a reader waits for the writers before it registers.
DeferToWriters(t) ==
    /\ At(t, "defer")
    /\ WriterPriority => writers_ = 0
    /\ Goto(t, "register")
    /\ UNCHANGED <<lockVars, coVars, want, mode, tkt, held, calls>>

RegisterReader(t) ==
    /\ At(t, "register") /\ want[t] = "read"
    /\ readers_' = readers_ + 1
    /\ Goto(t, "load")
    /\ UNCHANGED <<mode_, writers_, cur_writer_, ticket_, ops_since_switch_,
                   coVars, want, mode, tkt, held, calls>>

RegisterWriter(t) ==
    /\ At(t, "register") /\ want[t] = "write"
    /\ writers_' = writers_ + 1
    /\ Goto(t, "ticket")
    /\ UNCHANGED <<mode_, readers_, cur_writer_, ticket_, ops_since_switch_,
                   coVars, want, mode, tkt, held, calls>>

\* Mutant: the ticket is read and advanced later, by the holder.
TakeTicketShared(t) ==
    /\ At(t, "ticket")
    /\ tkt' = [tkt EXCEPT ![t] = cur_writer_]
    /\ Goto(t, "load")
    /\ UNCHANGED <<lockVars, coVars, want, mode, held, calls>>

TakeTicket(t) ==
    /\ At(t, "ticket")
    /\ tkt' = [tkt EXCEPT ![t] = ticket_]
    /\ ticket_' = ticket_ + 1
    /\ Goto(t, "load")
    /\ UNCHANGED <<mode_, readers_, writers_, cur_writer_, ops_since_switch_,
                   coVars, want, mode, held, calls>>

-----------------------------------------------------------------------------
(* RwLock: waiting for the mode.                                            *)

\* What a caller does with the mode m that UpdateMode left it.
Seen(t, m) ==
    CASE m = want[t] -> IF want[t] = "read" THEN "enter" ELSE "turn"
      [] m = "none" -> "switch"
      [] OTHER -> "load"

\* UpdateMode: load mode_, look at the count of that side, and end the phase
\* if nobody is left in it.  Between the look and the exchange anyone may
\* register.
LoadMode(t) ==
    /\ At(t, "load")
    /\ mode' = [mode EXCEPT ![t] = mode_]
    /\ Goto(t, "look")
    /\ UNCHANGED <<lockVars, coVars, want, tkt, held, calls>>

LookAtCount(t) ==
    /\ At(t, "look")
    /\ IF \/ readers_ = 0 /\ mode[t] = "read"
          \/ writers_ = 0 /\ mode[t] = "write"
       THEN Goto(t, "end_phase") ELSE Goto(t, Seen(t, mode[t]))
    /\ UNCHANGED <<lockVars, coVars, want, mode, tkt, held, calls>>

\* A successful exchange leaves the local copy as it was, a failed one
\* reloads it.
EndPhase(t) ==
    /\ At(t, "end_phase")
    /\ IF mode_ = mode[t]
       THEN mode_' = "none" /\ Goto(t, "reset") /\ UNCHANGED mode
       ELSE /\ mode' = [mode EXCEPT ![t] = mode_]
            /\ Goto(t, Seen(t, mode_)) /\ UNCHANGED mode_
    /\ UNCHANGED <<readers_, writers_, cur_writer_, ticket_, ops_since_switch_,
                   coVars, want, tkt, held, calls>>

ResetBatch(t) ==
    /\ At(t, "reset")
    /\ ops_since_switch_' = 0
    /\ Goto(t, Seen(t, mode[t]))
    /\ UNCHANGED <<mode_, readers_, writers_, cur_writer_, ticket_, coVars,
                   want, mode, tkt, held, calls>>

\* compare_exchange(kNone -> the caller's mode): a reader that wins is in, a
\* writer reloads the mode and looks at whose turn it is.
SwitchMode(t) ==
    /\ At(t, "switch")
    /\ mode_' = IF mode_ = "none" THEN want[t] ELSE mode_
    /\ Goto(t, IF want[t] = "write" THEN "reload"
               ELSE IF mode_ = "none" THEN "enter" ELSE "load")
    /\ UNCHANGED <<readers_, writers_, cur_writer_, ticket_, ops_since_switch_,
                   coVars, want, mode, tkt, held, calls>>

ReloadMode(t) ==
    /\ At(t, "reload")
    /\ mode' = [mode EXCEPT ![t] = mode_]
    /\ Goto(t, IF mode_ = "write" THEN "turn" ELSE "load")
    /\ UNCHANGED <<lockVars, coVars, want, tkt, held, calls>>

\* ReadLock returns.
EnterRead(t) ==
    /\ At(t, "enter")
    /\ Push(t, "read") /\ Goto(t, "run")
    /\ UNCHANGED <<lockVars, coVars, want, mode, tkt, calls>>

\* Mutant: a writer that finds the write mode does not wait for its turn.
MyTurnUnchecked(t) ==
    /\ At(t, "turn")
    /\ Goto(t, "holder")
    /\ UNCHANGED <<lockVars, coVars, want, mode, tkt, held, calls>>

\* The 32-bit cur_writer_ is compared with the 64-bit ticket.
MyTurn(t) ==
    /\ At(t, "turn")
    /\ Goto(t, IF cur_writer_ = tkt[t] THEN "holder" ELSE "load")
    /\ UNCHANGED <<lockVars, coVars, want, mode, tkt, held, calls>>

-----------------------------------------------------------------------------
(* RwLock: leaving.                                                         *)

LeaveWriters(t) ==
    /\ At(t, "unlock")
    /\ writers_' = writers_ - 1
    /\ Goto(t, "next_writer")
    /\ UNCHANGED <<mode_, readers_, cur_writer_, ticket_, ops_since_switch_,
                   coVars, want, mode, tkt, held, calls>>

\* Mutant: the next writer is not let in.
NextWriterSkipped(t) ==
    /\ At(t, "next_writer")
    /\ Goto(t, "run")
    /\ UNCHANGED <<lockVars, coVars, want, mode, tkt, held, calls>>

NextWriter(t) ==
    /\ At(t, "next_writer")
    /\ cur_writer_' = (cur_writer_ + 1) % WriterRange
    /\ Goto(t, "run")
    /\ UNCHANGED <<mode_, readers_, writers_, ticket_, ops_since_switch_,
                   coVars, want, mode, tkt, held, calls>>

-----------------------------------------------------------------------------
Release(t) == ReadUnlock(t) \/ WriteUnlock(t)

Acquire(t) ==
    \/ FairnessGate(t) \/ LookAtBatch(t) \/ PhaseDrained(t)
    \/ CountOp(t) \/ DeferToWriters(t)
    \/ RegisterReader(t) \/ RegisterWriter(t) \/ TakeTicket(t)
    \/ LoadMode(t) \/ LookAtCount(t) \/ EndPhase(t) \/ ResetBatch(t)
    \/ SwitchMode(t) \/ ReloadMode(t) \/ EnterRead(t) \/ MyTurn(t)
    \/ TakeHolder(t)

Leave(t) == LeaveWriters(t) \/ NextWriter(t)

Next ==
    \E t \in Threads :
        ReadLock(t) \/ WriteLock(t) \/ Release(t) \/ Acquire(t) \/ Leave(t)

Spec == Init /\ [][Next]_vars

\* Threads are scheduled, and a thread that is inside the lock leaves it.
Fairness ==
    \A t \in Threads :
        WF_vars(Acquire(t)) /\ WF_vars(Leave(t)) /\ WF_vars(Release(t))

FairSpec == Spec /\ Fairness

-----------------------------------------------------------------------------
(* Properties.                                                              *)

Steps == {"run", "gate", "batch", "drain", "count", "defer", "register",
          "ticket", "load", "look", "end_phase", "reset", "switch", "reload",
          "enter", "turn", "holder", "unlock", "next_writer"}
Modes == {"none", "read", "write"}
Locks == {"read", "write", "read_again", "write_again"}

\* The types of the variables.
TypeOK ==
    /\ mode_ \in Modes
    /\ readers_ \in Nat /\ writers_ \in Nat
    /\ cur_writer_ \in 0..(WriterRange - 1)
    /\ ticket_ \in Nat /\ ops_since_switch_ \in Nat
    /\ holder_tid_ \in Threads \cup {None}
    /\ write_depth_ \in Nat /\ read_depth_ \in Nat
    /\ pc \in [Threads -> Steps]
    /\ want \in [Threads -> {"read", "write"}]
    /\ mode \in [Threads -> Modes]
    /\ tkt \in [Threads -> Nat]
    /\ held \in [Threads -> Seq(Locks)]
    /\ calls \in [Threads -> Nat]

\* Between the return of WriteLock and the release of the lock.
Writing(t) == Holds(t, "write") \/ At(t, "holder") \/ At(t, "unlock")
Reading(t) == Holds(t, "read")

\* Registered, and not yet past WriteUnlock: a ticket that is still due.
Ticketed(t) ==
    \/ Writing(t) \/ At(t, "next_writer")
    \/ want[t] = "write"
       /\ pc[t] \in {"load", "look", "end_phase", "reset", "switch", "reload",
                     "turn"}

\* Two threads never hold the write lock together, whatever the modes, the
\* reentrant calls and the wrap-around of cur_writer_.
WritersExclusive ==
    \A t, u \in Threads : Writing(t) /\ Writing(u) => t = u

\* Writers are served in the order of their tickets: nobody who waits came
\* before the one who writes.
WritersInOrder ==
    \A t, u \in Threads : Writing(t) /\ Ticketed(u) => tkt[t] <= tkt[u]

CountIn(s, H) == Cardinality({i \in DOMAIN s : s[i] \in H})

\* The reentrancy fast path is taken by the thread inside the write lock and
\* by nobody else, and the lock is given back with the outermost call: the
\* depths count exactly the calls that thread is inside of.
ReentrancyIsExact ==
    \A t \in Threads :
        /\ HeldByThisThread(t) <=> Holds(t, "write")
        /\ HeldByThisThread(t) =>
              /\ write_depth_ = CountIn(held[t], {"write", "write_again"})
              /\ read_depth_ = CountIn(held[t], {"read_again"})

\* Every call of ReadLock and WriteLock returns, through the fairness gate,
\* the ends of phases and lost exchanges, as long as cur_writer_ has not
\* wrapped around below the ticket the call was given.
CallsReturn ==
    \A t \in Threads :
        ~At(t, "run") ~> At(t, "run") \/ ticket_ > WriterRange

\* A writer and a reader are never inside the lock together: the write lock
\* drains the readers and keeps new ones out.  The code does not ensure this
\* (ReaderInside.cfg).
ReadersExcludeWriters ==
    \A t, u \in Threads : Writing(t) /\ Reading(u) => t = u

\* A call that waits for the readers to drain does not wait for its own.  With
\* NestedReads it may.
NoSelfDrain ==
    \A t \in Threads : At(t, "drain") => ~Reading(t)
=============================================================================
