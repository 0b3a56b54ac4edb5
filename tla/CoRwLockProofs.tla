--------------------------- MODULE CoRwLockProofs ---------------------------
(***************************************************************************)
(* Writer exclusion and ticket order of CoRwLock, for any set of threads,   *)
(* any nesting and any width of cur_writer_.                                *)
(*                                                                          *)
(* The tickets carry the argument, not the mode: tickets that are still due *)
(* are distinct and not below cur_writer_, and a thread from the moment its *)
(* turn came until it lets the next writer in holds the ticket that equals  *)
(* cur_writer_.  The reentrant calls enter through one fact: while a thread *)
(* is the holder, the two depths count the calls it is inside of, so only   *)
(* the outermost WriteUnlock reaches RwLock.                                *)
(***************************************************************************)
EXTENDS CoRwLock, Integers, FiniteSetTheorems, TLAPS

\* The threads between TakeTicket and the end of WriteUnlock.
Due == {"load", "look", "end_phase", "reset", "switch", "reload", "turn",
        "holder", "unlock", "next_writer"}
InTurn == {"holder", "unlock", "next_writer"}

HasTicket(t) == holder_tid_ = t \/ (want[t] = "write" /\ pc[t] \in Due)
HasTurn(t) == holder_tid_ = t \/ pc[t] \in InTurn

\* The part of the types the argument needs.
Types ==
    /\ cur_writer_ \in 0..(WriterRange - 1)
    /\ ticket_ \in Nat
    /\ pc \in [Threads -> Steps]
    /\ want \in [Threads -> {"read", "write"}]
    /\ tkt \in [Threads -> Nat]
    /\ held \in [Threads -> Seq(Locks)]

\* The calls the holder is inside of: one write lock, taken first, and
\* reentrant calls, counted by the depths.
HolderStack(s, wd, rd) ==
    /\ s \in Seq(Locks) /\ Len(s) > 0
    /\ s[Len(s)] = "write"
    /\ \A i \in 1..(Len(s) - 1) : s[i] \in {"read_again", "write_again"}
    /\ wd = CountIn(s, {"write", "write_again"})
    /\ rd = CountIn(s, {"read_again"})

\* Anybody else is inside of read locks only.
Inside(t) ==
    /\ holder_tid_ = t =>
          /\ pc[t] = "run" /\ want[t] = "write"
          /\ HolderStack(held[t], write_depth_, read_depth_)
    /\ holder_tid_ # t => \A i \in 1..Len(held[t]) : held[t][i] = "read"
    /\ want[t] = "write" /\ pc[t] # "run" => held[t] = <<>>
    /\ pc[t] \in {"ticket", "turn", "reload"} \cup InTurn => want[t] = "write"

\* With nobody inside the write lock the reentrant reads are all returned.
Nesting ==
    /\ \A t \in Threads : Inside(t)
    /\ holder_tid_ = None => read_depth_ = 0

\* Tickets still due are distinct and between cur_writer_ and ticket_.
Tickets ==
    /\ cur_writer_ <= ticket_
    /\ \A t \in Threads : HasTicket(t) =>
          cur_writer_ <= tkt[t] /\ tkt[t] < ticket_
    /\ \A t \in Threads : HasTurn(t) => tkt[t] = cur_writer_
    /\ \A t, u \in Threads :
          HasTicket(t) /\ HasTicket(u) /\ tkt[t] = tkt[u] => t = u

IInv == Types /\ Nesting /\ Tickets /\ holder_tid_ \in Threads \cup {None}

-----------------------------------------------------------------------------
(* Counting on a stack of calls.                                            *)

\* A count is a natural number.
LEMMA CountType ==
    ASSUME NEW s \in Seq(Locks), NEW H
    PROVE  /\ IsFiniteSet({i \in DOMAIN s : s[i] \in H})
           /\ CountIn(s, H) \in Nat
  <1>1. DOMAIN s = 1..Len(s) /\ Len(s) \in Nat OBVIOUS
  <1>2. IsFiniteSet(1..Len(s)) BY <1>1, FS_Interval
  <1>3. {i \in DOMAIN s : s[i] \in H} \in SUBSET (1..Len(s)) BY <1>1, Zenon
  <1>4. IsFiniteSet({i \in DOMAIN s : s[i] \in H}) BY <1>2, <1>3, FS_Subset, Zenon
  <1>. QED BY <1>4, FS_CardinalityType, Zenon DEF CountIn

\* A call on top of the stack counts by itself, the others as before.
LEMMA CountPush ==
    ASSUME NEW s \in Seq(Locks), NEW h \in Locks, NEW H
    PROVE  CountIn(<<h>> \o s, H) = CountIn(s, H) + (IF h \in H THEN 1 ELSE 0)
  <1>. DEFINE r == <<h>> \o s
              S == {i \in DOMAIN s : s[i] \in H}
              R == {i \in DOMAIN r : r[i] \in H}
              T == R \ {1}
              f == [i \in S |-> i + 1]
  <1>1. /\ r \in Seq(Locks) /\ Len(r) = Len(s) + 1
        /\ DOMAIN r = 1..(Len(s) + 1) /\ DOMAIN s = 1..Len(s)
        /\ Len(s) \in Nat
        /\ \A i \in 1..Len(r) : r[i] = IF i = 1 THEN h ELSE s[i - 1]
       OBVIOUS
  <1>2. IsFiniteSet(S) /\ IsFiniteSet(R) BY <1>1, CountType, Zenon
  <1>3. f \in [S -> T] BY <1>1
  <1>4. \A i, j \in S : f[i] = f[j] => i = j BY <1>1
  <1>5. \A k \in T : \E i \in S : f[i] = k
    <2>. SUFFICES ASSUME NEW k \in T PROVE \E i \in S : f[i] = k BY Zenon
    <2>1. k - 1 \in S BY <1>1
    <2>2. f[k - 1] = k BY <1>1, <2>1
    <2>. QED BY <2>1, <2>2, Zenon
  <1>6. f \in Bijection(S, T)
    <2>. HIDE DEF f, S, T
    <2>1. f \in Injection(S, T) BY <1>3, <1>4, Zenon DEF Injection, IsInjective
    <2>2. f \in Surjection(S, T) BY <1>3, <1>5, Zenon DEF Surjection
    <2>. QED BY <2>1, <2>2, Zenon DEF Bijection
  <1>7. Cardinality(T) = Cardinality(S)
       BY <1>2, <1>6, FS_Bijection, Zenon DEF ExistsBijection
  <1>8. Cardinality(T) = IF 1 \in R THEN Cardinality(R) - 1 ELSE Cardinality(R)
       BY <1>2, FS_RemoveElement, Zenon
  <1>9. 1 \in R <=> h \in H BY <1>1
  <1>10. Cardinality(R) \in Nat /\ Cardinality(S) \in Nat
       BY <1>2, FS_CardinalityType, Zenon
  <1>11. CountIn(s, H) = Cardinality(S) /\ CountIn(<<h>> \o s, H) = Cardinality(R)
       BY Zenon DEF CountIn
  <1>. HIDE DEF S, R, T
  <1>12. CASE h \in H
    <2>1. Cardinality(S) = Cardinality(R) - 1 BY <1>7, <1>8, <1>9, <1>12, Zenon
    <2>2. CountIn(<<h>> \o s, H) = CountIn(s, H) + 1 BY <2>1, <1>10, <1>11
    <2>. QED BY <2>2, <1>12, Zenon
  <1>13. CASE h \notin H
    <2>1. Cardinality(S) = Cardinality(R) BY <1>7, <1>8, <1>9, <1>13, Zenon
    <2>2. CountIn(<<h>> \o s, H) = CountIn(s, H) + 0 BY <2>1, <1>10, <1>11
    <2>. QED BY <2>2, <1>13, Zenon
  <1>. QED BY <1>12, <1>13, Zenon

\* The empty stack, and one that has something to count.
LEMMA CountBounds ==
    /\ \A H : CountIn(<<>>, H) = 0
    /\ \A s \in Seq(Locks) : \A H :
          (\E i \in 1..Len(s) : s[i] \in H) => CountIn(s, H) > 0
  <1>1. \A H : CountIn(<<>>, H) = 0
    <2>. SUFFICES ASSUME NEW H PROVE CountIn(<<>>, H) = 0 BY Zenon
    <2>1. {i \in DOMAIN <<>> : <<>>[i] \in H} = {} OBVIOUS
    <2>. QED BY <2>1, FS_EmptySet, Zenon DEF CountIn
  <1>2. ASSUME NEW s \in Seq(Locks), NEW H, NEW i \in 1..Len(s), s[i] \in H
        PROVE  CountIn(s, H) > 0
    <2>. DEFINE S == {j \in DOMAIN s : s[j] \in H}
    <2>1. IsFiniteSet(S) /\ Cardinality(S) \in Nat BY CountType, Zenon DEF CountIn
    <2>2. S # {} BY <1>2
    <2>3. Cardinality(S) # 0 BY <2>1, <2>2, FS_EmptySet, Zenon
    <2>. QED BY <2>1, <2>3 DEF CountIn
  <1>. QED BY <1>1, <1>2, Zenon

\* A reentrant call by the holder, and its return.
LEMMA StackPush ==
    ASSUME NEW s, NEW wd, NEW rd, HolderStack(s, wd, rd),
           NEW h \in {"read_again", "write_again"}
    PROVE  HolderStack(<<h>> \o s,
                       IF h = "write_again" THEN wd + 1 ELSE wd,
                       IF h = "read_again" THEN rd + 1 ELSE rd)
  <1>. DEFINE r == <<h>> \o s
  <1>1. h \in Locks /\ s \in Seq(Locks) BY Zenon DEF HolderStack, Locks
  <1>2. /\ r \in Seq(Locks) /\ Len(r) = Len(s) + 1 /\ Len(s) \in Nat
        /\ \A i \in 1..Len(r) : r[i] = IF i = 1 THEN h ELSE s[i - 1]
       BY <1>1
  <1>3. CountIn(r, {"write", "write_again"})
           = IF h = "write_again" THEN wd + 1 ELSE wd
    <2>1. CountIn(r, {"write", "write_again"})
             = wd + (IF h \in {"write", "write_again"} THEN 1 ELSE 0)
         BY <1>1, CountPush, Zenon DEF HolderStack
    <2>2. wd \in Nat BY <1>1, CountType, Zenon DEF HolderStack
    <2>. QED BY <2>1, <2>2
  <1>4. CountIn(r, {"read_again"}) = IF h = "read_again" THEN rd + 1 ELSE rd
    <2>1. CountIn(r, {"read_again"})
             = rd + (IF h \in {"read_again"} THEN 1 ELSE 0)
         BY <1>1, CountPush, Zenon DEF HolderStack
    <2>2. rd \in Nat BY <1>1, CountType, Zenon DEF HolderStack
    <2>. QED BY <2>1, <2>2
  <1>5. Len(s) > 0 /\ s[Len(s)] = "write" BY Zenon DEF HolderStack
  <1>6. r[Len(r)] = "write" BY <1>2, <1>5
  <1>7. \A i \in 1..(Len(r) - 1) : r[i] \in {"read_again", "write_again"}
       BY <1>2, <1>5 DEF HolderStack
  <1>. HIDE DEF r
  <1>8. HolderStack(r, IF h = "write_again" THEN wd + 1 ELSE wd,
                    IF h = "read_again" THEN rd + 1 ELSE rd)
       BY <1>2, <1>3, <1>4, <1>5, <1>6, <1>7 DEF HolderStack
  <1>. QED BY <1>8, Zenon DEF r

LEMMA StackPop ==
    ASSUME NEW s, NEW wd, NEW rd, HolderStack(s, wd, rd),
           Head(s) \in {"read_again", "write_again"}
    PROVE  /\ Head(s) = "write_again" =>
                wd > 1 /\ HolderStack(Tail(s), wd - 1, rd)
           /\ Head(s) = "read_again" =>
                rd > 0 /\ HolderStack(Tail(s), wd, rd - 1)
           /\ wd \in Nat /\ rd \in Nat
  <1>. DEFINE r == Tail(s)
              W == {"write", "write_again"}
              R == {"read_again"}
  <1>1. s \in Seq(Locks) /\ Len(s) > 0 /\ Len(s) \in Nat
       BY DEF HolderStack
  <1>2. s # <<>> BY <1>1
  <1>3. s[1] = Head(s) /\ Len(s) > 1 BY <1>1 DEF HolderStack
  <1>4. /\ r \in Seq(Locks) /\ Len(r) = Len(s) - 1
        /\ \A i \in 1..Len(r) : r[i] = s[i + 1]
       BY <1>1, <1>2
  <1>5. s = <<Head(s)>> \o r /\ Head(s) \in Locks BY <1>1, <1>2
  <1>6. r[Len(r)] = "write" BY <1>1, <1>3, <1>4 DEF HolderStack
  <1>7. \A i \in 1..(Len(r) - 1) : r[i] \in {"read_again", "write_again"}
       BY <1>1, <1>4 DEF HolderStack
  <1>10. Len(r) > 0 /\ Len(r) \in Nat BY <1>1, <1>3, <1>4
  <1>. HIDE DEF r
  <1>8. /\ CountIn(r, W) \in Nat /\ CountIn(r, R) \in Nat /\ CountIn(r, W) > 0
    <2>1. CountIn(r, W) \in Nat /\ CountIn(r, R) \in Nat BY <1>4, CountType, Zenon
    <2>2. Len(r) \in 1..Len(r) /\ r[Len(r)] \in W BY <1>6, <1>10
    <2>. HIDE DEF W
    <2>3. CountIn(r, W) > 0 BY <1>4, <2>2, CountBounds, Zenon
    <2>. QED BY <2>1, <2>3, Zenon
  <1>9. /\ wd = CountIn(r, W) + (IF Head(s) \in W THEN 1 ELSE 0)
        /\ rd = CountIn(r, R) + (IF Head(s) \in R THEN 1 ELSE 0)
    <2>1. wd = CountIn(s, W) /\ rd = CountIn(s, R) BY Zenon DEF HolderStack
    <2>. HIDE DEF W, R
    <2>2. /\ CountIn(<<Head(s)>> \o r, W)
               = CountIn(r, W) + (IF Head(s) \in W THEN 1 ELSE 0)
          /\ CountIn(<<Head(s)>> \o r, R)
               = CountIn(r, R) + (IF Head(s) \in R THEN 1 ELSE 0)
         BY <1>4, <1>5, CountPush, Zenon
    <2>. QED BY <1>5, <2>1, <2>2, Zenon
  <1>11. CASE Head(s) = "write_again"
    <2>1. wd = CountIn(r, W) + 1 /\ rd = CountIn(r, R) BY <1>8, <1>9, <1>11
    <2>2. HolderStack(r, wd - 1, rd)
         BY <1>4, <1>6, <1>7, <1>8, <1>10, <2>1 DEF HolderStack
    <2>. QED BY <1>8, <1>11, <2>1, <2>2 DEF r
  <1>12. CASE Head(s) = "read_again"
    <2>1. wd = CountIn(r, W) /\ rd = CountIn(r, R) + 1 BY <1>8, <1>9, <1>12
    <2>2. HolderStack(r, wd, rd - 1)
         BY <1>4, <1>6, <1>7, <1>8, <1>10, <2>1 DEF HolderStack
    <2>. QED BY <1>8, <1>12, <2>1, <2>2 DEF r
  <1>. QED BY <1>11, <1>12, Zenon

\* The write lock itself: the first call in and the last one out.
LEMMA StackOne ==
    /\ HolderStack(<<"write">>, 1, 0)
    /\ \A s, wd, rd : HolderStack(s, wd, rd) =>
          /\ Head(s) \in {"write", "read_again", "write_again"}
          /\ Head(s) = "write" => Tail(s) = <<>> /\ wd = 1 /\ rd = 0
  <1>1. /\ CountIn(<<"write">>, {"write", "write_again"}) = 1
        /\ CountIn(<<"write">>, {"read_again"}) = 0
    <2>1. <<"write">> = <<"write">> \o <<>> /\ <<>> \in Seq(Locks)
          /\ "write" \in Locks
         BY DEF Locks
    <2>2. \A H : CountIn(<<"write">> \o <<>>, H)
                    = CountIn(<<>>, H) + (IF "write" \in H THEN 1 ELSE 0)
         BY <2>1, CountPush, Zenon
    <2>3. \A H : CountIn(<<"write">>, H) = 0 + (IF "write" \in H THEN 1 ELSE 0)
         BY <2>1, <2>2, CountBounds, Zenon
    <2>. QED BY <2>3
  <1>2. HolderStack(<<"write">>, 1, 0) BY <1>1 DEF HolderStack, Locks
  <1>3. ASSUME NEW s, NEW wd, NEW rd, HolderStack(s, wd, rd)
        PROVE  /\ Head(s) \in {"write", "read_again", "write_again"}
               /\ Head(s) = "write" => Tail(s) = <<>> /\ wd = 1 /\ rd = 0
    <2>1. s \in Seq(Locks) /\ Len(s) > 0 /\ Len(s) \in Nat /\ s[1] = Head(s)
         BY <1>3 DEF HolderStack
    <2>0. \A i \in 1..(Len(s) - 1) : s[i] \in {"read_again", "write_again"}
         BY <1>3, Zenon DEF HolderStack
    <2>2. Head(s) \in {"write", "read_again", "write_again"}
         BY <1>3, <2>1 DEF HolderStack
    <2>3. ASSUME Head(s) = "write" PROVE Tail(s) = <<>> /\ wd = 1 /\ rd = 0
      <3>0. s[1] = "write" /\ "write" \notin {"read_again", "write_again"}
           BY <2>1, <2>3, Zenon
      <3>1. Len(s) = 1
        <4>1. ~(1 \in 1..(Len(s) - 1)) BY <2>0, <3>0, Zenon
        <4>2. \A n \in Nat : n > 0 /\ ~(1 \in 1..(n - 1)) => n = 1 OBVIOUS
        <4>3. Len(s) \in Nat /\ Len(s) > 0 BY <2>1, Zenon
        <4>. QED BY <4>1, <4>2, <4>3, Zenon
      <3>2. s = <<"write">>
        <4>1. s[1] = "write" BY <2>1, <2>3, Zenon
        <4>. QED BY <2>1, <3>1, <4>1
      <3>3. Tail(s) = <<>> BY <3>2
      <3>. QED BY <1>1, <1>3, <3>2, <3>3, Zenon DEF HolderStack
    <2>. QED BY <2>2, <2>3, Zenon
  <1>. QED BY <1>2, <1>3, Zenon

-----------------------------------------------------------------------------
(* The invariant.                                                           *)

\* cur_writer_ moves on by one, or back to 0.
LEMMA NextTurn ==
    ASSUME NEW c \in 0..(WriterRange - 1)
    PROVE  /\ (c + 1) % WriterRange \in 0..(WriterRange - 1)
           /\ (c + 1) % WriterRange \in {0, c + 1}
  <1>0. WriterRange \in Nat /\ WriterRange > 0 BY LockAssumption
  <1>1. CASE c + 1 = WriterRange
    <2>1. (c + 1) % WriterRange = 0 BY <1>0, <1>1
    <2>. QED BY <1>0, <2>1
  <1>2. CASE c + 1 < WriterRange
    <2>1. (c + 1) % WriterRange = c + 1 BY <1>0, <1>2
    <2>. QED BY <1>0, <1>2, <2>1
  <1>. QED BY <1>0, <1>1, <1>2

\* The invariant holds at the start.
LEMMA InitIInv == Init => IInv
  <1>. SUFFICES ASSUME Init PROVE IInv BY Zenon
  <1>. USE DEF Init
  <1>1. Types BY LockAssumption DEF Types, Steps, Locks
  <1>2. Nesting BY LockAssumption DEF Nesting, Inside, InTurn
  <1>3. Tickets BY LockAssumption DEF Tickets, HasTicket, HasTurn, Due, InTurn
  <1>. QED BY <1>1, <1>2, <1>3, Zenon DEF IInv

\* A step inside a call that only moves the thread on: it takes no ticket,
\* gets no turn and returns nothing.
LEMMA MoveStep ==
    ASSUME IInv, NEW t \in Threads, NEW p \in Steps \ InTurn,
           pc' = [pc EXCEPT ![t] = p],
           UNCHANGED <<cur_writer_, ticket_, coVars, want, tkt, held>>,
           pc[t] \notin InTurn \cup {"run"}, p # "run",
           p \in {"ticket", "turn", "reload"} => want[t] = "write",
           want[t] = "write" /\ p \in Due => pc[t] \in Due
    PROVE  IInv'
  <1>. USE DEF IInv, coVars
  <1>1. Types' BY Zenon DEF Types
  <1>2. Nesting'
    <2>. SUFFICES ASSUME NEW u \in Threads PROVE Inside(u)' BY Zenon DEF Nesting
    <2>1. pc[t] # "run" /\ pc'[t] = p /\ (u # t => pc'[u] = pc[u])
         BY Zenon DEF Types
    <2>. QED BY <2>1 DEF Nesting, Inside
  <1>3. Tickets'
    <2>1. \A u \in Threads : HasTicket(u)' => HasTicket(u)
         BY Zenon DEF HasTicket, Types
    <2>2. \A u \in Threads : HasTurn(u)' => HasTurn(u)
         BY Zenon DEF HasTurn, Types
    <2>. QED BY <2>1, <2>2, Zenon DEF Tickets
  <1>. QED BY <1>1, <1>2, <1>3, Zenon

\* Threads other than the one that steps keep what they are inside of, as
\* long as they are the holder after the step if they were before it.
LEMMA OthersInside ==
    ASSUME IInv, NEW t \in Threads, NEW u \in Threads, u # t,
           pc'[u] = pc[u], want'[u] = want[u], held'[u] = held[u],
           holder_tid_' = u <=> holder_tid_ = u,
           holder_tid_ = u => UNCHANGED <<write_depth_, read_depth_>>
    PROVE  Inside(u)'
  BY DEF IInv, Nesting, Inside

\* Nobody gets a ticket or a turn: the tickets stay as they are.
LEMMA SameTickets ==
    ASSUME IInv, UNCHANGED <<cur_writer_, ticket_, tkt>>,
           \A u \in Threads : HasTicket(u)' => HasTicket(u),
           \A u \in Threads : HasTurn(u)' => HasTurn(u)
    PROVE  Tickets'
  BY Zenon DEF IInv, Tickets

\* A call begins: a reentrant one is counted, another one enters RwLock.
LEMMA CallStep ==
    ASSUME IInv, NEW t \in Threads, ReadLock(t) \/ WriteLock(t)
    PROVE  IInv'
  <1>. USE DEF IInv
  <1>0. /\ pc[t] = "run" /\ held[t] \in Seq(Locks)
        /\ cur_writer_' = cur_writer_ /\ ticket_' = ticket_ /\ tkt' = tkt
        /\ holder_tid_' = holder_tid_
       BY Zenon DEF ReadLock, WriteLock, MayCall, At, Enter, lockVars, coVars, Types
  <1>1. CASE HeldByThisThread(t)
    <2>0. HolderStack(held[t], write_depth_, read_depth_) /\ holder_tid_ = t
         BY <1>1, Zenon DEF Nesting, Inside, HeldByThisThread
    <2>1. PICK h \in {"read_again", "write_again"} :
             /\ held' = [held EXCEPT ![t] = <<h>> \o @]
             /\ HolderStack(<<h>> \o held[t], write_depth_', read_depth_')
             /\ pc' = pc /\ want' = want
      <3>1. CASE ReadLock(t)
        BY <1>1, <2>0, <3>1, StackPush DEF ReadLock, Push
      <3>2. CASE WriteLock(t)
        BY <1>1, <2>0, <3>2, StackPush DEF WriteLock, Push
      <3>. QED BY <3>1, <3>2, Zenon
    <2>2. Types' BY <1>0, <2>1 DEF Types, Locks
    <2>3. Nesting'
      <3>1. holder_tid_' # None BY <1>0, <2>0, LockAssumption, Zenon
      <3>2. ASSUME NEW u \in Threads PROVE Inside(u)'
        <4>1. CASE u = t
          <5>1. held'[t] = <<h>> \o held[t] BY <2>1, Zenon DEF Types
          <5>. QED BY <1>0, <2>0, <2>1, <4>1, <5>1 DEF Nesting, Inside, InTurn
        <4>2. CASE u # t
          BY <1>0, <2>0, <2>1, <4>2, OthersInside, Zenon DEF Types
        <4>. QED BY <4>1, <4>2, Zenon
      <3>. QED BY <3>1, <3>2, Zenon DEF Nesting
    <2>4. Tickets'
      BY <1>0, <2>1, SameTickets, Zenon DEF HasTicket, HasTurn
    <2>. QED BY <1>0, <2>2, <2>3, <2>4, Zenon
  <1>2. CASE ~HeldByThisThread(t)
    <2>1. PICK k \in {"read", "write"} :
             /\ want' = [want EXCEPT ![t] = k]
             /\ pc' = [pc EXCEPT ![t] = "gate"]
             /\ held' = held /\ UNCHANGED coVars
             /\ k = "write" => ~Holds(t, "read")
         BY <1>2, Zenon DEF ReadLock, WriteLock, Enter, Goto
    <2>2. Types' BY <1>0, <2>1, Zenon DEF Types, Steps, coVars
    <2>3. k = "write" => held[t] = <<>>
         BY <1>0, <1>2, <2>1
         DEF Nesting, Inside, HeldByThisThread, Holds
    <2>4. Nesting'
      <3>. SUFFICES ASSUME NEW u \in Threads PROVE Inside(u)'
           BY <2>1, Zenon DEF Nesting, coVars
      <3>1. CASE u = t
        BY <1>2, <2>1, <2>3, <3>1
        DEF Nesting, Inside, HeldByThisThread, InTurn, coVars, Types
      <3>2. CASE u # t
        BY <1>0, <2>1, <3>2, OthersInside, Zenon DEF coVars, Types
      <3>. QED BY <3>1, <3>2, Zenon
    <2>5. Tickets'
      BY <1>0, <2>1, SameTickets, Zenon DEF HasTicket, HasTurn, Types, Due, InTurn
    <2>. QED BY <1>0, <2>2, <2>4, <2>5, Zenon
  <1>. QED BY <1>1, <1>2, Zenon

\* ReadLock returns to a thread that is inside of read locks only.
LEMMA EnterReadStep ==
    ASSUME IInv, NEW t \in Threads, EnterRead(t)
    PROVE  IInv'
  <1>. USE DEF IInv
  <1>0. /\ pc[t] = "enter" /\ held[t] \in Seq(Locks) /\ "read" \in Locks
        /\ cur_writer_' = cur_writer_ /\ ticket_' = ticket_ /\ tkt' = tkt
        /\ UNCHANGED <<holder_tid_, write_depth_, read_depth_>> /\ want' = want
        /\ pc' = [pc EXCEPT ![t] = "run"]
        /\ held' = [held EXCEPT ![t] = <<"read">> \o @]
       BY Zenon DEF EnterRead, At, Push, Goto, lockVars, coVars, Types, Locks
  <1>1. Types' BY <1>0 DEF Types, Steps
  <1>2. holder_tid_ # t /\ \A i \in 1..Len(held[t]) : held[t][i] = "read"
       BY <1>0, Zenon DEF Nesting, Inside
  <1>3. Nesting'
    <2>. SUFFICES ASSUME NEW u \in Threads PROVE Inside(u)'
         BY <1>0, Zenon DEF Nesting
    <2>1. CASE u = t
      <3>1. /\ held'[t] = <<"read">> \o held[t] /\ pc'[t] = "run"
            /\ Len(held[t]) \in Nat
           BY <1>0 DEF Types
      <3>2. \A i \in 1..Len(held'[t]) : held'[t][i] = "read"
           BY <1>0, <1>2, <3>1
      <3>. QED BY <1>0, <1>2, <2>1, <3>1, <3>2, Zenon DEF Inside, InTurn
    <2>2. CASE u # t BY <1>0, <2>2, OthersInside, Zenon DEF Types
    <2>. QED BY <2>1, <2>2, Zenon
  <1>4. Tickets'
       BY <1>0, SameTickets, Zenon DEF HasTicket, HasTurn, Types, Due, InTurn
  <1>. QED BY <1>0, <1>1, <1>3, <1>4, Zenon

\* Inside of read locks only, the one on top is a read lock.
LEMMA PopRead ==
    ASSUME NEW s \in Seq(Locks), s # <<>>,
           \A i \in 1..Len(s) : s[i] = "read"
    PROVE  /\ Head(s) = "read" /\ Tail(s) \in Seq(Locks)
           /\ \A i \in 1..Len(Tail(s)) : Tail(s)[i] = "read"
  <1>1. Len(s) \in Nat /\ Len(s) > 0 /\ Head(s) = s[1] OBVIOUS
  <1>2. /\ Tail(s) \in Seq(Locks) /\ Len(Tail(s)) = Len(s) - 1
        /\ \A i \in 1..Len(Tail(s)) : Tail(s)[i] = s[i + 1]
       BY <1>1
  <1>. QED BY <1>1, <1>2

\* ReadUnlock: a reentrant read is counted back, another one leaves RwLock.
LEMMA ReadUnlockStep ==
    ASSUME IInv, NEW t \in Threads, ReadUnlock(t)
    PROVE  IInv'
  <1>. USE DEF IInv
  <1>0. /\ pc[t] = "run" /\ held[t] \in Seq(Locks) /\ held[t] # <<>>
        /\ Head(held[t]) \in {"read", "read_again"}
        /\ cur_writer_' = cur_writer_ /\ ticket_' = ticket_ /\ tkt' = tkt
        /\ UNCHANGED <<holder_tid_, write_depth_, pc, want>>
        /\ held' = [held EXCEPT ![t] = Tail(@)]
        /\ held'[t] = Tail(held[t])
       BY Zenon DEF ReadUnlock, At, Pop, Types
  <1>1. Types'
    <2>1. Tail(held[t]) \in Seq(Locks) BY <1>0
    <2>. QED BY <1>0, <2>1, Zenon DEF Types
  <1>2. Inside(t)' /\ (holder_tid_ # t => read_depth_' = read_depth_)
    <2>1. CASE holder_tid_ = t
      <3>1. HolderStack(held[t], write_depth_, read_depth_)
           BY <2>1, Zenon DEF Nesting, Inside
      <3>2. Head(held[t]) = "read_again" BY <1>0, <3>1, StackOne, Zenon
      <3>3. /\ read_depth_ > 0
            /\ HolderStack(Tail(held[t]), write_depth_, read_depth_ - 1)
           BY <3>1, <3>2, StackPop, Zenon
      <3>4. read_depth_' = read_depth_ - 1
           BY <2>1, <3>3, Zenon DEF ReadUnlock, HeldByThisThread
      <3>. QED BY <1>0, <2>1, <3>3, <3>4, Zenon DEF Nesting, Inside, InTurn
    <2>2. CASE holder_tid_ # t
      <3>1. \A i \in 1..Len(held[t]) : held[t][i] = "read"
           BY <2>2, Zenon DEF Nesting, Inside
      <3>2. \A i \in 1..Len(held'[t]) : held'[t][i] = "read"
           BY <1>0, <3>1, PopRead, Zenon
      <3>3. read_depth_' = read_depth_
           BY <2>2, Zenon DEF ReadUnlock, HeldByThisThread
      <3>. QED BY <1>0, <2>2, <3>2, <3>3, Zenon DEF Nesting, Inside, InTurn
    <2>. QED BY <2>1, <2>2, Zenon
  <1>3. Nesting'
    <2>1. ASSUME NEW u \in Threads, u # t PROVE Inside(u)'
         BY <1>0, <1>2, <2>1, OthersInside, Zenon DEF Types
    <2>2. (holder_tid_ = None => read_depth_ = 0)'
         BY <1>0, <1>2, LockAssumption, Zenon DEF Nesting
    <2>. QED BY <1>2, <2>1, <2>2, Zenon DEF Nesting
  <1>4. Tickets' BY <1>0, SameTickets, Zenon DEF HasTicket, HasTurn
  <1>. QED BY <1>0, <1>1, <1>3, <1>4, Zenon

\* At most one thread has its turn.
LEMMA OneTurn ==
    ASSUME IInv, NEW t \in Threads, NEW u \in Threads, HasTurn(t)
    PROVE  HasTicket(t) /\ (HasTurn(u) => u = t)
  <1>1. \A v \in Threads : HasTurn(v) => HasTicket(v)
       BY Zenon DEF IInv, Nesting, Inside, HasTurn, HasTicket, InTurn, Due
  <1>. QED BY <1>1, Zenon DEF IInv, Tickets

\* WriteLock returns: nobody was the holder.
LEMMA TakeHolderStep ==
    ASSUME IInv, NEW t \in Threads, TakeHolder(t)
    PROVE  IInv'
  <1>. USE DEF IInv
  <1>0. /\ pc[t] = "holder" /\ want[t] = "write" /\ held[t] = <<>>
        /\ cur_writer_' = cur_writer_ /\ ticket_' = ticket_ /\ tkt' = tkt
        /\ UNCHANGED <<read_depth_, want>>
        /\ holder_tid_' = t /\ write_depth_' = 1
        /\ pc' = [pc EXCEPT ![t] = "run"]
        /\ held' = [held EXCEPT ![t] = <<"write">> \o @]
       BY Zenon DEF TakeHolder, At, Push, Goto, lockVars, Nesting, Inside, InTurn
  <1>1. held'[t] = <<"write">> /\ pc'[t] = "run"
    <2>1. held'[t] = <<"write">> \o <<>> BY <1>0, Zenon DEF Types
    <2>. QED BY <1>0, <2>1 DEF Types
  <1>2. Types'
    <2>1. <<"write">> \in Seq(Locks) BY DEF Locks
    <2>2. held' = [held EXCEPT ![t] = <<"write">>] BY <1>0, <1>1, Zenon DEF Types
    <2>. QED BY <1>0, <2>1, <2>2, Zenon DEF Types, Steps
  <1>3. HasTurn(t) BY <1>0, Zenon DEF HasTurn, InTurn
  <1>4. holder_tid_ = None
    <2>1. \A u \in Threads : holder_tid_ = u => u = t
         BY <1>3, OneTurn, Zenon DEF HasTurn
    <2>2. holder_tid_ # t BY <1>0, Zenon DEF Nesting, Inside
    <2>. QED BY <2>1, <2>2, Zenon
  <1>5. read_depth_ = 0 BY <1>4, Zenon DEF Nesting
  <1>6. Nesting'
    <2>1. Inside(t)' BY <1>0, <1>1, <1>5, StackOne, Zenon DEF Inside, InTurn
    <2>2. ASSUME NEW u \in Threads, u # t PROVE Inside(u)'
         BY <1>0, <1>4, <2>2, OthersInside, LockAssumption, Zenon DEF Types
    <2>. QED BY <1>0, <1>5, <2>1, <2>2, Zenon DEF Nesting
  <1>7. Tickets'
    <2>1. HasTicket(t) BY <1>3, OneTurn, Zenon
    <2>2. \A u \in Threads : HasTicket(u)' => HasTicket(u)
         BY <1>0, <1>1, <2>1, Zenon DEF HasTicket, Types
    <2>3. \A u \in Threads : HasTurn(u)' => HasTurn(u)
         BY <1>0, <1>1, <1>3, Zenon DEF HasTurn, Types
    <2>. QED BY <1>0, <2>2, <2>3, SameTickets, Zenon
  <1>. QED BY <1>0, <1>2, <1>6, <1>7, Zenon

\* WriteUnlock: only the outermost call reaches RwLock.
LEMMA WriteUnlockStep ==
    ASSUME IInv, NEW t \in Threads, WriteUnlock(t)
    PROVE  IInv'
  <1>. USE DEF IInv
  <1>0. /\ pc[t] = "run" /\ held[t] \in Seq(Locks) /\ held[t] # <<>>
        /\ Head(held[t]) \in {"write", "write_again"}
        /\ cur_writer_' = cur_writer_ /\ ticket_' = ticket_ /\ tkt' = tkt
        /\ UNCHANGED <<read_depth_, want>>
        /\ write_depth_' = write_depth_ - 1
        /\ held' = [held EXCEPT ![t] = Tail(@)]
        /\ held'[t] = Tail(held[t])
       BY Zenon DEF WriteUnlock, At, Pop, lockVars, Types
  <1>1. holder_tid_ = t
    <2>1. CASE \A i \in 1..Len(held[t]) : held[t][i] = "read"
         BY <1>0, <2>1, PopRead, Zenon
    <2>. QED BY <2>1, Zenon DEF Nesting, Inside
  <1>2. HolderStack(held[t], write_depth_, read_depth_) /\ want[t] = "write"
       BY <1>1, Zenon DEF Nesting, Inside
  <1>3. HasTurn(t) /\ HasTicket(t) BY <1>1, Zenon DEF HasTurn, HasTicket
  <1>4. Tail(held[t]) \in Seq(Locks) BY <1>0
  <1>5. CASE Head(held[t]) = "write_again"
    <2>1. /\ write_depth_ > 1 /\ write_depth_ \in Nat
          /\ HolderStack(Tail(held[t]), write_depth_ - 1, read_depth_)
         BY <1>2, <1>5, StackPop, Zenon
    <2>2. UNCHANGED <<holder_tid_, pc>> BY <2>1 DEF WriteUnlock
    <2>3. Types' BY <1>0, <1>4, <2>2, Zenon DEF Types
    <2>4. Inside(t)' BY <1>0, <1>1, <1>2, <2>1, <2>2, Zenon DEF Inside, InTurn
    <2>5. ASSUME NEW u \in Threads, u # t PROVE Inside(u)'
         BY <1>0, <1>1, <2>2, <2>5, OthersInside, Zenon DEF Types
    <2>6. Nesting' BY <1>0, <2>2, <2>4, <2>5, Zenon DEF Nesting
    <2>7. Tickets' BY <1>0, <2>2, SameTickets, Zenon DEF HasTicket, HasTurn
    <2>. QED BY <2>2, <2>3, <2>6, <2>7, Zenon
  <1>6. CASE Head(held[t]) = "write"
    <2>1. Tail(held[t]) = <<>> /\ write_depth_ = 1 /\ read_depth_ = 0
         BY <1>2, <1>6, StackOne
    <2>2. holder_tid_' = None /\ pc' = [pc EXCEPT ![t] = "unlock"]
         BY <2>1, Zenon DEF WriteUnlock, Goto
    <2>3. pc'[t] = "unlock" /\ \A u \in Threads : u # t => pc'[u] = pc[u]
         BY <2>2, Zenon DEF Types
    <2>4. Types' BY <1>0, <1>4, <2>2, Zenon DEF Types, Steps
    <2>5. Inside(t)'
      <3>0. held'[t] = <<>> BY <1>0, <2>1, Zenon
      <3>1. Len(held'[t]) = 0 BY <3>0
      <3>2. holder_tid_' # t /\ want'[t] = "write"
           BY <1>0, <1>2, <2>2, LockAssumption, Zenon
      <3>. QED BY <3>0, <3>1, <3>2 DEF Inside
    <2>6. ASSUME NEW u \in Threads, u # t PROVE Inside(u)'
         BY <1>0, <1>1, <2>2, <2>6, OthersInside, LockAssumption, Zenon DEF Types
    <2>7. Nesting' BY <1>0, <2>1, <2>5, <2>6, Zenon DEF Nesting
    <2>8. \A u \in Threads : HasTicket(u)' => HasTicket(u)
         BY <1>0, <1>3, <2>2, <2>3, LockAssumption, Zenon DEF HasTicket
    <2>9. \A u \in Threads : HasTurn(u)' => HasTurn(u)
         BY <1>0, <1>3, <2>2, <2>3, LockAssumption, Zenon DEF HasTurn
    <2>10. Tickets' BY <1>0, <2>8, <2>9, SameTickets, Zenon
    <2>. QED BY <2>2, <2>4, <2>7, <2>10, Zenon
  <1>. QED BY <1>0, <1>5, <1>6, Zenon

\* The ticket is new: all others are below it.
LEMMA TakeTicketStep ==
    ASSUME IInv, NEW t \in Threads, TakeTicket(t)
    PROVE  IInv'
  <1>. USE DEF IInv
  <1>0. /\ pc[t] = "ticket" /\ holder_tid_ # t /\ want[t] = "write"
        /\ UNCHANGED <<cur_writer_, want, held>>
        /\ UNCHANGED <<holder_tid_, write_depth_, read_depth_>>
        /\ ticket_' = ticket_ + 1 /\ tkt' = [tkt EXCEPT ![t] = ticket_]
        /\ pc' = [pc EXCEPT ![t] = "load"]
       BY Zenon DEF TakeTicket, At, Goto, coVars, Nesting, Inside
  <1>1. Types' BY <1>0 DEF Types, Steps
  <1>2. pc'[t] = "load" /\ tkt'[t] = ticket_
       BY <1>0, Zenon DEF Types
  <1>3. \A u \in Threads : u # t => pc'[u] = pc[u] /\ tkt'[u] = tkt[u]
       BY <1>0, Zenon DEF Types
  <1>4. Nesting'
    <2>1. Inside(t)' BY <1>0, <1>2, Zenon DEF Nesting, Inside, InTurn
    <2>2. ASSUME NEW u \in Threads, u # t PROVE Inside(u)'
         BY <1>0, <1>3, <2>2, OthersInside, Zenon
    <2>. QED BY <1>0, <2>1, <2>2, Zenon DEF Nesting
  <1>5. \A u \in Threads : u # t /\ HasTicket(u)' => HasTicket(u)
       BY <1>0, <1>3, Zenon DEF HasTicket
  <1>6. \A u \in Threads : HasTurn(u)' => u # t /\ HasTurn(u)
       BY <1>0, <1>2, <1>3, Zenon DEF HasTurn, InTurn
  <1>7. ticket_ \in Nat /\ cur_writer_ \in Nat /\ tkt \in [Threads -> Nat]
       BY LockAssumption DEF Types
  <1>8. Tickets' BY <1>0, <1>2, <1>3, <1>5, <1>6, <1>7 DEF Tickets
  <1>. QED BY <1>0, <1>1, <1>4, <1>8, Zenon

\* A writer whose ticket is up is in, another one starts over.
LEMMA MyTurnStep ==
    ASSUME IInv, NEW t \in Threads, MyTurn(t)
    PROVE  IInv'
  <1>. USE DEF IInv
  <1>0. /\ pc[t] = "turn" /\ holder_tid_ # t /\ want[t] = "write"
        /\ UNCHANGED <<cur_writer_, ticket_, tkt, want, held>>
        /\ UNCHANGED <<holder_tid_, write_depth_, read_depth_>>
       BY Zenon DEF MyTurn, At, lockVars, coVars, Nesting, Inside
  <1>1. CASE cur_writer_ = tkt[t]
    <2>1. pc' = [pc EXCEPT ![t] = "holder"] BY <1>1, Zenon DEF MyTurn, Goto
    <2>2. Types' BY <1>0, <2>1, Zenon DEF Types, Steps
    <2>3. pc'[t] = "holder" /\ \A u \in Threads : u # t => pc'[u] = pc[u]
         BY <2>1, Zenon DEF Types
    <2>4. Inside(t)' BY <1>0, <2>3, Zenon DEF Nesting, Inside
    <2>5. ASSUME NEW u \in Threads, u # t PROVE Inside(u)'
         BY <1>0, <2>3, <2>5, OthersInside, Zenon
    <2>6. Nesting' BY <1>0, <2>4, <2>5, Zenon DEF Nesting
    <2>7. \A u \in Threads : HasTicket(u)' => HasTicket(u)
         BY <1>0, <2>3, Zenon DEF HasTicket, Due
    <2>8. \A u \in Threads : u # t /\ HasTurn(u)' => HasTurn(u)
         BY <1>0, <2>3, Zenon DEF HasTurn
    <2>9. Tickets' BY <1>0, <1>1, <2>7, <2>8, Zenon DEF Tickets
    <2>. QED BY <1>0, <2>2, <2>6, <2>9, Zenon
  <1>2. CASE cur_writer_ # tkt[t]
    <2>1. pc' = [pc EXCEPT ![t] = "load"] BY <1>2, Zenon DEF MyTurn, Goto
    <2>. QED BY <1>0, <2>1, MoveStep, Zenon DEF Steps, InTurn, Due, coVars
  <1>. QED BY <1>1, <1>2, Zenon

\* WriteUnlock of RwLock keeps the turn until it lets the next writer in.
LEMMA LeaveStep ==
    ASSUME IInv, NEW t \in Threads, LeaveWriters(t) \/ NextWriter(t)
    PROVE  IInv'
  <1>. USE DEF IInv
  <1>0. /\ pc[t] \in {"unlock", "next_writer"} /\ holder_tid_ # t
        /\ want[t] = "write" /\ held[t] = <<>>
        /\ UNCHANGED <<ticket_, tkt, want, held>>
        /\ UNCHANGED <<holder_tid_, write_depth_, read_depth_>>
       BY Zenon DEF LeaveWriters, NextWriter, At, coVars, Nesting, Inside, InTurn
  <1>1. PICK p \in {"next_writer", "run"} : pc' = [pc EXCEPT ![t] = p]
       BY Zenon DEF LeaveWriters, NextWriter, Goto
  <1>2. pc'[t] = p /\ \A u \in Threads : u # t => pc'[u] = pc[u]
       BY <1>1, Zenon DEF Types
  <1>3. Nesting'
    <2>1. Inside(t)' BY <1>0, <1>2, Zenon DEF Nesting, Inside
    <2>2. ASSUME NEW u \in Threads, u # t PROVE Inside(u)'
         BY <1>0, <1>2, <2>2, OthersInside, Zenon
    <2>. QED BY <1>0, <2>1, <2>2, Zenon DEF Nesting
  <1>4. HasTurn(t) BY <1>0, Zenon DEF HasTurn, InTurn
  <1>5. HasTicket(t) /\ \A u \in Threads : HasTurn(u) => u = t
       BY <1>4, OneTurn, Zenon
  <1>6. CASE LeaveWriters(t)
    <2>1. cur_writer_' = cur_writer_ BY <1>6, Zenon DEF LeaveWriters
    <2>2. Types' BY <1>0, <1>1, <2>1, Zenon DEF Types, Steps
    <2>3. \A u \in Threads : HasTicket(u)' => HasTicket(u)
         BY <1>0, <1>2, <1>5, Zenon DEF HasTicket
    <2>4. \A u \in Threads : HasTurn(u)' => HasTurn(u)
         BY <1>0, <1>2, <1>4, Zenon DEF HasTurn
    <2>5. Tickets' BY <1>0, <2>1, <2>3, <2>4, SameTickets, Zenon
    <2>. QED BY <1>0, <1>3, <2>2, <2>5, Zenon
  <1>7. CASE NextWriter(t)
    <2>1. /\ cur_writer_' \in 0..(WriterRange - 1)
          /\ cur_writer_' \in {0, cur_writer_ + 1}
         BY <1>7, NextTurn, Zenon DEF NextWriter, Types
    <2>2. Types' BY <1>0, <1>1, <2>1, Zenon DEF Types, Steps
    <2>3. pc'[t] = "run" BY <1>7, Zenon DEF NextWriter, Goto, Types
    <2>4. \A u \in Threads : HasTicket(u)' => u # t /\ HasTicket(u)
         BY <1>0, <1>2, <2>3, Zenon DEF HasTicket, Due
    <2>5. \A u \in Threads : ~HasTurn(u)'
         BY <1>0, <1>2, <1>5, <2>3, Zenon DEF HasTurn, InTurn
    <2>6. /\ tkt[t] = cur_writer_ /\ cur_writer_ \in Nat /\ ticket_ \in Nat
          /\ tkt \in [Threads -> Nat] /\ tkt[t] < ticket_
         BY <1>4, <1>5, LockAssumption DEF Types, Tickets
    <2>7. \A u \in Threads : HasTicket(u)' => cur_writer_ + 1 <= tkt[u]
         BY <1>5, <2>4, <2>6 DEF Tickets
    <2>8. cur_writer_' <= cur_writer_ + 1 /\ cur_writer_' \in Nat
         BY <2>1, <2>6
    <2>9. Tickets' BY <1>0, <2>4, <2>5, <2>6, <2>7, <2>8 DEF Tickets
    <2>. QED BY <1>0, <1>3, <2>2, <2>9, Zenon
  <1>. QED BY <1>6, <1>7, Zenon

\* Every step of Acquire that is not one of the above moves the thread on.
LEMMA MoveSteps ==
    ASSUME IInv, NEW t \in Threads,
           \/ FairnessGate(t) \/ LookAtBatch(t) \/ PhaseDrained(t) \/ CountOp(t)
           \/ DeferToWriters(t) \/ RegisterReader(t) \/ RegisterWriter(t)
           \/ LoadMode(t) \/ LookAtCount(t) \/ EndPhase(t) \/ ResetBatch(t)
           \/ SwitchMode(t) \/ ReloadMode(t)
    PROVE  IInv'
  <1>. USE DEF At, Goto, lockVars, coVars, InTurn, Due, Steps
  <1>0. /\ want[t] \in {"read", "write"}
        /\ pc[t] = "reload" => want[t] = "write"
       BY Zenon DEF IInv, Types, Nesting, Inside
  <1>s. \A m : /\ Seen(t, m) \in {"enter", "turn", "switch", "load"}
               /\ Seen(t, m) = "turn" => want[t] = "write"
       BY <1>0, Zenon DEF Seen
  <1>1. CASE FairnessGate(t)
    <2>1. PICK p \in {"batch", "count"} : pc' = [pc EXCEPT ![t] = p]
         BY <1>1, Zenon DEF FairnessGate
    <2>. QED BY <1>1, <2>1, MoveStep, Zenon DEF FairnessGate
  <1>1a. CASE LookAtBatch(t)
    <2>1. PICK p \in {"drain", "count"} : pc' = [pc EXCEPT ![t] = p]
         BY <1>1a, Zenon DEF LookAtBatch
    <2>. QED BY <1>1a, <2>1, MoveStep, Zenon DEF LookAtBatch
  <1>2. CASE PhaseDrained(t) BY <1>2, MoveStep, Zenon DEF PhaseDrained
  <1>3. CASE CountOp(t)
    <2>1. PICK p \in {"defer", "register"} : pc' = [pc EXCEPT ![t] = p]
         BY <1>3, Zenon DEF CountOp
    <2>. QED BY <1>3, <2>1, MoveStep, Zenon DEF CountOp
  <1>4. CASE DeferToWriters(t) BY <1>4, MoveStep, Zenon DEF DeferToWriters
  <1>5. CASE RegisterReader(t) BY <1>5, MoveStep, Zenon DEF RegisterReader
  <1>6. CASE RegisterWriter(t) BY <1>6, MoveStep, Zenon DEF RegisterWriter
  <1>7. CASE LoadMode(t) BY <1>7, MoveStep, Zenon DEF LoadMode
  <1>8. CASE LookAtCount(t)
    <2>1. PICK p \in {"end_phase", "enter", "turn", "switch", "load"} :
             pc' = [pc EXCEPT ![t] = p] /\ (p = "turn" => want[t] = "write")
         BY <1>8, <1>s, Zenon DEF LookAtCount
    <2>. QED BY <1>8, <2>1, MoveStep, Zenon DEF LookAtCount
  <1>9. CASE EndPhase(t)
    <2>1. PICK p \in {"reset", "enter", "turn", "switch", "load"} :
             pc' = [pc EXCEPT ![t] = p] /\ (p = "turn" => want[t] = "write")
         BY <1>9, <1>s, Zenon DEF EndPhase
    <2>. QED BY <1>9, <2>1, MoveStep, Zenon DEF EndPhase
  <1>10. CASE ResetBatch(t)
    <2>1. PICK p \in {"enter", "turn", "switch", "load"} :
             pc' = [pc EXCEPT ![t] = p] /\ (p = "turn" => want[t] = "write")
         BY <1>10, <1>s, Zenon DEF ResetBatch
    <2>. QED BY <1>10, <2>1, MoveStep, Zenon DEF ResetBatch
  <1>11. CASE SwitchMode(t)
    <2>1. PICK p \in {"reload", "enter", "load"} :
             pc' = [pc EXCEPT ![t] = p] /\ (p = "reload" => want[t] = "write")
         BY <1>11, Zenon DEF SwitchMode
    <2>. QED BY <1>11, <2>1, MoveStep, Zenon DEF SwitchMode
  <1>12. CASE ReloadMode(t)
    <2>1. PICK p \in {"turn", "load"} : pc' = [pc EXCEPT ![t] = p]
         BY <1>12, Zenon DEF ReloadMode
    <2>. QED BY <1>0, <1>12, <2>1, MoveStep, Zenon DEF ReloadMode
  <1>. QED BY <1>1, <1>1a, <1>2, <1>3, <1>4, <1>5, <1>6, <1>7, <1>8, <1>9, <1>10, <1>11, <1>12, Zenon

\* Every step keeps the invariant.
LEMMA NextIInv == IInv /\ [Next]_vars => IInv'
  <1>. SUFFICES ASSUME IInv, [Next]_vars PROVE IInv' BY Zenon
  <1>1. CASE UNCHANGED vars
    BY <1>1, ZenonT(30) DEF vars, lockVars, coVars, IInv, Types, Nesting, Inside, Tickets,
                HasTicket, HasTurn
  <1>2. CASE Next
    <2>1. PICK t \in Threads : ReadLock(t) \/ WriteLock(t) \/ Release(t)
                                 \/ Acquire(t) \/ Leave(t)
         BY <1>2, Zenon DEF Next
    <2>2. CASE ReadLock(t) \/ WriteLock(t) BY <2>2, CallStep, Zenon
    <2>3. CASE Release(t) BY <2>3, ReadUnlockStep, WriteUnlockStep, Zenon DEF Release
    <2>4. CASE Acquire(t)
      BY <2>4, MoveSteps, TakeTicketStep, EnterReadStep, MyTurnStep,
         TakeHolderStep, Zenon DEF Acquire
    <2>5. CASE Leave(t) BY <2>5, LeaveStep, Zenon DEF Leave
    <2>. QED BY <2>1, <2>2, <2>3, <2>4, <2>5, Zenon
  <1>. QED BY <1>1, <1>2, Zenon

\* Only the holder is inside the write lock.
LEMMA HoldsWrite ==
    ASSUME IInv, NEW t \in Threads
    PROVE  holder_tid_ = t <=> Holds(t, "write")
  <1>0. held[t] \in Seq(Locks) /\ DOMAIN held[t] = 1..Len(held[t])
       BY DEF IInv, Types
  <1>1. CASE holder_tid_ = t
    <2>1. /\ Len(held[t]) > 0 /\ Len(held[t]) \in Nat
          /\ held[t][Len(held[t])] = "write"
         BY <1>0, <1>1 DEF IInv, Nesting, Inside, HolderStack
    <2>. QED BY <1>0, <1>1, <2>1 DEF Holds
  <1>2. CASE holder_tid_ # t
    <2>1. \A i \in 1..Len(held[t]) : held[t][i] = "read"
         BY <1>2, Zenon DEF IInv, Nesting, Inside
    <2>. QED BY <1>0, <1>2, <2>1, Zenon DEF Holds
  <1>. QED BY <1>1, <1>2, Zenon

\* Two threads are never inside the write lock together: RwLock serves its
\* writers one at a time for any number of threads, any nesting of calls and
\* any width of cur_writer_, whatever happens to the modes.
THEOREM WriteLockIsExclusive == Spec => []WritersExclusive
  <1>1. IInv => WritersExclusive
    <2>. SUFFICES ASSUME IInv, NEW t \in Threads, NEW u \in Threads,
                         Writing(t), Writing(u)
                  PROVE  t = u
         BY Zenon DEF WritersExclusive
    <2>1. HasTurn(t) /\ HasTurn(u)
         BY HoldsWrite, Zenon DEF Writing, HasTurn, InTurn, At
    <2>. QED BY <2>1, OneTurn, Zenon
  <1>. QED BY <1>1, InitIInv, NextIInv, PTL DEF Spec

\* Writers enter in the order in which they took their tickets.
THEOREM WritersServedInOrder == Spec => []WritersInOrder
  <1>1. IInv => WritersInOrder
    <2>. SUFFICES ASSUME IInv, NEW t \in Threads, NEW u \in Threads,
                         Writing(t), Ticketed(u)
                  PROVE  tkt[t] <= tkt[u]
         BY Zenon DEF WritersInOrder
    <2>1. HasTurn(t) BY HoldsWrite, Zenon DEF Writing, HasTurn, InTurn, At
    <2>2. CASE Writing(u) \/ At(u, "next_writer")
      <3>1. HasTurn(u) BY <2>2, HoldsWrite, Zenon DEF Writing, HasTurn, InTurn, At
      <3>2. t = u BY <2>1, <3>1, OneTurn, Zenon
      <3>. QED BY <3>2 DEF IInv, Types
    <2>3. CASE ~(Writing(u) \/ At(u, "next_writer"))
      <3>1. HasTicket(u) BY <2>3, Zenon DEF Ticketed, HasTicket, Due
      <3>. QED BY <2>1, <3>1, Zenon DEF IInv, Tickets
    <2>. QED BY <2>2, <2>3, Zenon
  <1>. QED BY <1>1, InitIInv, NextIInv, PTL DEF Spec

\* The holder CoRwLock remembers is the thread inside the write lock, and its
\* depths count that thread's calls: the fast path is neither taken by
\* another thread nor left early.
THEOREM ReentrancyIsCounted == Spec => []ReentrancyIsExact
  <1>1. IInv => ReentrancyIsExact
    <2>. SUFFICES ASSUME IInv, NEW t \in Threads
                  PROVE  /\ HeldByThisThread(t) <=> Holds(t, "write")
                         /\ HeldByThisThread(t) =>
                               /\ write_depth_ = CountIn(held[t],
                                                   {"write", "write_again"})
                               /\ read_depth_ = CountIn(held[t], {"read_again"})
         BY Zenon DEF ReentrancyIsExact
    <2>1. HeldByThisThread(t) <=> Holds(t, "write")
         BY HoldsWrite, Zenon DEF HeldByThisThread
    <2>2. HeldByThisThread(t) => HolderStack(held[t], write_depth_, read_depth_)
         BY Zenon DEF IInv, Nesting, Inside, HeldByThisThread
    <2>. QED BY <2>1, <2>2, Zenon DEF HolderStack
  <1>. QED BY <1>1, InitIInv, NextIInv, PTL DEF Spec
=============================================================================
