---- MODULE RingBufferProofs ----
(***************************************************************************)
(* Proofs about RingBuffer, for any threads, depths and numbers of pushes: *)
(* whatever the flags, the ring implements Fifo, and its Empty() means     *)
(* that every value whose Push has returned has been delivered.            *)
(***************************************************************************)
EXTENDS RingBuffer, TLAPS

-----------------------------------------------------------------------------
(* The inductive invariant.                                                *)

Labels == {"idle", "lock", "load", "reserve", "space", "write", "ready",
           "advance", "tail", "claim", "take", "release", "unlock"}

\* The ring's entries, and the calls in progress.
Ring == size_ \in Nat \ {0, 1} /\ data_ \in [0..(size_ - 1) -> Values \union {NoData}]

Locals ==
    /\ pc \in [Threads -> Labels]
    /\ op \in [Threads -> {"push", "pop"}]
    /\ val \in [Threads -> Values \union {NoData}]
    /\ head \in [Threads -> Nat]
    /\ tail \in [Threads -> Nat]
    /\ calls \in [Threads -> Nat]

Types ==
    /\ Ring /\ Locals
    /\ kind \in Kinds
    /\ head_ \in Nat /\ tail_ \in Nat
    /\ lock_ \in Seq(Threads)
    /\ out \in Seq(Values)

Pushing(t) == op[t] = "push" /\ pc[t] # "idle"

\* Past the mutex, when there is one.
Inside(t) == pc[t] \notin {"idle", "lock"}

Ticketed(t) == Locked(op[t]) /\ pc[t] # "idle"

\* The steps of a call and who makes it.
Role(t) ==
    /\ pc[t] \in {"reserve", "space", "write", "ready", "advance"} => op[t] = "push"
    /\ pc[t] \in {"tail", "claim", "take", "release"} => op[t] = "pop"
    /\ pc[t] \in {"lock", "unlock"} => Locked(op[t])
    /\ pc[t] \in {"reserve", "space"} => ~DynamicSize
    /\ pc[t] = "advance" => DynamicSize
    /\ Pushing(t) => t \in Producers[kind]
    /\ op[t] = "pop" /\ pc[t] # "idle" => t \in Consumers[kind]

Roles == \A t \in Threads : Role(t)

\* The mutex: a ticket each, and only the first ticket is inside.
Mutex ==
    /\ \A i, j \in 1..Len(lock_) : lock_[i] = lock_[j] => i = j
    /\ \A i \in 1..Len(lock_) : Ticketed(lock_[i])
    /\ \A t \in Threads : Ticketed(t) => \E i \in 1..Len(lock_) : lock_[i] = t
    /\ \A t \in Threads : Ticketed(t) /\ Inside(t) => lock_[1] = t

\* The position a thread holds, against head_ and tail_.
Place(t) ==
    /\ pc[t] \in {"tail", "claim", "take", "release"} => head[t] = head_
    /\ pc[t] \in {"reserve", "space"} => head[t] <= head_
    /\ pc[t] \in {"space", "write", "ready"} /\ ~DynamicSize =>
          head_ <= tail[t] /\ tail[t] < tail_
    /\ pc[t] \in {"space", "write", "ready"} /\ ErrorOnNoSpace => tail[t] = tail_ - 1
    /\ pc[t] \in {"write", "ready", "advance"} /\ DynamicSize => tail[t] = tail_
    /\ pc[t] \in {"write", "ready", "advance"} => tail[t] - head_ + 1 < size_
    /\ pc[t] \in {"take", "release"} =>
          head_ < tail_ /\ \A u \in Threads : ~Writing(u, head_)

Positions ==
    /\ head_ <= tail_
    /\ \A t \in Threads : Place(t)
    /\ \A t, u \in Threads : \A p \in Nat : Writing(t, p) /\ Writing(u, p) => t = u

Claimed == \E t \in Threads : pc[t] \in {"take", "release"}

Taken == \E t \in Threads : pc[t] = "release"

\* A position whose entry has been written and published.
Full(p) == p \in head_..(tail_ - 1) /\ \A t \in Threads : ~Writing(t, p)

\* A position whose value a Pop may take.
Ripe(p) ==
    \/ Full(p) /\ ~(p = head_ /\ Claimed)
    \/ p = tail_ /\ \E t \in Threads : pc[t] = "advance"

\* The flags of the ring's entries say which positions are ripe.
Flags ==
    /\ \A p \in Nat : Full(p) => p - head_ + 1 < size_
    /\ ready_ \subseteq 0..(size_ - 1)
    /\ \A p \in head_..(head_ + size_ - 1) : Index(p) \in ready_ <=> Ripe(p)

\* A position whose entry holds a value to deliver.
Holds(p) == Full(p) /\ ~(p = head_ /\ Taken)

\* The value of a call of Push, and the entry it has written.
Valued(t) ==
    Pushing(t) /\ pc[t] # "unlock" => val[t] = <<t, calls[t] + 1>> /\ val[t] \in Values

Written(t) == pc[t] \in {"ready", "advance"} => data_[Index(tail[t])] = val[t]

\* Where the values are.
Data ==
    /\ \A t \in Threads : Valued(t) /\ Written(t)
    /\ \A p \in Nat : Holds(p) => data_[Index(p)] \in Returned
    /\ \A i \in 1..Len(out) : out[i] \in Returned

\* A value whose Push has returned has been delivered or sits in an entry.
Accounted ==
    ~ErrorOnNoSpace =>
       \A v \in Returned :
          \/ \E i \in 1..Len(out) : out[i] = v
          \/ \E p \in Nat : Holds(p) /\ data_[Index(p)] = v

IInv == Types /\ Roles /\ Mutex /\ Positions /\ Flags /\ Data /\ Accounted

-----------------------------------------------------------------------------
(* Arithmetic of positions and indices.                                    *)

\* A product with a larger factor is larger by the other factor at least.
LEMMA NextMultiple ==
    ASSUME NEW n \in Nat \ {0}, NEW a \in Int, NEW b \in Int, a < b
    PROVE  n * b >= (n * a) + n
  OBVIOUS

\* The index of a position is in the ring (tail % queue.size()).
LEMMA IndexInRing ==
    ASSUME NEW n \in Nat \ {0}, NEW p \in Nat
    PROVE  /\ p % n \in 0..(n - 1)
           /\ p \div n \in Nat
           /\ p = (n * (p \div n)) + (p % n)
  OBVIOUS

\* Positions less than a ring apart have different indices.
LEMMA IndexDiffers ==
    ASSUME NEW n \in Nat \ {0}, NEW p \in Nat, NEW q \in Nat, p < q, q - p < n
    PROVE  p % n # q % n
  <1> DEFINE a == p \div n
             b == q \div n
  <1>1. /\ a \in Nat /\ p = (n * a) + (p % n) /\ p % n \in 0..(n - 1)
        /\ b \in Nat /\ q = (n * b) + (q % n) /\ q % n \in 0..(n - 1)
    BY IndexInRing, Zenon
  <1> SUFFICES ASSUME p % n = q % n PROVE FALSE
    BY Zenon
  <1> HIDE DEF a, b
  <1>2. a < b => n * b >= (n * a) + n
    BY <1>1, NextMultiple
  <1>3. b < a => n * a >= (n * b) + n
    BY <1>1, NextMultiple
  <1>4. n * a \in Int /\ n * b \in Int
    BY <1>1
  <1> QED
    BY <1>1, <1>2, <1>3, <1>4

\* The same for two positions in either order.
LEMMA IndexInjective ==
    ASSUME NEW n \in Nat \ {0}, NEW h \in Nat,
           NEW p \in h..(h + n - 1), NEW q \in h..(h + n - 1), p # q
    PROVE  p % n # q % n
  <1>1. /\ p \in Nat /\ q \in Nat
        /\ p < q \/ q < p
        /\ q - p < n /\ p - q < n
    OBVIOUS
  <1>2. p < q => p % n # q % n
    BY <1>1, IndexDiffers, Zenon
  <1>3. q < p => q % n # p % n
    BY <1>1, IndexDiffers, Zenon
  <1> QED
    BY <1>1, <1>2, <1>3, Zenon

\* The position one ring further has the same index.
LEMMA IndexWraps ==
    ASSUME NEW n \in Nat \ {0}, NEW p \in Nat
    PROVE  (p + n) % n = p % n
  <1> DEFINE a == p \div n
             b == (p + n) \div n
  <1>1. /\ a \in Nat /\ p = (n * a) + (p % n) /\ p % n \in 0..(n - 1)
        /\ b \in Nat /\ p + n = (n * b) + ((p + n) % n)
        /\ (p + n) % n \in 0..(n - 1)
    <2>1. p + n \in Nat
      OBVIOUS
    <2> QED
      BY <2>1, IndexInRing, Zenon
  <1> HIDE DEF a, b
  <1>2. n * (a + 1) = (n * a) + n
    BY <1>1
  <1>3. a + 1 < b => n * b >= (n * (a + 1)) + n
    BY <1>1, NextMultiple
  <1>4. b < a + 1 => n * (a + 1) >= (n * b) + n
    BY <1>1, NextMultiple
  <1>5. n * a \in Int /\ n * b \in Int
    BY <1>1
  <1>6. b = a + 1
    BY <1>1, <1>2, <1>3, <1>4, <1>5
  <1> QED
    BY <1>1, <1>2, <1>5, <1>6

\* The index of a position is one of the ring's.
LEMMA IndexOf ==
    ASSUME Ring, NEW p \in Nat
    PROVE  Index(p) \in 0..(size_ - 1)
  BY IndexInRing, Zenon DEF Index, Ring

-----------------------------------------------------------------------------
(* Who excludes whom.                                                      *)

\* One Pop is past the mutex at a time: the mutex sees to it, or the alias.
LEMMA OnePopper ==
    ASSUME Types, Roles, Mutex, NEW t \in Threads, NEW u \in Threads,
           op[t] = "pop", Inside(t), op[u] = "pop", Inside(u)
    PROVE  t = u
  <1>1. CASE Locked("pop")
    BY <1>1, Zenon DEF Mutex, Ticketed, Inside
  <1>2. CASE ~Locked("pop")
    <2>1. t \in Consumers[kind] /\ u \in Consumers[kind]
      BY Zenon DEF Roles, Role, Inside
    <2>2. kind \in Kinds \intersect {"spsc", "mpsc"}
      BY <1>2, RingAssumption, Zenon DEF Locked, Types
    <2> QED
      BY <2>1, <2>2, RingAssumption, Zenon
  <1> QED
    BY <1>1, <1>2, Zenon

\* On a growing ring one call is past the mutex at a time.
LEMMA OneInside ==
    ASSUME Types, Roles, Mutex, DynamicSize, NEW t \in Threads, NEW u \in Threads,
           Inside(t), Inside(u)
    PROVE  t = u
  BY Zenon DEF Mutex, Ticketed, Inside, Locked, DynamicSize

\* A ring that refuses has one producer.
LEMMA OnePusher ==
    ASSUME Types, Roles, ErrorOnNoSpace, NEW t \in Threads, NEW u \in Threads,
           Pushing(t), Pushing(u)
    PROVE  t = u
  <1>1. t \in Producers[kind] /\ u \in Producers[kind]
    BY Zenon DEF Roles, Role
  <1>2. kind \in Kinds \intersect {"spsc"}
    BY Zenon DEF ErrorOnNoSpace, Types
  <1> QED
    BY <1>1, <1>2, RingAssumption, Zenon

-----------------------------------------------------------------------------
(* What a step leaves alone.                                               *)

\* The calls of the other threads, and the flags of the ring.
Others(t) ==
    /\ kind' = kind
    /\ \A u \in Threads \ {t} :
          /\ pc'[u] = pc[u] /\ op'[u] = op[u] /\ val'[u] = val[u]
          /\ head'[u] = head[u] /\ tail'[u] = tail[u] /\ calls'[u] = calls[u]

\* The steps of a call keep to its kind.
LEMMA RolesKept ==
    ASSUME Roles, NEW t \in Threads, Others(t), Role(t)'
    PROVE  Roles'
  <1>1. ASSUME NEW u \in Threads \ {t} PROVE Role(u)'
    BY Zenon DEF Roles, Role, Pushing, Others, Locked, DynamicSize
  <1> QED
    BY <1>1, Zenon DEF Roles

\* A step that gives out no ticket and takes none back.
LEMMA MutexKept ==
    ASSUME Types, Mutex, NEW t \in Threads, Others(t), lock_' = lock_,
           Ticketed(t)' <=> Ticketed(t),
           Ticketed(t) /\ Inside(t)' => Inside(t) \/ lock_[1] = t
    PROVE  Mutex'
  <1>1. \A i \in 1..Len(lock_) : lock_[i] \in Threads
    BY DEF Types
  <1>2. \A u \in Threads : /\ Ticketed(u)' <=> Ticketed(u)
                           /\ Ticketed(u) /\ Inside(u)' => Inside(u) \/ lock_[1] = u
    BY Zenon DEF Others, Ticketed, Inside, Locked
  <1> QED
    BY <1>1, <1>2, Zenon DEF Mutex

\* A call starts: one that is locked takes the next ticket.
LEMMA MutexBegin ==
    ASSUME Types, Mutex, NEW t \in Threads, NEW o, NEW v, Begin(t, o, v)
    PROVE  Mutex'
  <1> USE DEF Begin, Goto
  <1>1. /\ ~Ticketed(t)
        /\ pc'[t] \in {"load", "lock"} /\ pc'[t] # "idle" /\ (Locked(o) => pc'[t] = "lock")
        /\ op'[t] = o /\ kind' = kind
        /\ \A u \in Threads \ {t} : pc'[u] = pc[u] /\ op'[u] = op[u]
    BY Zenon DEF Types, Locals, Ticketed
  <1>2. \A u \in Threads \ {t} : /\ Ticketed(u)' <=> Ticketed(u)
                                 /\ Inside(u)' <=> Inside(u)
    BY <1>1, Zenon DEF Ticketed, Inside, Locked
  <1>3. CASE ~Locked(o)
    <2>1. ~Ticketed(t)' /\ lock_' = lock_
      BY <1>1, <1>3, Zenon DEF Ticketed, Locked
    <2>2. \A i \in 1..Len(lock_) : lock_[i] \in Threads
      BY DEF Types
    <2> QED
      BY <1>1, <1>2, <2>1, <2>2 DEF Mutex
  <1>4. CASE Locked(o)
    <2>1. lock_' = Append(lock_, t) /\ Ticketed(t)' /\ ~Inside(t)'
      BY <1>1, <1>4, Zenon DEF Ticketed, Locked, Inside
    <2>2. lock_ \in Seq(Threads)
      BY Zenon DEF Types
    <2>3. /\ Len(lock_') = Len(lock_) + 1 /\ Len(lock_) \in Nat
          /\ \A i \in 1..Len(lock_) : lock_'[i] = lock_[i] /\ lock_[i] \in Threads
          /\ lock_'[Len(lock_) + 1] = t
      BY <2>1, <2>2
    <2>4. \A i \in 1..Len(lock_) : lock_[i] # t
      BY <1>1, Zenon DEF Mutex
    <2> HIDE DEF Begin
    <2>5. (\A i, j \in 1..Len(lock_) : lock_[i] = lock_[j] => i = j)'
      BY <2>3, <2>4 DEF Mutex
    <2>6. (\A i \in 1..Len(lock_) : Ticketed(lock_[i]))'
      BY <1>2, <2>1, <2>3, <2>4 DEF Mutex
    <2>7. ASSUME NEW u \in Threads, Ticketed(u)'
          PROVE  \E i \in 1..Len(lock_') : lock_'[i] = u
      BY <1>2, <2>3, <2>7 DEF Mutex
    <2>8. ASSUME NEW u \in Threads, Ticketed(u)', Inside(u)'
          PROVE  lock_'[1] = u
      <3>1. Ticketed(u) /\ Inside(u) /\ u # t
        BY <1>2, <2>1, <2>8, Zenon
      <3>2. lock_[1] = u /\ 1 \in 1..Len(lock_)
        BY <3>1, <2>3 DEF Mutex
      <3> QED
        BY <3>2, <2>3, Zenon
    <2> QED
      BY <2>5, <2>6, <2>7, <2>8, Zenon DEF Mutex
  <1> QED
    BY <1>3, <1>4, Zenon

\* The values whose Push has returned.
LEMMA ReturnedKept ==
    ASSUME NEW t \in Threads, Others(t)
    PROVE  /\ calls'[t] = calls[t] => Returned' = Returned
           /\ Locals /\ Valued(t) /\ Pushing(t) /\ pc[t] # "unlock" /\ calls'[t] = calls[t] + 1 =>
                 Returned' = Returned \union {val[t]}
  <1>1. \A v \in Values : v[1] \in Threads /\ v[2] \in Nat /\ v = <<v[1], v[2]>>
    BY RingAssumption DEF Values
  <1>2. ASSUME calls'[t] = calls[t] PROVE Returned' = Returned
    BY <1>1, <1>2, Zenon DEF Returned, Others
  <1>3. ASSUME Locals, Valued(t), Pushing(t), pc[t] # "unlock", calls'[t] = calls[t] + 1
        PROVE  Returned' = Returned \union {val[t]}
    <2>1. val[t] = <<t, calls[t] + 1>> /\ val[t] \in Values /\ calls[t] \in Nat
      BY <1>3, Zenon DEF Valued, Locals
    <2>2. ASSUME NEW v \in Values
          PROVE  v[2] <= calls'[v[1]] <=> v[2] <= calls[v[1]] \/ v = val[t]
      <3>1. CASE v[1] = t
        BY <1>1, <1>3, <2>1, <3>1
      <3>2. CASE v[1] # t
        BY <1>1, <2>1, <3>2 DEF Others
      <3> QED
        BY <3>1, <3>2, Zenon
    <2>3. \A v : v \in Returned' <=> v \in Values /\ v[2] <= calls'[v[1]]
      BY Zenon DEF Returned
    <2> QED
      BY <2>1, <2>2, <2>3, Zenon DEF Returned
  <1> QED
    BY <1>2, <1>3, Zenon

\* A step that moves neither counter and takes no position.
LEMMA PositionsKept ==
    ASSUME Positions, NEW t \in Threads, Others(t), Place(t)',
           size_' = size_, head_' = head_, tail_' = tail_,
           \A u \in Threads : \A p \in Nat : Writing(u, p)' => Writing(u, p),
           head_ \in Nat
    PROVE  Positions'
  <1>1. (\A u \in Threads : ~Writing(u, head_)) => (\A u \in Threads : ~Writing(u, head_))'
    BY Zenon DEF Writing
  <1>2. ASSUME NEW u \in Threads \ {t} PROVE Place(u)'
    <2>1. Place(u)
      BY Zenon DEF Positions
    <2> QED
      BY <1>1, <2>1, Zenon DEF Place, Others, DynamicSize, ErrorOnNoSpace
  <1> QED
    BY <1>2, Zenon DEF Positions

\* A step that keeps the flags, and which of them should be set.
LEMMA FlagsKept ==
    ASSUME Flags, size_' = size_, ready_' = ready_, head_' = head_,
           head_ \in Nat, size_ \in Nat,
           \A p \in Nat : (Full(p)' => p - head_ + 1 < size_) /\ (Ripe(p)' <=> Ripe(p))
    PROVE  Flags'
  <1>1. \A p : Index(p)' = Index(p)
    BY Zenon DEF Index
  <1>2. \A p \in head_..(head_ + size_ - 1) : p \in Nat
    OBVIOUS
  <1> QED
    BY <1>1, <1>2, Zenon DEF Flags

\* A step that keeps the entries and the positions that hold a value.
LEMMA EntriesKept ==
    ASSUME Flags, Data, Accounted, NEW t \in Threads, Others(t),
           size_' = size_, ready_' = ready_, data_' = data_, head_' = head_, out' = out,
           head_ \in Nat, size_ \in Nat,
           \A p \in Nat : /\ Full(p)' <=> Full(p)
                          /\ Ripe(p)' <=> Ripe(p)
                          /\ Holds(p)' <=> Holds(p),
           Returned \subseteq Returned', Returned' = Returned \/ ErrorOnNoSpace,
           Valued(t)', Written(t)'
    PROVE  Flags' /\ Data' /\ Accounted'
  <1>1. \A p : Index(p)' = Index(p)
    BY Zenon DEF Index
  <1>2. Flags'
    BY FlagsKept, Zenon DEF Flags
  <1>3. ASSUME NEW u \in Threads \ {t} PROVE Valued(u)' /\ Written(u)'
    <2>1. Valued(u) /\ Written(u)
      BY Zenon DEF Data
    <2> QED
      BY <1>1, <2>1, Zenon DEF Valued, Written, Pushing, Others
  <1>4. Data'
    BY <1>1, <1>3, Zenon DEF Data
  <1>5. Accounted'
    BY <1>1, Zenon DEF Accounted, ErrorOnNoSpace, Others
  <1> QED
    BY <1>2, <1>4, <1>5, Zenon

\* The position of a thread that writes or publishes is within the ring.
LEMMA InWindow ==
    ASSUME IInv, NEW t \in Threads, pc[t] \in {"write", "ready", "advance"}
    PROVE  tail[t] \in Nat /\ head_ <= tail[t] /\ tail[t] - head_ + 1 < size_
  <1>1. Place(t) /\ Role(t) /\ head_ \in Nat /\ tail_ \in Nat /\ head_ <= tail_ /\ tail[t] \in Nat
    BY Zenon DEF IInv, Types, Locals, Positions, Roles
  <1>2. CASE DynamicSize
    BY <1>1, <1>2, Zenon DEF Place
  <1>3. CASE ~DynamicSize
    BY <1>1, <1>3, Zenon DEF Place, Role
  <1> QED
    BY <1>2, <1>3, Zenon

\* Two positions within the ring have different entries.
LEMMA Apart ==
    ASSUME Ring, head_ \in Nat, NEW p \in Nat, NEW q \in Nat, p # q,
           head_ <= p, p - head_ < size_, head_ <= q, q - head_ < size_
    PROVE  Index(p) # Index(q)
  <1>1. size_ \in Nat \ {0} /\ p \in head_..(head_ + size_ - 1) /\ q \in head_..(head_ + size_ - 1)
    BY DEF Ring
  <1> QED
    BY <1>1, IndexInjective, Zenon DEF Index

-----------------------------------------------------------------------------
(* The steps within a call: they change nothing shared.                    *)

\* The thread has a position it has not published.
Has(t) == op[t] = "push" /\ pc[t] \in {"space", "write", "ready"}

Quiet(t) ==
    /\ Others(t)
    /\ size_' = size_ /\ ready_' = ready_ /\ data_' = data_
    /\ head_' = head_ /\ tail_' = tail_ /\ out' = out
    /\ calls'[t] = calls[t]
    /\ Has(t)' <=> Has(t)
    /\ Has(t) => tail'[t] = tail[t] /\ val'[t] = val[t]
    /\ pc[t] \notin {"ready", "advance", "take", "release"}
    /\ pc'[t] \notin {"ready", "advance", "take", "release"}

\* Such a step keeps the invariant when its thread keeps to its call.
LEMMA QuietStep ==
    ASSUME IInv, NEW t \in Threads, Quiet(t), Locals', lock_' \in Seq(Threads), Mutex',
           Role(t)', Place(t)', Valued(t)'
    PROVE  IInv'
  <1>1. Types /\ Roles /\ Positions /\ Flags /\ Data /\ Accounted /\ head_ \in Nat /\ size_ \in Nat
    BY Zenon DEF IInv, Types, Ring
  <1>2. Types' /\ Roles'
    BY <1>1, RolesKept, Zenon DEF Quiet, Types, Ring, Others
  <1>3. \A u \in Threads : \A p \in Nat : Writing(u, p)' <=> Writing(u, p)
    BY Zenon DEF Quiet, Has, Writing, Others
  <1>4. Positions'
    BY <1>1, <1>3, PositionsKept, Zenon DEF Quiet
  <1>5. /\ Claimed' <=> Claimed
        /\ Taken' <=> Taken
        /\ (\E u \in Threads : pc[u] = "advance")' <=> \E u \in Threads : pc[u] = "advance"
    BY Zenon DEF Claimed, Taken, Quiet, Others
  <1>6. ASSUME NEW p \in Nat
        PROVE  (Full(p)' <=> Full(p)) /\ (Ripe(p)' <=> Ripe(p)) /\ (Holds(p)' <=> Holds(p))
    <2>1. Full(p)' <=> Full(p)
      BY <1>3, Zenon DEF Full, Quiet
    <2> QED
      BY <1>5, <2>1, Zenon DEF Ripe, Holds, Quiet
  <1>7. Returned' = Returned
    BY ReturnedKept, Zenon DEF Quiet
  <1>8. Flags' /\ Data' /\ Accounted'
    BY <1>1, <1>6, <1>7, EntriesKept, Zenon DEF Quiet, Written
  <1> QED
    BY <1>2, <1>4, <1>8, Zenon DEF IInv

\* Emplace begins.
LEMMA PushStep ==
    ASSUME IInv, NEW t \in Threads, Push(t)
    PROVE  IInv' /\ Quiet(t)
  <1>1. /\ Types /\ Mutex /\ Locals /\ lock_ \in Seq(Threads)
        /\ Role(t) /\ Place(t) /\ Valued(t)
        /\ head_ \in Nat /\ tail_ \in Nat /\ size_ \in Nat /\ head[t] \in Nat /\ tail[t] \in Nat
    BY Zenon DEF IInv, Types, Ring, Locals, Roles, Positions, Data
  <1>2. /\ Others(t)
        /\ pc[t] = "idle" /\ t \in Producers[kind]
        /\ op'[t] = "push" /\ val'[t] = <<t, calls[t] + 1>>
        /\ pc'[t] = IF Locked("push") THEN "lock" ELSE "load"
        /\ calls'[t] = calls[t]
        /\ size_' = size_ /\ ready_' = ready_ /\ data_' = data_
        /\ head_' = head_ /\ tail_' = tail_ /\ out' = out
    BY <1>1, Zenon DEF Locals, Others, Push, Begin, Goto, queue_
  <1>3. <<t, calls[t] + 1>> \in Values
    <2>1. calls[t] + 1 \in 1..Pushes[kind] /\ kind \in Kinds
      BY <1>1, RingAssumption DEF Locals, Push, Types
    <2>2. <<t, calls[t] + 1>> \in Threads \X (1..Pushes[kind])
      BY <2>1, Zenon
    <2> QED
      BY <2>1, <2>2, Zenon DEF Values
  <1>4. Locals'
    BY <1>1, <1>3, Zenon DEF Locals, Labels, Push, Begin, Goto, queue_
  <1>5. Mutex' /\ lock_' \in Seq(Threads)
    <2>1. Mutex'
      BY <1>1, MutexBegin, Zenon DEF Push
    <2>2. lock_' \in Seq(Threads)
      BY <1>1 DEF Push, Begin
    <2> QED
      BY <2>1, <2>2, Zenon
  <1>6. Role(t)' /\ Quiet(t) /\ Place(t)' /\ Valued(t)'
    BY <1>1, <1>2, <1>3, Zenon DEF Role, Quiet, Has, Place, Valued, Pushing, Others, Locked, DynamicSize, ErrorOnNoSpace
  <1> QED
    BY <1>4, <1>5, <1>6, QuietStep, Zenon

\* Pop begins.
LEMMA PopStep ==
    ASSUME IInv, NEW t \in Threads, Pop(t)
    PROVE  IInv' /\ Quiet(t)
  <1>1. /\ Types /\ Mutex /\ Locals /\ lock_ \in Seq(Threads)
        /\ Role(t) /\ Place(t) /\ Valued(t)
        /\ head_ \in Nat /\ tail_ \in Nat /\ size_ \in Nat /\ head[t] \in Nat /\ tail[t] \in Nat
    BY Zenon DEF IInv, Types, Ring, Locals, Roles, Positions, Data
  <1>2. /\ Others(t)
        /\ pc[t] = "idle" /\ t \in Consumers[kind]
        /\ op'[t] = "pop"
        /\ pc'[t] = IF Locked("pop") THEN "lock" ELSE "load"
        /\ calls'[t] = calls[t]
        /\ size_' = size_ /\ ready_' = ready_ /\ data_' = data_
        /\ head_' = head_ /\ tail_' = tail_ /\ out' = out
    BY <1>1, Zenon DEF Locals, Others, Pop, Begin, Goto, queue_
  <1>3. Locals'
    BY <1>1, Zenon DEF Locals, Labels, Pop, Begin, Goto, queue_
  <1>4. Mutex' /\ lock_' \in Seq(Threads)
    <2>1. Mutex'
      BY <1>1, MutexBegin, Zenon DEF Pop
    <2>2. lock_' \in Seq(Threads)
      BY <1>1 DEF Pop, Begin
    <2> QED
      BY <2>1, <2>2, Zenon
  <1>5. Role(t)' /\ Quiet(t) /\ Place(t)' /\ Valued(t)'
    BY <1>1, <1>2, Zenon DEF Role, Quiet, Has, Place, Valued, Pushing, Others, Locked, DynamicSize, ErrorOnNoSpace
  <1> QED
    BY <1>3, <1>4, <1>5, QuietStep, Zenon

\* The mutex is the thread's.
LEMMA LockStep ==
    ASSUME IInv, NEW t \in Threads, Lock(t)
    PROVE  IInv' /\ Quiet(t)
  <1>1. /\ Types /\ Mutex /\ Locals /\ lock_ \in Seq(Threads)
        /\ Role(t) /\ Place(t) /\ Valued(t)
        /\ head_ \in Nat /\ tail_ \in Nat /\ size_ \in Nat /\ head[t] \in Nat /\ tail[t] \in Nat
    BY Zenon DEF IInv, Types, Ring, Locals, Roles, Positions, Data
  <1>2. /\ Others(t)
        /\ pc[t] = "lock" /\ pc'[t] = "load" /\ Head(lock_) = t
        /\ op'[t] = op[t] /\ val'[t] = val[t] /\ calls'[t] = calls[t]
        /\ lock_' = lock_
        /\ size_' = size_ /\ ready_' = ready_ /\ data_' = data_
        /\ head_' = head_ /\ tail_' = tail_ /\ out' = out
    BY <1>1, Zenon DEF Locals, Others, Lock, Goto, locals, queue_
  <1>3. Locals'
    BY <1>1, Zenon DEF Locals, Labels, Lock, Goto, locals, queue_
  <1>4. Mutex' /\ lock_' \in Seq(Threads)
    BY <1>1, <1>2, MutexKept DEF Ticketed, Inside, Role, Others, Locked
  <1>5. Role(t)' /\ Quiet(t) /\ Place(t)' /\ Valued(t)'
    BY <1>1, <1>2, Zenon DEF Role, Quiet, Has, Place, Valued, Pushing, Others, Locked, DynamicSize, ErrorOnNoSpace
  <1> QED
    BY <1>3, <1>4, <1>5, QuietStep, Zenon

\* The mutex is released: the next ticket is served.
LEMMA UnlockStep ==
    ASSUME IInv, NEW t \in Threads, Unlock(t)
    PROVE  IInv' /\ Quiet(t)
  <1>1. /\ Types /\ Mutex /\ Locals /\ lock_ \in Seq(Threads)
        /\ Role(t) /\ Place(t) /\ Valued(t)
        /\ head_ \in Nat /\ tail_ \in Nat /\ size_ \in Nat /\ head[t] \in Nat /\ tail[t] \in Nat
    BY Zenon DEF IInv, Types, Ring, Locals, Roles, Positions, Data
  <1>2. /\ Others(t)
        /\ pc[t] = "unlock" /\ pc'[t] = "idle" /\ lock_' = Tail(lock_)
        /\ op'[t] = op[t] /\ val'[t] = val[t] /\ calls'[t] = calls[t]
        /\ size_' = size_ /\ ready_' = ready_ /\ data_' = data_
        /\ head_' = head_ /\ tail_' = tail_ /\ out' = out
    BY <1>1, Zenon DEF Locals, Others, Unlock, Goto, locals, queue_
  <1>3. Locals'
    BY <1>1, Zenon DEF Locals, Labels, Unlock, Goto, locals, queue_
  <1>4. Mutex' /\ lock_' \in Seq(Threads)
    <2>1. /\ Ticketed(t) /\ Inside(t) /\ ~Ticketed(t)'
          /\ \A u \in Threads \ {t} : /\ Ticketed(u)' <=> Ticketed(u)
                                      /\ Inside(u)' <=> Inside(u)
      BY <1>1, <1>2, Zenon DEF Ticketed, Inside, Role, Locked, Others
    <2>2. lock_[1] = t /\ Len(lock_) > 0
      BY <1>1, <2>1 DEF Mutex
    <2>3. /\ Len(lock_') = Len(lock_) - 1 /\ Len(lock_) \in Nat
          /\ \A i \in 1..Len(lock_') : lock_'[i] = lock_[i + 1]
          /\ \A i \in 1..Len(lock_) : lock_[i] \in Threads
          /\ lock_' \in Seq(Threads)
      BY <1>1, <1>2, <2>2
    <2>4. \A i \in 1..Len(lock_) : lock_[i] = t => i = 1
      BY <1>1, <2>2, <2>3 DEF Mutex
    <2>5. (\A i, j \in 1..Len(lock_) : lock_[i] = lock_[j] => i = j)'
      BY SMTT(30), <1>1, <2>3 DEF Mutex
    <2>6. (\A i \in 1..Len(lock_) : Ticketed(lock_[i]))'
      <3> SUFFICES ASSUME NEW i \in 1..Len(lock_') PROVE Ticketed(lock_[i])'
        BY Zenon
      <3>1. i + 1 \in 1..Len(lock_) /\ lock_'[i] = lock_[i + 1] /\ i + 1 # 1
        BY <2>3
      <3>2. lock_[i + 1] \in Threads \ {t} /\ Ticketed(lock_[i + 1])
        BY <1>1, <2>3, <2>4, <3>1, Zenon DEF Mutex
      <3> QED
        BY <2>1, <3>1, <3>2, Zenon DEF Ticketed, Locked
    <2>7. ASSUME NEW u \in Threads, Ticketed(u)'
          PROVE  \E i \in 1..Len(lock_') : lock_'[i] = u
      <3>1. u # t /\ Ticketed(u)
        BY <2>1, <2>7, Zenon
      <3>2. PICK i \in 1..Len(lock_) : lock_[i] = u
        BY <1>1, <3>1, Zenon DEF Mutex
      <3>3. i - 1 \in 1..Len(lock_') /\ lock_'[i - 1] = lock_[i]
        BY <2>2, <2>3, <3>1, <3>2
      <3> QED
        BY <3>2, <3>3, Zenon
    <2>8. ASSUME NEW u \in Threads, Ticketed(u)', Inside(u)' PROVE FALSE
      BY <1>1, <2>1, <2>2, <2>8, Zenon DEF Mutex
    <2> QED
      BY <2>3, <2>5, <2>6, <2>7, <2>8, Zenon DEF Mutex
  <1>5. Role(t)' /\ Quiet(t) /\ Place(t)' /\ Valued(t)'
    BY <1>1, <1>2, Zenon DEF Role, Quiet, Has, Place, Valued, Pushing, Others, Locked, DynamicSize, ErrorOnNoSpace
  <1> QED
    BY <1>3, <1>4, <1>5, QuietStep, Zenon

\* EmplaceFixed reads head_.
LEMMA LoadHeadStep ==
    ASSUME IInv, NEW t \in Threads, LoadHead(t)
    PROVE  IInv' /\ Quiet(t)
  <1>1. /\ Types /\ Mutex /\ Locals /\ lock_ \in Seq(Threads)
        /\ Role(t) /\ Place(t) /\ Valued(t)
        /\ head_ \in Nat /\ tail_ \in Nat /\ size_ \in Nat /\ head[t] \in Nat /\ tail[t] \in Nat
    BY Zenon DEF IInv, Types, Ring, Locals, Roles, Positions, Data
  <1>2. /\ Others(t)
        /\ pc[t] = "load" /\ pc'[t] = "reserve" /\ op[t] = "push" /\ ~DynamicSize
        /\ head'[t] = head_
        /\ op'[t] = op[t] /\ val'[t] = val[t] /\ calls'[t] = calls[t]
        /\ lock_' = lock_
        /\ size_' = size_ /\ ready_' = ready_ /\ data_' = data_
        /\ head_' = head_ /\ tail_' = tail_ /\ out' = out
    BY <1>1, Zenon DEF Locals, Others, LoadHead, Goto, At, queue_
  <1>3. Locals'
    BY <1>1, Zenon DEF Locals, Labels, LoadHead, Goto, At, queue_
  <1>4. Mutex' /\ lock_' \in Seq(Threads)
    BY <1>1, <1>2, MutexKept, Zenon DEF Ticketed, Inside, Role, Others, Locked
  <1>5. Role(t)' /\ Quiet(t) /\ Place(t)' /\ Valued(t)'
    BY <1>1, <1>2 DEF Role, Quiet, Has, Place, Valued, Pushing, Others, Locked, DynamicSize, ErrorOnNoSpace
  <1> QED
    BY <1>3, <1>4, <1>5, QuietStep, Zenon

\* EmplaceFixed has room for its position.
LEMMA HasSpaceStep ==
    ASSUME IInv, NEW t \in Threads, HasSpace(t)
    PROVE  IInv' /\ Quiet(t)
  <1>1. /\ Types /\ Mutex /\ Locals /\ lock_ \in Seq(Threads)
        /\ Role(t) /\ Place(t) /\ Valued(t)
        /\ head_ \in Nat /\ tail_ \in Nat /\ size_ \in Nat /\ head[t] \in Nat /\ tail[t] \in Nat
    BY Zenon DEF IInv, Types, Ring, Locals, Roles, Positions, Data
  <1>2. /\ Others(t)
        /\ pc[t] = "space" /\ pc'[t] = "write" /\ op[t] = "push"
        /\ tail[t] - head[t] + 1 < size_
        /\ op'[t] = op[t] /\ val'[t] = val[t] /\ calls'[t] = calls[t]
        /\ tail'[t] = tail[t]
        /\ lock_' = lock_
        /\ size_' = size_ /\ ready_' = ready_ /\ data_' = data_
        /\ head_' = head_ /\ tail_' = tail_ /\ out' = out
    BY <1>1 DEF Locals, Others, HasSpace, NoRoom, Goto, At, locals, queue_
  <1>3. Locals'
    BY <1>1, Zenon DEF Locals, Labels, HasSpace, NoRoom, Goto, At, locals, queue_
  <1>4. Mutex' /\ lock_' \in Seq(Threads)
    BY <1>1, <1>2, MutexKept, Zenon DEF Ticketed, Inside, Role, Others, Locked
  <1>5. Role(t)' /\ Quiet(t) /\ Place(t)' /\ Valued(t)'
    <2>1. tail[t] - head_ + 1 < size_
      BY <1>1, <1>2 DEF Place
    <2>2. /\ ~DynamicSize => head_ <= tail[t] /\ tail[t] < tail_
          /\ ErrorOnNoSpace => tail[t] = tail_ - 1
          /\ ~DynamicSize
      BY <1>1, <1>2, Zenon DEF Place, Role
    <2>3. Place(t)'
      BY <1>2, <2>1, <2>2, Zenon DEF Place, Others, DynamicSize, ErrorOnNoSpace
    <2> QED
      BY <1>1, <1>2, <2>3, Zenon DEF Role, Quiet, Has, Valued, Pushing, Others, Locked, DynamicSize
  <1> QED
    BY <1>3, <1>4, <1>5, QuietStep, Zenon

\* EmplaceFixed waits for room.
LEMMA SpinStep ==
    ASSUME IInv, NEW t \in Threads, Spin(t)
    PROVE  IInv' /\ Quiet(t)
  <1>1. /\ Types /\ Mutex /\ Locals /\ lock_ \in Seq(Threads)
        /\ Role(t) /\ Place(t) /\ Valued(t)
        /\ head_ \in Nat /\ tail_ \in Nat /\ size_ \in Nat /\ head[t] \in Nat /\ tail[t] \in Nat
    BY Zenon DEF IInv, Types, Ring, Locals, Roles, Positions, Data
  <1>2. /\ Others(t)
        /\ pc[t] = "space" /\ pc'[t] = "space" /\ op[t] = "push"
        /\ head'[t] = head_
        /\ op'[t] = op[t] /\ val'[t] = val[t] /\ calls'[t] = calls[t]
        /\ tail'[t] = tail[t]
        /\ lock_' = lock_
        /\ size_' = size_ /\ ready_' = ready_ /\ data_' = data_
        /\ head_' = head_ /\ tail_' = tail_ /\ out' = out
    BY <1>1, Zenon DEF Locals, Others, Spin, At, queue_
  <1>3. Locals'
    BY <1>1, Zenon DEF Locals, Labels, Spin, At, queue_
  <1>4. Mutex' /\ lock_' \in Seq(Threads)
    BY <1>1, <1>2, MutexKept, Zenon DEF Ticketed, Inside, Role, Others, Locked
  <1>5. Role(t)' /\ Quiet(t) /\ Place(t)' /\ Valued(t)'
    <2>1. head_ <= head_
      BY <1>1, <1>2 DEF Place
    <2>2. /\ ~DynamicSize => head_ <= tail[t] /\ tail[t] < tail_
          /\ ErrorOnNoSpace => tail[t] = tail_ - 1
          /\ ~DynamicSize
      BY <1>1, <1>2, Zenon DEF Place, Role
    <2>3. Place(t)'
      BY <1>2, <2>1, <2>2, Zenon DEF Place, Others, DynamicSize, ErrorOnNoSpace
    <2> QED
      BY <1>1, <1>2, <2>3, Zenon DEF Role, Quiet, Has, Valued, Pushing, Others, Locked, DynamicSize
  <1> QED
    BY <1>3, <1>4, <1>5, QuietStep, Zenon

\* PopUnlocked reads head_.
LEMMA PopHeadStep ==
    ASSUME IInv, NEW t \in Threads, PopHead(t)
    PROVE  IInv' /\ Quiet(t)
  <1>1. /\ Types /\ Mutex /\ Locals /\ lock_ \in Seq(Threads)
        /\ Role(t) /\ Place(t) /\ Valued(t)
        /\ head_ \in Nat /\ tail_ \in Nat /\ size_ \in Nat /\ head[t] \in Nat /\ tail[t] \in Nat
    BY Zenon DEF IInv, Types, Ring, Locals, Roles, Positions, Data
  <1>2. /\ Others(t)
        /\ pc[t] = "load" /\ pc'[t] = "tail" /\ op[t] = "pop"
        /\ head'[t] = head_
        /\ op'[t] = op[t] /\ val'[t] = val[t] /\ calls'[t] = calls[t]
        /\ lock_' = lock_
        /\ size_' = size_ /\ ready_' = ready_ /\ data_' = data_
        /\ head_' = head_ /\ tail_' = tail_ /\ out' = out
    BY <1>1, Zenon DEF Locals, Others, PopHead, Goto, At, queue_
  <1>3. Locals'
    BY <1>1, Zenon DEF Locals, Labels, PopHead, Goto, At, queue_
  <1>4. Mutex' /\ lock_' \in Seq(Threads)
    BY <1>1, <1>2, MutexKept, Zenon DEF Ticketed, Inside, Role, Others, Locked
  <1>5. Role(t)' /\ Quiet(t) /\ Place(t)' /\ Valued(t)'
    BY <1>1, <1>2, Zenon DEF Role, Quiet, Has, Place, Valued, Pushing, Others, Locked, DynamicSize, ErrorOnNoSpace
  <1> QED
    BY <1>3, <1>4, <1>5, QuietStep, Zenon

\* PopUnlocked reads tail_.
LEMMA PopTailStep ==
    ASSUME IInv, NEW t \in Threads, PopTail(t)
    PROVE  IInv' /\ Quiet(t)
  <1>1. /\ Types /\ Mutex /\ Locals /\ lock_ \in Seq(Threads)
        /\ Role(t) /\ Place(t) /\ Valued(t)
        /\ head_ \in Nat /\ tail_ \in Nat /\ size_ \in Nat /\ head[t] \in Nat /\ tail[t] \in Nat
    BY Zenon DEF IInv, Types, Ring, Locals, Roles, Positions, Data
  <1>2. /\ Others(t)
        /\ pc[t] = "tail" /\ pc'[t] \in {"claim", Leave(t)} /\ op[t] = "pop"
        /\ head'[t] = head[t]
        /\ op'[t] = op[t] /\ val'[t] = val[t] /\ calls'[t] = calls[t]
        /\ lock_' = lock_
        /\ size_' = size_ /\ ready_' = ready_ /\ data_' = data_
        /\ head_' = head_ /\ tail_' = tail_ /\ out' = out
    BY <1>1, Zenon DEF Locals, Others, PopTail, Goto, At, Leave, locals, queue_
  <1>3. Locals'
    BY <1>1, Zenon DEF Locals, Labels, PopTail, Goto, At, Leave, locals, queue_
  <1>4. Mutex' /\ lock_' \in Seq(Threads)
    BY <1>1, <1>2, MutexKept, Zenon DEF Ticketed, Inside, Role, Others, Locked, Leave
  <1>5. Role(t)' /\ Quiet(t) /\ Place(t)' /\ Valued(t)'
    BY <1>1, <1>2, Zenon DEF Role, Quiet, Has, Place, Valued, Pushing, Others, Locked, DynamicSize, ErrorOnNoSpace, Leave
  <1> QED
    BY <1>3, <1>4, <1>5, QuietStep, Zenon

-----------------------------------------------------------------------------
(* The steps that change the ring.                                         *)

\* EmplaceFixed takes a position.
LEMMA ReserveStep ==
    ASSUME IInv, NEW t \in Threads, Reserve(t)
    PROVE  IInv'
  <1>1. /\ Types /\ Roles /\ Mutex /\ Positions /\ Flags /\ Data /\ Accounted
        /\ Ring /\ Locals /\ Role(t) /\ Place(t) /\ Valued(t) /\ Written(t)
    BY Zenon DEF IInv, Types, Roles, Positions, Data
  <1>2. /\ head_ \in Nat /\ tail_ \in Nat /\ size_ \in Nat /\ head_ <= tail_
        /\ head[t] \in Nat /\ tail[t] \in Nat /\ calls[t] \in Nat
    BY <1>1, Zenon DEF Types, Ring, Locals, Positions
  <1>3. /\ Others(t)
        /\ pc[t] = "reserve" /\ pc'[t] = "space" /\ op[t] = "push"
        /\ tail'[t] = tail_ /\ tail_' = tail_ + 1 /\ head'[t] = head[t]
        /\ op'[t] = op[t] /\ val'[t] = val[t] /\ calls'[t] = calls[t]
        /\ size_' = size_ /\ ready_' = ready_ /\ data_' = data_ /\ head_' = head_
        /\ lock_' = lock_ /\ out' = out
    BY <1>1, Zenon DEF Locals, Others, Reserve, Goto, At, queue_
  <1>4. Types'
    <2>1. Locals'
      BY <1>1, <1>2, Zenon DEF Locals, Labels, Reserve, Goto
    <2>2. Ring'
      BY <1>1, <1>3, Zenon DEF Ring
    <2> QED
      BY <1>1, <1>2, <1>3, <2>1, <2>2 DEF Types, Others
  <1>5. Roles' /\ Mutex'
    <2>1. Role(t)'
      BY <1>1, <1>3, Zenon DEF Role, Pushing, Others, Locked, DynamicSize
    <2>2. (Ticketed(t)' <=> Ticketed(t)) /\ Inside(t)
      BY <1>1, <1>3, Zenon DEF Ticketed, Inside, Role, Others, Locked
    <2> QED
      BY <1>1, <1>3, <2>1, <2>2, RolesKept, MutexKept, Zenon
  <1>6. ~DynamicSize /\ (DynamicSize' <=> DynamicSize) /\ (ErrorOnNoSpace' <=> ErrorOnNoSpace)
    BY <1>1, <1>3, Zenon DEF Role, DynamicSize, ErrorOnNoSpace, Others
  <1>7. \A u \in Threads : \A p \in Nat :
           Writing(u, p)' <=> Writing(u, p) \/ (u = t /\ p = tail_)
    BY <1>3, Zenon DEF Writing, Others
  <1>8. \A u \in Threads : \A p \in Nat : Writing(u, p) => p < tail_
    BY <1>1, <1>6, Zenon DEF Writing, Positions, Place
  <1>9. Positions'
    <2>1. ASSUME ErrorOnNoSpace, NEW u \in Threads \ {t}
          PROVE  pc[u] \notin {"space", "write", "ready"}
      <3>1. Pushing(t) /\ (pc[u] \in {"space", "write", "ready"} => Pushing(u))
        BY <1>1, <1>3, Zenon DEF Pushing, Roles, Role
      <3> QED
        BY <1>1, <2>1, <3>1, OnePusher, Zenon
    <2>2. ASSUME NEW u \in Threads \ {t}, pc[u] \in {"take", "release"}
          PROVE  head_ < tail_' /\ (\A v \in Threads : ~Writing(v, head_))'
      <3>1. head_ < tail_ /\ \A v \in Threads : ~Writing(v, head_)
        BY <1>1, <2>2, Zenon DEF Positions, Place
      <3>2. head_ # tail_ /\ head_ < tail_'
        BY <1>2, <1>3, <3>1
      <3> QED
        BY <1>2, <1>3, <1>7, <3>1, <3>2, Zenon DEF Writing
    <2>3. ASSUME NEW u \in Threads \ {t} PROVE Place(u)'
      <3>1. Place(u) /\ pc'[u] = pc[u] /\ head'[u] = head[u] /\ tail'[u] = tail[u] /\ tail[u] \in Nat
        BY <1>1, <1>3, Zenon DEF Positions, Others, Locals
      <3>2. tail[u] < tail_ => tail[u] < tail_'
        BY <1>2, <1>3, <3>1
      <3> QED
        BY <1>3, <1>6, <2>1, <2>2, <3>1, <3>2, Zenon DEF Place
    <2>4. Place(t)'
      <3>1. tail_ < tail_ + 1 /\ tail_ = (tail_ + 1) - 1
        BY <1>2
      <3> QED
        BY <1>1, <1>2, <1>3, <1>6, <3>1, Zenon DEF Place
    <2>5. ASSUME NEW u \in Threads, NEW v \in Threads, NEW p \in Nat,
                 Writing(u, p)', Writing(v, p)'
          PROVE  u = v
      <3>1. p # tail_ => Writing(u, p) /\ Writing(v, p)
        BY <1>7, <2>5, Zenon
      <3>2. p = tail_ => u = t /\ v = t
        BY <1>2, <1>7, <1>8, <2>5
      <3> QED
        BY <1>1, <3>1, <3>2, Zenon DEF Positions
    <2>6. head_ <= tail_ + 1
      BY <1>2
    <2> QED
      BY <1>3, <2>3, <2>4, <2>5, <2>6, Zenon DEF Positions
  <1>10. \A u \in Threads : pc[u] # "advance" /\ pc'[u] # "advance"
    BY <1>1, <1>3, <1>6, Zenon DEF Roles, Role, Others
  <1>11. ASSUME NEW p \in Nat
        PROVE  (Full(p)' <=> Full(p)) /\ (Ripe(p)' <=> Ripe(p)) /\ (Holds(p)' <=> Holds(p))
    <2>1. CASE p = tail_
      <3>1. ~(p \in head_..(tail_ - 1))
        BY <1>2, <2>1
      <3>2. ~Full(p) /\ ~Full(p)'
        BY <1>7, <2>1, <3>1, Zenon DEF Full
      <3> QED
        BY <1>10, <3>2, Zenon DEF Ripe, Holds
    <2>2. CASE p # tail_
      <3>1. p \in head_..((tail_ + 1) - 1) <=> p \in head_..(tail_ - 1)
        BY <1>2, <2>2
      <3>2. Full(p)' <=> Full(p)
        BY <1>3, <1>7, <2>2, <3>1, Zenon DEF Full
      <3>3. (Claimed' <=> Claimed) /\ (Taken' <=> Taken)
        BY <1>3, Zenon DEF Claimed, Taken, Others
      <3> QED
        BY <1>3, <1>10, <3>2, <3>3, Zenon DEF Ripe, Holds
    <2> QED
      BY <2>1, <2>2, Zenon
  <1>12. Flags' /\ Data' /\ Accounted'
    <2>1. Returned' = Returned
      BY <1>3, ReturnedKept, Zenon
    <2>2. Valued(t)' /\ Written(t)'
      BY <1>1, <1>3, Zenon DEF Valued, Written, Pushing
    <2> QED
      BY <1>1, <1>2, <1>3, <1>11, <2>1, <2>2, EntriesKept, Zenon
  <1> QED
    BY <1>4, <1>5, <1>9, <1>12, Zenon DEF IInv

\* EmplaceFixed gives its position back.
LEMMA RefuseStep ==
    ASSUME IInv, NEW t \in Threads, Refuse(t)
    PROVE  IInv'
  <1>1. /\ Types /\ Roles /\ Mutex /\ Positions /\ Flags /\ Data /\ Accounted
        /\ Ring /\ Locals /\ Role(t) /\ Place(t) /\ Valued(t) /\ Written(t)
    BY Zenon DEF IInv, Types, Roles, Positions, Data
  <1>2. /\ head_ \in Nat /\ tail_ \in Nat /\ size_ \in Nat /\ head_ <= tail_
        /\ head[t] \in Nat /\ tail[t] \in Nat /\ calls[t] \in Nat
    BY <1>1, Zenon DEF Types, Ring, Locals, Positions
  <1>3. /\ Others(t)
        /\ pc[t] = "space" /\ pc'[t] = "idle" /\ op[t] = "push" /\ ErrorOnNoSpace
        /\ tail_' = tail_ - 1 /\ head'[t] = head[t] /\ tail'[t] = tail[t]
        /\ op'[t] = op[t] /\ val'[t] = val[t] /\ calls'[t] = calls[t] + 1
        /\ size_' = size_ /\ ready_' = ready_ /\ data_' = data_ /\ head_' = head_
        /\ lock_' = lock_ /\ out' = out
    BY <1>1, Zenon DEF Locals, Others, Refuse, Goto, At, Return, queue_
  <1>4. tail[t] = tail_ - 1 /\ head_ <= tail[t]
    BY <1>1, <1>3, Zenon DEF Place, ErrorOnNoSpace, DynamicSize
  <1>5. Types'
    <2>1. Locals'
      BY <1>1, <1>2 DEF Locals, Labels, Refuse, Goto, Return
    <2>2. Ring'
      BY <1>1, <1>3, Zenon DEF Ring
    <2> QED
      BY <1>1, <1>2, <1>3, <1>4, <2>1, <2>2, Zenon DEF Types, Others
  <1>6. Roles' /\ Mutex'
    <2>1. Role(t)'
      BY <1>1, <1>3, Zenon DEF Role, Pushing, Others, Locked, DynamicSize
    <2>2. (Ticketed(t)' <=> Ticketed(t)) /\ Inside(t)
      BY <1>1, <1>3, Zenon DEF Ticketed, Inside, Role, Others, Locked, ErrorOnNoSpace
    <2> QED
      BY <1>1, <1>3, <2>1, <2>2, RolesKept, MutexKept, Zenon
  <1>7. \A u \in Threads \ {t} : ~Pushing(u)
    BY <1>1, <1>3, OnePusher, Zenon DEF Pushing
  <1>8. \A u \in Threads : \A p : ~Writing(u, p)'
    BY <1>3, <1>7, Zenon DEF Writing, Pushing, Others
  <1>9. Positions'
    <2>1. (\A u \in Threads : ~Writing(u, head_))'
      BY <1>8, Zenon DEF Writing
    <2>2. ASSUME NEW u \in Threads \ {t}, pc[u] \in {"take", "release"} PROVE head_ < tail_ - 1
      <3>1. ~Writing(t, head_)
        BY <1>1, <2>2, Zenon DEF Positions, Place
      <3>2. tail[t] # head_
        BY <1>3, <3>1, Zenon DEF Writing
      <3> QED
        BY <1>2, <1>4, <3>2
    <2>3. ASSUME NEW u \in Threads \ {t} PROVE Place(u)'
      <3>1. /\ Place(u) /\ Role(u) /\ ~Pushing(u)
            /\ pc'[u] = pc[u] /\ head'[u] = head[u]
        BY <1>1, <1>3, <1>7, Zenon DEF Positions, Roles, Others
      <3>2. pc[u] \notin {"reserve", "space", "write", "ready", "advance"}
        BY <3>1, Zenon DEF Role, Pushing
      <3> QED
        BY <1>3, <2>1, <2>2, <3>1, <3>2, Zenon DEF Place
    <2>4. Place(t)'
      BY <1>3, Zenon DEF Place
    <2>5. head_ <= tail_ - 1
      BY <1>4, Zenon
    <2> QED
      BY <1>3, <1>8, <2>3, <2>4, <2>5, Zenon DEF Positions
  <1>10. ASSUME NEW p \in Nat
        PROVE  (Full(p)' <=> Full(p)) /\ (Ripe(p)' <=> Ripe(p)) /\ (Holds(p)' <=> Holds(p))
    <2>1. \A u \in Threads : Writing(u, p) <=> u = t /\ p = tail_ - 1
      BY <1>3, <1>7, <1>4, Zenon DEF Writing, Pushing
    <2>2. p \in head_..((tail_ - 1) - 1) <=> p \in head_..(tail_ - 1) /\ p # tail_ - 1
      BY <1>2
    <2>3. Full(p)' <=> Full(p)
      BY <1>3, <1>8, <2>1, <2>2, Zenon DEF Full
    <2>4. (Claimed' <=> Claimed) /\ (Taken' <=> Taken)
      BY <1>3, Zenon DEF Claimed, Taken, Others
    <2>5. \A u \in Threads : pc[u] # "advance" /\ pc'[u] # "advance"
      BY <1>1, <1>3, Zenon DEF Roles, Role, Others, ErrorOnNoSpace, DynamicSize
    <2> QED
      BY <1>3, <2>3, <2>4, <2>5, Zenon DEF Ripe, Holds
  <1>11. Flags' /\ Data' /\ Accounted'
    <2>1. Returned \subseteq Returned'
      BY <1>1, <1>3, ReturnedKept, Zenon DEF Pushing
    <2>2. Valued(t)' /\ Written(t)'
      BY <1>3, Zenon DEF Valued, Written, Pushing
    <2> QED
      BY <1>1, <1>2, <1>3, <1>10, <2>1, <2>2, EntriesKept, Zenon
  <1> QED
    BY <1>5, <1>6, <1>9, <1>11, Zenon DEF IInv

\* The value is written to the entry, which no other thread reads or writes.
LEMMA WriteStep ==
    ASSUME IInv, NEW t \in Threads, Write(t)
    PROVE  /\ IInv'
           /\ \A p \in Nat : Full(p) => data_'[Index(p)'] = data_[Index(p)]
  <1>1. /\ Types /\ Roles /\ Mutex /\ Positions /\ Flags /\ Data /\ Accounted
        /\ Ring /\ Locals /\ Role(t) /\ Place(t) /\ Valued(t) /\ Written(t)
    BY Zenon DEF IInv, Types, Roles, Positions, Data
  <1>2. /\ head_ \in Nat /\ tail_ \in Nat /\ size_ \in Nat /\ head_ <= tail_
        /\ head[t] \in Nat /\ tail[t] \in Nat /\ calls[t] \in Nat
    BY <1>1, Zenon DEF Types, Ring, Locals, Positions
  <1>3. /\ Others(t)
        /\ pc[t] = "write" /\ pc'[t] = "ready" /\ op[t] = "push"
        /\ data_' = [data_ EXCEPT ![Index(tail[t])] = val[t]]
        /\ head'[t] = head[t] /\ tail'[t] = tail[t]
        /\ op'[t] = op[t] /\ val'[t] = val[t] /\ calls'[t] = calls[t]
        /\ size_' = size_ /\ ready_' = ready_ /\ head_' = head_ /\ tail_' = tail_
        /\ lock_' = lock_ /\ out' = out
    BY <1>1, Zenon DEF Locals, Others, Write, Goto, At, locals
  <1>4. Types'
    <2>1. Locals'
      BY <1>1, <1>2, Zenon DEF Locals, Labels, Write, Goto, locals
    <2>2. Ring'
      BY <1>1, <1>3, Zenon DEF Ring, Locals
    <2> QED
      BY <1>1, <1>2, <1>3, <2>1, <2>2, Zenon DEF Types, Others
  <1>5. Roles' /\ Mutex'
    <2>1. Role(t)'
      BY <1>1, <1>3, Zenon DEF Role, Pushing, Others, Locked, DynamicSize
    <2>2. (Ticketed(t)' <=> Ticketed(t)) /\ Inside(t)
      BY <1>1, <1>3, Zenon DEF Ticketed, Inside, Role, Others, Locked
    <2> QED
      BY <1>1, <1>3, <2>1, <2>2, RolesKept, MutexKept, Zenon
  <1>6. \A u \in Threads : \A p \in Nat : Writing(u, p)' <=> Writing(u, p)
    BY <1>3, Zenon DEF Writing, Others
  <1>7. Positions'
    <2>1. Place(t)'
      BY <1>1, <1>3, Zenon DEF Place, Role, DynamicSize, ErrorOnNoSpace, Others
    <2> QED
      BY <1>1, <1>2, <1>3, <1>6, <2>1, PositionsKept, Zenon
  <1>8. ASSUME NEW p \in Nat
        PROVE  (Full(p)' <=> Full(p)) /\ (Ripe(p)' <=> Ripe(p)) /\ (Holds(p)' <=> Holds(p))
    <2>1. Full(p)' <=> Full(p)
      BY <1>3, <1>6, Zenon DEF Full
    <2>2. /\ (Claimed' <=> Claimed) /\ (Taken' <=> Taken)
          /\ (\E u \in Threads : pc[u] = "advance")' <=> \E u \in Threads : pc[u] = "advance"
      BY <1>3, Zenon DEF Claimed, Taken, Others
    <2> QED
      BY <1>3, <2>1, <2>2, Zenon DEF Ripe, Holds
  <1>9. /\ \A p : Index(p)' = Index(p)
        /\ Returned' = Returned
    BY <1>3, ReturnedKept, Zenon DEF Index
  <1>10. tail[t] \in Nat /\ head_ <= tail[t] /\ tail[t] - head_ < size_
    <2>1. tail[t] - head_ + 1 < size_ /\ head_ <= tail[t]
      BY <1>3, InWindow, Zenon
    <2> QED
      BY <1>2, <2>1
  <1>11. ASSUME NEW p \in Nat, p # tail[t], head_ <= p, p - head_ < size_
         PROVE  data_'[Index(p)] = data_[Index(p)]
    <2>1. Index(p) # Index(tail[t])
      BY <1>1, <1>2, <1>10, <1>11, Apart, Zenon
    <2>2. Index(p) \in 0..(size_ - 1)
      BY <1>1, IndexOf, Zenon
    <2> QED
      BY <1>1, <1>3, <2>1, <2>2, Zenon DEF Ring
  <1>12. ASSUME NEW p \in Nat, Full(p) PROVE data_'[Index(p)] = data_[Index(p)]
    <2>1. p # tail[t] /\ head_ <= p
      BY <1>2, <1>3, <1>12 DEF Full, Writing
    <2>2. p - head_ + 1 < size_
      BY <1>1, <1>12, Zenon DEF Flags
    <2>3. p - head_ < size_
      BY <1>2, <2>2
    <2> QED
      BY <1>11, <2>1, <2>3, Zenon
  <1>13. Written(t)'
    <2>1. Index(tail[t]) \in 0..(size_ - 1)
      BY <1>1, <1>2, IndexOf, Zenon
    <2> QED
      BY <1>1, <1>3, <1>9, <2>1, Zenon DEF Written, Ring
  <1>14. ASSUME NEW u \in Threads \ {t} PROVE Valued(u)' /\ Written(u)'
    <2>1. Valued(u) /\ Written(u) /\ Role(u)
      BY <1>1, Zenon DEF Data, Roles
    <2>2. ASSUME pc[u] \in {"ready", "advance"}
          PROVE  data_'[Index(tail[u])] = data_[Index(tail[u])]
      <3>1. ~DynamicSize
        BY <1>1, <1>3, <2>2, OneInside, Zenon DEF Inside
      <3>2. Writing(u, tail[u]) /\ Writing(t, tail[t])
        BY <1>3, <2>1, <2>2, <3>1, Zenon DEF Role, Writing
      <3>3. tail[u] \in Nat /\ tail[u] # tail[t]
        BY <1>1, <3>2, Zenon DEF Positions, Locals
      <3>4. head_ <= tail[u] /\ tail[u] - head_ + 1 < size_
        BY <2>2, InWindow, Zenon
      <3>5. tail[u] - head_ < size_
        BY <1>2, <3>3, <3>4
      <3> QED
        BY <1>11, <3>3, <3>4, <3>5, Zenon
    <2> QED
      BY <1>3, <1>9, <2>1, <2>2, Zenon DEF Valued, Written, Pushing, Others
  <1>15. Flags'
    BY <1>1, <1>2, <1>3, <1>8, FlagsKept, Zenon DEF Flags
  <1>16. Data'
    <2>1. Valued(t)'
      BY <1>1, <1>3, Zenon DEF Valued, Pushing
    <2>2. ASSUME NEW p \in Nat, Holds(p)' PROVE data_'[Index(p)'] \in Returned'
      BY <1>1, <1>8, <1>9, <1>12, <2>2, Zenon DEF Data, Holds
    <2> QED
      BY <1>1, <1>3, <1>9, <1>13, <1>14, <2>1, <2>2, Zenon DEF Data
  <1>17. Accounted'
    BY <1>1, <1>3, <1>8, <1>9, <1>12 DEF Accounted, Holds, ErrorOnNoSpace, Others
  <1>18. IInv'
    BY <1>4, <1>5, <1>7, <1>15, <1>16, <1>17, Zenon DEF IInv
  <1> QED
    BY <1>9, <1>12, <1>18, Zenon

\* The entry is published; EmplaceFixed returns.
LEMMA SetReadyStep ==
    ASSUME IInv, NEW t \in Threads, SetReady(t)
    PROVE  IInv'
  <1>1. /\ Types /\ Roles /\ Mutex /\ Positions /\ Flags /\ Data /\ Accounted
        /\ Ring /\ Locals /\ Role(t) /\ Place(t) /\ Valued(t) /\ Written(t)
    BY Zenon DEF IInv, Types, Roles, Positions, Data
  <1>2. /\ head_ \in Nat /\ tail_ \in Nat /\ size_ \in Nat /\ head_ <= tail_
        /\ head[t] \in Nat /\ tail[t] \in Nat /\ calls[t] \in Nat
    BY <1>1, Zenon DEF Types, Ring, Locals, Positions
  <1>3. /\ Others(t)
        /\ pc[t] = "ready" /\ op[t] = "push"
        /\ ready_' = ready_ \union {Index(tail[t])}
        /\ pc'[t] = IF DynamicSize THEN "advance" ELSE "idle"
        /\ calls'[t] = IF DynamicSize THEN calls[t] ELSE calls[t] + 1
        /\ head'[t] = head[t] /\ tail'[t] = tail[t]
        /\ op'[t] = op[t] /\ val'[t] = val[t]
        /\ size_' = size_ /\ data_' = data_ /\ head_' = head_ /\ tail_' = tail_
        /\ lock_' = lock_ /\ out' = out
    BY <1>1, Zenon DEF Locals, Others, SetReady, Goto, At, Return
  <1>4. Types'
    <2>1. Locals'
      BY <1>1, <1>2 DEF Locals, Labels, SetReady, Goto, Return
    <2>2. Ring'
      BY <1>1, <1>3, Zenon DEF Ring
    <2> QED
      BY <1>1, <1>2, <1>3, <2>1, <2>2, Zenon DEF Types, Others
  <1>5. Roles' /\ Mutex'
    <2>1. Role(t)'
      BY <1>1, <1>3, Zenon DEF Role, Pushing, Others, Locked, DynamicSize
    <2>2. (Ticketed(t)' <=> Ticketed(t)) /\ Inside(t)
      BY <1>3, Zenon DEF Ticketed, Inside, Others, Locked, DynamicSize
    <2> QED
      BY <1>1, <1>3, <2>1, <2>2, RolesKept, MutexKept, Zenon
  <1>6. \A u \in Threads : \A p \in Nat : Writing(u, p)' <=> Writing(u, p) /\ u # t
    BY <1>3, Zenon DEF Writing, Others
  <1>7. Positions'
    <2>1. Place(t)'
      BY <1>1, <1>3, Zenon DEF Place, DynamicSize, ErrorOnNoSpace, Others
    <2> QED
      BY <1>1, <1>2, <1>3, <1>6, <2>1, PositionsKept, Zenon
  <1>8. head_ <= tail[t] /\ tail[t] - head_ + 1 < size_ /\ tail[t] - head_ < size_
    <2>1. tail[t] - head_ + 1 < size_ /\ head_ <= tail[t]
      BY <1>3, InWindow, Zenon
    <2> QED
      BY <1>2, <2>1
  <1>9. Writing(t, tail[t])
    BY <1>3, Zenon DEF Writing
  <1>10. /\ \A p : Index(p)' = Index(p)
         /\ Returned' = IF DynamicSize THEN Returned ELSE Returned \union {val[t]}
    BY <1>1, <1>3, ReturnedKept, Zenon DEF Index, Pushing
  <1>11. /\ (Claimed' <=> Claimed) /\ (Taken' <=> Taken)
         /\ Taken => Claimed
         /\ Claimed => tail[t] # head_
    <2>1. ASSUME NEW u \in Threads, pc[u] \in {"take", "release"} PROVE tail[t] # head_
      BY <1>1, <1>9, <2>1, Zenon DEF Positions, Place
    <2> QED
      BY <1>3, <2>1, Zenon DEF Claimed, Taken, Others
  <1>12. ASSUME NEW p \in Nat
         PROVE  Full(p)' <=> Full(p) \/ (p = tail[t] /\ ~DynamicSize)
    <2>1. CASE DynamicSize
      <3>1. tail[t] = tail_
        BY <1>1, <1>3, <2>1, Zenon DEF Place
      <3>2. p \in head_..(tail_ - 1) => p # tail[t]
        BY <1>2, <3>1
      <3>3. p # tail[t] => ~Writing(t, p)
        BY Zenon DEF Writing
      <3> QED
        BY <1>3, <1>6, <2>1, <3>2, <3>3, Zenon DEF Full
    <2>2. CASE ~DynamicSize
      <3>1. tail[t] \in head_..(tail_ - 1)
        BY <1>1, <1>2, <1>3, <2>2 DEF Place
      <3>2. \A u \in Threads : Writing(u, tail[t]) => u = t
        BY <1>1, <1>2, <1>9, Zenon DEF Positions
      <3>3. p # tail[t] => ~Writing(t, p)
        BY Zenon DEF Writing
      <3> QED
        BY <1>3, <1>6, <2>2, <3>1, <3>2, <3>3, Zenon DEF Full
    <2> QED
      BY <2>1, <2>2, Zenon
  <1>13. ASSUME NEW p \in Nat
         PROVE  /\ Ripe(p)' <=> Ripe(p) \/ p = tail[t]
                /\ Holds(p)' <=> Holds(p) \/ (p = tail[t] /\ ~DynamicSize)
    <2>1. DynamicSize => tail[t] = tail_ /\ (\E u \in Threads : pc[u] = "advance")'
      BY <1>1, <1>3, Zenon DEF Place
    <2>2. ~DynamicSize => \A u \in Threads : pc[u] # "advance" /\ pc'[u] # "advance"
      BY <1>1, <1>3, Zenon DEF Roles, Role, Others
    <2> QED
      BY <1>3, <1>11, <1>12, <2>1, <2>2, Zenon DEF Ripe, Holds
  <1>14. Flags'
    <2>1. ASSUME NEW p \in Nat, Full(p)' PROVE p - head_ + 1 < size_
      BY <1>1, <1>8, <1>12, <2>1, Zenon DEF Flags
    <2>2. ready_' \subseteq 0..(size_ - 1)
      BY <1>1, <1>2, <1>3, IndexOf, Zenon DEF Flags
    <2>3. ASSUME NEW p \in head_..(head_ + size_ - 1)
          PROVE  Index(p) \in ready_' <=> Ripe(p)'
      <3>1. p \in Nat /\ head_ <= p /\ p - head_ < size_
        BY <1>2
      <3>2. p # tail[t] => Index(p) # Index(tail[t])
        BY <1>1, <1>2, <1>8, <3>1, Apart, Zenon
      <3>3. Index(p) \in ready_ <=> Ripe(p)
        BY <1>1, Zenon DEF Flags
      <3> QED
        BY <1>3, <1>13, <3>1, <3>2, <3>3, Zenon
    <2> QED
      BY <1>3, <1>10, <2>1, <2>2, <2>3, Zenon DEF Flags
  <1>15. data_[Index(tail[t])] = val[t]
    BY <1>1, <1>3, Zenon DEF Written
  <1>16. Data'
    <2>1. ASSUME NEW u \in Threads \ {t} PROVE Valued(u)' /\ Written(u)'
      <3>1. Valued(u) /\ Written(u)
        BY <1>1, Zenon DEF Data
      <3> QED
        BY <1>3, <1>10, <3>1, Zenon DEF Valued, Written, Pushing, Others
    <2>2. Valued(t)' /\ Written(t)'
      BY <1>1, <1>3, <1>10, Zenon DEF Valued, Written, Pushing
    <2>3. ASSUME NEW p \in Nat, Holds(p)' PROVE data_'[Index(p)'] \in Returned'
      BY <1>1, <1>3, <1>10, <1>13, <1>15, <2>3, Zenon DEF Data
    <2> QED
      BY <1>1, <1>3, <1>10, <2>1, <2>2, <2>3, Zenon DEF Data
  <1>17. Accounted'
    <2>1. ASSUME NEW v \in Returned', ~ErrorOnNoSpace
          PROVE  \/ \E i \in 1..Len(out') : out'[i] = v
                 \/ \E p \in Nat : Holds(p)' /\ data_'[Index(p)'] = v
      <3>1. CASE v \in Returned
        BY <1>1, <1>3, <1>10, <1>13, <2>1, <3>1, Zenon DEF Accounted
      <3>2. CASE v \notin Returned
        <4>1. v = val[t] /\ ~DynamicSize
          BY <1>10, <3>2, Zenon
        <4> QED
          BY <1>2, <1>3, <1>10, <1>13, <1>15, <4>1, Zenon
      <3> QED
        BY <3>1, <3>2, Zenon
    <2> QED
      BY <1>3, <2>1, Zenon DEF Accounted, ErrorOnNoSpace, Others
  <1> QED
    BY <1>4, <1>5, <1>7, <1>14, <1>16, <1>17, Zenon DEF IInv

\* The growing ring counts the entry: EmplaceImpl returns.
LEMMA AdvanceStep ==
    ASSUME IInv, NEW t \in Threads, Advance(t)
    PROVE  IInv'
  <1>1. /\ Types /\ Roles /\ Mutex /\ Positions /\ Flags /\ Data /\ Accounted
        /\ Ring /\ Locals /\ Role(t) /\ Place(t) /\ Valued(t) /\ Written(t)
    BY Zenon DEF IInv, Types, Roles, Positions, Data
  <1>2. /\ head_ \in Nat /\ tail_ \in Nat /\ size_ \in Nat /\ head_ <= tail_
        /\ head[t] \in Nat /\ tail[t] \in Nat /\ calls[t] \in Nat
    BY <1>1, Zenon DEF Types, Ring, Locals, Positions
  <1>3. /\ Others(t)
        /\ pc[t] = "advance" /\ pc'[t] = Leave(t) /\ op[t] = "push"
        /\ tail_' = tail[t] + 1 /\ calls'[t] = calls[t] + 1
        /\ head'[t] = head[t] /\ tail'[t] = tail[t]
        /\ op'[t] = op[t] /\ val'[t] = val[t]
        /\ size_' = size_ /\ ready_' = ready_ /\ data_' = data_ /\ head_' = head_
        /\ lock_' = lock_ /\ out' = out
    BY <1>1, Zenon DEF Locals, Others, Advance, Goto, At, Return, queue_
  <1>4. Types'
    <2>1. Locals'
      BY <1>1, <1>2 DEF Locals, Labels, Advance, Goto, Return, Leave
    <2>2. Ring'
      BY <1>1, <1>3, Zenon DEF Ring
    <2> QED
      BY <1>1, <1>2, <1>3, <2>1, <2>2 DEF Types, Others
  <1>5. Roles' /\ Mutex'
    <2>1. Role(t)'
      BY <1>1, <1>3, Zenon DEF Role, Pushing, Others, Locked, DynamicSize, Leave
    <2>2. (Ticketed(t)' <=> Ticketed(t)) /\ Inside(t)
      BY <1>1, <1>3, Zenon DEF Ticketed, Inside, Role, Others, Locked, Leave
    <2> QED
      BY <1>1, <1>3, <2>1, <2>2, RolesKept, MutexKept, Zenon
  <1>6. DynamicSize /\ tail[t] = tail_ /\ tail_' = tail_ + 1
    BY <1>1, <1>3, Zenon DEF Role, Place
  <1>7. \A u \in Threads \ {t} : ~Inside(u)
    BY <1>1, <1>3, <1>6, OneInside, Zenon DEF Inside
  <1>8. /\ pc'[t] \in {"unlock", "idle"}
        /\ \A u \in Threads : \A p : ~Writing(u, p) /\ ~Writing(u, p)'
    BY <1>3, <1>7, Zenon DEF Writing, Inside, Others, Leave
  <1>9. Positions'
    <2>1. ASSUME NEW u \in Threads PROVE Place(u)'
      BY <1>3, <1>7, <1>8, Zenon DEF Place, Inside, Others
    <2>2. head_ <= tail_ + 1
      BY <1>2
    <2> QED
      BY <1>3, <1>6, <1>8, <2>1, <2>2, Zenon DEF Positions
  <1>10. /\ \A p : Index(p)' = Index(p)
         /\ Returned' = Returned \union {val[t]}
    BY <1>1, <1>3, ReturnedKept, Zenon DEF Index, Pushing
  <1>11. /\ ~Claimed /\ ~Claimed' /\ ~Taken /\ ~Taken'
         /\ \A u \in Threads : pc'[u] # "advance"
    BY <1>3, <1>7, <1>8, Zenon DEF Claimed, Taken, Inside, Others
  <1>12. ASSUME NEW p \in Nat
         PROVE  /\ Full(p)' <=> Full(p) \/ p = tail_
                /\ Ripe(p)' <=> Ripe(p)
                /\ Holds(p)' <=> Holds(p) \/ p = tail_
    <2>1. p \in head_..((tail_ + 1) - 1) <=> p \in head_..(tail_ - 1) \/ p = tail_
      BY <1>2
    <2>2. Full(p)' <=> Full(p) \/ p = tail_
      BY <1>3, <1>6, <1>8, <2>1, Zenon DEF Full
    <2> QED
      BY <1>3, <1>11, <2>2, Zenon DEF Ripe, Holds
  <1>13. Flags'
    <2>1. tail_ - head_ + 1 < size_
      BY <1>3, <1>6, InWindow, Zenon
    <2> QED
      BY <1>1, <1>2, <1>3, <1>12, <2>1, FlagsKept, Zenon DEF Flags
  <1>14. data_[Index(tail_)] = val[t]
    BY <1>1, <1>3, <1>6, Zenon DEF Written
  <1>15. Data'
    <2>1. ASSUME NEW u \in Threads \ {t} PROVE Valued(u)' /\ Written(u)'
      <3>1. Valued(u)
        BY <1>1, Zenon DEF Data
      <3> QED
        BY <1>3, <1>7, <3>1, Zenon DEF Valued, Written, Pushing, Inside, Others
    <2>2. Valued(t)' /\ Written(t)'
      BY <1>3, <1>8, Zenon DEF Valued, Written, Pushing
    <2>3. ASSUME NEW p \in Nat, Holds(p)' PROVE data_'[Index(p)'] \in Returned'
      BY <1>1, <1>3, <1>10, <1>12, <1>14, <2>3, Zenon DEF Data
    <2> QED
      BY <1>1, <1>3, <1>10, <2>1, <2>2, <2>3, Zenon DEF Data
  <1>16. Accounted'
    <2>1. ASSUME NEW v \in Returned', ~ErrorOnNoSpace
          PROVE  \/ \E i \in 1..Len(out') : out'[i] = v
                 \/ \E p \in Nat : Holds(p)' /\ data_'[Index(p)'] = v
      <3>1. CASE v \in Returned
        BY <1>1, <1>3, <1>10, <1>12, <2>1, <3>1, Zenon DEF Accounted
      <3>2. CASE v = val[t]
        BY <1>2, <1>3, <1>10, <1>12, <1>14, <3>2, Zenon
      <3> QED
        BY <1>10, <3>1, <3>2, Zenon
    <2> QED
      BY <1>3, <2>1, Zenon DEF Accounted, ErrorOnNoSpace, Others
  <1> QED
    BY <1>4, <1>5, <1>9, <1>13, <1>15, <1>16, Zenon DEF IInv

\* The flag that a Pop finds set is that of a position it may take.
LEMMA ClaimsARipe ==
    ASSUME IInv, NEW t \in Threads, At(t, "pop", "claim"), Index(head[t]) \in ready_
    PROVE  head[t] = head_ /\ Full(head_) /\ ~Claimed
  <1>1. Types /\ Roles /\ Mutex /\ Place(t) /\ Flags /\ pc[t] = "claim" /\ op[t] = "pop"
    BY Zenon DEF IInv, Positions, At
  <1>2. head[t] = head_ /\ head_ \in Nat /\ head_ \in head_..(head_ + size_ - 1)
    BY <1>1 DEF Place, Types, Ring
  <1>3. Ripe(head_)
    BY <1>1, <1>2, Zenon DEF Flags
  <1>4. ASSUME NEW u \in Threads, pc[u] = "advance" PROVE FALSE
    <2>1. DynamicSize /\ Inside(t) /\ Inside(u)
      BY <1>1, <1>4, Zenon DEF Roles, Role, Inside
    <2> QED
      BY <1>1, <1>4, <2>1, OneInside, Zenon
  <1>5. ASSUME NEW u \in Threads, pc[u] \in {"take", "release"} PROVE FALSE
    <2>1. op[u] = "pop" /\ Inside(t) /\ Inside(u)
      BY <1>1, <1>5, Zenon DEF Roles, Role, Inside
    <2> QED
      BY <1>1, <1>5, <2>1, OnePopper, Zenon
  <1> QED
    BY <1>2, <1>3, <1>4, <1>5, Zenon DEF Ripe, Claimed

\* PopUnlocked clears the flag of the entry, or finds it clear.
LEMMA ClaimStep ==
    ASSUME IInv, NEW t \in Threads, Claim(t)
    PROVE  IInv'
  <1>1. /\ Types /\ Roles /\ Mutex /\ Positions /\ Flags /\ Data /\ Accounted
        /\ Ring /\ Locals /\ Role(t) /\ Place(t) /\ Valued(t) /\ Written(t)
    BY Zenon DEF IInv, Types, Roles, Positions, Data
  <1>2. /\ head_ \in Nat /\ tail_ \in Nat /\ size_ \in Nat /\ head_ <= tail_
        /\ head[t] \in Nat /\ tail[t] \in Nat /\ calls[t] \in Nat
    BY <1>1, Zenon DEF Types, Ring, Locals, Positions
  <1>3. /\ Others(t)
        /\ pc[t] = "claim" /\ op[t] = "pop"
        /\ pc'[t] = IF Index(head[t]) \in ready_ THEN "take" ELSE Leave(t)
        /\ ready_' = IF Index(head[t]) \in ready_ THEN ready_ \ {Index(head[t])} ELSE ready_
        /\ head'[t] = head[t] /\ tail'[t] = tail[t]
        /\ op'[t] = op[t] /\ val'[t] = val[t] /\ calls'[t] = calls[t]
        /\ size_' = size_ /\ data_' = data_ /\ head_' = head_ /\ tail_' = tail_
        /\ lock_' = lock_ /\ out' = out
    BY <1>1, Zenon DEF Locals, Others, Claim, Goto, At, locals
  <1>4. Types'
    <2>1. Locals'
      BY <1>1, <1>2, Zenon DEF Locals, Labels, Claim, Goto, Leave, locals
    <2>2. Ring'
      BY <1>1, <1>3, Zenon DEF Ring
    <2> QED
      BY <1>1, <1>2, <1>3, <2>1, <2>2, Zenon DEF Types, Others
  <1>5. Roles' /\ Mutex'
    <2>1. Role(t)'
      BY <1>1, <1>3, Zenon DEF Role, Pushing, Others, Locked, DynamicSize, Leave
    <2>2. (Ticketed(t)' <=> Ticketed(t)) /\ Inside(t)
      BY <1>1, <1>3, Zenon DEF Ticketed, Inside, Role, Others, Locked, Leave
    <2> QED
      BY <1>1, <1>3, <2>1, <2>2, RolesKept, MutexKept, Zenon
  <1>6. CASE Index(head[t]) \notin ready_
    <2>1. Locals' /\ lock_' \in Seq(Threads) /\ Role(t)'
      BY <1>3, <1>4, <1>5, Zenon DEF Types, Roles
    <2>2. Quiet(t) /\ Place(t)' /\ Valued(t)'
      BY <1>3, <1>6, Zenon DEF Quiet, Has, Place, Valued, Pushing, Leave
    <2> QED
      BY <1>5, <2>1, <2>2, QuietStep, Zenon
  <1>7. CASE Index(head[t]) \in ready_
    <2>1. head[t] = head_ /\ Full(head_) /\ ~Claimed /\ pc'[t] = "take"
      BY <1>3, <1>7, ClaimsARipe, Zenon DEF At
    <2>2. \A u \in Threads : \A p \in Nat : Writing(u, p)' <=> Writing(u, p)
      BY <1>3, Zenon DEF Writing, Others
    <2>3. Positions'
      <3>1. head_ < tail_ /\ \A u \in Threads : ~Writing(u, head_)
        BY <1>2, <2>1 DEF Full
      <3>2. (\A u \in Threads : ~Writing(u, head_))'
        BY <1>2, <1>3, <2>2, <3>1, Zenon DEF Writing
      <3>3. Place(t)'
        BY <1>3, <2>1, <3>1, <3>2, Zenon DEF Place
      <3> QED
        BY <1>1, <1>2, <1>3, <2>2, <3>3, PositionsKept, Zenon
    <2>4. /\ Claimed' /\ ~Taken /\ ~Taken'
          /\ (\E u \in Threads : pc[u] = "advance")' <=> \E u \in Threads : pc[u] = "advance"
      BY <1>3, <2>1, Zenon DEF Claimed, Taken, Others
    <2>5. ~(head_ = tail_)
      BY <1>2, <2>1 DEF Full
    <2>6. ASSUME NEW p \in Nat
          PROVE  /\ Full(p)' <=> Full(p)
                 /\ Ripe(p)' <=> Ripe(p) /\ p # head_
                 /\ Holds(p)' <=> Holds(p)
      <3>1. Full(p)' <=> Full(p)
        BY <1>3, <2>2, Zenon DEF Full
      <3> QED
        BY <1>3, <2>1, <2>4, <2>5, <3>1, Zenon DEF Ripe, Holds
    <2>7. /\ \A p : Index(p)' = Index(p)
          /\ Returned' = Returned
      BY <1>3, ReturnedKept, Zenon DEF Index
    <2>8. Flags'
      <3>1. ASSUME NEW p \in head_..(head_ + size_ - 1)
            PROVE  Index(p) \in ready_' <=> Ripe(p)'
        <4>1. p \in Nat /\ head_ <= p /\ p - head_ < size_ /\ head_ <= head_ /\ head_ - head_ < size_
          BY <1>1, <1>2 DEF Ring
        <4>2. p # head_ => Index(p) # Index(head_)
          BY <1>1, <1>2, <4>1, Apart, Zenon
        <4>3. Index(p) \in ready_ <=> Ripe(p)
          BY <1>1, Zenon DEF Flags
        <4> QED
          BY <1>3, <1>7, <2>1, <2>6, <4>1, <4>2, <4>3, Zenon
      <3>2. ready_' \subseteq 0..(size_ - 1)
        BY <1>1, <1>3, Zenon DEF Flags
      <3> QED
        BY <1>1, <1>3, <2>6, <2>7, <3>1, <3>2, Zenon DEF Flags
    <2>9. Data'
      <3>1. ASSUME NEW u \in Threads PROVE Valued(u)' /\ Written(u)'
        <4>1. Valued(u) /\ Written(u)
          BY <1>1, Zenon DEF Data
        <4> QED
          BY <1>3, <2>1, <2>7, <4>1, Zenon DEF Valued, Written, Pushing, Others
      <3> QED
        BY <1>1, <1>3, <2>6, <2>7, <3>1, Zenon DEF Data
    <2>10. Accounted'
      BY <1>1, <1>3, <2>6, <2>7, Zenon DEF Accounted, ErrorOnNoSpace, Others
    <2> QED
      BY <1>4, <1>5, <2>3, <2>8, <2>9, <2>10, Zenon DEF IInv
  <1> QED
    BY <1>6, <1>7, Zenon

\* PopUnlocked reads the value and drops the entry's copy.
LEMMA TakeStep ==
    ASSUME IInv, NEW t \in Threads, Take(t)
    PROVE  /\ IInv'
           /\ \A p \in Nat : Holds(p) /\ p # head_ => data_'[Index(p)'] = data_[Index(p)]
  <1>1. /\ Types /\ Roles /\ Mutex /\ Positions /\ Flags /\ Data /\ Accounted
        /\ Ring /\ Locals /\ Role(t) /\ Place(t) /\ Valued(t) /\ Written(t)
    BY Zenon DEF IInv, Types, Roles, Positions, Data
  <1>2. /\ head_ \in Nat /\ tail_ \in Nat /\ size_ \in Nat /\ head_ <= tail_
        /\ head[t] \in Nat /\ tail[t] \in Nat /\ calls[t] \in Nat
    BY <1>1, Zenon DEF Types, Ring, Locals, Positions
  <1>3. /\ Others(t)
        /\ pc[t] = "take" /\ pc'[t] = "release" /\ op[t] = "pop"
        /\ out' = Append(out, data_[Index(head[t])])
        /\ data_' = [data_ EXCEPT ![Index(head[t])] = NoData]
        /\ head'[t] = head[t] /\ tail'[t] = tail[t]
        /\ op'[t] = op[t] /\ val'[t] = val[t] /\ calls'[t] = calls[t]
        /\ size_' = size_ /\ ready_' = ready_ /\ head_' = head_ /\ tail_' = tail_
        /\ lock_' = lock_
    BY <1>1, Zenon DEF Locals, Others, Take, Goto, At, locals
  <1>4. head[t] = head_ /\ head_ < tail_ /\ \A u \in Threads : ~Writing(u, head_)
    BY <1>1, <1>3, Zenon DEF Place
  <1>5. ~Taken
    <2>1. ASSUME NEW u \in Threads, pc[u] = "release" PROVE FALSE
      <3>1. op[u] = "pop" /\ Inside(u) /\ Inside(t)
        BY <1>1, <1>3, <2>1, Zenon DEF Roles, Role, Inside
      <3> QED
        BY <1>1, <1>3, <2>1, <3>1, OnePopper, Zenon
    <2> QED
      BY <2>1, Zenon DEF Taken
  <1>6. Full(head_) /\ Holds(head_)
    BY <1>2, <1>4, <1>5 DEF Full, Holds
  <1>7. data_[Index(head_)] \in Returned /\ data_[Index(head_)] \in Values /\ out' = Append(out, data_[Index(head_)])
    BY <1>1, <1>2, <1>3, <1>4, <1>6, Zenon DEF Data, Returned
  <1>8. Types'
    <2>1. Locals'
      BY <1>1, <1>2, Zenon DEF Locals, Labels, Take, Goto, locals
    <2>2. Ring'
      BY <1>1, <1>3, Zenon DEF Ring
    <2> QED
      BY <1>1, <1>2, <1>3, <1>7, <2>1, <2>2 DEF Types, Others
  <1>9. Roles' /\ Mutex'
    <2>1. Role(t)'
      BY <1>1, <1>3, Zenon DEF Role, Pushing, Others, Locked, DynamicSize
    <2>2. (Ticketed(t)' <=> Ticketed(t)) /\ Inside(t)
      BY <1>1, <1>3, Zenon DEF Ticketed, Inside, Role, Others, Locked
    <2> QED
      BY <1>1, <1>3, <2>1, <2>2, RolesKept, MutexKept, Zenon
  <1>10. \A u \in Threads : \A p \in Nat : Writing(u, p)' <=> Writing(u, p)
    BY <1>3, Zenon DEF Writing, Others
  <1>11. Positions'
    <2>1. (\A u \in Threads : ~Writing(u, head_))'
      BY <1>2, <1>3, <1>10, <1>4, Zenon DEF Writing
    <2>2. Place(t)'
      BY <1>3, <1>4, <2>1, Zenon DEF Place
    <2> QED
      BY <1>1, <1>2, <1>3, <1>10, <2>2, PositionsKept, Zenon
  <1>12. /\ (Claimed' <=> Claimed) /\ Taken'
         /\ (\E u \in Threads : pc[u] = "advance")' <=> \E u \in Threads : pc[u] = "advance"
    BY <1>3, Zenon DEF Claimed, Taken, Others
  <1>13. ASSUME NEW p \in Nat
        PROVE  /\ Full(p)' <=> Full(p)
               /\ Ripe(p)' <=> Ripe(p)
               /\ Holds(p)' <=> Holds(p) /\ p # head_
    <2>1. Full(p)' <=> Full(p)
      BY <1>3, <1>10, Zenon DEF Full
    <2>2. head_' = head_ /\ tail_' = tail_
      BY <1>3, Zenon
    <2>3. Ripe(p)' <=> Ripe(p)
      BY <1>12, <2>1, <2>2, Zenon DEF Ripe
    <2>4. Holds(p)' <=> Holds(p) /\ p # head_
      BY <1>5, <1>12, <2>1, <2>2, Zenon DEF Holds
    <2> QED
      BY <2>1, <2>3, <2>4, Zenon
  <1>14. /\ \A p : Index(p)' = Index(p)
         /\ Returned' = Returned
    BY <1>3, ReturnedKept, Zenon DEF Index
  <1>15. ASSUME NEW p \in Nat, p # head_, head_ <= p, p - head_ < size_
         PROVE  data_'[Index(p)] = data_[Index(p)]
    <2>1. head_ <= head_ /\ head_ - head_ < size_
      BY <1>1, <1>2 DEF Ring
    <2>2. Index(p) # Index(head_)
      BY <1>1, <1>2, <1>15, <2>1, Apart, Zenon
    <2>3. Index(p) \in 0..(size_ - 1)
      BY <1>1, IndexOf, Zenon
    <2> QED
      BY <1>1, <1>3, <1>4, <2>2, <2>3, Zenon DEF Ring
  <1>16. ASSUME NEW p \in Nat, Holds(p), p # head_
         PROVE  data_'[Index(p)] = data_[Index(p)]
    <2>1. head_ <= p /\ Full(p)
      BY <1>2, <1>16 DEF Holds, Full
    <2>2. p - head_ + 1 < size_
      BY <1>1, <2>1, Zenon DEF Flags
    <2>3. p - head_ < size_
      BY <1>2, <2>2
    <2> QED
      BY <1>15, <1>16, <2>1, <2>3, Zenon
  <1>17. ASSUME NEW u \in Threads \ {t} PROVE Valued(u)' /\ Written(u)'
    <2>1. Valued(u) /\ Written(u) /\ Role(u)
      BY <1>1, Zenon DEF Data, Roles
    <2>2. ASSUME pc[u] \in {"ready", "advance"}
          PROVE  data_'[Index(tail[u])] = data_[Index(tail[u])]
      <3>1. ~DynamicSize
        BY <1>1, <1>3, <2>2, OneInside, Zenon DEF Inside
      <3>2. Writing(u, tail[u])
        BY <2>1, <2>2, <3>1, Zenon DEF Role, Writing
      <3>3. tail[u] \in Nat /\ tail[u] # head_
        BY <1>1, <1>4, <3>2, Zenon DEF Locals
      <3>4. head_ <= tail[u] /\ tail[u] - head_ + 1 < size_
        BY <2>2, InWindow, Zenon
      <3>5. tail[u] - head_ < size_
        BY <1>2, <3>3, <3>4
      <3> QED
        BY <1>15, <3>3, <3>4, <3>5, Zenon
    <2> QED
      BY <1>3, <1>14, <2>1, <2>2, Zenon DEF Valued, Written, Pushing, Others
  <1>18. Flags'
    BY <1>1, <1>2, <1>3, <1>13, FlagsKept, Zenon DEF Flags
  <1>19. /\ Len(out) \in Nat /\ Len(out') = Len(out) + 1
         /\ \A i \in 1..Len(out) : out'[i] = out[i]
         /\ out'[Len(out) + 1] = data_[Index(head_)]
         /\ \A i \in 1..Len(out) : i \in 1..Len(out')
         /\ Len(out) + 1 \in 1..Len(out')
         /\ \A i \in 1..Len(out') : i \in 1..Len(out) \/ i = Len(out) + 1
    <2>1. out \in Seq(Values)
      BY <1>1, Zenon DEF Types
    <2> QED
      BY <2>1, <1>7
  <1>20. Data'
    <2>1. Valued(t)' /\ Written(t)'
      BY <1>3, Zenon DEF Valued, Written, Pushing
    <2>2. ASSUME NEW p \in Nat, Holds(p)' PROVE data_'[Index(p)'] \in Returned'
      BY <1>1, <1>13, <1>14, <1>16, <2>2, Zenon DEF Data
    <2>3. ASSUME NEW i \in 1..Len(out') PROVE out'[i] \in Returned'
      BY <1>1, <1>7, <1>14, <1>19, Zenon DEF Data
    <2> QED
      BY <1>17, <2>1, <2>2, <2>3, Zenon DEF Data
  <1>21. Accounted'
    <2>1. ASSUME NEW v \in Returned', ~ErrorOnNoSpace
          PROVE  \/ \E i \in 1..Len(out') : out'[i] = v
                 \/ \E p \in Nat : Holds(p)' /\ data_'[Index(p)'] = v
      <3>1. CASE \E i \in 1..Len(out) : out[i] = v
        BY <1>19, <3>1, Zenon
      <3>2. CASE \E p \in Nat : Holds(p) /\ data_[Index(p)] = v
        <4>1. PICK p \in Nat : Holds(p) /\ data_[Index(p)] = v
          BY <3>2, Zenon
        <4>2. CASE p = head_
          BY <1>19, <4>1, <4>2, Zenon
        <4>3. CASE p # head_
          BY <1>13, <1>14, <1>16, <4>1, <4>3, Zenon
        <4> QED
          BY <4>2, <4>3, Zenon
      <3> QED
        BY <1>1, <1>14, <2>1, <3>1, <3>2, Zenon DEF Accounted
    <2> QED
      BY <1>3, <2>1, Zenon DEF Accounted, ErrorOnNoSpace, Others
  <1>22. IInv'
    BY <1>8, <1>9, <1>11, <1>18, <1>20, <1>21, Zenon DEF IInv
  <1> QED
    BY <1>14, <1>16, <1>22, Zenon

\* PopUnlocked gives the entry back to the producers.
LEMMA ReleaseStep ==
    ASSUME IInv, NEW t \in Threads, Release(t)
    PROVE  IInv'
  <1>1. /\ Types /\ Roles /\ Mutex /\ Positions /\ Flags /\ Data /\ Accounted
        /\ Ring /\ Locals /\ Role(t) /\ Place(t) /\ Valued(t) /\ Written(t)
    BY Zenon DEF IInv, Types, Roles, Positions, Data
  <1>2. /\ head_ \in Nat /\ tail_ \in Nat /\ size_ \in Nat /\ head_ <= tail_
        /\ head[t] \in Nat /\ tail[t] \in Nat /\ calls[t] \in Nat
    BY <1>1, Zenon DEF Types, Ring, Locals, Positions
  <1>3. /\ Others(t)
        /\ pc[t] = "release" /\ pc'[t] = Leave(t) /\ op[t] = "pop"
        /\ head_' = head[t] + 1
        /\ head'[t] = head[t] /\ tail'[t] = tail[t]
        /\ op'[t] = op[t] /\ val'[t] = val[t] /\ calls'[t] = calls[t]
        /\ size_' = size_ /\ ready_' = ready_ /\ data_' = data_ /\ tail_' = tail_
        /\ lock_' = lock_ /\ out' = out
    BY <1>1, Zenon DEF Locals, Others, Release, Goto, At, locals, queue_
  <1>4. Types'
    <2>1. Locals'
      BY <1>1, <1>2, Zenon DEF Locals, Labels, Release, Goto, Leave, locals
    <2>2. Ring'
      BY <1>1, <1>3, Zenon DEF Ring
    <2> QED
      BY <1>1, <1>2, <1>3, <2>1, <2>2 DEF Types, Others
  <1>5. Roles' /\ Mutex'
    <2>1. Role(t)'
      BY <1>1, <1>3, Zenon DEF Role, Pushing, Others, Locked, DynamicSize, Leave
    <2>2. (Ticketed(t)' <=> Ticketed(t)) /\ Inside(t)
      BY <1>1, <1>3, Zenon DEF Ticketed, Inside, Role, Others, Locked, Leave
    <2> QED
      BY <1>1, <1>3, <2>1, <2>2, RolesKept, MutexKept, Zenon
  <1>6. /\ head[t] = head_ /\ head_ < tail_ /\ head_' = head_ + 1
        /\ \A u \in Threads : ~Writing(u, head_)
        /\ pc'[t] \in {"unlock", "idle"}
    BY <1>1, <1>3, Zenon DEF Place, Leave
  <1>7. \A u \in Threads : \A p \in Nat : Writing(u, p)' <=> Writing(u, p)
    BY <1>3, <1>6, Zenon DEF Writing, Others
  <1>8. \A u \in Threads \ {t} : pc[u] \notin {"tail", "claim", "take", "release"}
    <2>1. ASSUME NEW u \in Threads, pc[u] \in {"tail", "claim", "take", "release"} PROVE u = t
      <3>1. op[u] = "pop" /\ Inside(u) /\ Inside(t)
        BY <1>1, <1>3, <2>1, Zenon DEF Roles, Role, Inside
      <3> QED
        BY <1>1, <1>3, <3>1, OnePopper, Zenon
    <2> QED
      BY <2>1, Zenon
  <1>9. Positions'
    <2>1. ASSUME NEW u \in Threads \ {t} PROVE Place(u)'
      <3>1. /\ Place(u) /\ Role(u) /\ pc'[u] = pc[u] /\ head'[u] = head[u] /\ tail'[u] = tail[u]
            /\ head[u] \in Nat /\ tail[u] \in Nat
            /\ (DynamicSize' <=> DynamicSize) /\ (ErrorOnNoSpace' <=> ErrorOnNoSpace)
        BY <1>1, <1>3, Zenon DEF Positions, Roles, Others, Locals, DynamicSize, ErrorOnNoSpace
      <3>2. pc[u] \in {"space", "write", "ready"} => tail[u] # head_
        BY <1>6, <3>1, Zenon DEF Writing, Role
      <3>3. pc[u] \in {"write", "ready", "advance"} => tail[u] - head_' + 1 < size_'
        BY <1>2, <1>3, <1>6, <3>1 DEF Place
      <3>4. pc[u] \in {"reserve", "space"} => head[u] <= head_'
        BY <1>2, <1>6, <3>1 DEF Place
      <3>5. pc[u] \in {"space", "write", "ready"} /\ ~DynamicSize =>
               head_' <= tail[u] /\ tail[u] < tail_
        BY <1>2, <1>6, <3>1, <3>2 DEF Place
      <3>6. /\ pc[u] \in {"space", "write", "ready"} /\ ErrorOnNoSpace => tail[u] = tail_ - 1
            /\ pc[u] \in {"write", "ready", "advance"} /\ DynamicSize => tail[u] = tail_
        BY <3>1, Zenon DEF Place
      <3> QED
        BY <1>3, <1>8, <3>1, <3>3, <3>4, <3>5, <3>6, Zenon DEF Place
    <2>2. Place(t)'
      BY <1>6, Zenon DEF Place
    <2>3. head_ + 1 <= tail_
      BY SMTT(30), <1>2, <1>6
    <2> QED
      BY <1>1, <1>3, <1>6, <1>7, <2>1, <2>2, <2>3, Zenon DEF Positions
  <1>10. /\ Claimed /\ Taken /\ ~Claimed' /\ ~Taken'
         /\ \A u \in Threads : pc[u] # "advance" /\ pc'[u] # "advance"
    <2>1. ASSUME NEW u \in Threads, pc[u] = "advance" PROVE FALSE
      BY <1>1, <1>3, <2>1, OneInside, Zenon DEF Roles, Role, Inside
    <2> QED
      BY <1>3, <1>6, <1>8, <2>1 DEF Claimed, Taken, Others
  <1>11. ASSUME NEW p \in Nat
         PROVE  /\ Full(p)' <=> Full(p) /\ p # head_
                /\ Ripe(p)' <=> Ripe(p)
                /\ Holds(p)' <=> Holds(p)
    <2>1. p \in (head_ + 1)..(tail_ - 1) <=> p \in head_..(tail_ - 1) /\ p # head_
      BY <1>2
    <2>2. Full(p)' <=> Full(p) /\ p # head_
      BY <1>3, <1>6, <1>7, <2>1, Zenon DEF Full
    <2> QED
      BY <1>3, <1>10, <2>2, Zenon DEF Ripe, Holds
  <1>12. /\ \A p : Index(p)' = Index(p)
         /\ Returned' = Returned
    BY <1>3, ReturnedKept, Zenon DEF Index
  <1>13. Flags'
    <2>1. ASSUME NEW p \in Nat, Full(p)' PROVE p - (head_ + 1) + 1 < size_
      <3>1. p - head_ + 1 < size_
        BY <1>1, <1>11, <2>1, Zenon DEF Flags
      <3> QED
        BY <1>2, <3>1
    <2>2. ASSUME NEW p \in (head_ + 1)..((head_ + 1) + size_ - 1)
          PROVE  Index(p) \in ready_ <=> Ripe(p)'
      <3>1. p \in Nat
        BY <1>2
      <3>2. CASE p \in head_..(head_ + size_ - 1)
        BY <1>1, <1>11, <3>1, <3>2, Zenon DEF Flags
      <3>3. CASE p \notin head_..(head_ + size_ - 1)
        <4>1. p = head_ + size_ /\ size_ \in Nat \ {0}
          BY <1>1, <1>2, <3>3 DEF Ring
        <4>2. Index(p) = Index(head_)
          BY <1>2, <4>1, IndexWraps, Zenon DEF Index
        <4>3. head_ \in head_..(head_ + size_ - 1) /\ ~(p - head_ + 1 < size_)
          BY <1>2, <4>1
        <4>4. Index(head_) \notin ready_
          <5>1. ~Ripe(head_)
            BY <1>6, <1>10, Zenon DEF Ripe
          <5> QED
            BY <1>1, <4>3, <5>1, Zenon DEF Flags
        <4>5. ~Ripe(p)
          <5>1. ~Full(p)
            BY <1>1, <3>1, <4>3, Zenon DEF Flags
          <5> QED
            BY <1>10, <5>1, Zenon DEF Ripe
        <4> QED
          BY <1>11, <3>1, <4>2, <4>4, <4>5, Zenon
      <3> QED
        BY <3>2, <3>3, Zenon
    <2> QED
      BY <1>1, <1>3, <1>6, <1>12, <2>1, <2>2, Zenon DEF Flags
  <1>14. Data'
    <2>1. ASSUME NEW u \in Threads PROVE Valued(u)' /\ Written(u)'
      <3>1. Valued(u) /\ Written(u)
        BY <1>1, Zenon DEF Data
      <3> QED
        BY <1>3, <1>6, <1>12, <3>1, Zenon DEF Valued, Written, Pushing, Others
    <2> QED
      BY <1>1, <1>3, <1>11, <1>12, <2>1, Zenon DEF Data
  <1>15. Accounted'
    BY <1>1, <1>3, <1>11, <1>12, Zenon DEF Accounted, ErrorOnNoSpace, Others
  <1> QED
    BY <1>4, <1>5, <1>9, <1>13, <1>14, <1>15, Zenon DEF IInv

\* Grow makes a larger ring.
LEMMA NewSizeLarger ==
    ASSUME NEW n \in Nat \ {0, 1}
    PROVE  NewSize(n) \in Nat \ {0, 1} /\ NewSize(n) > n
  BY DEF NewSize

\* The entry a position had is the entry it has in the grown ring.
LEMMA GrownData ==
    ASSUME Ring, head_ \in Nat, tail_ \in Nat, NEW new \in Nat \ {0, 1}, tail_ - head_ <= new
    PROVE  /\ Grown(new) \in [0..(new - 1) -> Values \union {NoData}]
           /\ \A p \in Live : Grown(new)[p % new] = data_[Index(p)]
  <1>1. \A p \in Live : p \in Nat /\ p \in head_..(head_ + new - 1)
    BY DEF Live
  <1>2. ASSUME NEW p \in Live PROVE Index(p) \in 0..(size_ - 1) /\ p % new \in 0..(new - 1)
    BY <1>1, IndexOf, IndexInRing, Zenon
  <1>3. ASSUME NEW i, \E p \in Live : p % new = i
        PROVE  data_[Index(CHOOSE p \in Live : p % new = i)] \in Values \union {NoData}
    <2> DEFINE q == CHOOSE p \in Live : p % new = i
    <2>1. q \in Live
      BY <1>3, Zenon
    <2> HIDE DEF q
    <2>2. Index(q) \in 0..(size_ - 1)
      BY <1>2, <2>1, Zenon
    <2> QED
      BY <2>2, Zenon DEF Ring, q
  <1>4. Grown(new) \in [0..(new - 1) -> Values \union {NoData}]
    BY <1>3, Zenon DEF Grown
  <1>5. ASSUME NEW p \in Live PROVE Grown(new)[p % new] = data_[Index(p)]
    <2> DEFINE q == CHOOSE r \in Live : r % new = p % new
    <2>1. q \in Live /\ q % new = p % new
      BY Zenon
    <2> HIDE DEF q
    <2>2. q = p
      BY <1>1, <2>1, IndexInjective, Zenon
    <2>3. Grown(new)[p % new] = data_[Index(q)]
      BY <1>2, Zenon DEF Grown, q
    <2> QED
      BY <2>2, <2>3, Zenon
  <1> QED
    BY <1>4, <1>5, Zenon

\* So is its flag.
LEMMA GrownFlags ==
    ASSUME Ring, head_ \in Nat, tail_ \in Nat, NEW new \in Nat \ {0, 1}, tail_ - head_ <= new
    PROVE  /\ GrownReady(new) \subseteq 0..(new - 1)
           /\ \A p \in head_..(head_ + new - 1) :
                 p % new \in GrownReady(new) <=> p \in Live /\ Index(p) \in ready_
  <1>1. \A p \in Live : p \in Nat /\ p \in head_..(head_ + new - 1)
    BY DEF Live
  <1>2. ASSUME NEW p \in Live PROVE p % new \in 0..(new - 1)
    BY <1>1, IndexInRing, Zenon
  <1>3. ASSUME NEW p \in head_..(head_ + new - 1), p % new \in GrownReady(new)
        PROVE  p \in Live /\ Index(p) \in ready_
    <2>1. PICK q \in Live : Index(q) \in ready_ /\ q % new = p % new
      BY <1>3, Zenon DEF GrownReady
    <2>2. q = p
      BY <1>1, <2>1, IndexInjective, Zenon
    <2> QED
      BY <2>1, <2>2, Zenon
  <1>4. ASSUME NEW p \in Live, Index(p) \in ready_ PROVE p % new \in GrownReady(new)
    BY <1>4, Zenon DEF GrownReady
  <1>5. GrownReady(new) \subseteq 0..(new - 1)
    BY <1>2, Zenon DEF GrownReady
  <1> QED
    BY <1>3, <1>4, <1>5, Zenon

\* EmplaceImpl of a growing ring reads the positions, and grows a full ring.
LEMMA LoadGrowStep ==
    ASSUME IInv, NEW t \in Threads, LoadGrow(t)
    PROVE  /\ IInv'
           /\ \A p \in Live : data_'[Index(p)'] = data_[Index(p)]
  <1>1. /\ Types /\ Roles /\ Mutex /\ Positions /\ Flags /\ Data /\ Accounted
        /\ Ring /\ Locals /\ Role(t) /\ Place(t) /\ Valued(t) /\ Written(t)
    BY Zenon DEF IInv, Types, Roles, Positions, Data
  <1>2. /\ head_ \in Nat /\ tail_ \in Nat /\ size_ \in Nat /\ head_ <= tail_
        /\ head[t] \in Nat /\ tail[t] \in Nat /\ calls[t] \in Nat
    BY <1>1, Zenon DEF Types, Ring, Locals, Positions
  <1>3. /\ Others(t)
        /\ pc[t] = "load" /\ pc'[t] = "write" /\ op[t] = "push" /\ DynamicSize
        /\ head'[t] = head_ /\ tail'[t] = tail_
        /\ IF tail_ - head_ + 1 >= size_
           THEN /\ size_' = NewSize(size_)
                /\ data_' = Grown(NewSize(size_))
                /\ ready_' = GrownReady(NewSize(size_))
           ELSE size_' = size_ /\ data_' = data_ /\ ready_' = ready_
        /\ op'[t] = op[t] /\ val'[t] = val[t] /\ calls'[t] = calls[t]
        /\ head_' = head_ /\ tail_' = tail_ /\ lock_' = lock_ /\ out' = out
    BY <1>1, Zenon DEF Locals, Others, LoadGrow, Goto, At, queue_
  <1>4. Roles' /\ Mutex'
    <2>1. Role(t)'
      BY <1>1, <1>3, Zenon DEF Role, Pushing, Others, Locked, DynamicSize
    <2>2. (Ticketed(t)' <=> Ticketed(t)) /\ Inside(t)
      BY <1>1, <1>3, Zenon DEF Ticketed, Inside, Role, Others, Locked
    <2> QED
      BY <1>1, <1>3, <2>1, <2>2, RolesKept, MutexKept, Zenon
  <1>5. /\ \A u \in Threads \ {t} : ~Inside(u)
        /\ \A u \in Threads : \A p \in Nat : ~Writing(u, p)
        /\ \A u \in Threads : \A p \in Nat : Writing(u, p)' <=> u = t /\ p = tail_
    <2>1. \A u \in Threads \ {t} : ~Inside(u)
      BY <1>1, <1>3, OneInside, Zenon DEF Inside
    <2> QED
      BY <1>3, <2>1, Zenon DEF Writing, Inside, Others
  <1>6. /\ ~Claimed /\ ~Claimed' /\ ~Taken /\ ~Taken'
        /\ \A u \in Threads : pc[u] # "advance" /\ pc'[u] # "advance"
    BY <1>3, <1>5, Zenon DEF Claimed, Taken, Inside, Others
  <1>7. ASSUME NEW p \in Nat
        PROVE  /\ (Full(p) <=> p \in Live) /\ (Full(p)' <=> p \in Live)
               /\ (Ripe(p) <=> p \in Live) /\ (Ripe(p)' <=> p \in Live)
               /\ (Holds(p) <=> p \in Live) /\ (Holds(p)' <=> p \in Live)
    <2>1. p \in head_..(tail_ - 1) => p # tail_
      BY <1>2
    <2>2. (Full(p) <=> p \in Live) /\ (Full(p)' <=> p \in Live)
      BY <1>3, <1>5, <2>1, Zenon DEF Full, Live
    <2> QED
      BY <1>6, <2>2, Zenon DEF Ripe, Holds
  <1>8. \A p \in Live : p \in Nat /\ head_ <= p /\ p - head_ + 1 < size_
    <2>1. \A p \in Live : p \in Nat /\ head_ <= p
      BY <1>2 DEF Live
    <2> QED
      BY <1>1, <1>7, <2>1, Zenon DEF Flags
  <1>9. tail_ - head_ + 1 <= size_
    <2>1. head_ < tail_ => tail_ - 1 \in Live
      BY <1>2 DEF Live
    <2>2. head_ < tail_ => (tail_ - 1) - head_ + 1 < size_
      BY <1>8, <2>1, Zenon
    <2>3. size_ > 1
      BY <1>1 DEF Ring
    <2> QED
      BY <1>2, <2>2, <2>3
  <1> DEFINE new == NewSize(size_)
  <1>10. new \in Nat \ {0, 1} /\ new > size_ /\ tail_ - head_ <= new /\ tail_ - head_ + 1 < new
    <2>1. new \in Nat \ {0, 1} /\ new > size_
      BY <1>1, NewSizeLarger, Zenon DEF Ring
    <2> HIDE DEF new
    <2> QED
      BY <1>2, <1>9, <2>1
  <1> HIDE DEF new
  <1>11. CASE tail_ - head_ + 1 < size_ /\ size_' = size_ /\ data_' = data_ /\ ready_' = ready_
    <2>1. Locals'
      BY <1>1, <1>2, Zenon DEF Locals, Labels, LoadGrow, Goto
    <2>2. Types'
      BY <1>1, <1>3, <1>11, <2>1, Zenon DEF Types, Ring, Others
    <2>3. Place(t)' /\ \A u \in Threads \ {t} : Place(u)'
      BY <1>3, <1>5, <1>11, Zenon DEF Place, Inside, Others, DynamicSize, ErrorOnNoSpace
    <2>4. Positions'
      BY <1>1, <1>3, <1>5, <2>3, Zenon DEF Positions
    <2>5. Returned' = Returned
      BY <1>3, ReturnedKept, Zenon
    <2>6. Valued(t)' /\ Written(t)'
      BY <1>1, <1>3, Zenon DEF Valued, Written, Pushing
    <2>7. Flags' /\ Data' /\ Accounted'
      BY <1>1, <1>2, <1>3, <1>7, <1>11, <2>5, <2>6, EntriesKept, Zenon
    <2>8. IInv'
      BY <1>4, <2>2, <2>4, <2>7, Zenon DEF IInv
    <2> QED
      BY <1>11, <2>8, Zenon DEF Index
  <1>12. CASE size_' = new /\ data_' = Grown(new) /\ ready_' = GrownReady(new)
    <2>1. /\ data_' \in [0..(new - 1) -> Values \union {NoData}]
          /\ \A p \in Live : data_'[p % new] = data_[Index(p)]
      BY <1>1, <1>2, <1>10, <1>12, GrownData, Zenon
    <2>2. /\ ready_' \subseteq 0..(new - 1)
          /\ \A p \in head_..(head_ + new - 1) :
                p % new \in ready_' <=> p \in Live /\ Index(p) \in ready_
      BY <1>1, <1>2, <1>10, <1>12, GrownFlags, Zenon
    <2>3. Types'
      <3>1. Locals'
        BY <1>1, <1>2, Zenon DEF Locals, Labels, LoadGrow, Goto
      <3>2. Ring'
        BY <1>10, <1>12, <2>1, Zenon DEF Ring
      <3> QED
        BY <1>1, <1>3, <3>1, <3>2, Zenon DEF Types, Others
    <2>4. Positions'
      <3>1. Place(t)' /\ \A u \in Threads \ {t} : Place(u)'
        BY <1>3, <1>5, <1>10, <1>12, Zenon DEF Place, Inside, Others, DynamicSize, ErrorOnNoSpace
      <3> QED
        BY <1>1, <1>3, <1>5, <3>1, Zenon DEF Positions
    <2>5. /\ \A p : Index(p)' = p % new
          /\ Returned' = Returned
      BY <1>3, <1>12, ReturnedKept, Zenon DEF Index
    <2>6. Flags'
      <3>1. ASSUME NEW p \in Nat, Full(p)' PROVE p - head_ + 1 < new
        <4>1. p - head_ + 1 < size_
          BY <1>7, <1>8, <3>1, Zenon
        <4> QED
          BY <1>2, <1>10, <4>1
      <3>2. ASSUME NEW p \in Live PROVE Index(p) \in ready_
        <4>1. p \in Nat /\ p \in head_..(head_ + size_ - 1)
          BY <1>2, <1>8
        <4> QED
          BY <1>1, <1>7, <4>1, Zenon DEF Flags
      <3>3. ASSUME NEW p \in head_..(head_ + new - 1)
            PROVE  p % new \in ready_' <=> Ripe(p)'
        <4>1. p \in Nat
          BY <1>2, <1>10
        <4> QED
          BY <1>7, <2>2, <3>2, <4>1, Zenon
      <3> QED
        BY <1>3, <1>12, <2>2, <2>5, <3>1, <3>3, Zenon DEF Flags
    <2>7. Data'
      <3>1. ASSUME NEW u \in Threads PROVE Valued(u)' /\ Written(u)'
        <4>1. Valued(u)
          BY <1>1, Zenon DEF Data
        <4> QED
          BY <1>3, <1>5, <4>1, Zenon DEF Valued, Written, Pushing, Inside, Others
      <3>2. ASSUME NEW p \in Nat, Holds(p)' PROVE data_'[p % new] \in Returned
        BY <1>1, <1>7, <2>1, <3>2, Zenon DEF Data
      <3> QED
        BY <1>1, <1>3, <2>5, <3>1, <3>2, Zenon DEF Data
    <2>8. Accounted'
      <3>1. ASSUME NEW v \in Returned, ~ErrorOnNoSpace
            PROVE  \/ \E i \in 1..Len(out) : out[i] = v
                   \/ \E p \in Nat : Holds(p)' /\ data_'[p % new] = v
        BY <1>1, <1>7, <2>1, <3>1, Zenon DEF Accounted
      <3> QED
        BY <1>3, <2>5, <3>1, Zenon DEF Accounted, ErrorOnNoSpace, Others
    <2>9. IInv'
      BY <1>4, <2>3, <2>4, <2>6, <2>7, <2>8, Zenon DEF IInv
    <2> QED
      BY <2>1, <2>5, <2>9, Zenon
  <1>13. ~(tail_ - head_ + 1 >= size_) => tail_ - head_ + 1 < size_
    BY <1>2
  <1> QED
    BY <1>3, <1>11, <1>12, <1>13, Zenon DEF new

-----------------------------------------------------------------------------
(* The invariant.                                                          *)

\* An empty ring with no call in progress.
LEMMA InitInv ==
    Init => IInv
  <1> SUFFICES ASSUME Init PROVE IInv
    BY Zenon
  <1>1. /\ \A t \in Threads : pc[t] = "idle" /\ op[t] = "pop" /\ calls[t] = 0
        /\ head_ = 0 /\ tail_ = 0 /\ lock_ = <<>> /\ out = <<>> /\ ready_ = {}
        /\ size_ \in Nat \ {0, 1}
    BY RingAssumption DEF Init
  <1>2. Types
    BY <1>1 DEF Init, Types, Ring, Locals, Labels
  <1>3. Roles /\ Mutex /\ Positions
    <2>1. Len(lock_) = 0 /\ 1..Len(lock_) = {}
      BY <1>1
    <2> QED
      BY <1>1, <2>1 DEF Roles, Role, Pushing, Mutex, Ticketed, Positions, Place, Writing
  <1>4. \A p : ~Full(p)
    BY <1>1 DEF Full
  <1>5. \A p : ~Ripe(p) /\ ~Holds(p)
    BY <1>1, <1>4, Zenon DEF Ripe, Holds
  <1>6. Returned = {}
    <2>1. \A v \in Values : v[1] \in Threads /\ v[2] \in Nat \ {0}
      BY RingAssumption DEF Values
    <2> QED
      BY <1>1, <2>1 DEF Returned
  <1>7. 1..Len(out) = {}
    BY <1>1
  <1> QED
    BY <1>1, <1>2, <1>3, <1>4, <1>5, <1>6, <1>7, Zenon
       DEF IInv, Flags, Data, Accounted, Valued, Written, Pushing

\* A step of the ring keeps the invariant, whatever the flags.
LEMMA StepInv ==
    ASSUME IInv, NEW t \in Threads, Step(t)
    PROVE  IInv'
  BY PushStep, PopStep, LockStep, UnlockStep, LoadHeadStep, ReserveStep, HasSpaceStep,
     SpinStep, RefuseStep, WriteStep, SetReadyStep, LoadGrowStep, AdvanceStep,
     PopHeadStep, PopTailStep, ClaimStep, TakeStep, ReleaseStep, Zenon DEF Step

\* A step that changes nothing keeps it too.
LEMMA StutterInv ==
    ASSUME IInv, UNCHANGED vars
    PROVE  IInv'
  <1>1. /\ kind' = kind /\ size_' = size_ /\ ready_' = ready_ /\ data_' = data_
        /\ head_' = head_ /\ tail_' = tail_ /\ lock_' = lock_ /\ out' = out
        /\ pc' = pc /\ op' = op /\ val' = val /\ head' = head /\ tail' = tail /\ calls' = calls
    BY Zenon DEF vars, queue_, locals
  <1>2. /\ \A t, p : Writing(t, p)' <=> Writing(t, p)
        /\ (Claimed' <=> Claimed) /\ (Taken' <=> Taken)
        /\ \A p : Index(p)' = Index(p)
        /\ Returned' = Returned
    BY <1>1, Zenon DEF Writing, Claimed, Taken, Index, Returned
  <1>3. \A p : (Full(p)' <=> Full(p)) /\ (Ripe(p)' <=> Ripe(p)) /\ (Holds(p)' <=> Holds(p))
    BY <1>1, <1>2, Zenon DEF Full, Ripe, Holds
  <1>4. Types' /\ Roles' /\ Mutex'
    BY <1>1 DEF IInv, Types, Ring, Locals, Roles, Role, Pushing, Locked, DynamicSize,
                Mutex, Ticketed, Inside
  <1>5. (\A t \in Threads : Place(t))'
    <2> SUFFICES ASSUME NEW t \in Threads PROVE Place(t)'
      BY Zenon
    <2>1. Place(t)
      BY Zenon DEF IInv, Positions
    <2> QED
      BY <1>1, <2>1, Zenon DEF Place, Writing, DynamicSize, ErrorOnNoSpace
  <1>6. Positions'
    BY <1>1, <1>2, <1>5, Zenon DEF IInv, Positions
  <1>7. Flags'
    BY <1>1, <1>2, <1>3, Zenon DEF IInv, Flags
  <1>8. Data' /\ Accounted'
    BY <1>1, <1>2, <1>3, Zenon DEF IInv, Data, Accounted, Valued, Written, Pushing, ErrorOnNoSpace
  <1> QED
    BY <1>4, <1>6, <1>7, <1>8, Zenon DEF IInv

\* Every entry is where the counters, the flags and the calls in progress say:
\* the invariant the properties of the ring rest on.
THEOREM RingInvariant == Spec => []IInv
  <1>1. Init => IInv
    BY InitInv, Zenon
  <1>2. IInv /\ [Next]_vars => IInv'
    BY StepInv, StutterInv, Zenon DEF Next
  <1> QED
    BY <1>1, <1>2, PTL DEF Spec

\* Empty() on the park path of a worker: when the counters are equal, every
\* value whose Push has returned has been delivered.
THEOREM RingEmptyMeansDrained == Spec => []EmptyMeansDrained
  <1>1. IInv => EmptyMeansDrained
    <2> SUFFICES ASSUME IInv, head_ = tail_, ~ErrorOnNoSpace, NEW v \in Returned
                 PROVE  v \in Range(out)
      BY Zenon DEF EmptyMeansDrained
    <2>1. head_ \in Nat /\ tail_ \in Nat /\ out \in Seq(Values)
      BY Zenon DEF IInv, Types
    <2>2. \A p : ~Holds(p)
      BY <2>1 DEF Holds, Full
    <2>3. PICK i \in 1..Len(out) : out[i] = v
      BY <2>2, Zenon DEF IInv, Accounted
    <2>4. DOMAIN out = 1..Len(out)
      BY <2>1
    <2> QED
      BY <2>3, <2>4, Zenon DEF Range
  <1> QED
    BY <1>1, RingInvariant, PTL

-----------------------------------------------------------------------------
(* The ring implements Fifo.                                               *)

\* The values of the positions from o up to n.
Between(V, o, n) == [i \in 1..(n - o) |-> V[o + i - 1]]

\* The values there are the same.
Agree(V, W, o, n) == \A p \in o..(n - 1) : W[p] = V[p]

\* A sequence is a function of its indices.
LEMMA SeqIsFunction ==
    ASSUME NEW S, NEW s \in Seq(S)
    PROVE  s \in [1..Len(s) -> S]
  OBVIOUS

\* The same values make the same sequence.
LEMMA BetweenSame ==
    ASSUME NEW V, NEW W, NEW o \in Nat, NEW n \in Nat,
           Agree(V, W, o, n)
    PROVE  Between(W, o, n) = Between(V, o, n)
  <1>1. \A i \in 1..(n - o) : o + i - 1 \in o..(n - 1)
    OBVIOUS
  <1> QED
    BY <1>1, Zenon DEF Between, Agree

\* It is a sequence, with an element for each position.
LEMMA BetweenSeq ==
    ASSUME NEW V, NEW o \in Nat, NEW n \in Nat, o <= n
    PROVE  /\ Between(V, o, n) \in Seq({V[p] : p \in o..(n - 1)})
           /\ Len(Between(V, o, n)) = n - o
  <1> DEFINE S == {V[p] : p \in o..(n - 1)}
  <1>1. \A i \in 1..(n - o) : V[o + i - 1] \in S
    OBVIOUS
  <1>2. Between(V, o, n) \in [1..(n - o) -> S]
    BY <1>1, Zenon DEF Between
  <1>3. n - o \in Nat
    OBVIOUS
  <1> HIDE DEF S
  <1>4. Between(V, o, n) \in Seq(S) /\ Len(Between(V, o, n)) = n - o
    BY <1>2, <1>3
  <1> QED
    BY <1>4, Zenon DEF S

\* The second sequence is the first with one more value.
Extends(V, W, o, n) == Between(W, o, n + 1) = Append(Between(V, o, n), W[n])

\* One position more is one value more at the end.
LEMMA BetweenAppend ==
    ASSUME NEW V, NEW W, NEW o \in Nat, NEW n \in Nat, o <= n,
           Agree(V, W, o, n)
    PROVE  Extends(V, W, o, n)
  <1> DEFINE s == Between(V, o, n)
             S == {V[p] : p \in o..(n - 1)}
  <1>1. n - o \in Nat
    OBVIOUS
  <1>2. s \in Seq(S) /\ Len(s) = n - o
    BY BetweenSeq, Zenon
  <1>3. \A i \in 1..(n - o) : s[i] = V[o + i - 1] /\ o + i - 1 \in o..(n - 1)
    BY DEF Between
  <1> HIDE DEF s, S
  <1>4. /\ Append(s, W[n]) = [i \in 1..(n - o + 1) |-> IF i = n - o + 1 THEN W[n] ELSE s[i]]
    BY <1>1, <1>2
  <1>5. \A i \in 1..((n + 1) - o) :
           W[o + i - 1] = IF i = n - o + 1 THEN W[n] ELSE s[i]
    BY <1>3 DEF Agree
  <1>6. (n + 1) - o = n - o + 1
    OBVIOUS
  <1> QED
    BY <1>4, <1>5, <1>6, Zenon DEF Between, Extends, s

\* The second sequence is the first without its head.
Beheads(V, W, o, n) ==
    /\ Between(V, o, n) # <<>>
    /\ Head(Between(V, o, n)) = V[o]
    /\ Tail(Between(V, o, n)) = Between(W, o + 1, n)

\* One position less at the start is the sequence without its head.
LEMMA BetweenTail ==
    ASSUME NEW V, NEW W, NEW o \in Nat, NEW n \in Nat, o < n,
           Agree(V, W, o + 1, n)
    PROVE  Beheads(V, W, o, n)
  <1> DEFINE s == Between(V, o, n)
             S == {V[p] : p \in o..(n - 1)}
  <1>1. n - o \in Nat \ {0} /\ o <= n
    OBVIOUS
  <1>2. s \in Seq(S) /\ Len(s) = n - o
    BY <1>1, BetweenSeq, Zenon
  <1>3. \A i \in 1..(n - o) : s[i] = V[o + i - 1]
    BY Zenon DEF Between
  <1> HIDE DEF s, Beheads, S
  <1>4. s # <<>> /\ Head(s) = s[1] /\ s[1] = V[o]
    BY <1>1, <1>2, <1>3
  <1>5. Tail(s) = [i \in 1..(n - o - 1) |-> s[i + 1]]
    <2>1. Tail(s) \in Seq(S) /\ Len(Tail(s)) = n - o - 1
      BY <1>1, <1>2
    <2>2. Tail(s) \in [1..(n - o - 1) -> S]
      BY <2>1, SeqIsFunction, Zenon
    <2>3. \A i \in 1..(n - o - 1) : Tail(s)[i] = s[i + 1]
      BY <1>1, <1>2
    <2>4. Tail(s) = [i \in 1..(n - o - 1) |-> Tail(s)[i]]
      BY <2>2, Zenon
    <2> QED
      BY <2>3, <2>4, Zenon
  <1>6. \A i \in 1..(n - (o + 1)) : s[i + 1] = W[(o + 1) + i - 1]
    <2> SUFFICES ASSUME NEW i \in 1..(n - (o + 1)) PROVE s[i + 1] = W[(o + 1) + i - 1]
      BY Zenon
    <2>1. i + 1 \in 1..(n - o) /\ o + (i + 1) - 1 = (o + 1) + i - 1 /\ (o + 1) + i - 1 \in (o + 1)..(n - 1)
      OBVIOUS
    <2> QED
      BY <1>3, <2>1, Zenon DEF Agree
  <1>7. n - o - 1 = n - (o + 1)
    OBVIOUS
  <1>8. Tail(s) = Between(W, o + 1, n)
    BY <1>5, <1>6, <1>7, Zenon DEF Between
  <1> QED
    BY <1>4, <1>8, Zenon DEF s, Beheads

\* The values of all positions, and the ends of the queue among them.
ValueOf == [p \in Nat |-> ValueAt(p)]

Ends == Oldest \in Nat /\ Newest \in Nat /\ Oldest <= Newest

\* The queue ends where the calls in progress say.
LEMMA EndsInOrder ==
    IInv => Ends
  <1> SUFFICES ASSUME IInv PROVE Ends
    BY Zenon
  <1>1. Types /\ Roles /\ Positions /\ head_ \in Nat /\ tail_ \in Nat /\ head_ <= tail_
    BY Zenon DEF IInv, Types, Positions
  <1>2. ASSUME NEW t \in Threads, At(t, "pop", "release")
        PROVE  head_ < tail_ /\ \A u \in Threads : ~Writing(u, head_)
    BY <1>1, <1>2, Zenon DEF At, Positions, Place
  <1>3. ASSUME NEW t \in Threads, At(t, "push", "space"), ErrorOnNoSpace
        PROVE  tail[t] = tail_ - 1 /\ head_ <= tail[t] /\ Writing(t, tail[t])
    BY <1>1, <1>3, Zenon DEF At, Positions, Place, Writing, ErrorOnNoSpace, DynamicSize
  <1>4. ASSUME NEW t \in Threads, At(t, "pop", "release"),
               NEW u \in Threads, At(u, "push", "space"), ErrorOnNoSpace
        PROVE  head_ + 1 <= tail_ - 1
    <2>1. tail[u] # head_ /\ tail[u] = tail_ - 1 /\ head_ <= tail[u]
      BY <1>2, <1>3, <1>4, Zenon
    <2> QED
      BY <1>1, <2>1
  <1> DEFINE R == \E t \in Threads : At(t, "pop", "release")
             N == ErrorOnNoSpace /\ \E t \in Threads : At(t, "push", "space")
  <1>5. /\ R => head_ + 1 <= tail_
        /\ N => head_ <= tail_ - 1
        /\ R /\ N => head_ + 1 <= tail_ - 1
    <2>1. R => head_ < tail_
      BY <1>2, Zenon
    <2>2. N => head_ <= tail_ - 1
      BY <1>3, Zenon
    <2>3. R /\ N => head_ + 1 <= tail_ - 1
      BY <1>4, Zenon
    <2> HIDE DEF R, N
    <2> QED
      BY <1>1, <2>1, <2>2, <2>3
  <1>6. Oldest = head_ + (IF R THEN 1 ELSE 0) /\ Newest = tail_ - (IF N THEN 1 ELSE 0)
    BY Zenon DEF Oldest, Newest
  <1> HIDE DEF R, N
  <1> QED
    BY <1>1, <1>5, <1>6 DEF Ends

\* The positions of a sequence of positions.
LEMMA Offsets ==
    ASSUME NEW o \in Nat, NEW n \in Nat
    PROVE  /\ \A i \in 1..(n - o) : o + i - 1 \in Nat /\ o + i - 1 \in o..(n - 1)
           /\ \A p \in o..(n - 1) : p \in Nat
           /\ \A p \in (o + 1)..(n - 1) : p \in Nat
  OBVIOUS

\* The queue is the values between its ends, before and after a step.
LEMMA QueueBetween ==
    ASSUME Ends, Ends'
    PROVE  /\ Queued = Between(ValueOf, Oldest, Newest)
           /\ Queued' = Between(ValueOf', Oldest', Newest')
  <1>1. \A i \in 1..(Newest - Oldest) : Oldest + i - 1 \in Nat
    BY Offsets, Zenon DEF Ends
  <1>2. \A i \in 1..(Newest' - Oldest') : Oldest' + i - 1 \in Nat
    BY Offsets, Zenon DEF Ends
  <1>3. Queued = Between(ValueOf, Oldest, Newest)
    BY <1>1, Zenon DEF Queued, Between, ValueOf
  <1>4. Queued' = Between(ValueOf', Oldest', Newest')
    BY <1>2, Zenon DEF Queued, Between, ValueOf, ValueAt, Writing, Index
  <1> QED
    BY <1>3, <1>4, Zenon

\* A step that keeps the ends and the values of the queue.
LEMMA Stutters ==
    ASSUME Ends, Ends', Oldest' = Oldest, Newest' = Newest, out' = out,
           \A p \in Nat : p \in Oldest..(Newest - 1) => ValueAt(p)' = ValueAt(p)
    PROVE  UNCHANGED F!vars
  <1>1. \A p \in Nat : ValueOf[p] = ValueAt(p) /\ ValueOf'[p] = ValueAt(p)'
    BY Zenon DEF ValueOf
  <1>2. Agree(ValueOf, ValueOf', Oldest, Newest)
    BY <1>1, Offsets, Zenon DEF Ends, Agree
  <1>3. Between(ValueOf', Oldest, Newest) = Between(ValueOf, Oldest, Newest)
    BY <1>2, BetweenSame DEF Ends
  <1>4. Queued' = Queued
    BY <1>3, QueueBetween, Zenon
  <1> QED
    BY <1>4, Zenon DEF F!vars

\* A step that adds a new value at the end of the queue.
LEMMA Enqueues ==
    ASSUME Ends, Ends', NEW n, n = Newest, Oldest' = Oldest, Newest' = n + 1, out' = out,
           NEW v \in Values, ValueAt(n)' = v, out \in Seq(Values),
           \A p \in Nat : p \in Oldest..(n - 1) => ValueAt(p)' = ValueAt(p) /\ ValueAt(p) # v,
           \A i \in 1..Len(out) : out[i] # v
    PROVE  F!Next
  <1>1. \A p \in Nat : ValueOf[p] = ValueAt(p) /\ ValueOf'[p] = ValueAt(p)'
    BY Zenon DEF ValueOf
  <1>2. /\ n \in Nat /\ Oldest \in Nat /\ Oldest <= n
        /\ Agree(ValueOf, ValueOf', Oldest, n)
        /\ \A p \in Oldest..(n - 1) : ValueOf[p] # v
        /\ \A i \in 1..(n - Oldest) : Oldest + i - 1 \in Oldest..(n - 1)
    BY <1>1, Offsets, Zenon DEF Ends, Agree
  <1>3. Between(ValueOf', Oldest, n + 1) = Append(Between(ValueOf, Oldest, n), ValueOf'[n])
    <2>1. Extends(ValueOf, ValueOf', Oldest, n)
      BY <1>2, BetweenAppend, Zenon
    <2> QED
      BY <2>1, Zenon DEF Extends
  <1>4. Queued' = Append(Queued, v)
    BY <1>1, <1>2, <1>3, QueueBetween, Zenon
  <1>5. v \notin F!Range(Queued)
    <2>1. Queued = [i \in 1..(n - Oldest) |-> ValueOf[Oldest + i - 1]]
      BY QueueBetween, Zenon DEF Between
    <2>2. \A i \in 1..(n - Oldest) : ValueOf[Oldest + i - 1] # v
      BY <1>2, Zenon
    <2> QED
      BY <2>1, <2>2, Zenon DEF F!Range
  <1>6. v \notin F!Range(out)
    <2>1. DOMAIN out = 1..Len(out)
      OBVIOUS
    <2> QED
      BY <2>1, Zenon DEF F!Range
  <1> QED
    BY <1>4, <1>5, <1>6, Zenon DEF F!Next, F!Enqueue

\* A step that delivers the oldest value of the queue.
LEMMA Dequeues ==
    ASSUME Ends, Ends', NEW o, o = Oldest, o < Newest, Oldest' = o + 1, Newest' = Newest,
           out' = Append(out, ValueAt(o)),
           \A p \in Nat : p \in (o + 1)..(Newest - 1) => ValueAt(p)' = ValueAt(p)
    PROVE  F!Next
  <1>1. \A p \in Nat : ValueOf[p] = ValueAt(p) /\ ValueOf'[p] = ValueAt(p)'
    BY Zenon DEF ValueOf
  <1>2. /\ o \in Nat /\ Newest \in Nat
        /\ Agree(ValueOf, ValueOf', o + 1, Newest)
    BY <1>1, Offsets, Zenon DEF Ends, Agree
  <1>3. /\ Between(ValueOf, o, Newest) # <<>>
        /\ Head(Between(ValueOf, o, Newest)) = ValueOf[o]
        /\ Tail(Between(ValueOf, o, Newest)) = Between(ValueOf', o + 1, Newest)
    <2>1. Beheads(ValueOf, ValueOf', o, Newest)
      BY <1>2, BetweenTail, Zenon
    <2> QED
      BY <2>1, Zenon DEF Beheads
  <1>4. Queued # <<>> /\ Head(Queued) = ValueAt(o) /\ Queued' = Tail(Queued)
    BY <1>1, <1>2, <1>3, QueueBetween, Zenon
  <1> QED
    BY <1>4, Zenon DEF F!Next, F!Dequeue

\* What the value of a position is.
LEMMA ValueIs ==
    ASSUME Positions, NEW p \in Nat
    PROVE  /\ \A t \in Threads : Writing(t, p) => ValueAt(p) = val[t]
           /\ (\A t \in Threads : ~Writing(t, p)) => ValueAt(p) = data_[Index(p)]
  <1>1. ASSUME NEW t \in Threads, Writing(t, p) PROVE ValueAt(p) = val[t]
    <2>1. \A u \in Threads : Writing(u, p) => u = t
      BY <1>1, Zenon DEF Positions
    <2>2. (CHOOSE u \in Threads : Writing(u, p)) = t
      BY <1>1, <2>1, Zenon
    <2> QED
      BY <1>1, <2>2, Zenon DEF ValueAt
  <1> QED
    BY <1>1, Zenon DEF ValueAt

\* The same after a step.
LEMMA ValueIsNext ==
    ASSUME Positions', NEW p \in Nat
    PROVE  /\ \A t \in Threads : Writing(t, p)' => ValueAt(p)' = val'[t]
           /\ (\A t \in Threads : ~Writing(t, p)') => ValueAt(p)' = data_'[Index(p)']
  <1>1. ASSUME NEW t \in Threads, Writing(t, p)' PROVE ValueAt(p)' = val'[t]
    <2>1. \A u \in Threads : Writing(u, p)' => u = t
      BY <1>1, Zenon DEF Positions
    <2>2. (CHOOSE u \in Threads : Writing(u, p)') = t
      BY <1>1, <2>1, Zenon
    <2> QED
      BY <1>1, <2>2, Zenon DEF ValueAt
  <1> QED
    BY <1>1, Zenon DEF ValueAt

\* A position's value is kept when it stays with its thread, or in its entry.
LEMMA ValueKept ==
    ASSUME Positions, Positions', NEW p \in Nat,
           \/ \E t \in Threads : Writing(t, p) /\ Writing(t, p)' /\ val'[t] = val[t]
           \/ /\ \A t \in Threads : ~Writing(t, p) /\ ~Writing(t, p)'
              /\ data_'[Index(p)'] = data_[Index(p)]
    PROVE  ValueAt(p)' = ValueAt(p)
  BY ValueIs, ValueIsNext, Zenon

\* A position of the queue that no thread is writing holds its value.
LEMMA QueuedHolds ==
    ASSUME IInv, NEW p \in Nat, p \in Oldest..(Newest - 1), \A t \in Threads : ~Writing(t, p)
    PROVE  Full(p) /\ Holds(p) /\ (p = head_ => ~Taken)
  <1>1. head_ \in Nat /\ tail_ \in Nat /\ Roles
    BY Zenon DEF IInv, Types
  <1>2. Taken => \E t \in Threads : At(t, "pop", "release")
    BY <1>1, Zenon DEF Taken, Roles, Role, At
  <1>3. p \in head_..(tail_ - 1) /\ (Taken => p # head_)
    BY <1>1, <1>2 DEF Oldest, Newest
  <1> QED
    BY <1>3, Zenon DEF Full, Holds

\* The value of a call of Push is not in the queue before its position is, and
\* has not been delivered.
LEMMA Fresh ==
    ASSUME IInv, NEW t \in Threads, Pushing(t), pc[t] # "unlock"
    PROVE  /\ val[t] \in Values
           /\ \A i \in 1..Len(out) : out[i] # val[t]
           /\ \A p \in Nat : p \in Oldest..(Newest - 1) /\ ~Writing(t, p) => ValueAt(p) # val[t]
  <1>1. Data /\ Positions /\ Locals
    BY Zenon DEF IInv, Types
  <1>2. val[t] = <<t, calls[t] + 1>> /\ val[t] \in Values /\ calls[t] \in Nat
    BY <1>1, Zenon DEF Data, Valued, Locals
  <1>3. val[t] \notin Returned
    BY <1>2 DEF Returned
  <1>4. ASSUME NEW p \in Nat, p \in Oldest..(Newest - 1), ~Writing(t, p)
        PROVE  ValueAt(p) # val[t]
    <2>1. CASE \E u \in Threads : Writing(u, p)
      <3>1. PICK u \in Threads : Writing(u, p)
        BY <2>1, Zenon
      <3>2. ValueAt(p) = val[u] /\ u # t
        BY <1>1, <1>4, <3>1, ValueIs, Zenon
      <3>3. val[u] = <<u, calls[u] + 1>>
        BY <1>1, <3>1, Zenon DEF Data, Valued, Writing, Pushing
      <3> QED
        BY <1>2, <3>2, <3>3
    <2>2. CASE \A u \in Threads : ~Writing(u, p)
      <3>1. ValueAt(p) = data_[Index(p)]
        BY <1>1, <2>2, ValueIs, Zenon
      <3>2. data_[Index(p)] \in Returned
        BY <1>1, <1>4, <2>2, QueuedHolds, Zenon DEF Data
      <3> QED
        BY <1>3, <3>1, <3>2, Zenon
    <2> QED
      BY <2>1, <2>2, Zenon
  <1> QED
    BY <1>1, <1>2, <1>3, <1>4, Zenon DEF Data

\* The steps within a call keep the queue; but a ring that refuses counts a
\* position from the check that it has room.
LEMMA QuietFifo ==
    ASSUME IInv, IInv', Ends, Ends', NEW t \in Threads, Quiet(t),
           ErrorOnNoSpace => (At(t, "push", "space")' <=> At(t, "push", "space"))
    PROVE  UNCHANGED F!vars
  <1>1. Positions /\ Positions' /\ Others(t)
    BY Zenon DEF IInv, Quiet
  <1>2. /\ (\E u \in Threads : At(u, "pop", "release"))' <=> \E u \in Threads : At(u, "pop", "release")
        /\ ErrorOnNoSpace' <=> ErrorOnNoSpace
        /\ ErrorOnNoSpace => ((\E u \in Threads : At(u, "push", "space"))' <=>
                                 \E u \in Threads : At(u, "push", "space"))
    BY Zenon DEF Quiet, Others, At, ErrorOnNoSpace
  <1>3. Oldest' = Oldest /\ Newest' = Newest
    BY <1>2, Zenon DEF Oldest, Newest, Quiet
  <1>4. \A u \in Threads : \A p \in Nat :
           /\ Writing(u, p)' <=> Writing(u, p)
           /\ Writing(u, p) => val'[u] = val[u]
    BY Zenon DEF Quiet, Has, Writing, Others
  <1>5. \A p \in Nat : ValueAt(p)' = ValueAt(p)
    BY <1>1, <1>4, ValueKept, Zenon DEF Quiet, Index
  <1> QED
    BY <1>3, <1>5, Stutters, Zenon DEF Quiet

\* A step that puts the value of its own call in the queue.
LEMMA PushesOwn ==
    ASSUME IInv, Ends, Ends', NEW t \in Threads, Pushing(t), pc[t] # "unlock",
           NEW n \in Nat, n = Newest, Oldest' = Oldest, Newest' = n + 1, out' = out,
           ValueAt(n)' = val[t],
           \A p \in Nat : p \in Oldest..(n - 1) => ValueAt(p)' = ValueAt(p) /\ ~Writing(t, p)
    PROVE  [F!Next]_F!vars
  <1>1. /\ val[t] \in Values
        /\ \A i \in 1..Len(out) : out[i] # val[t]
        /\ \A p \in Nat : p \in Oldest..(n - 1) => ValueAt(p) # val[t]
    BY Fresh, Zenon
  <1>2. PICK v \in Values : v = val[t]
    BY <1>1, Zenon
  <1>3. out \in Seq(Values)
    BY Zenon DEF IInv, Types
  <1>4. F!Next
    BY <1>1, <1>2, <1>3, Enqueues, Zenon
  <1> QED
    BY <1>4, Zenon

\* A ring that refuses has queued the value once it has found room.
LEMMA HasSpaceFifo ==
    ASSUME IInv, IInv', Ends, Ends', NEW t \in Threads, HasSpace(t)
    PROVE  [F!Next]_F!vars
  <1>1. Positions /\ Positions' /\ Types /\ Roles /\ Mutex /\ Locals /\ Role(t) /\ Place(t)
    BY Zenon DEF IInv, Types, Roles, Positions
  <1>2. head_ \in Nat /\ tail_ \in Nat /\ size_ \in Nat /\ head[t] \in Nat /\ tail[t] \in Nat
    BY <1>1, Zenon DEF Types, Ring, Locals
  <1>3. /\ Others(t) /\ Quiet(t)
        /\ pc[t] = "space" /\ pc'[t] = "write" /\ op[t] = "push" /\ op'[t] = "push"
        /\ tail'[t] = tail[t] /\ val'[t] = val[t]
    <2>1. Quiet(t)
      BY HasSpaceStep, Zenon
    <2> QED
      BY <1>1, <2>1, Zenon DEF Quiet, Locals, HasSpace, Goto, At, locals
  <1>4. CASE ~ErrorOnNoSpace
    BY <1>3, <1>4, QuietFifo, Zenon
  <1>5. CASE ErrorOnNoSpace
    <2>1. PICK n \in Nat : n = tail[t]
      BY <1>2, Zenon
    <2>2. n = tail_ - 1 /\ tail_ = n + 1
      BY <1>1, <1>2, <1>3, <1>5, <2>1 DEF Place, ErrorOnNoSpace, DynamicSize
    <2>3. \A u \in Threads : ~At(u, "push", "space")'
      <3>1. \A u \in Threads \ {t} : ~Pushing(u)
        BY <1>1, <1>3, <1>5, OnePusher, Zenon DEF Pushing
      <3> QED
        BY <1>3, <3>1, Zenon DEF At, Pushing, Others
    <2>4. Oldest' = Oldest
      BY <1>3, Zenon DEF Oldest, At, Others, Quiet
    <2>5. n = Newest
      BY <1>3, <1>5, <2>2, Zenon DEF Newest, At
    <2>6. Newest' = n + 1
      BY <1>2, <1>3, <2>2, <2>3 DEF Newest, Quiet
    <2>7. \A u \in Threads : \A p \in Nat :
             /\ Writing(u, p)' <=> Writing(u, p)
             /\ Writing(u, p) => val'[u] = val[u]
      BY <1>3, Zenon DEF Writing, Others
    <2>8. \A p \in Nat : ValueAt(p)' = ValueAt(p)
      BY <1>1, <1>3, <2>7, ValueKept, Zenon DEF Quiet, Index
    <2>9. ValueAt(n)' = val[t]
      BY <1>1, <1>3, <2>1, ValueIsNext, Zenon DEF Writing
    <2>10. \A p \in Nat : p \in Oldest..(n - 1) => ~Writing(t, p)
      <3>1. \A p \in Nat : p \in Oldest..(n - 1) => p # n
        BY DEF Ends
      <3> QED
        BY <2>1, <3>1, Zenon DEF Writing
    <2> QED
      BY <1>3, <2>4, <2>5, <2>6, <2>8, <2>9, <2>10, PushesOwn, Zenon DEF Pushing, Quiet
  <1> QED
    BY <1>4, <1>5, Zenon

\* A ring that waits has queued the value once it has taken the position.
LEMMA ReserveFifo ==
    ASSUME IInv, IInv', Ends, Ends', NEW t \in Threads, Reserve(t)
    PROVE  [F!Next]_F!vars
  <1>1. Positions /\ Positions' /\ Types /\ Roles /\ Mutex /\ Locals /\ Role(t) /\ Place(t)
    BY Zenon DEF IInv, Types, Roles, Positions
  <1>2. head_ \in Nat /\ tail_ \in Nat /\ size_ \in Nat /\ head[t] \in Nat /\ tail[t] \in Nat
    BY <1>1, Zenon DEF Types, Ring, Locals
  <1>3. /\ Others(t)
        /\ pc[t] = "reserve" /\ pc'[t] = "space" /\ op[t] = "push" /\ op'[t] = "push"
        /\ tail'[t] = tail_ /\ tail_' = tail_ + 1 /\ val'[t] = val[t]
        /\ size_' = size_ /\ data_' = data_ /\ head_' = head_ /\ out' = out
    BY <1>1, Zenon DEF Locals, Others, Reserve, Goto, At, queue_
  <1>4. PICK n \in Nat : n = tail_
    BY <1>2, Zenon
  <1>5. \A u \in Threads : \A p \in Nat : p # n =>
           /\ Writing(u, p)' <=> Writing(u, p)
           /\ Writing(u, p) => val'[u] = val[u]
    BY <1>3, <1>4, Zenon DEF Writing, Others
  <1>6. \A p \in Nat : p # n => ValueAt(p)' = ValueAt(p)
    BY <1>1, <1>3, <1>5, ValueKept, Zenon DEF Index
  <1>7. Oldest' = Oldest
    BY <1>3, Zenon DEF Oldest, At, Others
  <1>8. \A p \in Nat : p \in Oldest..(n - 1) => p # n
    BY DEF Ends
  <1>9. CASE ErrorOnNoSpace
    <2>1. \A u \in Threads : ~At(u, "push", "space")
      <3>1. \A u \in Threads \ {t} : ~Pushing(u)
        BY <1>1, <1>3, <1>9, OnePusher, Zenon DEF Pushing
      <3> QED
        BY <1>3, <3>1, Zenon DEF At, Pushing
    <2>2. ErrorOnNoSpace' /\ \E u \in Threads : At(u, "push", "space")'
      BY <1>3, <1>9, Zenon DEF At, ErrorOnNoSpace, Others
    <2>3. Newest = n /\ Newest' = n
      BY <1>2, <1>3, <1>4, <2>1, <2>2 DEF Newest
    <2> QED
      BY <1>3, <1>6, <1>7, <1>8, <2>3, Stutters, Zenon
  <1>10. CASE ~ErrorOnNoSpace
    <2>1. ~ErrorOnNoSpace'
      BY <1>3, <1>10, Zenon DEF ErrorOnNoSpace, Others
    <2>2. Newest = n /\ Newest' = n + 1
      BY <1>2, <1>3, <1>4, <1>10, <2>1 DEF Newest
    <2>3. ValueAt(n)' = val[t]
      BY <1>1, <1>3, <1>4, ValueIsNext, Zenon DEF Writing
    <2>4. \A p \in Nat : ~Writing(t, p)
      BY <1>3, Zenon DEF Writing
    <2>5. \A p \in Nat : p \in Oldest..(n - 1) => ValueAt(p)' = ValueAt(p) /\ ~Writing(t, p)
      BY <1>6, <1>8, <2>4, Zenon
    <2>6. Pushing(t) /\ pc[t] # "unlock" /\ n = Newest /\ out' = out
      BY <1>3, <2>2, Zenon DEF Pushing
    <2> QED
      BY <1>7, <2>2, <2>3, <2>5, <2>6, PushesOwn, Zenon
  <1> QED
    BY <1>9, <1>10, Zenon

\* A ring that refuses has not queued the value.
LEMMA RefuseFifo ==
    ASSUME IInv, IInv', Ends, Ends', NEW t \in Threads, Refuse(t)
    PROVE  [F!Next]_F!vars
  <1>1. Positions /\ Positions' /\ Types /\ Roles /\ Mutex /\ Locals /\ Role(t) /\ Place(t)
    BY Zenon DEF IInv, Types, Roles, Positions
  <1>2. head_ \in Nat /\ tail_ \in Nat /\ size_ \in Nat /\ head[t] \in Nat /\ tail[t] \in Nat
    BY <1>1, Zenon DEF Types, Ring, Locals
  <1>3. /\ Others(t)
        /\ pc[t] = "space" /\ pc'[t] = "idle" /\ op[t] = "push" /\ ErrorOnNoSpace
        /\ tail_' = tail_ - 1
        /\ size_' = size_ /\ data_' = data_ /\ head_' = head_ /\ out' = out
    BY <1>1, Zenon DEF Locals, Others, Refuse, Goto, At, Return, queue_
  <1>4. PICK n \in Nat : n = tail[t]
    BY <1>2, Zenon
  <1>5. n = tail_ - 1
    BY <1>1, <1>3, <1>4, Zenon DEF Place
  <1>6. \A u \in Threads \ {t} : ~Pushing(u)
    BY <1>1, <1>3, OnePusher, Zenon DEF Pushing
  <1>7. \A u \in Threads : ~At(u, "push", "space")' /\ \A p : ~Writing(u, p)'
    BY <1>3, <1>6, Zenon DEF At, Writing, Pushing, Others
  <1>8. \A u \in Threads : \A p \in Nat : p # n => ~Writing(u, p)
    BY <1>3, <1>4, <1>6, Zenon DEF Writing, Pushing
  <1>9. \A p \in Nat : p # n => ValueAt(p)' = ValueAt(p)
    BY <1>1, <1>3, <1>7, <1>8, ValueKept, Zenon DEF Index
  <1>10. Oldest' = Oldest
    BY <1>3, Zenon DEF Oldest, At, Others
  <1>11. Newest = n /\ Newest' = n
    BY <1>2, <1>3, <1>5, <1>7 DEF Newest, At
  <1>12. \A p \in Nat : p \in Oldest..(n - 1) => p # n
    BY DEF Ends
  <1> QED
    BY <1>3, <1>9, <1>10, <1>11, <1>12, Stutters, Zenon

\* The value moves from the thread to its entry.
LEMMA WriteFifo ==
    ASSUME IInv, IInv', Ends, Ends', NEW t \in Threads, Write(t)
    PROVE  [F!Next]_F!vars
  <1>1. Positions /\ Positions' /\ Types /\ Roles /\ Mutex /\ Locals /\ Role(t) /\ Place(t)
    BY Zenon DEF IInv, Types, Roles, Positions
  <1>2. head_ \in Nat /\ tail_ \in Nat /\ size_ \in Nat /\ head[t] \in Nat /\ tail[t] \in Nat
    BY <1>1, Zenon DEF Types, Ring, Locals
  <1>3. /\ Others(t)
        /\ pc[t] = "write" /\ pc'[t] = "ready" /\ op[t] = "push" /\ op'[t] = "push"
        /\ tail'[t] = tail[t] /\ val'[t] = val[t]
        /\ head_' = head_ /\ tail_' = tail_ /\ out' = out
    BY <1>1, Zenon DEF Locals, Others, Write, Goto, At, locals
  <1>4. \A u \in Threads : \A p \in Nat :
           /\ Writing(u, p)' <=> Writing(u, p)
           /\ Writing(u, p) => val'[u] = val[u]
    BY <1>3, Zenon DEF Writing, Others
  <1>5. Oldest' = Oldest /\ Newest' = Newest
    BY <1>3, Zenon DEF Oldest, Newest, At, ErrorOnNoSpace, Others
  <1>6. ASSUME NEW p \in Nat, p \in Oldest..(Newest - 1) PROVE ValueAt(p)' = ValueAt(p)
    <2>1. (\A u \in Threads : ~Writing(u, p)) => data_'[Index(p)'] = data_[Index(p)]
      BY <1>6, QueuedHolds, WriteStep, Zenon
    <2> QED
      BY <1>1, <1>4, <2>1, ValueKept, Zenon
  <1> QED
    BY <1>3, <1>5, <1>6, Stutters, Zenon

\* The entry has the value when it is published.
LEMMA SetReadyFifo ==
    ASSUME IInv, IInv', Ends, Ends', NEW t \in Threads, SetReady(t)
    PROVE  [F!Next]_F!vars
  <1>1. Positions /\ Positions' /\ Types /\ Roles /\ Mutex /\ Locals /\ Role(t) /\ Place(t)
    BY Zenon DEF IInv, Types, Roles, Positions
  <1>2. head_ \in Nat /\ tail_ \in Nat /\ size_ \in Nat /\ head[t] \in Nat /\ tail[t] \in Nat
    BY <1>1, Zenon DEF Types, Ring, Locals
  <1>3. /\ Others(t)
        /\ pc[t] = "ready" /\ pc'[t] \in {"advance", "idle"} /\ op[t] = "push" /\ op'[t] = "push"
        /\ tail'[t] = tail[t] /\ val'[t] = val[t]
        /\ size_' = size_ /\ data_' = data_ /\ head_' = head_ /\ tail_' = tail_ /\ out' = out
    BY <1>1, Zenon DEF Locals, Others, SetReady, Goto, At, Return
  <1>4. PICK n \in Nat : n = tail[t]
    BY <1>2, Zenon
  <1>5. Oldest' = Oldest /\ Newest' = Newest
    BY <1>3, Zenon DEF Oldest, Newest, At, ErrorOnNoSpace, Others
  <1>6. ValueAt(n)' = ValueAt(n)
    <2>1. Writing(t, n) /\ \A u \in Threads : ~Writing(u, n)'
      <3>1. Writing(t, n)
        BY <1>3, <1>4, Zenon DEF Writing
      <3>2. \A u \in Threads : Writing(u, n) => u = t
        BY <1>1, <3>1, Zenon DEF Positions
      <3> QED
        BY <1>3, <3>1, <3>2, Zenon DEF Writing, Others
    <2>2. data_[Index(n)] = val[t]
      BY <1>3, <1>4, Zenon DEF IInv, Data, Written
    <2>3. Index(n)' = Index(n)
      BY <1>3, Zenon DEF Index
    <2>4. ValueAt(n) = val[t]
      BY <1>1, <2>1, ValueIs, Zenon
    <2>5. ValueAt(n)' = data_'[Index(n)']
      BY <1>1, <2>1, ValueIsNext, Zenon
    <2> QED
      BY <1>3, <2>2, <2>3, <2>4, <2>5, Zenon
  <1>7. ASSUME NEW p \in Nat, p # n PROVE ValueAt(p)' = ValueAt(p)
    <2>1. \A u \in Threads : /\ Writing(u, p)' <=> Writing(u, p)
                             /\ Writing(u, p) => val'[u] = val[u]
      BY <1>3, <1>4, <1>7, Zenon DEF Writing, Others
    <2>2. data_'[Index(p)'] = data_[Index(p)]
      BY <1>3, Zenon DEF Index
    <2> QED
      BY <1>1, <2>1, <2>2, ValueKept, Zenon
  <1>8. \A p \in Nat : ValueAt(p)' = ValueAt(p)
    BY <1>6, <1>7, Zenon
  <1> QED
    BY <1>3, <1>5, <1>8, Stutters, Zenon

\* A ring keeps its queue as it grows.
LEMMA LoadGrowFifo ==
    ASSUME IInv, IInv', Ends, Ends', NEW t \in Threads, LoadGrow(t)
    PROVE  [F!Next]_F!vars
  <1>1. Positions /\ Positions' /\ Types /\ Roles /\ Mutex /\ Locals /\ Role(t) /\ Place(t)
    BY Zenon DEF IInv, Types, Roles, Positions
  <1>2. head_ \in Nat /\ tail_ \in Nat /\ size_ \in Nat /\ head[t] \in Nat /\ tail[t] \in Nat
    BY <1>1, Zenon DEF Types, Ring, Locals
  <1>3. /\ Others(t)
        /\ pc[t] = "load" /\ pc'[t] = "write" /\ op[t] = "push" /\ DynamicSize
        /\ tail'[t] = tail_
        /\ head_' = head_ /\ tail_' = tail_ /\ out' = out
    BY <1>1, Zenon DEF Locals, Others, LoadGrow, Goto, At, queue_
  <1>4. Oldest' = Oldest /\ Newest' = Newest
    BY <1>3, Zenon DEF Oldest, Newest, At, ErrorOnNoSpace, DynamicSize, Others
  <1>5. \A u \in Threads \ {t} : ~Inside(u)
    BY <1>1, <1>3, OneInside, Zenon DEF Inside
  <1>6. \A u \in Threads : \A p \in Nat : ~Writing(u, p) /\ (p # tail_ => ~Writing(u, p)')
    BY <1>3, <1>5, Zenon DEF Writing, Inside, Others
  <1>7. ASSUME NEW p \in Nat, p \in Oldest..(Newest - 1) PROVE ValueAt(p)' = ValueAt(p)
    <2>1. Full(p)
      BY <1>6, <1>7, QueuedHolds, Zenon
    <2>2. p \in Live /\ p # tail_
      BY <1>2, <2>1 DEF Full, Live
    <2>3. data_'[Index(p)'] = data_[Index(p)]
      BY <2>2, LoadGrowStep, Zenon
    <2> QED
      BY <1>1, <1>6, <2>2, <2>3, ValueKept, Zenon
  <1> QED
    BY <1>3, <1>4, <1>7, Stutters, Zenon

\* A growing ring has queued the value once tail_ counts it.
LEMMA AdvanceFifo ==
    ASSUME IInv, IInv', Ends, Ends', NEW t \in Threads, Advance(t)
    PROVE  [F!Next]_F!vars
  <1>1. Positions /\ Positions' /\ Types /\ Roles /\ Mutex /\ Locals /\ Role(t) /\ Place(t)
    BY Zenon DEF IInv, Types, Roles, Positions
  <1>2. head_ \in Nat /\ tail_ \in Nat /\ size_ \in Nat /\ head[t] \in Nat /\ tail[t] \in Nat
    BY <1>1, Zenon DEF Types, Ring, Locals
  <1>3. /\ Others(t)
        /\ pc[t] = "advance" /\ pc'[t] \in {"unlock", "idle"} /\ op[t] = "push"
        /\ tail_' = tail[t] + 1
        /\ size_' = size_ /\ data_' = data_ /\ head_' = head_ /\ out' = out
    BY <1>1, Zenon DEF Locals, Others, Advance, Goto, At, Return, Leave, queue_
  <1>4. DynamicSize /\ tail[t] = tail_
    BY <1>1, <1>3, Zenon DEF Role, Place
  <1>5. \A u \in Threads \ {t} : ~Inside(u)
    BY <1>1, <1>3, <1>4, OneInside, Zenon DEF Inside
  <1>6. \A u \in Threads : \A p : ~Writing(u, p) /\ ~Writing(u, p)'
    BY <1>3, <1>5, Zenon DEF Writing, Inside, Others
  <1>7. PICK n \in Nat : n = tail_
    BY <1>2, Zenon
  <1>8. Oldest' = Oldest /\ Newest = n /\ Newest' = n + 1
    <2>1. ~ErrorOnNoSpace /\ ~ErrorOnNoSpace'
      BY <1>3, <1>4, Zenon DEF DynamicSize, ErrorOnNoSpace, Others
    <2>2. Oldest' = Oldest
      BY <1>3, Zenon DEF Oldest, At, Others
    <2> QED
      BY <1>2, <1>3, <1>4, <1>7, <2>1, <2>2 DEF Newest
  <1>9. \A p \in Nat : ValueAt(p)' = ValueAt(p) /\ ValueAt(p) = data_[Index(p)] /\ ~Writing(t, p)
    BY <1>1, <1>3, <1>6, ValueKept, ValueIs, Zenon DEF Index
  <1>10. ValueAt(n)' = val[t]
    BY <1>3, <1>4, <1>7, <1>9, Zenon DEF IInv, Data, Written
  <1>11. Pushing(t) /\ pc[t] # "unlock"
    BY <1>3, Zenon DEF Pushing
  <1> QED
    BY <1>3, <1>8, <1>9, <1>10, <1>11, PushesOwn, Zenon

\* A claim leaves the value in the queue.
LEMMA ClaimFifo ==
    ASSUME IInv, IInv', Ends, Ends', NEW t \in Threads, Claim(t)
    PROVE  [F!Next]_F!vars
  <1>1. Positions /\ Positions' /\ Types /\ Roles /\ Mutex /\ Locals /\ Role(t) /\ Place(t)
    BY Zenon DEF IInv, Types, Roles, Positions
  <1>2. head_ \in Nat /\ tail_ \in Nat /\ size_ \in Nat /\ head[t] \in Nat /\ tail[t] \in Nat
    BY <1>1, Zenon DEF Types, Ring, Locals
  <1>3. /\ Others(t)
        /\ pc[t] = "claim" /\ pc'[t] \in {"take", "unlock", "idle"} /\ op[t] = "pop" /\ op'[t] = "pop"
        /\ size_' = size_ /\ data_' = data_ /\ head_' = head_ /\ tail_' = tail_ /\ out' = out
    BY <1>1, Zenon DEF Locals, Others, Claim, Goto, At, Leave, locals
  <1>4. \A u \in Threads : \A p \in Nat :
           /\ Writing(u, p)' <=> Writing(u, p)
           /\ Writing(u, p) => val'[u] = val[u]
    BY <1>3, Zenon DEF Writing, Others
  <1>5. Oldest' = Oldest /\ Newest' = Newest
    BY <1>3, Zenon DEF Oldest, Newest, At, ErrorOnNoSpace, Others
  <1>6. \A p \in Nat : ValueAt(p)' = ValueAt(p)
    BY <1>1, <1>3, <1>4, ValueKept, Zenon DEF Index
  <1> QED
    BY <1>3, <1>5, <1>6, Stutters, Zenon

\* The value is delivered when it is read.
LEMMA TakeFifo ==
    ASSUME IInv, IInv', Ends, Ends', NEW t \in Threads, Take(t)
    PROVE  [F!Next]_F!vars
  <1>1. Positions /\ Positions' /\ Types /\ Roles /\ Mutex /\ Locals /\ Role(t) /\ Place(t)
    BY Zenon DEF IInv, Types, Roles, Positions
  <1>2. head_ \in Nat /\ tail_ \in Nat /\ size_ \in Nat /\ head[t] \in Nat /\ tail[t] \in Nat
    BY <1>1, Zenon DEF Types, Ring, Locals
  <1>3. /\ Others(t)
        /\ pc[t] = "take" /\ pc'[t] = "release" /\ op[t] = "pop" /\ op'[t] = "pop"
        /\ out' = Append(out, data_[Index(head[t])])
        /\ head_' = head_ /\ tail_' = tail_
    BY <1>1, Zenon DEF Locals, Others, Take, Goto, At, locals
  <1>4. PICK o \in Nat : o = head_
    BY <1>2, Zenon
  <1>5. head[t] = o /\ \A u \in Threads : ~Writing(u, o)
    BY <1>1, <1>3, <1>4, Zenon DEF Place
  <1>6. \A u \in Threads : ~At(u, "pop", "release")
    <2>1. ASSUME NEW u \in Threads, At(u, "pop", "release") PROVE FALSE
      BY <1>1, <1>3, <2>1, OnePopper, Zenon DEF At, Inside
    <2> QED
      BY <2>1, Zenon
  <1>7. Oldest = o /\ Oldest' = o + 1
    <2>1. At(t, "pop", "release")'
      BY <1>3, Zenon DEF At
    <2> QED
      BY <1>2, <1>3, <1>4, <1>6, <2>1 DEF Oldest
  <1>8. Newest' = Newest
    BY <1>3, Zenon DEF Newest, At, ErrorOnNoSpace, Others
  <1>9. o < Newest
    <2>1. Oldest' <= Newest' /\ Newest \in Nat
      BY Zenon DEF Ends
    <2> QED
      BY <1>7, <1>8, <2>1
  <1>10. out' = Append(out, ValueAt(o))
    BY <1>1, <1>3, <1>5, ValueIs, Zenon
  <1>11. \A u \in Threads : \A p \in Nat :
           /\ Writing(u, p)' <=> Writing(u, p)
           /\ Writing(u, p) => val'[u] = val[u]
    BY <1>3, Zenon DEF Writing, Others
  <1>12. ASSUME NEW p \in Nat, p \in (o + 1)..(Newest - 1) PROVE ValueAt(p)' = ValueAt(p)
    <2>1. p \in Oldest..(Newest - 1) /\ p # head_
      BY <1>4, <1>7, <1>12 DEF Ends
    <2>2. (\A u \in Threads : ~Writing(u, p)) => data_'[Index(p)'] = data_[Index(p)]
      BY <2>1, QueuedHolds, TakeStep, Zenon
    <2> QED
      BY <1>1, <1>11, <2>2, ValueKept, Zenon
  <1>13. F!Next
    BY <1>7, <1>8, <1>9, <1>10, <1>12, Dequeues, Zenon
  <1> QED
    BY <1>13, Zenon

\* The entry given back is no longer of the queue.
LEMMA ReleaseFifo ==
    ASSUME IInv, IInv', Ends, Ends', NEW t \in Threads, Release(t)
    PROVE  [F!Next]_F!vars
  <1>1. Positions /\ Positions' /\ Types /\ Roles /\ Mutex /\ Locals /\ Role(t) /\ Place(t)
    BY Zenon DEF IInv, Types, Roles, Positions
  <1>2. head_ \in Nat /\ tail_ \in Nat /\ size_ \in Nat /\ head[t] \in Nat /\ tail[t] \in Nat
    BY <1>1, Zenon DEF Types, Ring, Locals
  <1>3. /\ Others(t)
        /\ pc[t] = "release" /\ pc'[t] \in {"unlock", "idle"} /\ op[t] = "pop" /\ op'[t] = "pop"
        /\ head_' = head[t] + 1
        /\ size_' = size_ /\ data_' = data_ /\ tail_' = tail_ /\ out' = out
    BY <1>1, Zenon DEF Locals, Others, Release, Goto, At, Leave, locals, queue_
  <1>4. head[t] = head_
    BY <1>1, <1>3, Zenon DEF Place
  <1>5. \A u \in Threads : ~At(u, "pop", "release")'
    <2>1. ASSUME NEW u \in Threads \ {t}, At(u, "pop", "release") PROVE FALSE
      BY <1>1, <1>3, <2>1, OnePopper, Zenon DEF At, Inside
    <2> QED
      BY <1>3, <2>1, Zenon DEF At, Others
  <1>6. Oldest' = Oldest
    <2>1. At(t, "pop", "release")
      BY <1>3, Zenon DEF At
    <2> QED
      BY <1>2, <1>3, <1>4, <1>5, <2>1 DEF Oldest
  <1>7. Newest' = Newest
    BY <1>3, Zenon DEF Newest, At, ErrorOnNoSpace, Others
  <1>8. \A u \in Threads : \A p \in Nat :
           /\ Writing(u, p)' <=> Writing(u, p)
           /\ Writing(u, p) => val'[u] = val[u]
    BY <1>3, Zenon DEF Writing, Others
  <1>9. \A p \in Nat : ValueAt(p)' = ValueAt(p)
    BY <1>1, <1>3, <1>8, ValueKept, Zenon DEF Index
  <1> QED
    BY <1>3, <1>6, <1>7, <1>9, Stutters, Zenon

\* Every step of the ring is a step of the queue, or none.
LEMMA StepFifo ==
    ASSUME IInv, IInv', Ends, Ends', NEW t \in Threads, Step(t)
    PROVE  [F!Next]_F!vars
  <1>1. Locals
    BY Zenon DEF IInv, Types
  <1>2. CASE Push(t) \/ Pop(t)
    <2>1. Quiet(t) /\ pc[t] = "idle"
      BY <1>2, PushStep, PopStep, Zenon DEF Push, Pop, Begin
    <2>2. pc'[t] # "space"
      BY <1>1, <1>2, Zenon DEF Push, Pop, Begin, Goto, Locals
    <2> QED
      BY <2>1, <2>2, QuietFifo, Zenon DEF At
  <1>3. CASE Lock(t) \/ Unlock(t) \/ LoadHead(t) \/ PopHead(t) \/ PopTail(t)
    <2>1. Quiet(t)
      BY <1>3, LockStep, UnlockStep, LoadHeadStep, PopHeadStep, PopTailStep, Zenon
    <2>2. pc[t] # "space" /\ pc'[t] # "space"
      BY <1>1, <1>3, Zenon DEF Lock, Unlock, LoadHead, PopHead, PopTail, Goto, At, Leave, Locals
    <2> QED
      BY <2>1, <2>2, QuietFifo, Zenon DEF At
  <1>4. CASE Spin(t)
    <2>1. Quiet(t)
      BY <1>4, SpinStep, Zenon
    <2>2. At(t, "push", "space")' <=> At(t, "push", "space")
      BY <1>4, Zenon DEF Spin, At
    <2> QED
      BY <2>1, <2>2, QuietFifo, Zenon
  <1> QED
    BY <1>2, <1>3, <1>4, HasSpaceFifo, ReserveFifo, RefuseFifo, WriteFifo, SetReadyFifo,
       LoadGrowFifo, AdvanceFifo, ClaimFifo, TakeFifo, ReleaseFifo, Zenon DEF Step

\* With any of its four sets of flags, for any threads and any depth, the ring is
\* a first-in first-out queue: no value is lost, overwritten, delivered twice or
\* out of order, through wrap-around, waiting, refusal and growth.
THEOREM RingImplementsFifo == Spec => ImplementsFifo
  <1>1. Init => F!Init
    <2> SUFFICES ASSUME Init PROVE Queued = <<>> /\ out = <<>>
      BY Zenon DEF F!Init
    <2>1. /\ \A t \in Threads : ~At(t, "pop", "release") /\ ~At(t, "push", "space")
          /\ head_ = 0 /\ tail_ = 0 /\ out = <<>>
      BY Zenon DEF Init, At
    <2>2. Newest - Oldest = 0
      BY <2>1 DEF Newest, Oldest
    <2>3. 1..(Newest - Oldest) = {}
      BY <2>2
    <2>4. Queued = [i \in {} |-> ValueAt(Oldest + i - 1)]
      BY <2>3, Zenon DEF Queued
    <2> QED
      BY <2>1, <2>4
  <1>2. IInv => Ends
    BY EndsInOrder, Zenon
  <1>3. IInv /\ IInv' /\ Ends /\ Ends' /\ [Next]_vars => [F!Next]_F!vars
    <2>1. ASSUME IInv, IInv', Ends, Ends', UNCHANGED vars PROVE UNCHANGED F!vars
      <3>1. /\ size_' = size_ /\ data_' = data_ /\ head_' = head_ /\ tail_' = tail_
            /\ pc' = pc /\ op' = op /\ val' = val /\ tail' = tail /\ out' = out /\ kind' = kind
        BY <2>1, Zenon DEF vars, queue_, locals
      <3>2. \A u \in Threads : \A p \in Nat :
               /\ Writing(u, p)' <=> Writing(u, p)
               /\ Writing(u, p) => val'[u] = val[u]
        BY <3>1, Zenon DEF Writing
      <3>3. Positions /\ Positions'
        BY <2>1, Zenon DEF IInv
      <3>4. \A p \in Nat : ValueAt(p)' = ValueAt(p)
        BY <3>1, <3>2, <3>3, ValueKept, Zenon DEF Index
      <3>5. Oldest' = Oldest /\ Newest' = Newest
        <4>1. \A u \in Threads : /\ At(u, "pop", "release")' <=> At(u, "pop", "release")
                                 /\ At(u, "push", "space")' <=> At(u, "push", "space")
          BY <3>1, Zenon DEF At
        <4>2. ErrorOnNoSpace' <=> ErrorOnNoSpace
          BY <3>1, Zenon DEF ErrorOnNoSpace
        <4> QED
          BY <3>1, <4>1, <4>2, Zenon DEF Oldest, Newest
      <3> QED
        BY <2>1, <3>1, <3>4, <3>5, Stutters, Zenon
    <2> QED
      BY <2>1, StepFifo, Zenon DEF Next
  <1> QED
    BY <1>1, <1>2, <1>3, RingInvariant, PTL DEF Spec, ImplementsFifo, F!Spec

====
