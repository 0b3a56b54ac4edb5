--------------------------- MODULE BlockAllocator ---------------------------
(* The space allocator of a block device and the backing file that grows    *)
(* behind it (StandardBlockAllocator with its GlobalBlockMap and Heap, and  *)
(* FsBdevTransport).                                                        *)
(*                                                                          *)
(* Any worker thread calls AllocateBlocks and FreeBlocks, at the same time  *)
(* as others.  A step is what a thread does between two points where        *)
(* another may interleave: one map searched under its lock, one atomic      *)
(* operation on heap_ or allocated_bytes_, one step of growing the file.    *)
(* Sizes and offsets are in abstract units: Alignment is the device's       *)
(* alignment_, Slab the 4096 that AllocateAnyUpTo computes with.            *)
EXTENDS Integers, Sequences, FiniteSets, FiniteSetsExt, Functions

CONSTANTS
    Threads,     \* the worker threads that call the device
    NumMaps,     \* worker_maps_.size()
    WorkerIdx,   \* the map a thread's worker_id falls on, modulo NumMaps
    Capacity,    \* capacity_ and total_size_
    Alignment,   \* alignment_
    Slab,        \* the constant 4096 of WorkerBlockMap::AllocateAnyUpTo
    BlockSizes,  \* kBlockSizes, in ascending order
    Sizes,       \* the sizes callers ask for
    GrowthUnit,  \* growth_unit_: 0 means no stepping
    Existing,    \* possible sizes of the backing file found at Init
    MaxFaults    \* how often growing the file may fail

ASSUME AllocatorAssumption ==
    /\ NumMaps \in Nat \ {0} /\ Capacity \in Nat \ {0}
    /\ Alignment \in Nat \ {0} /\ Slab \in Nat \ {0}
    /\ WorkerIdx \in [Threads -> 0..(NumMaps - 1)]
    /\ Sizes \subseteq Nat /\ GrowthUnit \in Nat
    /\ Existing \subseteq Nat /\ MaxFaults \in Nat
    /\ BlockSizes \in Seq(Nat) /\ BlockSizes # << >>
    /\ \A i, j \in DOMAIN BlockSizes : i < j => BlockSizes[i] < BlockSizes[j]

VARIABLES
    heap,              \* heap_
    allocated_bytes,   \* allocated_bytes_
    maps,              \* worker_maps_: per map, per category, a list of blocks
    file,              \* size of the backing file on disk
    file_backed_bytes, \* file_backed_bytes_
    grow_mu,           \* grow_mu_: the set of threads inside (one at most)
    faults,            \* truncations that have failed so far
    held,              \* the blocks callers own
    pc,                \* where each thread is in its call, "idle" in no call
    total_size,        \* total_size: the size asked for
    scan,              \* how many maps the search has passed
    blocks,            \* blocks: what the call has
    taken,             \* the block (one at most) taken and not yet charged
    remaining,         \* remaining_phys
    amount,            \* what is to be charged, or credited (freed_bytes)
    cur,               \* cur
    alone              \* history: no other call has overlapped this one so far

space == <<heap, allocated_bytes, maps>>
backing == <<file, file_backed_bytes, grow_mu, faults>>
vars == <<space, backing, held,
          pc, total_size, scan, blocks, taken, remaining, amount, cur, alone>>

Maps == 0..(NumMaps - 1)
Categories == 1..Len(BlockSizes)

RoundUp(n, unit) == ((n + unit - 1) \div unit) * unit
AlignSize(n) == RoundUp(n, Alignment)

\* The list without its element at i; the first of the positions that pass a
\* test, 0 if none does.
Erase(list, i) == SubSeq(list, 1, i - 1) \o SubSeq(list, i + 1, Len(list))

FirstIn(found) == IF found = {} THEN 0 ELSE Min(found)

\* FindBlockType, with the callers\' "-1 means the last category".
FindBlockType(n) ==
    IF \E c \in Categories : n <= BlockSizes[c]
    THEN Min({c \in Categories : n <= BlockSizes[c]})
    ELSE Len(BlockSizes)

Block(offset, size, type) == [offset |-> offset, size |-> size, type |-> type]

\* FsBdevTransport::Init on an empty file truncates the first growth unit into
\* existence; an existing file is the backed prefix, up to the capacity.
InitialFile(existing) ==
    IF existing > 0 THEN existing
    ELSE IF GrowthUnit > 0 /\ GrowthUnit < Capacity THEN GrowthUnit ELSE Capacity

Init ==
    /\ heap = 0
    /\ allocated_bytes = 0
    /\ maps = [w \in Maps |-> [c \in Categories |-> << >>]]
    /\ \E existing \in Existing : file = InitialFile(existing)
    /\ file_backed_bytes = Min({file, Capacity})
    /\ grow_mu = {}
    /\ faults = 0
    /\ held = {}
    /\ pc = [t \in Threads |-> "idle"]
    /\ total_size = [t \in Threads |-> 0]
    /\ scan = [t \in Threads |-> 0]
    /\ blocks = [t \in Threads |-> {}]
    /\ taken = [t \in Threads |-> {}]
    /\ remaining = [t \in Threads |-> 0]
    /\ amount = [t \in Threads |-> 0]
    /\ cur = [t \in Threads |-> 0]
    /\ alone = [t \in Threads |-> TRUE]

-----------------------------------------------------------------------------
(* The free maps: each operation runs under the lock of its map.            *)

\* The first block of the category that is large enough, as an index.
AllocateBlockIn(map, type, min_size) ==
    FirstIn({i \in 1..Len(map[type]) : map[type][i].size >= min_size})

\* Mutation: a block that fits exactly is passed over.
FitsUpToStrict(b, max_bytes) == b.size > 0 /\ RoundUp(b.size, Slab) < max_bytes

\* AllocateAnyUpTo: a block fits when its footprint, computed in slabs, does.
FitsUpTo(b, max_bytes) == b.size > 0 /\ RoundUp(b.size, Slab) <= max_bytes

\* The categories that hold such a block; the search takes the largest one.
CategoriesUpTo(map, max_bytes) ==
    {c \in Categories : \E i \in DOMAIN map[c] : FitsUpTo(map[c][i], max_bytes)}

FirstUpTo(list, max_bytes) ==
    FirstIn({i \in 1..Len(list) : FitsUpTo(list[i], max_bytes)})

\* The block at one position of a list leaves its map.
TakeOut(w, type, i) ==
    maps' = [maps EXCEPT ![w] = [maps[w] EXCEPT ![type] = Erase(maps[w][type], i)]]

FreeBlock(w, b) ==
    maps' = [maps EXCEPT ![w] = [maps[w] EXCEPT ![b.type] = Append(maps[w][b.type], b)]]

\* The search starts at the thread's own map and goes round the others.
ScannedMap(t) == (WorkerIdx[t] + scan[t]) % NumMaps

-----------------------------------------------------------------------------
(* Threads.                                                                 *)

At(t, label) == pc[t] = label
Goto(t, label) == pc' = [pc EXCEPT ![t] = label]

\* A new call overlaps every call in progress, and they overlap it.
Begin(t, label) ==
    /\ At(t, "idle")
    /\ Goto(t, label)
    /\ alone' = [u \in Threads |-> IF u = t THEN \A v \in Threads : At(v, "idle")
                                   ELSE alone[u] /\ At(u, "idle")]

\* The call's locals go out of scope.
Return(t) ==
    /\ Goto(t, "idle")
    /\ total_size' = [total_size EXCEPT ![t] = 0]
    /\ scan' = [scan EXCEPT ![t] = 0]
    /\ blocks' = [blocks EXCEPT ![t] = {}]
    /\ remaining' = [remaining EXCEPT ![t] = 0]
    /\ amount' = [amount EXCEPT ![t] = 0]
    /\ cur' = [cur EXCEPT ![t] = 0]
    /\ alone' = [alone EXCEPT ![t] = TRUE]
    /\ UNCHANGED taken

\* AllocateBlocks(size): a request of size 0 is answered with no blocks, the
\* others start with step 1, the search for one free extent that fits.
AllocateBlocks(t, size) ==
    /\ size > 0
    /\ Begin(t, "reuse")
    /\ total_size' = [total_size EXCEPT ![t] = size]
    /\ UNCHANGED <<space, backing, held, scan, blocks, taken, remaining, amount, cur>>

\* GlobalBlockMap::AllocateBlock, one map: the category is that of the size
\* asked for, not of its aligned size.
ReuseFound(t) ==
    LET w == ScannedMap(t)
        type == FindBlockType(total_size[t])
        i == AllocateBlockIn(maps[w], type, total_size[t])
        b == maps[w][type][i]
    IN  /\ At(t, "reuse")
        /\ i # 0
        /\ TakeOut(w, type, i)
        /\ taken' = [taken EXCEPT ![t] = {b}]
        /\ amount' = [amount EXCEPT ![t] = b.size]
        /\ Goto(t, "charge")
        /\ UNCHANGED <<heap, allocated_bytes, backing, held,
                       total_size, scan, blocks, remaining, cur, alone>>

\* A map without such a block: the next one, and after the last the heap.
ReuseMissed(t) ==
    /\ At(t, "reuse")
    /\ AllocateBlockIn(maps[ScannedMap(t)], FindBlockType(total_size[t]), total_size[t]) = 0
    /\ IF scan[t] < NumMaps - 1
       THEN scan' = [scan EXCEPT ![t] = @ + 1] /\ UNCHANGED pc
       ELSE scan' = [scan EXCEPT ![t] = 0] /\ Goto(t, "heap")
    /\ UNCHANGED <<space, backing, held, total_size, blocks, taken, remaining, amount, cur, alone>>

\* Mutation: only a heap that is already past the end refuses.
HeapAddOffByOne(t) ==
    LET aligned == AlignSize(total_size[t]) IN
    /\ At(t, "heap")
    /\ heap' = heap + aligned
    /\ IF heap >= Capacity
       THEN Goto(t, "heap_undo") /\ UNCHANGED <<taken, amount>>
       ELSE /\ Goto(t, "charge")
            /\ taken' = [taken EXCEPT ![t] = {Block(heap, total_size[t], FindBlockType(aligned))}]
            /\ amount' = [amount EXCEPT ![t] = aligned]
    /\ UNCHANGED <<allocated_bytes, maps, backing, held,
                   total_size, scan, blocks, remaining, cur, alone>>

\* Heap::Allocate, step 2: fetch_add, then compare with the total.  A failed
\* reservation is taken back by a fetch_sub of its own.
HeapAdd(t) ==
    LET aligned == AlignSize(total_size[t]) IN
    /\ At(t, "heap")
    /\ heap' = heap + aligned
    /\ IF heap + aligned > Capacity
       THEN Goto(t, "heap_undo") /\ UNCHANGED <<taken, amount>>
       ELSE /\ Goto(t, "charge")
            /\ taken' = [taken EXCEPT ![t] = {Block(heap, total_size[t], FindBlockType(aligned))}]
            /\ amount' = [amount EXCEPT ![t] = aligned]
    /\ UNCHANGED <<allocated_bytes, maps, backing, held,
                   total_size, scan, blocks, remaining, cur, alone>>

HeapUndo(t) ==
    /\ At(t, "heap_undo")
    /\ heap' = heap - AlignSize(total_size[t])
    /\ remaining' = [remaining EXCEPT ![t] = AlignSize(total_size[t])]
    /\ Goto(t, "assemble")
    /\ UNCHANGED <<allocated_bytes, maps, backing, held,
                   total_size, scan, blocks, taken, amount, cur, alone>>

\* GlobalBlockMap::AllocateAnyUpTo, step 3, one map: the block is reported at
\* its footprint and covers that much of the request.
AssembleFound(t) ==
    LET w == ScannedMap(t)
        fits == CategoriesUpTo(maps[w], remaining[t])
        type == Max(fits)
        i == FirstUpTo(maps[w][type], remaining[t])
        b == maps[w][type][i]
        fp == Min({AlignSize(b.size), remaining[t]})
    IN  /\ At(t, "assemble")
        /\ remaining[t] > 0
        /\ fits # {}
        /\ TakeOut(w, type, i)
        /\ taken' = [taken EXCEPT ![t] = {[b EXCEPT !.size = fp]}]
        /\ amount' = [amount EXCEPT ![t] = fp]
        /\ remaining' = [remaining EXCEPT ![t] = @ - fp]
        /\ scan' = [scan EXCEPT ![t] = 0]
        /\ Goto(t, "charge")
        /\ UNCHANGED <<heap, allocated_bytes, backing, held, total_size, blocks, cur, alone>>

\* Mutation: a request that cannot be covered fails without a rollback.
AssembleMissedKeeps(t) ==
    /\ At(t, "assemble")
    /\ CategoriesUpTo(maps[ScannedMap(t)], remaining[t]) = {}
    /\ IF scan[t] < NumMaps - 1
       THEN /\ scan' = [scan EXCEPT ![t] = @ + 1]
            /\ UNCHANGED <<pc, total_size, blocks, taken, remaining, amount, cur, alone>>
       ELSE Return(t)
    /\ UNCHANGED <<space, backing, held>>

\* No map has a block left that fits: what was taken is rolled back.
AssembleMissed(t) ==
    /\ At(t, "assemble")
    /\ CategoriesUpTo(maps[ScannedMap(t)], remaining[t]) = {}
    /\ IF scan[t] < NumMaps - 1
       THEN scan' = [scan EXCEPT ![t] = @ + 1] /\ UNCHANGED pc
       ELSE UNCHANGED scan /\ Goto(t, "rollback")
    /\ UNCHANGED <<space, backing, held, total_size, blocks, taken, remaining, amount, cur, alone>>

\* allocated_bytes_.fetch_add; an assembly goes on until it covers the request.
Charge(t) ==
    /\ At(t, "charge")
    /\ allocated_bytes' = allocated_bytes + amount[t]
    /\ blocks' = [blocks EXCEPT ![t] = @ \cup taken[t]]
    /\ taken' = [taken EXCEPT ![t] = {}]
    /\ amount' = [amount EXCEPT ![t] = 0]
    /\ Goto(t, IF remaining[t] > 0 THEN "assemble" ELSE "ensure")
    /\ UNCHANGED <<heap, maps, backing, held, total_size, scan, remaining, cur, alone>>

RollbackFree(t) ==
    /\ At(t, "rollback")
    /\ \E b \in blocks[t] :
          /\ FreeBlock(WorkerIdx[t], b)
          /\ blocks' = [blocks EXCEPT ![t] = @ \ {b}]
          /\ amount' = [amount EXCEPT ![t] = AlignSize(b.size)]
    /\ Goto(t, "uncharge")
    /\ UNCHANGED <<heap, allocated_bytes, backing, held,
                   total_size, scan, taken, remaining, cur, alone>>

Uncharge(t) ==
    /\ At(t, "uncharge")
    /\ allocated_bytes' = allocated_bytes - amount[t]
    /\ amount' = [amount EXCEPT ![t] = 0]
    /\ Goto(t, "rollback")
    /\ UNCHANGED <<heap, maps, backing, held,
                   total_size, scan, blocks, taken, remaining, cur, alone>>

AllocateFails(t) ==
    /\ At(t, "rollback")
    /\ blocks[t] = {}
    /\ Return(t)
    /\ UNCHANGED <<space, backing, held>>

-----------------------------------------------------------------------------
(* FsBdevTransport::EnsureFileBacked.                                       *)

EndOf(bs) == Max({b.offset + b.size : b \in bs})

\* The blocks reach the caller.
Deliver(t) ==
    /\ held' = held \cup blocks[t]
    /\ Return(t)

EnsureBacked(t) ==
    /\ At(t, "ensure")
    /\ EndOf(blocks[t]) <= file_backed_bytes
    /\ Deliver(t)
    /\ UNCHANGED <<space, backing>>

EnsureWaits(t) ==
    /\ At(t, "ensure")
    /\ EndOf(blocks[t]) > file_backed_bytes
    /\ Goto(t, "lock")
    /\ UNCHANGED <<space, backing, held,
                   total_size, scan, blocks, taken, remaining, amount, cur, alone>>

\* Mutation: the watermark is not read again under the lock.
GrowLockUnchecked(t) ==
    /\ At(t, "lock")
    /\ grow_mu = {}
    /\ grow_mu' = {t}
    /\ Goto(t, "grow")
    /\ UNCHANGED <<space, file, file_backed_bytes, faults, held,
                   total_size, scan, blocks, taken, remaining, amount, cur, alone>>

\* Another thread may have grown the file past this call while it waited.
GrowLock(t) ==
    /\ At(t, "lock")
    /\ grow_mu = {}
    /\ \/ /\ EndOf(blocks[t]) <= file_backed_bytes
          /\ Deliver(t)
          /\ UNCHANGED grow_mu
       \/ /\ EndOf(blocks[t]) > file_backed_bytes
          /\ grow_mu' = {t}
          /\ Goto(t, "grow")
          /\ UNCHANGED <<held, total_size, scan, blocks, taken, remaining, amount, cur, alone>>
    /\ UNCHANGED <<space, file, file_backed_bytes, faults>>

GrowTarget(end) ==
    Min({IF GrowthUnit > 0 THEN RoundUp(end, GrowthUnit) ELSE end, Capacity})

GrowTruncate(t) ==
    /\ At(t, "grow")
    /\ file' = GrowTarget(EndOf(blocks[t]))
    /\ Goto(t, "publish")
    /\ UNCHANGED <<space, file_backed_bytes, grow_mu, faults, held,
                   total_size, scan, blocks, taken, remaining, amount, cur, alone>>

GrowPublish(t) ==
    /\ At(t, "publish")
    /\ file_backed_bytes' = GrowTarget(EndOf(blocks[t]))
    /\ grow_mu' = {}
    /\ Deliver(t)
    /\ UNCHANGED <<space, file, faults>>

\* The disk cannot provide the space: the allocation is freed again and fails.
GrowFails(t) ==
    /\ At(t, "grow")
    /\ faults < MaxFaults
    /\ faults' = faults + 1
    /\ grow_mu' = {}
    /\ Goto(t, "free")
    /\ UNCHANGED <<space, file, file_backed_bytes, held,
                   total_size, scan, blocks, taken, remaining, amount, cur, alone>>

-----------------------------------------------------------------------------
(* FreeBlocks.                                                              *)

\* A caller hands back blocks it owns, with the sizes it was given.
FreeBlocks(t, bs) ==
    /\ bs # {}
    /\ Begin(t, "free")
    /\ held' = held \ bs
    /\ blocks' = [blocks EXCEPT ![t] = bs]
    /\ UNCHANGED <<space, backing, total_size, scan, taken, remaining, amount, cur>>

\* The block a FreeBlocks puts back: its size is rounded up and it is
\* bucketed anew by that size.
Rebucketed(b) == Block(b.offset, AlignSize(b.size), FindBlockType(AlignSize(b.size)))

\* Mutation: the credit is the size the caller names, not its footprint.
FreeOneLogical(t) ==
    /\ At(t, "free")
    /\ \E b \in blocks[t] :
          /\ FreeBlock(WorkerIdx[t], Rebucketed(b))
          /\ blocks' = [blocks EXCEPT ![t] = @ \ {b}]
          /\ amount' = [amount EXCEPT ![t] = @ + b.size]
    /\ UNCHANGED <<heap, allocated_bytes, backing, held,
                   pc, total_size, scan, taken, remaining, cur, alone>>

FreeOne(t) ==
    /\ At(t, "free")
    /\ \E b \in blocks[t] :
          /\ FreeBlock(WorkerIdx[t], Rebucketed(b))
          /\ blocks' = [blocks EXCEPT ![t] = @ \ {b}]
          /\ amount' = [amount EXCEPT ![t] = @ + AlignSize(b.size)]
    /\ UNCHANGED <<heap, allocated_bytes, backing, held,
                   pc, total_size, scan, taken, remaining, cur, alone>>

CreditLoad(t) ==
    /\ At(t, "free")
    /\ blocks[t] = {}
    /\ cur' = [cur EXCEPT ![t] = allocated_bytes]
    /\ Goto(t, "credit")
    /\ UNCHANGED <<space, backing, held, total_size, scan, blocks, taken, remaining, amount, alone>>

CreditSub(t) ==
    /\ At(t, "credit")
    /\ allocated_bytes' = allocated_bytes - Min({cur[t], amount[t]})
    /\ Return(t)
    /\ UNCHANGED <<heap, maps, backing, held>>

-----------------------------------------------------------------------------

Step(t) ==
    \/ ReuseFound(t) \/ ReuseMissed(t) \/ HeapAdd(t) \/ HeapUndo(t)
    \/ AssembleFound(t) \/ AssembleMissed(t) \/ Charge(t)
    \/ RollbackFree(t) \/ Uncharge(t) \/ AllocateFails(t)
    \/ EnsureBacked(t) \/ EnsureWaits(t) \/ GrowLock(t)
    \/ GrowTruncate(t) \/ GrowPublish(t) \/ GrowFails(t)
    \/ FreeOne(t) \/ CreditLoad(t) \/ CreditSub(t)

Next ==
    \E t \in Threads :
        \/ \E size \in Sizes : AllocateBlocks(t, size)
        \/ \E bs \in SUBSET held : FreeBlocks(t, bs)
        \/ Step(t)

Spec == Init /\ [][Next]_vars

-----------------------------------------------------------------------------
(* Properties.                                                              *)

BlockSet == [offset : Nat, size : Nat, type : Categories]

Labels == {"idle", "reuse", "heap", "heap_undo", "assemble", "charge", "rollback",
           "uncharge", "ensure", "lock", "grow", "publish", "free", "credit"}

\* The counters are what unsigned integers can hold and one thread at most
\* grows the file: allocated_bytes_ never wraps below zero.
TypeOK ==
    /\ heap \in Nat /\ allocated_bytes \in Nat
    /\ maps \in [Maps -> [Categories -> Seq(BlockSet)]]
    /\ file \in Nat /\ file_backed_bytes \in Nat
    /\ grow_mu \in SUBSET Threads
    /\ faults \in 0..MaxFaults
    /\ held \in SUBSET BlockSet
    /\ pc \in [Threads -> Labels]
    /\ total_size \in [Threads -> Nat]
    /\ scan \in [Threads -> Maps]
    /\ blocks \in [Threads -> SUBSET BlockSet]
    /\ taken \in [Threads -> SUBSET BlockSet]
    /\ remaining \in [Threads -> Nat]
    /\ amount \in [Threads -> Nat]
    /\ cur \in [Threads -> Nat]
    /\ alone \in [Threads -> BOOLEAN]

\* Where a block can be: with a caller, with a call, or in a list of a map.
Places ==
    {<<"held", 0, 0>>}
      \cup {<<"blocks", t, 0>> : t \in Threads}
      \cup {<<"taken", t, 0>> : t \in Threads}
      \cup {<<"map", w, c>> : w \in Maps, c \in Categories}

BlocksAt(p) ==
    CASE p[1] = "held"   -> held
      [] p[1] = "blocks" -> blocks[p[2]]
      [] p[1] = "taken"  -> taken[p[2]]
      [] p[1] = "map"    -> Range(maps[p[2]][p[3]])

Footprint(b) == AlignSize(b.size)
Units(b) == b.offset..(b.offset + Footprint(b) - 1)
UnitsOf(bs) == UNION {Units(b) : b \in bs}

Overlap(a, b) == a.offset < b.offset + Footprint(b) /\ b.offset < a.offset + Footprint(a)

\* No two blocks share a byte, whoever has them, no list has a block twice and
\* no block reaches past the device: two callers that were told to write their
\* blocks never write over one another (Heap::Allocate, GlobalBlockMap).
NoOverlap ==
    /\ \A p \in Places : \A b \in BlocksAt(p) : b.offset + Footprint(b) <= Capacity
    /\ \A p, q \in Places : \A a \in BlocksAt(p), b \in BlocksAt(q) :
          (p # q \/ a # b) => ~Overlap(a, b)
    /\ \A w \in Maps, c \in Categories : IsInjective(maps[w][c])

\* What failed reservations have added to heap_ and are about to take back.
Reserved == UNION {{t} \X (1..AlignSize(total_size[t])) : t \in {u \in Threads : At(u, "heap_undo")}}

\* Every byte the heap has given out is in some block a caller, a call or a
\* map has, except what a failed reservation is about to take back: a failed
\* AllocateBlocks, a failed growth and a FreeBlocks lose nothing.
NothingLost ==
    0..(heap - Cardinality(Reserved) - 1) \subseteq UnitsOf(UNION {BlocksAt(p) : p \in Places})

\* StandardBlockAllocator::GetRemainingSize.
GetRemainingSize == IF Capacity > allocated_bytes THEN Capacity - allocated_bytes ELSE 0

HeldBytes == Cardinality(UnitsOf(held))

\* The space the device reports as free is never more than what its callers
\* leave, in the middle of any calls, and exactly that when none is running.
RemainingIsTrue ==
    /\ GetRemainingSize <= Capacity - HeldBytes
    /\ (\A t \in Threads : At(t, "idle")) => GetRemainingSize = Capacity - HeldBytes

\* A block a caller owns lies inside the backing file, so a read of it is not
\* short: the file is long enough before the caller sees the block and nobody
\* shortens it afterwards (EnsureFileBacked).
BackedBeforeUse ==
    /\ file_backed_bytes <= file
    /\ \A b \in held : b.offset + b.size <= file

\* A call that is about to roll back still has all it assembled.
NothingReturned(t) ==
    Cardinality(UnitsOf(blocks[t])) = AlignSize(total_size[t]) - remaining[t]

\* A call that no other call overlapped gives up only when no freed block
\* that fits in what it still lacks is left in any map (step 3 of
\* AllocateBlocks).
AssemblesWhatFits ==
    \A t \in Threads :
        (alone[t] /\ At(t, "rollback") /\ NothingReturned(t)) =>
            ~\E w \in Maps : \E c \in Categories : \E i \in DOMAIN maps[w][c] :
                AlignSize(maps[w][c][i].size) <= remaining[t]
=============================================================================
