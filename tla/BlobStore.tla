------------------------------ MODULE BlobStore ------------------------------
(* The blob operations of one container of the Context Transfer Engine         *)
(* (core_runtime.cc): PutBlob (in place and kCtePutReplace), GetBlob, DelBlob, *)
(* TruncateBlob, ReorganizeBlob (moving the primary, dropping it, moving a     *)
(* replica), ReclaimCacheReplica, replica puts and FlushData, with the three   *)
(* things that keep them apart: the write token of a BlobInfo, its read pins   *)
(* with the drain bit, and the placement generation published in the           *)
(* shared-memory mirror that clients read without the runtime (BlobShmClient). *)
(*                                                                             *)
(* Handlers are coroutines of one worker: they interleave only where they      *)
(* co_await.  A step of this module is the code between two awaits; the bdev   *)
(* effect of an awaited call (allocate, free, read, write) is a step too.      *)
(*                                                                             *)
(* Data is abstracted to units: a block is one extent of the bdevs holding one *)
(* unit of the blob, without spare capacity, and a unit holds the name of the  *)
(* operation that wrote it.  A blob has one replica slot.                      *)
EXTENDS Integers, Sequences, FiniteSets, SequencesExt, TLC

CONSTANTS
  Tasks,        \* the operations that run, each once
  Names,        \* composite keys of blobs
  Extents,      \* extents of all bdevs
  Volatile,     \* the extents below FlushData's target persistence level
  CacheNames,   \* blobs whose replica slot is a REPLICA_CACHE slot
  Kinds,        \* operations to run
  Ranges,       \* ranges <<offset, end>> of puts, gets and truncates
  InitPrimary,  \* the layout every name starts with, <<>> where unbound
  InitReplica,
  TagRange,     \* TagInfo::total_size_ counts modulo this (2^64)
  MaxFaults,    \* placement and device failures
  None          \* no task, no blob, no record

ASSUME BlobAssumption ==
  /\ Volatile \subseteq Extents /\ CacheNames \subseteq Names
  /\ Ranges \subseteq Nat \X Nat /\ MaxFaults \in Nat
  /\ TagRange \in Nat /\ TagRange > Cardinality(Extents)
  /\ InitPrimary \in [Names -> Seq(Extents)]
  /\ InitReplica \in [Names -> Seq(Extents)]

\* A BlobInfo is named by the operation that created it, or by its key when it
\* was there from the start: DelBlob erases the key, not the object.
Infos == Names \cup Tasks

VARIABLES
  bound,      \* tag_blob_name_to_info_
  info,       \* the BlobInfo objects
  free,       \* extents the bdevs can hand out
  contents,   \* what each extent holds
  mirror,     \* the shared-memory records
  gen,        \* PlacementGenCounter
  tag_size,   \* TagInfo::total_size_
  tk,         \* the operations
  faults,
  expect,     \* ghost: what each blob should hold, by the acknowledged writes
  upset       \* ghost: kinds of events after which some properties are waived

store == <<bound, info, free, contents, mirror, gen, tag_size>>
ghosts == <<expect, upset>>
vars == <<store, tk, faults, ghosts>>

Readers == {"get", "rget"}

\* The ranges an operation can be called with; for truncate the end is the new
\* size.  The others take no range.
Args(kind) == IF kind \in {"put", "replace", "get", "rget", "rput"}
              THEN {r \in Ranges : r[1] < r[2]}
              ELSE IF kind = "trunc" THEN {r \in Ranges : r[1] = r[2]}
              ELSE {<<0, 0>>}

Fresh == [blocks |-> <<>>, rep |-> <<>>, owner |-> None, drain |-> FALSE,
          pins |-> 0, gen |-> 0]

IdleTask == [pc |-> "idle", kind |-> "none", name |-> None, lo |-> 0, hi |-> 0,
             info |-> None, old |-> 0, todo |-> {}, staging |-> <<>>,
             buf |-> <<>>, snap |-> <<>>, tries |-> 0, sub |-> FALSE]

Record(i) == [blocks |-> i.blocks, rep |-> i.rep, gen |-> i.gen]

Init ==
  /\ bound = [n \in Names |-> IF InitPrimary[n] = <<>> THEN None ELSE n]
  /\ info = [i \in Infos |->
               IF i \in Names
               THEN [Fresh EXCEPT !.blocks = InitPrimary[i], !.rep = InitReplica[i]]
               ELSE Fresh]
  /\ free = Extents \ UNION {Range(InitPrimary[n]) \cup Range(InitReplica[n]) :
                               n \in Names}
  /\ contents = [e \in Extents |->
                   IF e \in free THEN "junk"
                   ELSE CHOOSE n \in Names :
                          e \in Range(InitPrimary[n]) \cup Range(InitReplica[n])]
  /\ mirror = [n \in Names |-> IF bound[n] = None THEN None ELSE Record(info[n])]
  /\ gen = 0
  /\ tag_size = FoldSet(LAMBDA n, s : s + Len(InitPrimary[n]), 0, Names)
  /\ tk = [t \in Tasks |-> IdleTask]
  /\ faults = 0
  /\ expect = [i \in Infos |->
                 IF i \in Names THEN [k \in DOMAIN InitPrimary[i] |-> i] ELSE <<>>]
  /\ upset = {}

-----------------------------------------------------------------------------
(* Shorthands.  I(t) is the BlobInfo the operation holds a shared_ptr to.      *)

I(t) == info[tk[t].info]
At(t, pc) == tk[t].pc = pc
Set(t, f) == tk' = [tk EXCEPT ![t] = f @@ @]
SetInfo(i, f) == info' = [info EXCEPT ![i] = f @@ @]
IsOneOf(t, kinds) == tk[t].kind \in kinds

\* BumpPlacementGen: the next value of the process-wide counter.
Bumped == gen + 1

\* Mutant of Publish: the mirror keeps the record it had.
PublishNothing(t, i) == UNCHANGED mirror
\* MirrorBlobToShm under the operation's key.
Publish(t, i) == mirror' = [mirror EXCEPT ![tk[t].name] = Record(i)]

\* The guards of the token and of the drain bit run at the end of the scope.
Unlocked == [owner |-> None, drain |-> FALSE]

Goal(t) == IF IsOneOf(t, {"move", "rmove"}) THEN Len(tk[t].buf) ELSE tk[t].hi

\* ExtendBlob works on the blob's own layout, or on a staging BlobInfo.
InPlace(t) == IsOneOf(t, {"put", "replace", "trunc"})
Layout(t) == IF InPlace(t) THEN I(t).blocks ELSE tk[t].staging

\* min_persistence_level_: FlushData's put may only place above its level.
Placeable(t) == IF tk[t].sub THEN free \ Volatile ELSE free

-----------------------------------------------------------------------------
(* Entering: look the blob up (creating it for a put), then take the token.    *)

\* TryLockWrite in the loop of every mutator.
Locked(t, i, f) ==
  /\ info' = [info EXCEPT ![i].owner = t]
  /\ Set(t, f @@ [pc |-> "locked", info |-> i])

\* Ghost: an operation takes, or takes first, the token of a blob between the
\* two halves of a FlushData of it.
Flushes(f) == f.kind = "flush" \/ f.sub
Overtakes(t, n) == \E g \in Tasks \ {t} : At(g, "reput") /\ tk[g].name = n

\* Mutant of Resolve: CreateNewBlob without CheckBlobExists before it.
ResolveCreates(t, n) == t
\* CheckBlobExists, else CreateNewBlob.
Resolve(t, n) == IF bound[n] = None THEN t ELSE bound[n]

\* The lookup and the first TryLockWrite: no await between.
Enter(t, n, f) ==
  LET creates == f.kind \in {"put", "replace", "rput"}
      i == Resolve(t, n)
  IN /\ bound[n] # None \/ creates
     /\ bound' = [bound EXCEPT ![n] = i]
     /\ upset' = upset \cup (IF Overtakes(t, n) \/ (info[i].owner # None /\ Flushes(f))
                             THEN {"overtaken"} ELSE {})
                      \cup (IF f.sub THEN {"flushed"} ELSE {})
     /\ IF info[i].owner = None
        THEN Locked(t, i, f)
        ELSE Set(t, f @@ [pc |-> "lock", info |-> i]) /\ UNCHANGED info

Begin(t, kind, n, r) ==
  /\ At(t, "idle") /\ kind \notin Readers
  /\ kind = "reclaim" => n \in CacheNames
  /\ kind = "rmove" => n \notin CacheNames
  \* FlushData collects a blob with volatile blocks, and its size, beforehand.
  /\ kind = "flush" => bound[n] # None /\ Range(info[bound[n]].blocks) \cap Volatile # {}
  /\ Enter(t, n, [kind |-> kind, name |-> n, lo |-> r[1], sub |-> FALSE,
                  hi |-> IF kind = "flush" THEN Len(info[bound[n]].blocks)
                         ELSE r[2]])
  /\ UNCHANGED <<free, contents, mirror, gen, tag_size, faults, expect>>

\* The busy poll: yield until TryLockWrite succeeds.
Lock(t) ==
  /\ At(t, "lock") /\ I(t).owner = None
  /\ Locked(t, tk[t].info, [kind |-> tk[t].kind])
  /\ upset' = upset
       \cup (IF bound[tk[t].name] = tk[t].info THEN {} ELSE {"orphan"})
       \cup (IF Overtakes(t, tk[t].name) THEN {"overtaken"} ELSE {})
  /\ UNCHANGED <<bound, free, contents, mirror, gen, tag_size, faults, expect>>

-----------------------------------------------------------------------------
(* Under the token.                                                            *)

\* An operation that ends here: the guards release token and drain bit.
Done(t) == [IdleTask EXCEPT !.pc = "done", !.name = tk[t].name]
Leave(t, f) == Set(t, Done(t)) /\ SetInfo(tk[t].info, f @@ Unlocked)

\* A move whose score is too near the old one, that has nothing to move, no
\* buffer, or whose read fails; a flush whose read fails; nothing to reclaim.
LeftAsIs(t) ==
  /\ \/ At(t, "locked") /\ IsOneOf(t, {"move", "rmove"})
     \/ At(t, "locked") /\ IsOneOf(t, {"reclaim"}) /\ I(t).rep = <<>>
     \/ At(t, "load")
  /\ Leave(t, Unlocked)
  /\ UNCHANGED <<bound, free, contents, mirror, gen, tag_size, faults, ghosts>>

\* Mutant of OldSize: the replica's bytes leave the tag as well.
OldSizeOfAll(t) == Len(I(t).blocks) + Len(I(t).rep)
\* GetTotalSize, read under the token.
OldSize(t) == Len(I(t).blocks)

\* PutBlob's ExtendBlob, ResizeBlob.
SizePut(t) ==
  /\ At(t, "locked") /\ InPlace(t)
  /\ LET old == OldSize(t)
         shrink == ~IsOneOf(t, {"put"}) /\ old > tk[t].hi
         same == IF IsOneOf(t, {"trunc"}) THEN "finish" ELSE "write"
     IN /\ Set(t, [old |-> old, pc |-> IF old < tk[t].hi THEN "grow"
                                       ELSE IF shrink THEN "drain" ELSE same])
        /\ SetInfo(tk[t].info, [drain |-> shrink])
  /\ UNCHANGED <<bound, free, contents, mirror, gen, tag_size, faults, ghosts>>

\* WriteReplicaData lends the replica's blocks to a staging BlobInfo.
LendReplica(t) ==
  /\ At(t, "locked") /\ IsOneOf(t, {"rput"})
  /\ Set(t, [staging |-> I(t).rep, old |-> Len(I(t).rep),
             pc |-> IF Len(I(t).rep) < tk[t].hi THEN "grow" ELSE "write"])
  /\ SetInfo(tk[t].info, [rep |-> <<>>])
  /\ UNCHANGED <<bound, free, contents, mirror, gen, tag_size, faults, ghosts>>

\* DelBlob, FlushData, ReclaimCacheReplica and the drop of a primary with a
\* persistent replica go to BeginDrainReaders at once.
StartDrain(t) ==
  /\ At(t, "locked")
  /\ \/ IsOneOf(t, {"del", "flush"})
     \/ IsOneOf(t, {"reclaim"}) /\ I(t).rep # <<>>
     \/ IsOneOf(t, {"move"}) /\ I(t).blocks # <<>> /\ I(t).rep # <<>>
        /\ tk[t].name \notin CacheNames
  /\ Set(t, [pc |-> "drain", old |-> OldSize(t),
             kind |-> IF IsOneOf(t, {"move"}) THEN "drop" ELSE tk[t].kind])
  /\ SetInfo(tk[t].info, [drain |-> TRUE])
  /\ UNCHANGED <<bound, free, contents, mirror, gen, tag_size, faults, ghosts>>

\* ReadData of the whole layout before it is moved or flushed.  FlushData reads
\* as many bytes as it collected: what the blob no longer has stays as the
\* buffer was.
ReadForMove(t) ==
  /\ \/ At(t, "locked") /\ IsOneOf(t, {"move"}) /\ I(t).blocks # <<>>
     \/ At(t, "locked") /\ IsOneOf(t, {"rmove"}) /\ I(t).rep # <<>>
     \/ At(t, "load")
  /\ LET src == IF IsOneOf(t, {"rmove"}) THEN I(t).rep ELSE I(t).blocks
         len == IF IsOneOf(t, {"flush"}) THEN tk[t].hi ELSE Len(src)
         data == [k \in 1..len |-> IF k <= Len(src) THEN contents[src[k]] ELSE "junk"]
     IN IF IsOneOf(t, {"flush"})
        THEN Set(t, [buf |-> data, pc |-> "free", todo |-> Range(src) \cap Volatile])
             /\ UNCHANGED info
        ELSE Set(t, [buf |-> data, pc |-> "drain"])
             /\ SetInfo(tk[t].info, [drain |-> TRUE])
  /\ UNCHANGED <<bound, free, contents, mirror, gen, tag_size, faults, ghosts>>

\* No pinned reader is left: the layout is taken apart.
Drained(t) ==
  /\ At(t, "drain") /\ I(t).pins = 0
  /\ LET b == I(t).blocks IN
     CASE IsOneOf(t, {"replace", "trunc"}) ->
            /\ Set(t, [pc |-> "free", todo |-> Range(SubSeq(b, tk[t].hi + 1, Len(b)))])
            /\ SetInfo(tk[t].info, [blocks |-> SubSeq(b, 1, tk[t].hi), gen |-> Bumped])
            /\ gen' = Bumped
       [] IsOneOf(t, {"del"}) ->
            /\ Set(t, [pc |-> "free", todo |-> Range(b \o I(t).rep)])
            /\ SetInfo(tk[t].info, [blocks |-> b \o I(t).rep, rep |-> <<>>])
            /\ UNCHANGED gen
       [] IsOneOf(t, {"move", "drop"}) ->
            /\ Set(t, [pc |-> "free", todo |-> Range(b)])
            /\ UNCHANGED <<info, gen>>
       [] IsOneOf(t, {"rmove", "reclaim"}) ->
            /\ Set(t, [pc |-> "free", todo |-> Range(I(t).rep)])
            /\ SetInfo(tk[t].info, [rep |-> <<>>])
            /\ UNCHANGED gen
       [] OTHER ->  \* flush
            /\ Set(t, [pc |-> "load"])
            /\ UNCHANGED <<info, gen>>
  /\ UNCHANGED <<bound, free, contents, mirror, tag_size, faults, ghosts>>

\* AsyncFreeBlocks: the bdev can hand the extent out again from here on.
FreeExtent(t) ==
  /\ At(t, "free") \/ At(t, "unplace")
  /\ \E e \in tk[t].todo : Set(t, [todo |-> tk[t].todo \ {e}]) /\ free' = free \cup {e}
  /\ UNCHANGED <<bound, info, contents, mirror, gen, tag_size, faults, ghosts>>

\* total_size_ less n, as deletes and truncates subtract; a replacing put
\* subtracts without the test.
Without(n) == IF n <= tag_size THEN tag_size - n ELSE 0

\* The frees have returned.  Only now does the layout forget the extents (but
\* for a shrink), and only now is the mirror published again.
Freed(t) ==
  /\ At(t, "free") /\ tk[t].todo = {}
  /\ LET emptied == [blocks |-> <<>>, gen |-> Bumped]
         kept == SelectSeq(I(t).blocks, LAMBDA e : e \notin Volatile)
     IN
     CASE IsOneOf(t, {"replace", "trunc"}) ->
            /\ Set(t, [pc |-> IF IsOneOf(t, {"trunc"}) THEN "finish" ELSE "write"])
            /\ SetInfo(tk[t].info, [drain |-> FALSE])
            /\ UNCHANGED <<bound, mirror, gen, tag_size, expect>>
       [] IsOneOf(t, {"del"}) ->
            /\ Leave(t, emptied)
            /\ gen' = Bumped
            /\ tag_size' = Without(tk[t].old)
            /\ bound' = [bound EXCEPT ![tk[t].name] = None]
            /\ mirror' = [mirror EXCEPT ![tk[t].name] = None]
            /\ expect' = [expect EXCEPT ![tk[t].info] = <<>>]
       [] IsOneOf(t, {"drop"}) ->
            /\ Leave(t, emptied)
            /\ gen' = Bumped
            /\ tag_size' = Without(tk[t].old)
            /\ Publish(t, emptied @@ I(t))
            /\ expect' = [expect EXCEPT ![tk[t].info] = <<>>]
            /\ UNCHANGED bound
       [] IsOneOf(t, {"move"}) ->
            /\ Set(t, [pc |-> "grow"])
            /\ SetInfo(tk[t].info, emptied)
            /\ gen' = Bumped
            /\ Publish(t, emptied @@ I(t))
            /\ UNCHANGED <<bound, tag_size, expect>>
       [] IsOneOf(t, {"rmove"}) ->
            /\ Set(t, [pc |-> "grow"])
            /\ UNCHANGED <<bound, info, mirror, gen, tag_size, expect>>
       [] IsOneOf(t, {"reclaim"}) ->
            /\ Leave(t, [gen |-> Bumped])
            /\ gen' = Bumped
            /\ Publish(t, [gen |-> Bumped] @@ I(t))
            /\ UNCHANGED <<bound, tag_size, expect>>
       [] OTHER ->  \* flush: the token goes before the put that takes it again
            /\ Set(t, [pc |-> "reput"])
            /\ SetInfo(tk[t].info, [blocks |-> kept, gen |-> Bumped] @@ Unlocked)
            /\ gen' = Bumped
            /\ Publish(t, [blocks |-> kept, gen |-> Bumped] @@ I(t))
            /\ UNCHANGED <<bound, tag_size, expect>>
  /\ UNCHANGED <<free, contents, faults, upset>>

\* FlushData's AsyncPutBlob of the buffered bytes, at the collected size.
Reput(t) ==
  /\ At(t, "reput")
  /\ Enter(t, tk[t].name, [kind |-> "put", sub |-> TRUE])
  /\ UNCHANGED <<free, contents, mirror, gen, tag_size, faults, expect>>

-----------------------------------------------------------------------------
(* Placing and writing.                                                        *)

\* ExtendBlob: one target's extent is allocated and appended.
Grow(t) ==
  /\ At(t, "grow")
  /\ \E e \in Placeable(t) :
       /\ free' = free \ {e}
       /\ LET longer == Append(Layout(t), e)
              pc == IF Len(longer) = Goal(t) THEN "write" ELSE "grow"
          IN IF InPlace(t)
             THEN /\ Set(t, [pc |-> pc])
                  /\ SetInfo(tk[t].info, [blocks |-> longer, gen |-> Bumped])
                  /\ gen' = Bumped
             ELSE Set(t, [pc |-> pc, staging |-> longer]) /\ UNCHANGED <<info, gen>>
  /\ UNCHANGED <<bound, contents, mirror, tag_size, faults, ghosts>>

\* What the operation writes to unit k of a layout: its data, and zeros from
\* the old end up to it.
Written(t, k) ==
  IF IsOneOf(t, {"move", "rmove"}) \/ tk[t].sub THEN tk[t].buf[k]
  ELSE IF IsOneOf(t, {"trunc"}) \/ k <= tk[t].lo THEN "zero" ELSE t
\* Mutant of Writes: the hole before the data is not zeroed.
WritesDataOnly(t, k) ==
  \/ IsOneOf(t, {"move", "rmove"})
  \/ k > tk[t].lo /\ k <= tk[t].hi
Writes(t, k) ==
  \/ IsOneOf(t, {"move", "rmove"})
  \/ k > tk[t].old /\ k <= tk[t].hi
  \/ k > tk[t].lo /\ k <= tk[t].hi /\ ~IsOneOf(t, {"trunc"})

\* ModifyExistingData for the hole and for the data.
WriteData(t) ==
  /\ At(t, "write")
  /\ LET units == {k \in DOMAIN Layout(t) : Writes(t, k)}
     IN contents' = [e \in Extents |->
          IF \E k \in units : Layout(t)[k] = e
          THEN Written(t, CHOOSE k \in units : Layout(t)[k] = e) ELSE contents[e]]
  /\ Set(t, [pc |-> "finish"])
  /\ UNCHANGED <<bound, info, free, mirror, gen, tag_size, faults, ghosts>>

\* The ghost after an acknowledged put or truncate of blob i with n units.
Acknowledged(t, n) ==
  [k \in 1..n |-> IF tk[t].sub
                  THEN IF k <= Len(expect[tk[t].info]) THEN expect[tk[t].info][k]
                       ELSE "any"
                  ELSE IF k \in tk[t].lo + 1 .. tk[t].hi THEN t
                  ELSE IF k > tk[t].old THEN "zero" ELSE expect[tk[t].info][k]]

\* The last bdev call has returned: publish, account, release.
Finish(t) ==
  /\ At(t, "finish")
  /\ IF InPlace(t)
     THEN /\ Leave(t, Unlocked)
          /\ Publish(t, I(t))
          /\ LET now == Len(I(t).blocks)
             IN tag_size' = IF IsOneOf(t, {"trunc"}) /\ now < tk[t].old
                            THEN Without(tk[t].old - now)
                            ELSE (tag_size + now - tk[t].old) % TagRange
          /\ expect' = [expect EXCEPT
                          ![tk[t].info] = Acknowledged(t, Len(I(t).blocks))]
          /\ UNCHANGED gen
     ELSE LET f == CASE IsOneOf(t, {"move"}) -> [blocks |-> tk[t].staging, gen |-> Bumped]
                     [] IsOneOf(t, {"rmove"}) -> [rep |-> tk[t].staging]
                     [] OTHER -> [rep |-> tk[t].staging, gen |-> Bumped]
          IN /\ Leave(t, f)
             /\ IF IsOneOf(t, {"rmove"}) THEN UNCHANGED <<mirror, gen>>
                ELSE Publish(t, f @@ I(t)) /\ gen' = Bumped
             /\ UNCHANGED <<tag_size, expect>>
  /\ upset' = IF IsOneOf(t, {"rmove"}) THEN upset \cup {"rmoved"} ELSE upset
  /\ UNCHANGED <<bound, free, contents, faults>>

\* Mutant of Kept: a failed replica put forgets its staging blocks.
KeptNothing(t) == <<>>
\* What a failed replica put leaves with the replica.
Kept(t) == tk[t].staging

\* No target can take the rest, or the device fails.  A put keeps what it
\* placed, a replica put gives it to the replica, a move returns it.
Fails(t) ==
  /\ At(t, "grow") \/ At(t, "write")
  /\ IF At(t, "grow") /\ Placeable(t) = {} THEN UNCHANGED faults
     ELSE faults < MaxFaults /\ faults' = faults + 1
  /\ IF IsOneOf(t, {"move", "rmove"})
     THEN /\ Set(t, [pc |-> "unplace", todo |-> Range(tk[t].staging)])
          /\ UNCHANGED <<info, mirror, gen, ghosts>>
     ELSE /\ upset' = upset \cup {"failed"}
          /\ IF InPlace(t)
             THEN /\ Leave(t, Unlocked)
                  /\ expect' = [expect EXCEPT
                       ![tk[t].info] = [k \in DOMAIN I(t).blocks |-> "any"]]
                  /\ UNCHANGED <<mirror, gen>>
             ELSE LET f == [rep |-> Kept(t), gen |-> Bumped]
                  IN Leave(t, f) /\ Publish(t, f @@ I(t)) /\ gen' = Bumped
                     /\ UNCHANGED expect
  /\ UNCHANGED <<bound, free, contents, tag_size>>

\* A move tries three times, then its data is lost and the entry kept.
Retry(t) ==
  /\ At(t, "unplace") /\ tk[t].todo = {}
  /\ IF tk[t].tries < 2
     THEN /\ Set(t, [pc |-> "grow", staging |-> <<>>, tries |-> tk[t].tries + 1])
          /\ UNCHANGED <<info, ghosts>>
     ELSE /\ Leave(t, Unlocked)
          /\ upset' = upset \cup {"lost"}
          /\ expect' = IF IsOneOf(t, {"move"})
                       THEN [expect EXCEPT ![tk[t].info] = <<>>] ELSE expect
  /\ UNCHANGED <<bound, free, contents, mirror, gen, tag_size, faults>>

-----------------------------------------------------------------------------
(* GetBlob: wait out a torn layout, pin, look again, snapshot, read, unpin.    *)

Source(kind, i) == IF kind = "rget" THEN info[i].rep ELSE info[i].blocks
Torn(kind, i, hi) == Len(Source(kind, i)) < hi /\ info[i].owner # None

\* Mutant of Pin: the reader does not look at the drain bit.
PinAlways(t, f) ==
  IF Source(f.kind, f.info) = <<>>
  THEN Set(t, f @@ [pc |-> "done"]) /\ UNCHANGED info
  ELSE /\ Set(t, f @@ [pc |-> "read", snap |-> Source(f.kind, f.info)])
       /\ info' = [info EXCEPT ![f.info].pins = @ + 1]
\* TryPinRead, the liveness check under the pin and the snapshot.
Pin(t, f) ==
  IF info[f.info].drain
  THEN Set(t, f @@ [pc |-> "pin"]) /\ UNCHANGED info
  ELSE IF Source(f.kind, f.info) = <<>>
  THEN Set(t, f @@ [pc |-> "done"]) /\ UNCHANGED info
  ELSE /\ Set(t, f @@ [pc |-> "read", snap |-> Source(f.kind, f.info)])
       /\ info' = [info EXCEPT ![f.info].pins = @ + 1]

GetBegin(t, kind, n, r) ==
  /\ At(t, "idle") /\ kind \in Readers /\ bound[n] # None
  /\ LET f == [kind |-> kind, name |-> n, lo |-> r[1], hi |-> r[2],
               info |-> bound[n]]
     IN IF Torn(kind, bound[n], r[2])
        THEN Set(t, f @@ [pc |-> "torn"]) /\ UNCHANGED info ELSE Pin(t, f)
  /\ UNCHANGED <<bound, free, contents, mirror, gen, tag_size, faults, ghosts>>

GetRetry(t) ==
  /\ \/ At(t, "torn") /\ ~Torn(tk[t].kind, tk[t].info, tk[t].hi)
     \/ At(t, "pin") /\ ~I(t).drain
  /\ Pin(t, [kind |-> tk[t].kind, info |-> tk[t].info])
  /\ UNCHANGED <<bound, free, contents, mirror, gen, tag_size, faults, ghosts>>

\* ReadData over the snapshot has returned; BlobReadPinGuard unpins.
GetDone(t) ==
  /\ At(t, "read")
  /\ Set(t, Done(t))
  /\ info' = [info EXCEPT ![tk[t].info].pins = @ - 1]
  /\ UNCHANGED <<bound, free, contents, mirror, gen, tag_size, faults, ghosts>>

-----------------------------------------------------------------------------
Step(t) ==
  \/ Lock(t) \/ LeftAsIs(t) \/ SizePut(t) \/ LendReplica(t) \/ StartDrain(t)
  \/ ReadForMove(t) \/ Drained(t) \/ FreeExtent(t) \/ Freed(t) \/ Reput(t)
  \/ Grow(t) \/ WriteData(t) \/ Finish(t) \/ Fails(t) \/ Retry(t)
  \/ GetRetry(t) \/ GetDone(t)

Calls(t) == \E kind \in Kinds, n \in Names : \E r \in Args(kind) :
              Begin(t, kind, n, r) \/ GetBegin(t, kind, n, r)

\* Every operation has ended.  A state from which no operation can go on, and
\* which is not this one, is a deadlock; since every step brings an operation
\* nearer its end, the absence of deadlock means that all of them end.
Ended == (\A t \in Tasks : tk[t].pc = "done") /\ UNCHANGED vars

Next == (\E t \in Tasks : Calls(t) \/ Step(t)) \/ Ended

Spec == Init /\ [][Next]_vars

-----------------------------------------------------------------------------
(* Properties.                                                                 *)

Live(t) == tk[t].pc \notin {"idle", "done"}
AtRest == \A t \in Tasks : ~Live(t)

\* The types of the variables; the pins of a BlobInfo never pass the readers, and
\* the tag's size neither goes below zero nor past its range.
TypeOK ==
  /\ bound \in [Names -> Infos \cup {None}]
  /\ \A i \in Infos : /\ info[i].blocks \in Seq(Extents)
                       /\ info[i].rep \in Seq(Extents)
                       /\ info[i].owner \in Tasks \cup {None}
                       /\ info[i].pins \in 0..Cardinality(Tasks)
  /\ free \subseteq Extents /\ tag_size \in 0..TagRange - 1

\* A pinned GetBlob's snapshot names only extents that were not given back: no
\* mutator frees an extent under a reader that awaits its bdev reads.
PinnedExtentsLive ==
  \A t \in Tasks : At(t, "read") => Range(tk[t].snap) \cap free = {}

\* The extents an operation has in hand, outside every BlobInfo.
InHand(t) == IF At(t, "unplace") THEN tk[t].todo
             ELSE IF At(t, "free") /\ IsOneOf(t, {"replace", "trunc", "rmove", "reclaim"})
             THEN tk[t].todo ELSE Range(tk[t].staging)
\* The layout of a BlobInfo, without what its token holder has freed already and
\* not yet taken out of it.
Owned(i) ==
  LET o == info[i].owner
      rep == Range(info[i].rep)
      blocks == Range(info[i].blocks)
      freeing(kinds) == o # None /\ At(o, "free") /\ IsOneOf(o, kinds)
  IN IF freeing({"del", "move", "drop"}) THEN tk[o].todo \cup rep
     ELSE IF freeing({"flush"}) THEN tk[o].todo \cup (blocks \ Volatile) \cup rep
     ELSE blocks \cup rep

\* Every extent is in exactly one place: free, in one layout of one BlobInfo, or
\* in the hands of one operation.  No interleaving of the operations, and no
\* failed placement, frees an extent twice, places two blobs on one or drops one.
EveryExtentOnce ==
  LET places == [x \in Infos \cup {"free"} |-> IF x = "free" THEN free ELSE Owned(x)]
      hands == [t \in Tasks |-> InHand(t)]
      count == Cardinality(free)
               + FoldSet(LAMBDA i, n : n + Cardinality(Owned(i)), 0, Infos)
               + FoldSet(LAMBDA t, n : n + Cardinality(hands[t]), 0, Tasks)
  IN /\ UNION (Range(places) \cup Range(hands)) = Extents
     /\ count = Cardinality(Extents)

\* A BlobInfo no key leads to holds no extent once the operations have ended,
\* unless one of them took the token of a blob deleted while it waited.
NothingOrphaned ==
  AtRest /\ "orphan" \notin upset =>
    \A i \in Infos : (\A n \in Names : bound[n] # i) => Owned(i) = {}

\* Between the free of a flushed blob's extents and the end of the put after it.
Flushing(n) == \E g \in Tasks : tk[g].name = n /\ (At(g, "reput") \/ (tk[g].sub /\ Live(g)))

\* An unlocked blob holds, unit for unit, what the acknowledged puts and
\* truncates wrote, zeros in the holes: no move, flush, failed placement or
\* concurrent operation changes it.  Waived once a move lost the data (the code
\* says so) or an operation got the token between the halves of a FlushData.
HoldsAcknowledged ==
  upset \cap {"lost", "overtaken"} = {} =>
    \A n \in Names :
      LET i == bound[n] IN
      i # None /\ ~Flushing(n) => (info[i].owner = None =>
        /\ Len(info[i].blocks) = Len(expect[i])
        /\ \A k \in DOMAIN expect[i] :
             expect[i][k] \in {"any", contents[info[i].blocks[k]]})

PrimarySizes == FoldSet(LAMBDA n, s : s + (IF bound[n] = None THEN 0
                                           ELSE Len(info[bound[n]].blocks)), 0, Names)

\* GetTagSize is the sum of the primaries' sizes once the operations have ended,
\* whatever the order they ran in.  Waived after a failed put or truncate, lost
\* data, a token taken of a deleted blob, and FlushData.
TagSizeIsSum ==
  AtRest /\ upset \cap {"failed", "lost", "orphan", "flushed"} = {} =>
    tag_size = PrimarySizes

\* While no operation runs on a blob, its record in the mirror names only its
\* own extents, and a deleted blob has none: a direct reader that comes then
\* cannot be sent to storage of another blob.  Waived after the move of a
\* replica, a failed write or move and a token taken of a deleted blob.
MirrorNamesOwned ==
  upset \cap {"rmoved", "failed", "lost", "orphan"} = {} =>
    \A n \in Names :
      mirror[n] # None /\ (\A t \in Tasks : Live(t) => tk[t].name # n) =>
        /\ bound[n] # None
        /\ Range(mirror[n].blocks) \subseteq Range(info[bound[n]].blocks)
        /\ Range(mirror[n].rep) \subseteq Range(info[bound[n]].rep)
=============================================================================
