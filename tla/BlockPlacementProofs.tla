------------------------ MODULE BlockPlacementProofs ------------------------
(* Where the blocks of BlockAllocator are, and what allocated_bytes_ counts:  *)
(* no two blocks overlap, nothing is lost, GetRemainingSize is true, and an   *)
(* assembly takes what fits, for any threads, maps, sizes and capacity.       *)
EXTENDS BlockAllocatorProofs

-----------------------------------------------------------------------------
(* Where the blocks are.  Contents is what each place has; a step moves some  *)
(* blocks from one place to another, or adds one from the heap.             *)

Contents == [p \in Places |-> BlocksAt(p)]

AllContents == [Places -> SUBSET DeviceBlock]

Apart(C) ==
    \A p, q \in Places : \A a \in C[p], b \in C[q] : (p # q \/ a # b) => ~Overlap(a, b)

Below(C, n) == \A p \in Places : \A b \in C[p] : b.offset + Footprint(b) <= n

Covers(C, n) == \A x \in 0..(n - 1) : \E p \in Places : \E b \in C[p] : x \in Units(b)

\* The blocks of S go from p to q.
Shifts(C, D, p, q, S) ==
    /\ p \in Places /\ q \in Places /\ p # q /\ S \subseteq C[p]
    /\ D[p] = C[p] \ S /\ D[q] = C[q] \cup S
    /\ \A r \in Places \ {p, q} : D[r] = C[r]

\* The block a goes from p to q and is b there.
Moves(C, D, p, q, a, b) ==
    /\ p \in Places /\ q \in Places /\ p # q /\ a \in C[p] /\ SameSpan(a, b)
    /\ D[p] = C[p] \ {a} /\ D[q] = C[q] \cup {b}
    /\ \A r \in Places \ {p, q} : D[r] = C[r]

\* A block that is new comes to q.
Adds(C, D, q, b) ==
    /\ q \in Places /\ D[q] = C[q] \cup {b}
    /\ \A r \in Places \ {q} : D[r] = C[r]

\* Blocks of the same place and footprint overlap the same blocks, and one
\* another.
LEMMA SpanOverlap ==
    ASSUME NEW a \in DeviceBlock, NEW b \in DeviceBlock, SameSpan(a, b)
    PROVE  /\ Overlap(a, b)
           /\ \A c \in DeviceBlock : (Overlap(a, c) <=> Overlap(b, c)) /\ (Overlap(c, a) <=> Overlap(c, b))
           /\ Units(a) = Units(b)
<1>1. /\ a.offset \in Nat /\ b.offset = a.offset
      /\ Footprint(a) \in Nat /\ Footprint(a) > 0 /\ Footprint(b) = Footprint(a)
  BY FootprintType, Zenon DEF SameSpan
<1>2. Overlap(a, b)
  BY <1>1 DEF Overlap
<1>3. \A c \in DeviceBlock : (Overlap(a, c) <=> Overlap(b, c)) /\ (Overlap(c, a) <=> Overlap(c, b))
  BY <1>1, Zenon DEF Overlap
<1>4. Units(a) = Units(b)
  BY <1>1, Zenon DEF Units
<1> QED
  BY <1>2, <1>3, <1>4, Zenon

\* A block is in one place.
LEMMA OnePlace ==
    ASSUME NEW C \in AllContents, Apart(C), NEW p \in Places, NEW q \in Places, p # q,
           NEW a \in C[p], NEW b \in DeviceBlock, SameSpan(a, b)
    PROVE  b \notin C[q]
<1>1. a \in DeviceBlock
  BY Zenon DEF AllContents
<1>2. Overlap(a, b)
  BY <1>1, SpanOverlap, Zenon
<1> QED
  BY <1>2, Zenon DEF Apart

\* A shift keeps the blocks apart.
LEMMA ShiftApart ==
    ASSUME NEW C \in AllContents, NEW D, NEW p, NEW q, NEW S, Apart(C), Shifts(C, D, p, q, S)
    PROVE  Apart(D)
<1> SUFFICES ASSUME NEW r \in Places, NEW s \in Places, NEW a \in D[r], NEW b \in D[s], r # s \/ a # b
             PROVE  ~Overlap(a, b)
  BY Zenon DEF Apart
<1>1. \E k \in Places : a \in C[k] /\ k = IF r = q /\ a \in S THEN p ELSE r
  BY Zenon DEF Shifts
<1>2. \E k \in Places : b \in C[k] /\ k = IF s = q /\ b \in S THEN p ELSE s
  BY Zenon DEF Shifts
<1>3. r = p => a \notin S
  BY Zenon DEF Shifts
<1>4. s = p => b \notin S
  BY Zenon DEF Shifts
<1>5. PICK k \in Places : a \in C[k] /\ k = IF r = q /\ a \in S THEN p ELSE r
  BY <1>1, Zenon
<1>6. PICK l \in Places : b \in C[l] /\ l = IF s = q /\ b \in S THEN p ELSE s
  BY <1>2, Zenon
<1>7. k # l \/ a # b
  BY <1>3, <1>4, <1>5, <1>6, Zenon DEF Shifts
<1> QED
  BY <1>5, <1>6, <1>7, Zenon DEF Apart

\* It keeps their ends and what they cover.
LEMMA ShiftCovers ==
    ASSUME NEW C \in AllContents, NEW D, NEW p, NEW q, NEW S, Shifts(C, D, p, q, S), NEW n
    PROVE  (Below(C, n) => Below(D, n)) /\ (Covers(C, n) => Covers(D, n))
<1>1. \A r \in Places : \A b \in D[r] : \E k \in Places : b \in C[k]
  BY Zenon DEF Shifts
<1>2. \A r \in Places : \A b \in C[r] : \E k \in Places : b \in D[k]
  BY Zenon DEF Shifts
<1> QED
  BY <1>1, <1>2, Zenon DEF Below, Covers

\* So does the move of one block.
LEMMA MoveApart ==
    ASSUME NEW C \in AllContents, NEW D, NEW p, NEW q, NEW x, NEW y \in DeviceBlock,
           Apart(C), Moves(C, D, p, q, x, y)
    PROVE  Apart(D)
<1>1. /\ p \in Places /\ q \in Places /\ p # q /\ x \in C[p] /\ SameSpan(x, y) /\ x \in DeviceBlock
      /\ \A r \in Places : C[r] \subseteq DeviceBlock
  BY Zenon DEF Moves, AllContents
<1>2. \A c \in DeviceBlock : (Overlap(x, c) <=> Overlap(y, c)) /\ (Overlap(c, x) <=> Overlap(c, y))
  BY <1>1, SpanOverlap, Zenon
<1>3. y \notin C[q]
  BY <1>1, OnePlace, Zenon
<1>4. ASSUME NEW r \in Places, NEW a \in D[r]
      PROVE  (a \in C[r] /\ ~(r = p /\ a = x)) \/ (r = q /\ a = y)
  BY <1>4, Zenon DEF Moves
<1>5. ASSUME NEW r \in Places, NEW s \in Places, NEW a \in D[r], NEW b \in D[s], r # s \/ a # b
      PROVE  ~Overlap(a, b)
  <2>1. CASE a \in C[r] /\ b \in C[s]
    BY <1>5, <2>1, Zenon DEF Apart
  <2>2. CASE r = q /\ a = y /\ b \in C[s] /\ ~(s = p /\ b = x)
    <3>1. ~Overlap(x, b)
      BY <1>1, <2>2, Zenon DEF Apart
    <3> QED
      BY <3>1, <1>1, <1>2, <2>2, Zenon
  <2>3. CASE s = q /\ b = y /\ a \in C[r] /\ ~(r = p /\ a = x)
    <3>1. ~Overlap(a, x)
      BY <1>1, <2>3, Zenon DEF Apart
    <3> QED
      BY <3>1, <1>1, <1>2, <2>3, Zenon
  <2> QED
    BY <1>4, <1>5, <2>1, <2>2, <2>3, Zenon
<1> QED
  BY <1>5, Zenon DEF Apart

\* And it keeps what they cover.
LEMMA MoveCovers ==
    ASSUME NEW C \in AllContents, NEW D, NEW p, NEW q, NEW x, NEW y \in DeviceBlock,
           Moves(C, D, p, q, x, y), NEW n
    PROVE  (Below(C, n) => Below(D, n)) /\ (Covers(C, n) => Covers(D, n))
<1>1. p \in Places /\ q \in Places /\ x \in C[p] /\ SameSpan(x, y) /\ x \in DeviceBlock
  BY Zenon DEF Moves, AllContents
<1>2. /\ y.offset = x.offset /\ Footprint(y) = Footprint(x) /\ Units(y) = Units(x)
  BY <1>1, SpanOverlap, Zenon DEF SameSpan
<1>3. \A r \in Places : \A b \in D[r] : b = y \/ \E k \in Places : b \in C[k]
  BY Zenon DEF Moves
<1>4. /\ y \in D[q]
      /\ \A r \in Places : \A b \in C[r] : b = x \/ \E k \in Places : b \in D[k]
  BY Zenon DEF Moves
<1>5. ASSUME Below(C, n) PROVE Below(D, n)
  BY <1>1, <1>2, <1>3, <1>5, Zenon DEF Below
<1>6. ASSUME Covers(C, n) PROVE Covers(D, n)
  BY <1>1, <1>2, <1>4, <1>6, Zenon DEF Covers
<1> QED
  BY <1>5, <1>6, Zenon

\* A block that starts where all others end.
LEMMA AddPlaced ==
    ASSUME NEW C \in AllContents, NEW D, NEW q, NEW b \in DeviceBlock, NEW n \in Nat, b.offset = n,
           Adds(C, D, q, b), Apart(C), Below(C, n), Covers(C, n)
    PROVE  Apart(D) /\ Below(D, n + Footprint(b)) /\ Covers(D, n + Footprint(b))
<1>1. /\ q \in Places /\ Footprint(b) \in Nat /\ b \in D[q]
      /\ \A r \in Places : \A a \in C[r] : a \in D[r]
      /\ \A r \in Places : \A a \in D[r] : a \in C[r] \/ (r = q /\ a = b)
  BY FootprintType, Zenon DEF Adds
<1>2. ASSUME NEW r \in Places, NEW a \in C[r]
      PROVE  ~Overlap(a, b) /\ ~Overlap(b, a) /\ a.offset + Footprint(a) <= n + Footprint(b)
  <2>1. a \in DeviceBlock
    BY <1>2, Zenon DEF AllContents
  <2>2. a.offset \in Nat /\ Footprint(a) \in Nat
    BY <2>1, FootprintType, Zenon
  <2>3. a.offset + Footprint(a) <= n
    BY <1>2, Zenon DEF Below
  <2> QED
    BY <1>1, <2>2, <2>3 DEF Overlap
<1>3. Apart(D)
  <2> SUFFICES ASSUME NEW r \in Places, NEW s \in Places, NEW x \in D[r], NEW y \in D[s], r # s \/ x # y
               PROVE  ~Overlap(x, y)
    BY Zenon DEF Apart
  <2>1. CASE x \in C[r] /\ y \in C[s]
    BY <2>1, Zenon DEF Apart
  <2>2. CASE x \in C[r] /\ s = q /\ y = b
    BY <1>2, <2>2, Zenon
  <2>3. CASE y \in C[s] /\ r = q /\ x = b
    BY <1>2, <2>3, Zenon
  <2>4. x \in C[r] \/ (r = q /\ x = b)
    BY <1>1, Zenon
  <2>5. y \in C[s] \/ (s = q /\ y = b)
    BY <1>1, Zenon
  <2>6. ~((r = q /\ x = b) /\ (s = q /\ y = b))
    BY Zenon
  <2> QED
    BY <2>1, <2>2, <2>3, <2>4, <2>5, <2>6, Zenon
<1>4. Below(D, n + Footprint(b))
  <2>1. b.offset + Footprint(b) <= n + Footprint(b)
    BY <1>1
  <2> QED
    BY <1>1, <1>2, <2>1, Zenon DEF Below
<1>5. ASSUME NEW x \in 0..((n + Footprint(b)) - 1) PROVE \E r \in Places : \E a \in D[r] : x \in Units(a)
  <2>1. CASE x \in 0..(n - 1)
    BY <1>1, <2>1, Zenon DEF Covers
  <2>2. CASE x \notin 0..(n - 1)
    <3>1. x \in Units(b)
      BY <1>1, <1>5, <2>2 DEF Units
    <3> QED
      BY <1>1, <3>1, Zenon
  <2> QED
    BY <2>1, <2>2, Zenon
<1>6. Covers(D, n + Footprint(b))
  BY <1>5, Zenon DEF Covers
<1> QED
  BY <1>3, <1>4, <1>6, Zenon

-----------------------------------------------------------------------------
(* What each step does to the contents of the places.                       *)

AtHeld == <<"held", 0, 0>>
InCall(t) == <<"blocks", t, 0>>
InHand(t) == <<"taken", t, 0>>
InList(w, c) == <<"map", w, c>>

\* The places.
LEMMA PlacesAre ==
    /\ AtHeld \in Places
    /\ \A t \in Threads : InCall(t) \in Places /\ InHand(t) \in Places
    /\ \A w \in Maps, c \in Categories : InList(w, c) \in Places
    /\ \A p \in Places : \/ p = AtHeld
                         \/ \E t \in Threads : p = InCall(t) \/ p = InHand(t)
                         \/ \E w \in Maps, c \in Categories : p = InList(w, c)
<1>1. AtHeld \in Places
  BY DEF Places, AtHeld
<1>2. \A t \in Threads : InCall(t) \in Places /\ InHand(t) \in Places
  BY DEF Places, InCall, InHand
<1>3. \A w \in Maps, c \in Categories : InList(w, c) \in Places
  BY DEF Places, InList
<1>4. ASSUME NEW p \in Places
      PROVE  \/ p = AtHeld
             \/ \E t \in Threads : p = InCall(t) \/ p = InHand(t)
             \/ \E w \in Maps, c \in Categories : p = InList(w, c)
  <2>1. CASE p \in {<<"held", 0, 0>>}
    BY <2>1, Zenon DEF AtHeld
  <2>2. CASE p \in {<<"blocks", t, 0>> : t \in Threads} \cup {<<"taken", t, 0>> : t \in Threads}
    BY <2>2, Zenon DEF InCall, InHand
  <2>3. CASE p \in {<<"map", w, c>> : w \in Maps, c \in Categories}
    <3>1. \E w \in Maps, c \in Categories : p = <<"map", w, c>>
      BY <2>3
    <3> QED
      BY <3>1, Zenon DEF InList
  <2>4. \/ p \in {<<"held", 0, 0>>}
        \/ p \in {<<"blocks", t, 0>> : t \in Threads} \cup {<<"taken", t, 0>> : t \in Threads}
        \/ p \in {<<"map", w, c>> : w \in Maps, c \in Categories}
    BY DEF Places
  <2> QED
    BY <2>1, <2>2, <2>3, <2>4
<1> QED
  BY <1>1, <1>2, <1>3, <1>4, Zenon

\* They differ.
LEMMA PlacesDiffer ==
    /\ \A t \in Threads : AtHeld # InCall(t) /\ AtHeld # InHand(t)
    /\ \A t, u \in Threads : InCall(t) # InHand(u)
    /\ \A t, u \in Threads : t # u => InCall(t) # InCall(u) /\ InHand(t) # InHand(u)
    /\ \A t \in Threads, w \in Maps, c \in Categories : InCall(t) # InList(w, c) /\ InHand(t) # InList(w, c)
    /\ \A w \in Maps, c \in Categories : AtHeld # InList(w, c)
    /\ \A w, v \in Maps, c, d \in Categories : (w # v \/ c # d) => InList(w, c) # InList(v, d)
BY SMT DEF AtHeld, InCall, InHand, InList

\* What they have.
LEMMA ContentsAre ==
    /\ Contents[AtHeld] = held /\ Contents'[AtHeld] = held'
    /\ \A t \in Threads : /\ Contents[InCall(t)] = blocks[t] /\ Contents'[InCall(t)] = blocks'[t]
                          /\ Contents[InHand(t)] = taken[t] /\ Contents'[InHand(t)] = taken'[t]
    /\ \A w \in Maps, c \in Categories : /\ Contents[InList(w, c)] = Range(maps[w][c])
                                         /\ Contents'[InList(w, c)] = Range(maps'[w][c])
<1>1. \A p \in Places : Contents[p] = BlocksAt(p) /\ Contents'[p] = BlocksAt(p)'
  BY Zenon DEF Contents
<1>2. AtHeld[1] = "held"
  BY Zenon DEF AtHeld
<1>3. \A t \in Threads : /\ InCall(t)[1] = "blocks" /\ InCall(t)[2] = t
                         /\ InHand(t)[1] = "taken" /\ InHand(t)[2] = t
  BY Zenon DEF InCall, InHand
<1>4. \A w \in Maps, c \in Categories :
         InList(w, c)[1] = "map" /\ InList(w, c)[2] = w /\ InList(w, c)[3] = c
  BY Zenon DEF InList
<1>5. BlocksAt(AtHeld) = held /\ BlocksAt(AtHeld)' = held'
  BY <1>2, Zenon DEF BlocksAt
<1>6. ASSUME NEW t \in Threads
      PROVE  /\ BlocksAt(InCall(t)) = blocks[t] /\ BlocksAt(InCall(t))' = blocks'[t]
             /\ BlocksAt(InHand(t)) = taken[t] /\ BlocksAt(InHand(t))' = taken'[t]
  BY <1>3, Zenon DEF BlocksAt
<1>7. ASSUME NEW w \in Maps, NEW c \in Categories
      PROVE  /\ BlocksAt(InList(w, c)) = Range(maps[w][c])
             /\ BlocksAt(InList(w, c))' = Range(maps'[w][c])
  BY <1>4 DEF BlocksAt
<1> QED
  BY <1>1, <1>5, <1>6, <1>7, PlacesAre

\* They have blocks that lie on the device.
LEMMA ContentsType ==
    ASSUME Typed
    PROVE  Contents \in AllContents
<1>1. ASSUME NEW p \in Places PROVE Contents[p] \in SUBSET DeviceBlock
  <2>1. CASE p = AtHeld
    BY <2>1, ContentsAre, Zenon DEF Typed
  <2>2. CASE \E t \in Threads : p = InCall(t) \/ p = InHand(t)
    <3>1. PICK t \in Threads : p = InCall(t) \/ p = InHand(t)
      BY <2>2, Zenon
    <3>2. blocks[t] \in SUBSET DeviceBlock /\ taken[t] \in SUBSET DeviceBlock
      BY Zenon DEF Typed
    <3> QED
      BY <3>1, <3>2, ContentsAre, Zenon
  <2>3. CASE \E w \in Maps, c \in Categories : p = InList(w, c)
    <3>1. PICK w \in Maps, c \in Categories : p = InList(w, c)
      BY <2>3, Zenon
    <3>2. maps[w][c] \in Seq(FreeListBlock)
      BY MapType, Zenon
    <3>3. \A i \in DOMAIN maps[w][c] : maps[w][c][i] \in FreeListBlock
      BY <3>2
    <3>4. Range(maps[w][c]) \subseteq DeviceBlock
      BY <3>3, Zenon DEF Range, FreeListBlock
    <3> QED
      BY <3>1, <3>4, ContentsAre, Zenon
  <2> QED
    BY <2>1, <2>2, <2>3, PlacesAre, Zenon
<1>2. Contents = [p \in Places |-> Contents[p]]
  BY Zenon DEF Contents
<1>3. [p \in Places |-> Contents[p]] \in [Places -> SUBSET DeviceBlock]
  BY <1>1, Zenon
<1> QED
  BY <1>2, <1>3, Zenon DEF AllContents

\* No block is moved.
LEMMA ContentsSame ==
    ASSUME held' = held, maps' = maps, \A t \in Threads : blocks'[t] = blocks[t] /\ taken'[t] = taken[t]
    PROVE  Contents' = Contents
<1>1. ASSUME NEW p \in Places PROVE Contents'[p] = Contents[p]
  <2>1. CASE p = AtHeld
    BY <2>1, ContentsAre, Zenon
  <2>2. CASE \E t \in Threads : p = InCall(t) \/ p = InHand(t)
    BY <2>2, ContentsAre, Zenon
  <2>3. CASE \E w \in Maps, c \in Categories : p = InList(w, c)
    BY <2>3, ContentsAre, Zenon
  <2> QED
    BY <2>1, <2>2, <2>3, PlacesAre, Zenon
<1>2. Contents = [p \in Places |-> Contents[p]] /\ Contents' = [p \in Places |-> Contents'[p]]
  BY Zenon DEF Contents
<1> QED
  BY <1>1, <1>2, Zenon

Lists == \A w \in Maps, c \in Categories : IsInjective(maps[w][c])

\* A block taken out of a list goes to the call that took it.
LEMMA TakingShifts ==
    ASSUME CallInv, Lists, NEW t \in Threads, NEW w \in Maps, NEW c \in Categories,
           NEW i \in 1..Len(maps[w][c]), Taking(t, w, c, i)
    PROVE  /\ Shifts(Contents, Contents', InList(w, c), InHand(t), {maps[w][c][i]})
           /\ Lists'
<1> DEFINE b == maps[w][c][i]
<1>1. Typed /\ maps[w][c] \in Seq(FreeListBlock)
  BY MapType, Zenon DEF CallInv
<1>2. maps' = [maps EXCEPT ![w] = [maps[w] EXCEPT ![c] = Erase(maps[w][c], i)]]
  BY Zenon DEF Taking, TakeOut
<1>3. /\ maps'[w][c] = Erase(maps[w][c], i)
      /\ \A v \in Maps, d \in Categories : (v # w \/ d # c) => maps'[v][d] = maps[v][d]
  <2>1. maps \in [Maps -> [Categories -> Seq(FreeListBlock)]]
    BY <1>1, Zenon DEF Typed
  <2>2. maps'[w] = [maps[w] EXCEPT ![c] = Erase(maps[w][c], i)] /\ \A v \in Maps \ {w} : maps'[v] = maps[v]
    BY <1>2, <2>1, Zenon
  <2>3. maps[w] \in [Categories -> Seq(FreeListBlock)]
    BY <2>1, Zenon
  <2>4. maps'[w][c] = Erase(maps[w][c], i) /\ \A d \in Categories \ {c} : maps'[w][d] = maps[w][d]
    BY <2>2, <2>3, Zenon
  <2> QED
    BY <2>2, <2>4, Zenon
<1>4. IsInjective(maps[w][c])
  BY Zenon DEF Lists
<1>5. Range(maps'[w][c]) = Range(maps[w][c]) \ {b} /\ IsInjective(maps'[w][c])
  <2>1. /\ Range(Erase(maps[w][c], i)) = Range(maps[w][c]) \ {maps[w][c][i]}
        /\ IsInjective(Erase(maps[w][c], i))
    BY <1>1, <1>4, EraseRange, Zenon
  <2> QED
    BY <2>1, <1>3, Zenon
<1>6. b \in Range(maps[w][c])
  <2>1. i \in DOMAIN maps[w][c]
    BY <1>1
  <2> QED
    BY <2>1, Zenon DEF Range
<1>7. /\ taken[t] = {} /\ taken'[t] = {b} /\ \A u \in Threads \ {t} : taken'[u] = taken[u]
      /\ held' = held /\ blocks' = blocks
  <2>1. pc[t] # "charge"
    BY Zenon DEF Taking
  <2> QED
    BY <2>1, <1>1, Zenon DEF Taking, CallInv, Calls, CallOK, Typed
<1> HIDE DEF b
<1>8. ASSUME NEW r \in Places \ {InList(w, c), InHand(t)} PROVE Contents'[r] = Contents[r]
  <2>1. CASE r = AtHeld
    BY <2>1, <1>7, ContentsAre, Zenon
  <2>2. CASE \E u \in Threads : r = InCall(u) \/ r = InHand(u)
    <3>1. PICK u \in Threads : r = InCall(u) \/ r = InHand(u)
      BY <2>2, Zenon
    <3>2. blocks'[u] = blocks[u] /\ (r = InHand(u) => taken'[u] = taken[u])
      BY <3>1, <1>7, <1>8, Zenon
    <3> QED
      BY <3>1, <3>2, ContentsAre, Zenon
  <2>3. CASE \E v \in Maps, d \in Categories : r = InList(v, d)
    <3>1. PICK v \in Maps, d \in Categories : r = InList(v, d)
      BY <2>3, Zenon
    <3>2. maps'[v][d] = maps[v][d]
      BY <3>1, <1>3, <1>8, Zenon
    <3> QED
      BY <3>1, <3>2, ContentsAre
  <2> QED
    BY <2>1, <2>2, <2>3, PlacesAre, Zenon
<1>9. /\ Contents[InList(w, c)] = Range(maps[w][c]) /\ Contents'[InList(w, c)] = Range(maps[w][c]) \ {b}
      /\ Contents[InHand(t)] = {} /\ Contents'[InHand(t)] = {b}
      /\ InList(w, c) \in Places /\ InHand(t) \in Places /\ InList(w, c) # InHand(t)
  BY <1>5, <1>7, ContentsAre, PlacesAre, PlacesDiffer, ZenonT(30)
<1>10. Shifts(Contents, Contents', InList(w, c), InHand(t), {b})
  BY <1>6, <1>8, <1>9, Zenon DEF Shifts
<1>11. Lists'
  BY <1>3, <1>5, Zenon DEF Lists
<1> QED
  BY <1>10, <1>11, Zenon DEF b

\* A block that is freed goes to a list of its thread's map.
LEMMA FreeingMoves ==
    ASSUME CallInv, Lists, Apart(Contents), NEW t \in Threads, NEW b \in blocks[t], NEW d \in FreeListBlock,
           Freeing(t, b, d), SameSpan(b, d)
    PROVE  /\ Moves(Contents, Contents', InCall(t), InList(WorkerIdx[t], d.type), b, d)
           /\ Lists' /\ WorkerIdx[t] \in Maps /\ d.type \in Categories
<1> DEFINE w == WorkerIdx[t]
           c == d.type
<1>1. Typed /\ w \in Maps /\ c \in Categories /\ d \in DeviceBlock
  <2>1. d \in DeviceBlock
    BY Zenon DEF FreeListBlock
  <2>2. w \in Maps
    BY AllocatorAssumption, Zenon DEF Maps
  <2> QED
    BY <2>1, <2>2, FootprintType, Zenon DEF CallInv
<1>2. maps' = [maps EXCEPT ![w] = [maps[w] EXCEPT ![c] = Append(maps[w][c], d)]]
  BY Zenon DEF Freeing, FreeBlock
<1> HIDE DEF w, c
<1>3. /\ maps'[w][c] = Append(maps[w][c], d) /\ maps[w][c] \in Seq(FreeListBlock)
      /\ \A v \in Maps, e \in Categories : (v # w \/ e # c) => maps'[v][e] = maps[v][e]
  <2>1. maps \in [Maps -> [Categories -> Seq(FreeListBlock)]]
    BY <1>1, Zenon DEF Typed
  <2>2. maps'[w] = [maps[w] EXCEPT ![c] = Append(maps[w][c], d)] /\ \A v \in Maps \ {w} : maps'[v] = maps[v]
    BY <1>1, <1>2, <2>1, Zenon
  <2>3. maps[w] \in [Categories -> Seq(FreeListBlock)]
    BY <1>1, <2>1, Zenon
  <2>4. maps'[w][c] = Append(maps[w][c], d) /\ \A e \in Categories \ {c} : maps'[w][e] = maps[w][e]
    BY <1>1, <2>2, <2>3, Zenon
  <2> QED
    BY <1>1, <2>2, <2>3, <2>4, Zenon
<1>4. d \notin Range(maps[w][c])
  <2>1. Contents \in AllContents
    BY <1>1, ContentsType, Zenon
  <2>2. b \in Contents[InCall(t)] /\ Contents[InList(w, c)] = Range(maps[w][c])
    BY <1>1, ContentsAre, Zenon
  <2>3. InCall(t) \in Places /\ InList(w, c) \in Places /\ InCall(t) # InList(w, c)
    BY <1>1, PlacesAre, PlacesDiffer
  <2>4. d \notin Contents[InList(w, c)]
    BY <1>1, <2>1, <2>2, <2>3, OnePlace, Zenon
  <2> QED
    BY <2>2, <2>4, Zenon
<1>5. IsInjective(maps[w][c])
  BY <1>1, Zenon DEF Lists
<1>6. Range(maps'[w][c]) = Range(maps[w][c]) \cup {d} /\ IsInjective(maps'[w][c])
  <2>1. /\ Range(Append(maps[w][c], d)) = Range(maps[w][c]) \cup {d}
        /\ IsInjective(Append(maps[w][c], d))
    BY SMTT(30), <1>3, <1>4, <1>5, AppendRange
  <2> QED
    BY <2>1, <1>3, Zenon
<1>7. /\ blocks'[t] = blocks[t] \ {b} /\ \A u \in Threads \ {t} : blocks'[u] = blocks[u]
      /\ held' = held /\ taken' = taken
  BY <1>1, Zenon DEF Freeing, Typed
<1>8. ASSUME NEW r \in Places \ {InList(w, c), InCall(t)} PROVE Contents'[r] = Contents[r]
  <2>1. CASE r = AtHeld
    BY <2>1, <1>7, ContentsAre, Zenon
  <2>2. CASE \E u \in Threads : r = InCall(u) \/ r = InHand(u)
    <3>1. PICK u \in Threads : r = InCall(u) \/ r = InHand(u)
      BY <2>2, Zenon
    <3>2. taken'[u] = taken[u] /\ (r = InCall(u) => blocks'[u] = blocks[u])
      BY <3>1, <1>7, <1>8, Zenon
    <3> QED
      BY <3>1, <3>2, ContentsAre, Zenon
  <2>3. CASE \E v \in Maps, e \in Categories : r = InList(v, e)
    <3>1. PICK v \in Maps, e \in Categories : r = InList(v, e)
      BY <2>3, Zenon
    <3>2. maps'[v][e] = maps[v][e]
      BY <3>1, <1>3, <1>8, Zenon
    <3> QED
      BY <3>1, <3>2, ContentsAre
  <2> QED
    BY <2>1, <2>2, <2>3, PlacesAre, Zenon
<1>9. /\ Contents[InList(w, c)] = Range(maps[w][c]) /\ Contents'[InList(w, c)] = Range(maps[w][c]) \cup {d}
      /\ Contents[InCall(t)] = blocks[t] /\ Contents'[InCall(t)] = blocks[t] \ {b}
      /\ InList(w, c) \in Places /\ InCall(t) \in Places /\ InCall(t) # InList(w, c)
  BY SMTT(30), <1>1, <1>6, <1>7, ContentsAre, PlacesAre, PlacesDiffer
<1>10. Moves(Contents, Contents', InCall(t), InList(w, c), b, d)
  BY <1>8, <1>9, Zenon DEF Moves
<1>11. Lists'
  BY <1>3, <1>6, Zenon DEF Lists
<1> QED
  BY <1>1, <1>10, <1>11, Zenon DEF w, c

\* A step of t that leaves the maps alone changes what callers or t have.
LEMMA OtherPlaces ==
    ASSUME NEW t \in Threads, maps' = maps, \A u \in Threads \ {t} : SameLocals(u)
    PROVE  \A r \in Places \ {AtHeld, InCall(t), InHand(t)} : Contents'[r] = Contents[r]
<1> SUFFICES ASSUME NEW r \in Places \ {AtHeld, InCall(t), InHand(t)}
             PROVE  Contents'[r] = Contents[r]
  BY Zenon
<1>1. CASE \E u \in Threads : r = InCall(u) \/ r = InHand(u)
  <2>1. PICK u \in Threads : r = InCall(u) \/ r = InHand(u)
    BY <1>1, Zenon
  <2>2. blocks'[u] = blocks[u] /\ taken'[u] = taken[u]
    BY <2>1, Zenon DEF SameLocals
  <2> QED
    BY <2>1, <2>2, ContentsAre, Zenon
<1>2. CASE \E w \in Maps, c \in Categories : r = InList(w, c)
  BY <1>2, ContentsAre, ZenonT(30)
<1> QED
  BY <1>1, <1>2, PlacesAre, Zenon

\* A block that is charged is the call's.
LEMMA ChargeShifts ==
    ASSUME CallInv, NEW t \in Threads, Charge(t)
    PROVE  Shifts(Contents, Contents', InHand(t), InCall(t), taken[t]) /\ maps' = maps
<1>1. /\ blocks'[t] = blocks[t] \cup taken[t] /\ taken'[t] = {} /\ held' = held /\ maps' = maps
  BY Zenon DEF Charge, CallInv, Typed
<1>2. \A u \in Threads \ {t} : SameLocals(u)
  BY ChargeCalls, Zenon
<1>3. \A r \in Places \ {InHand(t), InCall(t)} : Contents'[r] = Contents[r]
  <2>1. Contents'[AtHeld] = Contents[AtHeld]
    BY <1>1, ContentsAre, Zenon
  <2> QED
    BY <1>1, <1>2, <2>1, OtherPlaces, Zenon
<1>4. /\ Contents[InHand(t)] = taken[t] /\ Contents'[InHand(t)] = {}
      /\ Contents[InCall(t)] = blocks[t] /\ Contents'[InCall(t)] = blocks[t] \cup taken[t]
  BY <1>1, ContentsAre, Zenon
<1>5. InHand(t) \in Places /\ InCall(t) \in Places /\ InHand(t) # InCall(t)
  BY PlacesAre, PlacesDiffer, Zenon
<1> QED
  BY <1>1, <1>3, <1>4, <1>5, Zenon DEF Shifts

\* The blocks a caller gets.
LEMMA DeliverShifts ==
    ASSUME CallInv, NEW t \in Threads, Deliver(t), maps' = maps, \A u \in Threads \ {t} : SameLocals(u)
    PROVE  Shifts(Contents, Contents', InCall(t), AtHeld, blocks[t])
<1>1. blocks'[t] = {} /\ taken'[t] = taken[t] /\ held' = held \cup blocks[t]
  BY Zenon DEF Deliver, Return, CallInv, Typed
<1>2. \A r \in Places \ {InCall(t), AtHeld} : Contents'[r] = Contents[r]
  <2>1. Contents'[InHand(t)] = Contents[InHand(t)]
    BY <1>1, ContentsAre, Zenon
  <2> QED
    BY <1>1, <2>1, OtherPlaces, Zenon
<1>3. /\ Contents[InCall(t)] = blocks[t] /\ Contents'[InCall(t)] = {}
      /\ Contents[AtHeld] = held /\ Contents'[AtHeld] = held \cup blocks[t]
  BY <1>1, ContentsAre, Zenon
<1>4. AtHeld \in Places /\ InCall(t) \in Places /\ AtHeld # InCall(t)
  BY PlacesAre, PlacesDiffer, Zenon
<1> QED
  BY <1>2, <1>3, <1>4, Zenon DEF Shifts

\* The blocks a caller hands back.
LEMMA FreeBlocksShifts ==
    ASSUME CallInv, NEW t \in Threads, NEW bs \in SUBSET held, FreeBlocks(t, bs)
    PROVE  Shifts(Contents, Contents', AtHeld, InCall(t), bs) /\ maps' = maps
<1>1. blocks[t] = {} /\ blocks'[t] = bs /\ taken'[t] = taken[t] /\ held' = held \ bs /\ maps' = maps
  <2>1. pc[t] = "idle"
    BY Zenon DEF FreeBlocks, Begin, At
  <2>2. blocks[t] = {}
    BY <2>1, Zenon DEF CallInv, Calls, CallOK
  <2> QED
    BY <2>2, Zenon DEF FreeBlocks, space, CallInv, Typed
<1>2. \A u \in Threads \ {t} : SameLocals(u)
  BY ChargeCalls, Zenon
<1>3. \A r \in Places \ {InCall(t), AtHeld} : Contents'[r] = Contents[r]
  <2>1. Contents'[InHand(t)] = Contents[InHand(t)]
    BY <1>1, ContentsAre, Zenon
  <2> QED
    BY <1>1, <1>2, <2>1, OtherPlaces, Zenon
<1>4. /\ Contents[InCall(t)] = {} /\ Contents'[InCall(t)] = bs
      /\ Contents[AtHeld] = held /\ Contents'[AtHeld] = held \ bs
  BY <1>1, ContentsAre, Zenon
<1>5. AtHeld \in Places /\ InCall(t) \in Places /\ AtHeld # InCall(t)
  BY PlacesAre, PlacesDiffer, Zenon
<1> QED
  BY <1>1, <1>3, <1>4, <1>5, Zenon DEF Shifts

\* The block the heap gives.
LEMMA HeapAdds ==
    ASSUME CallInv, NEW t \in Threads, HeapAdd(t), ~(heap + AlignSize(total_size[t]) > Capacity)
    PROVE  /\ Reserved' = Reserved /\ heap' = heap + AlignSize(total_size[t]) /\ maps' = maps
           /\ \E b \in DeviceBlock : /\ Adds(Contents, Contents', InHand(t), b)
                                     /\ b.offset = heap /\ Footprint(b) = AlignSize(total_size[t])
<1>1. PICK b \in DeviceBlock : /\ taken' = [taken EXCEPT ![t] = {b}]
                               /\ b.offset = heap /\ Footprint(b) = AlignSize(total_size[t])
  BY HeapAddSucceeds, Zenon
<1>2. /\ Reserved' = Reserved /\ heap' = heap + AlignSize(total_size[t])
      /\ held' = held /\ blocks' = blocks /\ maps' = maps
  BY HeapAddSucceeds, Zenon
<1>3. taken[t] = {} /\ taken'[t] = {b}
  <2>1. pc[t] # "charge"
    BY Zenon DEF HeapAdd, At
  <2>2. taken[t] = {}
    BY <2>1, Zenon DEF CallInv, Calls, CallOK
  <2> QED
    BY <2>2, <1>1, Zenon DEF CallInv, Typed
<1>4. \A u \in Threads \ {t} : SameLocals(u)
  BY SearchCalls, Zenon
<1>5. \A r \in Places \ {InHand(t)} : Contents'[r] = Contents[r]
  <2>1. Contents'[InCall(t)] = Contents[InCall(t)] /\ Contents'[AtHeld] = Contents[AtHeld]
    BY <1>2, ContentsAre, Zenon
  <2> QED
    BY <1>2, <1>4, <2>1, OtherPlaces, Zenon
<1>6. Contents[InHand(t)] = {} /\ Contents'[InHand(t)] = {b} /\ InHand(t) \in Places
  BY <1>3, ContentsAre, PlacesAre, Zenon
<1>7. Adds(Contents, Contents', InHand(t), b)
  BY <1>5, <1>6, Zenon DEF Adds
<1> QED
  BY <1>1, <1>2, <1>7, Zenon

\* The steps that move no block.
Stays(t) ==
    \/ \E size \in Sizes : AllocateBlocks(t, size)
    \/ ReuseMissed(t) \/ AssembleMissed(t) \/ HeapUndo(t)
    \/ HeapAdd(t) /\ heap + AlignSize(total_size[t]) > Capacity
    \/ Uncharge(t) \/ AllocateFails(t) \/ CreditLoad(t) \/ CreditSub(t)
    \/ EnsureWaits(t) \/ (GrowLock(t) /\ ~Deliver(t)) \/ GrowTruncate(t) \/ GrowFails(t)

\* The steps that end in a delivery.
Delivers(t) == EnsureBacked(t) \/ (GrowLock(t) /\ Deliver(t)) \/ GrowPublish(t)

\* The steps that stay move nothing.
LEMMA StaysSame ==
    ASSUME CallInv, NEW t \in Threads, Stays(t)
    PROVE  Contents' = Contents /\ maps' = maps /\ held' = held /\ blocks' = blocks /\ taken' = taken
<1>1. Typed
  BY Zenon DEF CallInv
<1>2. CASE \/ \E size \in Sizes : AllocateBlocks(t, size)
           \/ ReuseMissed(t) \/ AssembleMissed(t) \/ HeapUndo(t)
           \/ HeapAdd(t) /\ heap + AlignSize(total_size[t]) > Capacity
           \/ Uncharge(t) \/ CreditLoad(t)
           \/ EnsureWaits(t) \/ (GrowLock(t) /\ ~Deliver(t)) \/ GrowTruncate(t) \/ GrowFails(t)
  <2>1. UNCHANGED <<held, maps, blocks, taken>>
    BY <1>2, Zenon DEF AllocateBlocks, ReuseMissed, AssembleMissed, HeapUndo, HeapAdd, Uncharge, CreditLoad,
                 EnsureWaits, GrowLock, GrowTruncate, GrowFails, space
  <2> QED
    BY <2>1, ContentsSame, Zenon
<1>3. CASE AllocateFails(t) \/ CreditSub(t)
  <2>1. /\ UNCHANGED <<held, maps, taken>> /\ blocks' = [blocks EXCEPT ![t] = {}]
        /\ pc[t] = "credit" \/ blocks[t] = {}
    BY <1>3, Zenon DEF AllocateFails, CreditSub, Return, At, space
  <2>2. blocks[t] = {}
    BY <2>1, Zenon DEF CallInv, Calls, CallOK
  <2>3. blocks' = blocks
    BY <1>1, <2>1, <2>2, Zenon DEF Typed
  <2> QED
    BY <2>1, <2>3, ContentsSame, Zenon
<1> QED
  BY <1>2, <1>3, Zenon DEF Stays

\* A delivery.
LEMMA DeliversShifts ==
    ASSUME CallInv, NEW t \in Threads, Delivers(t)
    PROVE  Shifts(Contents, Contents', InCall(t), AtHeld, blocks[t]) /\ maps' = maps
<1>1. Deliver(t) /\ maps' = maps
  BY Zenon DEF Delivers, EnsureBacked, GrowLock, GrowPublish, space
<1>2. \A u \in Threads \ {t} : SameLocals(u)
  BY EnsureCalls, Zenon DEF Delivers
<1> QED
  BY <1>1, <1>2, DeliverShifts, Zenon

-----------------------------------------------------------------------------
(* No two blocks overlap and nothing is lost.  Heap::Allocate compares with  *)
(* the capacity after it has added, so while one reservation that failed is  *)
(* about to be taken back, another that is small enough would succeed above  *)
(* it.  None is when no request exceeds two others together.                *)

NoneExceeds ==
    \A a, b, c \in Sizes \ {0} : AlignSize(a) <= AlignSize(b) + AlignSize(c)

\* heap_ without the reservations that have failed.
Committed == heap - Cardinality(Reserved)

Placed ==
    /\ Apart(Contents) /\ Lists
    /\ Below(Contents, Committed) /\ Covers(Contents, Committed)
    /\ Committed <= Capacity
    /\ Undoing # {} => \E a \in Sizes \ {0} : Committed + AlignSize(a) > Capacity

\* The kinds of steps.
LEMMA StepKinds ==
    ASSUME NEW t \in Threads, Does(t)
    PROVE  \/ Stays(t) \/ Delivers(t) \/ Charge(t)
           \/ ReuseFound(t) \/ AssembleFound(t)
           \/ RollbackFree(t) \/ FreeOne(t)
           \/ \E bs \in SUBSET held : FreeBlocks(t, bs)
           \/ HeapAdd(t) /\ ~(heap + AlignSize(total_size[t]) > Capacity)
BY Zenon DEF Does, Step, Stays, Delivers

\* The numbers of Committed.
LEMMA CommittedType ==
    ASSUME CallInv
    PROVE  /\ heap \in Nat /\ Cardinality(Reserved) \in Nat /\ IsFiniteSet(Reserved)
           /\ Committed \in Nat /\ Capacity \in Nat /\ Committed + Cardinality(Reserved) = heap
           /\ (Undoing = {} => Committed = heap)
<1>1. heap \in Nat /\ IsFiniteSet(Reserved) /\ Cardinality(Reserved) <= heap
  BY Zenon DEF CallInv, Typed, ReservedInHeap
<1>2. Cardinality(Reserved) \in Nat
  BY <1>1, FS_CardinalityType, Zenon
<1>3. Undoing = {} => Cardinality(Reserved) = 0
  BY ReservedTags, TagsNone, Zenon
<1>4. Capacity \in Nat
  BY AllocatorAssumption, Zenon
<1> QED
  BY SMTT(30), <1>1, <1>2, <1>3, <1>4 DEF Committed

\* A reservation succeeds only while no other has failed.
LEMMA SuccessAlone ==
    ASSUME NoneExceeds, CallInv, Placed, NEW t \in Threads, HeapAdd(t),
           ~(heap + AlignSize(total_size[t]) > Capacity)
    PROVE  Undoing = {}
<1> SUFFICES ASSUME NEW u \in Undoing PROVE FALSE
  BY Zenon
<1>1. PICK a \in Sizes \ {0} : Committed + AlignSize(a) > Capacity
  BY Zenon DEF Placed
<1>2. u \in Threads /\ total_size[u] \in Sizes \ {0} /\ total_size[t] \in Sizes \ {0}
  <2>1. u \in Threads /\ pc[u] = "heap_undo" /\ pc[t] = "heap"
    BY Zenon DEF Undoing, HeapAdd, At
  <2> QED
    BY <2>1, Zenon DEF CallInv, Calls, CallOK
<1>3. AlignSize(a) <= AlignSize(total_size[u]) + AlignSize(total_size[t])
  BY <1>1, <1>2, Zenon DEF NoneExceeds
<1>4. AlignSize(a) \in Nat /\ AlignSize(total_size[u]) \in Nat /\ AlignSize(total_size[t]) \in Nat
  <2>1. a \in Nat /\ total_size[u] \in Nat /\ total_size[t] \in Nat
    BY <1>2, AllocatorAssumption, Zenon
  <2> QED
    BY <2>1, AlignType, Zenon
<1>5. AlignSize(total_size[u]) <= Cardinality(Reserved)
  <2>1. Request[u] = AlignSize(total_size[u])
    BY <1>2, Zenon DEF Request
  <2>2. IsFiniteSet(Tags(Undoing, Request))
    BY CommittedType, ReservedTags, Zenon
  <2>3. Request[u] <= Cardinality(Tags(Undoing, Request))
    BY <1>4, <2>1, <2>2, TagsPart, Zenon
  <2> QED
    BY <2>1, <2>3, ReservedTags, Zenon
<1>6. heap \in Nat /\ Cardinality(Reserved) \in Nat /\ Committed \in Nat /\ Capacity \in Nat
      /\ Committed + Cardinality(Reserved) = heap
  BY CommittedType, Zenon
<1> QED
  BY SMTT(30), <1>1, <1>3, <1>4, <1>5, <1>6

\* What a step does to Committed.
LEMMA CommittedStep ==
    ASSUME CallInv, Placed, NEW t \in Threads, Does(t),
           ~(HeapAdd(t) /\ ~(heap + AlignSize(total_size[t]) > Capacity))
    PROVE  /\ Committed' = Committed
           /\ Undoing' # {} => \E a \in Sizes \ {0} : Committed + AlignSize(a) > Capacity
<1>1. /\ heap \in Nat /\ Cardinality(Reserved) \in Nat
      /\ Committed \in Nat /\ Capacity \in Nat /\ Committed + Cardinality(Reserved) = heap
      /\ (Undoing = {} => Committed = heap)
  BY CommittedType, Zenon
<1>2. total_size[t] \in Nat
  BY Zenon DEF CallInv, Typed
<1>3. AlignSize(total_size[t]) \in Nat
  BY <1>2, AlignType, Zenon
<1>4. CASE HeapAdd(t)
  <2>1. heap + AlignSize(total_size[t]) > Capacity
    BY <1>4, Zenon
  <2>2. /\ heap' = heap + AlignSize(total_size[t])
        /\ Cardinality(Reserved') = Cardinality(Reserved) + AlignSize(total_size[t])
    BY <1>4, <2>1, HeapAddFails, Zenon
  <2>3. Committed' = Committed
    BY SMTT(30), <1>1, <1>3, <2>2 DEF Committed
  <2>4. total_size[t] \in Sizes \ {0}
    BY <1>4, Zenon DEF HeapAdd, At, CallInv, Calls, CallOK
  <2>5. CASE Undoing = {}
    BY <2>1, <2>3, <2>4, <2>5, <1>1, Zenon
  <2>6. CASE Undoing # {}
    BY <2>3, <2>6, Zenon DEF Placed
  <2> QED
    BY <2>5, <2>6, Zenon
<1>5. CASE HeapUndo(t)
  <2>1. /\ IsFiniteSet(Reserved') /\ heap' = heap - AlignSize(total_size[t])
        /\ Cardinality(Reserved) = Cardinality(Reserved') + AlignSize(total_size[t])
    BY <1>5, HeapUndone, Zenon
  <2>2. Cardinality(Reserved') \in Nat
    BY <2>1, FS_CardinalityType, Zenon
  <2>3. Committed' = Committed
    BY SMTT(30), <1>1, <1>3, <2>1, <2>2 DEF Committed
  <2>4. t \in Undoing
    BY <1>5, Zenon DEF HeapUndo, At, Undoing
  <2> QED
    BY <2>3, <2>4, Zenon DEF Placed
<1>6. CASE ~HeapAdd(t) /\ ~HeapUndo(t)
  <2>1. heap' = heap /\ Reserved' = Reserved /\ Undoing' = Undoing
    BY <1>6, HeapKept, Zenon
  <2> QED
    BY <2>1, Zenon DEF Committed, Placed
<1> QED
  BY <1>4, <1>5, <1>6, Zenon

\* The blocks stay placed.
LEMMA PlacedStep ==
    ASSUME NoneExceeds, CallInv, Placed, [Next]_vars
    PROVE  Placed'
<1>1. Contents \in AllContents /\ Typed
  BY ContentsType, Zenon DEF CallInv
<1>2. /\ Apart(Contents) /\ Lists /\ Below(Contents, Committed) /\ Covers(Contents, Committed)
      /\ Committed <= Capacity
  BY Zenon DEF Placed
<1>3. CASE Next
  <2>1. PICK t \in Threads : Does(t)
    BY <1>3, NextDoes, Zenon
  <2>2. CASE HeapAdd(t) /\ ~(heap + AlignSize(total_size[t]) > Capacity)
    <3>1. Undoing = {}
      BY <2>2, SuccessAlone, Zenon
    <3>2. Committed = heap /\ heap \in Nat /\ Capacity \in Nat
      BY <3>1, CommittedType, Zenon
    <3>3. /\ Reserved' = Reserved /\ Undoing' = Undoing /\ heap' = heap + AlignSize(total_size[t])
          /\ maps' = maps
      BY <2>2, HeapAddSucceeds, Zenon
    <3>4. PICK b \in DeviceBlock : /\ Adds(Contents, Contents', InHand(t), b)
                                   /\ b.offset = heap /\ Footprint(b) = AlignSize(total_size[t])
      BY <2>2, HeapAdds, Zenon
    <3>5. Cardinality(Reserved) = 0
      BY <3>1, ReservedTags, TagsNone, Zenon
    <3>6. Committed' = heap + Footprint(b) /\ Footprint(b) \in Nat
      BY SMTT(30), <3>2, <3>3, <3>4, <3>5, FootprintType DEF Committed
    <3>7. /\ Apart(Contents') /\ Below(Contents', heap + Footprint(b))
          /\ Covers(Contents', heap + Footprint(b))
      BY <1>1, <1>2, <3>2, <3>4, AddPlaced, Zenon
    <3>8. heap + Footprint(b) <= Capacity
      BY SMTT(30), <2>2, <3>2, <3>4, <3>6
    <3>9. Lists'
      BY <1>2, <3>3, Zenon DEF Lists
    <3>10. Apart(Contents)' /\ Below(Contents, Committed)' /\ Covers(Contents, Committed)'
      BY <3>6, <3>7, Zenon DEF Apart, Below, Covers
    <3> QED
      BY <3>1, <3>3, <3>6, <3>8, <3>9, <3>10, Zenon DEF Placed
  <2>3. CASE ~(HeapAdd(t) /\ ~(heap + AlignSize(total_size[t]) > Capacity))
    <3>1. /\ Committed' = Committed
          /\ Undoing' # {} => \E a \in Sizes \ {0} : Committed + AlignSize(a) > Capacity
      BY <2>1, <2>3, CommittedStep, Zenon
    <3>2. Apart(Contents') /\ Lists' /\ Below(Contents', Committed) /\ Covers(Contents', Committed)
      <4>1. CASE Stays(t)
        <5>1. Contents' = Contents /\ maps' = maps
          BY <4>1, StaysSame, Zenon
        <5>2. Lists'
          BY <5>1, <1>2, Zenon DEF Lists
        <5> QED
          BY <5>1, <5>2, <1>2, Zenon
      <4>2. CASE Delivers(t) \/ Charge(t) \/ (\E bs \in SUBSET held : FreeBlocks(t, bs))
        <5>1. \E p, q, S : Shifts(Contents, Contents', p, q, S) /\ maps' = maps
          BY <4>2, DeliversShifts, ChargeShifts, FreeBlocksShifts, Zenon
        <5>2. PICK p, q, S : Shifts(Contents, Contents', p, q, S) /\ maps' = maps
          BY <5>1, Zenon
        <5>3. Lists'
          BY <5>2, <1>2, Zenon DEF Lists
        <5> QED
          BY <5>2, <5>3, <1>1, <1>2, ShiftApart, ShiftCovers, Zenon
      <4>3. CASE ReuseFound(t) \/ AssembleFound(t)
        <5>1. PICK w \in Maps : \E c \in Categories : \E i \in 1..Len(maps[w][c]) : Taking(t, w, c, i)
          BY <4>3, ReuseTakes, AssembleTakes, Zenon DEF Reusing, Assembling
        <5>2. PICK c \in Categories : \E i \in 1..Len(maps[w][c]) : Taking(t, w, c, i)
          BY <5>1, Zenon
        <5>3. PICK i \in 1..Len(maps[w][c]) : Taking(t, w, c, i)
          BY <5>2, Zenon
        <5>4. /\ Shifts(Contents, Contents', InList(w, c), InHand(t), {maps[w][c][i]})
              /\ Lists'
          BY <1>2, <5>3, TakingShifts, Zenon
        <5>5. PICK p, q, S : Shifts(Contents, Contents', p, q, S)
          BY <5>4, Zenon
        <5> QED
          BY <5>4, <5>5, <1>1, <1>2, ShiftApart, ShiftCovers, ZenonT(30)
      <4>4. CASE RollbackFree(t) \/ FreeOne(t)
        <5>1. PICK b \in blocks[t] : \E d \in FreeListBlock : Freeing(t, b, d) /\ SameSpan(b, d)
          BY <4>4, FreeingBlock, Zenon
        <5>2. PICK d \in FreeListBlock : Freeing(t, b, d) /\ SameSpan(b, d)
          BY <5>1, Zenon
        <5>3. Moves(Contents, Contents', InCall(t), InList(WorkerIdx[t], d.type), b, d) /\ Lists'
          BY <1>2, <5>2, FreeingMoves, Zenon
        <5>4. d \in DeviceBlock
          BY Zenon DEF FreeListBlock
        <5> QED
          BY <5>3, <5>4, <1>1, <1>2, MoveApart, MoveCovers, ZenonT(30)
      <4> QED
        BY <2>1, <2>3, <4>1, <4>2, <4>3, <4>4, StepKinds, ZenonT(30)
    <3>3. Apart(Contents)' /\ Below(Contents, Committed)' /\ Covers(Contents, Committed)'
      BY <3>1, <3>2, Zenon DEF Apart, Below, Covers
    <3> QED
      BY <1>2, <3>1, <3>2, <3>3, Zenon DEF Placed
  <2> QED
    BY <2>2, <2>3, Zenon
<1>4. CASE UNCHANGED vars
  <2>1. /\ UNCHANGED <<heap, maps, held, pc, total_size, blocks, taken>>
    BY <1>4, Zenon DEF vars, space
  <2>2. Contents' = Contents
    BY <2>1, ContentsSame, Zenon
  <2>3. Reserved' = Reserved /\ Undoing' = Undoing
    BY <2>1, Zenon DEF Reserved, Undoing, At
  <2>4. Committed' = Committed /\ Lists'
    BY <1>2, <2>1, <2>3, Zenon DEF Committed, Lists
  <2>5. Apart(Contents)' /\ Below(Contents, Committed)' /\ Covers(Contents, Committed)'
    BY <1>2, <2>2, <2>4, Zenon DEF Apart, Below, Covers
  <2> QED
    BY <2>3, <2>4, <2>5, Zenon DEF Placed
<1> QED
  BY <1>3, <1>4, Zenon

\* Nothing is placed at the start.
LEMMA PlacedInit ==
    ASSUME Init
    PROVE  Placed
<1>1. Contents \in AllContents /\ Typed
  BY CallInvInit, ContentsType, Zenon DEF CallInv
<1>2. ASSUME NEW p \in Places PROVE Contents[p] = {}
  <2>1. CASE p = AtHeld
    BY <2>1, ContentsAre, Zenon DEF Init
  <2>2. CASE \E t \in Threads : p = InCall(t) \/ p = InHand(t)
    <3>1. PICK t \in Threads : p = InCall(t) \/ p = InHand(t)
      BY <2>2, Zenon
    <3>2. blocks[t] = {} /\ taken[t] = {}
      BY Zenon DEF Init
    <3> QED
      BY <3>1, <3>2, ContentsAre, Zenon
  <2>3. CASE \E w \in Maps, c \in Categories : p = InList(w, c)
    <3>1. PICK w \in Maps, c \in Categories : p = InList(w, c)
      BY <2>3, Zenon
    <3>2. maps[w][c] = << >>
      BY Zenon DEF Init
    <3>3. Range(<< >>) = {}
      BY DEF Range
    <3> QED
      BY <3>1, <3>2, <3>3, ContentsAre, Zenon
  <2> QED
    BY <2>1, <2>2, <2>3, PlacesAre, Zenon
<1>3. Undoing = {}
  BY Zenon DEF Init, Undoing
<1>4. Committed = 0
  BY <1>3, CallInvInit, CommittedType, Zenon DEF Init
<1>5. Lists
  <2>1. IsInjective(<< >>)
    BY DEF IsInjective
  <2>2. \A w \in Maps, c \in Categories : maps[w][c] = << >>
    BY Zenon DEF Init
  <2> QED
    BY <2>1, <2>2, Zenon DEF Lists
<1>6. Apart(Contents) /\ Below(Contents, Committed)
  BY <1>2, Zenon DEF Apart, Below
<1>7. Covers(Contents, Committed)
  BY <1>4 DEF Covers
<1>8. Committed <= Capacity
  BY <1>4, AllocatorAssumption
<1> QED
  BY <1>3, <1>5, <1>6, <1>7, <1>8, Zenon DEF Placed

\* Two blocks that callers, calls or maps have never share a byte, no list has
\* a block twice and none reaches past the capacity (Heap::Allocate,
\* GlobalBlockMap), for any number of threads, maps and categories, when no
\* request exceeds two others together.
THEOREM BlocksApart ==
    ASSUME NoneExceeds
    PROVE  Spec => []NoOverlap
<1>1. Init => CallInv /\ Placed
  BY CallInvInit, PlacedInit, Zenon
<1>2. CallInv /\ Placed /\ [Next]_vars => (CallInv /\ Placed)'
  BY CallInvStep, PlacedStep, Zenon
<1>3. CallInv /\ Placed => NoOverlap
  <2> SUFFICES ASSUME CallInv, Placed PROVE NoOverlap
    BY Zenon
  <2>1. Contents \in AllContents
    BY ContentsType, Zenon DEF CallInv
  <2>2. \A p \in Places : Contents[p] = BlocksAt(p)
    BY Zenon DEF Contents
  <2>3. \A p \in Places : \A b \in BlocksAt(p) : b \in DeviceBlock
    BY <2>1, <2>2, Zenon DEF AllContents
  <2>4. \A p \in Places : \A b \in BlocksAt(p) : b.offset + Footprint(b) <= Capacity
    BY <2>3, Zenon DEF DeviceBlock
  <2>5. \A p, q \in Places : \A a \in BlocksAt(p), b \in BlocksAt(q) :
          (p # q \/ a # b) => ~Overlap(a, b)
    BY <2>2, Zenon DEF Placed, Apart
  <2>6. \A w \in Maps, c \in Categories : IsInjective(maps[w][c])
    BY ZenonT(30) DEF Placed, Lists
  <2> QED
    BY <2>4, <2>5, <2>6, Zenon DEF NoOverlap
<1> QED
  BY <1>1, <1>2, <1>3, PTL DEF Spec

\* Every byte below heap_, without the reservations that are about to be taken
\* back, is in some block: a failed AllocateBlocks, a failed growth and a
\* FreeBlocks lose nothing, under the same condition on the requests.
THEOREM SpaceKept ==
    ASSUME NoneExceeds
    PROVE  Spec => []NothingLost
<1>1. Init => CallInv /\ Placed
  BY CallInvInit, PlacedInit, Zenon
<1>2. CallInv /\ Placed /\ [Next]_vars => (CallInv /\ Placed)'
  BY CallInvStep, PlacedStep, Zenon
<1>3. CallInv /\ Placed => NothingLost
  <2> SUFFICES ASSUME CallInv, Placed PROVE NothingLost
    BY Zenon
  <2>1. \A p \in Places : Contents[p] = BlocksAt(p)
    BY Zenon DEF Contents
  <2>2. ASSUME NEW x \in 0..(Committed - 1)
        PROVE  x \in UnitsOf(UNION {BlocksAt(p) : p \in Places})
    <3>1. PICK p \in Places : \E b \in Contents[p] : x \in Units(b)
      BY <2>2, Zenon DEF Placed, Covers
    <3>2. PICK b \in BlocksAt(p) : x \in Units(b)
      BY <3>1, <2>1, Zenon
    <3>3. b \in UNION {BlocksAt(q) : q \in Places}
      BY <3>2, Zenon
    <3> QED
      BY <3>2, <3>3, Zenon DEF UnitsOf
  <2> QED
    BY <2>2, Zenon DEF NothingLost, Committed
<1> QED
  BY <1>1, <1>2, <1>3, PTL DEF Spec

-----------------------------------------------------------------------------
(* The accounting.  What allocated_bytes_ counts is the footprint of the     *)
(* blocks callers and calls have, and what calls have put back and not yet   *)
(* credited.                                                                *)

Charged == held \cup UNION {blocks[t] : t \in Threads}

Crediting == {u \in Threads : pc[u] \in {"uncharge", "free", "credit"}}

\* What a call has yet to credit.
Due(t) == IF t \in Crediting THEN amount[t] ELSE 0

Accounted ==
    /\ IsFiniteSet(Tags(Crediting, amount))
    /\ allocated_bytes = Cardinality(UnitsOf(Charged)) + Cardinality(Tags(Crediting, amount))
    /\ \A t \in Threads : cur[t] >= 0 /\ (pc[t] = "credit" => amount[t] <= cur[t])

\* The bytes of blocks on the device.
LEMMA UnitsType ==
    ASSUME NEW S \in SUBSET DeviceBlock
    PROVE  /\ IsFiniteSet(UnitsOf(S)) /\ Cardinality(UnitsOf(S)) \in Nat
           /\ Cardinality(UnitsOf(S)) <= Capacity
<1> DEFINE D == 0..(Capacity - 1)
<1>1. Capacity \in Nat /\ Capacity > 0
  BY AllocatorAssumption
<1>2. IsFiniteSet(D) /\ Cardinality(D) = Capacity
  <2>1. IsFiniteSet(0..(Capacity - 1))
    BY <1>1, FS_Interval
  <2>2. Cardinality(0..(Capacity - 1)) = IF 0 > Capacity - 1 THEN 0 ELSE (Capacity - 1) - 0 + 1
    BY <1>1, FS_Interval
  <2> QED
    BY SMTT(30), <1>1, <2>1, <2>2
<1>3. ASSUME NEW b \in S, NEW x \in Units(b) PROVE x \in D
  BY <1>1, FootprintType DEF Units
<1>4. UnitsOf(S) \subseteq D
  BY <1>3, Zenon DEF UnitsOf
<1> HIDE DEF D
<1>5. IsFiniteSet(UnitsOf(S)) /\ Cardinality(UnitsOf(S)) <= Cardinality(D)
  BY <1>2, <1>4, FS_Subset, Zenon
<1> QED
  BY <1>2, <1>5, FS_CardinalityType, Zenon

\* The bytes of one block.
LEMMA UnitsOne ==
    ASSUME NEW b \in DeviceBlock
    PROVE  IsFiniteSet(Units(b)) /\ Cardinality(Units(b)) = Footprint(b)
<1> DEFINE o == b.offset
           f == Footprint(b)
<1>1. o \in Nat /\ f \in Nat /\ f > 0
  BY FootprintType, Zenon
<1> HIDE DEF o, f
<1>2. o \in Int /\ o + f - 1 \in Int
  BY <1>1
<1>3. /\ IsFiniteSet(o..(o + f - 1))
      /\ Cardinality(o..(o + f - 1)) = IF o > o + f - 1 THEN 0 ELSE (o + f - 1) - o + 1
  BY <1>2, FS_Interval, Zenon
<1>4. IsFiniteSet(o..(o + f - 1)) /\ Cardinality(o..(o + f - 1)) = f
  BY <1>1, <1>3
<1> QED
  BY <1>4, Zenon DEF Units, o, f

\* A block that overlaps none of the others adds its footprint.
LEMMA UnitsAdd ==
    ASSUME NEW S \in SUBSET DeviceBlock, NEW b \in DeviceBlock, \A a \in S : ~Overlap(a, b)
    PROVE  Cardinality(UnitsOf(S \cup {b})) = Cardinality(UnitsOf(S)) + Footprint(b)
<1>1. UnitsOf(S \cup {b}) = UnitsOf(S) \cup Units(b)
  BY Zenon DEF UnitsOf
<1>2. ASSUME NEW x \in UnitsOf(S), x \in Units(b) PROVE FALSE
  <2>1. PICK a \in S : x \in Units(a)
    BY <1>2, Zenon DEF UnitsOf
  <2>2. /\ a.offset \in Nat /\ b.offset \in Nat /\ Footprint(a) \in Nat /\ Footprint(b) \in Nat
    BY FootprintType, Zenon
  <2>3. Overlap(a, b)
    BY <1>2, <2>1, <2>2 DEF Units, Overlap
  <2> QED
    BY <2>3, Zenon
<1>3. UnitsOf(S) \cap Units(b) = {}
  BY <1>2, Zenon
<1>4. /\ IsFiniteSet(UnitsOf(S)) /\ Cardinality(UnitsOf(S)) \in Nat
      /\ IsFiniteSet(Units(b)) /\ Cardinality(Units(b)) = Footprint(b) /\ Footprint(b) \in Nat
  BY UnitsType, UnitsOne, FootprintType, Zenon
<1>5. Cardinality(UnitsOf(S) \cup Units(b))
        = Cardinality(UnitsOf(S)) + Cardinality(Units(b)) - Cardinality(UnitsOf(S) \cap Units(b))
  BY <1>4, FS_Union, Zenon
<1>6. Cardinality(UnitsOf(S) \cap Units(b)) = 0
  BY <1>3, FS_EmptySet, Zenon
<1>7. Cardinality(UnitsOf(S) \cup Units(b)) = Cardinality(UnitsOf(S)) + Footprint(b) - 0
  BY <1>4, <1>5, <1>6, Zenon
<1>8. Cardinality(UnitsOf(S)) + Footprint(b) - 0 = Cardinality(UnitsOf(S)) + Footprint(b)
  BY <1>4
<1> QED
  BY <1>1, <1>7, <1>8, Zenon

\* What is to be credited changes by what the call's own share does.
LEMMA CreditStep ==
    ASSUME NEW t \in Threads, \A u \in Threads \ {t} : SameLocals(u),
           amount[t] \in Nat, amount'[t] \in Nat, IsFiniteSet(Tags(Crediting, amount))
    PROVE  /\ IsFiniteSet(Tags(Crediting', amount'))
           /\ Cardinality(Tags(Crediting, amount)) \in Nat /\ Cardinality(Tags(Crediting', amount')) \in Nat
           /\ Cardinality(Tags(Crediting', amount')) + Due(t) = Cardinality(Tags(Crediting, amount)) + Due(t)'
<1> DEFINE R == Crediting \ {t}
<1>1. /\ R = Crediting' \ {t} /\ t \notin R
      /\ \A u \in R : amount'[u] = amount[u]
  BY Zenon DEF Crediting, SameLocals
<1>2. /\ IsFiniteSet(Tags(R, amount))
      /\ Cardinality(Tags(Crediting, amount)) = Cardinality(Tags(R, amount)) + Due(t)
  <2>1. CASE t \in Crediting
    <3>1. /\ IsFiniteSet(Tags(R, amount))
          /\ Cardinality(Tags(Crediting, amount)) = Cardinality(Tags(R, amount)) + amount[t]
      BY <2>1, TagsRemove, Zenon
    <3> QED
      BY <2>1, <3>1, Zenon DEF Due
  <2>2. CASE t \notin Crediting
    <3>1. R = Crediting
      BY <2>2, Zenon
    <3>2. Cardinality(Tags(Crediting, amount)) \in Nat
      BY FS_CardinalityType, Zenon
    <3>3. Due(t) = 0
      BY <2>2, Zenon DEF Due
    <3> QED
      BY SMTT(30), <3>1, <3>2, <3>3
  <2> QED
    BY <2>1, <2>2, Zenon
<1>3. /\ IsFiniteSet(Tags(Crediting', amount'))
      /\ Cardinality(Tags(Crediting', amount')) = Cardinality(Tags(R, amount)) + Due(t)'
  <2> HIDE DEF R
  <2>1. CASE t \in Crediting'
    <3>1. t \notin R /\ \A u \in R : amount'[u] = amount[u]
      BY <1>1, Zenon
    <3>2. /\ IsFiniteSet(Tags(R \cup {t}, amount'))
          /\ Cardinality(Tags(R \cup {t}, amount')) = Cardinality(Tags(R, amount)) + amount'[t]
      BY <1>2, <3>1, TagsAdd, SMTT(30)
    <3>3. R \cup {t} = Crediting'
      BY <1>1, <2>1, Zenon
    <3>4. Due(t)' = amount'[t]
      BY <2>1, Zenon DEF Due
    <3> QED
      BY <3>2, <3>3, <3>4, Zenon
  <2>2. CASE t \notin Crediting'
    <3>1. R = Crediting'
      BY <1>1, <2>2, Zenon
    <3>2. Tags(R, amount') = Tags(R, amount)
      BY <1>1, TagsSame, Zenon
    <3>3. Cardinality(Tags(R, amount)) \in Nat
      BY <1>2, FS_CardinalityType, Zenon
    <3>4. Due(t)' = 0
      BY <2>2, Zenon DEF Due
    <3>5. Cardinality(Tags(R, amount)) = Cardinality(Tags(R, amount)) + Due(t)'
      BY <3>3, <3>4
    <3>6. Tags(Crediting', amount') = Tags(R, amount)
      BY <3>1, <3>2, Zenon
    <3> QED
      BY <1>2, <3>5, <3>6, Zenon
  <2> QED
    BY <2>1, <2>2, Zenon
<1>4. Cardinality(Tags(R, amount)) \in Nat
  BY <1>2, FS_CardinalityType, Zenon
<1>5. Due(t) \in Nat /\ Due(t)' \in Nat
  BY Zenon DEF Due
<1> HIDE DEF R
<1> QED
  BY SMTT(30), <1>2, <1>3, <1>4, <1>5

\* The blocks charged, by who has them.
LEMMA ChargedSplit ==
    ASSUME NEW t \in Threads, \A u \in Threads \ {t} : SameLocals(u)
    PROVE  \E R : /\ Charged = (held \cup blocks[t]) \cup R /\ Charged' = (held' \cup blocks'[t]) \cup R
                  /\ R = UNION {blocks[u] : u \in Threads \ {t}}
<1> DEFINE R == UNION {blocks[u] : u \in Threads \ {t}}
<1>1. Charged = (held \cup blocks[t]) \cup R
  BY Zenon DEF Charged
<1>2. \A u \in Threads \ {t} : blocks'[u] = blocks[u]
  BY Zenon DEF SameLocals
<1>3. Charged' = (held' \cup blocks'[t]) \cup R
  BY <1>2, Zenon DEF Charged
<1> HIDE DEF R
<1> QED
  BY <1>1, <1>3, Zenon DEF R

\* They lie on the device and have places.
LEMMA ChargedPlaces ==
    ASSUME Typed
    PROVE  /\ Charged \in SUBSET DeviceBlock
           /\ \A a \in Charged : \E p \in Places : /\ a \in Contents[p]
                                                   /\ p = AtHeld \/ \E u \in Threads : p = InCall(u)
<1>1. ASSUME NEW a \in Charged
      PROVE  \E p \in Places : a \in Contents[p] /\ (p = AtHeld \/ \E u \in Threads : p = InCall(u))
  <2>1. CASE a \in held
    BY <2>1, ContentsAre, PlacesAre, Zenon
  <2>2. CASE a \notin held
    <3>1. PICK u \in Threads : a \in blocks[u]
      BY <2>2, Zenon DEF Charged
    <3>2. InCall(u) \in Places /\ a \in Contents[InCall(u)]
      BY <3>1, ContentsAre, PlacesAre, Zenon
    <3> QED
      BY <3>2, Zenon
  <2> QED
    BY <2>1, <2>2, Zenon
<1>2. ASSUME NEW a \in Charged PROVE a \in DeviceBlock
  BY <1>1, ContentsType, Zenon DEF AllContents
<1> QED
  BY <1>1, <1>2, Zenon

\* A charge adds the block's footprint.
LEMMA ChargeAdds ==
    ASSUME CallInv, Placed, NEW t \in Threads, Charge(t)
    PROVE  Cardinality(UnitsOf(Charged')) = Cardinality(UnitsOf(Charged)) + amount[t]
<1>1. Typed /\ pc[t] = "charge"
  BY Zenon DEF CallInv, Charge, At
<1>2. PICK b \in taken[t] : taken[t] = {b} /\ amount[t] = Footprint(b)
  BY <1>1, Zenon DEF CallInv, Calls, CallOK
<1>3. \A u \in Threads \ {t} : SameLocals(u)
  BY ChargeCalls, Zenon
<1>4. blocks'[t] = blocks[t] \cup {b} /\ held' = held /\ b \in DeviceBlock
  BY <1>1, <1>2, Zenon DEF Charge, Typed
<1>5. Charged' = Charged \cup {b}
  BY <1>3, <1>4, ChargedSplit, Zenon
<1>6. InHand(t) \in Places /\ b \in Contents[InHand(t)]
  BY <1>2, ContentsAre, PlacesAre, Zenon
<1>7. ASSUME NEW a \in Charged PROVE ~Overlap(a, b)
  <2>1. PICK p \in Places : a \in Contents[p] /\ (p = AtHeld \/ \E u \in Threads : p = InCall(u))
    BY <1>1, ChargedPlaces, Zenon
  <2>2. p # InHand(t)
    BY <2>1, PlacesDiffer, Zenon
  <2> QED
    BY <1>6, <2>1, <2>2, Zenon DEF Placed, Apart
<1>8. Charged \in SUBSET DeviceBlock
  BY <1>1, ChargedPlaces, Zenon
<1> QED
  BY <1>2, <1>4, <1>5, <1>7, <1>8, UnitsAdd, Zenon

\* A block put back takes its footprint away.
LEMMA FreeingSubtracts ==
    ASSUME CallInv, Placed, NEW t \in Threads, NEW b \in blocks[t], NEW d, Freeing(t, b, d),
           \A u \in Threads \ {t} : SameLocals(u)
    PROVE  Cardinality(UnitsOf(Charged)) = Cardinality(UnitsOf(Charged')) + Footprint(b)
<1>1. Typed /\ Contents \in AllContents
  BY ContentsType, Zenon DEF CallInv
<1>2. blocks'[t] = blocks[t] \ {b} /\ held' = held /\ b \in DeviceBlock
  BY <1>1, Zenon DEF Freeing, Typed
<1>3. InCall(t) \in Places /\ b \in Contents[InCall(t)]
  BY ContentsAre, PlacesAre, Zenon
<1>4. Overlap(b, b)
  BY <1>2, SpanOverlap, Zenon DEF SameSpan
<1>5. b \notin held
  <2>1. AtHeld \in Places /\ AtHeld # InCall(t) /\ Contents[AtHeld] = held
    BY PlacesAre, PlacesDiffer, ContentsAre, Zenon
  <2> QED
    BY <1>3, <1>4, <2>1, Zenon DEF Placed, Apart
<1>6. ASSUME NEW u \in Threads \ {t} PROVE b \notin blocks[u]
  <2>1. InCall(u) \in Places /\ InCall(u) # InCall(t) /\ Contents[InCall(u)] = blocks[u]
    BY PlacesAre, PlacesDiffer, ContentsAre, Zenon
  <2> QED
    BY <1>3, <1>4, <2>1, Zenon DEF Placed, Apart
<1>7. Charged' = Charged \ {b} /\ b \in Charged
  <2>1. PICK R : /\ Charged = (held \cup blocks[t]) \cup R /\ Charged' = (held' \cup blocks'[t]) \cup R
                 /\ R = UNION {blocks[u] : u \in Threads \ {t}}
    BY ChargedSplit, Zenon
  <2>2. b \notin R
    BY <1>6, <2>1, Zenon
  <2> QED
    BY <1>2, <1>5, <2>1, <2>2, Zenon
<1>8. ASSUME NEW a \in Charged \ {b} PROVE ~Overlap(a, b)
  <2>1. PICK p \in Places : a \in Contents[p]
    BY <1>1, ChargedPlaces, Zenon
  <2> QED
    BY <1>3, <1>8, <2>1, Zenon DEF Placed, Apart
<1>9. Charged \ {b} \in SUBSET DeviceBlock
  BY <1>1, ChargedPlaces, Zenon
<1>10. Cardinality(UnitsOf((Charged \ {b}) \cup {b})) = Cardinality(UnitsOf(Charged \ {b})) + Footprint(b)
  BY <1>2, <1>8, <1>9, UnitsAdd, Zenon
<1>11. (Charged \ {b}) \cup {b} = Charged
  BY <1>7, Zenon
<1> QED
  BY <1>7, <1>10, <1>11, Zenon

\* The other steps leave the charged blocks as they are.
LEMMA ChargedKept ==
    ASSUME CallInv, NEW t \in Threads, \A u \in Threads \ {t} : SameLocals(u),
           \/ Stays(t) \/ Delivers(t) \/ ReuseFound(t) \/ AssembleFound(t) \/ HeapAdd(t)
           \/ \E bs \in SUBSET held : FreeBlocks(t, bs)
    PROVE  Charged' = Charged
<1>1. Typed
  BY Zenon DEF CallInv
<1>2. CASE Stays(t) \/ ReuseFound(t) \/ AssembleFound(t) \/ HeapAdd(t)
  <2>1. held' = held /\ blocks' = blocks
    BY <1>2, StaysSame, Zenon DEF ReuseFound, AssembleFound, HeapAdd
  <2> QED
    BY <2>1, Zenon DEF Charged
<1>3. CASE Delivers(t)
  <2>1. Deliver(t)
    BY <1>3, Zenon DEF Delivers, EnsureBacked, GrowPublish
  <2>2. held' = held \cup blocks[t] /\ blocks'[t] = {}
    BY <1>1, <2>1, Zenon DEF Deliver, Return, Typed
  <2> QED
    BY <2>2, ChargedSplit, Zenon
<1>4. CASE \E bs \in SUBSET held : FreeBlocks(t, bs)
  <2>1. PICK bs \in SUBSET held : FreeBlocks(t, bs)
    BY <1>4, Zenon
  <2>2. held' = held \ bs /\ blocks'[t] = bs /\ pc[t] = "idle"
    BY <1>1, <2>1, Zenon DEF FreeBlocks, Begin, At, Typed
  <2>3. blocks[t] = {}
    BY <2>2, Zenon DEF CallInv, Calls, CallOK
  <2>4. held' \cup blocks'[t] = held \cup blocks[t]
    BY <2>2, <2>3, Zenon
  <2> QED
    BY <2>4, ChargedSplit, Zenon
<1> QED
  BY <1>2, <1>3, <1>4, Zenon

\* Where t is after a step, and what it has yet to credit.
LEMMA DueAt ==
    ASSUME Typed, NEW t \in Threads
    PROVE  /\ \A l \in Labels : Goto(t, l) => pc'[t] = l
           /\ pc[t] \notin {"uncharge", "free", "credit"} => Due(t) = 0
           /\ pc[t] \in {"uncharge", "free", "credit"} => Due(t) = amount[t]
           /\ pc'[t] \notin {"uncharge", "free", "credit"} => Due(t)' = 0
           /\ pc'[t] \in {"uncharge", "free", "credit"} => Due(t)' = amount'[t]
<1>1. \A l \in Labels : Goto(t, l) => pc'[t] = l
  BY Zenon DEF Goto, Typed
<1> QED
  BY <1>1, Zenon DEF Due, Crediting

\* The steps that neither charge nor credit.
LEMMA NothingDue ==
    ASSUME CallInv, NEW t \in Threads,
           \/ \E size \in Sizes : AllocateBlocks(t, size)
           \/ \E bs \in SUBSET held : FreeBlocks(t, bs)
           \/ ReuseFound(t) \/ ReuseMissed(t) \/ HeapAdd(t) \/ HeapUndo(t)
           \/ AssembleFound(t) \/ AssembleMissed(t) \/ AllocateFails(t)
           \/ EnsureBacked(t) \/ EnsureWaits(t) \/ GrowLock(t)
           \/ GrowTruncate(t) \/ GrowPublish(t) \/ GrowFails(t)
    PROVE  allocated_bytes' = allocated_bytes /\ Due(t) = 0 /\ Due(t)' = 0
<1>1. Typed /\ CallOK(t)
  BY Zenon DEF CallInv, Calls
<1>2. /\ {"idle", "reuse", "heap", "heap_undo", "assemble", "charge", "rollback", "lock", "grow",
          "publish", "free"} \subseteq Labels
  BY Zenon DEF Labels
<1>3. CASE (\E bs \in SUBSET held : FreeBlocks(t, bs)) \/ GrowFails(t)
  <2>1. /\ allocated_bytes' = allocated_bytes /\ pc[t] \in {"idle", "grow"} /\ Goto(t, "free")
        /\ amount' = amount
    BY <1>3, Zenon DEF FreeBlocks, GrowFails, Begin, At, space
  <2>2. amount[t] = 0
    BY <1>1, <2>1, Zenon DEF CallOK
  <2> QED
    BY <1>1, <1>2, <2>1, <2>2, DueAt, Zenon
<1>4. CASE \/ \E size \in Sizes : AllocateBlocks(t, size)
           \/ ReuseFound(t) \/ HeapAdd(t) \/ HeapUndo(t) \/ AssembleFound(t)
  <2>1. /\ allocated_bytes' = allocated_bytes
        /\ pc[t] \in {"idle", "reuse", "heap", "heap_undo", "assemble"}
        /\ \/ Goto(t, "reuse") \/ Goto(t, "charge") \/ Goto(t, "heap_undo") \/ Goto(t, "assemble")
    BY <1>4, Zenon DEF AllocateBlocks, ReuseFound, HeapAdd, HeapUndo, AssembleFound, Begin, At, space
  <2> QED
    BY <1>1, <1>2, <2>1, DueAt, Zenon
<1>5. CASE ReuseMissed(t) \/ AssembleMissed(t)
  <2>1. /\ allocated_bytes' = allocated_bytes
        /\ pc[t] \in {"reuse", "assemble"}
        /\ \/ UNCHANGED pc \/ Goto(t, "heap") \/ Goto(t, "rollback")
    BY <1>5, Zenon DEF ReuseMissed, AssembleMissed, At, space
  <2> QED
    BY <1>1, <1>2, <2>1, DueAt, Zenon
<1>6. CASE AllocateFails(t) \/ EnsureBacked(t) \/ GrowPublish(t)
  <2>1. /\ allocated_bytes' = allocated_bytes
        /\ pc[t] \in {"rollback", "ensure", "publish"} /\ Goto(t, "idle")
    BY <1>6, Zenon DEF AllocateFails, EnsureBacked, GrowPublish, Deliver, Return, At, space
  <2> QED
    BY <1>1, <1>2, <2>1, DueAt, ZenonT(30)
<1>7. CASE EnsureWaits(t) \/ GrowLock(t) \/ GrowTruncate(t)
  <2>1. /\ allocated_bytes' = allocated_bytes
        /\ pc[t] \in {"ensure", "lock", "grow"}
        /\ \/ Goto(t, "idle") \/ Goto(t, "lock") \/ Goto(t, "grow") \/ Goto(t, "publish")
    BY <1>7, Zenon DEF EnsureWaits, GrowLock, GrowTruncate, Deliver, Return, At, space
  <2> QED
    BY <1>1, <1>2, <2>1, DueAt, ZenonT(30)
<1> QED
  BY <1>3, <1>4, <1>5, <1>6, <1>7, Zenon

\* After a step too, the charged blocks lie on the device.
LEMMA ChargedAfter ==
    ASSUME Typed'
    PROVE  Charged' \in SUBSET DeviceBlock
<1>1. held' \in SUBSET DeviceBlock /\ blocks' \in [Threads -> SUBSET DeviceBlock]
  BY Zenon DEF Typed
<1>2. \A u \in Threads : blocks'[u] \in SUBSET DeviceBlock
  BY <1>1, Zenon
<1>3. \A b \in Charged' : b \in DeviceBlock
  BY <1>1, <1>2, Zenon DEF Charged
<1> QED
  BY <1>3, Zenon

\* What a step adds to allocated_bytes_ it adds to the charged blocks or takes
\* from what is due.
LEMMA Balance ==
    ASSUME CallInv, Placed, Accounted, NEW t \in Threads, Does(t)
    PROVE  allocated_bytes' + Cardinality(UnitsOf(Charged)) + Due(t)
             = allocated_bytes + Cardinality(UnitsOf(Charged')) + Due(t)'
<1> DEFINE U == Cardinality(UnitsOf(Charged))
           V == Cardinality(UnitsOf(Charged'))
<1>1. Typed /\ CallOK(t) /\ allocated_bytes \in Int /\ amount[t] \in Nat
  BY Zenon DEF CallInv, Calls, Typed
<1>2. Typed'
  <2>1. Next
    BY Zenon DEF Next, Does
  <2> QED
    BY <2>1, TypedStep, Zenon
<1>3. U \in Nat /\ V \in Nat
  <2>1. Charged \in SUBSET DeviceBlock
    BY <1>1, ChargedPlaces, Zenon
  <2>2. Charged' \in SUBSET DeviceBlock
    BY <1>2, ChargedAfter, Zenon
  <2> QED
    BY <2>1, <2>2, UnitsType, Zenon
<1>4. \A u \in Threads \ {t} : SameLocals(u)
  BY CallsStep, Zenon
<1>5. {"assemble", "ensure", "rollback", "idle", "credit", "free", "uncharge"} \subseteq Labels
  BY Zenon DEF Labels
<1> HIDE DEF U, V
<1>6. CASE \/ \E size \in Sizes : AllocateBlocks(t, size)
           \/ \E bs \in SUBSET held : FreeBlocks(t, bs)
           \/ ReuseFound(t) \/ ReuseMissed(t) \/ HeapAdd(t) \/ HeapUndo(t)
           \/ AssembleFound(t) \/ AssembleMissed(t) \/ AllocateFails(t)
           \/ EnsureBacked(t) \/ EnsureWaits(t) \/ GrowLock(t)
           \/ GrowTruncate(t) \/ GrowPublish(t) \/ GrowFails(t)
  <2>1. allocated_bytes' = allocated_bytes /\ Due(t) = 0 /\ Due(t)' = 0
    BY <1>6, NothingDue, Zenon
  <2>2. Charged' = Charged
    BY <1>6, <1>4, ChargedKept, Zenon DEF Stays, Delivers
  <2>3. V = U
    BY <2>2, Zenon DEF U, V
  <2>4. allocated_bytes' + U + Due(t) = allocated_bytes + V + Due(t)'
    BY <2>1, <2>3, ZenonT(30)
  <2> QED
    BY <2>4, Zenon DEF U, V
<1>7. CASE Charge(t)
  <2>1. /\ allocated_bytes' = allocated_bytes + amount[t] /\ pc[t] = "charge"
        /\ Goto(t, "assemble") \/ Goto(t, "ensure")
    BY <1>7, Zenon DEF Charge, At
  <2>2. Due(t) = 0 /\ Due(t)' = 0
    BY <1>1, <1>5, <2>1, DueAt, ZenonT(30)
  <2>3. V = U + amount[t]
    BY <1>7, ChargeAdds, Zenon DEF U, V
  <2>4. allocated_bytes' + U + Due(t) = allocated_bytes + V + Due(t)'
    BY SMTT(30), <1>1, <1>3, <2>1, <2>2, <2>3
  <2> QED
    BY <2>4, Zenon DEF U, V
<1>8. CASE RollbackFree(t) \/ FreeOne(t)
  <2>1. PICK b \in blocks[t] : \E d \in FreeListBlock :
              /\ Freeing(t, b, d) /\ SameSpan(b, d)
              /\ \/ /\ pc[t] = "rollback" /\ pc' = [pc EXCEPT ![t] = "uncharge"]
                    /\ amount' = [amount EXCEPT ![t] = Footprint(b)]
                 \/ /\ pc[t] = "free" /\ UNCHANGED pc
                    /\ amount' = [amount EXCEPT ![t] = amount[t] + Footprint(b)]
    BY <1>8, FreeingBlock, Zenon
  <2>2. U = V + Footprint(b)
    BY <1>4, <2>1, FreeingSubtracts, Zenon DEF U, V
  <2>3. b \in DeviceBlock
    BY <1>1, Zenon DEF Typed
  <2>4. Footprint(b) \in Nat
    BY <2>3, FootprintType, Zenon
  <2>5. allocated_bytes' = allocated_bytes
    BY <2>1, Zenon DEF Freeing
  <2>6. Due(t) \in Nat /\ Due(t)' = Due(t) + Footprint(b)
    <3>1. CASE pc[t] = "rollback"
      <4>1. pc'[t] = "uncharge" /\ amount'[t] = Footprint(b)
        BY <1>1, <2>1, <3>1, Zenon DEF Typed
      <4>2. Due(t) = 0 /\ Due(t)' = Footprint(b)
        BY <1>1, <3>1, <4>1, DueAt, Zenon
      <4> QED
        BY <2>4, <4>2
    <3>2. CASE pc[t] = "free"
      <4>1. pc'[t] = "free" /\ amount'[t] = amount[t] + Footprint(b)
        BY <1>1, <2>1, <3>2, Zenon DEF Typed
      <4>2. Due(t) = amount[t] /\ Due(t)' = amount[t] + Footprint(b)
        BY <1>1, <3>2, <4>1, DueAt, ZenonT(30)
      <4> QED
        BY <1>1, <4>2, Zenon
    <3> QED
      BY <2>1, <3>1, <3>2, Zenon
  <2>7. allocated_bytes' + U + Due(t) = allocated_bytes + V + Due(t)'
    BY SMTT(30), <1>1, <1>3, <2>2, <2>4, <2>5, <2>6
  <2> QED
    BY <2>7, Zenon DEF U, V
<1>9. CASE Uncharge(t) \/ CreditLoad(t) \/ CreditSub(t)
  <2>1. Charged' = Charged
    BY <1>4, <1>9, ChargedKept, Zenon DEF Stays
  <2>2. V = U
    BY <2>1, Zenon DEF U, V
  <2>3. Due(t) = amount[t]
    <3>1. pc[t] \in {"uncharge", "free", "credit"}
      BY <1>9, Zenon DEF Uncharge, CreditLoad, CreditSub, At
    <3> QED
      BY <1>1, <3>1, DueAt, Zenon
  <2>4. CASE Uncharge(t)
    <3>1. allocated_bytes' = allocated_bytes - amount[t] /\ Goto(t, "rollback")
      BY <2>4, Zenon DEF Uncharge
    <3>2. Due(t)' = 0
      BY <1>1, <1>5, <3>1, DueAt, Zenon
    <3>3. allocated_bytes' + U + Due(t) = allocated_bytes + V + Due(t)'
      BY SMTT(30), <1>1, <1>3, <2>2, <2>3, <3>1, <3>2
    <3> QED
      BY <3>3, Zenon DEF U, V
  <2>5. CASE CreditLoad(t)
    <3>1. allocated_bytes' = allocated_bytes /\ amount' = amount /\ Goto(t, "credit")
      BY <2>5, Zenon DEF CreditLoad, space
    <3>2. Due(t)' = amount[t]
      BY <1>1, <1>5, <3>1, DueAt, Zenon
    <3>3. allocated_bytes' + U + Due(t) = allocated_bytes + V + Due(t)'
      BY <2>2, <2>3, <3>1, <3>2, Zenon
    <3> QED
      BY <3>3, Zenon DEF U, V
  <2>6. CASE CreditSub(t)
    <3>1. /\ allocated_bytes' = allocated_bytes - Min({cur[t], amount[t]}) /\ Goto(t, "idle")
          /\ pc[t] = "credit"
      BY <2>6, Zenon DEF CreditSub, Return, At
    <3>2. cur[t] \in Nat /\ amount[t] <= cur[t]
      <4>1. cur[t] \in Int
        BY <1>1, Zenon DEF Typed
      <4>2. cur[t] >= 0 /\ amount[t] <= cur[t]
        BY <3>1, Zenon DEF Accounted
      <4> QED
        BY <4>1, <4>2
    <3>3. Min({cur[t], amount[t]}) = amount[t]
      BY SMTT(30), <1>1, <3>2, MinPair
    <3>4. Due(t)' = 0
      BY <1>1, <1>5, <3>1, DueAt, Zenon
    <3>5. allocated_bytes' + U + Due(t) = allocated_bytes + V + Due(t)'
      BY SMTT(30), <1>1, <1>3, <2>2, <2>3, <3>1, <3>3, <3>4
    <3> QED
      BY <3>5, Zenon DEF U, V
  <2> QED
    BY <1>9, <2>4, <2>5, <2>6, Zenon
<1> QED
  BY <1>6, <1>7, <1>8, <1>9, Zenon DEF Does, Step

\* What a credit loads is at least what it takes.
LEMMA LoadCovers ==
    ASSUME CallInv, Accounted, NEW t \in Threads, Does(t)
    PROVE  cur'[t] >= 0 /\ (pc'[t] = "credit" => amount'[t] <= cur'[t])
<1>1. Typed /\ CallOK(t) /\ cur[t] \in Int /\ cur[t] >= 0 /\ amount[t] \in Nat
  BY Zenon DEF CallInv, Calls, Typed, Accounted
<1>2. Labels = {"idle", "reuse", "heap", "heap_undo", "assemble", "charge", "rollback",
                "uncharge", "ensure", "lock", "grow", "publish", "free", "credit"}
  BY Zenon DEF Labels
<1>3. \A l \in Labels : Goto(t, l) => pc'[t] = l
  BY <1>1, DueAt, Zenon
<1>4. CASE CreditLoad(t)
  <2>1. cur'[t] = allocated_bytes /\ amount' = amount /\ pc[t] = "free"
    BY <1>1, <1>4, Zenon DEF CreditLoad, At, Typed
  <2>2. t \in Crediting
    BY <2>1, Zenon DEF Crediting
  <2>3. /\ amount[t] <= Cardinality(Tags(Crediting, amount))
        /\ Cardinality(Tags(Crediting, amount)) \in Nat
    BY <1>1, <2>2, TagsPart, Zenon DEF Accounted
  <2>4. Cardinality(UnitsOf(Charged)) \in Nat
    BY <1>1, ChargedPlaces, UnitsType, Zenon
  <2>5. allocated_bytes = Cardinality(UnitsOf(Charged)) + Cardinality(Tags(Crediting, amount))
    BY Zenon DEF Accounted
  <2>6. allocated_bytes >= 0 /\ amount[t] <= allocated_bytes
    BY SMTT(30), <1>1, <2>3, <2>4, <2>5
  <2> QED
    BY <2>1, <2>6, Zenon
<1>5. CASE AllocateFails(t) \/ CreditSub(t) \/ Delivers(t)
  <2>1. Return(t)
    BY <1>5, Zenon DEF AllocateFails, CreditSub, Delivers, EnsureBacked, GrowPublish, Deliver
  <2>2. cur'[t] = 0 /\ pc'[t] = "idle"
    BY <1>1, <2>1, Zenon DEF Return, Goto, Typed
  <2> QED
    BY <2>2
<1>6. CASE \/ \E size \in Sizes : AllocateBlocks(t, size)
           \/ \E bs \in SUBSET held : FreeBlocks(t, bs)
           \/ HeapAdd(t) \/ HeapUndo(t) \/ ReuseFound(t) \/ AssembleFound(t)
  <2>1. /\ cur' = cur
        /\ \/ Goto(t, "reuse") \/ Goto(t, "free") \/ Goto(t, "heap_undo") \/ Goto(t, "charge")
           \/ Goto(t, "assemble")
    BY <1>6, Zenon DEF AllocateBlocks, FreeBlocks, Begin, HeapAdd, HeapUndo, ReuseFound, AssembleFound
  <2>2. pc'[t] # "credit"
    BY <1>2, <1>3, <2>1, Zenon
  <2> QED
    BY <1>1, <2>1, <2>2, Zenon
<1>7. CASE \/ ReuseMissed(t) \/ AssembleMissed(t) \/ Charge(t)
           \/ RollbackFree(t) \/ Uncharge(t) \/ FreeOne(t)
  <2>1. /\ cur' = cur /\ pc[t] # "credit"
        /\ \/ UNCHANGED pc \/ Goto(t, "heap") \/ Goto(t, "rollback") \/ Goto(t, "uncharge")
           \/ Goto(t, "assemble") \/ Goto(t, "ensure")
    BY <1>7, Zenon DEF ReuseMissed, AssembleMissed, Charge, RollbackFree, Uncharge, FreeOne, At
  <2>2. pc'[t] # "credit"
    BY <1>2, <1>3, <2>1, Zenon
  <2> QED
    BY <1>1, <2>1, <2>2, Zenon
<1>8. CASE EnsureWaits(t) \/ (GrowLock(t) /\ ~Deliver(t)) \/ GrowTruncate(t) \/ GrowFails(t)
  <2>1. /\ cur' = cur
        /\ Goto(t, "lock") \/ Goto(t, "grow") \/ Goto(t, "publish") \/ Goto(t, "free")
    BY <1>8, Zenon DEF EnsureWaits, GrowLock, GrowTruncate, GrowFails
  <2>2. pc'[t] # "credit"
    BY <1>2, <1>3, <2>1, Zenon
  <2> QED
    BY <1>1, <2>1, <2>2, Zenon
<1> QED
  BY <1>4, <1>5, <1>6, <1>7, <1>8, StepKinds, Zenon DEF Stays

\* The accounting stays right.
LEMMA AccountedStep ==
    ASSUME CallInv, Placed, Accounted, [Next]_vars
    PROVE  Accounted'
<1>1. CASE Next
  <2>1. PICK t \in Threads : Does(t)
    BY <1>1, NextDoes, Zenon
  <2>2. \A u \in Threads \ {t} : SameLocals(u)
    BY <2>1, CallsStep, Zenon
  <2>3. Typed /\ Typed'
    BY <1>1, TypedStep, Zenon DEF CallInv
  <2>4. amount[t] \in Nat /\ amount'[t] \in Nat /\ allocated_bytes \in Int /\ allocated_bytes' \in Int
    BY <2>3, Zenon DEF Typed
  <2> DEFINE U == Cardinality(UnitsOf(Charged))
             V == Cardinality(UnitsOf(Charged'))
             C == Cardinality(Tags(Crediting, amount))
             D == Cardinality(Tags(Crediting', amount'))
  <2>5. IsFiniteSet(Tags(Crediting, amount)) /\ allocated_bytes = U + C
    BY Zenon DEF Accounted
  <2>6. IsFiniteSet(Tags(Crediting', amount')) /\ C \in Nat /\ D \in Nat /\ D + Due(t) = C + Due(t)'
    BY <2>2, <2>4, <2>5, CreditStep, Zenon
  <2>7. U \in Nat /\ V \in Nat
    <3>1. Charged \in SUBSET DeviceBlock /\ Charged' \in SUBSET DeviceBlock
      BY <2>3, ChargedPlaces, ChargedAfter, Zenon
    <3> QED
      BY <3>1, UnitsType, Zenon
  <2>8. allocated_bytes' + U + Due(t) = allocated_bytes + V + Due(t)'
    BY <2>1, Balance, Zenon
  <2>9. Due(t) \in Nat /\ Due(t)' \in Nat
    BY <2>4, Zenon DEF Due
  <2> HIDE DEF U, V, C, D
  <2>10. allocated_bytes' = V + D
    BY SMTT(30), <2>4, <2>5, <2>6, <2>7, <2>8, <2>9
  <2>11. ASSUME NEW u \in Threads
         PROVE  cur'[u] >= 0 /\ (pc'[u] = "credit" => amount'[u] <= cur'[u])
    <3>1. CASE u = t
      BY <2>1, <3>1, LoadCovers, Zenon
    <3>2. CASE u # t
      BY <2>2, <3>2, Zenon DEF SameLocals, Accounted
    <3> QED
      BY <3>1, <3>2, Zenon
  <2>12. allocated_bytes' = Cardinality(UnitsOf(Charged')) + Cardinality(Tags(Crediting', amount'))
    BY <2>10, Zenon DEF V, D
  <2> QED
    BY <2>6, <2>11, <2>12, Zenon DEF Accounted, UnitsOf, Units, Footprint, Tags
<1>2. CASE UNCHANGED vars
  <2>1. UNCHANGED <<allocated_bytes, held, pc, blocks, amount, cur>>
    BY <1>2, Zenon DEF vars, space
  <2>2. Charged' = Charged /\ Crediting' = Crediting
    BY <2>1, Zenon DEF Charged, Crediting
  <2> QED
    BY <2>1, <2>2, Zenon DEF Accounted, UnitsOf, Units, Footprint, Tags
<1> QED
  BY <1>1, <1>2, Zenon

\* Nothing is charged at the start.
LEMMA AccountedInit ==
    ASSUME Init
    PROVE  Accounted
<1>1. Crediting = {} /\ Charged = {}
  BY Zenon DEF Init, Crediting, Charged
<1>2. IsFiniteSet(Tags(Crediting, amount)) /\ Cardinality(Tags(Crediting, amount)) = 0
  BY <1>1, TagsNone, Zenon
<1>3. UnitsOf(Charged) = {}
  BY <1>1, Zenon DEF UnitsOf
<1>4. Cardinality(UnitsOf(Charged)) = 0
  BY <1>3, FS_EmptySet, Zenon
<1>5. allocated_bytes = 0 /\ \A t \in Threads : cur[t] = 0 /\ pc[t] = "idle"
  BY Zenon DEF Init
<1>6. \A t \in Threads : cur[t] >= 0 /\ (pc[t] = "credit" => amount[t] <= cur[t])
  BY <1>5
<1>7. allocated_bytes = Cardinality(UnitsOf(Charged)) + Cardinality(Tags(Crediting, amount))
  BY <1>2, <1>4, <1>5
<1> QED
  BY <1>2, <1>6, <1>7, Zenon DEF Accounted

\* allocated_bytes_ never wraps below zero, nor does what a FreeBlocks loads of
\* it, and every variable keeps its type, under the condition on the requests.
THEOREM TypeCorrect ==
    ASSUME NoneExceeds
    PROVE  Spec => []TypeOK
<1>1. Init => CallInv /\ Placed /\ Accounted
  BY CallInvInit, PlacedInit, AccountedInit, Zenon
<1>2. CallInv /\ Placed /\ Accounted /\ [Next]_vars => (CallInv /\ Placed /\ Accounted)'
  BY CallInvStep, PlacedStep, AccountedStep, Zenon
<1>3. CallInv /\ Placed /\ Accounted => TypeOK
  <2> SUFFICES ASSUME CallInv, Accounted PROVE TypeOK
    BY Zenon
  <2>1. Typed
    BY Zenon DEF CallInv
  <2>2. allocated_bytes \in Nat
    <3>1. Cardinality(UnitsOf(Charged)) \in Nat
      BY <2>1, ChargedPlaces, UnitsType, Zenon
    <3>2. Cardinality(Tags(Crediting, amount)) \in Nat
      BY FS_CardinalityType, Zenon DEF Accounted
    <3> QED
      BY <3>1, <3>2 DEF Accounted
  <2>3. cur \in [Threads -> Nat]
    <3>1. \A t \in Threads : cur[t] \in Int /\ cur[t] >= 0
      BY <2>1, Zenon DEF Typed, Accounted
    <3>2. \A t \in Threads : cur[t] \in Nat
      BY <3>1
    <3>3. cur = [t \in Threads |-> cur[t]]
      BY <2>1, Zenon DEF Typed
    <3> QED
      BY <3>2, <3>3, Zenon
  <2>4. maps \in [Maps -> [Categories -> Seq(BlockSet)]]
    <3>1. maps = [w \in Maps |-> maps[w]]
      BY <2>1, Zenon DEF Typed
    <3>2. \A w \in Maps : maps[w] \in [Categories -> Seq(BlockSet)]
      BY <2>1, MapType, Zenon
    <3>3. [w \in Maps |-> maps[w]] \in [Maps -> [Categories -> Seq(BlockSet)]]
      BY <3>2, Zenon
    <3> QED
      BY <3>1, <3>3, Zenon
  <2>5. DeviceBlock \subseteq BlockSet
    BY Zenon DEF DeviceBlock
  <2>6. held \in SUBSET BlockSet
    BY <2>1, <2>5, Zenon DEF Typed
  <2>7. blocks \in [Threads -> SUBSET BlockSet] /\ taken \in [Threads -> SUBSET BlockSet]
    <3>1. \A t \in Threads : blocks[t] \in SUBSET BlockSet /\ taken[t] \in SUBSET BlockSet
      BY <2>1, <2>5, Zenon DEF Typed
    <3>2. blocks = [t \in Threads |-> blocks[t]] /\ taken = [t \in Threads |-> taken[t]]
      BY <2>1, Zenon DEF Typed
    <3>3. /\ [t \in Threads |-> blocks[t]] \in [Threads -> SUBSET BlockSet]
          /\ [t \in Threads |-> taken[t]] \in [Threads -> SUBSET BlockSet]
      BY <3>1, ZenonT(30)
    <3> QED
      BY <3>2, <3>3, Zenon
  <2> QED
    BY <2>1, <2>2, <2>3, <2>4, <2>6, <2>7, ZenonT(30) DEF TypeOK, Typed
<1> QED
  BY <1>1, <1>2, <1>3, PTL DEF Spec

\* GetRemainingSize never reports more than what the callers leave, in the
\* middle of any calls, and exactly that when none is running, under the
\* condition on the requests.
THEOREM RemainingTrue ==
    ASSUME NoneExceeds
    PROVE  Spec => []RemainingIsTrue
<1>1. Init => CallInv /\ Placed /\ Accounted
  BY CallInvInit, PlacedInit, AccountedInit, Zenon
<1>2. CallInv /\ Placed /\ Accounted /\ [Next]_vars => (CallInv /\ Placed /\ Accounted)'
  BY CallInvStep, PlacedStep, AccountedStep, Zenon
<1>3. CallInv /\ Placed /\ Accounted => RemainingIsTrue
  <2> SUFFICES ASSUME CallInv, Accounted PROVE RemainingIsTrue
    BY Zenon
  <2> DEFINE U == Cardinality(UnitsOf(Charged))
             C == Cardinality(Tags(Crediting, amount))
  <2>1. Typed /\ Capacity \in Nat
    BY AllocatorAssumption, Zenon DEF CallInv
  <2>2. Charged \in SUBSET DeviceBlock /\ held \in SUBSET DeviceBlock /\ held \subseteq Charged
    BY <2>1, ChargedPlaces, Zenon DEF Typed, Charged
  <2>3. /\ IsFiniteSet(UnitsOf(Charged)) /\ U \in Nat
        /\ HeldBytes \in Nat /\ HeldBytes <= Capacity
    BY <2>2, UnitsType, Zenon DEF HeldBytes
  <2>4. HeldBytes <= U
    <3>1. UnitsOf(held) \subseteq UnitsOf(Charged)
      BY <2>2, Zenon DEF UnitsOf
    <3> QED
      BY <2>3, <3>1, FS_Subset, Zenon DEF HeldBytes
  <2>5. C \in Nat /\ allocated_bytes = U + C
    BY FS_CardinalityType, Zenon DEF Accounted
  <2> HIDE DEF U, C
  <2>6. GetRemainingSize <= Capacity - HeldBytes
    BY SMTT(30), <2>1, <2>3, <2>4, <2>5 DEF GetRemainingSize
  <2>7. ASSUME \A t \in Threads : At(t, "idle") PROVE GetRemainingSize = Capacity - HeldBytes
    <3>1. Crediting = {}
      BY <2>7, Zenon DEF Crediting, At
    <3>2. \A t \in Threads : blocks[t] = {}
      BY <2>7, Zenon DEF At, CallInv, Calls, CallOK
    <3>3. Charged = held
      BY <3>2, Zenon DEF Charged
    <3>4. U = HeldBytes
      BY <3>3, Zenon DEF U, HeldBytes
    <3>5. C = 0
      BY <3>1, TagsNone, Zenon DEF C
    <3> QED
      BY SMTT(30), <2>1, <2>3, <2>5, <3>4, <3>5 DEF GetRemainingSize
  <2> QED
    BY <2>6, <2>7, Zenon DEF RemainingIsTrue
<1> QED
  BY <1>1, <1>2, <1>3, PTL DEF Spec

-----------------------------------------------------------------------------
(* The assembly of a request from freed blocks.                             *)

\* No block of the map fits in n bytes.
NoFit(w, n) == CategoriesUpTo(maps[w], n) = {}

\* A call that no other overlapped runs alone.
Alone == \A t \in Threads : (alone[t] /\ pc[t] # "idle") => \A u \in Threads \ {t} : pc[u] = "idle"

\* An assembly has no more than what it no longer lacks; the maps it has passed
\* have nothing that fits, and when it gives up none has.
Assembly(t) ==
    /\ (pc[t] \in {"assemble", "rollback", "uncharge"} \/ remaining[t] > 0) =>
          Cardinality(UnitsOf(blocks[t] \cup taken[t])) + remaining[t] <= AlignSize(total_size[t])
    /\ (alone[t] /\ pc[t] = "assemble") =>
          \A k \in 0..(scan[t] - 1) : NoFit((WorkerIdx[t] + k) % NumMaps, remaining[t])
    /\ (alone[t] /\ pc[t] \in {"rollback", "uncharge"} /\ NothingReturned(t)) =>
          \A w \in Maps : NoFit(w, remaining[t])

Assembled == Alone /\ \A t \in Threads : Assembly(t)

\* The search reaches every map.
LEMMA AllScanned ==
    ASSUME NEW i \in Maps, NEW w \in Maps
    PROVE  \E k \in 0..(NumMaps - 1) : (i + k) % NumMaps = w
<1>1. /\ NumMaps \in Nat \ {0} /\ i \in Nat /\ w \in Nat /\ i < NumMaps /\ w < NumMaps
  BY AllocatorAssumption DEF Maps
<1>2. CASE w >= i
  <2>1. w - i \in 0..(NumMaps - 1) /\ i + (w - i) = w
    BY <1>1, <1>2
  <2>2. w = NumMaps * 0 + w /\ 0 \in Nat
    BY <1>1
  <2>3. w % NumMaps = w
    BY <1>1, <2>2, DivisionUnique, Zenon
  <2> QED
    BY <2>1, <2>3, Zenon
<1>3. CASE ~(w >= i)
  <2> DEFINE k == (w - i) + NumMaps
  <2>1. k \in 0..(NumMaps - 1) /\ i + k = w + NumMaps
    BY SMTT(30), <1>1, <1>3
  <2>2. w + NumMaps = NumMaps * 1 + w /\ 1 \in Nat /\ w + NumMaps \in Nat
    BY <1>1
  <2>3. (w + NumMaps) % NumMaps = w
    BY <1>1, <2>2, DivisionUnique, Zenon
  <2> QED
    BY <2>1, <2>3, Zenon
<1> QED
  BY <1>2, <1>3, Zenon

\* The steps between the start of a call and its end.
LEMMA AloneStep ==
    ASSUME CallInv, Alone, NEW t \in Threads, Does(t)
    PROVE  /\ Alone'
           /\ \A u \in Threads : (u # t /\ alone'[u]) => pc[u] = "idle"
<1>1. Typed /\ CallOK(t)
  BY Zenon DEF CallInv, Calls
<1>2. \A u \in Threads \ {t} : pc'[u] = pc[u]
  BY CallsStep, Zenon DEF SameLocals
<1>3. CASE (\E size \in Sizes : AllocateBlocks(t, size)) \/ (\E bs \in SUBSET held : FreeBlocks(t, bs))
  <2>1. pc[t] = "idle" /\ alone' = [u \in Threads |-> IF u = t THEN \A v \in Threads : At(v, "idle")
                                                       ELSE alone[u] /\ At(u, "idle")]
    BY <1>3, Zenon DEF AllocateBlocks, FreeBlocks, Begin, At
  <2>2. ASSUME NEW u \in Threads, u # t, alone'[u] PROVE pc[u] = "idle"
    <3>1. alone'[u] = (alone[u] /\ At(u, "idle"))
      BY <2>1, <2>2, Zenon
    <3> QED
      BY <2>2, <3>1, Zenon DEF At
  <2>3. ASSUME alone'[t] PROVE \A v \in Threads : pc[v] = "idle"
    <3>1. alone'[t] = (\A v \in Threads : At(v, "idle"))
      BY <2>1, Zenon
    <3> QED
      BY <2>3, <3>1, Zenon DEF At
  <2>4. Alone'
    BY <1>2, <2>2, <2>3, ZenonT(30) DEF Alone
  <2> QED
    BY <2>2, <2>4, Zenon
<1>4. CASE Step(t)
  <2>1. pc[t] # "idle" /\ \A u \in Threads \ {t} : alone'[u] = alone[u]
    BY <1>1, <1>4, ZenonT(30) DEF Step, ReuseFound, ReuseMissed, HeapAdd, HeapUndo, AssembleFound, AssembleMissed,
       Charge, RollbackFree, Uncharge, AllocateFails, EnsureBacked, EnsureWaits, GrowLock, GrowTruncate,
       GrowPublish, GrowFails, FreeOne, CreditLoad, CreditSub, Deliver, Return, At, Typed
  <2>2. alone'[t] = alone[t] \/ pc'[t] = "idle"
    BY <1>1, <1>4, ZenonT(30) DEF Step, ReuseFound, ReuseMissed, HeapAdd, HeapUndo, AssembleFound, AssembleMissed,
       Charge, RollbackFree, Uncharge, AllocateFails, EnsureBacked, EnsureWaits, GrowLock, GrowTruncate,
       GrowPublish, GrowFails, FreeOne, CreditLoad, CreditSub, Deliver, Return, Goto, Typed
  <2>3. ASSUME NEW u \in Threads, u # t, alone'[u] PROVE pc[u] = "idle"
    BY <2>1, <2>3, Zenon DEF Alone
  <2>4. Alone'
    <3>1. ASSUME NEW u \in Threads, alone'[u], pc'[u] # "idle", NEW v \in Threads \ {u} PROVE pc'[v] = "idle"
      <4>1. u = t
        BY <1>2, <2>3, <3>1, Zenon
      <4>2. alone[t] /\ pc[t] # "idle"
        BY <2>1, <2>2, <3>1, <4>1, Zenon
      <4> QED
        BY <1>2, <3>1, <4>1, <4>2, Zenon DEF Alone
    <3> QED
      BY <3>1, Zenon DEF Alone
  <2> QED
    BY <2>3, <2>4, Zenon
<1> QED
  BY <1>3, <1>4, Zenon DEF Does

\* A call that is not assembling.
LEMMA NoAssembly ==
    ASSUME NEW t \in Threads, CallOK(t)',
           \/ pc'[t] \notin {"charge", "assemble", "rollback", "uncharge"}
           \/ pc'[t] = "charge" /\ remaining'[t] = 0
    PROVE  Assembly(t)'
<1>1. remaining'[t] = 0 /\ pc'[t] \notin {"assemble", "rollback", "uncharge"}
  BY Zenon DEF CallOK
<1>2. ~(remaining'[t] > 0)
  BY <1>1
<1> QED
  BY <1>1, <1>2, Zenon DEF Assembly

\* The call of another thread, which is idle if it has run alone.
LEMMA AssemblyOther ==
    ASSUME NEW u \in Threads, Assembly(u), SameLocals(u), alone'[u] => pc[u] = "idle"
    PROVE  Assembly(u)'
<1>1. alone'[u] => pc'[u] = "idle"
  BY Zenon DEF SameLocals
<1>2. /\ pc'[u] = pc[u] /\ remaining'[u] = remaining[u] /\ blocks'[u] = blocks[u] /\ taken'[u] = taken[u]
      /\ total_size'[u] = total_size[u]
  BY Zenon DEF SameLocals
<1>3. (pc'[u] \in {"assemble", "rollback", "uncharge"} \/ remaining'[u] > 0) =>
          Cardinality(UnitsOf(blocks'[u] \cup taken'[u])) + remaining'[u] <= AlignSize(total_size'[u])
  BY <1>2, Zenon DEF Assembly
<1> QED
  BY <1>1, <1>3, Zenon DEF Assembly, UnitsOf, Units, Footprint

\* The search goes on from nothing when Heap::Allocate fails.
LEMMA AssemblyHeapUndo ==
    ASSUME CallInv, NEW t \in Threads, HeapUndo(t)
    PROVE  Assembly(t)'
<1>1. Typed /\ CallOK(t)
  BY Zenon DEF CallInv, Calls
<1>2. /\ pc[t] = "heap_undo" /\ pc'[t] = "assemble" /\ remaining'[t] = AlignSize(total_size[t])
      /\ scan'[t] = scan[t] /\ blocks'[t] = blocks[t] /\ taken'[t] = taken[t] /\ total_size'[t] = total_size[t]
  BY <1>1, Zenon DEF HeapUndo, At, Goto, Typed
<1>3. blocks'[t] \cup taken'[t] = {} /\ scan'[t] = 0 /\ total_size[t] \in Nat
  BY <1>1, <1>2, Zenon DEF CallOK, Typed
<1>4. Cardinality(UnitsOf(blocks'[t] \cup taken'[t])) = 0
  <2>1. UnitsOf({}) = {}
    BY Zenon DEF UnitsOf
  <2> QED
    BY <1>3, <2>1, FS_EmptySet, Zenon
<1>5. Cardinality(UnitsOf(blocks'[t] \cup taken'[t])) + remaining'[t] <= AlignSize(total_size'[t])
  <2>1. AlignSize(total_size[t]) \in Nat
    BY <1>3, AlignType, Zenon
  <2>2. 0 + AlignSize(total_size[t]) <= AlignSize(total_size[t])
    BY <2>1
  <2> QED
    BY <1>2, <1>4, <2>2, Zenon
<1>6. 0..(scan'[t] - 1) = {}
  <2>1. 0..(0 - 1) = {}
    OBVIOUS
  <2> QED
    BY <1>3, <2>1, Zenon
<1>7. (Cardinality(UnitsOf(blocks[t] \cup taken[t])) + remaining[t] <= AlignSize(total_size[t]))'
  BY <1>5, Zenon DEF UnitsOf, Units, Footprint
<1> QED
  BY <1>2, <1>6, <1>7, Zenon DEF Assembly

\* A block found: the call has what it no longer lacks, and looks again from its
\* own map on.
LEMMA AssemblyFound ==
    ASSUME CallInv, Placed, NEW t \in Threads, Assembly(t), AssembleFound(t)
    PROVE  Assembly(t)'
<1>1. Typed /\ CallOK(t)
  BY Zenon DEF CallInv, Calls
<1>2. PICK w \in Maps : \E c \in Categories : \E i \in 1..Len(maps[w][c]) : Assembling(t, w, c, i)
  BY AssembleTakes, Zenon
<1>3. PICK c \in Categories : \E i \in 1..Len(maps[w][c]) : Assembling(t, w, c, i)
  BY <1>2, Zenon
<1>4. PICK i \in 1..Len(maps[w][c]) : Assembling(t, w, c, i)
  BY <1>3, Zenon
<1> DEFINE b == maps[w][c][i]
<1>5. /\ maps[w][c] \in Seq(FreeListBlock) /\ b \in DeviceBlock
  BY <1>1, ListBlock, Zenon
<1>6. b \in Range(maps[w][c])
  BY <1>5 DEF Range
<1> HIDE DEF b
<1>7. /\ pc[t] = "assemble" /\ pc'[t] = "charge" /\ taken'[t] = {b} /\ blocks'[t] = blocks[t]
      /\ remaining'[t] = remaining[t] - Footprint(b) /\ total_size'[t] = total_size[t]
  BY <1>1, <1>4, Zenon DEF Assembling, Taking, Typed, b
<1>8. taken[t] = {} /\ blocks[t] \in SUBSET DeviceBlock /\ remaining[t] \in Nat /\ total_size[t] \in Nat
  BY <1>1, <1>7, Zenon DEF CallOK, Typed
<1>9. ASSUME NEW a \in blocks[t] PROVE ~Overlap(a, b)
  <2>1. PICK p \in Places, q \in Places : p = InCall(t) /\ q = InList(w, c)
    BY PlacesAre, Zenon
  <2>2. p # q
    BY <2>1, PlacesDiffer, SMTT(30)
  <2>3. Contents[p] = blocks[t] /\ Contents[q] = Range(maps[w][c])
    BY <2>1, ContentsAre, SMTT(30)
  <2> QED
    BY <1>6, <1>9, <2>2, <2>3, Zenon DEF Placed, Apart
<1>10. Cardinality(UnitsOf(blocks[t] \cup {b})) = Cardinality(UnitsOf(blocks[t])) + Footprint(b)
  BY <1>5, <1>8, <1>9, UnitsAdd, SMTT(30)
<1> DEFINE n == Cardinality(UnitsOf(blocks[t]))
           f == Footprint(b)
           r == remaining[t]
           a == AlignSize(total_size[t])
<1>11. n + r <= a
  <2>1. blocks[t] \cup taken[t] = blocks[t]
    BY <1>8, Zenon
  <2> QED
    BY <1>7, <2>1, Zenon DEF Assembly
<1>12. n \in Nat /\ f \in Nat /\ r \in Nat /\ a \in Nat
  BY <1>5, <1>8, UnitsType, FootprintType, AlignType, ZenonT(30)
<1>13. Cardinality(UnitsOf(blocks[t] \cup {b})) = n + f
  BY <1>10, Zenon
<1> HIDE DEF n, f, r, a
<1>14. (n + f) + (r - f) <= a
  BY <1>11, <1>12
<1>15. Cardinality(UnitsOf(blocks'[t] \cup taken'[t])) + remaining'[t] <= AlignSize(total_size'[t])
  BY <1>7, <1>13, <1>14, Zenon DEF f, r, a
<1>16. (Cardinality(UnitsOf(blocks[t] \cup taken[t])) + remaining[t] <= AlignSize(total_size[t]))'
  BY <1>15, Zenon DEF UnitsOf, Units, Footprint
<1> QED
  BY <1>7, <1>16, Zenon DEF Assembly

\* A map with nothing that fits is passed; after the last one there is nothing
\* left to take.
LEMMA AssemblyMissed ==
    ASSUME CallInv, NEW t \in Threads, Assembly(t), AssembleMissed(t)
    PROVE  Assembly(t)'
<1>1. Typed /\ CallOK(t)
  BY Zenon DEF CallInv, Calls
<1>2. /\ pc[t] = "assemble" /\ NoFit(ScannedMap(t), remaining[t])
      /\ UNCHANGED <<total_size, blocks, taken, remaining, alone, maps>>
      /\ \/ scan[t] < NumMaps - 1 /\ scan' = [scan EXCEPT ![t] = scan[t] + 1] /\ UNCHANGED pc
         \/ ~(scan[t] < NumMaps - 1) /\ UNCHANGED scan /\ pc' = [pc EXCEPT ![t] = "rollback"]
  BY Zenon DEF AssembleMissed, At, Goto, NoFit, space
<1>3. (Cardinality(UnitsOf(blocks[t] \cup taken[t])) + remaining[t] <= AlignSize(total_size[t]))'
  <2>1. Cardinality(UnitsOf(blocks[t] \cup taken[t])) + remaining[t] <= AlignSize(total_size[t])
    BY <1>2, Zenon DEF Assembly
  <2> QED
    BY <1>2, <2>1, Zenon DEF UnitsOf, Units, Footprint
<1>4. scan[t] \in 0..(NumMaps - 1) /\ NumMaps \in Nat \ {0} /\ WorkerIdx[t] \in Maps
  BY <1>1, AllocatorAssumption, Zenon DEF Typed, Maps
<1>5. ASSUME alone[t], NEW k \in 0..scan[t] PROVE NoFit((WorkerIdx[t] + k) % NumMaps, remaining[t])
  <2>1. CASE k = scan[t]
    BY <1>2, <2>1, Zenon DEF ScannedMap
  <2>2. CASE k # scan[t]
    <3>1. k \in 0..(scan[t] - 1)
      BY SMTT(30), <1>4, <1>5, <2>2
    <3> QED
      BY <1>2, <1>5, <3>1, Zenon DEF Assembly
  <2> QED
    BY <2>1, <2>2, Zenon
<1>6. CASE scan[t] < NumMaps - 1 /\ scan' = [scan EXCEPT ![t] = scan[t] + 1] /\ UNCHANGED pc
  <2>1. scan'[t] = scan[t] + 1 /\ pc'[t] = "assemble"
    BY <1>1, <1>2, <1>6, Zenon DEF Typed
  <2>2. 0..(scan'[t] - 1) = 0..scan[t]
    BY SMTT(30), <1>4, <2>1
  <2>3. ASSUME alone'[t], NEW k \in 0..(scan'[t] - 1)
        PROVE  NoFit((WorkerIdx[t] + k) % NumMaps, remaining[t])'
    BY <1>2, <1>5, <2>2, <2>3, ZenonT(30) DEF NoFit
  <2> QED
    BY <1>3, <2>1, <2>3, Zenon DEF Assembly
<1>7. CASE ~(scan[t] < NumMaps - 1) /\ UNCHANGED scan /\ pc' = [pc EXCEPT ![t] = "rollback"]
  <2>1. scan[t] = NumMaps - 1 /\ pc'[t] = "rollback"
    <3>1. pc'[t] = "rollback"
      BY <1>1, <1>7, Zenon DEF Typed
    <3> QED
      BY SMTT(30), <1>4, <1>7, <3>1
  <2>2. ASSUME alone'[t], NEW w \in Maps PROVE NoFit(w, remaining[t])'
    <3>1. PICK k \in 0..(NumMaps - 1) : (WorkerIdx[t] + k) % NumMaps = w
      BY <1>4, AllScanned, Zenon
    <3>2. k \in 0..scan[t]
      BY <2>1, Zenon
    <3>3. NoFit(w, remaining[t])
      BY <1>2, <1>5, <2>2, <3>1, <3>2, ZenonT(30)
    <3> QED
      BY <1>2, <3>3, Zenon DEF NoFit
  <2> QED
    BY <1>3, <2>1, <2>2, ZenonT(30) DEF Assembly
<1> QED
  BY <1>2, <1>6, <1>7, Zenon

\* A charge moves the taken block to the call.
LEMMA AssemblyCharge ==
    ASSUME CallInv, NEW t \in Threads, Assembly(t), Charge(t), CallOK(t)'
    PROVE  Assembly(t)'
<1>1. Typed /\ CallOK(t)
  BY Zenon DEF CallInv, Calls
<1>2. /\ pc[t] = "charge" /\ blocks'[t] = blocks[t] \cup taken[t] /\ taken'[t] = {}
      /\ UNCHANGED <<total_size, scan, remaining>>
  BY <1>1, Zenon DEF Charge, At, Typed
<1>3. pc'[t] = (IF remaining[t] > 0 THEN "assemble" ELSE "ensure")
  <2>1. pc' = [pc EXCEPT ![t] = IF remaining[t] > 0 THEN "assemble" ELSE "ensure"]
    BY Zenon DEF Charge, Goto
  <2> QED
    BY <1>1, <2>1, Zenon DEF Typed
<1>4. CASE remaining[t] > 0
  <2>1. pc'[t] = "assemble" /\ scan'[t] = 0 /\ blocks'[t] \cup taken'[t] = blocks[t] \cup taken[t]
    BY <1>1, <1>2, <1>3, <1>4, Zenon DEF CallOK
  <2>2. (Cardinality(UnitsOf(blocks[t] \cup taken[t])) + remaining[t] <= AlignSize(total_size[t]))'
    <3>1. Cardinality(UnitsOf(blocks[t] \cup taken[t])) + remaining[t] <= AlignSize(total_size[t])
      BY <1>4, Zenon DEF Assembly
    <3> QED
      BY <1>2, <2>1, <3>1, Zenon DEF UnitsOf, Units, Footprint
  <2>3. 0..(scan'[t] - 1) = {}
    <3>1. 0..(0 - 1) = {}
      OBVIOUS
    <3> QED
      BY <2>1, <3>1, Zenon
  <2> QED
    BY <2>1, <2>2, <2>3, Zenon DEF Assembly
<1>5. CASE ~(remaining[t] > 0)
  <2>1. pc'[t] = "ensure"
    BY <1>3, <1>5, Zenon
  <2> QED
    BY <2>1, NoAssembly, Zenon
<1> QED
  BY <1>4, <1>5, Zenon

\* Once a block went back the call has less than what it had assembled.
LEMMA AssemblyRollback ==
    ASSUME CallInv, Placed, NEW t \in Threads, Assembly(t), RollbackFree(t)
    PROVE  Assembly(t)'
<1>1. Typed /\ CallOK(t) /\ pc[t] = "rollback"
  BY Zenon DEF CallInv, Calls, RollbackFree, At
<1>2. PICK b \in blocks[t] : \E d \in FreeListBlock : Freeing(t, b, d) /\ pc' = [pc EXCEPT ![t] = "uncharge"]
  <2>1. PICK b \in blocks[t] : \E d \in FreeListBlock :
              /\ Freeing(t, b, d) /\ SameSpan(b, d)
              /\ \/ /\ pc[t] = "rollback" /\ pc' = [pc EXCEPT ![t] = "uncharge"]
                    /\ amount' = [amount EXCEPT ![t] = Footprint(b)]
                 \/ /\ pc[t] = "free" /\ UNCHANGED pc
                    /\ amount' = [amount EXCEPT ![t] = amount[t] + Footprint(b)]
    BY FreeingBlock, Zenon
  <2> QED
    BY <1>1, <2>1, Zenon
<1>3. PICK d \in FreeListBlock : Freeing(t, b, d) /\ pc' = [pc EXCEPT ![t] = "uncharge"]
  BY <1>2, Zenon
<1>4. /\ pc'[t] = "uncharge" /\ blocks'[t] = blocks[t] \ {b} /\ taken'[t] = taken[t]
      /\ UNCHANGED <<total_size, remaining>>
  BY <1>1, <1>3, Zenon DEF Freeing, Typed
<1>5. /\ taken[t] = {} /\ blocks[t] \in SUBSET DeviceBlock /\ b \in DeviceBlock
      /\ remaining[t] \in Nat /\ total_size[t] \in Nat
  BY <1>1, Zenon DEF CallOK, Typed
<1> DEFINE S == blocks[t] \ {b}
<1>6. ASSUME NEW a \in S PROVE ~Overlap(a, b)
  <2>1. PICK p \in Places : p = InCall(t)
    BY PlacesAre, Zenon
  <2>2. Contents[p] = blocks[t]
    BY <2>1, ContentsAre, SMTT(30)
  <2>3. a \in blocks[t] /\ a # b
    BY <1>6, Zenon
  <2> QED
    BY <2>2, <2>3, Zenon DEF Placed, Apart
<1>7. S \cup {b} = blocks[t] /\ S \in SUBSET DeviceBlock
  BY <1>5, Zenon
<1> HIDE DEF S
<1>8. Cardinality(UnitsOf(S \cup {b})) = Cardinality(UnitsOf(S)) + Footprint(b)
  BY <1>5, <1>6, <1>7, UnitsAdd, SMTT(30)
<1> DEFINE n == Cardinality(UnitsOf(blocks[t]))
           m == Cardinality(UnitsOf(S))
           f == Footprint(b)
           r == remaining[t]
           a == AlignSize(total_size[t])
<1>9. n + r <= a
  <2>1. blocks[t] \cup taken[t] = blocks[t]
    BY <1>5, Zenon
  <2> QED
    BY <1>1, <2>1, Zenon DEF Assembly
<1>10. n \in Nat /\ m \in Nat /\ f \in Nat /\ f > 0 /\ r \in Nat /\ a \in Nat
  BY <1>5, <1>7, UnitsType, FootprintType, AlignType, Zenon
<1>11. n = m + f
  BY <1>7, <1>8, Zenon
<1> HIDE DEF n, m, f, r, a
<1>12. m + r <= a /\ m # a - r
  BY SMTT(30), <1>9, <1>10, <1>11
<1>13. blocks'[t] = S /\ blocks'[t] \cup taken'[t] = S
  BY <1>4, <1>5, Zenon DEF S
<1>14. (Cardinality(UnitsOf(blocks[t] \cup taken[t])) + remaining[t] <= AlignSize(total_size[t]))'
  BY <1>4, <1>12, <1>13, Zenon DEF UnitsOf, Units, Footprint, m, r, a
<1>15. ~NothingReturned(t)'
  <2>1. (NothingReturned(t))' <=> m = a - r
    BY <1>4, <1>13, Zenon DEF NothingReturned, UnitsOf, Units, Footprint, m, r, a
  <2> QED
    BY <1>12, <2>1, Zenon
<1> QED
  BY <1>4, <1>14, <1>15, Zenon DEF Assembly

LEMMA AssemblyUncharge ==
    ASSUME CallInv, NEW t \in Threads, Assembly(t), Uncharge(t)
    PROVE  Assembly(t)'
<1>1. Typed
  BY Zenon DEF CallInv
<1>2. /\ pc[t] = "uncharge" /\ pc'[t] = "rollback"
      /\ UNCHANGED <<total_size, blocks, taken, remaining, alone, maps>>
  BY <1>1, Zenon DEF Uncharge, At, Goto, Typed
<1>3. /\ Cardinality(UnitsOf(blocks[t] \cup taken[t])) + remaining[t] <= AlignSize(total_size[t])
      /\ (alone[t] /\ NothingReturned(t)) => \A w \in Maps : NoFit(w, remaining[t])
  BY <1>2, Zenon DEF Assembly
<1>4. (Cardinality(UnitsOf(blocks[t] \cup taken[t])) + remaining[t] <= AlignSize(total_size[t]))'
  BY <1>2, <1>3, Zenon DEF UnitsOf, Units, Footprint
<1>5. (NothingReturned(t))' <=> NothingReturned(t)
  BY <1>2, Zenon DEF NothingReturned, UnitsOf, Units, Footprint
<1>6. ASSUME alone'[t], NothingReturned(t)', NEW w \in Maps PROVE NoFit(w, remaining[t])'
  BY <1>2, <1>3, <1>5, <1>6, ZenonT(30) DEF NoFit
<1> QED
  BY <1>2, <1>4, <1>6, Zenon DEF Assembly

\* The steps of the thread itself.
LEMMA AssemblyStep ==
    ASSUME CallInv, Placed, NEW t \in Threads, Assembly(t), Does(t), CallOK(t)'
    PROVE  Assembly(t)'
<1>1. Typed /\ CallOK(t)
  BY Zenon DEF CallInv, Calls
<1>2. CASE HeapUndo(t) \/ AssembleFound(t) \/ AssembleMissed(t) \/ Charge(t) \/ RollbackFree(t) \/ Uncharge(t)
  BY <1>2, AssemblyHeapUndo, AssemblyFound, AssemblyMissed, AssemblyCharge, AssemblyRollback, AssemblyUncharge, ZenonT(30)
<1>3. CASE ReuseFound(t) \/ HeapAdd(t)
  <2>1. remaining'[t] = remaining[t] /\ pc[t] \in {"reuse", "heap"} /\ pc'[t] \in {"charge", "heap_undo"}
    BY <1>1, <1>3, Zenon DEF ReuseFound, HeapAdd, At, Goto, Typed
  <2>2. remaining'[t] = 0
    BY <1>1, <2>1, Zenon DEF CallOK
  <2> QED
    BY <2>1, <2>2, NoAssembly, Zenon
<1>4. CASE \/ \E size \in Sizes : AllocateBlocks(t, size)
           \/ \E bs \in SUBSET held : FreeBlocks(t, bs)
           \/ ReuseMissed(t) \/ AllocateFails(t) \/ EnsureBacked(t) \/ EnsureWaits(t) \/ GrowLock(t)
           \/ GrowTruncate(t) \/ GrowPublish(t) \/ GrowFails(t) \/ FreeOne(t) \/ CreditLoad(t) \/ CreditSub(t)
  <2>1. pc'[t] \notin {"charge", "assemble", "rollback", "uncharge"}
    BY <1>1, <1>4, ZenonT(30) DEF AllocateBlocks, FreeBlocks, Begin, ReuseMissed, AllocateFails, EnsureBacked,
       EnsureWaits, GrowLock, GrowTruncate, GrowPublish, GrowFails, FreeOne, CreditLoad, CreditSub, Deliver,
       Return, At, Goto, Typed
  <2> QED
    BY <2>1, NoAssembly, Zenon
<1> QED
  BY <1>2, <1>3, <1>4, Zenon DEF Does, Step

\* The rules of an assembly are inductive.
LEMMA AssembledStep ==
    ASSUME CallInv, Placed, Assembled, [Next]_vars
    PROVE  Assembled'
<1>1. CASE Next
  <2>1. PICK t \in Threads : Does(t)
    BY <1>1, NextDoes, Zenon
  <2>2. CallOK(t)' /\ \A u \in Threads \ {t} : SameLocals(u)
    BY <2>1, CallsStep, Zenon
  <2>3. Alone' /\ \A u \in Threads : (u # t /\ alone'[u]) => pc[u] = "idle"
    BY <2>1, AloneStep, Zenon DEF Assembled
  <2>4. Assembly(t)'
    BY <2>1, <2>2, AssemblyStep, Zenon DEF Assembled
  <2>5. ASSUME NEW u \in Threads, u # t PROVE Assembly(u)'
    BY <2>2, <2>3, <2>5, AssemblyOther, Zenon DEF Assembled
  <2> QED
    BY <2>3, <2>4, <2>5, ZenonT(30) DEF Assembled
<1>2. CASE UNCHANGED vars
  BY <1>2, Zenon DEF vars, space, backing, Assembled, Alone, Assembly, NoFit, NothingReturned,
     UnitsOf, Units, Footprint
<1> QED
  BY <1>1, <1>2, Zenon

LEMMA AssembledInit ==
    ASSUME Init
    PROVE  Assembled
<1>1. \A t \in Threads : pc[t] = "idle" /\ remaining[t] = 0
  BY Zenon DEF Init
<1>2. ~(0 > 0)
  OBVIOUS
<1> QED
  BY <1>1, <1>2, Zenon DEF Assembled, Alone, Assembly

\* With the one alignment the code uses, a call that ran alone gives up only
\* when no freed block fits in what it lacks (step 3 of AllocateBlocks,
\* AllocateAnyUpTo): nothing that could have served the request was passed over.
THEOREM AssemblyComplete ==
    ASSUME NoneExceeds, Slab = Alignment
    PROVE  Spec => []AssemblesWhatFits
<1>1. Init => CallInv /\ Placed /\ Assembled
  BY CallInvInit, PlacedInit, AssembledInit, Zenon
<1>2. CallInv /\ Placed /\ Assembled /\ [Next]_vars => (CallInv /\ Placed /\ Assembled)'
  BY CallInvStep, PlacedStep, AssembledStep, Zenon
<1>3. CallInv /\ Placed /\ Assembled => AssemblesWhatFits
  <2> SUFFICES ASSUME CallInv, Assembled, NEW t \in Threads, alone[t], At(t, "rollback"), NothingReturned(t),
                      NEW w \in Maps, NEW c \in Categories, NEW i \in DOMAIN maps[w][c],
                      AlignSize(maps[w][c][i].size) <= remaining[t]
               PROVE  FALSE
    BY Zenon DEF AssemblesWhatFits
  <2>1. maps[w][c] \in Seq(FreeListBlock)
    BY MapType, Zenon DEF CallInv
  <2>2. i \in 1..Len(maps[w][c])
    BY <2>1
  <2>3. maps[w][c][i] \in DeviceBlock
    BY <2>2, ListBlock, Zenon DEF CallInv
  <2>4. maps[w][c][i].size > 0
    BY <2>3, FootprintType, Zenon
  <2>5. FitsUpTo(maps[w][c][i], remaining[t])
    BY <2>4, Zenon DEF FitsUpTo, AlignSize
  <2>6. c \in CategoriesUpTo(maps[w], remaining[t])
    BY <2>5, Zenon DEF CategoriesUpTo
  <2>7. NoFit(w, remaining[t])
    BY Zenon DEF Assembled, Assembly, At
  <2> QED
    BY <2>6, <2>7, Zenon DEF NoFit
<1> QED
  BY <1>1, <1>2, <1>3, PTL DEF Spec
=============================================================================
