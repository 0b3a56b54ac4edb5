------------------------ MODULE BlockAllocatorProofs ------------------------
(* Proofs about BlockAllocator, for any threads, maps, sizes and capacity:  *)
(* the types of its state, what holds of the locals of a call at each of its *)
(* steps, and that no block is handed out before the file reaches behind it. *)
EXTENDS BlockAllocator, FiniteSetTheorems, TLAPS

-----------------------------------------------------------------------------
(* Arithmetic, minima and lists.                                            *)

\* Division with remainder, as the provers know it.
LEMMA Division ==
    ASSUME NEW n \in Nat, NEW q \in Nat \ {0}
    PROVE  /\ n \div q \in Nat /\ n % q \in Nat /\ n % q < q
           /\ n = q * (n \div q) + (n % q)
OBVIOUS

\* Quotient and remainder are the only ones.
LEMMA DivisionUnique ==
    ASSUME NEW n \in Nat, NEW q \in Nat \ {0}, NEW k \in Nat, NEW r \in Nat,
           r < q, n = q * k + r
    PROVE  n \div q = k /\ n % q = r
<1> DEFINE d == n \div q
           m == n % q
<1>1. d \in Nat /\ m \in Nat /\ m < q /\ n = q * d + m
  BY Division, Zenon
<1>2. q * (d - k) = r - m
  BY <1>1, SMT
<1>3. ~(d - k >= 1)
  <2> SUFFICES ASSUME d - k >= 1 PROVE FALSE
    BY Zenon
  <2>1. q * (d - k) >= q
    BY <1>1, SMT
  <2> QED
    BY <2>1, <1>1, <1>2, SMT
<1>4. ~(k - d >= 1)
  <2> SUFFICES ASSUME k - d >= 1 PROVE FALSE
    BY Zenon
  <2>1. q * (k - d) >= q
    BY <1>1, SMT
  <2>2. q * (k - d) = m - r
    BY <1>1, SMT
  <2> QED
    BY <2>1, <2>2, <1>1, SMT
<1>5. d = k
  BY <1>1, <1>3, <1>4, SMT
<1> QED
  BY <1>1, <1>5, SMT

\* A multiple is its own round-up.
LEMMA RoundUpMultiple ==
    ASSUME NEW k \in Nat, NEW u \in Nat \ {0}
    PROVE  RoundUp(k * u, u) = k * u
<1>1. k * u \in Nat /\ u * k = k * u /\ u - 1 \in Nat /\ k * u + u - 1 \in Nat
  BY SMT
<1>2. k * u + u - 1 = u * k + (u - 1)
  BY <1>1, SMT
<1>3. (k * u + u - 1) \div u = k
  BY <1>1, <1>2, DivisionUnique
<1> QED
  BY <1>3, Zenon DEF RoundUp

\* Rounding up gives a multiple that is no smaller.
LEMMA RoundUpType ==
    ASSUME NEW n \in Nat, NEW u \in Nat \ {0}
    PROVE  /\ RoundUp(n, u) \in Nat /\ RoundUp(n, u) >= n
           /\ RoundUp(RoundUp(n, u), u) = RoundUp(n, u)
<1> DEFINE m == n + u - 1
           k == m \div u
<1>1. m \in Nat
  BY SMT
<1>2. k \in Nat /\ m % u \in Nat /\ m % u < u /\ m = u * k + (m % u)
  BY <1>1, Division, Zenon
<1>3. RoundUp(n, u) = k * u
  BY Zenon DEF RoundUp
<1>4. k * u \in Nat /\ k * u = u * k /\ k * u >= n
  BY <1>1, <1>2, SMT
<1> HIDE DEF k
<1> QED
  BY <1>2, <1>3, <1>4, RoundUpMultiple, Zenon

\* A set of natural numbers has a least element.
LEMMA Least ==
    ASSUME NEW T \in SUBSET Nat, T # {}
    PROVE  \E n \in T : \A m \in T : n <= m
<1>1. IsWellFoundedOn(OpToRel(<,Nat), Nat)
  BY NatLessThanWellFounded, Zenon
<1>2. PICK n \in T : \A m \in T : ~(<<m, n>> \in OpToRel(<, Nat))
  BY <1>1, WFMin
<1>3. \A m \in T : ~(m < n)
  BY <1>2, Zenon DEF OpToRel
<1> QED
  BY <1>3

\* What is between two numbers is in order with both.
LEMMA Between ==
    ASSUME NEW k \in Nat, NEW m \in Nat, NEW n \in Nat, m >= k, m <= n
    PROVE  k <= n
OBVIOUS

\* Min is that element.
LEMMA MinType ==
    ASSUME NEW T \in SUBSET Nat, T # {}
    PROVE  Min(T) \in T /\ \A m \in T : Min(T) <= m
<1>1. \E n \in T : \A m \in T : n <= m
  BY Least, Zenon
<1> QED
  BY <1>1, Zenon DEF Min

\* The lesser of two numbers.
LEMMA MinPair ==
    ASSUME NEW a \in Int, NEW b \in Int
    PROVE  Min({a, b}) = IF a <= b THEN a ELSE b
<1> DEFINE m == IF a <= b THEN a ELSE b
<1>1. m \in {a, b} /\ \A y \in {a, b} : m <= y
  OBVIOUS
<1>2. Min({a, b}) \in {a, b} /\ \A y \in {a, b} : Min({a, b}) <= y
  BY <1>1 DEF Min
<1> QED
  BY <1>1, <1>2

\* A bounded set of natural numbers has a greatest element, and Max is it.
LEMMA MaxType ==
    ASSUME NEW T \in SUBSET Nat, T # {}, NEW B \in Nat, \A x \in T : x <= B
    PROVE  Max(T) \in T /\ \A m \in T : m <= Max(T)
<1> DEFINE U == {x \in Nat : B - x \in T}
<1>1. U # {}
  <2>1. PICK x \in T : TRUE
    BY Zenon
  <2>2. B - x \in Nat /\ B - (B - x) = x
    BY <2>1
  <2> QED
    BY <2>1, <2>2, Zenon
<1>2. PICK n \in U : \A m \in U : n <= m
  BY <1>1, Least, Zenon
<1>3. B - n \in T /\ \A m \in T : B - n >= m
  <2>1. B - n \in T /\ n \in Nat
    BY <1>2
  <2>2. ASSUME NEW m \in T PROVE B - n >= m
    <3>1. B - m \in Nat /\ B - (B - m) = m
      BY <2>2
    <3>2. B - m \in U
      BY <3>1, <2>2, Zenon
    <3> QED
      BY <3>1, <3>2, <1>2, <2>1
  <2> QED
    BY <2>1, <2>2, Zenon
<1>4. \E x \in T : \A y \in T : x >= y
  BY <1>3, Zenon
<1>5. Max(T) \in T /\ \A y \in T : Max(T) >= y
  BY <1>4, Zenon DEF Max
<1> QED
  BY <1>5, Zenon

-----------------------------------------------------------------------------
(* The operators of the allocator.                                          *)

\* The position of a block taken out of a list.
LEMMA EraseElements ==
    ASSUME NEW S, NEW s \in Seq(S), NEW i \in 1..Len(s)
    PROVE  /\ Erase(s, i) \in Seq(S)
           /\ Len(Erase(s, i)) = Len(s) - 1
           /\ \A j \in 1..(Len(s) - 1) : Erase(s, i)[j] = IF j < i THEN s[j] ELSE s[j + 1]
<1> DEFINE f == SubSeq(s, 1, i - 1)
           g == SubSeq(s, i + 1, Len(s))
<1>1. Len(s) \in Nat /\ i \in Int /\ 1 <= i /\ i <= Len(s)
  OBVIOUS
<1>2. f \in Seq(S) /\ Len(f) = i - 1 /\ \A j \in 1..(i - 1) : f[j] = s[j]
  BY <1>1
<1>3. /\ g \in Seq(S) /\ Len(g) = Len(s) - i
      /\ \A j \in 1..(Len(s) - i) : g[j] = s[i + j]
  BY <1>1
<1> HIDE DEF f, g
<1>4. /\ f \o g \in Seq(S) /\ Len(f \o g) = Len(f) + Len(g)
      /\ \A j \in 1..(Len(f) + Len(g)) : (f \o g)[j] = IF j <= Len(f) THEN f[j] ELSE g[j - Len(f)]
  <2>1. f \in Seq(S) /\ g \in Seq(S)
    BY <1>2, <1>3, Zenon
  <2>2. f \o g \in Seq(S)
    BY <2>1
  <2>3. Len(f \o g) = Len(f) + Len(g)
    BY <2>1
  <2>4. \A j \in 1..(Len(f) + Len(g)) : (f \o g)[j] = IF j <= Len(f) THEN f[j] ELSE g[j - Len(f)]
    BY <2>1
  <2> QED
    BY <2>2, <2>3, <2>4, Zenon
<1>5. Erase(s, i) = f \o g
  BY Zenon DEF Erase, f, g
<1>6. ASSUME NEW j \in 1..(Len(s) - 1)
      PROVE  (f \o g)[j] = IF j < i THEN s[j] ELSE s[j + 1]
  <2>1. CASE j < i
    BY <2>1, <1>1, <1>2, <1>3, <1>4
  <2>2. CASE ~(j < i)
    <3>1. j - (i - 1) \in 1..(Len(s) - i) /\ i + (j - (i - 1)) = j + 1
      BY <2>2, <1>1
    <3>2. g[j - (i - 1)] = s[j + 1]
      BY <3>1, <1>3, Zenon
    <3> QED
      BY <2>2, <3>2, <1>1, <1>2, <1>3, <1>4
  <2> QED
    BY <2>1, <2>2, Zenon
<1>7. Len(f \o g) = Len(s) - 1
  BY <1>1, <1>2, <1>3, <1>4
<1> QED
  BY <1>4, <1>5, <1>6, <1>7, Zenon

\* A list without duplicates loses just the block that is taken out.
LEMMA EraseRange ==
    ASSUME NEW S, NEW s \in Seq(S), NEW i \in 1..Len(s), IsInjective(s)
    PROVE  Range(Erase(s, i)) = Range(s) \ {s[i]} /\ IsInjective(Erase(s, i))
<1> DEFINE r == Erase(s, i)
           at(j) == IF j < i THEN j ELSE j + 1
<1>1. /\ r \in Seq(S) /\ Len(r) = Len(s) - 1 /\ Len(s) \in Nat
      /\ \A j \in 1..(Len(s) - 1) : r[j] = s[at(j)]
  <2>1. \A j \in 1..(Len(s) - 1) : s[at(j)] = IF j < i THEN s[j] ELSE s[j + 1]
    BY Zenon
  <2> QED
    BY <2>1, EraseElements
<1>2. /\ \A j \in 1..(Len(s) - 1) : at(j) \in 1..Len(s) /\ at(j) # i
      /\ \A j, k \in 1..(Len(s) - 1) : at(j) = at(k) => j = k
      /\ \A k \in 1..Len(s) : k # i => \E j \in 1..(Len(s) - 1) : at(j) = k
  <2>1. ASSUME NEW k \in 1..Len(s), k # i PROVE \E j \in 1..(Len(s) - 1) : at(j) = k
    <3>1. CASE k < i
      <4>1. k \in 1..(Len(s) - 1) /\ at(k) = k
        BY <2>1, <3>1, <1>1
      <4> QED
        BY <4>1, Zenon
    <3>2. CASE ~(k < i)
      <4>1. k - 1 \in 1..(Len(s) - 1) /\ at(k - 1) = k
        BY <2>1, <3>2, <1>1
      <4> QED
        BY <4>1, Zenon
    <3> QED
      BY <3>1, <3>2, Zenon
  <2> QED
    <3>1. \A j \in 1..(Len(s) - 1) : at(j) \in 1..Len(s) /\ at(j) # i
      BY <1>1
    <3>2. \A j, k \in 1..(Len(s) - 1) : at(j) = at(k) => j = k
      BY <1>1
    <3> QED
      BY <2>1, <3>1, <3>2, Zenon
<1>3. DOMAIN r = 1..(Len(s) - 1) /\ DOMAIN s = 1..Len(s)
  BY <1>1
<1> HIDE DEF r, at
<1>4. \A a, b \in 1..Len(s) : s[a] = s[b] => a = b
  BY <1>3, Zenon DEF IsInjective
<1>5. IsInjective(r)
  <2> SUFFICES ASSUME NEW j \in 1..(Len(s) - 1), NEW k \in 1..(Len(s) - 1), r[j] = r[k]
               PROVE  j = k
    BY <1>3, Zenon DEF IsInjective
  <2>1. s[at(j)] = s[at(k)] /\ at(j) \in 1..Len(s) /\ at(k) \in 1..Len(s)
    BY <1>1, <1>2, Zenon
  <2> QED
    BY <2>1, <1>2, <1>4, Zenon
<1>6. ASSUME NEW x \in Range(r) PROVE x \in Range(s) \ {s[i]}
  <2>1. PICK j \in 1..(Len(s) - 1) : x = r[j]
    BY <1>6, <1>3 DEF Range
  <2>2. x = s[at(j)] /\ at(j) \in 1..Len(s) /\ at(j) # i
    BY <2>1, <1>1, <1>2, Zenon
  <2> QED
    BY <2>2, <1>3, <1>4, Zenon DEF Range
<1>7. ASSUME NEW x \in Range(s) \ {s[i]} PROVE x \in Range(r)
  <2>1. PICK k \in 1..Len(s) : x = s[k]
    BY <1>7, <1>3, Zenon DEF Range
  <2>2. PICK j \in 1..(Len(s) - 1) : at(j) = k
    BY <2>1, <1>7, <1>2
  <2> QED
    BY <2>1, <2>2, <1>1, <1>3, Zenon DEF Range
<1> QED
  BY <1>5, <1>6, <1>7, Zenon DEF r

\* Appending to a list.
LEMMA AppendRange ==
    ASSUME NEW S, NEW s \in Seq(S), NEW b \in S
    PROVE  /\ Append(s, b) \in Seq(S)
           /\ Range(Append(s, b)) = Range(s) \cup {b}
           /\ (IsInjective(s) /\ b \notin Range(s)) => IsInjective(Append(s, b))
<1> DEFINE r == Append(s, b)
<1>1. /\ r \in Seq(S) /\ Len(s) \in Nat /\ DOMAIN r = 1..(Len(s) + 1) /\ DOMAIN s = 1..Len(s)
      /\ \A j \in 1..Len(s) : r[j] = s[j]
      /\ r[Len(s) + 1] = b
  OBVIOUS
<1> HIDE DEF r
<1>2. Range(r) = Range(s) \cup {b}
  BY <1>1 DEF Range
<1>3. ASSUME IsInjective(s), b \notin Range(s) PROVE IsInjective(r)
  <2> SUFFICES ASSUME NEW i \in 1..(Len(s) + 1), NEW j \in 1..(Len(s) + 1), r[i] = r[j]
               PROVE  i = j
    BY <1>1, Zenon DEF IsInjective
  <2>1. \A k \in 1..Len(s) : r[k] # b
    BY <1>1, <1>3, Zenon DEF Range
  <2>2. \A k, l \in 1..Len(s) : r[k] = r[l] => k = l
    BY <1>1, <1>3, Zenon DEF IsInjective
  <2> QED
    BY <1>1, <2>1, <2>2
<1> QED
  BY <1>1, <1>2, <1>3, Zenon DEF r

\* Categories.
LEMMA CategoryType ==
    ASSUME NEW n \in Nat
    PROVE  FindBlockType(n) \in Categories
<1>1. Len(BlockSizes) \in Nat \ {0}
  BY AllocatorAssumption
<1> DEFINE T == {c \in Categories : n <= BlockSizes[c]}
<1>2. CASE \E c \in Categories : n <= BlockSizes[c]
  <2>1. T # {} /\ T \in SUBSET Nat
    BY <1>2, <1>1 DEF Categories
  <2>2. Min(T) \in T
    BY <2>1, MinType, Zenon
  <2> QED
    BY <1>2, <2>2, Zenon DEF FindBlockType
<1>3. CASE ~\E c \in Categories : n <= BlockSizes[c]
  BY <1>1, <1>3 DEF FindBlockType, Categories
<1> QED
  BY <1>2, <1>3, Zenon

\* The search for a block that is large enough gives a position of the list.
LEMMA AllocateBlockInType ==
    ASSUME NEW map \in [Categories -> Seq(BlockSet)], NEW c \in Categories, NEW n \in Nat,
           AllocateBlockIn(map, c, n) # 0
    PROVE  AllocateBlockIn(map, c, n) \in 1..Len(map[c])
<1> DEFINE T == {i \in 1..Len(map[c]) : map[c][i].size >= n}
<1>1. AllocateBlockIn(map, c, n) = IF T # {} THEN Min(T) ELSE 0
  BY Zenon DEF AllocateBlockIn, FirstIn
<1>2. T # {} /\ T \in SUBSET Nat
  BY <1>1
<1> QED
  BY <1>1, <1>2, MinType, Zenon

\* The search for a block that fits gives the position of one that does.
LEMMA FirstUpToType ==
    ASSUME NEW map \in [Categories -> Seq(BlockSet)], NEW n \in Nat, CategoriesUpTo(map, n) # {}
    PROVE  LET c == Max(CategoriesUpTo(map, n))
               i == FirstUpTo(map[c], n)
           IN  c \in Categories /\ i \in 1..Len(map[c]) /\ FitsUpTo(map[c][i], n)
<1> DEFINE C == CategoriesUpTo(map, n)
           c == Max(C)
           T == {i \in 1..Len(map[c]) : FitsUpTo(map[c][i], n)}
<1>1. Len(BlockSizes) \in Nat
  BY AllocatorAssumption
<1>2. C \in SUBSET Nat /\ C # {} /\ \A x \in C : x <= Len(BlockSizes)
  BY <1>1 DEF CategoriesUpTo, Categories
<1>3. c \in C
  BY <1>1, <1>2, MaxType, Zenon
<1> HIDE DEF c
<1>4. c \in Categories /\ \E i \in DOMAIN map[c] : FitsUpTo(map[c][i], n)
  BY <1>3, Zenon DEF CategoriesUpTo
<1>5. T # {} /\ T \in SUBSET Nat
  BY <1>4
<1>6. FirstUpTo(map[c], n) = Min(T)
  BY <1>5, Zenon DEF FirstUpTo, FirstIn
<1>7. Min(T) \in T
  BY <1>5, MinType, Zenon
<1> QED
  BY <1>4, <1>6, <1>7, Zenon DEF c

-----------------------------------------------------------------------------
(* What holds of the locals of a call, whatever the sizes asked for.        *)

Aligned(b) == Footprint(b) = b.size

\* The blocks that lie on the device, and those a map may have: FreeBlocks and
\* the assembly round their sizes up.
DeviceBlock == {b \in BlockSet : b.size > 0 /\ b.offset + Footprint(b) <= Capacity}
FreeListBlock == {b \in DeviceBlock : Aligned(b)}

Typed ==
    /\ heap \in Nat /\ allocated_bytes \in Int
    /\ maps \in [Maps -> [Categories -> Seq(FreeListBlock)]]
    /\ file \in Nat /\ file_backed_bytes \in Nat
    /\ grow_mu \in SUBSET Threads
    /\ faults \in 0..MaxFaults
    /\ held \in SUBSET DeviceBlock
    /\ pc \in [Threads -> Labels]
    /\ total_size \in [Threads -> Nat]
    /\ scan \in [Threads -> Maps]
    /\ blocks \in [Threads -> SUBSET DeviceBlock]
    /\ taken \in [Threads -> SUBSET DeviceBlock]
    /\ remaining \in [Threads -> Nat]
    /\ amount \in [Threads -> Nat]
    /\ cur \in [Threads -> Int]
    /\ alone \in [Threads -> BOOLEAN]

\* What a call has at each label.
CallOK(t) ==
    /\ pc[t] \in {"idle", "reuse", "heap", "heap_undo", "credit"} => blocks[t] = {}
    /\ pc[t] # "charge" => taken[t] = {}
    /\ pc[t] = "charge" => \E b \in taken[t] : taken[t] = {b} /\ amount[t] = Footprint(b)
    /\ pc[t] \notin {"charge", "uncharge", "free", "credit"} => amount[t] = 0
    /\ pc[t] \in {"reuse", "heap", "heap_undo"} => total_size[t] \in Sizes \ {0}
    /\ pc[t] \notin {"charge", "assemble", "rollback", "uncharge"} => remaining[t] = 0
    /\ (pc[t] \in {"assemble", "rollback", "uncharge"} \/ remaining[t] > 0)
          => \A b \in blocks[t] \cup taken[t] : Aligned(b)
    /\ pc[t] \in {"ensure", "lock", "grow", "publish"} => blocks[t] # {}
    /\ (pc[t] \in {"heap", "heap_undo"} \/ (pc[t] = "charge" /\ remaining[t] > 0)) => scan[t] = 0

Calls == \A t \in Threads : CallOK(t)

\* The failed reservations are part of heap_.
ReservedInHeap == IsFiniteSet(Reserved) /\ Cardinality(Reserved) <= heap

CallInv == Typed /\ Calls /\ ReservedInHeap

\* A step of one thread leaves the locals of another alone.
SameLocals(u) ==
    /\ pc'[u] = pc[u] /\ total_size'[u] = total_size[u] /\ scan'[u] = scan[u]
    /\ blocks'[u] = blocks[u] /\ taken'[u] = taken[u] /\ remaining'[u] = remaining[u]
    /\ amount'[u] = amount[u] /\ cur'[u] = cur[u]

\* Footprints.
LEMMA AlignType ==
    ASSUME NEW n \in Nat
    PROVE  /\ AlignSize(n) \in Nat /\ AlignSize(n) >= n
           /\ AlignSize(AlignSize(n)) = AlignSize(n)
BY RoundUpType, AllocatorAssumption, Zenon DEF AlignSize

\* A block on the device has a positive footprint, no smaller than its size.
LEMMA FootprintType ==
    ASSUME NEW b \in DeviceBlock
    PROVE  /\ b \in BlockSet /\ b.offset \in Nat /\ b.size \in Nat /\ b.type \in Categories
           /\ b.size > 0 /\ Footprint(b) \in Nat /\ Footprint(b) >= b.size /\ Footprint(b) > 0
           /\ b.offset + Footprint(b) <= Capacity
<1>1. b \in BlockSet /\ b.size > 0 /\ b.offset + Footprint(b) <= Capacity
  BY Zenon DEF DeviceBlock
<1>2. b.offset \in Nat /\ b.size \in Nat /\ b.type \in Categories
  BY <1>1 DEF BlockSet
<1>3. Footprint(b) \in Nat /\ Footprint(b) >= b.size
  BY <1>2, AlignType, Zenon DEF Footprint
<1> QED
  BY <1>1, <1>2, <1>3

\* A block with a given offset, footprint and category lies on the device.
LEMMA DeviceBlockType ==
    ASSUME NEW o \in Nat, NEW n \in Nat, NEW c \in Categories, n > 0, o + AlignSize(n) <= Capacity
    PROVE  /\ Block(o, n, c) \in DeviceBlock /\ Block(o, n, c).offset = o
           /\ Block(o, n, c).size = n /\ Footprint(Block(o, n, c)) = AlignSize(n)
BY Zenon DEF Block, DeviceBlock, BlockSet, Footprint

\* What FreeBlocks puts in a map.
LEMMA RebucketedType ==
    ASSUME NEW b \in DeviceBlock
    PROVE  /\ Rebucketed(b) \in FreeListBlock /\ Rebucketed(b).offset = b.offset
           /\ Footprint(Rebucketed(b)) = Footprint(b)
<1> DEFINE n == AlignSize(b.size)
<1>1. b.offset \in Nat /\ b.size \in Nat /\ b.size > 0 /\ b.offset + n <= Capacity
  BY FootprintType, Zenon DEF Footprint
<1>2. n \in Nat /\ n > 0 /\ AlignSize(n) = n
  BY <1>1, AlignType
<1>3. FindBlockType(n) \in Categories
  BY <1>2, CategoryType, Zenon
<1> HIDE DEF n
<1>4. /\ Block(b.offset, n, FindBlockType(n)) \in DeviceBlock
      /\ Block(b.offset, n, FindBlockType(n)).offset = b.offset
      /\ Block(b.offset, n, FindBlockType(n)).size = n
      /\ Footprint(Block(b.offset, n, FindBlockType(n))) = n
  BY <1>1, <1>2, <1>3, DeviceBlockType
<1>5. Rebucketed(b) = Block(b.offset, n, FindBlockType(n))
  BY Zenon DEF Rebucketed, n
<1>6. Footprint(b) = n
  BY Zenon DEF Footprint, n
<1> QED
  BY <1>4, <1>5, <1>6, Zenon DEF FreeListBlock, Aligned

\* The map a call searches.
LEMMA ScannedMapType ==
    ASSUME Typed, NEW t \in Threads
    PROVE  ScannedMap(t) \in Maps /\ WorkerIdx[t] \in Maps
<1>1. WorkerIdx[t] \in 0..(NumMaps - 1) /\ scan[t] \in 0..(NumMaps - 1) /\ NumMaps \in Nat \ {0}
  BY AllocatorAssumption, Zenon DEF Typed, Maps
<1>2. WorkerIdx[t] + scan[t] \in Nat
  BY <1>1
<1>3. (WorkerIdx[t] + scan[t]) % NumMaps \in 0..(NumMaps - 1)
  BY <1>1, <1>2, Division
<1> QED
  BY <1>1, <1>3, Zenon DEF ScannedMap, Maps

\* Two free lists are typed the same way for the searches.
LEMMA MapType ==
    ASSUME Typed, NEW w \in Maps
    PROVE  /\ maps[w] \in [Categories -> Seq(FreeListBlock)]
           /\ maps[w] \in [Categories -> Seq(BlockSet)]
           /\ \A c \in Categories : maps[w][c] \in Seq(FreeListBlock)
<1>1. maps[w] \in [Categories -> Seq(FreeListBlock)]
  BY Zenon DEF Typed
<1>2. \A c \in Categories : maps[w][c] \in Seq(FreeListBlock)
  BY <1>1, Zenon
<1>3. \A c \in Categories : maps[w][c] \in Seq(BlockSet)
  <2>1. FreeListBlock \subseteq BlockSet
    BY Zenon DEF FreeListBlock, DeviceBlock
  <2>2. ASSUME NEW s \in Seq(FreeListBlock) PROVE s \in Seq(BlockSet)
    <3>1. \A i \in 1..Len(s) : s[i] \in FreeListBlock
      OBVIOUS
    <3>2. \A i \in 1..Len(s) : s[i] \in BlockSet
      BY <2>1, <3>1, Zenon
    <3> QED
      BY <3>2
  <2> QED
    BY <1>2, <2>2, Zenon
<1>4. maps[w] = [c \in Categories |-> maps[w][c]]
  BY <1>1, Zenon
<1>5. [c \in Categories |-> maps[w][c]] \in [Categories -> Seq(BlockSet)]
  BY <1>3, Zenon
<1> QED
  BY <1>1, <1>2, <1>4, <1>5, Zenon

-----------------------------------------------------------------------------
(* What the steps that move a block between a call and a map do.            *)

\* A block leaves a list for the call of t, which has yet to charge it.
Taking(t, w, c, i) ==
    /\ pc[t] \in {"reuse", "assemble"}
    /\ TakeOut(w, c, i)
    /\ taken' = [taken EXCEPT ![t] = {maps[w][c][i]}]
    /\ amount' = [amount EXCEPT ![t] = Footprint(maps[w][c][i])]
    /\ pc' = [pc EXCEPT ![t] = "charge"]
    /\ UNCHANGED <<heap, allocated_bytes, file, file_backed_bytes, grow_mu, faults, held>>
    /\ UNCHANGED <<total_size, blocks, cur, alone>>

\* A search for one block took it.
Reusing(t, w, c, i) ==
    /\ pc[t] = "reuse"
    /\ Taking(t, w, c, i)
    /\ UNCHANGED <<scan, remaining>>

\* An assembly took a block, which covers its size of what is lacking.
Assembling(t, w, c, i) ==
    /\ pc[t] = "assemble"
    /\ Taking(t, w, c, i)
    /\ Footprint(maps[w][c][i]) <= remaining[t]
    /\ remaining' = [remaining EXCEPT ![t] = remaining[t] - Footprint(maps[w][c][i])]
    /\ scan' = [scan EXCEPT ![t] = 0]

\* A block b of the call goes back to the map of its thread, as the block d of
\* the same place and footprint.
Freeing(t, b, d) ==
    /\ pc[t] \in {"rollback", "free"}
    /\ FreeBlock(WorkerIdx[t], d)
    /\ blocks' = [blocks EXCEPT ![t] = @ \ {b}]
    /\ UNCHANGED <<heap, allocated_bytes, file, file_backed_bytes, grow_mu, faults, held>>
    /\ UNCHANGED <<total_size, scan, taken, remaining, cur, alone>>

SameSpan(b, d) == d.offset = b.offset /\ Footprint(d) = Footprint(b)

\* A position of a list, and the block there.
LEMMA ListBlock ==
    ASSUME Typed, NEW w \in Maps, NEW c \in Categories, NEW i \in 1..Len(maps[w][c])
    PROVE  /\ maps[w][c] \in Seq(FreeListBlock)
           /\ maps[w][c][i] \in FreeListBlock /\ maps[w][c][i] \in DeviceBlock
           /\ Footprint(maps[w][c][i]) = maps[w][c][i].size
<1>1. maps[w][c] \in Seq(FreeListBlock)
  BY MapType, Zenon
<1>2. maps[w][c][i] \in FreeListBlock
  BY <1>1
<1> QED
  BY <1>1, <1>2, Zenon DEF FreeListBlock, Aligned

\* ReuseFound takes one block.
LEMMA ReuseTakes ==
    ASSUME CallInv, NEW t \in Threads, ReuseFound(t)
    PROVE  \E w \in Maps : \E c \in Categories : \E i \in 1..Len(maps[w][c]) : Reusing(t, w, c, i)
<1> DEFINE w == ScannedMap(t)
           c == FindBlockType(total_size[t])
           i == AllocateBlockIn(maps[w], c, total_size[t])
<1>1. Typed /\ total_size[t] \in Nat
  BY Zenon DEF CallInv, Typed
<1>2. w \in Maps /\ c \in Categories
  BY <1>1, ScannedMapType, CategoryType, Zenon
<1>3. maps[w] \in [Categories -> Seq(BlockSet)]
  BY <1>1, <1>2, MapType, Zenon
<1>4. i # 0
  BY Zenon DEF ReuseFound
<1>5. i \in 1..Len(maps[w][c])
  BY <1>1, <1>2, <1>3, <1>4, AllocateBlockInType, Zenon
<1>6. Footprint(maps[w][c][i]) = maps[w][c][i].size
  BY <1>1, <1>2, <1>5, ListBlock, Zenon
<1>7. Reusing(t, w, c, i)
  <2> HIDE DEF c, i, w
  <2>1. /\ pc[t] = "reuse" /\ TakeOut(w, c, i)
        /\ taken' = [taken EXCEPT ![t] = {maps[w][c][i]}]
        /\ amount' = [amount EXCEPT ![t] = maps[w][c][i].size]
        /\ pc' = [pc EXCEPT ![t] = "charge"]
        /\ UNCHANGED <<heap, allocated_bytes, file, file_backed_bytes, grow_mu, faults, held>>
        /\ UNCHANGED <<total_size, scan, blocks, remaining, cur, alone>>
    BY Zenon DEF ReuseFound, At, Goto, backing, w, c, i
  <2> QED
    BY <2>1, <1>6, Zenon DEF Reusing, Taking
<1> QED
  BY <1>2, <1>5, <1>7, Zenon

\* AssembleFound takes one block, with its size as it is.
LEMMA AssembleTakes ==
    ASSUME CallInv, NEW t \in Threads, AssembleFound(t)
    PROVE  \E w \in Maps : \E c \in Categories : \E i \in 1..Len(maps[w][c]) : Assembling(t, w, c, i)
<1> DEFINE w == ScannedMap(t)
           c == Max(CategoriesUpTo(maps[w], remaining[t]))
           i == FirstUpTo(maps[w][c], remaining[t])
           b == maps[w][c][i]
           fp == Min({AlignSize(b.size), remaining[t]})
<1>1. Typed /\ remaining[t] \in Nat
  BY Zenon DEF CallInv, Typed
<1>2. w \in Maps
  BY <1>1, ScannedMapType, Zenon
<1>3. maps[w] \in [Categories -> Seq(BlockSet)]
  BY <1>1, <1>2, MapType, Zenon
<1>4. CategoriesUpTo(maps[w], remaining[t]) # {}
  BY Zenon DEF AssembleFound
<1> HIDE DEF w
<1>5. c \in Categories /\ i \in 1..Len(maps[w][c]) /\ FitsUpTo(b, remaining[t])
  BY <1>1, <1>3, <1>4, FirstUpToType, Zenon
<1>6. Footprint(b) = b.size /\ b \in DeviceBlock
  BY <1>1, <1>2, <1>5, ListBlock, Zenon
<1>7. b.size \in Nat /\ AlignSize(b.size) = b.size
  BY <1>6, FootprintType, Zenon DEF Footprint
<1>8. b.size <= remaining[t]
  <2>1. RoundUp(b.size, Slab) \in Nat /\ RoundUp(b.size, Slab) >= b.size
    BY <1>7, RoundUpType, AllocatorAssumption, Zenon
  <2>2. RoundUp(b.size, Slab) <= remaining[t]
    BY <1>5, Zenon DEF FitsUpTo
  <2> QED
    BY <1>1, <1>7, <2>1, <2>2, Between, Zenon
<1>9. fp = b.size
  <2>1. AlignSize(b.size) \in Int /\ remaining[t] \in Int
    BY <1>1, <1>7
  <2> QED
    BY <1>7, <1>8, <2>1, MinPair, Zenon
<1>10. [b EXCEPT !.size = fp] = b
  BY <1>6, <1>9, Zenon DEF DeviceBlock, BlockSet
<1>11. /\ pc[t] = "assemble" /\ TakeOut(w, c, i)
       /\ taken' = [taken EXCEPT ![t] = {[b EXCEPT !.size = fp]}]
       /\ amount' = [amount EXCEPT ![t] = fp]
       /\ remaining' = [remaining EXCEPT ![t] = @ - fp]
       /\ scan' = [scan EXCEPT ![t] = 0]
       /\ pc' = [pc EXCEPT ![t] = "charge"]
       /\ UNCHANGED <<heap, allocated_bytes, file, file_backed_bytes, grow_mu, faults, held>>
       /\ UNCHANGED <<total_size, blocks, cur, alone>>
  BY Zenon DEF AssembleFound, At, Goto, backing, w
<1>12. Assembling(t, w, c, i)
  <2> HIDE DEF c, i
  <2>1. remaining' = [remaining EXCEPT ![t] = remaining[t] - fp]
    BY <1>11, <1>1, Zenon DEF Typed
  <2> QED
    BY <2>1, <1>6, <1>8, <1>9, <1>10, <1>11, Zenon DEF Assembling, Taking
<1> QED
  BY <1>2, <1>5, <1>12, Zenon

\* RollbackFree and FreeOne put one block back.
LEMMA FreeingBlock ==
    ASSUME CallInv, NEW t \in Threads, RollbackFree(t) \/ FreeOne(t)
    PROVE  \E b \in blocks[t] : \E d \in FreeListBlock :
              /\ Freeing(t, b, d) /\ SameSpan(b, d)
              /\ \/ /\ pc[t] = "rollback" /\ pc' = [pc EXCEPT ![t] = "uncharge"]
                    /\ amount' = [amount EXCEPT ![t] = Footprint(b)]
                 \/ /\ pc[t] = "free" /\ UNCHANGED pc
                    /\ amount' = [amount EXCEPT ![t] = amount[t] + Footprint(b)]
<1>1. Typed /\ blocks[t] \in SUBSET DeviceBlock
  BY Zenon DEF CallInv, Typed
<1>2. CASE RollbackFree(t)
  <2>1. PICK b \in blocks[t] : /\ FreeBlock(WorkerIdx[t], b)
                               /\ blocks' = [blocks EXCEPT ![t] = @ \ {b}]
                               /\ amount' = [amount EXCEPT ![t] = AlignSize(b.size)]
    BY <1>2, Zenon DEF RollbackFree
  <2>2. pc[t] = "rollback" /\ pc' = [pc EXCEPT ![t] = "uncharge"]
    BY <1>2, Zenon DEF RollbackFree, At, Goto
  <2>3. Aligned(b)
    BY <2>2, Zenon DEF CallInv, Calls, CallOK
  <2>4. b \in FreeListBlock /\ SameSpan(b, b)
    BY <2>3, <1>1, Zenon DEF FreeListBlock, SameSpan
  <2>5. Freeing(t, b, b)
    BY <1>2, <2>1, <2>2, Zenon DEF RollbackFree, Freeing, backing
  <2> QED
    BY <2>1, <2>2, <2>4, <2>5, Zenon DEF Footprint
<1>3. CASE FreeOne(t)
  <2>1. PICK b \in blocks[t] : /\ FreeBlock(WorkerIdx[t], Rebucketed(b))
                               /\ blocks' = [blocks EXCEPT ![t] = @ \ {b}]
                               /\ amount' = [amount EXCEPT ![t] = @ + AlignSize(b.size)]
    BY <1>3, Zenon DEF FreeOne
  <2>2. pc[t] = "free" /\ UNCHANGED pc
    BY <1>3, Zenon DEF FreeOne, At
  <2>3. Rebucketed(b) \in FreeListBlock /\ SameSpan(b, Rebucketed(b))
    BY <1>1, RebucketedType, Zenon DEF SameSpan
  <2>4. amount' = [amount EXCEPT ![t] = amount[t] + Footprint(b)]
    BY <2>1, <1>1, Zenon DEF Typed, Footprint
  <2>5. Freeing(t, b, Rebucketed(b))
    BY <1>3, <2>1, <2>2, Zenon DEF FreeOne, Freeing, backing
  <2> QED
    BY <2>2, <2>3, <2>4, <2>5, Zenon
<1> QED
  BY <1>2, <1>3, Zenon

-----------------------------------------------------------------------------
(* Sums over threads, as sizes of tagged sets.                              *)

Tags(S, n) == UNION {{u} \X (1..n[u]) : u \in S}

\* An interval has as many elements as its end says.
LEMMA CountTo ==
    ASSUME NEW k \in Nat
    PROVE  IsFiniteSet(1..k) /\ Cardinality(1..k) = k
<1>1. Cardinality(1..k) = IF 1 > k THEN 0 ELSE k - 1 + 1
  BY FS_Interval
<1>2. IsFiniteSet(1..k)
  BY FS_Interval
<1> QED
  BY <1>1, <1>2

\* A thread more adds its number.
LEMMA TagsAdd ==
    ASSUME NEW S, NEW t, t \notin S, NEW n, NEW m, \A u \in S : m[u] = n[u], m[t] \in Nat,
           IsFiniteSet(Tags(S, n))
    PROVE  /\ IsFiniteSet(Tags(S \cup {t}, m))
           /\ Cardinality(Tags(S \cup {t}, m)) = Cardinality(Tags(S, n)) + m[t]
<1> DEFINE X == {t} \X (1..m[t])
<1>1. IsFiniteSet(X) /\ Cardinality(X) = m[t]
  <2>1. IsFiniteSet({t}) /\ Cardinality({t}) = 1
    BY FS_Singleton, Zenon
  <2>2. IsFiniteSet(1..m[t]) /\ Cardinality(1..m[t]) = m[t]
    BY CountTo, Zenon
  <2>3. IsFiniteSet(X) /\ Cardinality(X) = Cardinality({t}) * Cardinality(1..m[t])
    BY <2>1, <2>2, FS_Product, Zenon
  <2> QED
    BY <2>1, <2>2, <2>3
<1>2. Tags(S \cup {t}, m) = Tags(S, n) \cup X
  <2>1. \A u \in S : {u} \X (1..m[u]) = {u} \X (1..n[u])
    BY Zenon
  <2>2. {{u} \X (1..m[u]) : u \in S \cup {t}} = {{u} \X (1..n[u]) : u \in S} \cup {X}
    BY <2>1, Zenon
  <2> QED
    BY <2>2, Zenon DEF Tags
<1>3. Tags(S, n) \cap X = {}
  <2> SUFFICES ASSUME NEW x \in Tags(S, n), x \in X PROVE FALSE
    BY Zenon
  <2>1. PICK u \in S : x \in {u} \X (1..n[u])
    BY Zenon DEF Tags
  <2>2. x[1] = u /\ x[1] = t
    BY <2>1, Zenon
  <2> QED
    BY <2>2, Zenon
<1> HIDE DEF X
<1>4. /\ IsFiniteSet(Tags(S, n) \cup X)
      /\ Cardinality(Tags(S, n) \cup X) =
            Cardinality(Tags(S, n)) + Cardinality(X) - Cardinality(Tags(S, n) \cap X)
  BY <1>1, FS_Union, Zenon
<1>5. Cardinality(Tags(S, n) \cap X) = 0
  BY <1>3, FS_EmptySet, Zenon
<1>6. Cardinality(Tags(S, n)) \in Nat
  BY FS_CardinalityType, Zenon
<1>7. Cardinality(Tags(S, n) \cup X) = Cardinality(Tags(S, n)) + m[t]
  BY <1>1, <1>4, <1>5, <1>6
<1> QED
  BY <1>2, <1>4, <1>7, Zenon

\* A thread less takes its number away.
LEMMA TagsRemove ==
    ASSUME NEW S, NEW t \in S, NEW n, NEW m, \A u \in S \ {t} : m[u] = n[u], n[t] \in Nat,
           IsFiniteSet(Tags(S, n))
    PROVE  /\ IsFiniteSet(Tags(S \ {t}, m))
           /\ Cardinality(Tags(S, n)) = Cardinality(Tags(S \ {t}, m)) + n[t]
<1> DEFINE R == S \ {t}
<1>1. R \cup {t} = S /\ t \notin R /\ \A u \in R : n[u] = m[u]
  BY Zenon
<1>2. Tags(R, m) \subseteq Tags(S, n)
  <2>1. \A u \in R : {u} \X (1..m[u]) = {u} \X (1..n[u])
    BY Zenon
  <2>2. ASSUME NEW x \in Tags(R, m) PROVE x \in Tags(S, n)
    <3>1. PICK u \in R : x \in {u} \X (1..m[u])
      BY <2>2, Zenon DEF Tags
    <3>2. x \in {u} \X (1..n[u]) /\ u \in S
      BY <3>1, <2>1, Zenon
    <3> QED
      BY <3>2, Zenon DEF Tags
  <2> QED
    BY <2>2, Zenon
<1>3. IsFiniteSet(Tags(R, m))
  BY <1>2, FS_Subset, Zenon
<1> HIDE DEF R
<1>4. Cardinality(Tags(R \cup {t}, n)) = Cardinality(Tags(R, m)) + n[t]
  <2>1. t \notin R
    BY <1>1, Zenon
  <2>2. \A u \in R : n[u] = m[u]
    BY <1>1, Zenon
  <2> QED
    BY <2>1, <2>2, <1>3, TagsAdd
<1>5. Tags(R \cup {t}, n) = Tags(S, n)
  BY <1>1, Zenon
<1>6. R = S \ {t}
  BY Zenon DEF R
<1> QED
  BY <1>3, <1>4, <1>5, <1>6, Zenon

\* The same threads with the same numbers.
LEMMA TagsSame ==
    ASSUME NEW S, NEW n, NEW m, \A u \in S : m[u] = n[u]
    PROVE  Tags(S, m) = Tags(S, n)
<1>1. \A u \in S : {u} \X (1..m[u]) = {u} \X (1..n[u])
  BY Zenon
<1>2. {{u} \X (1..m[u]) : u \in S} = {{u} \X (1..n[u]) : u \in S}
  BY <1>1, Zenon
<1> QED
  BY <1>2, Zenon DEF Tags

\* One thread's number is part of the sum.
LEMMA TagsPart ==
    ASSUME NEW S, NEW t \in S, NEW n, n[t] \in Nat, IsFiniteSet(Tags(S, n))
    PROVE  n[t] <= Cardinality(Tags(S, n)) /\ Cardinality(Tags(S, n)) \in Nat
<1>1. /\ IsFiniteSet(Tags(S \ {t}, n))
      /\ Cardinality(Tags(S, n)) = Cardinality(Tags(S \ {t}, n)) + n[t]
  BY TagsRemove, Zenon
<1>2. Cardinality(Tags(S \ {t}, n)) \in Nat
  BY <1>1, FS_CardinalityType, Zenon
<1> QED
  BY <1>1, <1>2

\* Nobody: nothing.
LEMMA TagsNone ==
    ASSUME NEW n
    PROVE  IsFiniteSet(Tags({}, n)) /\ Cardinality(Tags({}, n)) = 0
<1>1. Tags({}, n) = {}
  BY Zenon DEF Tags
<1> QED
  BY <1>1, FS_EmptySet, Zenon

Undoing == {u \in Threads : pc[u] = "heap_undo"}
Request == [u \in Threads |-> AlignSize(total_size[u])]

\* The failed reservations are such a sum.
LEMMA ReservedTags == Reserved = Tags(Undoing, Request) /\ Reserved' = Tags(Undoing', Request')
<1>1. Reserved = Tags(Undoing, Request)
  <2>1. \A t \in Undoing : {t} \X (1..AlignSize(total_size[t])) = {t} \X (1..Request[t])
    BY Zenon DEF Undoing, Request
  <2>2. {{t} \X (1..AlignSize(total_size[t])) : t \in Undoing}
          = {{t} \X (1..Request[t]) : t \in Undoing}
    BY <2>1, Zenon
  <2> QED
    BY <2>2, Zenon DEF Reserved, Tags, Undoing, At
<1>2. Reserved' = Tags(Undoing', Request')
  <2>1. \A t \in Undoing' : {t} \X (1..AlignSize(total_size'[t])) = {t} \X (1..Request'[t])
    BY Zenon DEF Undoing, Request
  <2>2. {{t} \X (1..AlignSize(total_size'[t])) : t \in Undoing'}
          = {{t} \X (1..Request'[t]) : t \in Undoing'}
    BY <2>1, Zenon
  <2> QED
    BY <2>2, Zenon DEF Reserved, Tags, Undoing, At
<1> QED
  BY <1>1, <1>2, Zenon

-----------------------------------------------------------------------------
(* Every step keeps the types.                                              *)

\* The maps after a block has been taken out, and after one has been put back.
LEMMA MapsAfter ==
    ASSUME Typed
    PROVE  /\ \A w \in Maps : \A c \in Categories : \A i \in 1..Len(maps[w][c]) :
                 TakeOut(w, c, i) => maps' \in [Maps -> [Categories -> Seq(FreeListBlock)]]
           /\ \A w \in Maps : \A d \in FreeListBlock :
                 FreeBlock(w, d) => maps' \in [Maps -> [Categories -> Seq(FreeListBlock)]]
<1>1. maps \in [Maps -> [Categories -> Seq(FreeListBlock)]]
  BY Zenon DEF Typed
<1>2. ASSUME NEW w \in Maps, NEW c \in Categories, NEW i \in 1..Len(maps[w][c]), TakeOut(w, c, i)
      PROVE  maps' \in [Maps -> [Categories -> Seq(FreeListBlock)]]
  <2>1. Erase(maps[w][c], i) \in Seq(FreeListBlock)
    BY <1>1, MapType, EraseElements, Zenon
  <2>2. [maps[w] EXCEPT ![c] = Erase(maps[w][c], i)] \in [Categories -> Seq(FreeListBlock)]
    BY <1>1, <2>1, Zenon
  <2>3. maps' = [maps EXCEPT ![w] = [maps[w] EXCEPT ![c] = Erase(maps[w][c], i)]]
    BY <1>2, Zenon DEF TakeOut
  <2> QED
    BY <1>1, <2>2, <2>3, Zenon
<1>3. ASSUME NEW w \in Maps, NEW d \in FreeListBlock, FreeBlock(w, d)
      PROVE  maps' \in [Maps -> [Categories -> Seq(FreeListBlock)]]
  <2>1. d.type \in Categories
    BY FootprintType, Zenon DEF FreeListBlock
  <2>2. Append(maps[w][d.type], d) \in Seq(FreeListBlock)
    BY <1>1, <2>1, MapType, AppendRange, Zenon
  <2>3. [maps[w] EXCEPT ![d.type] = Append(maps[w][d.type], d)]
           \in [Categories -> Seq(FreeListBlock)]
    BY <1>1, <2>1, <2>2, Zenon
  <2>4. maps' = [maps EXCEPT ![w] = [maps[w] EXCEPT ![d.type] = Append(maps[w][d.type], d)]]
    BY <1>3, Zenon DEF FreeBlock
  <2> QED
    BY <1>1, <2>3, <2>4, Zenon
<1> QED
  BY <1>2, <1>3, Zenon

\* The target a file grows to.
LEMMA GrowTargetType ==
    ASSUME NEW e \in Nat
    PROVE  GrowTarget(e) \in Nat /\ (e <= Capacity => GrowTarget(e) >= e)
<1> DEFINE r == IF GrowthUnit > 0 THEN RoundUp(e, GrowthUnit) ELSE e
<1>1. r \in Nat /\ r >= e
  <2>1. CASE GrowthUnit > 0
    <3>1. GrowthUnit \in Nat \ {0}
      BY <2>1, AllocatorAssumption
    <3>2. RoundUp(e, GrowthUnit) \in Nat /\ RoundUp(e, GrowthUnit) >= e
      BY <3>1, RoundUpType, Zenon
    <3> QED
      BY <2>1, <3>2, Zenon
  <2>2. CASE ~(GrowthUnit > 0)
    BY <2>2
  <2> QED
    BY <2>1, <2>2, Zenon
<1>2. Capacity \in Nat
  BY AllocatorAssumption, Zenon
<1> HIDE DEF r
<1>3. Min({r, Capacity}) = IF r <= Capacity THEN r ELSE Capacity
  BY <1>1, <1>2, MinPair
<1> QED
  BY <1>1, <1>2, <1>3, Zenon DEF GrowTarget, r

\* The end of a call's blocks.
LEMMA EndOfType ==
    ASSUME NEW S \in SUBSET DeviceBlock, S # {}
    PROVE  /\ EndOf(S) \in Nat /\ EndOf(S) <= Capacity
           /\ \A b \in S : b.offset + b.size <= EndOf(S)
<1> DEFINE T == {b.offset + b.size : b \in S}
<1>1. Capacity \in Nat
  BY AllocatorAssumption, Zenon
<1>2. \A b \in S : b.offset + b.size \in Nat /\ b.offset + b.size <= Capacity
  BY FootprintType, <1>1
<1>3. T \in SUBSET Nat /\ T # {} /\ \A x \in T : x <= Capacity
  BY <1>2, Zenon
<1>4. Max(T) \in T /\ \A x \in T : x <= Max(T)
  BY <1>1, <1>3, MaxType, Zenon
<1> QED
  BY <1>3, <1>4, Zenon DEF EndOf

\* A call that takes a block.
LEMMA TakingTyped ==
    ASSUME CallInv, NEW t \in Threads, NEW w \in Maps, NEW c \in Categories,
           NEW i \in 1..Len(maps[w][c]), Reusing(t, w, c, i) \/ Assembling(t, w, c, i)
    PROVE  Typed'
<1>1. Typed
  BY Zenon DEF CallInv
<1>2. maps[w][c][i] \in DeviceBlock /\ Footprint(maps[w][c][i]) \in Nat
  BY <1>1, ListBlock, FootprintType, Zenon
<1>3. Taking(t, w, c, i)
  BY Zenon DEF Reusing, Assembling
<1>4. maps' \in [Maps -> [Categories -> Seq(FreeListBlock)]]
  BY <1>1, <1>3, MapsAfter, Zenon DEF Taking
<1>5. remaining' \in [Threads -> Nat] /\ scan' \in [Threads -> Maps]
  <2>1. 0 \in Maps
    BY AllocatorAssumption DEF Maps
  <2>2. CASE Reusing(t, w, c, i)
    BY <1>1, <2>2, Zenon DEF Reusing, Typed
  <2>3. CASE Assembling(t, w, c, i)
    <3>1. remaining \in [Threads -> Nat] /\ remaining[t] - Footprint(maps[w][c][i]) \in Nat
      BY SMTT(30), <1>1, <1>2, <2>3 DEF Assembling, Typed
    <3> QED
      BY <1>1, <2>1, <2>3, <3>1, Zenon DEF Assembling, Typed
  <2> QED
    BY <2>2, <2>3, Zenon
<1>6. /\ taken' \in [Threads -> SUBSET DeviceBlock] /\ amount' \in [Threads -> Nat]
      /\ pc' \in [Threads -> Labels]
  BY <1>1, <1>2, <1>3, Zenon DEF Taking, Typed, Labels
<1> QED
  BY <1>1, <1>3, <1>4, <1>5, <1>6, Zenon DEF Taking, Typed

\* A call that puts a block back.
LEMMA FreeingTyped ==
    ASSUME CallInv, NEW t \in Threads, RollbackFree(t) \/ FreeOne(t)
    PROVE  Typed'
<1>1. Typed
  BY Zenon DEF CallInv
<1>2. PICK b \in blocks[t], d \in FreeListBlock :
         /\ Freeing(t, b, d) /\ SameSpan(b, d)
         /\ \/ /\ pc[t] = "rollback" /\ pc' = [pc EXCEPT ![t] = "uncharge"]
               /\ amount' = [amount EXCEPT ![t] = Footprint(b)]
            \/ /\ pc[t] = "free" /\ UNCHANGED pc
               /\ amount' = [amount EXCEPT ![t] = amount[t] + Footprint(b)]
  BY FreeingBlock, Zenon
<1>3. b \in DeviceBlock /\ Footprint(b) \in Nat
  BY <1>1, FootprintType, Zenon DEF Typed
<1>4. WorkerIdx[t] \in Maps
  BY <1>1, ScannedMapType, Zenon
<1>5. maps' \in [Maps -> [Categories -> Seq(FreeListBlock)]]
  BY <1>1, <1>2, <1>4, MapsAfter, Zenon DEF Freeing
<1>6. pc' \in [Threads -> Labels] /\ amount' \in [Threads -> Nat]
  <2>1. pc \in [Threads -> Labels] /\ amount \in [Threads -> Nat]
    BY <1>1, Zenon DEF Typed
  <2>2. amount[t] + Footprint(b) \in Nat
    BY <1>3, <2>1
  <2>3. "uncharge" \in Labels
    BY Zenon DEF Labels
  <2> QED
    BY <1>2, <1>3, <2>1, <2>2, <2>3, Zenon
<1>7. blocks' \in [Threads -> SUBSET DeviceBlock]
  BY <1>1, <1>2, Zenon DEF Freeing, Typed
<1> QED
  BY <1>1, <1>2, <1>5, <1>6, <1>7, Zenon DEF Freeing, Typed

LocalsTyped ==
    /\ pc \in [Threads -> Labels]
    /\ total_size \in [Threads -> Nat]
    /\ scan \in [Threads -> Maps]
    /\ blocks \in [Threads -> SUBSET DeviceBlock]
    /\ taken \in [Threads -> SUBSET DeviceBlock]
    /\ remaining \in [Threads -> Nat]
    /\ amount \in [Threads -> Nat]
    /\ cur \in [Threads -> Int]
    /\ alone \in [Threads -> BOOLEAN]

SharedTyped ==
    /\ heap \in Nat /\ allocated_bytes \in Int
    /\ maps \in [Maps -> [Categories -> Seq(FreeListBlock)]]
    /\ file \in Nat /\ file_backed_bytes \in Nat
    /\ grow_mu \in SUBSET Threads
    /\ faults \in 0..MaxFaults
    /\ held \in SUBSET DeviceBlock

\* The two halves of the types.
LEMMA TypedHalves == (Typed <=> SharedTyped /\ LocalsTyped) /\ (Typed' <=> SharedTyped' /\ LocalsTyped')
BY Zenon DEF Typed, SharedTyped, LocalsTyped

\* A call that returns.
LEMMA ReturnTyped ==
    ASSUME LocalsTyped, NEW t \in Threads, Return(t)
    PROVE  LocalsTyped'
<1>1. "idle" \in Labels /\ 0 \in Nat /\ 0 \in Int /\ TRUE \in BOOLEAN
  BY DEF Labels
<1>2. 0 \in Maps
  BY AllocatorAssumption DEF Maps
<1>3. pc' \in [Threads -> Labels]
  BY <1>1, Zenon DEF Return, Goto, LocalsTyped
<1>4. total_size' \in [Threads -> Nat] /\ remaining' \in [Threads -> Nat] /\ amount' \in [Threads -> Nat]
  BY <1>1, Zenon DEF Return, LocalsTyped
<1>5. scan' \in [Threads -> Maps] /\ blocks' \in [Threads -> SUBSET DeviceBlock]
  BY <1>2, Zenon DEF Return, LocalsTyped
<1>6. cur' \in [Threads -> Int] /\ alone' \in [Threads -> BOOLEAN] /\ taken' = taken
  BY <1>1, Zenon DEF Return, LocalsTyped
<1> QED
  BY <1>3, <1>4, <1>5, <1>6, Zenon DEF LocalsTyped

\* A call that begins, or goes on at another label.
LEMMA GotoTyped ==
    ASSUME LocalsTyped, NEW t \in Threads
    PROVE  /\ \A l \in Labels : Goto(t, l) => pc' \in [Threads -> Labels]
           /\ \A l \in Labels : Begin(t, l) => /\ pc' \in [Threads -> Labels]
                                               /\ alone' \in [Threads -> BOOLEAN]
<1>1. ASSUME NEW l \in Labels, Goto(t, l) PROVE pc' \in [Threads -> Labels]
  BY <1>1, Zenon DEF Goto, LocalsTyped
<1>2. ASSUME NEW l \in Labels, Begin(t, l) PROVE alone' \in [Threads -> BOOLEAN]
  <2>1. \A u \in Threads : alone[u] \in BOOLEAN
    BY Zenon DEF LocalsTyped
  <2> QED
    BY <1>2, <2>1, Zenon DEF Begin, At
<1> QED
  BY <1>1, <1>2, Zenon DEF Begin

\* The steps of a search that finds nothing, and the ones before the blocks
\* reach the caller.
LEMMA SearchTyped ==
    ASSUME CallInv, NEW t \in Threads
    PROVE  /\ \A size \in Sizes : AllocateBlocks(t, size) => Typed'
           /\ ReuseMissed(t) => Typed'
           /\ AssembleMissed(t) => Typed'
           /\ HeapAdd(t) => Typed'
           /\ HeapUndo(t) => Typed'
<1>1. Typed /\ SharedTyped /\ LocalsTyped
  BY TypedHalves, Zenon DEF CallInv
<1>2. {"reuse", "heap", "heap_undo", "charge", "assemble", "rollback"} \subseteq Labels
  BY Zenon DEF Labels
<1>3. NumMaps \in Nat \ {0} /\ Capacity \in Nat /\ Sizes \subseteq Nat
  BY AllocatorAssumption, Zenon
<1>4. total_size[t] \in Nat /\ AlignSize(total_size[t]) \in Nat /\ heap \in Nat
  BY <1>1, AlignType, Zenon DEF Typed
<1>5. ASSUME NEW size \in Sizes, AllocateBlocks(t, size) PROVE Typed'
  <2>1. pc' \in [Threads -> Labels] /\ alone' \in [Threads -> BOOLEAN]
    BY <1>1, <1>2, <1>5, GotoTyped, Zenon DEF AllocateBlocks
  <2>2. total_size' \in [Threads -> Nat]
    BY <1>1, <1>3, <1>5, Zenon DEF AllocateBlocks, LocalsTyped
  <2>3. LocalsTyped'
    BY <1>1, <1>5, <2>1, <2>2, Zenon DEF AllocateBlocks, LocalsTyped
  <2>4. SharedTyped'
    BY <1>1, <1>5, Zenon DEF AllocateBlocks, SharedTyped, space, backing
  <2> QED
    BY <2>3, <2>4, TypedHalves, Zenon
<1>6. ASSUME ReuseMissed(t) \/ AssembleMissed(t) PROVE Typed'
  <2>1. scan \in [Threads -> Maps] /\ scan[t] \in Maps
    BY <1>1, Zenon DEF LocalsTyped
  <2>2. 0 \in Maps /\ (scan[t] < NumMaps - 1 => scan[t] + 1 \in Maps)
    BY <1>3, <2>1 DEF Maps
  <2>3. \/ scan[t] < NumMaps - 1 /\ scan' = [scan EXCEPT ![t] = @ + 1]
        \/ scan' = [scan EXCEPT ![t] = 0] \/ UNCHANGED scan
    BY <1>6, Zenon DEF ReuseMissed, AssembleMissed
  <2>4. scan' \in [Threads -> Maps]
    BY <2>1, <2>2, <2>3, Zenon
  <2>5. UNCHANGED pc \/ Goto(t, "heap") \/ Goto(t, "rollback")
    BY <1>6, Zenon DEF ReuseMissed, AssembleMissed
  <2>6. pc' \in [Threads -> Labels]
    <3>1. CASE UNCHANGED pc
      BY <1>1, <3>1, Zenon DEF LocalsTyped
    <3>2. CASE Goto(t, "heap") \/ Goto(t, "rollback")
      BY <1>1, <1>2, <3>2, GotoTyped, Zenon
    <3> QED
      BY <2>5, <3>1, <3>2, Zenon
  <2>7. UNCHANGED <<space, backing, held, total_size, blocks, taken, remaining, amount, cur, alone>>
    BY <1>6, Zenon DEF ReuseMissed, AssembleMissed
  <2>8. LocalsTyped'
    BY <1>1, <2>4, <2>6, <2>7, Zenon DEF LocalsTyped
  <2>9. SharedTyped'
    BY <1>1, <2>7, Zenon DEF SharedTyped, space, backing
  <2> QED
    BY <2>8, <2>9, TypedHalves, Zenon
<1>7. ASSUME HeapAdd(t) PROVE Typed'
  <2> DEFINE n == AlignSize(total_size[t])
             b == Block(heap, total_size[t], FindBlockType(n))
  <2>1. heap' = heap + n /\ heap' \in Nat /\ pc[t] = "heap"
    BY <1>4, <1>7 DEF HeapAdd, At
  <2>2. total_size[t] > 0
    <3>1. total_size[t] \in Sizes \ {0}
      BY <2>1, Zenon DEF CallInv, Calls, CallOK
    <3> QED
      BY <3>1, <1>4
  <2>3. FindBlockType(n) \in Categories
    BY <1>4, CategoryType, Zenon
  <2>4. heap + n <= Capacity => b \in DeviceBlock
    BY <1>4, <2>2, <2>3, DeviceBlockType, Zenon
  <2>5. \/ Goto(t, "heap_undo") /\ UNCHANGED <<taken, amount>>
        \/ /\ ~(heap + n > Capacity) /\ Goto(t, "charge")
           /\ taken' = [taken EXCEPT ![t] = {b}] /\ amount' = [amount EXCEPT ![t] = n]
    BY <1>7, Zenon DEF HeapAdd
  <2>6. heap + n <= Capacity \/ heap + n > Capacity
    BY <1>3, <1>4
  <2>7. pc' \in [Threads -> Labels]
    BY <1>1, <1>2, <2>5, GotoTyped, Zenon
  <2> HIDE DEF b
  <2>8. taken' \in [Threads -> SUBSET DeviceBlock]
    <3>1. taken \in [Threads -> SUBSET DeviceBlock]
      BY <1>1, Zenon DEF LocalsTyped
    <3>2. CASE UNCHANGED taken
      BY <3>1, <3>2, Zenon
    <3>3. CASE ~(heap + n > Capacity) /\ taken' = [taken EXCEPT ![t] = {b}]
      <4>1. {b} \in SUBSET DeviceBlock
        BY <3>3, <2>4, <2>6, Zenon
      <4> QED
        BY <3>1, <3>3, <4>1, Zenon
    <3> QED
      BY <2>5, <3>2, <3>3, Zenon
  <2>9. amount' \in [Threads -> Nat]
    BY <1>1, <1>4, <2>5, Zenon DEF LocalsTyped
  <2>10. UNCHANGED <<allocated_bytes, maps, backing, held, total_size, scan, blocks, remaining, cur, alone>>
    BY <1>7, Zenon DEF HeapAdd
  <2>11. LocalsTyped'
    BY <1>1, <2>7, <2>8, <2>9, <2>10, Zenon DEF LocalsTyped
  <2>12. SharedTyped'
    BY <1>1, <2>1, <2>10, Zenon DEF SharedTyped, backing
  <2> QED
    BY <2>11, <2>12, TypedHalves, Zenon
<1>8. ASSUME HeapUndo(t) PROVE Typed'
  <2>1. pc[t] = "heap_undo" /\ heap' = heap - AlignSize(total_size[t])
    BY <1>8, Zenon DEF HeapUndo, At
  <2>2. t \in Undoing /\ Request[t] = AlignSize(total_size[t])
    BY <2>1, Zenon DEF Undoing, Request
  <2>3. IsFiniteSet(Tags(Undoing, Request)) /\ Cardinality(Tags(Undoing, Request)) <= heap
    BY ReservedTags, Zenon DEF CallInv, ReservedInHeap
  <2>4. Request[t] <= Cardinality(Tags(Undoing, Request)) /\ Cardinality(Tags(Undoing, Request)) \in Nat
    BY <1>4, <2>2, <2>3, TagsPart, Zenon
  <2>5. heap' \in Nat
    BY <1>4, <2>1, <2>2, <2>3, <2>4
  <2>6. pc' \in [Threads -> Labels]
    BY <1>1, <1>2, <1>8, GotoTyped, Zenon DEF HeapUndo
  <2>7. remaining' \in [Threads -> Nat]
    BY <1>1, <1>4, <1>8, Zenon DEF HeapUndo, LocalsTyped
  <2>8. LocalsTyped'
    BY <1>1, <1>8, <2>6, <2>7, Zenon DEF HeapUndo, LocalsTyped
  <2>9. SharedTyped'
    BY <1>1, <1>8, <2>5, Zenon DEF HeapUndo, SharedTyped, backing
  <2> QED
    BY <2>8, <2>9, TypedHalves, Zenon
<1> QED
  BY <1>5, <1>6, <1>7, <1>8, Zenon

\* The steps that charge, give back and credit.
LEMMA ChargeTyped ==
    ASSUME CallInv, NEW t \in Threads
    PROVE  /\ Charge(t) => Typed'
           /\ Uncharge(t) => Typed'
           /\ AllocateFails(t) => Typed'
           /\ CreditLoad(t) => Typed'
           /\ CreditSub(t) => Typed'
           /\ \A bs \in SUBSET held : FreeBlocks(t, bs) => Typed'
<1>1. Typed /\ SharedTyped /\ LocalsTyped
  BY TypedHalves, Zenon DEF CallInv
<1>2. {"assemble", "ensure", "rollback", "credit", "free"} \subseteq Labels
  BY Zenon DEF Labels
<1>3. /\ amount[t] \in Nat /\ allocated_bytes \in Int /\ cur[t] \in Int
      /\ blocks[t] \in SUBSET DeviceBlock /\ taken[t] \in SUBSET DeviceBlock
  BY <1>1, Zenon DEF Typed
<1>4. allocated_bytes + amount[t] \in Int /\ allocated_bytes - amount[t] \in Int /\ 0 \in Nat
  BY <1>3
<1>5. ASSUME Charge(t) PROVE Typed'
  <2>1. Goto(t, "assemble") \/ Goto(t, "ensure")
    BY <1>5, Zenon DEF Charge
  <2>2. pc' \in [Threads -> Labels]
    BY <1>1, <1>2, <2>1, GotoTyped, Zenon
  <2>3. blocks' \in [Threads -> SUBSET DeviceBlock] /\ taken' \in [Threads -> SUBSET DeviceBlock]
    BY <1>1, <1>3, <1>5, Zenon DEF Charge, LocalsTyped
  <2>4. amount' \in [Threads -> Nat]
    BY <1>1, <1>4, <1>5, Zenon DEF Charge, LocalsTyped
  <2>5. LocalsTyped'
    BY <1>1, <1>5, <2>2, <2>3, <2>4, Zenon DEF Charge, LocalsTyped
  <2>6. SharedTyped'
    BY <1>1, <1>4, <1>5, Zenon DEF Charge, SharedTyped, backing
  <2> QED
    BY <2>5, <2>6, TypedHalves, Zenon
<1>6. ASSUME Uncharge(t) PROVE Typed'
  <2>1. pc' \in [Threads -> Labels]
    BY <1>1, <1>2, <1>6, GotoTyped, Zenon DEF Uncharge
  <2>2. amount' \in [Threads -> Nat]
    BY <1>1, <1>4, <1>6, Zenon DEF Uncharge, LocalsTyped
  <2>3. LocalsTyped'
    BY <1>1, <1>6, <2>1, <2>2, Zenon DEF Uncharge, LocalsTyped
  <2>4. SharedTyped'
    BY <1>1, <1>4, <1>6, Zenon DEF Uncharge, SharedTyped, backing
  <2> QED
    BY <2>3, <2>4, TypedHalves, Zenon
<1>7. ASSUME AllocateFails(t) PROVE Typed'
  <2>1. LocalsTyped'
    BY <1>1, <1>7, ReturnTyped, Zenon DEF AllocateFails
  <2>2. SharedTyped'
    BY <1>1, <1>7, Zenon DEF AllocateFails, SharedTyped, backing, space
  <2> QED
    BY <2>1, <2>2, TypedHalves, Zenon
<1>8. ASSUME CreditLoad(t) PROVE Typed'
  <2>1. pc' \in [Threads -> Labels]
    BY <1>1, <1>2, <1>8, GotoTyped, Zenon DEF CreditLoad
  <2>2. cur' \in [Threads -> Int]
    BY <1>1, <1>3, <1>8, Zenon DEF CreditLoad, LocalsTyped
  <2>3. LocalsTyped'
    BY <1>1, <1>8, <2>1, <2>2, Zenon DEF CreditLoad, LocalsTyped
  <2>4. SharedTyped'
    BY <1>1, <1>8, Zenon DEF CreditLoad, SharedTyped, backing, space
  <2> QED
    BY <2>3, <2>4, TypedHalves, Zenon
<1>9. ASSUME CreditSub(t) PROVE Typed'
  <2>1. LocalsTyped'
    BY <1>1, <1>9, ReturnTyped, Zenon DEF CreditSub
  <2>2. Min({cur[t], amount[t]}) \in Int
    <3>1. amount[t] \in Int
      BY <1>3
    <3>2. Min({cur[t], amount[t]}) = IF cur[t] <= amount[t] THEN cur[t] ELSE amount[t]
      BY <1>3, <3>1, MinPair, Zenon
    <3> QED
      BY <1>3, <3>1, <3>2, Zenon
  <2>3. allocated_bytes' \in Int
    <3>1. allocated_bytes' = allocated_bytes - Min({cur[t], amount[t]})
      BY <1>9, Zenon DEF CreditSub
    <3> QED
      BY <3>1, <2>2, <1>3
  <2>4. SharedTyped'
    BY <1>1, <1>9, <2>3, Zenon DEF CreditSub, SharedTyped, backing
  <2> QED
    BY <2>1, <2>4, TypedHalves, Zenon
<1>10. ASSUME NEW bs \in SUBSET held, FreeBlocks(t, bs) PROVE Typed'
  <2>1. held \in SUBSET DeviceBlock
    BY <1>1, Zenon DEF SharedTyped
  <2>2. blocks' \in [Threads -> SUBSET DeviceBlock]
    BY <1>1, <1>10, <2>1, Zenon DEF FreeBlocks, LocalsTyped
  <2>3. held' \in SUBSET DeviceBlock
    BY <1>10, <2>1, Zenon DEF FreeBlocks
  <2>4. pc' \in [Threads -> Labels] /\ alone' \in [Threads -> BOOLEAN]
    BY <1>1, <1>2, <1>10, GotoTyped, Zenon DEF FreeBlocks
  <2>5. LocalsTyped'
    BY <1>1, <1>10, <2>2, <2>4, Zenon DEF FreeBlocks, LocalsTyped
  <2>6. SharedTyped'
    BY <1>1, <1>10, <2>3, Zenon DEF FreeBlocks, SharedTyped, backing, space
  <2> QED
    BY <2>5, <2>6, TypedHalves, Zenon
<1> QED
  BY <1>5, <1>6, <1>7, <1>8, <1>9, <1>10, Zenon

\* The steps that back the blocks of a call with file.
LEMMA EnsureTyped ==
    ASSUME CallInv, NEW t \in Threads
    PROVE  /\ EnsureBacked(t) => Typed'
           /\ EnsureWaits(t) => Typed'
           /\ GrowLock(t) => Typed'
           /\ GrowTruncate(t) => Typed'
           /\ GrowPublish(t) => Typed'
           /\ GrowFails(t) => Typed'
<1>1. Typed /\ SharedTyped /\ LocalsTyped
  BY TypedHalves, Zenon DEF CallInv
<1>2. {"lock", "grow", "publish", "free"} \subseteq Labels
  BY Zenon DEF Labels
<1>3. blocks[t] \in SUBSET DeviceBlock /\ {t} \in SUBSET Threads
  BY <1>1, Zenon DEF LocalsTyped
<1>4. ASSUME Deliver(t) PROVE LocalsTyped' /\ held' \in SUBSET DeviceBlock
  <2>1. held \in SUBSET DeviceBlock
    BY <1>1, Zenon DEF SharedTyped
  <2>2. LocalsTyped'
    BY <1>1, <1>4, ReturnTyped, Zenon DEF Deliver
  <2> QED
    BY <1>3, <1>4, <2>1, <2>2, Zenon DEF Deliver
<1>5. ASSUME NEW l \in {"lock", "grow", "publish", "free"}, Goto(t, l),
             UNCHANGED <<total_size, scan, blocks, taken, remaining, amount, cur, alone>>
      PROVE  LocalsTyped'
  <2>1. pc' \in [Threads -> Labels]
    BY <1>1, <1>2, <1>5, GotoTyped, Zenon
  <2> QED
    BY <1>1, <1>5, <2>1, Zenon DEF LocalsTyped
<1>6. EnsureBacked(t) => Typed'
  BY <1>1, <1>4, TypedHalves, Zenon DEF EnsureBacked, SharedTyped, space, backing
<1>7. EnsureWaits(t) => Typed'
  BY <1>1, <1>5, TypedHalves, Zenon DEF EnsureWaits, SharedTyped, space, backing
<1>8. GrowLock(t) => Typed'
  <2>1. ASSUME GrowLock(t) PROVE LocalsTyped' /\ held' \in SUBSET DeviceBlock
    BY <1>1, <1>4, <1>5, <2>1, Zenon DEF GrowLock, SharedTyped
  <2>2. ASSUME GrowLock(t) PROVE grow_mu' \in SUBSET Threads
    BY <1>1, <1>3, <2>2, Zenon DEF GrowLock, SharedTyped
  <2>3. ASSUME GrowLock(t) PROVE SharedTyped'
    BY <1>1, <2>1, <2>2, <2>3, Zenon DEF GrowLock, SharedTyped, space
  <2> QED
    BY <2>1, <2>3, TypedHalves, Zenon
<1>9. ASSUME pc[t] \in {"grow", "publish"} PROVE GrowTarget(EndOf(blocks[t])) \in Nat
  <2>1. blocks[t] # {}
    BY <1>9, Zenon DEF CallInv, Calls, CallOK
  <2>2. EndOf(blocks[t]) \in Nat
    BY <1>3, <2>1, EndOfType, Zenon
  <2> QED
    BY <2>2, GrowTargetType, Zenon
<1>10. GrowTruncate(t) => Typed'
  <2>1. ASSUME GrowTruncate(t) PROVE LocalsTyped'
    BY <1>5, <2>1, Zenon DEF GrowTruncate
  <2>2. ASSUME GrowTruncate(t) PROVE SharedTyped'
    BY <1>1, <1>9, <2>2, Zenon DEF GrowTruncate, SharedTyped, space, At
  <2> QED
    BY <2>1, <2>2, TypedHalves, Zenon
<1>11. GrowPublish(t) => Typed'
  <2>1. ASSUME GrowPublish(t) PROVE LocalsTyped' /\ held' \in SUBSET DeviceBlock
    BY <1>4, <2>1, Zenon DEF GrowPublish
  <2>2. ASSUME GrowPublish(t) PROVE SharedTyped'
    BY <1>1, <1>9, <2>1, <2>2, Zenon DEF GrowPublish, SharedTyped, space, At
  <2> QED
    BY <2>1, <2>2, TypedHalves, Zenon
<1>12. GrowFails(t) => Typed'
  <2>1. ASSUME GrowFails(t) PROVE LocalsTyped'
    BY <1>5, <2>1, Zenon DEF GrowFails
  <2>2. ASSUME GrowFails(t) PROVE faults' \in 0..MaxFaults
    BY <1>1, <2>2, AllocatorAssumption DEF GrowFails, SharedTyped
  <2>3. ASSUME GrowFails(t) PROVE SharedTyped'
    BY <1>1, <2>2, <2>3, Zenon DEF GrowFails, SharedTyped, space
  <2> QED
    BY <2>1, <2>3, TypedHalves, Zenon
<1> QED
  BY <1>6, <1>7, <1>8, <1>10, <1>11, <1>12, Zenon

\* All of them.
LEMMA TypedStep ==
    ASSUME CallInv, Next
    PROVE  Typed'
<1>1. PICK t \in Threads : \/ \E size \in Sizes : AllocateBlocks(t, size)
                           \/ \E bs \in SUBSET held : FreeBlocks(t, bs)
                           \/ Step(t)
  BY Zenon DEF Next
<1>2. CASE \E size \in Sizes : AllocateBlocks(t, size)
  BY <1>2, SearchTyped, Zenon
<1>3. CASE \E bs \in SUBSET held : FreeBlocks(t, bs)
  BY <1>3, ChargeTyped, Zenon
<1>4. CASE ReuseFound(t) \/ AssembleFound(t)
  BY <1>4, ReuseTakes, AssembleTakes, TakingTyped, Zenon
<1>5. CASE ReuseMissed(t) \/ HeapAdd(t) \/ HeapUndo(t) \/ AssembleMissed(t)
  BY <1>5, SearchTyped, Zenon
<1>6. CASE RollbackFree(t) \/ FreeOne(t)
  BY <1>6, FreeingTyped, Zenon
<1>7. CASE Charge(t) \/ Uncharge(t) \/ AllocateFails(t) \/ CreditLoad(t) \/ CreditSub(t)
  BY <1>7, ChargeTyped, Zenon
<1>8. CASE \/ EnsureBacked(t) \/ EnsureWaits(t) \/ GrowLock(t)
           \/ GrowTruncate(t) \/ GrowPublish(t) \/ GrowFails(t)
  BY <1>8, EnsureTyped, Zenon
<1> QED
  BY <1>1, <1>2, <1>3, <1>4, <1>5, <1>6, <1>7, <1>8, Zenon DEF Step

-----------------------------------------------------------------------------
(* Every step keeps what holds of the calls.                                *)

\* After a return there is no call.
LEMMA ReturnCalls ==
    ASSUME LocalsTyped, NEW t \in Threads, CallOK(t), taken[t] = {}, Return(t)
    PROVE  CallOK(t)' /\ \A u \in Threads \ {t} : SameLocals(u)
<1>1. /\ pc'[t] = "idle" /\ blocks'[t] = {} /\ amount'[t] = 0 /\ remaining'[t] = 0 /\ taken'[t] = {}
  BY Zenon DEF Return, Goto, LocalsTyped
<1>2. CallOK(t)'
  BY <1>1, Zenon DEF CallOK
<1>3. ASSUME NEW u \in Threads \ {t} PROVE SameLocals(u)
  BY <1>3, Zenon DEF Return, Goto, LocalsTyped, SameLocals
<1> QED
  BY <1>2, <1>3, Zenon

\* The steps that only go on to another label with the same blocks.
LEMMA GotoCalls ==
    ASSUME LocalsTyped, NEW t \in Threads, CallOK(t), NEW l \in {"lock", "grow", "publish", "free"},
           pc[t] \in {"ensure", "lock", "grow"}, Goto(t, l),
           UNCHANGED <<total_size, scan, blocks, taken, remaining, amount, cur, alone>>
    PROVE  CallOK(t)' /\ \A u \in Threads \ {t} : SameLocals(u)
<1>1. pc'[t] = l /\ \A u \in Threads \ {t} : pc'[u] = pc[u]
  BY Zenon DEF Goto, LocalsTyped
<1>2. CallOK(t)'
  BY <1>1, Zenon DEF CallOK
<1>3. ASSUME NEW u \in Threads \ {t} PROVE SameLocals(u)
  BY <1>1, <1>3, Zenon DEF SameLocals
<1> QED
  BY <1>2, <1>3, Zenon

\* Taking a block from a map.
LEMMA TakingCalls ==
    ASSUME CallInv, NEW t \in Threads, NEW w \in Maps, NEW c \in Categories,
           NEW i \in 1..Len(maps[w][c]), Reusing(t, w, c, i) \/ Assembling(t, w, c, i)
    PROVE  CallOK(t)' /\ \A u \in Threads \ {t} : SameLocals(u)
<1> DEFINE b == maps[w][c][i]
<1>1. Typed /\ LocalsTyped /\ CallOK(t)
  BY TypedHalves, Zenon DEF CallInv, Calls
<1>2. Aligned(b) /\ Taking(t, w, c, i)
  BY <1>1, ListBlock, Zenon DEF FreeListBlock, Reusing, Assembling
<1> HIDE DEF b
<1>3. /\ pc'[t] = "charge" /\ taken'[t] = {b} /\ amount'[t] = Footprint(b) /\ blocks'[t] = blocks[t]
      /\ \A u \in Threads \ {t} : pc'[u] = pc[u] /\ taken'[u] = taken[u] /\ amount'[u] = amount[u]
      /\ UNCHANGED <<total_size, blocks, cur, alone>>
  BY <1>1, <1>2, Zenon DEF Taking, LocalsTyped, b
<1>4. /\ \A u \in Threads \ {t} : remaining'[u] = remaining[u] /\ scan'[u] = scan[u]
      /\ pc[t] = "reuse" => remaining'[t] = 0
      /\ pc[t] = "assemble" => scan'[t] = 0
  BY <1>1, Zenon DEF Reusing, Assembling, LocalsTyped, CallOK
<1>5. pc[t] \in {"reuse", "assemble"}
  BY <1>2, Zenon DEF Taking
<1>6. pc[t] = "assemble" => \A d \in blocks[t] : Aligned(d)
  BY <1>1, Zenon DEF CallOK
<1>7. pc[t] = "reuse" => blocks[t] = {}
  BY <1>1, Zenon DEF CallOK
<1>8. CallOK(t)'
  <2>1. remaining'[t] \in Nat
    BY TakingTyped, Zenon DEF Typed
  <2>2. /\ \E d \in taken'[t] : taken'[t] = {d} /\ amount'[t] = Footprint(d)
        /\ \A d \in blocks'[t] \cup taken'[t] : Aligned(d)
    BY <1>2, <1>3, <1>5, <1>6, <1>7, Zenon
  <2>3. remaining'[t] > 0 => scan'[t] = 0
    BY <2>1, <1>4, <1>5
  <2> QED
    BY <1>3, <2>2, <2>3, Zenon DEF CallOK, Aligned, Footprint
<1>9. ASSUME NEW u \in Threads \ {t} PROVE SameLocals(u)
  BY <1>3, <1>4, <1>9, Zenon DEF SameLocals
<1> QED
  BY <1>8, <1>9, Zenon

\* Putting a block back.
LEMMA FreeingCalls ==
    ASSUME CallInv, NEW t \in Threads, RollbackFree(t) \/ FreeOne(t)
    PROVE  CallOK(t)' /\ \A u \in Threads \ {t} : SameLocals(u)
<1>1. Typed /\ LocalsTyped /\ CallOK(t)
  BY TypedHalves, Zenon DEF CallInv, Calls
<1>2. PICK b \in blocks[t], d \in FreeListBlock :
         /\ Freeing(t, b, d)
         /\ \/ /\ pc[t] = "rollback" /\ pc' = [pc EXCEPT ![t] = "uncharge"]
               /\ amount' = [amount EXCEPT ![t] = Footprint(b)]
            \/ /\ pc[t] = "free" /\ UNCHANGED pc
               /\ amount' = [amount EXCEPT ![t] = amount[t] + Footprint(b)]
  BY FreeingBlock, Zenon
<1>3. /\ pc'[t] = "uncharge" \/ (pc'[t] = "free" /\ pc[t] = "free")
      /\ blocks'[t] \subseteq blocks[t] /\ taken'[t] = taken[t] /\ taken[t] = {}
      /\ remaining'[t] = remaining[t]
      /\ pc'[t] = "uncharge" => pc[t] = "rollback"
      /\ pc[t] = "free" => remaining[t] = 0
  BY <1>1, <1>2, Zenon DEF Freeing, LocalsTyped, CallOK
<1>4. CallOK(t)'
  <2>1. pc'[t] = "uncharge" => \A x \in blocks'[t] : Aligned(x)
    BY <1>1, <1>3, Zenon DEF CallOK
  <2> QED
    BY <1>3, <2>1 DEF CallOK, Aligned, Footprint
<1>5. ASSUME NEW u \in Threads \ {t} PROVE SameLocals(u)
  <2>1. blocks'[u] = blocks[u] /\ pc'[u] = pc[u] /\ amount'[u] = amount[u]
    BY <1>1, <1>2, <1>5, Zenon DEF Freeing, LocalsTyped
  <2> QED
    BY <2>1, <1>2, Zenon DEF Freeing, SameLocals
<1> QED
  BY <1>4, <1>5, Zenon

\* The steps of a search that finds nothing.
LEMMA SearchCalls ==
    ASSUME CallInv, NEW t \in Threads,
           \/ \E size \in Sizes : AllocateBlocks(t, size)
           \/ ReuseMissed(t) \/ AssembleMissed(t) \/ HeapAdd(t) \/ HeapUndo(t)
    PROVE  CallOK(t)' /\ \A u \in Threads \ {t} : SameLocals(u)
<1>1. Typed /\ LocalsTyped /\ CallOK(t)
  BY TypedHalves, Zenon DEF CallInv, Calls
<1>2. CASE \E size \in Sizes : AllocateBlocks(t, size)
  <2>1. PICK size \in Sizes : AllocateBlocks(t, size)
    BY <1>2, Zenon
  <2>2. size \in Sizes \ {0}
    BY <2>1, AllocatorAssumption DEF AllocateBlocks
  <2>3. /\ pc[t] = "idle" /\ pc'[t] = "reuse" /\ total_size'[t] = size
        /\ blocks'[t] = blocks[t] /\ taken'[t] = taken[t] /\ amount'[t] = amount[t]
        /\ remaining'[t] = remaining[t]
    BY <1>1, <2>1, Zenon DEF AllocateBlocks, Begin, At, Goto, LocalsTyped
  <2>4. CallOK(t)'
    BY <1>1, <2>2, <2>3, Zenon DEF CallOK
  <2>5. ASSUME NEW u \in Threads \ {t} PROVE SameLocals(u)
    BY <1>1, <2>1, <2>5, Zenon DEF AllocateBlocks, Begin, Goto, LocalsTyped, SameLocals
  <2> QED
    BY <2>4, <2>5, Zenon
<1>3. CASE ReuseMissed(t) \/ AssembleMissed(t)
  <2>1. /\ UNCHANGED <<total_size, blocks, taken, remaining, amount, cur, alone>>
        /\ \/ pc[t] = "reuse" /\ pc'[t] = "reuse"
           \/ pc[t] = "reuse" /\ pc'[t] = "heap" /\ scan'[t] = 0
           \/ pc[t] = "assemble" /\ pc'[t] \in {"assemble", "rollback"}
    BY <1>1, <1>3, Zenon DEF ReuseMissed, AssembleMissed, At, Goto, LocalsTyped
  <2>2. CallOK(t)'
    BY <1>1, <2>1, Zenon DEF CallOK, Aligned, Footprint
  <2>3. ASSUME NEW u \in Threads \ {t} PROVE pc'[u] = pc[u] /\ scan'[u] = scan[u]
    BY <1>1, <1>3, <2>3, Zenon DEF ReuseMissed, AssembleMissed, Goto, LocalsTyped
  <2>4. ASSUME NEW u \in Threads \ {t} PROVE SameLocals(u)
    BY <2>1, <2>3, <2>4, Zenon DEF SameLocals
  <2> QED
    BY <2>2, <2>4, Zenon
<1>4. CASE HeapAdd(t)
  <2> DEFINE n == AlignSize(total_size[t])
             b == Block(heap, total_size[t], FindBlockType(n))
  <2>1. /\ pc[t] = "heap" /\ UNCHANGED <<total_size, scan, blocks, remaining, cur, alone>>
        /\ \/ Goto(t, "heap_undo") /\ UNCHANGED <<taken, amount>>
           \/ /\ Goto(t, "charge")
              /\ taken' = [taken EXCEPT ![t] = {b}] /\ amount' = [amount EXCEPT ![t] = n]
    BY <1>4, Zenon DEF HeapAdd, At
  <2>2. Footprint(b) = n
    BY Zenon DEF Block, Footprint
  <2> HIDE DEF b, n
  <2>3. \/ pc'[t] = "heap_undo" /\ UNCHANGED <<taken, amount>>
        \/ pc'[t] = "charge" /\ taken'[t] = {b} /\ amount'[t] = Footprint(b)
    BY <1>1, <2>1, <2>2, Zenon DEF Goto, LocalsTyped
  <2>4. /\ blocks[t] = {} /\ remaining[t] = 0 /\ total_size[t] \in Sizes \ {0} /\ scan[t] = 0
        /\ taken[t] = {} /\ amount[t] = 0
    BY <1>1, <2>1, Zenon DEF CallOK
  <2>5. CallOK(t)'
    BY <2>1, <2>3, <2>4 DEF CallOK, Footprint
  <2>6. ASSUME NEW u \in Threads \ {t} PROVE pc'[u] = pc[u] /\ taken'[u] = taken[u] /\ amount'[u] = amount[u]
    BY <1>1, <2>1, <2>6, Zenon DEF Goto, LocalsTyped
  <2>7. ASSUME NEW u \in Threads \ {t} PROVE SameLocals(u)
    BY <2>1, <2>6, <2>7, Zenon DEF SameLocals
  <2> QED
    BY <2>5, <2>7, Zenon
<1>5. CASE HeapUndo(t)
  <2>1. /\ pc[t] = "heap_undo" /\ pc'[t] = "assemble"
        /\ UNCHANGED <<total_size, scan, blocks, taken, amount, cur, alone>>
    BY <1>1, <1>5, Zenon DEF HeapUndo, At, Goto, LocalsTyped
  <2>2. CallOK(t)'
    BY <1>1, <2>1, Zenon DEF CallOK
  <2>3. ASSUME NEW u \in Threads \ {t} PROVE SameLocals(u)
    BY <1>1, <1>5, <2>3, Zenon DEF HeapUndo, Goto, LocalsTyped, SameLocals
  <2> QED
    BY <2>2, <2>3, Zenon
<1> QED
  BY <1>2, <1>3, <1>4, <1>5, Zenon

\* The steps that charge, give back and credit.
LEMMA ChargeCalls ==
    ASSUME CallInv, NEW t \in Threads,
           \/ \E bs \in SUBSET held : FreeBlocks(t, bs)
           \/ Charge(t) \/ Uncharge(t) \/ AllocateFails(t) \/ CreditLoad(t) \/ CreditSub(t)
    PROVE  CallOK(t)' /\ \A u \in Threads \ {t} : SameLocals(u)
<1>1. Typed /\ LocalsTyped /\ CallOK(t)
  BY TypedHalves, Zenon DEF CallInv, Calls
<1>2. CASE \E bs \in SUBSET held : FreeBlocks(t, bs)
  <2>1. PICK bs \in SUBSET held : FreeBlocks(t, bs)
    BY <1>2, Zenon
  <2>2. /\ pc[t] = "idle" /\ pc'[t] = "free"
        /\ taken'[t] = taken[t] /\ amount'[t] = amount[t] /\ remaining'[t] = remaining[t]
    BY <1>1, <2>1, Zenon DEF FreeBlocks, Begin, At, Goto, LocalsTyped
  <2>3. CallOK(t)'
    BY <1>1, <2>2 DEF CallOK
  <2>4. ASSUME NEW u \in Threads \ {t} PROVE SameLocals(u)
    BY <1>1, <2>1, <2>4, Zenon DEF FreeBlocks, Begin, Goto, LocalsTyped, SameLocals
  <2> QED
    BY <2>3, <2>4, Zenon
<1>3. CASE Charge(t)
  <2>1. /\ pc[t] = "charge" /\ remaining[t] \in Nat
        /\ pc'[t] = IF remaining[t] > 0 THEN "assemble" ELSE "ensure"
        /\ blocks'[t] = blocks[t] \cup taken[t] /\ taken'[t] = {} /\ amount'[t] = 0
        /\ UNCHANGED <<total_size, scan, remaining, cur, alone>>
    BY <1>1, <1>3, Zenon DEF Charge, At, Goto, LocalsTyped
  <2>2. /\ taken[t] # {}
        /\ remaining[t] > 0 => \A b \in blocks'[t] \cup taken'[t] : Aligned(b)
    BY <1>1, <2>1, Zenon DEF CallOK
  <2>3. CallOK(t)'
    BY <2>1, <2>2 DEF CallOK, Aligned, Footprint
  <2>4. ASSUME NEW u \in Threads \ {t} PROVE SameLocals(u)
    BY <1>1, <1>3, <2>4, Zenon DEF Charge, Goto, LocalsTyped, SameLocals
  <2> QED
    BY <2>3, <2>4, Zenon
<1>4. CASE Uncharge(t)
  <2>1. /\ pc[t] = "uncharge" /\ pc'[t] = "rollback" /\ amount'[t] = 0
        /\ UNCHANGED <<total_size, scan, blocks, taken, remaining, cur, alone>>
    BY <1>1, <1>4, Zenon DEF Uncharge, At, Goto, LocalsTyped
  <2>2. CallOK(t)'
    BY <1>1, <2>1, Zenon DEF CallOK, Aligned, Footprint
  <2>3. ASSUME NEW u \in Threads \ {t} PROVE SameLocals(u)
    BY <1>1, <1>4, <2>3, Zenon DEF Uncharge, Goto, LocalsTyped, SameLocals
  <2> QED
    BY <2>2, <2>3, Zenon
<1>5. CASE AllocateFails(t) \/ CreditSub(t)
  <2>1. Return(t) /\ pc[t] \in {"rollback", "credit"}
    BY <1>5, Zenon DEF AllocateFails, CreditSub, At
  <2>2. taken[t] = {}
    BY <1>1, <2>1, Zenon DEF CallOK
  <2> QED
    BY <1>1, <2>1, <2>2, ReturnCalls, Zenon
<1>6. CASE CreditLoad(t)
  <2>1. /\ pc[t] = "free" /\ pc'[t] = "credit" /\ blocks[t] = {}
        /\ UNCHANGED <<total_size, scan, blocks, taken, remaining, amount, alone>>
    BY <1>1, <1>6, Zenon DEF CreditLoad, At, Goto, LocalsTyped
  <2>2. CallOK(t)'
    BY <1>1, <2>1, Zenon DEF CallOK
  <2>3. ASSUME NEW u \in Threads \ {t} PROVE SameLocals(u)
    BY <1>1, <1>6, <2>3, Zenon DEF CreditLoad, Goto, LocalsTyped, SameLocals
  <2> QED
    BY <2>2, <2>3, Zenon
<1> QED
  BY <1>2, <1>3, <1>4, <1>5, <1>6, Zenon

\* The steps that back the blocks of a call with file.
LEMMA EnsureCalls ==
    ASSUME CallInv, NEW t \in Threads,
           \/ EnsureBacked(t) \/ EnsureWaits(t) \/ GrowLock(t)
           \/ GrowTruncate(t) \/ GrowPublish(t) \/ GrowFails(t)
    PROVE  CallOK(t)' /\ \A u \in Threads \ {t} : SameLocals(u)
<1>1. LocalsTyped /\ CallOK(t)
  BY TypedHalves, Zenon DEF CallInv, Calls
<1>2. pc[t] \in {"ensure", "lock", "grow", "publish"}
  BY Zenon DEF EnsureBacked, EnsureWaits, GrowLock, GrowTruncate, GrowPublish, GrowFails, At
<1>3. taken[t] = {}
  BY <1>1, <1>2, Zenon DEF CallOK
<1>4. CASE Return(t)
  BY <1>1, <1>3, <1>4, ReturnCalls, Zenon
<1>5. CASE \E l \in {"lock", "grow", "publish", "free"} :
             /\ pc[t] \in {"ensure", "lock", "grow"} /\ Goto(t, l)
             /\ UNCHANGED <<total_size, scan, blocks, taken, remaining, amount, cur, alone>>
  BY <1>1, <1>5, GotoCalls, Zenon
<1> QED
  BY <1>4, <1>5, Zenon DEF EnsureBacked, EnsureWaits, GrowLock, GrowTruncate, GrowPublish,
                           GrowFails, Deliver, At

\* The actions of one thread.
Does(t) ==
    \/ \E size \in Sizes : AllocateBlocks(t, size)
    \/ \E bs \in SUBSET held : FreeBlocks(t, bs)
    \/ Step(t)

\* Who takes a step keeps its own call right and touches no other.
LEMMA CallsStep ==
    ASSUME CallInv, NEW t \in Threads, Does(t)
    PROVE  CallOK(t)' /\ \A u \in Threads \ {t} : SameLocals(u)
<1>1. CASE \/ \E size \in Sizes : AllocateBlocks(t, size)
           \/ ReuseMissed(t) \/ AssembleMissed(t) \/ HeapAdd(t) \/ HeapUndo(t)
  BY <1>1, SearchCalls, Zenon
<1>2. CASE ReuseFound(t) \/ AssembleFound(t)
  BY <1>2, ReuseTakes, AssembleTakes, TakingCalls, Zenon
<1>3. CASE RollbackFree(t) \/ FreeOne(t)
  BY <1>3, FreeingCalls, Zenon
<1>4. CASE \/ \E bs \in SUBSET held : FreeBlocks(t, bs)
           \/ Charge(t) \/ Uncharge(t) \/ AllocateFails(t) \/ CreditLoad(t) \/ CreditSub(t)
  BY <1>4, ChargeCalls, Zenon
<1>5. CASE \/ EnsureBacked(t) \/ EnsureWaits(t) \/ GrowLock(t)
           \/ GrowTruncate(t) \/ GrowPublish(t) \/ GrowFails(t)
  BY <1>5, EnsureCalls, Zenon
<1> QED
  BY <1>1, <1>2, <1>3, <1>4, <1>5, Zenon DEF Does, Step

\* A call that is not touched stays right.
LEMMA SameCalls ==
    ASSUME NEW u \in Threads, CallOK(u), SameLocals(u)
    PROVE  CallOK(u)'
BY Zenon DEF CallOK, SameLocals, Aligned, Footprint

\* Only the failed reservations of Heap::Allocate are in Reserved.
LEMMA ReservedKept ==
    ASSUME NEW t \in Threads, \A u \in Threads \ {t} : SameLocals(u),
           pc[t] # "heap_undo", pc'[t] # "heap_undo"
    PROVE  Reserved' = Reserved /\ Undoing' = Undoing
<1>1. Undoing' = Undoing
  BY Zenon DEF Undoing, SameLocals
<1>2. \A u \in Undoing : Request'[u] = Request[u]
  BY Zenon DEF Undoing, Request, SameLocals
<1>3. Tags(Undoing, Request') = Tags(Undoing, Request)
  BY <1>2, TagsSame, Zenon
<1>4. Reserved' = Tags(Undoing', Request')
  BY ReservedTags, Zenon
<1> QED
  BY <1>1, <1>3, <1>4, ReservedTags, Zenon

\* A reservation that fails.
LEMMA HeapAddFails ==
    ASSUME CallInv, NEW t \in Threads, HeapAdd(t), heap + AlignSize(total_size[t]) > Capacity
    PROVE  /\ IsFiniteSet(Reserved') /\ heap' = heap + AlignSize(total_size[t])
           /\ Cardinality(Reserved') = Cardinality(Reserved) + AlignSize(total_size[t])
           /\ UNCHANGED <<held, blocks, taken, maps>> /\ pc'[t] = "heap_undo"
<1>1. LocalsTyped
  BY TypedHalves, Zenon DEF CallInv
<1>2. /\ pc[t] = "heap" /\ pc' = [pc EXCEPT ![t] = "heap_undo"] /\ total_size' = total_size
      /\ heap' = heap + AlignSize(total_size[t]) /\ UNCHANGED <<held, blocks, taken, maps>>
  BY Zenon DEF HeapAdd, At, Goto
<1>3. pc'[t] = "heap_undo" /\ \A u \in Threads \ {t} : pc'[u] = pc[u]
  BY <1>1, <1>2, Zenon DEF LocalsTyped
<1>4. Undoing' = Undoing \cup {t} /\ t \notin Undoing
  BY <1>2, <1>3, Zenon DEF Undoing
<1>5. Request' = Request /\ Request[t] = AlignSize(total_size[t])
  BY <1>2, Zenon DEF Request
<1>6. Request[t] \in Nat
  BY <1>1, <1>5, AlignType, Zenon DEF LocalsTyped
<1>7. IsFiniteSet(Tags(Undoing, Request))
  BY ReservedTags, Zenon DEF CallInv, ReservedInHeap
<1>8. /\ IsFiniteSet(Tags(Undoing \cup {t}, Request))
      /\ Cardinality(Tags(Undoing \cup {t}, Request)) = Cardinality(Tags(Undoing, Request)) + Request[t]
  <2>1. t \notin Undoing /\ \A u \in Undoing : Request[u] = Request[u]
    BY <1>4, Zenon
  <2> QED
    BY <2>1, <1>6, <1>7, TagsAdd, SMTT(30)
<1>9. Reserved' = Tags(Undoing', Request')
  BY ReservedTags, Zenon
<1>10. Reserved' = Tags(Undoing \cup {t}, Request)
  BY <1>4, <1>5, <1>9, Zenon
<1> QED
  BY <1>2, <1>3, <1>5, <1>8, <1>10, ReservedTags, Zenon

\* A reservation that succeeds.
LEMMA HeapAddSucceeds ==
    ASSUME CallInv, NEW t \in Threads, HeapAdd(t), ~(heap + AlignSize(total_size[t]) > Capacity)
    PROVE  /\ Reserved' = Reserved /\ Undoing' = Undoing /\ heap' = heap + AlignSize(total_size[t])
           /\ \E b \in DeviceBlock :
                 /\ taken' = [taken EXCEPT ![t] = {b}]
                 /\ b.offset = heap /\ Footprint(b) = AlignSize(total_size[t])
           /\ UNCHANGED <<held, blocks, maps>> /\ pc'[t] = "charge"
<1> DEFINE n == AlignSize(total_size[t])
           b == Block(heap, total_size[t], FindBlockType(n))
<1>1. Typed /\ LocalsTyped
  BY TypedHalves, Zenon DEF CallInv
<1>2. /\ pc[t] = "heap" /\ pc' = [pc EXCEPT ![t] = "charge"] /\ heap' = heap + n
      /\ taken' = [taken EXCEPT ![t] = {b}] /\ UNCHANGED <<held, blocks, maps>>
  BY Zenon DEF HeapAdd, At, Goto
<1>3. pc'[t] = "charge"
  BY <1>1, <1>2, Zenon DEF LocalsTyped
<1>4. \A u \in Threads \ {t} : SameLocals(u)
  BY SearchCalls, Zenon
<1>5. Reserved' = Reserved /\ Undoing' = Undoing
  <2>1. pc[t] # "heap_undo" /\ pc'[t] # "heap_undo"
    BY <1>2, <1>3, Zenon
  <2> QED
    BY <1>4, <2>1, ReservedKept, Zenon
<1>6. total_size[t] \in Nat /\ total_size[t] > 0 /\ n \in Nat /\ heap \in Nat /\ Capacity \in Nat
  <2>1. total_size[t] \in Nat /\ heap \in Nat
    BY <1>1, Zenon DEF Typed
  <2>2. total_size[t] \in Sizes \ {0}
    BY <1>2, Zenon DEF CallInv, Calls, CallOK
  <2>3. total_size[t] # 0
    BY <2>2, Zenon
  <2>4. total_size[t] > 0
    BY <2>1, <2>3
  <2>5. n \in Nat /\ Capacity \in Nat
    BY <2>1, AlignType, AllocatorAssumption, Zenon
  <2> QED
    BY <2>1, <2>4, <2>5, Zenon
<1>7. FindBlockType(n) \in Categories
  BY <1>6, CategoryType, Zenon
<1>8. heap + n <= Capacity
  BY <1>6
<1>9. b \in DeviceBlock /\ b.offset = heap /\ Footprint(b) = n
  BY <1>6, <1>7, <1>8, DeviceBlockType, ZenonT(30)
<1> QED
  BY <1>2, <1>3, <1>5, <1>9, Zenon

\* A failed reservation is taken back.
LEMMA HeapUndone ==
    ASSUME CallInv, NEW t \in Threads, HeapUndo(t)
    PROVE  /\ IsFiniteSet(Reserved') /\ heap' = heap - AlignSize(total_size[t])
           /\ Cardinality(Reserved) = Cardinality(Reserved') + AlignSize(total_size[t])
           /\ UNCHANGED <<held, blocks, taken, maps>> /\ pc'[t] = "assemble"
<1>1. LocalsTyped
  BY TypedHalves, Zenon DEF CallInv
<1>2. /\ pc[t] = "heap_undo" /\ pc' = [pc EXCEPT ![t] = "assemble"] /\ total_size' = total_size
      /\ heap' = heap - AlignSize(total_size[t]) /\ UNCHANGED <<held, blocks, taken, maps>>
  BY Zenon DEF HeapUndo, At, Goto
<1>3. pc'[t] = "assemble" /\ \A u \in Threads \ {t} : pc'[u] = pc[u]
  BY <1>1, <1>2, Zenon DEF LocalsTyped
<1>4. Undoing' = Undoing \ {t} /\ t \in Undoing
  BY <1>2, <1>3, Zenon DEF Undoing
<1>5. Request' = Request /\ Request[t] = AlignSize(total_size[t])
  BY <1>2, Zenon DEF Request
<1>6. Request[t] \in Nat
  BY <1>1, <1>5, AlignType, Zenon DEF LocalsTyped
<1>7. IsFiniteSet(Tags(Undoing, Request))
  BY ReservedTags, Zenon DEF CallInv, ReservedInHeap
<1>8. /\ IsFiniteSet(Tags(Undoing \ {t}, Request))
      /\ Cardinality(Tags(Undoing, Request)) = Cardinality(Tags(Undoing \ {t}, Request)) + Request[t]
  BY <1>4, <1>6, <1>7, TagsRemove, Zenon
<1>9. Reserved' = Tags(Undoing', Request')
  BY ReservedTags, Zenon
<1>10. Reserved' = Tags(Undoing \ {t}, Request)
  BY <1>4, <1>5, <1>9, Zenon
<1> QED
  BY <1>2, <1>3, <1>5, <1>8, <1>10, ReservedTags, Zenon

\* The other steps have nothing to do with heap_.
LEMMA HeapKept ==
    ASSUME CallInv, NEW t \in Threads, Does(t), ~HeapAdd(t), ~HeapUndo(t)
    PROVE  heap' = heap /\ Reserved' = Reserved /\ Undoing' = Undoing
<1>1. LocalsTyped
  BY TypedHalves, Zenon DEF CallInv
<1>2. \A l \in Labels : Goto(t, l) => pc'[t] = l
  BY <1>1, Zenon DEF Goto, LocalsTyped
<1>3. {"idle", "reuse", "heap", "assemble", "charge", "rollback", "uncharge", "ensure", "lock",
       "grow", "publish", "free", "credit"} \subseteq Labels
  BY Zenon DEF Labels
<1>4. ASSUME NEW l \in Labels, l # "heap_undo", Goto(t, l) PROVE pc'[t] # "heap_undo"
  BY <1>2, <1>4, Zenon
<1>5. CASE (\E size \in Sizes : AllocateBlocks(t, size)) \/ (\E bs \in SUBSET held : FreeBlocks(t, bs))
  <2>1. heap' = heap /\ pc[t] = "idle" /\ (Goto(t, "reuse") \/ Goto(t, "free"))
    BY <1>5, Zenon DEF AllocateBlocks, FreeBlocks, Begin, At, space
  <2> QED
    BY <2>1, <1>3, <1>4, CallsStep, ReservedKept, Zenon
<1>6. CASE ReuseFound(t) \/ AssembleFound(t)
  <2>1. heap' = heap /\ pc[t] \in {"reuse", "assemble"} /\ Goto(t, "charge")
    BY <1>6, Zenon DEF ReuseFound, AssembleFound, At
  <2> QED
    BY <2>1, <1>3, <1>4, CallsStep, ReservedKept, Zenon
<1>7. CASE ReuseMissed(t) \/ AssembleMissed(t)
  <2>1. /\ heap' = heap /\ pc[t] \in {"reuse", "assemble"}
        /\ UNCHANGED pc \/ Goto(t, "heap") \/ Goto(t, "rollback")
    BY <1>7, Zenon DEF ReuseMissed, AssembleMissed, At, space
  <2> QED
    BY <2>1, <1>3, <1>4, CallsStep, ReservedKept, Zenon
<1>8. CASE Charge(t) \/ Uncharge(t) \/ CreditLoad(t)
  <2>1. /\ heap' = heap /\ pc[t] \in {"charge", "uncharge", "free"}
        /\ Goto(t, "assemble") \/ Goto(t, "ensure") \/ Goto(t, "rollback") \/ Goto(t, "credit")
    BY <1>8, Zenon DEF Charge, Uncharge, CreditLoad, At, space
  <2> QED
    BY <2>1, <1>3, <1>4, CallsStep, ReservedKept, Zenon
<1>9. CASE RollbackFree(t) \/ FreeOne(t)
  <2>1. heap' = heap /\ pc[t] \in {"rollback", "free"} /\ (UNCHANGED pc \/ Goto(t, "uncharge"))
    BY <1>9, Zenon DEF RollbackFree, FreeOne, At
  <2> QED
    BY <2>1, <1>3, <1>4, CallsStep, ReservedKept, Zenon
<1>10. CASE AllocateFails(t) \/ CreditSub(t) \/ EnsureBacked(t) \/ GrowPublish(t)
  <2>1. /\ heap' = heap /\ pc[t] \in {"rollback", "credit", "ensure", "publish"} /\ Goto(t, "idle")
    BY <1>10, Zenon DEF AllocateFails, CreditSub, EnsureBacked, GrowPublish, Deliver, Return, At, space
  <2> QED
    BY <2>1, <1>3, <1>4, CallsStep, ReservedKept, Zenon
<1>11. CASE EnsureWaits(t) \/ GrowLock(t) \/ GrowTruncate(t) \/ GrowFails(t)
  <2>1. /\ heap' = heap /\ pc[t] \in {"ensure", "lock", "grow"}
        /\ \/ Goto(t, "idle") \/ Goto(t, "lock") \/ Goto(t, "grow")
           \/ Goto(t, "publish") \/ Goto(t, "free")
    BY <1>11, Zenon DEF EnsureWaits, GrowLock, GrowTruncate, GrowFails, Deliver, Return, At, space
  <2> QED
    BY <2>1, <1>3, <1>4, CallsStep, ReservedKept, Zenon
<1> QED
  BY <1>5, <1>6, <1>7, <1>8, <1>9, <1>10, <1>11, Zenon DEF Does, Step

\* What a step of Next is.
LEMMA NextDoes ==
    ASSUME Next
    PROVE  \E t \in Threads : Does(t)
BY Zenon DEF Next, Does

\* The calls stay right.
LEMMA CallInvStep ==
    ASSUME CallInv, [Next]_vars
    PROVE  CallInv'
<1>1. CASE Next
  <2>1. PICK t \in Threads : Does(t)
    BY <1>1, NextDoes, Zenon
  <2>2. Typed'
    BY <1>1, TypedStep, Zenon
  <2>3. Calls'
    <3>1. ASSUME NEW u \in Threads PROVE CallOK(u)'
      <4>1. CASE u = t
        BY <4>1, <2>1, CallsStep, Zenon
      <4>2. CASE u # t
        <5>1. CallOK(u) /\ SameLocals(u)
          BY <4>2, <2>1, CallsStep, Zenon DEF CallInv, Calls
        <5> QED
          BY <5>1, SameCalls, Zenon
      <4> QED
        BY <4>1, <4>2, Zenon
    <3> QED
      BY <3>1, Zenon DEF Calls
  <2>4. ReservedInHeap'
    <3>1. /\ IsFiniteSet(Reserved) /\ Cardinality(Reserved) <= heap /\ heap \in Nat
          /\ Cardinality(Reserved) \in Nat /\ AlignSize(total_size[t]) \in Nat
      <4>1. IsFiniteSet(Reserved) /\ Cardinality(Reserved) <= heap /\ heap \in Nat /\ total_size[t] \in Nat
        BY Zenon DEF CallInv, ReservedInHeap, Typed
      <4> QED
        BY <4>1, FS_CardinalityType, AlignType, Zenon
    <3>2. CASE HeapAdd(t) /\ heap + AlignSize(total_size[t]) > Capacity
      BY <3>1, <3>2, HeapAddFails DEF ReservedInHeap
    <3>3. CASE HeapAdd(t) /\ ~(heap + AlignSize(total_size[t]) > Capacity)
      BY <3>1, <3>3, HeapAddSucceeds DEF ReservedInHeap
    <3>4. CASE HeapUndo(t)
      <4>1. /\ IsFiniteSet(Reserved') /\ heap' = heap - AlignSize(total_size[t])
            /\ Cardinality(Reserved) = Cardinality(Reserved') + AlignSize(total_size[t])
        BY <3>4, HeapUndone, Zenon
      <4>2. Cardinality(Reserved') \in Nat
        BY <4>1, FS_CardinalityType, Zenon
      <4>3. Cardinality(Reserved') <= heap'
        BY <3>1, <4>1, <4>2
      <4> QED
        BY <4>1, <4>3, Zenon DEF ReservedInHeap
    <3>5. CASE ~HeapAdd(t) /\ ~HeapUndo(t)
      <4>1. heap' = heap /\ Reserved' = Reserved
        BY <2>1, <3>5, HeapKept, Zenon
      <4> QED
        BY <3>1, <4>1, Zenon DEF ReservedInHeap
    <3> QED
      BY <3>2, <3>3, <3>4, <3>5, Zenon
  <2> QED
    BY <2>2, <2>3, <2>4, Zenon DEF CallInv
<1>2. CASE UNCHANGED vars
  <2>1. /\ UNCHANGED <<heap, allocated_bytes, maps, file, file_backed_bytes, grow_mu, faults, held>>
        /\ UNCHANGED <<pc, total_size, scan, blocks, taken, remaining, amount, cur, alone>>
    BY <1>2, Zenon DEF vars, space, backing
  <2>2. Typed'
    BY <2>1, Zenon DEF CallInv, Typed
  <2>3. \A u \in Threads : SameLocals(u)
    BY <2>1, Zenon DEF SameLocals
  <2>4. Calls'
    BY <2>3, SameCalls, Zenon DEF CallInv, Calls
  <2>5. Reserved' = Reserved
    BY <2>1, Zenon DEF Reserved, At
  <2> QED
    BY <2>1, <2>2, <2>4, <2>5, Zenon DEF CallInv, ReservedInHeap
<1> QED
  BY <1>1, <1>2, Zenon

\* The calls are right at the start.
LEMMA CallInvInit ==
    ASSUME Init
    PROVE  CallInv
<1>1. Typed
  <2>1. file \in Nat
    <3>1. PICK existing \in Existing : file = InitialFile(existing)
      BY Zenon DEF Init
    <3> QED
      BY <3>1, AllocatorAssumption, Zenon DEF InitialFile
  <2>2. file_backed_bytes \in Nat
    <3>1. Min({file, Capacity}) = IF file <= Capacity THEN file ELSE Capacity
      BY <2>1, MinPair, AllocatorAssumption
    <3> QED
      BY <2>1, <3>1, AllocatorAssumption, Zenon DEF Init
  <2>3. maps \in [Maps -> [Categories -> Seq(FreeListBlock)]]
    <3>1. << >> \in Seq(FreeListBlock)
      OBVIOUS
    <3> QED
      BY <3>1, Zenon DEF Init
  <2>4. 0 \in Maps /\ "idle" \in Labels /\ 0 \in 0..MaxFaults /\ 0 \in Nat /\ 0 \in Int
    BY AllocatorAssumption DEF Maps, Labels
  <2>5. SharedTyped
    BY <2>1, <2>2, <2>3, <2>4, Zenon DEF Init, SharedTyped
  <2>6. LocalsTyped
    BY <2>4, Zenon DEF Init, LocalsTyped
  <2> QED
    BY <2>5, <2>6, TypedHalves, Zenon
<1>2. Calls
  <2>1. ASSUME NEW t \in Threads
        PROVE  pc[t] = "idle" /\ blocks[t] = {} /\ taken[t] = {} /\ amount[t] = 0 /\ remaining[t] = 0
    BY Zenon DEF Init
  <2> QED
    BY <2>1, Zenon DEF Calls, CallOK
<1>3. ReservedInHeap
  <2>1. Undoing = {}
    BY Zenon DEF Init, Undoing
  <2>2. IsFiniteSet(Reserved) /\ Cardinality(Reserved) = 0
    BY <2>1, ReservedTags, TagsNone, Zenon
  <2> QED
    BY <2>2 DEF ReservedInHeap, Init
<1> QED
  BY <1>1, <1>2, <1>3, Zenon DEF CallInv

-----------------------------------------------------------------------------
(* The backing file.                                                        *)

\* What callers own lies below the watermark, the watermark inside the file,
\* and the one thread that grows the file grows it past the watermark.
Backed ==
    /\ file_backed_bytes <= file
    /\ \A b \in held : b.offset + b.size <= file_backed_bytes
    /\ \A t \in Threads :
          /\ pc[t] \in {"grow", "publish"} => /\ grow_mu = {t}
                                              /\ EndOf(blocks[t]) > file_backed_bytes
          /\ pc[t] = "publish" => file = GrowTarget(EndOf(blocks[t]))

Grows(t) ==
    EnsureBacked(t) \/ GrowLock(t) \/ GrowTruncate(t) \/ GrowPublish(t) \/ GrowFails(t)

\* The other steps leave the file alone and deliver nothing.
LEMMA FileKept ==
    ASSUME CallInv, NEW t \in Threads, Does(t), ~Grows(t)
    PROVE  /\ UNCHANGED <<file, file_backed_bytes, grow_mu>> /\ held' \subseteq held
           /\ pc'[t] \notin {"grow", "publish"}
<1>1. LocalsTyped
  BY TypedHalves, Zenon DEF CallInv
<1>2. \A l \in Labels : Goto(t, l) => pc'[t] = l
  BY <1>1, Zenon DEF Goto, LocalsTyped
<1>3. {"idle", "reuse", "heap", "heap_undo", "assemble", "charge", "rollback", "uncharge", "ensure",
       "lock", "free", "credit"} \subseteq Labels
  BY Zenon DEF Labels
<1>4. ASSUME NEW l \in Labels, l \notin {"grow", "publish"}, Goto(t, l)
      PROVE  pc'[t] \notin {"grow", "publish"}
  BY <1>2, <1>4, Zenon
<1>5. CASE (\E size \in Sizes : AllocateBlocks(t, size)) \/ (\E bs \in SUBSET held : FreeBlocks(t, bs))
  <2>1. /\ UNCHANGED <<file, file_backed_bytes, grow_mu>> /\ held' \subseteq held
        /\ Goto(t, "reuse") \/ Goto(t, "free")
    BY <1>5, Zenon DEF AllocateBlocks, FreeBlocks, Begin, backing
  <2> QED
    BY <2>1, <1>3, <1>4, Zenon
<1>6. CASE ReuseFound(t) \/ AssembleFound(t) \/ HeapAdd(t) \/ HeapUndo(t)
  <2>1. /\ UNCHANGED <<file, file_backed_bytes, grow_mu>> /\ held' = held
        /\ Goto(t, "charge") \/ Goto(t, "heap_undo") \/ Goto(t, "assemble")
    BY <1>6, Zenon DEF ReuseFound, AssembleFound, HeapAdd, HeapUndo, backing
  <2> QED
    BY <2>1, <1>3, <1>4, Zenon
<1>7. CASE ReuseMissed(t) \/ AssembleMissed(t)
  <2>1. /\ UNCHANGED <<file, file_backed_bytes, grow_mu>> /\ held' = held
        /\ pc[t] \in {"reuse", "assemble"}
        /\ UNCHANGED pc \/ Goto(t, "heap") \/ Goto(t, "rollback")
    BY <1>7, Zenon DEF ReuseMissed, AssembleMissed, At, backing
  <2> QED
    BY <2>1, <1>3, <1>4, Zenon
<1>8. CASE Charge(t) \/ Uncharge(t) \/ CreditLoad(t) \/ EnsureWaits(t)
  <2>1. /\ UNCHANGED <<file, file_backed_bytes, grow_mu>> /\ held' = held
        /\ \/ Goto(t, "assemble") \/ Goto(t, "ensure") \/ Goto(t, "rollback")
           \/ Goto(t, "credit") \/ Goto(t, "lock")
    BY <1>8, Zenon DEF Charge, Uncharge, CreditLoad, EnsureWaits, backing
  <2> QED
    BY <2>1, <1>3, <1>4, Zenon
<1>9. CASE RollbackFree(t) \/ FreeOne(t)
  <2>1. /\ UNCHANGED <<file, file_backed_bytes, grow_mu>> /\ held' = held
        /\ (UNCHANGED pc /\ pc[t] = "free") \/ Goto(t, "uncharge")
    BY <1>9, Zenon DEF RollbackFree, FreeOne, At, backing
  <2> QED
    BY <2>1, <1>3, <1>4, Zenon
<1>10. CASE AllocateFails(t) \/ CreditSub(t)
  <2>1. UNCHANGED <<file, file_backed_bytes, grow_mu>> /\ held' = held /\ Goto(t, "idle")
    BY <1>10, Zenon DEF AllocateFails, CreditSub, Return, backing
  <2> QED
    BY <2>1, <1>3, <1>4, Zenon
<1> QED
  BY <1>5, <1>6, <1>7, <1>8, <1>9, <1>10, Zenon DEF Does, Step, Grows

\* The blocks of a call that is being backed.
LEMMA GrowEnd ==
    ASSUME CallInv, NEW t \in Threads, pc[t] \in {"ensure", "lock", "grow", "publish"}
    PROVE  /\ EndOf(blocks[t]) \in Nat /\ EndOf(blocks[t]) <= Capacity
           /\ \A b \in blocks[t] : b.offset + b.size <= EndOf(blocks[t]) /\ b.offset + b.size \in Nat
           /\ GrowTarget(EndOf(blocks[t])) \in Nat
           /\ GrowTarget(EndOf(blocks[t])) >= EndOf(blocks[t])
<1>1. blocks[t] # {} /\ blocks[t] \in SUBSET DeviceBlock
  BY Zenon DEF CallInv, Calls, CallOK, Typed
<1>2. /\ EndOf(blocks[t]) \in Nat /\ EndOf(blocks[t]) <= Capacity
      /\ \A b \in blocks[t] : b.offset + b.size <= EndOf(blocks[t])
  BY <1>1, EndOfType, Zenon
<1>3. \A b \in blocks[t] : b.offset + b.size \in Nat
  BY <1>1, FootprintType
<1> QED
  BY <1>2, <1>3, GrowTargetType, Zenon

\* The file stays right.
LEMMA BackedStep ==
    ASSUME CallInv, Backed, [Next]_vars
    PROVE  Backed'
<1>1. Typed /\ LocalsTyped
  BY TypedHalves, Zenon DEF CallInv
<1>2. file \in Nat /\ file_backed_bytes \in Nat /\ held \in SUBSET DeviceBlock
  BY <1>1, Zenon DEF Typed
<1>3. CASE UNCHANGED vars
  <2>1. UNCHANGED <<file, file_backed_bytes, held, pc, grow_mu, blocks>>
    BY <1>3, Zenon DEF vars, backing
  <2> QED
    BY <2>1, Zenon DEF Backed
<1>4. ASSUME NEW t \in Threads, Does(t) PROVE Backed'
  <2>1. \A u \in Threads \ {t} : pc'[u] = pc[u] /\ blocks'[u] = blocks[u]
    BY <1>4, CallsStep, Zenon DEF SameLocals
  <2>2. CASE ~Grows(t)
    <3>1. /\ UNCHANGED <<file, file_backed_bytes, grow_mu>> /\ held' \subseteq held
          /\ pc'[t] \notin {"grow", "publish"}
      BY <1>4, <2>2, FileKept, Zenon
    <3> QED
      BY <2>1, <3>1, Zenon DEF Backed
  <2>3. ASSUME Deliver(t), UNCHANGED <<file, file_backed_bytes, grow_mu>>,
               pc[t] \in {"ensure", "lock"}, EndOf(blocks[t]) <= file_backed_bytes
        PROVE  Backed'
    <3>1. held' = held \cup blocks[t] /\ pc'[t] = "idle"
      BY <1>1, <2>3, Zenon DEF Deliver, Return, Goto, LocalsTyped
    <3>2. \A b \in blocks[t] : b.offset + b.size <= file_backed_bytes
      BY <1>2, <2>3, GrowEnd
    <3>3. \A b \in held' : b.offset + b.size <= file_backed_bytes'
      BY <2>3, <3>1, <3>2, Zenon DEF Backed
    <3>4. pc'[t] \notin {"grow", "publish"}
      BY <3>1, Zenon
    <3> QED
      BY <2>1, <2>3, <3>3, <3>4, Zenon DEF Backed
  <2>4. CASE EnsureBacked(t)
    <3>1. /\ Deliver(t) /\ UNCHANGED <<file, file_backed_bytes, grow_mu>>
          /\ pc[t] = "ensure" /\ EndOf(blocks[t]) <= file_backed_bytes
      BY <2>4, Zenon DEF EnsureBacked, At, backing
    <3> QED
      BY <3>1, <2>3, Zenon
  <2>5. CASE GrowLock(t)
    <3>1. pc[t] = "lock" /\ grow_mu = {} /\ UNCHANGED <<file, file_backed_bytes>>
      BY <2>5, Zenon DEF GrowLock, At
    <3>2. CASE EndOf(blocks[t]) <= file_backed_bytes /\ Deliver(t) /\ UNCHANGED grow_mu
      BY <3>1, <3>2, <2>3, Zenon
    <3>3. CASE /\ EndOf(blocks[t]) > file_backed_bytes /\ grow_mu' = {t} /\ Goto(t, "grow")
               /\ UNCHANGED <<held, blocks>>
      <4>1. pc'[t] = "grow"
        BY <1>1, <3>3, Zenon DEF Goto, LocalsTyped
      <4>2. \A u \in Threads : pc[u] \notin {"grow", "publish"}
        BY <3>1, Zenon DEF Backed
      <4>3. \A u \in Threads \ {t} : pc'[u] \notin {"grow", "publish"}
        BY <2>1, <4>2, Zenon
      <4>4. pc'[t] # "publish"
        BY <4>1, Zenon
      <4> QED
        BY <3>1, <3>3, <4>1, <4>3, <4>4, Zenon DEF Backed
    <3> QED
      BY <2>5, <3>2, <3>3, Zenon DEF GrowLock
  <2>6. ASSUME NEW u \in Threads \ {t}, pc[t] \in {"grow", "publish"}
        PROVE  pc'[u] \notin {"grow", "publish"}
    <3>1. pc[u] \notin {"grow", "publish"}
      BY <2>6, Zenon DEF Backed
    <3> QED
      BY <2>1, <3>1, Zenon
  <2>7. CASE GrowTruncate(t)
    <3>1. /\ pc[t] = "grow" /\ file' = GrowTarget(EndOf(blocks[t])) /\ Goto(t, "publish")
          /\ UNCHANGED <<file_backed_bytes, grow_mu, held, blocks>>
      BY <2>7, Zenon DEF GrowTruncate, At
    <3>2. pc'[t] = "publish"
      BY <1>1, <3>1, Zenon DEF Goto, LocalsTyped
    <3>3. grow_mu = {t} /\ EndOf(blocks[t]) > file_backed_bytes
      BY <3>1, Zenon DEF Backed
    <3>4. file_backed_bytes' <= file'
      BY <1>2, <3>1, <3>3, GrowEnd
    <3>5. \A u \in Threads \ {t} : pc'[u] \notin {"grow", "publish"}
      BY <2>6, <3>1, Zenon
    <3> QED
      BY <3>1, <3>2, <3>3, <3>4, <3>5, Zenon DEF Backed
  <2>8. CASE GrowPublish(t)
    <3>1. /\ pc[t] = "publish" /\ file_backed_bytes' = GrowTarget(EndOf(blocks[t]))
          /\ held' = held \cup blocks[t] /\ Return(t) /\ UNCHANGED file
      BY <2>8, Zenon DEF GrowPublish, Deliver, At
    <3>2. pc'[t] = "idle"
      BY <1>1, <3>1, Zenon DEF Return, Goto, LocalsTyped
    <3>3. /\ file = GrowTarget(EndOf(blocks[t])) /\ EndOf(blocks[t]) > file_backed_bytes
          /\ \A b \in held : b.offset + b.size <= file_backed_bytes
      BY <3>1, Zenon DEF Backed
    <3>4. /\ GrowTarget(EndOf(blocks[t])) \in Nat /\ EndOf(blocks[t]) \in Nat
          /\ GrowTarget(EndOf(blocks[t])) >= EndOf(blocks[t])
          /\ \A b \in blocks[t] : b.offset + b.size <= EndOf(blocks[t]) /\ b.offset + b.size \in Nat
      BY <3>1, GrowEnd, Zenon
    <3>5. \A b \in held : b.offset + b.size \in Nat
      BY <1>2, FootprintType
    <3>6. \A b \in held' : b.offset + b.size <= file_backed_bytes'
      <4>1. ASSUME NEW b \in held PROVE b.offset + b.size <= file_backed_bytes'
        BY SMTT(30), <1>2, <3>1, <3>3, <3>4, <3>5
      <4>2. ASSUME NEW b \in blocks[t] PROVE b.offset + b.size <= file_backed_bytes'
        BY <3>1, <3>4
      <4> QED
        BY <3>1, <4>1, <4>2, Zenon
    <3>7. file_backed_bytes' <= file'
      BY <3>1, <3>3, <3>4
    <3>8. \A u \in Threads : pc'[u] \notin {"grow", "publish"}
      BY <2>6, <3>1, <3>2, Zenon
    <3> QED
      BY <3>6, <3>7, <3>8, Zenon DEF Backed
  <2>9. CASE GrowFails(t)
    <3>1. /\ pc[t] = "grow" /\ Goto(t, "free")
          /\ UNCHANGED <<file, file_backed_bytes, held, blocks>>
      BY <2>9, Zenon DEF GrowFails, At
    <3>2. pc'[t] = "free"
      BY <1>1, <3>1, Zenon DEF Goto, LocalsTyped
    <3>3. \A u \in Threads : pc'[u] \notin {"grow", "publish"}
      BY <2>6, <3>1, <3>2, Zenon
    <3> QED
      BY <3>1, <3>3, Zenon DEF Backed
  <2> QED
    BY <2>2, <2>4, <2>5, <2>7, <2>8, <2>9, Zenon DEF Grows
<1> QED
  BY <1>3, <1>4, NextDoes, Zenon

\* The file is right at the start.
LEMMA BackedInit ==
    ASSUME Init
    PROVE  Backed
<1>1. file \in Nat /\ Capacity \in Nat
  BY CallInvInit, AllocatorAssumption, Zenon DEF CallInv, Typed
<1>2. file_backed_bytes <= file
  <2>1. Min({file, Capacity}) = IF file <= Capacity THEN file ELSE Capacity
    BY <1>1, MinPair
  <2> QED
    BY <1>1, <2>1 DEF Init
<1>3. \A t \in Threads : pc[t] \notin {"grow", "publish"}
  BY Zenon DEF Init
<1> QED
  BY <1>2, <1>3, Zenon DEF Backed, Init

\* A block a caller owns lies inside the backing file (EnsureFileBacked), for
\* all threads, sizes, capacities and growth units.
THEOREM BackedBlocks == Spec => []BackedBeforeUse
<1>1. Init => CallInv /\ Backed
  BY CallInvInit, BackedInit, Zenon
<1>2. CallInv /\ Backed /\ [Next]_vars => (CallInv /\ Backed)'
  BY CallInvStep, BackedStep, Zenon
<1>3. CallInv /\ Backed => BackedBeforeUse
  <2> SUFFICES ASSUME CallInv, Backed PROVE BackedBeforeUse
    BY Zenon
  <2>1. file \in Nat /\ file_backed_bytes \in Nat /\ held \in SUBSET DeviceBlock
    BY Zenon DEF CallInv, Typed
  <2>2. \A b \in held : b.offset + b.size \in Nat
    BY <2>1, FootprintType
  <2> QED
    BY <2>1, <2>2 DEF Backed, BackedBeforeUse
<1> QED
  BY <1>1, <1>2, <1>3, PTL DEF Spec
=============================================================================
