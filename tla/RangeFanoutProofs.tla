------------------------- MODULE RangeFanoutProofs -------------------------
(***************************************************************************)
(* Proofs about RangeFanout, for every pool size, neighborhood size and     *)
(* range.  SplitInv is the inductive invariant: it ties the offset of the   *)
(* splitting loop to its index, and the runs of a container to the one      *)
(* piece that starts with it.                                               *)
(***************************************************************************)
EXTENDS RangeFanout, TLAPS

Pieces == 1..Len(result_queries)

\* Later pieces lie behind earlier ones, and all lie in the range.
Ordered ==
    /\ \A j, k \in Pieces : j < k => End(result_queries[j]) <= result_queries[k].off
    /\ \A j \in Pieces : /\ range_offset <= result_queries[j].off
                         /\ End(result_queries[j]) <= range_offset + range_count

\* The loop after i iterations.
InLoop ==
    /\ range_count > 1
    /\ i <= queries_to_create /\ Len(result_queries) = i
    /\ current_offset = range_offset + i * containers_per_query + Min2(i, remaining_containers)
    /\ \A j \in Pieces : End(result_queries[j]) <= current_offset
    /\ i > 0 => End(result_queries[i]) = current_offset
    /\ Contiguous

\* Every run belongs to one sent piece.
RunsArePieces ==
    \A c \in 0..(num_containers - 1) :
       \/ ran[c] = 0
       \/ ran[c] = 1 /\ \E j \in Pieces \ unsent : result_queries[j].off = c

SplitInv ==
    /\ TypeOK
    /\ st = "resolve" => i = 0 /\ result_queries = <<>>
    /\ st \in {"resolve", "split"} => unsent = {} /\ \A c \in 0..(num_containers - 1) : ran[c] = 0
    /\ st = "split" => InLoop
    /\ st = "send" => range_count > 0 /\ (range_count > 1 => Len(result_queries) = queries_to_create)
    /\ Ordered /\ PiecesShrink /\ PiecesPartitionRange /\ RunsArePieces

-----------------------------------------------------------------------------

\* The arithmetic of the split of n containers into q pieces.
LEMMA Division ==
    ASSUME NEW n \in Nat, NEW q \in Nat \ {0}
    PROVE  /\ n \div q \in Nat /\ n % q \in Nat /\ n % q < q
           /\ n = q * (n \div q) + (n % q)
OBVIOUS

\* A piece has an offset and at least one container.
LEMMA PieceType ==
    ASSUME TypeOK, NEW j \in Pieces
    PROVE  result_queries[j].off \in Nat /\ result_queries[j].cnt \in Nat \ {0}
<1>1. result_queries[j] \in Piece
  BY DEF TypeOK, Pieces
<1> QED
  BY <1>1 DEF Piece

\* With two to n pieces, each has a container and none has all.
LEMMA Pieces2 ==
    ASSUME NEW n \in Nat, NEW q \in Nat, 2 <= q, q <= n
    PROVE  /\ n \div q >= 1
           /\ n % q > 0 => (n \div q) + 1 < n
           /\ n \div q < n
<1>1. n = q * (n \div q) + (n % q) /\ n % q < q /\ n % q \in Nat /\ n \div q \in Nat
  BY Division
<1>2. n \div q >= 1
  BY <1>1, SMT
<1>3. q * (n \div q) >= 2 * (n \div q)
  BY <1>1, SMT
<1> QED
  BY <1>1, <1>2, <1>3, SMT

\* A range of several containers is split into at least two pieces, at most one
\* per container, and at most neighborhood_size if that is not 1.
LEMMA QueriesToCreate ==
    ASSUME TypeOK, range_count > 1
    PROVE  /\ queries_to_create \in Nat
           /\ 2 <= queries_to_create /\ queries_to_create <= range_count
           /\ neighborhood_size > 1 => queries_to_create <= neighborhood_size
<1> DEFINE a == range_count
           b == neighborhood_size
<1>1. a \in Nat /\ b \in Nat \ {0} /\ a >= 2
  BY DEF TypeOK
<1>2. /\ ideal_queries \in Nat
      /\ ideal_queries <= 1 => a <= b
      /\ b > 1 => ideal_queries <= a
      /\ ideal_queries <= a
  BY <1>1, SMT DEF ideal_queries
<1> QED
  BY <1>1, <1>2, SMT DEF queries_to_create, Min2

\* What an iteration of the loop appends.
LEMMA CurrentCount ==
    ASSUME TypeOK, range_count > 1, i < queries_to_create,
           current_offset = range_offset + i * containers_per_query + Min2(i, remaining_containers)
    PROVE  /\ current_count \in Nat \ {0} /\ current_count < range_count
           /\ range_offset <= current_offset
           /\ current_offset + current_count =
                 range_offset + (i + 1) * containers_per_query + Min2(i + 1, remaining_containers)
           /\ current_offset + current_count <= range_offset + range_count
<1> DEFINE n == range_count
           q == queries_to_create
           p == containers_per_query
           m == remaining_containers
<1>1. /\ n \in Nat /\ i \in Nat /\ range_offset \in Nat
      /\ q \in Nat /\ 2 <= q /\ q <= n
  BY QueriesToCreate DEF TypeOK
<1>2. /\ p \in Nat /\ m \in Nat /\ m < q /\ n = q * p + m
  BY <1>1, Division DEF containers_per_query, remaining_containers
<1>3. p >= 1 /\ p < n /\ (m > 0 => p + 1 < n)
  BY <1>1, Pieces2 DEF containers_per_query, remaining_containers
<1>4. current_count = p + IF i < m THEN 1 ELSE 0
  BY DEF current_count
<1>5. current_offset = range_offset + i * p + Min2(i, m)
  OBVIOUS
<1> HIDE DEF n, p, m, q
<1>6. i < q
  BY DEF q
<1>7. i * p \in Nat /\ (i + 1) * p = i * p + p /\ (i + 1) * p <= q * p
  BY <1>1, <1>2, <1>6, SMT
<1>8. current_offset + current_count = range_offset + (i + 1) * p + Min2(i + 1, m)
  BY <1>1, <1>2, <1>4, <1>5, <1>7 DEF Min2
<1>9. Min2(i + 1, m) <= m /\ Min2(i, m) \in Nat
  BY <1>1, <1>2 DEF Min2
<1>10. current_offset + current_count <= range_offset + n
  <2> DEFINE u == (i + 1) * p
             v == q * p
             w == Min2(i + 1, m)
  <2>1. u \in Nat /\ v \in Nat /\ u <= v /\ w <= m /\ w \in Nat /\ n = v + m
    BY <1>1, <1>2, <1>7, <1>9, SMT DEF Min2
  <2>2. current_offset + current_count = range_offset + u + w
    BY <1>8
  <2> HIDE DEF u, v, w
  <2> QED BY <2>1, <2>2, <1>1, <1>2
<1>11. current_count \in Nat \ {0} /\ current_count < n
  BY <1>1, <1>2, <1>3, <1>4
<1>12. range_offset <= current_offset
  BY <1>1, <1>5, <1>7, <1>9
<1> QED
  BY <1>8, <1>10, <1>11, <1>12 DEF n, p, m, q

\* When the loop ends its offset is the end of the range.
LEMMA LoopEnd ==
    ASSUME TypeOK, InLoop, ~(i < queries_to_create)
    PROVE  current_offset = range_offset + range_count /\ i > 0
<1> DEFINE q == queries_to_create
           p == containers_per_query
           m == remaining_containers
<1>1. /\ range_count \in Nat /\ i \in Nat /\ range_offset \in Nat
      /\ q \in Nat /\ 2 <= q /\ i = q
  BY QueriesToCreate DEF TypeOK, InLoop
<1>2. /\ p \in Nat /\ m \in Nat /\ m < q /\ range_count = q * p + m
  BY <1>1, Division DEF containers_per_query, remaining_containers
<1>3. current_offset = range_offset + i * p + Min2(i, m)
  BY DEF InLoop
<1> HIDE DEF q, p, m
<1>4. Min2(i, m) = m
  BY <1>1, <1>2 DEF Min2
<1> QED
  BY <1>1, <1>2, <1>3, <1>4, SMT

-----------------------------------------------------------------------------
(* SplitInv is inductive.                                                   *)

\* SplitInv holds initially...
LEMMA SplitInit == Init => SplitInv
<1> SUFFICES ASSUME Init PROVE SplitInv
  OBVIOUS
<1>1. TypeOK
  BY SizesAssumption DEF Init, TypeOK
<1>2. Pieces = {}
  BY DEF Init, Pieces
<1> QED
  BY <1>1, <1>2 DEF Init, SplitInv, Ordered, PiecesShrink, PiecesPartitionRange, RunsArePieces, Pieces

\* ...ResolveRangeQuery preserves it...
LEMMA ResolvePreserves == ASSUME SplitInv, ResolveRangeQuery PROVE SplitInv'
<1> USE DEF query
<1>1. st = "resolve" /\ TypeOK /\ i = 0 /\ result_queries = <<>> /\ unsent = {}
      /\ \A c \in 0..(num_containers - 1) : ran[c] = 0
  BY DEF SplitInv, ResolveRangeQuery
<1>2. UNCHANGED <<query, i, ran>>
  BY DEF ResolveRangeQuery
<1>3. CASE range_count = 0 /\ st' = "done" /\ UNCHANGED <<current_offset, result_queries, unsent>>
  BY <1>1, <1>2, <1>3 DEF SplitInv, TypeOK, Ordered, PiecesShrink, PiecesPartitionRange, RunsArePieces, Pieces
<1>4. CASE /\ range_count = 1 /\ st' = "send" /\ unsent' = {1} /\ UNCHANGED current_offset
           /\ result_queries' = <<IF range_offset = self THEN Local ELSE DirectId(range_offset)>>
  <2> DEFINE q == IF range_offset = self THEN Local ELSE DirectId(range_offset)
  <2>1. q \in Piece /\ q.off = range_offset /\ q.cnt = 1
    BY <1>1 DEF TypeOK, Piece, Local, DirectId
  <2>2. result_queries' = <<q>> /\ Len(result_queries') = 1 /\ result_queries'[1] = q
        /\ result_queries' \in Seq(Piece)
    BY <1>4, <2>1
  <2> HIDE DEF q
  <2>3. TypeOK'
    BY <1>1, <1>2, <1>4, <2>2 DEF TypeOK
  <2>4. Pieces' = {1}
    BY <2>2 DEF Pieces
  <2>5. range_offset \in Nat /\ range_count = 1
    BY <1>1, <1>4 DEF TypeOK
  <2>6. Ordered' /\ PiecesPartitionRange'
    BY <1>2, <1>4, <2>1, <2>2, <2>4, <2>5 DEF Ordered, PiecesPartitionRange, Contiguous, End
  <2> QED
    BY <1>1, <1>2, <1>4, <2>2, <2>3, <2>4, <2>6 DEF SplitInv, PiecesShrink, RunsArePieces
<1>5. CASE range_count > 1 /\ current_offset' = range_offset /\ st' = "split"
           /\ UNCHANGED <<result_queries, unsent>>
  <2>1. TypeOK'
    BY <1>1, <1>2, <1>5 DEF TypeOK
  <2>2. /\ queries_to_create \in Nat /\ 2 <= queries_to_create
        /\ containers_per_query \in Nat /\ remaining_containers \in Nat
    BY <1>1, <1>5, QueriesToCreate, Division DEF TypeOK, containers_per_query, remaining_containers
  <2>3. queries_to_create' = queries_to_create /\ containers_per_query' = containers_per_query
        /\ remaining_containers' = remaining_containers
    BY <1>2 DEF queries_to_create, containers_per_query, remaining_containers, ideal_queries, Min2
  <2>4. Pieces' = {}
    BY <1>1, <1>5 DEF Pieces
  <2>5. 0 * containers_per_query + Min2(0, remaining_containers) = 0
    BY <2>2 DEF Min2
  <2>6. current_offset' = range_offset' + i' * containers_per_query' + Min2(i', remaining_containers')
    BY <1>1, <1>2, <1>5, <2>2, <2>3, <2>5 DEF TypeOK, Min2
  <2>7. InLoop'
    BY <1>1, <1>2, <1>5, <2>2, <2>3, <2>4, <2>6 DEF InLoop, Contiguous
  <2> QED
    BY <1>1, <1>2, <1>5, <2>1, <2>4, <2>7
       DEF SplitInv, Ordered, PiecesShrink, PiecesPartitionRange, RunsArePieces, Pieces
<1> QED
  BY <1>3, <1>4, <1>5 DEF ResolveRangeQuery

\* ...and an iteration of the loop, and its end...
LEMMA SplitPreserves == ASSUME SplitInv, SplitRange PROVE SplitInv'
<1> USE DEF query
<1>1. /\ st = "split" /\ TypeOK /\ InLoop /\ Ordered /\ PiecesShrink /\ RunsArePieces /\ unsent = {}
      /\ \A c \in 0..(num_containers - 1) : ran[c] = 0
  BY DEF SplitInv, SplitRange
<1>2. UNCHANGED <<query, ran>>
  BY DEF SplitRange
<1>3. /\ range_count > 1 /\ i <= queries_to_create /\ Len(result_queries) = i /\ Contiguous
      /\ current_offset = range_offset + i * containers_per_query + Min2(i, remaining_containers)
      /\ \A j \in Pieces : End(result_queries[j]) <= current_offset
      /\ i > 0 => End(result_queries[i]) = current_offset
  BY <1>1 DEF InLoop
<1>4. queries_to_create' = queries_to_create /\ containers_per_query' = containers_per_query
      /\ remaining_containers' = remaining_containers
  BY <1>2 DEF queries_to_create, containers_per_query, remaining_containers, ideal_queries, Min2
<1>5. CASE i < queries_to_create
  <2> DEFINE q == Range(current_offset, current_count)
  <2>1. /\ current_count \in Nat \ {0} /\ current_count < range_count
        /\ range_offset <= current_offset
        /\ current_offset + current_count =
              range_offset + (i + 1) * containers_per_query + Min2(i + 1, remaining_containers)
        /\ current_offset + current_count <= range_offset + range_count
    BY <1>1, <1>3, <1>5, CurrentCount
  <2>2. /\ result_queries' = Append(result_queries, q) /\ i' = i + 1
        /\ current_offset' = current_offset + current_count
        /\ UNCHANGED <<st, unsent>>
    BY <1>1, <1>5, <2>1 DEF SplitRange
  <2>3. q \in Piece /\ q.off = current_offset /\ q.cnt = current_count /\ End(q) = current_offset'
    BY <1>1, <2>1, <2>2 DEF TypeOK, Piece, Range, End
  <2> HIDE DEF q
  <2>4. /\ i \in Nat /\ result_queries \in Seq(Piece) /\ range_offset \in Nat /\ range_count \in Nat
        /\ current_offset \in Nat
    BY <1>1 DEF TypeOK
  <2>5. /\ result_queries' \in Seq(Piece) /\ Len(result_queries') = i + 1
        /\ result_queries'[i + 1] = q
        /\ \A j \in 1..i : result_queries'[j] = result_queries[j]
    BY <1>3, <2>2, <2>3, <2>4
  <2>6. Pieces = 1..i /\ Pieces' = 1..(i + 1)
    BY <1>3, <2>5 DEF Pieces
  <2>7. TypeOK'
    BY <1>1, <1>2, <2>1, <2>2, <2>5 DEF TypeOK
  <2>8. \A j \in 1..i : result_queries[j] \in Piece
    BY <1>3, <2>4
  <2>9. \A j \in 1..i : result_queries[j].cnt \in Nat /\ result_queries[j].off \in Nat
    BY <2>8 DEF Piece
  <2>10. Ordered'
    <3>1. \A j \in Pieces' : range_offset' <= result_queries'[j].off
                             /\ End(result_queries'[j]) <= range_offset' + range_count'
      BY <1>1, <1>2, <2>1, <2>2, <2>3, <2>4, <2>5, <2>6 DEF Ordered
    <3>2. ASSUME NEW j \in Pieces', NEW k \in Pieces', j < k
          PROVE  End(result_queries'[j]) <= result_queries'[k].off
      <4>1. CASE k = i + 1
        BY <1>3, <2>3, <2>4, <2>5, <2>6, <3>2, <4>1
      <4>2. CASE k \in 1..i
        BY <1>1, <2>4, <2>5, <2>6, <3>2, <4>2 DEF Ordered
      <4> QED BY <2>4, <2>6, <4>1, <4>2
    <3> QED BY <3>1, <3>2 DEF Ordered
  <2>11. PiecesShrink'
    BY <1>1, <1>2, <2>1, <2>3, <2>4, <2>5, <2>6, <1>3 DEF PiecesShrink, Pieces
  <2>12. Contiguous'
    <3>1. result_queries'[1].off = range_offset'
      <4>1. CASE i = 0
        <5>0. queries_to_create \in Nat \ {0} /\ range_count \in Nat
          BY <1>1, <1>3, QueriesToCreate DEF TypeOK
        <5>1. remaining_containers \in Nat /\ containers_per_query \in Nat
          BY <5>0, Division DEF containers_per_query, remaining_containers
        <5>2. current_offset = range_offset
          BY <1>3, <4>1, <5>1, <2>4 DEF Min2
        <5> QED BY <1>2, <2>3, <2>5, <4>1, <5>2
      <4>2. CASE i > 0
        BY <1>2, <1>3, <2>4, <2>5, <4>2 DEF Contiguous
      <4> QED BY <2>4, <4>1, <4>2
    <3>2. ASSUME NEW j \in 1..i PROVE result_queries'[j + 1].off = End(result_queries'[j])
      <4>1. CASE j = i
        BY <1>3, <2>3, <2>4, <2>5, <4>1
      <4>2. CASE j \in 1..(i - 1)
        <5>1. j \in 1..i /\ j + 1 \in 1..i /\ j \in 1..(Len(result_queries) - 1)
          BY <1>3, <2>4, <4>2
        <5>2. result_queries[j + 1].off = End(result_queries[j])
          BY <1>3, <5>1 DEF Contiguous
        <5>3. result_queries'[j] = result_queries[j] /\ result_queries'[j + 1] = result_queries[j + 1]
          BY <2>5, <5>1
        <5> QED BY <5>2, <5>3
      <4> QED BY <2>4, <3>2, <4>1, <4>2
    <3> QED BY <2>4, <2>5, <3>1, <3>2 DEF Contiguous
  <2>13. InLoop'
    <3>1. \A j \in Pieces' : End(result_queries'[j]) <= current_offset'
      <4>1. \A j \in 1..i : End(result_queries[j]) \in Nat
        BY <2>9 DEF End
      <4> QED BY SMTT(30), <1>3, <2>1, <2>2, <2>3, <2>4, <2>5, <2>6, <4>1
    <3>2. queries_to_create \in Nat
      BY <1>1, <1>3, QueriesToCreate
    <3>3. i' <= queries_to_create' /\ Len(result_queries') = i'
      BY <1>4, <1>5, <2>2, <2>4, <2>5, <3>2
    <3>4. End(result_queries'[i']) = current_offset'
      BY <2>2, <2>3, <2>5
    <3>5. current_offset' = range_offset' + i' * containers_per_query' + Min2(i', remaining_containers')
      BY <1>2, <1>4, <2>1, <2>2 DEF Min2
    <3> QED BY <1>2, <1>3, <2>12, <3>1, <3>3, <3>4, <3>5 DEF InLoop
  <2> QED
    BY <1>1, <1>2, <2>2, <2>7, <2>10, <2>11, <2>13
       DEF SplitInv, PiecesPartitionRange, RunsArePieces
<1>6. CASE ~(i < queries_to_create)
  <2>1. /\ st' = "send" /\ unsent' = 1..Len(result_queries)
        /\ UNCHANGED <<i, current_offset, result_queries>>
    BY <1>1, <1>6 DEF SplitRange
  <2>2. current_offset = range_offset + range_count /\ i > 0
    BY <1>1, <1>6, LoopEnd
  <2>3. i = queries_to_create
    BY <1>1, <1>3, <1>6, QueriesToCreate DEF TypeOK
  <2>4. TypeOK'
    BY <1>1, <1>2, <2>1 DEF TypeOK
  <2>5. PiecesPartitionRange'
    BY <1>2, <1>3, <2>1, <2>2 DEF PiecesPartitionRange, Contiguous
  <2>6. Ordered' /\ PiecesShrink'
    BY <1>1, <1>2, <2>1 DEF Ordered, PiecesShrink, Pieces
  <2>7. RunsArePieces'
    BY <1>1, <1>2 DEF RunsArePieces
  <2>8. range_count' > 0 /\ Len(result_queries') = queries_to_create'
    BY <1>1, <1>2, <1>3, <1>4, <2>1, <2>3 DEF TypeOK
  <2> QED
    BY <2>1, <2>4, <2>5, <2>6, <2>7, <2>8 DEF SplitInv
<1> QED
  BY <1>5, <1>6

\* ...and the run of a replica...
LEMMA RunPreserves == ASSUME SplitInv, RunReplica PROVE SplitInv'
<1> USE DEF query
<1>1. PICK j \in unsent :
         /\ unsent' = unsent \ {j}
         /\ ran' = [ran EXCEPT ![Target(result_queries[j])] = @ + 1]
         /\ st' = IF unsent = {j} THEN "done" ELSE "send"
  BY Zenon DEF RunReplica
<1>2. st = "send" /\ UNCHANGED <<query, i, current_offset, result_queries>>
  BY DEF RunReplica
<1>3. TypeOK /\ Ordered /\ RunsArePieces /\ PiecesShrink /\ PiecesPartitionRange
  BY DEF SplitInv
<1> DEFINE c0 == result_queries[j].off
<1>4. j \in Pieces /\ Pieces' = Pieces
  BY <1>1, <1>2, <1>3 DEF TypeOK, Pieces
<1>5. \A k \in Pieces : result_queries[k].off \in Nat /\ result_queries[k].cnt \in Nat \ {0}
  BY <1>3, PieceType
<1>6. c0 \in 0..(num_containers - 1)
  <2>1. c0 + result_queries[j].cnt <= range_offset + range_count
    BY <1>3, <1>4 DEF Ordered, End
  <2>2. /\ num_containers \in Nat /\ range_offset \in Nat /\ range_count \in Nat
        /\ range_offset + range_count <= num_containers
    BY <1>3 DEF TypeOK
  <2>3. c0 \in Nat /\ result_queries[j].cnt \in Nat \ {0}
    BY <1>4, <1>5
  <2> QED BY <2>1, <2>2, <2>3
<1>7. ran[c0] = 0
  <2> SUFFICES ASSUME NEW k \in Pieces \ unsent, result_queries[k].off = c0 PROVE FALSE
    BY <1>3, <1>6 DEF RunsArePieces
  <2>1. k # j /\ k \in Nat /\ j \in Nat
    BY <1>1, <1>4 DEF Pieces
  <2>2. k < j => End(result_queries[k]) <= c0
    BY <1>3, <1>4 DEF Ordered
  <2>3. j < k => End(result_queries[j]) <= result_queries[k].off
    BY <1>3, <1>4 DEF Ordered
  <2> QED BY <1>4, <1>5, <2>1, <2>2, <2>3 DEF End
<1>8. ran' = [ran EXCEPT ![c0] = 1]
  BY <1>1, <1>3, <1>6, <1>7 DEF Target, TypeOK
<1> HIDE DEF c0
<1>9. TypeOK'
  <2>1. ran' \in [0..(num_containers - 1) -> Nat]
    BY Zenon, <1>3, <1>8 DEF TypeOK
  <2>2. st' \in {"resolve", "split", "send", "done"} /\ unsent' \subseteq unsent
    BY <1>1
  <2> QED BY <1>2, <1>3, <2>1, <2>2 DEF TypeOK
<1>10. RunsArePieces'
  <2> SUFFICES ASSUME NEW c \in 0..(num_containers - 1)
               PROVE  \/ ran'[c] = 0
                      \/ ran'[c] = 1 /\ \E k \in Pieces \ unsent' : result_queries[k].off = c
    BY <1>2, <1>4 DEF RunsArePieces
  <2>1. CASE c = c0
    BY <1>1, <1>3, <1>4, <1>6, <1>8, <2>1 DEF TypeOK, c0
  <2>2. CASE c # c0
    BY <1>1, <1>3, <1>8, <2>2 DEF RunsArePieces, TypeOK
  <2> QED BY <2>1, <2>2
<1>11. Ordered' /\ PiecesShrink'
  BY <1>2, <1>3 DEF Ordered, PiecesShrink, Pieces
<1>12. PiecesPartitionRange'
  BY <1>1, <1>2, <1>3 DEF PiecesPartitionRange, Contiguous
<1>13. queries_to_create' = queries_to_create
  BY <1>2 DEF queries_to_create, ideal_queries, Min2
<1> QED
  BY <1>1, <1>2, <1>9, <1>10, <1>11, <1>12, <1>13 DEF SplitInv

\* ...so that it always holds.
LEMMA SplitInvariant == Spec => []SplitInv
<1>1. SplitInv /\ [Next]_vars => SplitInv'
  <2> SUFFICES ASSUME SplitInv, [Next]_vars PROVE SplitInv'
    BY SMTT(30)
  <2>1. CASE UNCHANGED vars
    BY <2>1 DEF vars, query, SplitInv, TypeOK, InLoop, Ordered, Contiguous, PiecesShrink,
       PiecesPartitionRange, RunsArePieces, Pieces, queries_to_create, containers_per_query,
       remaining_containers, ideal_queries, Min2
  <2> QED
    BY <2>1, ResolvePreserves, SplitPreserves, RunPreserves DEF Next
<1> QED
  BY <1>1, SplitInit, PTL DEF Spec

-----------------------------------------------------------------------------

\* The pieces ResolveRangeQuery returns partition the range, for every range, pool
\* size and neighborhood size.
THEOREM RangePartitioned == Spec => []PiecesPartitionRange
<1>1. SplitInv => PiecesPartitionRange
  BY DEF SplitInv
<1> QED
  BY <1>1, SplitInvariant, PTL

\* Splitting always makes progress: every piece is smaller than its range.
THEOREM RangeShrinks == Spec => []PiecesShrink
<1>1. SplitInv => PiecesShrink
  BY DEF SplitInv
<1> QED
  BY <1>1, SplitInvariant, PTL

\* The fan-out is capped by neighborhood_size unless that option is 1.
THEOREM FanoutCapped ==
    ASSUME 1 \notin NeighborhoodSizes
    PROVE  Spec => []FanoutWithinNeighborhood
<1> DEFINE Big == neighborhood_size > 1
<1>1. Init => Big
  BY SizesAssumption DEF Init
<1>2. Big /\ [Next]_vars => Big'
  BY DEF Next, vars, query, ResolveRangeQuery, SplitRange, RunReplica
<1>3. Big /\ SplitInv => FanoutWithinNeighborhood
  <2> SUFFICES ASSUME Big, SplitInv, st = "send" PROVE Len(result_queries) <= neighborhood_size
    BY DEF FanoutWithinNeighborhood
  <2>1. TypeOK /\ range_count > 0 /\ PiecesPartitionRange /\ Ordered
    BY DEF SplitInv
  <2>2. CASE range_count > 1
    BY <2>1, <2>2, QueriesToCreate DEF SplitInv
  <2>3. CASE range_count = 1
    <3>1. /\ Len(result_queries) \in Nat
          /\ \A j \in Pieces : result_queries[j].off \in Nat /\ result_queries[j].cnt \in Nat \ {0}
      BY <2>1, PieceType DEF TypeOK
    <3>2. SUFFICES ASSUME Len(result_queries) >= 2 PROVE FALSE
      BY <2>1, <3>1 DEF TypeOK
    <3>3. 1 \in Pieces /\ 2 \in Pieces
      BY <3>1, <3>2 DEF Pieces
    <3>4. /\ result_queries[1].off + result_queries[1].cnt <= result_queries[2].off
          /\ result_queries[2].off + result_queries[2].cnt <= range_offset + 1
          /\ range_offset <= result_queries[1].off
      BY <2>1, <2>3, <3>3 DEF Ordered, End
    <3>5. range_offset \in Nat
      BY <2>1 DEF TypeOK
    <3>6. /\ result_queries[1].off \in Nat /\ result_queries[1].cnt \in Nat \ {0}
          /\ result_queries[2].off \in Nat /\ result_queries[2].cnt \in Nat \ {0}
      BY <3>1, <3>3
    <3> QED BY <3>4, <3>5, <3>6
  <2> QED BY <2>1, <2>2, <2>3 DEF TypeOK
<1> HIDE DEF Big
<1> QED
  BY <1>1, <1>2, <1>3, SplitInvariant, PTL DEF Spec

\* No container runs a range or broadcast twice, and none outside the range does.
THEOREM RunsOnce == Spec => []RunsAtMostOnce
<1>1. SplitInv => RunsAtMostOnce
  <2> SUFFICES ASSUME SplitInv, NEW c \in 0..(num_containers - 1)
               PROVE  ran[c] <= IF c \in range_offset..(range_offset + range_count - 1) THEN 1 ELSE 0
    BY DEF RunsAtMostOnce
  <2>1. TypeOK /\ Ordered /\ RunsArePieces
    BY DEF SplitInv
  <2>2. CASE ran[c] = 0
    BY <2>2
  <2>3. CASE ran[c] = 1 /\ \E j \in Pieces \ unsent : result_queries[j].off = c
    <3>1. PICK j \in Pieces : result_queries[j].off = c
      BY <2>3
    <3>2. result_queries[j].cnt \in Nat \ {0}
      BY <2>1, PieceType
    <3>3. range_offset <= c /\ c + result_queries[j].cnt <= range_offset + range_count
      BY <2>1, <3>1 DEF Ordered, End
    <3>4. c \in range_offset..(range_offset + range_count - 1)
      BY SMTT(30), <2>1, <3>2, <3>3 DEF TypeOK
    <3> QED BY <2>3, <3>4
  <2> QED BY <2>1, <2>2, <2>3 DEF RunsArePieces
<1> QED
  BY <1>1, SplitInvariant, PTL

-----------------------------------------------------------------------------
(* A range that fits a neighborhood.  It is split into single containers, and *)
(* every piece sent has run at its container.                                *)

Small == range_count > 0 /\ range_count <= neighborhood_size

Reached ==
    /\ st = "done" => unsent = {}
    /\ st \in {"send", "done"} =>
          \A j \in Pieces \ unsent : ran[result_queries[j].off] = 1
    /\ Small => \A j \in Pieces : result_queries[j].off = range_offset + j - 1
    /\ Small /\ st \in {"send", "done"} => Len(result_queries) = range_count

\* A range of several containers that fits a neighborhood gets one query each.
LEMMA SmallCount ==
    ASSUME TypeOK, Small, range_count > 1
    PROVE  /\ queries_to_create = range_count
           /\ containers_per_query = 1 /\ remaining_containers = 0
<1>1. range_count \in Nat /\ neighborhood_size \in Nat \ {0}
  BY DEF TypeOK
<1>2. ideal_queries = 1
  BY <1>1, SMT DEF ideal_queries, Small
<1>3. queries_to_create = range_count
  BY <1>1, <1>2, SMT DEF queries_to_create, Min2
<1> QED
  BY <1>1, <1>3, SMT DEF containers_per_query, remaining_containers

\* The resolution of the query, a single container included.
LEMMA ResolveReaches == ASSUME SplitInv, SplitInv', ResolveRangeQuery PROVE Reached'
<1>1. /\ st = "resolve" /\ result_queries = <<>> /\ unsent = {}
      /\ UNCHANGED <<query, ran>> /\ TypeOK
  BY DEF ResolveRangeQuery, SplitInv
<1>2. CASE range_count = 0
  BY <1>1, <1>2 DEF ResolveRangeQuery, Reached, Small, Pieces, query
<1>3. CASE range_count = 1
  <2>1. /\ result_queries' = <<IF range_offset = self THEN Local ELSE DirectId(range_offset)>>
        /\ unsent' = {1} /\ st' = "send"
    BY <1>3 DEF ResolveRangeQuery
  <2>2. Pieces' = {1} /\ Len(result_queries') = 1 /\ result_queries'[1].off = range_offset
    BY <2>1 DEF Pieces, Local, DirectId
  <2>3. range_offset \in Nat /\ range_offset' = range_offset /\ range_count' = 1
    BY <1>1, <1>3 DEF TypeOK, query
  <2> QED
    BY <2>1, <2>2, <2>3 DEF Reached, Small
<1>4. CASE range_count > 1
  BY <1>1, <1>4 DEF ResolveRangeQuery, Reached, Small, Pieces, query
<1> QED
  BY <1>1, <1>2, <1>3, <1>4 DEF TypeOK

\* The loop.
LEMMA SplitReaches == ASSUME SplitInv, SplitInv', Reached, SplitRange PROVE Reached'
<1>1. /\ st = "split" /\ InLoop /\ TypeOK /\ range_count > 1 /\ range_count \in Nat
      /\ UNCHANGED <<query, ran>>
  <2>1. st = "split" /\ UNCHANGED <<query, ran>>
    BY Zenon DEF SplitRange
  <2>2. InLoop /\ TypeOK
    BY <2>1, Zenon DEF SplitInv
  <2>3. range_count > 1 /\ range_count \in Nat
    BY <2>2 DEF InLoop, TypeOK
  <2> QED
    BY <2>1, <2>2, <2>3, Zenon
<1>2. Small' <=> Small
  BY <1>1 DEF Small, query
<1>3. i \in Nat /\ range_offset \in Nat /\ range_offset' = range_offset /\ range_count' = range_count
  BY <1>1 DEF TypeOK, query
<1>4. CASE i < queries_to_create
  <2>1. /\ st' = "split"
        /\ result_queries' = Append(result_queries, Range(current_offset, current_count))
    BY <1>1, <1>4, CurrentCount DEF SplitRange, InLoop
  <2>2. ASSUME Small, NEW j \in Pieces' PROVE result_queries'[j].off = range_offset + j - 1
    <3>1. containers_per_query = 1 /\ remaining_containers = 0
      BY <1>1, <2>2, SmallCount
    <3>2. current_offset = range_offset + i /\ Len(result_queries) = i
      <4>1. /\ current_offset = range_offset + i * 1 + Min2(i, 0)
            /\ Len(result_queries) = i
        BY <1>1, <3>1, Zenon DEF InLoop
      <4> QED
        BY <1>3, <4>1 DEF Min2
    <3>3. Pieces = 1..i /\ Pieces' = 1..(i + 1) /\ result_queries \in Seq(Piece)
      <4>1. result_queries \in Seq(Piece)
        BY <1>1, Zenon DEF TypeOK
      <4>2. Range(current_offset, current_count) \in Piece
        <5>1. current_count \in Nat \ {0} /\ current_offset \in Nat
          BY <1>1, <1>3, <1>4, <3>2, CurrentCount DEF InLoop
        <5> QED
          BY <5>1 DEF Range, Piece
      <4>3. Len(result_queries') = i + 1
        BY <1>3, <2>1, <3>2, <4>1, <4>2
      <4> QED
        BY <3>2, <4>1, <4>3 DEF Pieces
    <3>4. CASE j = i + 1
      <4>1. result_queries'[j] = Range(current_offset, current_count)
        BY <2>1, <3>2, <3>3, <3>4
      <4> QED
        BY <1>3, <3>2, <3>4, <4>1 DEF Range
    <3>5. CASE j # i + 1
      <4>1. j \in Pieces /\ result_queries'[j] = result_queries[j]
        BY <1>3, <2>1, <2>2, <3>2, <3>3, <3>5
      <4> QED
        BY <2>2, <4>1 DEF Reached
    <3> QED
      BY <3>4, <3>5
  <2> QED
    BY Zenon, <1>2, <1>3, <2>1, <2>2 DEF Reached
<1>5. CASE ~(i < queries_to_create)
  <2>1. st' = "send" /\ unsent' = Pieces /\ result_queries' = result_queries /\ Pieces' = Pieces
    BY <1>1, <1>5 DEF SplitRange, Pieces
  <2>2. Small => Len(result_queries) = range_count
    <3>1. i = queries_to_create /\ Len(result_queries) = i
      BY <1>1, <1>3, <1>5, QueriesToCreate DEF InLoop
    <3> QED
      BY <1>1, <3>1, SmallCount
  <2> QED
    BY <1>2, <1>3, <2>1, <2>2 DEF Reached
<1> QED
  BY <1>4, <1>5

\* A replica: what ran once cannot run again, so nobody else's run is disturbed.
LEMMA RunReaches == ASSUME SplitInv, SplitInv', Reached, RunReplica PROVE Reached'
<1>1. PICK j \in unsent :
         /\ unsent' = unsent \ {j}
         /\ ran' = [ran EXCEPT ![Target(result_queries[j])] = @ + 1]
         /\ st' = IF unsent = {j} THEN "done" ELSE "send"
  BY Zenon DEF RunReplica
<1>2. st = "send" /\ UNCHANGED <<query, i, current_offset, result_queries>>
  BY DEF RunReplica
<1>3. TypeOK /\ Ordered /\ RunsArePieces' /\ TypeOK'
  BY DEF SplitInv
<1>4. j \in Pieces /\ Pieces' = Pieces /\ range_count' = range_count
      /\ range_offset' = range_offset /\ num_containers' = num_containers
  BY <1>1, <1>2, <1>3 DEF TypeOK, Pieces, query
<1>5. \A k \in Pieces : result_queries[k].off \in 0..(num_containers - 1)
  <2> SUFFICES ASSUME NEW k \in Pieces PROVE result_queries[k].off \in 0..(num_containers - 1)
    OBVIOUS
  <2>1. result_queries[k].off + result_queries[k].cnt <= range_offset + range_count
    BY <1>3 DEF Ordered, End
  <2>2. /\ num_containers \in Nat /\ range_offset \in Nat /\ range_count \in Nat
        /\ range_offset + range_count <= num_containers
    BY <1>3 DEF TypeOK
  <2>3. result_queries[k].off \in Nat /\ result_queries[k].cnt \in Nat \ {0}
    BY <1>3, PieceType
  <2> QED
    BY <2>1, <2>2, <2>3
<1>6. \A c \in 0..(num_containers - 1) : ran[c] \in Nat /\ ran'[c] \in Nat /\ ran'[c] <= 1
  <2>1. \A c \in 0..(num_containers - 1) : ran[c] \in Nat
    BY <1>3, Zenon DEF TypeOK
  <2>2. \A c \in 0..(num_containers - 1) : ran'[c] = 0 \/ ran'[c] = 1
    BY <1>3, <1>4, Zenon DEF RunsArePieces
  <2> QED
    BY <2>1, <2>2
<1>7. \A c \in 0..(num_containers - 1) :
         ran'[c] = IF c = result_queries[j].off THEN ran[c] + 1 ELSE ran[c]
  BY Zenon, <1>1, <1>3 DEF Target, TypeOK
<1>8. \A k \in Pieces \ unsent' : ran'[result_queries[k].off] = 1
  <2> SUFFICES ASSUME NEW k \in Pieces \ unsent' PROVE ran'[result_queries[k].off] = 1
    OBVIOUS
  <2>1. k = j \/ ran[result_queries[k].off] = 1
    BY <1>1, <1>2 DEF Reached
  <2> QED
    BY <1>4, <1>5, <1>6, <1>7, <2>1
<1>9. st' = "done" => unsent' = {}
  BY <1>1
<1>10. Small' <=> Small
  BY <1>2 DEF Small, query
<1> QED
  BY <1>1, <1>2, <1>4, <1>8, <1>9, <1>10 DEF Reached

\* A range or broadcast that fits a neighborhood runs once on every container it
\* names, for every pool size and every such range.
THEOREM SmallRangeReached == Spec => []SmallRangeReachesAll
<1>1. Init => Reached
  BY DEF Init, Reached, Pieces
<1>2. SplitInv /\ SplitInv' /\ Reached /\ [Next]_vars => Reached'
  <2>1. ASSUME Reached, UNCHANGED vars PROVE Reached'
    BY <2>1 DEF vars, query, Reached, Small, Pieces
  <2> QED
    BY <2>1, ResolveReaches, SplitReaches, RunReaches DEF Next
<1>3. SplitInv /\ Reached => SmallRangeReachesAll
  <2> SUFFICES ASSUME SplitInv, Reached, range_count <= neighborhood_size, st = "done",
                      NEW c \in range_offset..(range_offset + range_count - 1)
               PROVE  ran[c] = 1
    BY DEF SmallRangeReachesAll, ReachesEveryContainer
  <2>1. range_offset \in Nat /\ range_count \in Nat
    BY DEF SplitInv, TypeOK
  <2>2. Small
    BY <2>1 DEF Small
  <2>3. (c - range_offset + 1) \in Pieces /\ unsent = {}
    BY <2>1, <2>2 DEF Reached, Pieces
  <2>4. result_queries[c - range_offset + 1].off = range_offset + (c - range_offset + 1) - 1
    BY <2>2, <2>3 DEF Reached
  <2>5. result_queries[c - range_offset + 1].off = c
    BY <2>1, <2>4
  <2> QED
    BY <2>3, <2>5 DEF Reached
<1> QED
  BY <1>1, <1>2, <1>3, SplitInvariant, PTL DEF Spec
=============================================================================
