---------------------------- MODULE RangeFanout ----------------------------
(***************************************************************************)
(* How a Range or Broadcast query over the containers of a pool becomes     *)
(* executions: ResolveRangeQuery splits the range into pieces, SendIn sends *)
(* a replica of the task to the node of the first container of each piece,  *)
(* and the peer runs it once (IpcManager::ResolveRangeQuery and RouteTask,  *)
(* ipc_manager.cc; SendInResolveTargetNode and RecvInHandleOne,             *)
(* ipc_run2run.cc).  Containers are placed as InitAddressMap does:          *)
(* container i lives on node i.                                             *)
(***************************************************************************)
EXTENDS Integers, Sequences

CONSTANTS
    Sizes,             \* pool sizes: the values of num_containers_
    NeighborhoodSizes  \* the values of the networking option neighborhood_size

\* A neighborhood_size of 0 makes the division below undefined; the configuration
\* reader accepts it.
ASSUME SizesAssumption ==
    Sizes \subseteq Nat \ {0} /\ NeighborhoodSizes \subseteq Nat \ {0}

VARIABLES
    num_containers, neighborhood_size, self,   \* the pool, the option, this node
    range_offset, range_count,                 \* the query
    st,                                        \* where the resolution is
    i, current_offset, result_queries,         \* the splitting loop
    unsent,                                    \* pieces not yet run
    ran                                        \* runs per container

query == <<num_containers, neighborhood_size, self, range_offset, range_count>>
vars == <<query, st, i, current_offset, result_queries, unsent, ran>>

Local == [mode |-> "local", off |-> self, cnt |-> 1]
DirectId(c) == [mode |-> "direct_id", off |-> c, cnt |-> 1]
Range(o, n) == [mode |-> "range", off |-> o, cnt |-> n]

\* Any range inside the pool; ResolveBroadcastQuery asks for all of it.
Init ==
    /\ num_containers \in Sizes
    /\ neighborhood_size \in NeighborhoodSizes
    /\ self \in 0..(num_containers - 1)
    /\ range_offset \in 0..(num_containers - 1)
    /\ range_count \in 0..(num_containers - range_offset)
    /\ st = "resolve"
    /\ i = 0 /\ current_offset = 0 /\ result_queries = <<>>
    /\ unsent = {}
    /\ ran = [c \in 0..(num_containers - 1) |-> 0]

Min2(a, b) == IF a <= b THEN a ELSE b
ideal_queries == (range_count + neighborhood_size - 1) \div neighborhood_size

\* Mutant: one query for a range that fits a neighborhood, instead of one per container.
QueriesOnePiece == Min2(ideal_queries, neighborhood_size)
queries_to_create ==
    LET q == Min2(ideal_queries, neighborhood_size)
    IN  IF q <= 1 THEN range_count ELSE q

containers_per_query == range_count \div queries_to_create
remaining_containers == range_count % queries_to_create

\* Mutant: the remainder goes to one piece too many.
CurrentCountPast == containers_per_query + IF i <= remaining_containers THEN 1 ELSE 0
current_count == containers_per_query + IF i < remaining_containers THEN 1 ELSE 0

\* ResolveRangeQuery up to its loop.
ResolveRangeQuery ==
    /\ st = "resolve"
    /\ \/ /\ range_count = 0
          /\ st' = "done"
          /\ UNCHANGED <<current_offset, result_queries, unsent>>
       \/ /\ range_count = 1
          /\ result_queries' = <<IF range_offset = self THEN Local ELSE DirectId(range_offset)>>
          /\ unsent' = {1}
          /\ st' = "send"
          /\ UNCHANGED current_offset
       \/ /\ range_count > 1
          /\ current_offset' = range_offset
          /\ st' = "split"
          /\ UNCHANGED <<result_queries, unsent>>
    /\ UNCHANGED <<query, i, ran>>

\* One iteration of the loop, and the return.
SplitRange ==
    /\ st = "split"
    /\ IF i < queries_to_create
       THEN /\ IF current_count > 0
               THEN /\ result_queries' = Append(result_queries, Range(current_offset, current_count))
                    /\ current_offset' = current_offset + current_count
               ELSE UNCHANGED <<result_queries, current_offset>>
            /\ i' = i + 1
            /\ UNCHANGED <<st, unsent>>
       ELSE /\ st' = "send"
            /\ unsent' = 1..Len(result_queries)
            /\ UNCHANGED <<i, current_offset, result_queries>>
    /\ UNCHANGED <<query, ran>>

\* Mutant: the node behind the piece.
TargetPast(q) == q.off + q.cnt
\* SendInResolveTargetNode: all three modes go to the node of the first container.
Target(q) == q.off

\* A replica arrives.  RecvInHandleOne marks it routed, so RouteTask does not
\* resolve its query again: it runs once, on the local container of that node.
RunReplica ==
    /\ st = "send"
    /\ \E j \in unsent :
          /\ unsent' = unsent \ {j}
          /\ ran' = [ran EXCEPT ![Target(result_queries[j])] = @ + 1]
          /\ st' = IF unsent = {j} THEN "done" ELSE "send"
    /\ UNCHANGED <<query, i, current_offset, result_queries>>

Next == ResolveRangeQuery \/ SplitRange \/ RunReplica
Spec == Init /\ [][Next]_vars

-----------------------------------------------------------------------------
(* Properties.                                                              *)

Piece == [mode : {"local", "direct_id", "range"}, off : Nat, cnt : Nat \ {0}]

\* The variables have their types.
TypeOK ==
    /\ num_containers \in Nat \ {0} /\ neighborhood_size \in Nat \ {0} /\ self \in 0..(num_containers - 1)
    /\ range_offset \in 0..(num_containers - 1)
    /\ range_count \in 0..(num_containers - range_offset)
    /\ st \in {"resolve", "split", "send", "done"}
    /\ i \in Nat /\ current_offset \in Nat
    /\ result_queries \in Seq(Piece)
    /\ unsent \subseteq 1..Len(result_queries)
    /\ ran \in [0..(num_containers - 1) -> Nat]

End(q) == q.off + q.cnt

\* Consecutive pieces touch, and the first starts where the range does.
Contiguous ==
    /\ Len(result_queries) > 0 => result_queries[1].off = range_offset
    /\ \A j \in 1..(Len(result_queries) - 1) : result_queries[j + 1].off = End(result_queries[j])

\* The pieces ResolveRangeQuery returns partition the range: they touch, they start
\* at its first container and end at its last, so no container is in two pieces
\* and none is left out, whatever the remainder of the division is.
PiecesPartitionRange ==
    st \in {"send", "done"} /\ range_count > 0 =>
       /\ Len(result_queries) > 0
       /\ Contiguous
       /\ End(result_queries[Len(result_queries)]) = range_offset + range_count

\* The comment on neighborhood_size in ResolveRangeQuery: it is the maximum number
\* of queries a range is split into.
FanoutWithinNeighborhood ==
    st = "send" => Len(result_queries) <= neighborhood_size

\* Every piece of a range of several containers is smaller than the range: a node
\* that resolved its piece again would get to single containers.
PiecesShrink ==
    range_count > 1 => \A j \in 1..Len(result_queries) : result_queries[j].cnt < range_count

\* A container runs the task at most once, and only if the query names it.
RunsAtMostOnce ==
    \A c \in 0..(num_containers - 1) :
       ran[c] <= IF c \in range_offset..(range_offset + range_count - 1) THEN 1 ELSE 0

\* A range or broadcast reaches every container it names, once.  Not so when it
\* exceeds a neighborhood (RangeReach.cfg).
ReachesEveryContainer ==
    st = "done" => \A c \in range_offset..(range_offset + range_count - 1) : ran[c] = 1

\* A range that fits a neighborhood reaches every container it names, once.
SmallRangeReachesAll == range_count <= neighborhood_size => ReachesEveryContainer
=============================================================================
