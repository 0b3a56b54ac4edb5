---------------------------- MODULE BlobShmClient ----------------------------
(* A client process that reads blobs through the shared-memory mirror, next to *)
(* the operations of BlobStore: TryReadBlobShm (core_client.h) looks the record *)
(* up, copies from the extents it names, and looks the record up again.  It    *)
(* takes no token and no pin; the placement generation is its only guard.      *)
EXTENDS BlobStore

CONSTANT Clients

VARIABLE cl     \* the reads under way

IdleClient == [pc |-> "idle", name |-> None, gen |-> 0, from |-> <<>>,
               left |-> 0, clean |-> TRUE]

\* v was written by an operation on another blob than n.
Foreign(n, v) == v \in Names \ {n} \/ (v \in Tasks /\ tk[v].name # n)

SetClient(c, f) == cl' = [cl EXCEPT ![c] = f @@ @]

\* The record serves the range from the primary, else from the replica.
ClientLookup(c, n, r) ==
  /\ cl[c].pc = "idle" /\ mirror[n] # None /\ r[1] < r[2]
  /\ LET src == IF Len(mirror[n].blocks) >= r[2] THEN mirror[n].blocks
                ELSE mirror[n].rep
     IN /\ Len(src) >= r[2]
        /\ SetClient(c, [pc |-> "copy", name |-> n, gen |-> mirror[n].gen,
                         from |-> SubSeq(src, r[1] + 1, r[2]), left |-> r[2] - r[1]])
  /\ UNCHANGED vars

ClientCopy(c) ==
  /\ cl[c].pc = "copy" /\ cl[c].left > 0
  /\ LET v == contents[cl[c].from[cl[c].left]]
     IN SetClient(c, [left |-> cl[c].left - 1,
                      clean |-> cl[c].clean /\ ~Foreign(cl[c].name, v)])
  /\ UNCHANGED vars

ClientCheck(c) ==
  /\ cl[c].pc = "copy" /\ cl[c].left = 0
  /\ LET now == mirror[cl[c].name]
         same == now # None /\ now.gen = cl[c].gen
     IN SetClient(c, [pc |-> IF same THEN "accepted" ELSE "refused",
                      from |-> <<>>])
  /\ UNCHANGED vars

Client(c) == \/ \E n \in Names, r \in Ranges : ClientLookup(c, n, r)
             \/ ClientCopy(c) \/ ClientCheck(c)

ClientSpec ==
  /\ Init /\ cl = [c \in Clients |-> IdleClient]
  /\ [][\/ Next /\ UNCHANGED cl
        \/ \E c \in Clients : Client(c)]_<<vars, cl>>

\* Bytes a direct reader accepted were not written by an operation on another
\* blob: the generation it compares before and after the copy tells it of every
\* change of placement that could have put them there.
DirectReadIsOwn == \A c \in Clients : cl[c].pc = "accepted" => cl[c].clean
=============================================================================
