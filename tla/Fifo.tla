---- MODULE Fifo ----
(***************************************************************************)
(* What the ring buffers of ring_buffer.h promise their users, whatever    *)
(* their flags: values come out once each, in the order in which they went *)
(* in.  RingBuffer implements this specification.                          *)
(***************************************************************************)
EXTENDS Sequences, Functions

CONSTANT
    Values          \* what Push is called with

VARIABLES
    items,          \* the values in the queue, oldest first
    out             \* the values Pop has returned, oldest first

vars == <<items, out>>

Init == items = <<>> /\ out = <<>>

\* A Push that succeeds: a value enters at the back, once.
Enqueue(v) ==
    /\ v \notin Range(items) \union Range(out)
    /\ items' = Append(items, v)
    /\ UNCHANGED out

\* A Pop that succeeds: the oldest value leaves.
Dequeue ==
    /\ items # <<>>
    /\ out' = Append(out, Head(items))
    /\ items' = Tail(items)

Next == Dequeue \/ \E v \in Values : Enqueue(v)

Spec == Init /\ [][Next]_vars
====
