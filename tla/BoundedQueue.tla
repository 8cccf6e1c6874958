---------------------------- MODULE BoundedQueue ----------------------------
(***************************************************************************)
(* What the ring buffer promises its two threads: a FIFO queue that holds  *)
(* at most Capacity items and delivers every item once, in order.  A push  *)
(* or a pop may also fail and leave the queue as it is.                    *)
(***************************************************************************)
EXTENDS Naturals, Sequences

CONSTANTS
    Items,        \* what is pushed
    Slots,        \* how many items fit
    Nothing       \* no pop has succeeded yet

VARIABLES
    queue,        \* pushed and not yet popped
    out           \* what the last successful pop returned

queueVars == <<queue, out>>

Enqueue(v) == Len(queue) < Slots /\ queue' = Append(queue, v) /\ UNCHANGED out

Dequeue == queue # <<>> /\ queue' = Tail(queue) /\ out' = Head(queue)

(* The buffer is dropped with whatever is still in it.                     *)
Discard == queue # <<>> /\ queue' = <<>> /\ UNCHANGED out

QueueInit == queue = <<>> /\ out = Nothing

QueueNext == (\E v \in Items : Enqueue(v)) \/ Dequeue \/ Discard

QueueSpec == QueueInit /\ [][QueueNext]_queueVars
=============================================================================
