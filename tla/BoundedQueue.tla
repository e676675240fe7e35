---------------------------- MODULE BoundedQueue ----------------------------
(***************************************************************************)
(* What a FIFO promises: words leave in the order in which they came, each *)
(* once, and at most CAPACITY of them wait.                                *)
(***************************************************************************)
EXTENDS Naturals, Sequences

CONSTANTS Data, CAPACITY

VARIABLES queue,   \* words waiting
          last     \* word that left last

QueueInit == queue = <<>> /\ last \in Data

Put(d) == Len(queue) < CAPACITY /\ queue' = Append(queue, d) /\ UNCHANGED last

Take == queue # <<>> /\ last' = Head(queue) /\ queue' = Tail(queue)

QueueReset == queue' = <<>> /\ UNCHANGED last

QueueNext == (\E d \in Data : Put(d)) \/ Take \/ QueueReset

QueueSpec == QueueInit /\ [][QueueNext]_<<queue, last>>
=============================================================================
