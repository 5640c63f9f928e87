------------------------------ MODULE TaskFIFO ------------------------------
(***************************************************************************)
(* What a task queue promises to one producer and one consumer: tasks come *)
(* out in the order in which they were accepted, each exactly once, and at *)
(* most Bound tasks are held.  A call handles one task or a batch; a full  *)
(* queue changes nothing, an empty one hands out nothing.                  *)
(***************************************************************************)
EXTENDS Integers, Sequences

CONSTANTS Task,      \* the tasks that can be queued
          Bound,     \* how many tasks the queue can hold
          MaxBatch   \* the longest batch a caller submits or asks for

VARIABLES q,         \* the accepted tasks that were not handed out yet
          handed     \* what the last successful dequeue returned

vars == <<q, handed>>

Init ==
    /\ q = << >>
    /\ handed = << >>

\* The producer's batch is accepted in one step, all or nothing; a caller whose
\* batch does not fit has it cut to the part that does before it is accepted.
Accept(batch) ==
    /\ Len(q) + Len(batch) <= Bound
    /\ q' = q \o batch
    /\ UNCHANGED handed

\* The oldest n tasks leave the queue in one step, in order.
HandOut(n) ==
    /\ n <= Len(q)
    /\ handed' = SubSeq(q, 1, n)
    /\ q' = SubSeq(q, n + 1, Len(q))

Batches == UNION {[1..n -> Task] : n \in 1..MaxBatch}

Next ==
    \/ \E batch \in Batches : Accept(batch)
    \/ \E n \in 1..MaxBatch : HandOut(n)

Spec == Init /\ [][Next]_vars

\* A consumer that keeps asking empties the queue's front again and again.
FairSpec == Spec /\ WF_vars(\E n \in 1..MaxBatch : HandOut(n))
=============================================================================
