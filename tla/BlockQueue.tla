----------------------------- MODULE BlockQueue -----------------------------
(***************************************************************************)
(* What the SMI promises: a bounded queue of blocks between two processes. *)
(* Only the block the sender has staged is ever appended, only the head is *)
(* ever handed over, and the head leaves the queue only after it was.      *)
(***************************************************************************)
EXTENDS Naturals, Sequences

CONSTANTS Capacity, Payload

VARIABLES
    staged,    \* the block the sender is about to append
    queue,     \* the blocks in transit, oldest first
    fetched    \* the block the receiver got last

InitQueue == staged \in Payload /\ queue = <<>> /\ fetched \in Payload

(* The sender prepares another block.                                       *)
Stage == staged' \in Payload /\ UNCHANGED <<queue, fetched>>

Put ==
    /\ Len(queue) < Capacity
    /\ queue' = Append(queue, staged)
    /\ staged' \in Payload
    /\ UNCHANGED fetched

Fetch ==
    /\ queue # <<>>
    /\ fetched' = Head(queue)
    /\ UNCHANGED <<staged, queue>>

Drop ==
    /\ queue # <<>>
    /\ fetched = Head(queue)
    /\ queue' = Tail(queue)
    /\ UNCHANGED <<staged, fetched>>

NextQueue == Stage \/ Put \/ Fetch \/ Drop

QueueSpec == InitQueue /\ [][NextQueue]_<<staged, queue, fetched>>
=============================================================================
