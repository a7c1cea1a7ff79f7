---------------------------- MODULE BoundedFifo ----------------------------
(***************************************************************************)
(* What the hand-off queue promises (spec 4.5), with no lock, condition   *)
(* variable or linked list: an offer appends unless it is a bounded offer *)
(* on a full queue; a take removes a non-empty prefix of at most the      *)
(* requested count, and the items taken, over all takers, leave in the    *)
(* order they were offered.  A capacity of 0 means no bound.              *)
(***************************************************************************)
EXTENDS Naturals, Sequences

CONSTANTS Capacity, TakeCount, Items

VARIABLES
    queue,       \* the items offered and not yet taken, oldest first
    delivered,   \* the items taken, in the order taken
    lastLimit    \* whether the latest offer was a bounded one

Full(limit) == limit /\ Capacity > 0 /\ Len(queue) >= Capacity

\* An offer is refused, leaving the queue as it is, exactly when it is
\* bounded and the queue is full.
Offer(x, limit) ==
    /\ queue' = IF Full(limit) THEN queue ELSE Append(queue, x)
    /\ lastLimit' = limit
    /\ UNCHANGED delivered

Take(n) ==
    /\ n \in 1..Len(queue)
    /\ delivered' = delivered \o SubSeq(queue, 1, n)
    /\ queue' = SubSeq(queue, n + 1, Len(queue))
    /\ UNCHANGED lastLimit

Init == queue = <<>> /\ delivered = <<>> /\ lastLimit = TRUE

Next ==
    \/ \E x \in Items, limit \in BOOLEAN : Offer(x, limit)
    \/ \E n \in 1..TakeCount : Take(n)

Spec == Init /\ [][Next]_<<queue, delivered, lastLimit>>
=============================================================================
