----------------------------- MODULE TaskQueue -----------------------------
(***************************************************************************)
(* task_queue.c: the linked list of task nodes under queue_lock with the  *)
(* empty_wait condition variable.  Every function holds queue_lock for    *)
(* its whole body, so an offer, and a take that finds nodes, is one step; *)
(* a take on an empty queue releases the lock in pthread_cond_timedwait   *)
(* and resumes on a signal or on its timeout.  Nodes are numbered in the  *)
(* order they are offered; a rejected node stays with its caller.         *)
(***************************************************************************)
EXTENDS Naturals, Sequences, SequencesExt

CONSTANTS
    Consumers,   \* threads calling task_queue_take
    Capacity,    \* tq_hdr->capacity (0: no bound)
    TakeCount,   \* the count argument of task_queue_take
    MaxItems     \* nodes offered in a run

ASSUME /\ Capacity \in Nat /\ TakeCount \in Nat \ {0} /\ MaxItems \in Nat

Items == 1..MaxItems

VARIABLES
    list,        \* tq_hdr->task_list, head first (tq_hdr->size is its length)
    nextItem,    \* the next node a producer offers
    pc,          \* pc[c]: "idle", "waiting" in timedwait, or "signaled"
    batch,       \* batch[c]: the nodes[] the last take of c returned
    delivered,   \* history: every node taken, in the order taken
    lastLimit    \* history: the limit argument of the latest offer

vars == <<list, nextItem, pc, batch, delivered, lastLimit>>

\* task_queue_init: an empty list.
Init ==
    /\ list = <<>>
    /\ nextItem = 1
    /\ pc = [c \in Consumers |-> "idle"]
    /\ batch = [c \in Consumers |-> <<>>]
    /\ delivered = <<>>
    /\ lastLimit = TRUE

\* pthread_cond_signal(&empty_wait): one waiter, if any, is woken.
Signal ==
    IF \E c \in Consumers : pc[c] = "waiting"
      THEN \E c \in {d \in Consumers : pc[d] = "waiting"} :
              pc' = [pc EXCEPT ![c] = "signaled"]
      ELSE UNCHANGED pc

\* Mutant: the bound check lets one node past the capacity.
TaskQueueOfferGt(limit) ==
    /\ nextItem <= MaxItems
    /\ IF limit /\ Capacity > 0 /\ Len(list) > Capacity
         THEN UNCHANGED list
         ELSE list' = Append(list, nextItem)
    /\ nextItem' = nextItem + 1
    /\ lastLimit' = limit
    /\ Signal
    /\ UNCHANGED <<batch, delivered>>

\* task_queue_offer(tq_hdr, node, limit): limit is TRUE for
\* task_queue_limit_offer; a bounded offer on a full queue returns
\* -PY_TQ_EFULL; the condition is signalled on both paths.
TaskQueueOffer(limit) ==
    /\ nextItem <= MaxItems
    /\ IF limit /\ Capacity > 0 /\ Len(list) >= Capacity
         THEN UNCHANGED list
         ELSE list' = Append(list, nextItem)
    /\ nextItem' = nextItem + 1
    /\ lastLimit' = limit
    /\ Signal
    /\ UNCHANGED <<batch, delivered>>

\* Mutant: the loop tests size > count, so one node too many is taken.
TakeNodesOverrun(c) ==
    LET n == IF Len(list) < TakeCount + 1 THEN Len(list) ELSE TakeCount + 1
    IN /\ batch' = [batch EXCEPT ![c] = SubSeq(list, 1, n)]
       /\ delivered' = delivered \o SubSeq(list, 1, n)
       /\ list' = SubSeq(list, n + 1, Len(list))

\* Mutant: nodes are handed out only as full batches of count.
TakeNodesFullBatch(c) ==
    LET n == IF Len(list) < TakeCount THEN 0 ELSE TakeCount
    IN /\ batch' = [batch EXCEPT ![c] = SubSeq(list, 1, n)]
       /\ delivered' = delivered \o SubSeq(list, 1, n)
       /\ list' = SubSeq(list, n + 1, Len(list))

\* The while / list_for_each_safe loop of task_queue_take: nodes are
\* unlinked from the head until the list is empty or count were taken.
TakeNodes(c) ==
    LET n == IF Len(list) < TakeCount THEN Len(list) ELSE TakeCount
    IN /\ batch' = [batch EXCEPT ![c] = SubSeq(list, 1, n)]
       /\ delivered' = delivered \o SubSeq(list, 1, n)
       /\ list' = SubSeq(list, n + 1, Len(list))

\* task_queue_take: with nodes present they are taken at once; on an empty
\* queue the caller waits on empty_wait, releasing queue_lock.
TaskQueueTake(c) ==
    /\ pc[c] = "idle"
    /\ IF list = <<>>
         THEN pc' = [pc EXCEPT ![c] = "waiting"] /\ UNCHANGED <<list, batch, delivered>>
         ELSE TakeNodes(c) /\ UNCHANGED pc
    /\ UNCHANGED <<nextItem, lastLimit>>

\* pthread_cond_timedwait returns 0 after a signal: the lock is taken back
\* and the loop takes what is there, possibly nothing if another consumer
\* got there first.
Resume(c) ==
    /\ pc[c] = "signaled"
    /\ TakeNodes(c)
    /\ pc' = [pc EXCEPT ![c] = "idle"]
    /\ UNCHANGED <<nextItem, lastLimit>>

\* pthread_cond_timedwait returns ETIMEDOUT (also when a signal races the
\* deadline): task_queue_take returns 0 without looking at the list.
TakeTimeout(c) ==
    /\ pc[c] \in {"waiting", "signaled"}
    /\ pc' = [pc EXCEPT ![c] = "idle"]
    /\ batch' = [batch EXCEPT ![c] = <<>>]
    /\ UNCHANGED <<list, nextItem, delivered, lastLimit>>

Next ==
    \/ \E limit \in BOOLEAN : TaskQueueOffer(limit)
    \/ \E c \in Consumers : TaskQueueTake(c) \/ Resume(c) \/ TakeTimeout(c)

\* A consumer thread calls task_queue_take in a loop (the callback thread
\* of liblinux-async-io.c); offers are made when I/O completes, not fairly.
Fairness ==
    \A c \in Consumers :
        /\ WF_vars(TaskQueueTake(c))
        /\ WF_vars(Resume(c))
        /\ WF_vars(TakeTimeout(c))

Spec == Init /\ [][Next]_vars /\ Fairness

-----------------------------------------------------------------------------
\* nodes[] of the caller has room for count entries only.
TypeOK ==
    /\ list \in Seq(Items)
    /\ nextItem \in 1..(MaxItems + 1)
    /\ pc \in [Consumers -> {"idle", "waiting", "signaled"}]
    /\ \A c \in Consumers : batch[c] \in Seq(Items) /\ Len(batch[c]) <= TakeCount
    /\ delivered \in Seq(Items)
    /\ lastLimit \in BOOLEAN

\* A node in the queue is eventually handed to a consumer, although takes
\* on an empty queue time out, signals go to whichever consumer waits and
\* a woken consumer may find the queue already drained.
QueuedEventuallyTaken ==
    \A i \in Items : Contains(list, i) ~> Contains(delivered, i)

\* task_queue.c implements BoundedFifo (spec 4.5 and 8): bounded offers
\* never grow the queue past its capacity, takes return between 1 and
\* count nodes in insertion order, and no node is lost or taken twice.
Abstract == INSTANCE BoundedFifo WITH queue <- list
AbstractSpec == Abstract!Spec
=============================================================================
