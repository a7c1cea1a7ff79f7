------------------------------ MODULE AioEngine ------------------------------
(***************************************************************************)
(* One I/O context of liblinux-async-io.c (struct datanode_aio_ctx_t) and *)
(* the threads that share it:                                              *)
(*   - caller threads running __datanode_aio_operation (JNI read/write),  *)
(*   - the event thread datanode_aio_event_handler (io_getevents loop),    *)
(*   - the callback thread datanode_aio_callback_handler (task queue),     *)
(*   - the host thread running AsyncFileAccessor_close.                    *)
(* The submission gate (increa_submit/decrea_submit), the iocb free list  *)
(* (get_free_user_iocb_list/insert_user_iocb_list), the kernel AIO ring    *)
(* and the bounded task queue (task_queue.c) are the shared state.         *)
(*                                                                         *)
(* Data abstraction: a control block is identified by the request it      *)
(* carries (a number 1..MaxReqs); the free list is a count of free        *)
(* records.  The result of the slow-disk checker is a free choice here;   *)
(* its algorithm is the module RingWindow.                                 *)
(***************************************************************************)
EXTENDS Naturals, Sequences, FiniteSets, SequencesExt

CONSTANTS
    Callers,          \* host threads that call read/write
    MaxReqs,          \* bound on the number of requests submitted in a run
    IoDepth,          \* aio_ctx->io_depth, the gate's limit
    QueueCapacity,    \* TASK_QUEUE_CAPACITY
    TakeOnceMax,      \* max_task of the callback thread (TASK_TAKE_ONCE_MAX)
    MaxNrEvent,       \* max_nr_event of io_getevents
    CloseWaitBudget,  \* wait_time of close(): polls of one second each
    DiskCheckEnabled, \* slow_disk_policy # SDC_PY_DIS
    QuiescentClose    \* the host calls close only when no read/write runs

ASSUME /\ Callers # {}
       /\ MaxReqs \in Nat \ {0}
       /\ IoDepth \in Nat \ {0}
       /\ QueueCapacity \in Nat \ {0}
       /\ TakeOnceMax \in Nat \ {0}
       /\ MaxNrEvent \in Nat \ {0}
       /\ CloseWaitBudget \in Nat \ {0}
       /\ DiskCheckEnabled \in BOOLEAN
       /\ QuiescentClose \in BOOLEAN

Reqs == 1..MaxReqs
NoReq == 0

\* MAX_IOCB_LSIT_LENGTH and the number of records datanode_aio_icobs_init
\* puts on the free list.
MaxIocbListLength == QueueCapacity + TakeOnceMax
IocbPoolSizeNoSlack == IoDepth + MaxIocbListLength  \* mutant: no room for a batch
IocbPoolSize == IoDepth * 2 + MaxIocbListLength

VARIABLES
    pc,           \* pc[c]: where caller c is in __datanode_aio_operation
    creq,         \* creq[c]: the request caller c is submitting
    nextReq,      \* the next request a caller will submit
    submitCount,  \* aio_ctx->submit_count
    freeIocbs,    \* number of records on aio_ctx->user_iocb_list
    kernel,       \* requests submitted by io_submit and not yet harvested
    evBatch,      \* harvested events not handled yet, in the kernel's order
    queue,        \* tq_hdr->task_list, in FIFO order
    cbBatch,      \* task_lists[] taken by the callback thread, not yet done
    notified,     \* notified[r]: times r's completion callback ran
    isSlowDisk,   \* aio_ctx->is_slow_disk
    slowNotified, \* times the slow-disk callback ran
    stop,         \* aio_ctx->stop_event_flag
    finishedEvent,    \* aio_ctx->finished_event_flag
    finishedCallback, \* aio_ctx->finished_callback_flag
    closePc,      \* where the closing thread is in close()
    waitTime,     \* close()'s wait_time
    freed,        \* __async_io_free has run
    pending       \* history: harvested requests not yet notified, in the
                  \* order io_getevents returned them

callerVars == <<pc, creq, nextReq>>
vars == <<pc, creq, nextReq, submitCount, freeIocbs, kernel, evBatch, queue,
          cbBatch, notified, isSlowDisk, slowNotified, stop, finishedEvent,
          finishedCallback, closePc, waitTime, freed, pending>>

-----------------------------------------------------------------------------
(* Helpers: one per function of the source that several actions call.     *)

\* callback_to_java for request r (the error code is not modelled).
Notify(r) == notified' = [notified EXCEPT ![r] = @ + 1]

\* insert_user_iocb_list: the record goes back to the free list.
InsertUserIocbList == freeIocbs' = freeIocbs + 1

\* aio_done_callback: run r's callback, then give its record back.
AioDoneCallback(r) ==
    /\ Notify(r)
    /\ InsertUserIocbList
    /\ pending' = SelectSeq(pending, LAMBDA x : x # r)

\* decrea_submit(aio_ctx, count); the broadcast only wakes waiters early,
\* the waiters re-check every second anyway.
DecreaSubmit(n) == submitCount' = submitCount - n

\* Mutant: task_queue_limit_offer tests size > capacity, so a full queue
\* takes one more node.
QueueHasRoomLe == Len(queue) <= QueueCapacity

\* task_queue_limit_offer: FALSE means -PY_TQ_EFULL.
QueueHasRoom == Len(queue) < QueueCapacity

-----------------------------------------------------------------------------
Init ==
    /\ pc = [c \in Callers |-> "idle"]
    /\ creq = [c \in Callers |-> NoReq]
    /\ nextReq = 1
    /\ submitCount = 0
    /\ freeIocbs = IocbPoolSize
    /\ kernel = {}
    /\ evBatch = <<>>
    /\ queue = <<>>
    /\ cbBatch = <<>>
    /\ notified = [r \in Reqs |-> 0]
    /\ isSlowDisk = FALSE
    /\ slowNotified = 0
    /\ stop = FALSE
    /\ finishedEvent = FALSE
    /\ finishedCallback = FALSE
    /\ closePc = "open"
    /\ waitTime = CloseWaitBudget
    /\ freed = FALSE
    /\ pending = <<>>

-----------------------------------------------------------------------------
(* Caller thread c: AsyncFileAccessor_read/write -> __datanode_aio_operation *)

\* The host calls read or write (NewGlobalRef, method id lookup).
Begin(c) ==
    /\ pc[c] = "idle"
    /\ closePc = "open"
    /\ nextReq <= MaxReqs
    /\ pc' = [pc EXCEPT ![c] = "gate"]
    /\ creq' = [creq EXCEPT ![c] = nextReq]
    /\ nextReq' = nextReq + 1
    /\ UNCHANGED <<submitCount, freeIocbs, kernel, evBatch, queue, cbBatch,
                   notified, isSlowDisk, slowNotified, stop, finishedEvent,
                   finishedCallback, closePc, waitTime, freed, pending>>

\* Mutant: the wait loop tests submit_count > io_depth.
IncreaSubmitLe(c) ==
    /\ pc[c] = "gate"
    /\ submitCount <= IoDepth
    /\ submitCount' = submitCount + 1
    /\ pc' = [pc EXCEPT ![c] = "pool"]
    /\ UNCHANGED <<creq, nextReq, freeIocbs, kernel, evBatch, queue, cbBatch,
                   notified, isSlowDisk, slowNotified, stop, finishedEvent,
                   finishedCallback, closePc, waitTime, freed, pending>>

\* increa_submit: the timed wait loops while submit_count >= io_depth.
IncreaSubmit(c) ==
    /\ pc[c] = "gate"
    /\ submitCount < IoDepth
    /\ submitCount' = submitCount + 1
    /\ pc' = [pc EXCEPT ![c] = "pool"]
    /\ UNCHANGED <<creq, nextReq, freeIocbs, kernel, evBatch, queue, cbBatch,
                   notified, isSlowDisk, slowNotified, stop, finishedEvent,
                   finishedCallback, closePc, waitTime, freed, pending>>

\* get_free_user_iocb_list; on NULL: release_submit and the error callback.
GetFreeUserIocbList(c) ==
    /\ pc[c] = "pool"
    /\ IF freeIocbs > 0
         THEN /\ freeIocbs' = freeIocbs - 1
              /\ pc' = [pc EXCEPT ![c] = "submit"]
              /\ UNCHANGED <<creq, submitCount, notified>>
         ELSE /\ DecreaSubmit(1)
              /\ Notify(creq[c])
              /\ pc' = [pc EXCEPT ![c] = "idle"]
              /\ creq' = [creq EXCEPT ![c] = NoReq]
              /\ UNCHANGED freeIocbs
    /\ UNCHANGED <<nextReq, kernel, evBatch, queue, cbBatch, isSlowDisk,
                   slowNotified, stop, finishedEvent, finishedCallback,
                   closePc, waitTime, freed, pending>>

\* Mutant: the failed io_submit path skips release_submit.
IoSubmitNoRelease(c) ==
    /\ pc[c] = "submit"
    /\ \/ /\ kernel' = kernel \cup {creq[c]}
          /\ UNCHANGED <<submitCount, freeIocbs, notified>>
       \/ /\ InsertUserIocbList
          /\ Notify(creq[c])
          /\ UNCHANGED <<kernel, submitCount>>
    /\ pc' = [pc EXCEPT ![c] = "idle"]
    /\ creq' = [creq EXCEPT ![c] = NoReq]
    /\ UNCHANGED <<nextReq, evBatch, queue, cbBatch, isSlowDisk, slowNotified,
                   stop, finishedEvent, finishedCallback, closePc, waitTime,
                   freed, pending>>

\* io_prep_*, the io_pattern update and io_submit.  On success the record
\* belongs to the kernel; on failure release_list, release_submit and the
\* error callback.
IoSubmit(c) ==
    /\ pc[c] = "submit"
    /\ \/ /\ kernel' = kernel \cup {creq[c]}
          /\ UNCHANGED <<submitCount, freeIocbs, notified>>
       \/ /\ InsertUserIocbList
          /\ DecreaSubmit(1)
          /\ Notify(creq[c])
          /\ UNCHANGED kernel
    /\ pc' = [pc EXCEPT ![c] = "idle"]
    /\ creq' = [creq EXCEPT ![c] = NoReq]
    /\ UNCHANGED <<nextReq, evBatch, queue, cbBatch, isSlowDisk, slowNotified,
                   stop, finishedEvent, finishedCallback, closePc, waitTime,
                   freed, pending>>

-----------------------------------------------------------------------------
(* Event thread: datanode_aio_event_handler                                *)

\* Mutant: io_getevents called with min_nr 2.
GetEventsMinNr2 ==
    /\ ~finishedEvent
    /\ evBatch = <<>>
    /\ \E S \in SUBSET kernel : \E order \in SetToSeqs(S) :
          /\ Cardinality(S) >= 2
          /\ Cardinality(S) <= MaxNrEvent
          /\ evBatch' = order
          /\ pending' = pending \o order
          /\ kernel' = kernel \ S
          /\ DecreaSubmit(Cardinality(S))
    /\ UNCHANGED <<callerVars, freeIocbs, queue, cbBatch, notified, isSlowDisk,
                   slowNotified, stop, finishedEvent, finishedCallback,
                   closePc, waitTime, freed>>

\* io_getevents returns r > 0 events, in an order of the kernel's choosing;
\* decrea_submit(aio_ctx, r).
GetEvents ==
    /\ ~finishedEvent
    /\ evBatch = <<>>
    /\ \E S \in SUBSET kernel : \E order \in SetToSeqs(S) :
          /\ S # {}
          /\ Cardinality(S) <= MaxNrEvent
          /\ evBatch' = order
          /\ pending' = pending \o order
          /\ kernel' = kernel \ S
          /\ DecreaSubmit(Cardinality(S))
    /\ UNCHANGED <<callerVars, freeIocbs, queue, cbBatch, notified, isSlowDisk,
                   slowNotified, stop, finishedEvent, finishedCallback,
                   closePc, waitTime, freed>>

\* Mutant: the inline callback is taken when the offer returns 0 as well
\* (poll_ret <= 0 for poll_ret < 0).
HandleEventOfferLe0 ==
    /\ evBatch # <<>>
    /\ LET r == Head(evBatch) IN
          IF QueueHasRoom
            THEN /\ queue' = Append(queue, r)
                 /\ AioDoneCallback(r)
            ELSE /\ AioDoneCallback(r)
                 /\ UNCHANGED queue
    /\ evBatch' = Tail(evBatch)
    /\ UNCHANGED <<callerVars, submitCount, kernel, cbBatch, isSlowDisk,
                   slowNotified, stop, finishedEvent, finishedCallback,
                   closePc, waitTime, freed>>

\* Mutant: the loop over events[] handles them in any order, not j = 0..r-1.
HandleEventAnyOrder ==
    /\ \E j \in DOMAIN evBatch :
          LET r == evBatch[j] IN
          /\ evBatch' = RemoveAt(evBatch, j)
          /\ IF QueueHasRoom
               THEN /\ queue' = Append(queue, r)
                    /\ UNCHANGED <<notified, freeIocbs, pending>>
               ELSE /\ AioDoneCallback(r)
                    /\ UNCHANGED queue
    /\ UNCHANGED <<callerVars, submitCount, kernel, cbBatch, isSlowDisk,
                   slowNotified, stop, finishedEvent, finishedCallback,
                   closePc, waitTime, freed>>

\* events[j] for j = 0 .. r-1: filter_io, then task_queue_limit_offer, or
\* aio_done_callback inline when the queue is full.
HandleEvent ==
    /\ evBatch # <<>>
    /\ LET r == Head(evBatch) IN
          IF QueueHasRoom
            THEN /\ queue' = Append(queue, r)
                 /\ UNCHANGED <<notified, freeIocbs, pending>>
            ELSE /\ AioDoneCallback(r)
                 /\ UNCHANGED queue
    /\ evBatch' = Tail(evBatch)
    /\ UNCHANGED <<callerVars, submitCount, kernel, cbBatch, isSlowDisk,
                   slowNotified, stop, finishedEvent, finishedCallback,
                   closePc, waitTime, freed>>

\* io_getevents returns 0 after its one-second timeout; the thread leaves
\* its loop when stop_event_flag is set and submit_count (read without the
\* lock) is 0.
EventTimeout ==
    /\ ~finishedEvent
    /\ evBatch = <<>>
    /\ finishedEvent' = (stop /\ submitCount = 0)
    /\ UNCHANGED <<callerVars, submitCount, freeIocbs, kernel, evBatch, queue,
                   cbBatch, notified, isSlowDisk, slowNotified, stop,
                   finishedCallback, closePc, waitTime, freed, pending>>

-----------------------------------------------------------------------------
(* Callback thread: datanode_aio_callback_handler                          *)

\* task_queue_take returns up to max_task nodes in FIFO order.
TaskQueueTake ==
    /\ ~finishedCallback
    /\ cbBatch = <<>>
    /\ queue # <<>>
    /\ LET n == IF Len(queue) < TakeOnceMax THEN Len(queue) ELSE TakeOnceMax
       IN /\ cbBatch' = SubSeq(queue, 1, n)
          /\ queue' = SubSeq(queue, n + 1, Len(queue))
    /\ UNCHANGED <<callerVars, submitCount, freeIocbs, kernel, evBatch,
                   notified, isSlowDisk, slowNotified, stop, finishedEvent,
                   finishedCallback, closePc, waitTime, freed, pending>>

\* One taken node: the slow-disk checker while the latch is unset, then
\* aio_done_callback.
DispatchNode ==
    /\ cbBatch # <<>>
    /\ \/ /\ DiskCheckEnabled /\ ~isSlowDisk
          /\ isSlowDisk' = TRUE
          /\ slowNotified' = slowNotified + 1
       \/ UNCHANGED <<isSlowDisk, slowNotified>>
    /\ AioDoneCallback(Head(cbBatch))
    /\ cbBatch' = Tail(cbBatch)
    /\ UNCHANGED <<callerVars, submitCount, kernel, evBatch, queue, stop,
                   finishedEvent, finishedCallback, closePc, waitTime, freed>>

\* Mutant: the callback thread leaves without waiting for the event thread.
TakeTimeoutNoEvent ==
    /\ ~finishedCallback
    /\ cbBatch = <<>>
    /\ queue = <<>>
    /\ finishedCallback' = (stop /\ submitCount = 0)
    /\ UNCHANGED <<callerVars, submitCount, freeIocbs, kernel, evBatch, queue,
                   cbBatch, notified, isSlowDisk, slowNotified, stop,
                   finishedEvent, closePc, waitTime, freed, pending>>

\* task_queue_take times out on an empty queue; the thread leaves its loop
\* when stop, finished_event_flag, an empty queue and submit_count == 0.
TakeTimeout ==
    /\ ~finishedCallback
    /\ cbBatch = <<>>
    /\ queue = <<>>
    /\ finishedCallback' = (stop /\ finishedEvent /\ submitCount = 0)
    /\ UNCHANGED <<callerVars, submitCount, freeIocbs, kernel, evBatch, queue,
                   cbBatch, notified, isSlowDisk, slowNotified, stop,
                   finishedEvent, closePc, waitTime, freed, pending>>

-----------------------------------------------------------------------------
(* Host thread: AsyncFileAccessor_close                                    *)

CloseBegin ==
    /\ closePc = "open"
    /\ QuiescentClose => \A c \in Callers : pc[c] = "idle"
    /\ stop' = TRUE
    /\ closePc' = "waitEvent"
    /\ waitTime' = CloseWaitBudget
    /\ UNCHANGED <<callerVars, submitCount, freeIocbs, kernel, evBatch, queue,
                   cbBatch, notified, isSlowDisk, slowNotified, finishedEvent,
                   finishedCallback, freed, pending>>

\* One iteration of a `while (wait_time > 0)` loop of close(): the flag is
\* checked, else sleep(1) and wait_time--.
CloseWait(phase, flag, after) ==
    /\ closePc = phase
    /\ IF waitTime > 0 /\ ~flag
         THEN /\ waitTime' = waitTime - 1
              /\ UNCHANGED closePc
         ELSE /\ closePc' = after
              /\ waitTime' = CloseWaitBudget
    /\ UNCHANGED <<callerVars, submitCount, freeIocbs, kernel, evBatch, queue,
                   cbBatch, notified, isSlowDisk, slowNotified, stop,
                   finishedEvent, finishedCallback, freed, pending>>

\* After both loops: __async_io_free only if finished_callback_flag is set,
\* otherwise the resources are left allocated.
CloseFree ==
    /\ closePc = "decide"
    /\ closePc' = IF finishedCallback THEN "closed" ELSE "leaked"
    /\ freed' = finishedCallback
    /\ UNCHANGED <<callerVars, submitCount, freeIocbs, kernel, evBatch, queue,
                   cbBatch, notified, isSlowDisk, slowNotified, stop,
                   finishedEvent, finishedCallback, waitTime, pending>>

-----------------------------------------------------------------------------
Next ==
    \/ \E c \in Callers :
          \/ Begin(c)
          \/ IncreaSubmit(c)
          \/ GetFreeUserIocbList(c)
          \/ IoSubmit(c)
    \/ GetEvents
    \/ HandleEvent
    \/ EventTimeout
    \/ TaskQueueTake
    \/ DispatchNode
    \/ TakeTimeout
    \/ CloseBegin
    \/ CloseWait("waitEvent", finishedEvent, "waitCallback")
    \/ CloseWait("waitCallback", finishedCallback, "decide")
    \/ CloseFree

\* Worker threads and callers already inside a call keep running; the
\* kernel completes every submitted request; the host's choice to start a
\* call or to close is not fair.
Fairness ==
    /\ \A c \in Callers :
          /\ WF_vars(IncreaSubmit(c))
          /\ WF_vars(GetFreeUserIocbList(c))
          /\ WF_vars(IoSubmit(c))
    /\ WF_vars(GetEvents)
    /\ WF_vars(HandleEvent)
    /\ WF_vars(EventTimeout)
    /\ WF_vars(TaskQueueTake)
    /\ WF_vars(DispatchNode)
    /\ WF_vars(TakeTimeout)
    /\ WF_vars(CloseWait("waitEvent", finishedEvent, "waitCallback"))
    /\ WF_vars(CloseWait("waitCallback", finishedCallback, "decide"))
    /\ WF_vars(CloseFree)

Spec == Init /\ [][Next]_vars /\ Fairness

-----------------------------------------------------------------------------
(* Properties                                                              *)

\* Where each request's record is: with a caller, in the kernel, in the
\* event thread's batch, in the task queue or in the callback thread's batch.
HeldByCaller == {creq[c] : c \in {d \in Callers : pc[d] = "submit"}}
Stages == <<HeldByCaller, kernel, ToSet(evBatch), ToSet(queue), ToSet(cbBatch)>>
InUse == UNION {Stages[i] : i \in DOMAIN Stages}

TypeOK ==
    /\ pc \in [Callers -> {"idle", "gate", "pool", "submit"}]
    /\ creq \in [Callers -> Reqs \cup {NoReq}]
    /\ nextReq \in 1..(MaxReqs + 1)
    /\ submitCount \in 0..IoDepth
    /\ freeIocbs \in 0..IocbPoolSize
    /\ kernel \in SUBSET Reqs
    /\ evBatch \in Seq(Reqs) /\ Len(evBatch) <= MaxNrEvent
    /\ queue \in Seq(Reqs) /\ Len(queue) <= QueueCapacity
    /\ cbBatch \in Seq(Reqs) /\ Len(cbBatch) <= TakeOnceMax
    /\ notified \in [Reqs -> Nat]
    /\ isSlowDisk \in BOOLEAN /\ slowNotified \in Nat
    /\ stop \in BOOLEAN /\ finishedEvent \in BOOLEAN
    /\ finishedCallback \in BOOLEAN /\ freed \in BOOLEAN
    /\ closePc \in {"open", "waitEvent", "waitCallback", "decide", "closed",
                    "leaked"}
    /\ waitTime \in 0..CloseWaitBudget

\* Exclusive ownership of control blocks (spec 3, ControlBlockRecord): a
\* record is in exactly one stage, none is lost or returned twice (free list
\* plus records in use is the pool size), and a request is notified at most
\* once and only after its record has left every stage.
RecordOwnership ==
    /\ \A i, j \in DOMAIN Stages :
          i # j => Stages[i] \cap Stages[j] = {}
    /\ Len(queue) = Cardinality(ToSet(queue))
    /\ Len(evBatch) = Cardinality(ToSet(evBatch))
    /\ Len(cbBatch) = Cardinality(ToSet(cbBatch))
    /\ freeIocbs + Cardinality(InUse) = IocbPoolSize
    /\ \A r \in Reqs : notified[r] <= 1 /\ (notified[r] = 1 => r \notin InUse)

\* The gate's counter (increa_submit/decrea_submit, and the decrement by r
\* in the event thread) counts exactly the requests in the kernel and the
\* callers between the gate and io_submit, so in-flight I/O never exceeds
\* io_depth and a failed submission gives its slot back.
GateAccounting ==
    submitCount = Cardinality(kernel)
                  + Cardinality({c \in Callers : pc[c] \in {"pool", "submit"}})

\* The free list sized io_depth * 2 + MAX_IOCB_LSIT_LENGTH is never empty
\* when a caller that passed the gate asks get_free_user_iocb_list for a
\* record, whatever the queue, the two batches and the kernel hold.
PoolNeverExhausted ==
    \A c \in Callers : pc[c] = "pool" => freeIocbs > 0

\* close() frees the context only when nothing can touch it any more: no
\* caller is inside read/write and no request is left in the kernel or in
\* a stage of the worker threads.
ClosedOnlyWhenDrained ==
    freed => /\ \A c \in Callers : pc[c] = "idle"
             /\ InUse = {}

\* Spec 4.7: notifications dispatched through the hand-off queue keep the
\* order in which io_getevents reported the completions; only those that
\* went inline on a full queue may overtake them.  The event thread's loop
\* over events[], the queue's FIFO and the callback thread's batch must
\* all preserve it.
\* Stated over the requests harvested and not yet notified: they wait in
\* the callback thread's batch, then the queue, then the event thread's
\* batch, each in harvest order, so the next one the callback thread
\* notifies is always the earliest of them.
QueuedInHarvestOrder ==
    pending = cbBatch \o queue \o evBatch

\* Every request a caller started is eventually notified (spec 6: "invoked
\* exactly once"), through the queue, inline on a full queue, or through
\* an error path.
EveryRequestNotified ==
    \A r \in Reqs : (r < nextReq) ~> (notified[r] > 0)

=============================================================================
