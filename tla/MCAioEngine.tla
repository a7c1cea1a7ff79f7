---------------------------- MODULE MCAioEngine ----------------------------
(* Instantiates AioEngine with a scaled-down context: two caller threads,  *)
(* io_depth 2, a task queue of one slot and a take of one node, so that    *)
(* the queue is full, the callback thread holds a batch, the event thread  *)
(* holds a batch and the kernel is at io_depth all at once.  At that     *)
(* peak 2*io_depth - 1 + 1 + 1 = 5 records are in use while a sixth       *)
(* caller waits at get_free; MaxReqs 7 is one more than the pool of 6, so *)
(* the pool bound is decided by the code and not by the request count.    *)
EXTENDS AioEngine

MCIoDepth == 2
MCQueueCapacity == 1
MCTakeOnceMax == 1
MCMaxNrEvent == 2
MCMaxReqs == 7
MCCloseWaitBudget == 1
=============================================================================
