--------------------------- MODULE SlowDiskChecker ---------------------------
(***************************************************************************)
(* The slow-disk detector as the three threads of a context drive it:     *)
(*   - the host thread running enableDiskCheck (liblinux-async-io.c       *)
(*     250-307), which builds a new checker and then stores the callback *)
(*     object, the thresholds, the policy and the classifier, or sets the *)
(*     policy to DIS;                                                     *)
(*   - the event thread, which classifies each completion with the        *)
(*     installed filter_io and hands it to the queue;                     *)
(*   - the callback thread, which feeds the classified latency to the     *)
(*     ring chosen by slow_disk_checker_cost and latches is_slow_disk.    *)
(* The host's callback object is a JNI global reference: NewGlobalRef in *)
(* enableDiskCheck, DeleteGlobalRef in callback_to_java after the slow-    *)
(* disk notification, or in the callback thread's exit when no            *)
(* notification was made.                                                  *)
(* Records are reused: a record keeps the io_type and cost_tm the filter  *)
(* last wrote into it.  Which label a filter chooses is IoClassifier's    *)
(* subject; here it is any label the installed filter can produce.  A    *)
(* ring is the sequence of samples RingWindow is shown to keep (its        *)
(* refinement of SlowWindow), with less and more kept as the code keeps   *)
(* them: each step counts against the threshold passed to that call, and *)
(* the thresholds are aio_ctx fields enableDiskCheck may change.          *)
(***************************************************************************)
EXTENDS Integers, Sequences

CONSTANTS
    Records,        \* the control blocks of user_iocb_list
    Samples,        \* cost_tm values a filter computes
    ThresholdPairs, \* <<sequential, random>> thresholds the host passes
    AwaitCap,       \* SLOW_DISK_CHECK_INTERVAL_AWAIT
    RandomCap,      \* SLOW_DISK_CHECK_INTERVAL_RANDOM
    SequenCap,      \* SLOW_DISK_CHECK_INTERVAL_SQUEN
    MaxOverTimes,   \* MAX_OVER_TIMES_SLOW_DISK
    QueueCapacity,  \* capacity of tq_hdr
    Policies,       \* the policies the host passes to enableDiskCheck
    MaxEnables,     \* bound on enableDiskCheck calls
    MaxIos          \* bound on submitted requests

Rings == {"random", "read", "write"}
Ops == {"read", "write"}

\* The capacity datanode_disk_checker_init gives ring g of a checker built
\* for policy k.
Capacity(k, g) == IF k = "await" THEN AwaitCap
                  ELSE IF g = "random" THEN RandomCap ELSE SequenCap

VARIABLES
    policy,       \* aio_ctx->slow_disk_policy: "dis", "await" or "cost"
    filterIo,     \* slow_disk_proerty.filter_io: "none", "await" or "cost"
    checker,      \* aio_ctx->disk_checker: its three rings
    isSlowDisk,   \* aio_ctx->is_slow_disk
    slowNotified, \* callback_to_java(..., -1) calls
    rec,          \* rec[r]: stage, opcode, io_type, cost_tm of record r
    queue,        \* tq_hdr->task_list
    ios,          \* requests submitted so far
    host,         \* enableDiskCheck: [pc, arg, calls]
    staleFed,     \* a ring was fed a label not computed for that request
    objSlowDisk,  \* aio_ctx->obj_slow_disk/mid_slow_disk: the enableDiskCheck
                  \* call whose global reference it holds, 0 for NULL
    refUses,      \* refUses[i]: calls that used and deleted reference i
                  \* (callback_to_java or DeleteGlobalRef); i = 0 is NULL
    cbExited,     \* the callback thread has left its loop
    sequenNs,     \* aio_ctx->slow_disk_sequen_ns
    randomNs      \* aio_ctx->slow_disk_random_ns

\* A ring of kind k as datanode_disk_checker_init leaves it: calloc'ed.
EmptyRing(k) == [kind |-> k, window |-> <<>>, less |-> 0, more |-> 0, overTimes |-> 0]

\* aio_ctx->disk_checker == NULL: a checker of kind "none".
NoChecker == [g \in Rings |-> EmptyRing("none")]
HasChecker == checker["random"].kind # "none"

refVars == <<objSlowDisk, refUses, cbExited>>
thrVars == <<sequenNs, randomNs>>
vars == <<policy, filterIo, checker, isSlowDisk, slowNotified, rec, queue,
          ios, host, staleFed, refVars, thrVars>>

RefIds == 0..MaxEnables

Init ==
    /\ policy = "dis" /\ filterIo = "none" /\ checker = NoChecker
    /\ isSlowDisk = FALSE /\ slowNotified = 0
    /\ rec = [r \in Records |-> [stage |-> "free", op |-> "read",
                                 ioType |-> "none", cost |-> 0, fresh |-> FALSE]]
    /\ queue = <<>> /\ ios = 0
    /\ host = [pc |-> "idle", arg |-> "dis", seq |-> 0, rnd |-> 0, calls |-> 0]
    /\ staleFed = FALSE
    /\ objSlowDisk = 0 /\ refUses = [i \in RefIds |-> 0] /\ cbExited = FALSE
    /\ sequenNs = 0 /\ randomNs = 0

-----------------------------------------------------------------------------
(* Host: enableDiskCheck.  A call with policy DIS stores the policy only.  *)
(* Any other call runs datanode_disk_checker_init, which publishes a new   *)
(* checker (the old one is not freed), then stores a new global reference *)
(* to the callback object (the old one is not deleted), then the two      *)
(* thresholds, then the policy, then the filter; the other threads may    *)
(* run between these stores.  The                                          *)
(* early exits on a bad quantile or threshold change nothing and are left  *)
(* out.                                                                    *)

EnableDiskCheck(p, sq, rd) ==
    /\ host.pc = "idle" /\ host.calls < MaxEnables
    /\ IF p = "dis"
         THEN /\ policy' = "dis"
              /\ host' = [host EXCEPT !.calls = @ + 1]
              /\ UNCHANGED checker
         ELSE /\ checker' = [g \in Rings |-> EmptyRing(p)]
              /\ host' = [pc |-> "ref", arg |-> p, seq |-> sq, rnd |-> rd,
                          calls |-> host.calls + 1]
              /\ UNCHANGED policy
    /\ UNCHANGED <<filterIo, isSlowDisk, slowNotified, rec, queue, ios, staleFed, refVars, thrVars>>

StoreRef ==
    /\ host.pc = "ref"
    /\ objSlowDisk' = host.calls
    /\ host' = [host EXCEPT !.pc = "thresholds"]
    /\ UNCHANGED <<policy, filterIo, checker, isSlowDisk, slowNotified, rec, queue,
                   ios, staleFed, refUses, cbExited, thrVars>>

StoreThresholds ==
    /\ host.pc = "thresholds"
    /\ sequenNs' = host.seq /\ randomNs' = host.rnd
    /\ host' = [host EXCEPT !.pc = "policy"]
    /\ UNCHANGED <<policy, filterIo, checker, isSlowDisk, slowNotified, rec, queue,
                   ios, staleFed, refVars>>

StorePolicy ==
    /\ host.pc = "policy"
    /\ policy' = host.arg
    /\ host' = [host EXCEPT !.pc = "filter"]
    /\ UNCHANGED <<filterIo, checker, isSlowDisk, slowNotified, rec, queue, ios, staleFed, refVars, thrVars>>

StoreFilter ==
    /\ host.pc = "filter"
    /\ filterIo' = host.arg
    /\ host' = [host EXCEPT !.pc = "idle"]
    /\ UNCHANGED <<policy, checker, isSlowDisk, slowNotified, rec, queue, ios, staleFed, refVars, thrVars>>

-----------------------------------------------------------------------------
(* Callers and the event thread. *)

\* __datanode_aio_operation: a free record is prepared and submitted;
\* io_type and cost_tm are left as they were.
Submit(r, o) ==
    /\ rec[r].stage = "free" /\ ios < MaxIos
    /\ rec' = [rec EXCEPT ![r].stage = "kernel", ![r].op = o, ![r].fresh = FALSE]
    /\ ios' = ios + 1
    /\ UNCHANGED <<policy, filterIo, checker, isSlowDisk, slowNotified, queue, host, staleFed, refVars, thrVars>>

\* Mutant: the filter's early return tests for the await policy only.
FilterAppliesAwaitOnly == policy = "await" /\ ~isSlowDisk

\* filter_io_type_await / _cost return at once when the policy is DIS or
\* the disk is already slow.
FilterApplies == policy # "dis" /\ ~isSlowDisk

\* The labels each filter writes: only the cost filter produces IO_X.
Labels(f) == IF f = "await" THEN {"random", "sequential"}
             ELSE {"random", "sequential", "x"}

\* datanode_aio_event_handler, one completion: filter_io when installed,
\* then task_queue_limit_offer, or aio_done_callback inline when full.
HandleEvent(r) ==
    /\ rec[r].stage = "kernel"
    /\ \E t \in Labels(filterIo), c \in Samples :
          LET classified == [rec[r] EXCEPT !.ioType = t, !.cost = c, !.fresh = TRUE]
              after == IF filterIo # "none" /\ FilterApplies THEN classified ELSE rec[r]
          IN IF Len(queue) < QueueCapacity
               THEN /\ rec' = [rec EXCEPT ![r] = [after EXCEPT !.stage = "queued"]]
                    /\ queue' = Append(queue, r)
               ELSE /\ rec' = [rec EXCEPT ![r] = [after EXCEPT !.stage = "free"]]
                    /\ UNCHANGED queue
    /\ UNCHANGED <<policy, filterIo, checker, isSlowDisk, slowNotified, ios, host, staleFed, refVars, thrVars>>

-----------------------------------------------------------------------------
(* Callback thread. *)

\* slow_disk_checker_cost: the random ring for IO_RANDOM, the read or
\* write ring by opcode for IO_SEQUENTIAL, no ring otherwise.
RingOf(x) == IF x.ioType = "random" THEN "random" ELSE x.op

\* less and more are u_int32_t.  A value is kept as the integer congruent
\* to it modulo 2^32 nearest to 0, so a decrement below 0 gives -1, which
\* stands for 2^32 - 1; the unsigned comparison puts those above the rest.
U32Lt(a, b) == IF (a < 0) = (b < 0) THEN a < b ELSE b < 0

\* calculate_io_median_time(io_ring, n, t) on ring c of capacity cap: the
\* sample under the cursor of a full ring (the window's oldest) is
\* evicted and counted out against t, n is counted in against t; a full
\* ring with less < more is an overflow and clean_io_ring empties it.
CalculateIoMedianTime(c, n, t, cap) ==
    IF n = 0 THEN [ring |-> c, slow |-> FALSE]
    ELSE LET full == Len(c.window) = cap
             out == IF full THEN Head(c.window) ELSE 0
             w == IF full THEN Append(Tail(c.window), n) ELSE Append(c.window, n)
             l == c.less - (IF full /\ ~(out > t) THEN 1 ELSE 0) + (IF n > t THEN 0 ELSE 1)
             m == c.more - (IF full /\ out > t THEN 1 ELSE 0) + (IF n > t THEN 1 ELSE 0)
         IN IF Len(w) < cap
              THEN [ring |-> [c EXCEPT !.window = w, !.less = l, !.more = m], slow |-> FALSE]
            ELSE IF U32Lt(l, m)
              THEN [ring |-> [c EXCEPT !.window = <<>>, !.less = 0, !.more = 0,
                                       !.overTimes = @ + 1],
                    slow |-> c.overTimes + 1 >= MaxOverTimes]
            ELSE [ring |-> [c EXCEPT !.window = w, !.less = l, !.more = m, !.overTimes = 0],
                  slow |-> FALSE]

\* The threshold slow_disk_checker_cost passes for ring g, read from
\* aio_ctx when the sample is fed.
Threshold(g) == IF g = "random" THEN randomNs ELSE sequenNs

\* slow_disk_checker_cost's call on ring g with sample s.
Calc(g, s) ==
    CalculateIoMedianTime(checker[g], s, Threshold(g), Capacity(checker[g].kind, g))

\* slow_disk_checker_handler on record x, then the latch and the single
\* callback_to_java of the callback thread, which calls through
\* obj_slow_disk and deletes it.
CheckerCost(x) ==
    IF x.ioType \in {"random", "sequential"}
      THEN LET g == RingOf(x)
               a == Calc(g, x.cost)
           IN /\ checker' = [checker EXCEPT ![g] = a.ring]
              /\ isSlowDisk' = (isSlowDisk \/ a.slow)
              /\ slowNotified' = IF a.slow THEN slowNotified + 1 ELSE slowNotified
              /\ staleFed' = (staleFed \/ ~x.fresh)
              /\ refUses' = IF a.slow THEN [refUses EXCEPT ![objSlowDisk] = @ + 1]
                                      ELSE refUses
      ELSE UNCHANGED <<checker, isSlowDisk, slowNotified, staleFed, refUses>>

\* Mutant: the detector is fed without testing the latch first.
DispatchNoLatchCheck ==
    /\ ~cbExited /\ queue # <<>>
    /\ LET r == Head(queue) IN
       /\ IF policy # "dis" /\ HasChecker
            THEN CheckerCost(rec[r])
            ELSE UNCHANGED <<checker, isSlowDisk, slowNotified, staleFed, refUses>>
       /\ rec' = [rec EXCEPT ![r].stage = "free"]
    /\ queue' = Tail(queue)
    /\ UNCHANGED <<policy, filterIo, ios, host, objSlowDisk, cbExited, thrVars>>

\* datanode_aio_callback_handler, one node taken from the queue: the
\* detector when enabled and not latched, then aio_done_callback.
Dispatch ==
    /\ ~cbExited /\ queue # <<>>
    /\ LET r == Head(queue) IN
       /\ IF policy # "dis" /\ ~isSlowDisk /\ HasChecker
            THEN CheckerCost(rec[r])
            ELSE UNCHANGED <<checker, isSlowDisk, slowNotified, staleFed, refUses>>
       /\ rec' = [rec EXCEPT ![r].stage = "free"]
    /\ queue' = Tail(queue)
    /\ UNCHANGED <<policy, filterIo, ios, host, objSlowDisk, cbExited, thrVars>>

\* Mutant: the exit deletes the reference whether or not the
\* notification already did.
CallbackExitAlways ==
    /\ ~cbExited /\ queue = <<>> /\ \A r \in Records : rec[r].stage = "free"
    /\ refUses' = IF objSlowDisk # 0 THEN [refUses EXCEPT ![objSlowDisk] = @ + 1]
                                     ELSE refUses
    /\ cbExited' = TRUE
    /\ UNCHANGED <<policy, filterIo, checker, isSlowDisk, slowNotified, rec, queue,
                   ios, host, staleFed, objSlowDisk, thrVars>>

\* The callback thread leaves its loop once the engine is stopped and
\* drained (the take timed out, the queue is empty and submit_count is 0;
\* when that happens is AioEngine's subject) and deletes obj_slow_disk
\* unless the notification already did.
CallbackExit ==
    /\ ~cbExited /\ queue = <<>> /\ \A r \in Records : rec[r].stage = "free"
    /\ refUses' = IF objSlowDisk # 0 /\ ~isSlowDisk
                     THEN [refUses EXCEPT ![objSlowDisk] = @ + 1]
                     ELSE refUses
    /\ cbExited' = TRUE
    /\ UNCHANGED <<policy, filterIo, checker, isSlowDisk, slowNotified, rec, queue,
                   ios, host, staleFed, objSlowDisk, thrVars>>

Next ==
    \/ \E p \in Policies, t \in ThresholdPairs : EnableDiskCheck(p, t[1], t[2])
    \/ StoreRef \/ StoreThresholds \/ StorePolicy \/ StoreFilter
    \/ \E r \in Records, o \in Ops : Submit(r, o)
    \/ \E r \in Records : HandleEvent(r)
    \/ Dispatch
    \/ CallbackExit

Spec == Init /\ [][Next]_vars

-----------------------------------------------------------------------------
\* The host hears of a slow disk at most once (spec 4.6), across
\* re-enables and with the event thread still classifying: is_slow_disk is
\* tested before every call into the checker and no path clears it.
SlowNotifiedOnce == slowNotified <= 1

\* Every latency a ring takes was computed by the filter for the request
\* the record carries now, not left in the reused record by an earlier
\* request: the filter and the callback thread must agree on when the
\* detector is on.
SampleIsCurrent == ~staleFed

\* Every call through the host's callback object, and every delete of it,
\* is on a live global reference: never through NULL, never on one
\* already deleted.  The reference is published before the policy, the
\* notification deletes it, and the callback thread's exit deletes it only
\* when is_slow_disk says the notification has not, across re-enables
\* that replace obj_slow_disk while the callback thread runs.
GlobalRefUsedOnce ==
    /\ refUses[0] = 0
    /\ \A i \in RefIds : refUses[i] <= 1
=============================================================================
