# TLA+ models of liblinux-async-io

This directory holds TLA+ models of the native asynchronous disk I/O library
used by the data node. The library lives under
`src/src/main/resources/liblinux-async-io/`. Every model is checked with TLC.

## 1. The system

One `AsyncFileAccessor.open()` builds an **I/O context** (`datanode_aio_ctx`,
`lib/liblinux-async-io.c`). It holds the following:

| State | Code | Kept by |
|---|---|---|
| kernel AIO context, file descriptor | `ctx`, `fd` | open / close |
| submission gate | `submit_count`, `io_depth`, `submit_mutex`, `submit_cond` | `increa_submit`, `decrea_submit` |
| control-block pool | `user_iocb_list`, `user_iocb_list_lock`, sized `io_depth*2 + MAX_IOCB_LSIT_LENGTH` | `get_free_user_iocb_list`, `insert_user_iocb_list` |
| hand-off queue | `tq_hdr` (`lib/task_queue.c`, capacity 1024, take ≤ 64) | `task_queue_offer`, `task_queue_take` |
| thread flags | `stop_event_flag`, `finished_event_flag`, `finished_callback_flag` | worker threads, close |
| slow-disk detector | `disk_checker` (three rings), `is_slow_disk`, `policy`, `filter_io` | `lib/slow-disk-checker.c` |
| I/O pattern | `io_pattern` (`last_op`, `last_offset`, `contiguous`, `interval`) | submitters, event thread |

Four kinds of thread act on a context:

* **Callers** (`__datanode_aio_operation`, 465-555), from any host thread, go
  through these steps in order:
  1. pass the gate (`increa_submit` waits while `submit_count == io_depth`);
  2. take a record from the pool;
  3. update `io_pattern`;
  4. `io_submit`.

  On failure, a caller gives the record and the gate slot back and notifies
  the host with the error.
* **The event thread** (`datanode_aio_event_handler`, 675-821) loops:
  1. `io_getevents` returns up to 8 completions and the thread releases their
     gate slots at once (`decrea_submit(r)`);
  2. each completion is classified for the detector;
  3. it is offered to the queue, and when the queue is full the thread calls
     `aio_done_callback` inline.

  It leaves when `stop_event_flag` is set and `submit_count` is 0.
* **The callback thread** (`datanode_aio_callback_handler`, 579-673) takes up
  to 64 nodes from the queue. For each node it feeds the detector, may
  latch `is_slow_disk` and notify the host once, and calls
  `aio_done_callback`. That call notifies the host and returns the record to
  the pool. The thread leaves when the flags say the event thread is done, the
  queue is empty and `submit_count` is 0.
* **The host** calls `close()` (862-911). It sets `stop_event_flag`, polls
  each thread's finished flag five times one second apart, and frees the
  context only if the callback thread finished.

The **slow-disk detector** has three parts:

* **Classifier.** `filter_io_type_await` / `_cost`
  (`slow-disk-checker.c` 327-395) labels each completion SEQUENTIAL, RANDOM
  or UNCLASSIFIED.
* **Ring window.** A sample goes into one of three rings, chosen by the label
  and the opcode. `calculate_io_median_time` (154-199) keeps a window of the
  last `capacity` latencies, counts those above and at-or-below the threshold,
  and on a full window where more are above:
  1. empties the ring (`clean_io_ring`);
  2. increments `over_times`;
  3. reports slow on the `MAX_OVER_TIMES_SLOW_DISK`-th consecutive time.
* **Latch.** The callback thread latches `is_slow_disk` and tells the host
  once.

The hard behaviours are:

* the interleaving of callers, the two workers and close;
* the gate released before the queue hand-off;
* the inline fallback when the queue is full;
* the error paths of submission;
* close's bounded waits;
* the ring's modular cursor, partial reset and hysteresis;
* classification that reads state advanced by a different thread than the
  one that produced it.

## 2. Modules

| Module | Models | Abstracts |
|---|---|---|
| `AioEngine` | context, gate, pool, queue use, both worker threads, close (`liblinux-async-io.c`, `task_queue.c`) | I/O data and offsets, JNI; a record is identified by its request; the kernel completes any subset of what it holds; the detector is the latch only |
| `MCAioEngine` | constants for TLC | |
| `SlowWindow` | abstract promise of one latency window: the sequence of the last `Capacity` non-zero samples, the over-times counter and the latch | |
| `RingWindow` | `calculate_io_median_time` and `clean_io_ring` on a ring of slots, and the callback thread's latch | latencies are small integers; `tsc` conversion left out |
| `MCRingWindow` | constants for TLC | |
| `IoClassifier` | `io_pattern` updates at submission, `last_op` / `last_offset` at completion, both classification policies | the latency values, which do not decide the label |
| `MCIoClassifier` | constants for TLC | |
| `SlowDiskChecker` | `enableDiskCheck` (checker init, then the reference store, then the threshold stores, then the policy store, then the `filter_io` store), the event thread's classification of reused records, `slow_disk_checker_handler` / `_cost` choosing one of three rings and its threshold, `calculate_io_median_time` with its `u_int32_t` counters, the latch and the single notification, the callback object's global reference (`NewGlobalRef`, the delete in `callback_to_java`, the delete at the callback thread's exit) | labels and latencies are any value the installed filter can write (`IoClassifier` decides which); a ring's slots are the window sequence of `RingWindow`'s refinement mapping; when the callback thread may exit is `AioEngine`'s subject |
| `MCSlowDiskChecker` | constants for TLC | |
| `BoundedFifo` | abstract promise of `task_queue.c`: a FIFO of nodes whose bounded offer drops on a full queue and whose take hands out a prefix | |
| `TaskQueue` | `task_queue_offer` (limit and unlimit), `task_queue_take` with its timed wait, signal and timeout, for several consumers | a node is an integer; the mutex is the atomicity of each action |
| `MCTaskQueue` | constants for TLC | |
| `AioOpen` | `open()` step by step for concurrent opens: `calloc`, `GetJavaVM`, the file name, `open(2)`, `task_queue_init`, `datanode_aio_icobs_init`, `datanode_io_pattern_init`, `io_setup`, `datanode_aio_thread` | each resource is a name; each step succeeds or takes the failure path the code has |
| `MCAioOpen` | constants and symmetry for TLC | |
| `Bfprt` | `bfprt.c` (`swap`, `InsertSort`, `GetPivotIndex`, `Partition`, `BFPRT`) as RECURSIVE operators on arrays `0..n-1 -> values`, each returning the array it leaves and the index it returns | |
| `MCBfprt` | the input arrays for TLC | |

`AioEngine` has one action per step of each thread, named after the code:
* callers: `Begin`, `IncreaSubmit`, `GetFreeUserIocbList`, `IoSubmit` (with
  its failure branch);
* event thread: `GetEvents`, `HandleEvent`, `EventTimeout`;
* callback thread: `TaskQueueTake`, `DispatchNode`, `TakeTimeout`;
* host: `CloseBegin`, `CloseWait`, `CloseFree`.

The helpers `AioDoneCallback`, `DecreaSubmit` and `InsertUserIocbList` are
parts of the actions that call them.

`GetEvents` takes any non-empty subset of the kernel's requests, up to
`max_nr_event`, in any order: `evBatch` is the `events[]` array in the order
`io_getevents` returned it, and `HandleEvent` takes its head, as the loop over
`j` does. The history variable `pending` holds the harvested requests not yet
notified, in harvest order. A request leaves it when it is notified, so it adds
no states of its own.

`RingWindow` refines `SlowWindow` under the refinement mapping
`window <- Window, latched <- isSlowDisk`. `Window` reads the last `size`
slots behind `pos` in the ring.

`TaskQueue` refines `BoundedFifo` with `queue <- list`. The history variable
`lastLimit` records whether the last offer was bounded, so that an offer which
passes the capacity cannot be matched by an unbounded abstract offer.

In `SlowDiskChecker` a ring is the sequence of samples that `RingWindow` is
shown to keep (its refinement mapping onto `SlowWindow`). Its `less` and `more`
counters are kept as `calculate_io_median_time` keeps them, because each call
counts against the threshold passed to that call. `Capacity` gives the ring's
size: the await policy gives every ring `SLOW_DISK_CHECK_INTERVAL_AWAIT` slots;
the cost policy gives the random ring `_RANDOM` slots and the read and write
rings `_SQUEN` slots. `Threshold` reads `slow_disk_random_ns` for the random
ring and `slow_disk_sequen_ns` for the other two, from the variables
`randomNs` and `sequenNs`. Both are 0 until `StoreThresholds`, which runs
after the new checker is published and before the policy is stored. The
counters are `u_int32_t`: a value is kept as the integer nearest 0 that is
congruent to it modulo 2^32, and `U32Lt` compares such values as unsigned. The
variable `staleFed` records whether a ring was ever fed a record whose label was
not written for its current request. Every `Submit` clears the record's `fresh`
flag, and every classification sets it.

`objSlowDisk` is the `enableDiskCheck` call whose global reference
`obj_slow_disk` holds (0 for NULL). `refUses[i]` counts the calls and deletes
made on reference `i`: `callback_to_java` calls through the reference and
deletes it, and `CallbackExit` deletes it when `is_slow_disk` is clear.

## 3. Runs

| Run | Expect | Shows |
|---|---|---|
| `engine_safety` (`MCAioEngine.cfg`) | pass | Checks these properties: <ul><li>every record is in exactly one stage and the pool count plus records in use is the pool size (`RecordOwnership`);</li><li>`submit_count` is exactly the requests in the kernel plus the callers past the gate but not yet submitted (`GateAccounting`);</li><li>the pool never runs dry (`PoolNeverExhausted`);</li><li>close frees only a drained context (`ClosedOnlyWhenDrained`);</li><li>the requests in the callback batch, the queue and the event batch are exactly the harvested, not yet notified ones, in harvest order, so notifications through the queue keep the order `io_getevents` returned them (spec 4.7, `QueuedInHarvestOrder`);</li><li>every request started is eventually notified (`EveryRequestNotified`).</li></ul>The host here calls `close` only when no read/write is in progress. |
| `engine_close_race` (`MCAioEngineCloseRace.cfg`) | violation | Without that contract, close frees the context while a caller is between entry and `increa_submit`. See the findings. |
| `ring_window` (`MCRingWindow.cfg`) | pass | The counters always match the window (`CountersMatchWindow`), and the ring implements `SlowWindow` (`AbstractSpec`). Ties, zero samples, the partial reset and three consecutive overflows are all covered. |
| `detector` (`MCSlowDiskChecker.cfg`) | pass | Two `enableDiskCheck` calls switch between the await and cost policies while records are classified and dispatched. The host is notified at most once (`SlowNotifiedOnce`), and every sample a ring takes was computed for the request the record carries (`SampleIsCurrent`). The callback object's global reference is never called through NULL, used after it was deleted or deleted twice, including when the callback thread exits after the latch (`GlobalRefUsedOnce`). The host passes the same thresholds on every enable here. |
| `detector_stale` (`MCSlowDiskCheckerStale.cfg`) | violation | Enable, DIS, enable again: a record reused while the policy is DIS keeps its old label, and the callback thread feeds it to a ring once the new policy is stored. See the findings. |
| `task_queue` (`MCTaskQueue.cfg`) | pass | Two consumers and a producer using bounded and unbounded offers. The queue implements `BoundedFifo` (`AbstractSpec`), a take never returns more than `count` nodes (`TypeOK`), and every queued node is eventually taken (`QueuedEventuallyTaken`). |
| `open_paths` (`MCAioOpen.cfg`) | pass | Two concurrent opens through every failure path: a context handed back owns its descriptor, queue, records and kernel context (`HandleOwnsContext`). |
| `open_leak` (`MCAioOpenFailedOpenIsClean.cfg`) | violation | A failed open is not clean (`FailedOpenIsClean`). It can leave the descriptor, queue or records allocated, because `out:` frees only `aio_ctx`. When `task_queue_init` or a mutex init fails, it returns a positive value, which the host cannot tell from a handle. |
| `open_threads` | violation | A failed `pthread_create` goes unnoticed, and open returns a context without its worker threads. |
| `bfprt_select` (`MCBfprt.cfg`) | pass | On every array of length 1 to 7 over {1,2,3}, and of length 10 and 11 over {1,2}, and for every k: BFPRT returns the k-th smallest element (`SelectsKthSmallest`), and the array it leaves is a permutation of the input (`PermutesInput`). |
| `classifier_await_order` | violation | The await policy compares each offset with the `last_offset` of the request that completed just before it, not the one submitted before it. In TLC's trace, a read at 0 is followed by a second request at 0. The second completes first and is labelled SEQUENTIAL, because it matches the initial `last_offset` of 0. |
| `classifier_cost_batch` | violation | The cost policy tests the in-flight count, not the batch size. |

Every property of a passing run has a mutant in `PROJECT.json`: a plausible
bug in the mapped definition that TLC shows breaks it.

### Bounds

**`MCAioEngine`** uses 2 callers, io_depth 2, a queue of capacity 1, take size
1, `max_nr_event` 2, 7 requests and one close poll. These bounds reach all of
the following:

* the gate full with a caller waiting;
* a full queue forcing the inline callback;
* a batch of two harvested at once while a caller passes the freed gate;
* the pool at its peak while a caller waits at `get_free_user_iocb_list`.
  The waiting caller holds one gate slot, so at most `D - 1` records are with
  callers or in the kernel. The harvested batch holds at most `D`, the queue
  `Q` and the callback batch `T`. That is `2D - 1 + Q + T = 5` records against
  a pool of `2D + Q + T = 6`.

Reaching that peak takes six live requests, and a bug that raises it takes a
seventh. `MaxReqs` is therefore 7, one more than the pool, so the request
count alone cannot keep the pool from running dry. A queue that takes one node
over its capacity (the mutant `QueueHasRoomLe`) raises the peak to the pool
size and breaks `PoolNeverExhausted`. With every order of a harvested batch
the run has about 500,000 states and takes about 3 minutes, most of it the
liveness check.

**`MCRingWindow`** uses capacity 4, threshold 2 and samples {0,1,2,3}. This
gives below-, at- and above-threshold samples plus the rejected zero. Three
overflows need 12 samples, and the state space is explored completely.

**`MCIoClassifier`** uses 4 operations over offsets {0, 8} with length 8. That
is enough for a repeated offset and a contiguous pair, either of them
completed ahead of the request submitted before it, and for a
single-request batch while three requests are in flight.

**`MCSlowDiskChecker`** uses these bounds:

* 2 records, 5 requests and a queue of capacity 1 (reused records and the inline path);
* samples 1 and 2, a random threshold of 1 and a sequential threshold of 2,
  the same on both enables. Sample 2 is above the threshold on the random ring
  and at it on the others. With two threshold pairs the run grows to 18.5
  million states;
* windows of 1 await sample, 1 random sample and 2 sequential samples;
* three overflows to latch, and two enables;
* the callback thread's exit, before or after the latch.

These bounds reach all of the following:

* the latch itself;
* a re-enable over a latched or half-filled checker;
* every interleaving of the five stores of `enableDiskCheck` with classification and dispatch.

The state space is about 4.5M states and takes about 50 s.

**`MCTaskQueue`** uses 2 consumers, capacity 2, take size 2 and 5 items. This
reaches the following:

* a bounded offer refused on a full queue;
* an unbounded offer past the capacity;
* a take of a partial batch;
* a signal that wakes a consumer which then finds the list empty.

**`MCAioOpen`** uses two files, so two opens interleave; the files are symmetric.

**`MCBfprt`** covers all of the following:

* arrays under six elements, which are sorted directly;
* arrays of 6 or 7 elements, giving one group of five plus a remainder;
* arrays of 10 or 11 elements, giving two groups and a recursive median of medians.

### Fairness

Fairness is weak, and it is assumed for:

* each step of a caller that is already inside a call;
* every step of both worker threads (each blocks at most one second in
  `io_getevents` / `task_queue_take` and then re-checks);
* the close polls.

In `TaskQueue`, the consumer's steps (take, resume after a signal, timeout)
are weakly fair. The callback thread loops on `task_queue_take` and does
nothing else. The producer is not fair.

`Begin` and `CloseBegin` are not fair. The host decides when to call.

`GetEvents` is fair because the kernel completes every submitted request.
The gate wait is a one-second timed wait followed by a re-check, which the
guard of `IncreaSubmit` models.

## 4. Findings

* **open() leaks on failure and can return a positive error**
  (`liblinux-async-io.c` 232-247 and 203-208). `out:` frees only `aio_ctx`.
  A failed `task_queue_init` returns `PY_E_SYS`, and a failed mutex init
  returns its errno. Both values are positive, so the host can take them for a
  handle. Spec 7 says every partially built resource is released.
* **Worker thread start failures go unseen** (`liblinux-async-io.c` 828-841).
  `pthread_create` returns a positive errno, so the test `ret < 0` never fires.
  On failure, `pthread_detach` is then called on an uninitialised id.
* **Stale samples after a disable and a re-enable** (`slow-disk-checker.c` 336).
  Spec 4.6 says the policy is "set once", but `enableDiskCheck` accepts repeated
  calls and DIS. A record reused while the policy is DIS keeps its previous
  `io_type` and `cost_tm`, and the callback thread feeds them to a ring after
  re-enable.

* **Close races a starting read/write** (`liblinux-async-io.c` 482, 801, 652).
  Nothing stops a call that entered before `close` from reaching the gate
  after both threads have seen `submit_count == 0` and left.
* **Await classification follows completion order** (`slow-disk-checker.c`
  338). The spec (4.6) says submission order.
* **The cost policy's `MIN_SUBMIT_EVENTS` test reads `submit_count`**
  (`slow-disk-checker.c` 388, `liblinux-async-io.c` 718). The spec says the
  batch size.

## 5. Not modelled, and why

* `udpServer.c`. Spec section 1 puts it out of scope: it is a network echo utility that
  shares no state with the engine. Its hazards are real but each would be a
  property the code violates:
  * a failed `bind` or `pthread_create` leaks the socket;
  * `close(fd)` does not wake a thread blocked in `recvfrom`, and the number
    may be reused by another open;
  * one global `pause_socket` flag pauses every server.

  They are left to a model of that file of its own.
* Logging, profiling, `DEBUG_IO_TIME` offset storage and `tsc` conversion.
  No decision depends on them.
* The JNI headers, and `AttachCurrentThread` and `DetachCurrentThread` as
  calls. A failed attach makes the worker return at once, which `AioOpen`
  models as a worker that never started. The per-request callback references
  are deleted by the single notification of each request, which `AioEngine`
  checks.
* A re-enable that changes the thresholds. The model has the steps, and
  `ThresholdPairs` can hold two pairs, but no run checks the ring counters
  against the window across such a re-enable. The new checker is published before the
  thresholds are stored, so samples fed in between are counted in against the
  old threshold and counted out against the new one. Until the next
  `clean_io_ring`, the overflow decision then uses counts that do not describe
  the window. A lowered threshold can even take `more` below 0, which as a
  `u_int32_t` forces an overflow. Spec 4.6 has the configuration set once.
  `detector_stale` is the run that shows re-enables breaking the detector, and
  this case is listed as a hazard.
* The references and checkers that a re-enable overwrites without releasing
  them. They leak, but no property of the engine depends on them.
* A failed `pthread_mutex_lock` in `increa_submit`. It happens only on a
  destroyed mutex, that is in the race with close that `engine_close_race`
  already shows.
* `io_submit` returning 0 for one iocb. Linux does not do this for `nr = 1`.
* The `u16` wrap of `io_pattern.contiguous` is not reached. `IoClassifier`
  counts it modulo 2^16 as the code does, but the wrap takes 65536
  same-opcode submissions. It costs one unclassified sample per wrap.
* The unlocked `total_nbytes` updates. This is a statistic that nothing reads.
* Spec 4.6 says samples are still recorded after the latch. The callback thread
  stops calling the checker once `is_slow_disk` is set, so they are not.
  `SlowDiskChecker` models the code. No property checks this, because the
  difference is visible only in diagnostics.
* `bfprt.c` is not called by the library. `Bfprt` checks it against its
  contract only.
