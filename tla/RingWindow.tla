----------------------------- MODULE RingWindow -----------------------------
(***************************************************************************)
(* One struct ring_io_record_st of slow-disk-checker.c and the function   *)
(* that feeds it, calculate_io_median_time, as the callback thread calls  *)
(* it while aio_ctx->is_slow_disk is unset (datanode_aio_callback_handler *)
(* sets the latch on the first PY_TRUE).  Samples are latencies from a     *)
(* small set; 0 stands for an unset cost_tm.                              *)
(***************************************************************************)
EXTENDS Naturals, FiniteSets

CONSTANTS
    Capacity,      \* io_ring->capacity
    Threshold,     \* slow_disk_random_ns or slow_disk_sequen_ns
    Samples,       \* latencies the checker may be given
    MaxOverTimes   \* MAX_OVER_TIMES_SLOW_DISK

ASSUME /\ Capacity \in Nat \ {0}
       /\ Threshold \in Nat \ {0}
       /\ Samples \subseteq Nat /\ 0 \in Samples
       /\ MaxOverTimes \in Nat \ {0}

Slots == 0..(Capacity - 1)

VARIABLES
    ring,        \* io_ring->ring[0..capacity-1]
    pos,         \* io_ring->pos, the write cursor
    size,        \* io_ring->size
    less,        \* io_ring->less: samples <= threshold
    more,        \* io_ring->more: samples > threshold
    overTimes,   \* io_ring->over_times
    isSlowDisk   \* aio_ctx->is_slow_disk

vars == <<ring, pos, size, less, more, overTimes, isSlowDisk>>

\* datanode_disk_checker_init: the ring is calloc'ed.
Init ==
    /\ ring = [i \in Slots |-> 0]
    /\ pos = 0 /\ size = 0 /\ less = 0 /\ more = 0 /\ overTimes = 0
    /\ isSlowDisk = FALSE

\* clean_io_ring: bzero covers sizeof(capacity) * sizeof(u_int64_t) = 16
\* bytes, so only slots 0 and 1 are cleared; the counters are reset.
CleanIoRing(r) ==
    /\ ring' = [i \in Slots |-> IF i < 2 THEN 0 ELSE r[i]]
    /\ less' = 0 /\ more' = 0 /\ size' = 0 /\ pos' = 0

\* Mutant: the evicted sample is counted as above at the threshold itself.
EvictGe ==
    [less |-> less - (IF ring[pos] >= Threshold THEN 0 ELSE 1),
     more |-> more - (IF ring[pos] >= Threshold THEN 1 ELSE 0),
     size |-> size - 1]

\* The sample evicted from a full ring, and the one put in its slot.
Evict ==
    [less |-> less - (IF ring[pos] > Threshold THEN 0 ELSE 1),
     more |-> more - (IF ring[pos] > Threshold THEN 1 ELSE 0),
     size |-> size - 1]

Keep == [less |-> less, more |-> more, size |-> size]

Insert(c, n) ==
    [less |-> c.less + (IF n > Threshold THEN 0 ELSE 1),
     more |-> c.more + (IF n > Threshold THEN 1 ELSE 0),
     size |-> c.size + 1]

\* Mutant: the cursor wraps at capacity + 1.
NextPosOffByOne == (pos + 1) % (Capacity + 1)

\* io_ring->pos advances modulo the capacity.
NextPos == (pos + 1) % Capacity

\* Mutant: a tie counts as an overflow.
OverflowOnTie(c) == c.less <= c.more

\* A full window whose majority is above the threshold.
Overflow(c) == c.less < c.more

\* calculate_io_median_time(io_ring, nanosec, threshold); the callback
\* thread latches is_slow_disk on PY_TRUE.
CalculateIoMedianTime(n) ==
    /\ ~isSlowDisk
    /\ IF n = 0
         THEN UNCHANGED vars
         ELSE LET c == Insert(IF size = Capacity THEN Evict ELSE Keep, n)
                  r == [ring EXCEPT ![pos] = n]
              IN IF c.size < Capacity
                   THEN /\ ring' = r /\ pos' = NextPos
                        /\ size' = c.size /\ less' = c.less /\ more' = c.more
                        /\ UNCHANGED <<overTimes, isSlowDisk>>
                   ELSE IF Overflow(c)
                     THEN /\ CleanIoRing(r)
                          /\ overTimes' = overTimes + 1
                          /\ isSlowDisk' = (overTimes + 1 >= MaxOverTimes)
                     ELSE /\ ring' = r /\ pos' = NextPos
                          /\ size' = c.size /\ less' = c.less
                          /\ more' = c.more /\ overTimes' = 0
                          /\ UNCHANGED isSlowDisk

Next == \E n \in Samples : CalculateIoMedianTime(n)

Spec == Init /\ [][Next]_vars

-----------------------------------------------------------------------------
TypeOK ==
    /\ ring \in [Slots -> Samples]
    /\ pos \in Slots
    /\ size \in 0..Capacity
    /\ less \in 0..Capacity /\ more \in 0..Capacity
    /\ overTimes \in 0..MaxOverTimes
    /\ isSlowDisk \in BOOLEAN

\* The samples of the live window: the size slots written last, oldest
\* first, ending just before the cursor.
Window == [i \in 1..size |-> ring[(pos + Capacity - size + i - 1) % Capacity]]

\* The running counters of calculate_io_median_time agree with the samples
\* they summarise (spec 8: less + more == size), after any sequence of
\* evictions, insertions and resets.
CountersMatchWindow ==
    /\ less + more = size
    /\ more = Cardinality({i \in 1..size : Window[i] > Threshold})

\* The ring, its cursor and its counters implement SlowWindow: the window
\* seen through the cursor arithmetic is the abstract window, and the
\* overflow count and the latch are the abstract ones.
Abstract == INSTANCE SlowWindow WITH window <- Window, latched <- isSlowDisk
AbstractSpec == Abstract!Spec
=============================================================================
