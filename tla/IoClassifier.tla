---------------------------- MODULE IoClassifier ----------------------------
(***************************************************************************)
(* The I/O pattern classifier: the io_pattern update that callers do at   *)
(* submission (__datanode_aio_operation) and the filter_io policy the     *)
(* event thread runs on each harvested event (filter_io_type_await or     *)
(* filter_io_type_cost of slow-disk-checker.c) with its thread-local      *)
(* last_op and last_offset.  The kernel completes requests in any order.  *)
(* Latencies (cost_tm) are left out: they do not decide the io_type.      *)
(***************************************************************************)
EXTENDS Naturals, Sequences, FiniteSets

CONSTANTS
    Policy,           \* "await" (SDC_PY_AWAIT) or "cost" (SDC_PY_COST)
    Offsets,          \* offsets a request may have
    IoLength,         \* aio_nbytes of every request
    MaxOps,           \* number of requests submitted in a run
    MaxNrEvent,       \* max_nr_event of io_getevents
    MinSubmitEvents   \* MIN_SUBMIT_EVENTS

ASSUME /\ Policy \in {"await", "cost"}
       /\ Offsets \subseteq Nat
       /\ IoLength \in Nat \ {0}
       /\ MaxOps \in Nat \ {0}
       /\ MaxNrEvent \in Nat \ {0}
       /\ MinSubmitEvents \in Nat

Opcodes == {"read", "write"}
NoOp == "noop"                        \* IOCB_CMD_NOOP and io_pattern.opcode 0
IoTypes == {"random", "sequential", "x"}

VARIABLES
    sub,         \* sub[i]: request i as submitted: op, offset, contiguous
    ioPattern,   \* aio_ctx->io_pattern: opcode and contiguous
    submitCount, \* aio_ctx->submit_count
    kernel,      \* requests in the kernel
    batch,       \* events of the current io_getevents batch not yet filtered
    ioLen,       \* submit_count as read after io_getevents (line 718)
    events,      \* r, the size of the current batch
    lastOp,      \* last_op of the event thread
    lastOffset,  \* last_offset of the event thread
    ioType,      \* ioType[i]: user_iocb_list->io_type once filtered
    batchOf      \* history: batchOf[i] is the size of the batch of request i

vars == <<sub, ioPattern, submitCount, kernel, batch, ioLen, events, lastOp,
          lastOffset, ioType, batchOf>>

Init ==
    /\ sub = <<>>
    /\ ioPattern = [opcode |-> NoOp, contiguous |-> 0]
    /\ submitCount = 0
    /\ kernel = {}
    /\ batch = {}
    /\ ioLen = 0
    /\ events = 0
    /\ lastOp = NoOp
    /\ lastOffset = 0
    /\ ioType = <<>>
    /\ batchOf = <<>>

\* io_pattern.contiguous and user_iocb_list->contiguous are u_int16_t.
ContiguousMod == 2^16

\* __datanode_aio_operation from io_prep_* to io_submit: the run of equal
\* opcodes is counted under io_pattern.lock, at its 16-bit width, and
\* copied into the record.
Submit(op, off) ==
    /\ Len(sub) < MaxOps
    /\ LET p == IF ioPattern.opcode = op
                  THEN [ioPattern EXCEPT !.contiguous = (@ + 1) % ContiguousMod]
                  ELSE [opcode |-> op, contiguous |-> 0]
       IN /\ ioPattern' = p
          /\ sub' = Append(sub, [op |-> op, off |-> off,
                                 contiguous |-> p.contiguous])
    /\ submitCount' = submitCount + 1
    /\ kernel' = kernel \cup {Len(sub) + 1}
    /\ ioType' = Append(ioType, "x")
    /\ batchOf' = Append(batchOf, 0)
    /\ UNCHANGED <<batch, ioLen, events, lastOp, lastOffset>>

\* io_getevents returns a batch; submit_count is read, then decremented.
GetEvents ==
    /\ batch = {}
    /\ \E S \in SUBSET kernel :
          /\ S # {} /\ Cardinality(S) <= MaxNrEvent
          /\ batch' = S
          /\ kernel' = kernel \ S
          /\ ioLen' = submitCount
          /\ events' = Cardinality(S)
          /\ batchOf' = [i \in DOMAIN batchOf |->
                            IF i \in S THEN Cardinality(S) ELSE batchOf[i]]
          /\ submitCount' = submitCount - Cardinality(S)
    /\ UNCHANGED <<sub, ioPattern, lastOp, lastOffset, ioType>>

\* filter_io_type_await: sequential iff the offset continues last_offset.
FilterIoTypeAwait(r) ==
    IF r.off = lastOffset THEN "sequential" ELSE "random"

\* filter_io_type_cost: offset, opcode, the submission run and io_len.
FilterIoTypeCost(r) ==
    IF ioLen < MinSubmitEvents THEN "x"
    ELSE IF r.off = lastOffset
           THEN IF lastOp = r.op /\ r.contiguous > 0 THEN "sequential" ELSE "x"
           ELSE IF lastOp = r.op THEN "random" ELSE "x"

\* The event thread runs filter_io on one event of the batch, in the
\* kernel's order, and moves last_offset and last_op past it.
FilterIo ==
    \E i \in batch :
       LET r == sub[i] IN
       /\ batch' = batch \ {i}
       /\ ioType' = [ioType EXCEPT ![i] = IF Policy = "await"
                                            THEN FilterIoTypeAwait(r)
                                            ELSE FilterIoTypeCost(r)]
       /\ lastOffset' = r.off + IoLength
       /\ lastOp' = r.op
       /\ UNCHANGED <<sub, ioPattern, submitCount, kernel, ioLen, events,
                      batchOf>>

Next ==
    \/ \E op \in Opcodes, off \in Offsets : Submit(op, off)
    \/ GetEvents
    \/ FilterIo

Spec == Init /\ [][Next]_vars

-----------------------------------------------------------------------------
Filtered == {i \in DOMAIN sub : i \notin kernel \cup batch}

\* The end of the request submitted just before request i (0 for the first).
PrevEnd(i) == IF i = 1 THEN 0 ELSE sub[i - 1].off + IoLength

\* Spec 4.6 (await policy): a request is SEQUENTIAL iff it is contiguous
\* with the immediately preceding submitted request.
AwaitFollowsSubmissionOrder ==
    Policy = "await" =>
        \A i \in Filtered : (ioType[i] = "sequential") <=> (sub[i].off = PrevEnd(i))

\* Spec 4.6 (cost policy): a request observed in a completion batch of
\* fewer than MIN_SUBMIT_EVENTS operations is UNCLASSIFIED.
CostSmallBatchUnclassified ==
    Policy = "cost" =>
        \A i \in Filtered : batchOf[i] < MinSubmitEvents => ioType[i] = "x"
=============================================================================
