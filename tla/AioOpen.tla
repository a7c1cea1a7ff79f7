------------------------------ MODULE AioOpen ------------------------------
(***************************************************************************)
(* AsyncFileAccessor_open of liblinux-async-io.c with the initialisers it *)
(* calls (task_queue_init, datanode_aio_icobs_init,                        *)
(* datanode_io_pattern_init, io_setup) and datanode_aio_thread, for host  *)
(* threads opening several files at once.  Each step either succeeds or  *)
(* takes the failure path the code has for it.  What the model tracks is *)
(* which resources an attempt holds when open returns, and what it        *)
(* returns: a context, a negative code or a positive code.                *)
(***************************************************************************)
EXTENDS Naturals, FiniteSets

CONSTANT Files     \* files opened concurrently, one open() each

\* aio_ctx, the file descriptor, tq_hdr, the user_iocb_list records and
\* the kernel AIO context of io_setup.
Resources == {"ctx", "fd", "queue", "records", "kctx"}
Workers == {"callback", "event"}

VARIABLES
    pc,        \* pc[f]: the step open() of file f is at, or "returned"
    held,      \* held[f]: the resources allocated for f and not released
    ret,       \* ret[f]: "none" until open returns, then "handle", "negative" or "positive"
    threads    \* threads[f]: the worker threads running for f

vars == <<pc, held, ret, threads>>

Init ==
    /\ pc = [f \in Files |-> "calloc"]
    /\ held = [f \in Files |-> {}]
    /\ ret = [f \in Files |-> "none"]
    /\ threads = [f \in Files |-> {}]

Goto(f, step) == pc' = [pc EXCEPT ![f] = step]

Acquire(f, r) == held' = [held EXCEPT ![f] = @ \cup {r}]

\* An early "return -code;" that leaves whatever is held as it is.
Return(f, code) ==
    /\ Goto(f, "returned")
    /\ ret' = [ret EXCEPT ![f] = code]
    /\ UNCHANGED <<held, threads>>

\* The "out:" label with ret != 0: free(aio_ctx) and return ret; nothing
\* else that was set up is released.
Out(f, code, extra) ==
    /\ Goto(f, "returned")
    /\ held' = [held EXCEPT ![f] = (@ \cup extra) \ {"ctx"}]
    /\ ret' = [ret EXCEPT ![f] = code]
    /\ UNCHANGED threads

\* calloc of aio_ctx; on failure return -PY_E_MEM.
Calloc(f) ==
    /\ pc[f] = "calloc"
    /\ \/ Acquire(f, "ctx") /\ Goto(f, "jvm") /\ UNCHANGED <<ret, threads>>
       \/ Return(f, "negative")

\* GetJavaVM, then GetStringUTFChars of the file name: on failure return
\* -PY_E_SYS or -PY_EINVAL, aio_ctx still allocated.
GetJavaVM(f) ==
    /\ pc[f] = "jvm"
    /\ \/ Goto(f, "name") /\ UNCHANGED <<held, ret, threads>>
       \/ Return(f, "negative")

GetFileName(f) ==
    /\ pc[f] = "name"
    /\ \/ Goto(f, "open") /\ UNCHANGED <<held, ret, threads>>
       \/ Return(f, "negative")

\* open(file_name, O_RDWR | O_CREAT | O_DIRECT); on failure return -1.
OpenFile(f) ==
    /\ pc[f] = "open"
    /\ \/ Acquire(f, "fd") /\ Goto(f, "queue") /\ UNCHANGED <<ret, threads>>
       \/ Return(f, "negative")

\* task_queue_init releases its own header on each of its failures and
\* returns NULL; open sets ret = PY_E_SYS (1) and goes to out.
TaskQueueInit(f) ==
    /\ pc[f] = "queue"
    /\ \/ Acquire(f, "queue") /\ Goto(f, "iocbs") /\ UNCHANGED <<ret, threads>>
       \/ Out(f, "positive", {})

\* datanode_aio_icobs_init: a failed pthread_mutex_init or
\* pthread_cond_init returns its (positive) error number; a failed calloc
\* in the loop stops with the records allocated so far and -PY_E_MEM.
DatanodeAioIcobsInit(f) ==
    /\ pc[f] = "iocbs"
    /\ \/ Acquire(f, "records") /\ Goto(f, "pattern") /\ UNCHANGED <<ret, threads>>
       \/ Out(f, "positive", {})
       \/ Out(f, "negative", {"records"})

\* datanode_io_pattern_init: pthread_mutex_init's error number.
DatanodeIoPatternInit(f) ==
    /\ pc[f] = "pattern"
    /\ \/ Goto(f, "setup") /\ UNCHANGED <<held, ret, threads>>
       \/ Out(f, "positive", {})

\* Mutant: the result of io_setup is not checked.
IoSetupUnchecked(f) ==
    /\ pc[f] = "setup"
    /\ \/ Acquire(f, "kctx") /\ Goto(f, "threads") /\ UNCHANGED <<ret, threads>>
       \/ Goto(f, "threads") /\ UNCHANGED <<held, ret, threads>>

\* io_setup(AIO_NR, &ctx) returns -1 on failure.
IoSetup(f) ==
    /\ pc[f] = "setup"
    /\ \/ Acquire(f, "kctx") /\ Goto(f, "threads") /\ UNCHANGED <<ret, threads>>
       \/ Out(f, "negative", {})

\* datanode_aio_thread creates the callback thread, then the event thread.
\* pthread_create reports failure with a positive error number, which the
\* test "ret < 0" never sees, so open returns the context whichever threads
\* were created.  A worker whose AttachCurrentThread fails returns at once
\* (datanode_aio_callback_handler, datanode_aio_event_handler), which is
\* the same here as a worker never created.
DatanodeAioThread(f) ==
    /\ pc[f] = "threads"
    /\ \E started \in SUBSET Workers :
          threads' = [threads EXCEPT ![f] = started]
    /\ Goto(f, "returned")
    /\ ret' = [ret EXCEPT ![f] = "handle"]
    /\ UNCHANGED held

Next ==
    \E f \in Files :
        \/ Calloc(f) \/ GetJavaVM(f) \/ GetFileName(f) \/ OpenFile(f)
        \/ TaskQueueInit(f) \/ DatanodeAioIcobsInit(f)
        \/ DatanodeIoPatternInit(f) \/ IoSetup(f) \/ DatanodeAioThread(f)

Spec == Init /\ [][Next]_vars

-----------------------------------------------------------------------------
\* The value open hands back as a context owns everything a context needs:
\* the descriptor, queue, records and kernel AIO context of that attempt;
\* no failure path falls through to the thread start.
HandleOwnsContext ==
    \A f \in Files : ret[f] = "handle" => Resources \subseteq held[f]

\* Spec 6 and 7: a failed open releases every resource it had allocated
\* and reports the failure as a negative value, which the host cannot take
\* for a context address (open's own early returns use -PY_E_MEM, -PY_E_SYS
\* and -1).
FailedOpenIsClean ==
    \A f \in Files : ret[f] \in {"negative", "positive"} =>
                        ret[f] = "negative" /\ held[f] = {}

\* Spec 4.7 (OPEN -> RUNNING): a context handed back has both worker
\* threads running.
HandleHasWorkers ==
    \A f \in Files : ret[f] = "handle" => threads[f] = Workers
=============================================================================
