CONSTANTS
    Callers = {c1, c2}
    MaxReqs <- MCMaxReqs
    IoDepth <- MCIoDepth
    QueueCapacity <- MCQueueCapacity
    TakeOnceMax <- MCTakeOnceMax
    MaxNrEvent <- MCMaxNrEvent
    CloseWaitBudget <- MCCloseWaitBudget
    DiskCheckEnabled = TRUE
    QuiescentClose = TRUE

SPECIFICATION Spec

\* The context stops for good once close() has freed it.
CHECK_DEADLOCK FALSE

INVARIANT TypeOK
INVARIANT RecordOwnership
INVARIANT GateAccounting
INVARIANT PoolNeverExhausted
INVARIANT ClosedOnlyWhenDrained
INVARIANT QueuedInHarvestOrder
PROPERTY EveryRequestNotified
