CONSTANTS
    Policy = "await"
    Offsets <- MCOffsets
    IoLength <- MCIoLength
    MaxOps <- MCMaxOps
    MaxNrEvent <- MCMaxNrEvent
    MinSubmitEvents <- MCMinSubmitEvents

SPECIFICATION Spec

\* The run ends when every request has been submitted and filtered.
CHECK_DEADLOCK FALSE

INVARIANT AwaitFollowsSubmissionOrder
