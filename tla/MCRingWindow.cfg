CONSTANTS
    Capacity <- MCCapacity
    Threshold <- MCThreshold
    Samples <- MCSamples
    MaxOverTimes <- MCMaxOverTimes

SPECIFICATION Spec

\* calculate_io_median_time is no longer called once is_slow_disk is set.
CHECK_DEADLOCK FALSE

INVARIANT CountersMatchWindow
INVARIANT TypeOK
PROPERTY AbstractSpec
