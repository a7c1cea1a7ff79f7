\* The host enables the await policy, disables it with DIS and enables
\* it again while records are in flight.
CONSTANTS
    Records = {r1, r2}
    Samples = {1, 2}
    ThresholdPairs <- MCThresholds
    AwaitCap = 1
    RandomCap = 1
    SequenCap = 2
    MaxOverTimes = 3
    QueueCapacity = 1
    Policies = {"dis", "await"}
    MaxEnables = 3
    MaxIos = 5
SPECIFICATION Spec
INVARIANT SampleIsCurrent
CHECK_DEADLOCK FALSE
