\* Two records, samples 1 and 2, a sequential threshold of 2 and a random
\* one of 1 passed on every enable (so only the random ring sees samples
\* above its threshold), windows of one await sample, one random and two
\* sequential samples, two enableDiskCheck calls switching between the
\* two policies.
CONSTANTS
    Records = {r1, r2}
    Samples = {1, 2}
    ThresholdPairs <- MCThresholds
    AwaitCap = 1
    RandomCap = 1
    SequenCap = 2
    MaxOverTimes = 3
    QueueCapacity = 1
    Policies = {"await", "cost"}
    MaxEnables = 2
    MaxIos = 5
SPECIFICATION Spec
INVARIANT SlowNotifiedOnce SampleIsCurrent GlobalRefUsedOnce
CHECK_DEADLOCK FALSE
