CONSTANTS
    Consumers = {c1, c2}
    Capacity <- MCCapacity
    TakeCount <- MCTakeCount
    MaxItems <- MCMaxItems

SPECIFICATION Spec


INVARIANT TypeOK
PROPERTY AbstractSpec
PROPERTY QueuedEventuallyTaken
