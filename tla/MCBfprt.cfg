CONSTANTS
    Inputs <- MCInputs

SPECIFICATION Spec

\* A run is one call; it stops once the selector has returned.
CHECK_DEADLOCK FALSE

INVARIANT PermutesInput
INVARIANT SelectsKthSmallest
