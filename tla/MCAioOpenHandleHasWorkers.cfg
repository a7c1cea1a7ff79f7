CONSTANTS
    Files = {f1, f2}

SPECIFICATION Spec

\* Each open() returns once; nothing follows in this model.
CHECK_DEADLOCK FALSE

SYMMETRY Symmetry

INVARIANT HandleHasWorkers
