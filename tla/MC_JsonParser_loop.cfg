\* parse("[x"): the array loop makes no progress.
CONSTANTS
    Inputs <- MCLoopInputs
SPECIFICATION Spec
INVARIANT ArrayProgress
CHECK_DEADLOCK FALSE
