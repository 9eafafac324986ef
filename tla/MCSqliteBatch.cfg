CONSTANTS
    a = a
    null = null
    NullV = null
    P = 2
    Vals <- MCVals
    Inputs <- MCInputs
SPECIFICATION Spec
CHECK_DEADLOCK FALSE
INVARIANTS
    BatchOutcome
PROPERTIES
    ImplementsBatchContract
