CONSTANTS
    v = v
    null = null
    Columns <- MCColumns
    Names <- MCNames
    Vals <- MCVals
    NullV = null
    MaxExec = 2
    MaxRows = 2
    Platform = "LP64"
SPECIFICATION Spec
INVARIANTS
    ReadsReturnCurrentCell
