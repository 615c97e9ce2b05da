CONSTANTS
    Vals <- MCVals
    Images <- MCImages
    MaxPages = 4
SPECIFICATION Spec
INVARIANT ReadsReturn
CHECK_DEADLOCK FALSE
