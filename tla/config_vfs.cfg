CONSTANTS
    Vals <- MCVals
    Images <- MCImages
    MaxPages = 4
SPECIFICATION Spec
INVARIANT NoOverflow
PROPERTY ReadsSeeWrites
CHECK_DEADLOCK FALSE
