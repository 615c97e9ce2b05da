\* Two keys colliding in bucket 0; the second one is removed.
CONSTANTS
    k1 = k1  k2 = k2  k3 = k3  v1 = v1  v2 = v2  Null = Null
    Keys <- MCKeys
    Values <- MCValues
    Hash <- MCHash
    NumBuckets = 2
    MaxNodes = 4
SPECIFICATION Spec
INVARIANT NoDoubleDelete
