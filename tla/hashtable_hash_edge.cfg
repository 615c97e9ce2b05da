\* A key whose hash equals the bucket count (k3), next to two colliding keys.
CONSTANTS
    k1 = k1  k2 = k2  k3 = k3  v1 = v1  v2 = v2  Null = Null
    Keys <- MCKeys
    Values <- MCValues
    Hash <- MCHashEdge
    NumBuckets = 2
    MaxNodes = 4
SPECIFICATION Spec
PROPERTY HashMapSpec
