\* Three keys, two colliding and one hashed outside the bucket array, two
\* values, two buckets; up to four bucket nodes.
CONSTANTS
    k1 = k1  k2 = k2  k3 = k3  v1 = v1  v2 = v2  Null = Null
    Keys <- MCKeys
    Values <- MCValues
    Hash <- MCHash
    NumBuckets = 2
    MaxNodes = 4
SPECIFICATION Spec
INVARIANT TypeOK
INVARIANT NodesAccounted
PROPERTY HashMapSpec
\* Inserts stop once MaxNodes nodes have been allocated; lookups and removes
\* stay enabled, so the run has no deadlock.
