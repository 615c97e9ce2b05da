\* A caller that stores NULL as a value; keys do not collide.
CONSTANTS
    k1 = k1  k2 = k2  k3 = k3  v1 = v1  v2 = v2  Null = Null
    Keys <- MCKeys
    Values <- MCValuesNull
    Hash <- MCHashDistinct
    NumBuckets = 2
    MaxNodes = 4
SPECIFICATION Spec
PROPERTY HashMapSpec
