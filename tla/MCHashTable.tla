---------------------------- MODULE MCHashTable ----------------------------
EXTENDS HashTable

CONSTANTS k1, k2, k3, v1, v2

MCKeys == {k1, k2, k3}

\* k1 and k2 collide in bucket 0; k3's hash is past the bucket array.
MCHash == (k1 :> 0) @@ (k2 :> 0) @@ (k3 :> 3)

\* As above, but k3 hashes to m_MaxBucket itself.
MCHashEdge == (k1 :> 0) @@ (k2 :> 0) @@ (k3 :> 2)

\* No collision: every key has a bucket of its own.
MCHashDistinct == (k1 :> 0) @@ (k2 :> 1) @@ (k3 :> 3)

MCValues == {v1, v2}

\* A caller storing a NULL pointer as a value.
MCValuesNull == {v1, Null}
=============================================================================
