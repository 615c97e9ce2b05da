------------------------------ MODULE HashMap ------------------------------
(***************************************************************************)
(* What HashTable<K, V> promises in its comments (HashTable.h): a map from *)
(* keys to values in which                                                 *)
(*   - insert of a key already present fails (lines 112-113);              *)
(*   - keys whose hash is not below the bucket count given at construction *)
(*     are silently ignored (lines 47-50);                                 *)
(*   - lookup returns the value, or NULL when the key is absent (75-76);   *)
(*   - remove takes the key out (line 151).                                *)
(* Each operation is visible through lastOp, so that a detailed table that *)
(* ignores an operation the map performs does not pass for a stutter.      *)
(***************************************************************************)
EXTENDS Naturals, Functions

CONSTANTS Keys, Values, Null, Hash, NumBuckets

VARIABLES map, lastOp

\* The keys the table can hold: those whose hash lies in 0..NumBuckets-1.
InRange == {k \in Keys : Hash[k] < NumBuckets}

Insert(k, v) ==
    /\ lastOp' = <<"insert", k, v>>
    /\ map' = IF k \in DOMAIN map \/ k \notin InRange THEN map
              ELSE [j \in DOMAIN map \cup {k} |-> IF j = k THEN v ELSE map[j]]

Remove(k) ==
    /\ lastOp' = <<"remove", k>>
    /\ map' = Restrict(map, DOMAIN map \ {k})

Lookup(k) ==
    /\ lastOp' = <<"lookup", k, IF k \in DOMAIN map THEN map[k] ELSE Null>>
    /\ UNCHANGED map

Init == map = [k \in {} |-> Null] /\ lastOp = <<"none">>

Next == \E k \in Keys : Lookup(k) \/ Remove(k) \/ \E v \in Values : Insert(k, v)

Spec == Init /\ [][Next]_<<map, lastOp>>

=============================================================================
