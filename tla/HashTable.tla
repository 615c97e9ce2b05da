----------------------------- MODULE HashTable -----------------------------
(***************************************************************************)
(* HashTable<K, V> of HashTable.h: an array of m_MaxBucket chains of       *)
(* heap-allocated buckets, created at the first insert.  A chain is the    *)
(* sequence of bucket nodes reached through their next pointers; a node is *)
(* an element of Nodes, allocated by `new struct bucket` (line 132) and    *)
(* counted in deletes each time it is deleted.  The array index            *)
(* NumBuckets stands for the word just past m_Buckets, which the range     *)
(* test `hash > m_MaxBucket` lets through.  The class has no lock; its     *)
(* operations are sequential, one action each.                             *)
(***************************************************************************)
EXTENDS Naturals, Sequences, SequencesExt

CONSTANTS
    Keys, Values,
    Null,        \* the NULL V* pointer, and lookup's "not found"
    Hash,        \* K::hash() for every key
    NumBuckets,  \* the numbuckets the table is constructed with
    MaxNodes     \* bucket nodes allocated at most (bounds the model)

ASSUME /\ Hash \in [Keys -> Nat] /\ NumBuckets \in Nat /\ MaxNodes \in Nat
       /\ Null \notin Keys

Nodes == 1..MaxNodes
Slots == 0..NumBuckets

VARIABLES
    allocated,  \* m_Buckets # 0
    buckets,    \* the chain starting at m_Buckets[h], h \in Slots
    node,       \* key and value of every allocated node
    nextNode,   \* the next node `new` returns
    deletes,    \* how many times each node has been deleted
    lastOp      \* the operation last performed, with lookup's result

vars == <<allocated, buckets, node, nextNode, deletes, lastOp>>

-----------------------------------------------------------------------------

\* Lines 87-90 and 127-130: the range test; hash = m_MaxBucket passes.
Indexable(k) == Hash[k] <= NumBuckets

\* Position of the first node of chain c holding key k (0 if none): the walk
\* `while(b && (b->key != k)) b = b->next` of lines 97-99 and 172-175.
Find(c, k) == SelectInSeq(c, LAMBDA n : node[n].key = k)

\* lookup(k), lines 81-106.
LookupVal(k) ==
    IF ~allocated \/ ~Indexable(k) THEN Null
    ELSE LET c == buckets[Hash[k]] IN
         IF Find(c, k) = 0 THEN Null ELSE node[c[Find(c, k)]].val

\* Line 114: insert fails when lookup finds the key.
PresentNever(k) == FALSE
Present(k) == LookupVal(k) # Null

\* Line 132: `new struct bucket`, the next unused node.
NewNodeBefore == nextNode - 1
NewNode == nextNode

\* insert(k, v), lines 111-148: lazily create the array (119-125), then
\* append a new node at the end of the chain (132-147).
Insert(k, v) ==
    /\ lastOp' = <<"insert", k, v>>
    /\ IF Present(k) \/ (~allocated /\ NumBuckets = 0)
       THEN UNCHANGED <<allocated, buckets, node, nextNode, deletes>>
       ELSE /\ allocated' = TRUE
            /\ IF ~Indexable(k)
               THEN UNCHANGED <<buckets, node, nextNode, deletes>>
               ELSE /\ nextNode <= MaxNodes
                    /\ node' = [node EXCEPT ![NewNode] = [key |-> k, val |-> v]]
                    /\ buckets' = [buckets EXCEPT ![Hash[k]] =
                                     Append(@, NewNode)]
                    /\ nextNode' = nextNode + 1
                    /\ UNCHANGED deletes

\* The deletes remove performs on the node it unlinks from position i: line
\* 183 for the head, lines 179 and 183 for a node further down the chain.
DeletesOf(i) == IF i = 1 THEN 1 ELSE 2

\* Lines 168-169 and 177-178: unlink the node at position i, through
\* m_Buckets[hash] for the head and through its predecessor otherwise.
UnlinkHead(c, i) == Tail(c)
Unlink(c, i) == RemoveAt(c, i)

\* remove(k), lines 153-184.
RemoveKey(k) ==
    /\ lastOp' = <<"remove", k>>
    /\ IF ~Present(k)
       THEN UNCHANGED <<allocated, buckets, node, nextNode, deletes>>
       ELSE LET c == buckets[Hash[k]]
                i == Find(c, k)
            IN /\ buckets' = [buckets EXCEPT ![Hash[k]] = Unlink(c, i)]
               /\ deletes' = [deletes EXCEPT ![c[i]] = @ + DeletesOf(i)]
               /\ UNCHANGED <<allocated, node, nextNode>>

Lookup(k) ==
    /\ lastOp' = <<"lookup", k, LookupVal(k)>>
    /\ UNCHANGED <<allocated, buckets, node, nextNode, deletes>>

\* The constructor, lines 52-55.
Init ==
    /\ allocated = FALSE
    /\ buckets = [h \in Slots |-> <<>>]
    /\ node = [n \in Nodes |-> [key |-> Null, val |-> Null]]
    /\ nextNode = 1
    /\ deletes = [n \in Nodes |-> 0]
    /\ lastOp = <<"none">>

Next ==
    \E k \in Keys :
        \/ Lookup(k) \/ RemoveKey(k)
        \/ \E v \in Values : Insert(k, v)

Spec == Init /\ [][Next]_vars

-----------------------------------------------------------------------------
(* Properties.                                                             *)

TypeOK ==
    /\ allocated \in BOOLEAN
    /\ buckets \in [Slots -> Seq(Nodes)]
    /\ nextNode \in 1..(MaxNodes + 1)
    /\ deletes \in [Nodes -> Nat]

\* The node at which chain h holds key k, for the refinement mapping: the
\* key is in the table when its chain holds a node for it.
Stored(k) == allocated /\ Indexable(k) /\ Find(buckets[Hash[k]], k) > 0
StoredVal(k) == node[buckets[Hash[k]][Find(buckets[Hash[k]], k)]].val

Abs == INSTANCE HashMap WITH
           map <- [k \in {j \in Keys : Stored(j)} |-> StoredVal(k)]

\* The table implements the map its comments describe: every insert,
\* remove and lookup does to the contents what HashMap says, so lookup
\* returns what was inserted and not removed, hashes outside the bucket
\* range are ignored, and a failed insert leaves the old value in place.
HashMapSpec == Abs!Spec

\* Every node `new` returned is in exactly one chain or has been deleted,
\* never both: insert links each node it allocates (lines 137-147) and
\* remove deletes each node it unlinks (lines 167-183).
NodesAccounted ==
    \A n \in 1..(nextNode - 1) :
        LET places == UNION {{<<h, i>> : i \in {j \in 1..Len(buckets[h]) :
                                                  buckets[h][j] = n}} : h \in Slots}
        IN \/ Cardinality(places) = 1 /\ deletes[n] = 0
           \/ places = {} /\ deletes[n] > 0

\* No node is deleted twice: remove's unlinking branch (lines 171-180) and
\* its final delete (line 183) must not both free the same bucket.
NoDoubleDelete == \A n \in Nodes : deletes[n] <= 1

=============================================================================
