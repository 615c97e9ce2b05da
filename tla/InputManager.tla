---------------------------- MODULE InputManager ----------------------------
(***************************************************************************)
(* InputManager.cc: keyPressed (from the keyboard driver) queues a key    *)
(* under m_QueueLock and releases m_KeyQueueSize; installCallback appends *)
(* to m_KeyCallbacks under the same lock; the worker thread (mainThread)  *)
(* takes a unit of the semaphore, pops the oldest key under the lock and  *)
(* then walks m_KeyCallbacks WITHOUT the lock, sending each callback's    *)
(* thread an InputEvent.  Every critical section of m_QueueLock is one    *)
(* step, so the lock itself needs no variable; the unlocked walk is one   *)
(* step per list element.  A key is the ordinal of its press, so the      *)
(* n-th key pressed is n; an event is recorded in the callback's          *)
(* delivered sequence.                                                    *)
(***************************************************************************)
EXTENDS Naturals, Sequences, SequencesExt

CONSTANTS
    Callbacks,   \* callback functions that may be installed
    Types,       \* CallbackType values; only "Key" is kept (line 102)
    MaxKeys      \* key presses at most (bounds the model)

ASSUME "Key" \in Types /\ MaxKeys \in Nat

Keys == 1..MaxKeys

VARIABLES
    queue,      \* m_KeyQueue
    sem,        \* m_KeyQueueSize
    callbacks,  \* m_KeyCallbacks, in installation order
    pressed,    \* keys pressed so far
    wpc,        \* the worker: "acq", "test", "pop", "walk"
    wkey,       \* the key the worker is delivering
    it,         \* the worker's iterator: a position in m_KeyCallbacks
    delivered,  \* per callback: the keys sent to it, in order
    regAt       \* per key: the callbacks installed when it was pressed

vars == <<queue, sem, callbacks, pressed, wpc, wkey, it, delivered, regAt>>

worker == <<wpc, wkey, it>>

-----------------------------------------------------------------------------

\* Line 96: the unit the semaphore gains for a queued key.
SemReleaseNone(s) == s
SemRelease(s) == s + 1

\* keyPressed(key), lines 92-97.
KeyPressed ==
    /\ pressed < MaxKeys
    /\ pressed' = pressed + 1
    /\ queue' = Append(queue, pressed + 1)
    /\ sem' = SemRelease(sem)
    /\ regAt' = [regAt EXCEPT ![pressed + 1] = ToSet(callbacks)]
    /\ UNCHANGED <<callbacks, worker, delivered>>

\* installCallback(type, callback, pThread), lines 99-109: only Key
\* callbacks are kept.
InstallCallback(c, type) ==
    /\ ~Contains(callbacks, c)
    /\ callbacks' = IF type = "Key" THEN Append(callbacks, c) ELSE callbacks
    /\ UNCHANGED <<queue, sem, pressed, worker, delivered, regAt>>

\* Line 122: m_KeyQueueSize.acquire() blocks until a key is announced.
Acquire ==
    /\ wpc = "acq" /\ sem > 0
    /\ sem' = sem - 1 /\ wpc' = "test"
    /\ UNCHANGED <<queue, callbacks, pressed, wkey, it, delivered, regAt>>

\* Lines 123-124: the unlocked emptiness test; an empty queue goes back to
\* the acquire.
Test ==
    /\ wpc = "test"
    /\ wpc' = IF queue = <<>> THEN "acq" ELSE "pop"
    /\ UNCHANGED <<queue, sem, callbacks, pressed, wkey, it, delivered, regAt>>

\* Line 127: the position popFront takes its key from.
BackIndex(q) == Len(q)
FrontIndex(q) == 1

\* Line 130: the iterator starts at begin().
BeforeBegin == 0
FirstAfterBegin == 2
Begin == 1

\* end(): the null iterator.  No list of distinct callbacks reaches this
\* position, so an iterator there stays past the end whatever is appended.
End == Cardinality(Callbacks) + 1

\* Lines 126-128: pop the oldest key under the lock; the walk begins.
Pop ==
    /\ wpc = "pop"
    /\ wkey' = queue[FrontIndex(queue)]
    /\ queue' = RemoveAt(queue, FrontIndex(queue))
    /\ wpc' = "walk" /\ it' = IF callbacks = <<>> THEN End ELSE Begin
    /\ UNCHANGED <<sem, callbacks, pressed, delivered, regAt>>

\* Lines 130-143: one element of the unlocked walk.  `it++` follows the
\* element's next pointer as installCallback has left it: an append made
\* while the iterator is on the last element is walked, one made after
\* the iterator has become end() is not.
Deliver ==
    /\ wpc = "walk" /\ it <= Len(callbacks)
    /\ delivered' = [delivered EXCEPT ![callbacks[it]] = Append(@, wkey)]
    /\ it' = IF it < Len(callbacks) THEN it + 1 ELSE End
    /\ UNCHANGED <<queue, sem, callbacks, pressed, wpc, wkey, regAt>>

\* Line 131: the walk ends at end(), and the loop goes round to line 122.
WalkDone ==
    /\ wpc = "walk" /\ it > Len(callbacks)
    /\ wpc' = "acq"
    /\ UNCHANGED <<queue, sem, callbacks, pressed, wkey, it, delivered, regAt>>

\* The constructor, lines 73-76; initialise() starts the worker (82-90).
Init ==
    /\ queue = <<>> /\ sem = 0 /\ callbacks = <<>> /\ pressed = 0
    /\ wpc = "acq" /\ wkey = 0 /\ it = Begin
    /\ delivered = [c \in Callbacks |-> <<>>]
    /\ regAt = [k \in Keys |-> {}]

Next ==
    \/ KeyPressed
    \/ \E c \in Callbacks, type \in Types : InstallCallback(c, type)
    \/ Acquire \/ Test \/ Pop \/ Deliver \/ WalkDone

\* The worker is a kernel thread the scheduler runs; key presses and
\* installations are the environment's and get no fairness.
Fairness == WF_vars(Acquire \/ Test \/ Pop \/ Deliver \/ WalkDone)

Spec == Init /\ [][Next]_vars /\ Fairness

-----------------------------------------------------------------------------
(* Properties.                                                             *)

TypeOK ==
    /\ queue \in Seq(Keys) /\ sem \in Nat /\ pressed \in 0..MaxKeys
    /\ callbacks \in Seq(Callbacks)
    /\ wpc \in {"acq", "test", "pop", "walk"} /\ wkey \in 0..MaxKeys
    /\ it \in Nat \ {0}
    /\ delivered \in [Callbacks -> Seq(Keys)]
    /\ regAt \in [Keys -> SUBSET Callbacks]

\* The semaphore announces exactly the queued keys: every unit taken at
\* line 122 finds a key at line 127, so the `continue` of line 124 is never
\* taken and no key waits without a unit to wake the worker.
SemCountsQueue == sem + (IF wpc \in {"test", "pop"} THEN 1 ELSE 0) = Len(queue)

\* Each callback receives keys in the order they were pressed, none twice
\* and none skipped: once its first event is sent, every later key follows
\* (the FIFO of lines 95 and 127 and the walk of lines 130-143).
DeliveredInOrder ==
    \A c \in Callbacks :
        \A i \in 1..(Len(delivered[c]) - 1) : delivered[c][i + 1] = delivered[c][i] + 1

\* Every key pressed reaches every callback installed before the press:
\* the worker eventually pops it and walks the whole list.
KeyDelivered ==
    \A k \in Keys, c \in Callbacks :
        (k <= pressed /\ c \in regAt[k]) ~> Contains(delivered[c], k)

=============================================================================
