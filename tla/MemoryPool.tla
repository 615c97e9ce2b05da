----------------------------- MODULE MemoryPool -----------------------------
(***************************************************************************)
(* The kernel's fixed-size buffer pool, MemoryPool.cc.  A counting         *)
(* semaphore (m_BlockSemaphore) admits as many allocators as there are     *)
(* free buffers; allocateDoer then searches m_AllocBitmap for a clear bit  *)
(* and sets it, without a lock.  Kernel threads are preemptible, so every  *)
(* numbered step below may interleave with the steps of other threads.    *)
(* A buffer is an offset from the pool's base address, in bytes.          *)
(***************************************************************************)
EXTENDS Integers, FiniteSets, FiniteSetsExt, Bags

CONSTANTS
    Threads,   \* kernel threads using the pool
    InitArgs,  \* the (poolSize, bufferSize) arguments initialise is called with
    MaxHeld    \* buffers a thread holds at most (bounds the model)

ASSUME InitArgs \subseteq [pool : Nat, buf : Nat] /\ MaxHeld \in Nat

Page == 4096

VARIABLES
    sem,          \* m_BlockSemaphore's value
    bufferSize,   \* m_BufferSize
    poolBytes,    \* m_Pool.size(): 0 until the region is allocated
    initialised,  \* m_bInitialised
    bitmap,       \* the set bits of m_AllocBitmap
    pc,           \* per thread: "idle", "acq", "doer", "set"
    pick,         \* per thread: the clear bit allocateDoer found
    held,         \* per thread: the bag of buffers allocate returned to it
    fatal         \* FATAL("allocateDoer failed ...") was reached

vars == <<sem, bufferSize, poolBytes, initialised, bitmap, pc, pick, held,
          fatal>>

-----------------------------------------------------------------------------

\* Lines 67 and 92: the number of buffers the pool is cut into.
NBuffers == IF bufferSize = 0 THEN 0 ELSE poolBytes \div bufferSize

\* Line 99: the address handed out for bit n (base + n * 0x1000).
BufferAtFromOne(n) == (n - 1) * Page
BufferAt(n) == n * Page

\* Line 112: the bit free() clears for a buffer.
BitOf(b) == b \div bufferSize

\* Lines 67-68: the semaphore starts with one unit per buffer.
InitialUnits(a) == (a.pool * Page) \div a.buf

\* Lines 35-71.  The power-of-two rounding of lines 44-54 runs only when
\* bufferSize already is a power of two, so it never changes it.
Initialise(t) ==
    /\ pc[t] = "idle" /\ ~fatal /\ ~initialised
    /\ \E a \in InitArgs :
         IF a.pool = 0 \/ a.buf = 0 \/ a.buf > a.pool
         THEN UNCHANGED vars
         ELSE \E mapped \in BOOLEAN :   \* allocateRegion's result, line 59
              /\ bufferSize' = a.buf
              /\ initialised' = mapped
              /\ IF mapped
                 THEN /\ poolBytes' = a.pool * Page
                      /\ sem' = sem + InitialUnits(a)
                 ELSE UNCHANGED <<poolBytes, sem>>
              /\ UNCHANGED <<bitmap, pc, pick, held, fatal>>

Goto(t, l) == pc' = [pc EXCEPT ![t] = l]

\* allocate(): the call, then m_BlockSemaphore.acquire() (line 76).
Allocate(t) ==
    /\ pc[t] = "idle" /\ ~fatal /\ BagCardinality(held[t]) < MaxHeld
    /\ Goto(t, "acq")
    /\ UNCHANGED <<sem, bufferSize, poolBytes, initialised, bitmap, pick, held,
                   fatal>>

\* The acquire blocks until a unit is available.
Acquire(t) ==
    /\ pc[t] = "acq" /\ ~fatal /\ sem > 0
    /\ sem' = sem - 1 /\ Goto(t, "doer")
    /\ UNCHANGED <<bufferSize, poolBytes, initialised, bitmap, pick, held,
                   fatal>>

\* allocateNow(), lines 80-86: tryAcquire, or return 0 at once.
AllocateNow(t) ==
    /\ pc[t] = "idle" /\ ~fatal /\ BagCardinality(held[t]) < MaxHeld
    /\ IF sem > 0 THEN sem' = sem - 1 /\ Goto(t, "doer")
                  ELSE UNCHANGED <<sem, pc>>
    /\ UNCHANGED <<bufferSize, poolBytes, initialised, bitmap, pick, held,
                   fatal>>

\* allocateDoer, lines 91-97 and 103: the scan for a clear bit.  The scan
\* reads the bits one by one; it stops at the first one it finds clear.
DoerTest(t) ==
    LET clear == {n \in 0..(NBuffers - 1) : n \notin bitmap} IN
    /\ pc[t] = "doer" /\ ~fatal
    /\ IF clear = {}
       THEN fatal' = TRUE /\ UNCHANGED <<pc, pick>>
       ELSE /\ pick' = [pick EXCEPT ![t] = Min(clear)]
            /\ Goto(t, "set") /\ UNCHANGED fatal
    /\ UNCHANGED <<sem, bufferSize, poolBytes, initialised, bitmap, held>>

\* Line 98: m_AllocBitmap.set(n).
SetBitNone(n) == bitmap
SetBit(n) == bitmap \cup {n}

\* Lines 98-99: set the bit and return the buffer's address.
DoerSet(t) ==
    /\ pc[t] = "set" /\ ~fatal
    /\ bitmap' = SetBit(pick[t])
    /\ held' = [held EXCEPT ![t] = @ (+) SetToBag({BufferAt(pick[t])})]
    /\ Goto(t, "idle")
    /\ UNCHANGED <<sem, bufferSize, poolBytes, initialised, pick, fatal>>

\* Line 115: the unit given back to the semaphore.
ReleaseNone(s) == s
Release(s) == s + 1

\* free(), lines 107-116, of a buffer the thread holds.
Free(t) ==
    /\ pc[t] = "idle" /\ ~fatal
    /\ \E b \in BagToSet(held[t]) :
         /\ held' = [held EXCEPT ![t] = @ (-) SetToBag({b})]
         /\ IF ~initialised
            THEN UNCHANGED <<bitmap, sem>>
            ELSE bitmap' = bitmap \ {BitOf(b)} /\ sem' = Release(sem)
    /\ UNCHANGED <<bufferSize, poolBytes, initialised, pc, pick, fatal>>

\* The constructor, lines 21-25.
Init ==
    /\ sem = 0 /\ bufferSize = 1024 /\ poolBytes = 0 /\ initialised = FALSE
    /\ bitmap = {}
    /\ pc = [t \in Threads |-> "idle"]
    /\ pick = [t \in Threads |-> 0]
    /\ held = [t \in Threads |-> EmptyBag]
    /\ fatal = FALSE

Next ==
    \E t \in Threads :
        \/ Initialise(t) \/ Allocate(t) \/ AllocateNow(t) \/ Free(t)
        \/ Acquire(t) \/ DoerTest(t) \/ DoerSet(t)

\* A thread inside allocate() is scheduled until it returns; calls are the
\* callers' choice and get no fairness.
Fairness == \A t \in Threads : WF_vars(Acquire(t) \/ DoerTest(t) \/ DoerSet(t))

Spec == Init /\ [][Next]_vars /\ Fairness

-----------------------------------------------------------------------------
(* Properties.                                                             *)

TypeOK ==
    /\ sem \in Nat /\ bufferSize \in Nat /\ poolBytes \in Nat
    /\ initialised \in BOOLEAN /\ fatal \in BOOLEAN
    /\ bitmap \subseteq Nat
    /\ pc \in [Threads -> {"idle", "acq", "doer", "set"}]
    /\ pick \in [Threads -> Nat]
    /\ \A t \in Threads : IsABag(held[t]) /\ BagToSet(held[t]) \subseteq Nat

\* How many times thread t holds buffer b, counting the one allocateDoer
\* is about to return.
Claims(t, b) ==
    CopiesIn(b, held[t]) + IF pc[t] = "set" /\ BufferAt(pick[t]) = b THEN 1 ELSE 0

Holdings ==
    UNION {{<<t, b>> : b \in {x \in BagToSet(held[t]) \cup {BufferAt(pick[t])} :
                                Claims(t, x) > 0}} : t \in Threads}

\* The byte ranges of buffers b and b2 overlap.
Overlap(b, b2) == b < b2 + bufferSize /\ b2 < b + bufferSize

\* Every buffer allocate() has returned, or is about to return, lies inside
\* the pool region and shares no byte with a buffer held by another caller:
\* allocateDoer (lines 94-99) and free (lines 112-113) keep m_AllocBitmap
\* in step with the buffers handed out.
BuffersExclusive ==
    \A h \in Holdings :
        /\ h[2] + bufferSize <= poolBytes /\ Claims(h[1], h[2]) = 1
        /\ \A h2 \in Holdings \ {h} : ~Overlap(h[2], h2[2])

\* The semaphore counts exactly the buffers no caller owns: each unit taken
\* at line 76 is matched by one bit set at line 98, and each bit cleared at
\* line 113 by one unit released at line 115.
SemCountsFree ==
    initialised =>
        sem + Cardinality({t \in Threads : pc[t] \in {"doer", "set"}})
            + Cardinality(bitmap) = NBuffers

=============================================================================
