\* One thread allocating and freeing page-sized buffers, with allocate and
\* allocateNow, after initialise is called with accepted and refused sizes.
CONSTANTS
    Threads = {t1}
    InitArgs <- MCPageArgs
    MaxHeld = 5
SPECIFICATION Spec
INVARIANT TypeOK
INVARIANT BuffersExclusive
INVARIANT SemCountsFree
\* The thread may block in acquire() before initialise, and stops once it
\* holds MaxHeld buffers.
CHECK_DEADLOCK FALSE
