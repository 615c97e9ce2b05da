\* One thread allocating five 4-byte buffers from a 4-page pool.
CONSTANTS
    Threads = {t1}
    InitArgs <- MCSmallArgs
    MaxHeld = 5
SPECIFICATION Spec
INVARIANT BuffersExclusive
CHECK_DEADLOCK FALSE
