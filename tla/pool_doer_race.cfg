\* Two threads each allocating one page-sized buffer.
CONSTANTS
    Threads = {t1, t2}
    InitArgs <- MCPageArgs
    MaxHeld = 1
SPECIFICATION Spec
INVARIANT BuffersExclusive
CHECK_DEADLOCK FALSE
