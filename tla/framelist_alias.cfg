\* One driver thread mixing doAsync and addInterruptInHandler calls.
CONSTANTS
    Threads = {t1}
    NSlots = 2
    PoolUnits = 3
    Sizes = {1, 2}
    Pids <- MCInPids
    Kinds = {"async", "periodic"}
    MaxSubmits = 3
    MaxPolls = 1
    ErrStatuses <- MCErrStatuses
    CallerWaits = FALSE
    FrameListHits = {}
    NoThread = NoThread
SPECIFICATION Spec
INVARIANT DataIntact
\* FATAL() stops the kernel and the kernel idles once callers stop.
CHECK_DEADLOCK FALSE
