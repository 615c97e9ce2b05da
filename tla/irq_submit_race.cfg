\* Two driver threads each doing synchronous transfers on one controller.
CONSTANTS
    Threads = {t1, t2}
    NSlots = 2
    PoolUnits = 2
    Sizes = {1, 2}
    Pids <- MCPids
    Kinds = {"async"}
    MaxSubmits = 3
    MaxPolls = 1
    ErrStatuses <- MCErrStatuses
    CallerWaits = TRUE
    FrameListHits = {}
    NoThread = NoThread
SPECIFICATION Spec
INVARIANT BusyBuffersHeld
\* FATAL() stops the kernel and the kernel idles once callers stop.
CHECK_DEADLOCK FALSE
