\* A HID driver registering its interrupt-IN endpoint.
CONSTANTS
    Threads = {t1}
    NSlots = 2
    PoolUnits = 2
    Sizes = {1, 2}
    Pids <- MCPids
    Kinds = {"periodic"}
    MaxSubmits = 1
    MaxPolls = 1
    ErrStatuses <- MCErrStatuses
    CallerWaits = TRUE
    FrameListHits = {}
    NoThread = NoThread
SPECIFICATION Spec
INVARIANT PeriodicScheduled
\* FATAL() stops the kernel and the kernel idles once callers stop.
CHECK_DEADLOCK FALSE
