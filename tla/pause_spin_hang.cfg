\* One driver thread issuing doAsync without waiting for the callback.
CONSTANTS
    Threads = {t1}
    NSlots = 2
    PoolUnits = 2
    Sizes = {1}
    Pids <- MCPids
    Kinds = {"async"}
    MaxSubmits = 2
    MaxPolls = 1
    ErrStatuses <- MCErrStatuses
    CallerWaits = FALSE
    FrameListHits = {}
    NoThread = NoThread
SPECIFICATION Spec
PROPERTY AsyncCallbackEventually
\* FATAL() stops the kernel and the kernel idles once callers stop.
CHECK_DEADLOCK FALSE
