\* One enumeration thread doing synchronous control/bulk transfers.
CONSTANTS
    Threads = {t1}
    NSlots = 2
    PoolUnits = 2
    Sizes = {1, 2}
    Pids <- MCPids
    Kinds = {"async"}
    MaxSubmits = 3
    MaxPolls = 1
    ErrStatuses <- MCErrStatuses
    CallerWaits = TRUE
    FrameListHits = {}
    NoThread = NoThread
SPECIFICATION Spec
INVARIANT TypeOK
INVARIANT BusyBuffersHeld
INVARIANT DataIntact
PROPERTY CallbackReportsHardware
PROPERTY EditWhileHalted
PROPERTY AsyncCallbackEventually
\* The kernel idles once the enumeration thread has nothing to submit.
CHECK_DEADLOCK FALSE
