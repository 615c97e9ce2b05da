\* One interrupt-IN endpoint (a HID device) registered and polled.
\* Slot 0 is designated by the hardware frame list's prior contents.
CONSTANTS
    Threads = {t1}
    NSlots = 2
    PoolUnits = 2
    Sizes = {1, 2}
    Pids <- MCPids
    Kinds = {"periodic"}
    MaxSubmits = 1
    MaxPolls = 3
    ErrStatuses <- MCErrStatuses
    CallerWaits = TRUE
    FrameListHits = {0}
    NoThread = NoThread
SPECIFICATION Spec

PROPERTY PeriodicRearmed

\* The bound MaxPolls ends the polling; the kernel then idles.
CHECK_DEADLOCK FALSE
