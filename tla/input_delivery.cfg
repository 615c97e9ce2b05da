\* Three key presses and two callbacks, each installed as a Key or a Mouse
\* callback, in every order relative to the presses and the worker's walk.
CONSTANTS
    c1 = c1  c2 = c2
    Callbacks <- MCCallbacks
    Types <- MCTypes
    MaxKeys = 3
SPECIFICATION Spec
INVARIANT TypeOK
INVARIANT SemCountsQueue
INVARIANT DeliveredInOrder
PROPERTY KeyDelivered
\* Once the presses run out the worker blocks on the semaphore for ever, as
\* the kernel's idle input thread does.
CHECK_DEADLOCK FALSE
