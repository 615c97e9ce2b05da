\* One registering thread with three handlers for two slots, so that the
\* table fills and registerHandler returns false; the timer interrupt and
\* an alarm user between every step of it.
CONSTANTS
    r1 = r1  r2 = r2  h1 = h1  h2 = h2  h3 = h3  e1 = e1  NoHandler = NoHandler
    Handlers <- MCHandlers
    Bases <- MCBases
    AlarmArgs <- MCAlarmArgs
    Events = {e1}
    MaxHandlers = 2
    MaxTicks = 2
    MaxAlarms = 2
    Registrars = {r1}
SPECIFICATION Spec
INVARIANT RegisteredOnce
\* Once the ticks and alarm slots are used up and every handler is
\* registered or refused, calls that change nothing remain enabled.
