\* Two threads registering handlers at once.
CONSTANTS
    r1 = r1  r2 = r2  h1 = h1  h2 = h2  h3 = h3  e1 = e1  NoHandler = NoHandler
    Handlers <- MCHandlers
    Bases <- MCBases
    AlarmArgs <- MCAlarmArgs
    Events = {e1}
    MaxHandlers = 2
    MaxTicks = 2
    MaxAlarms = 2
    Registrars = {r1, r2}
SPECIFICATION Spec
INVARIANT RegisteredOnce
