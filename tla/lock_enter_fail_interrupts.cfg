\* One entrant turned away by enter().
CONSTANTS
    e1 = e1  e2 = e2  a1 = a1  a2 = a2
    Width = 3
    Entrants = {e1}
    Acquirers = {a1}
SPECIFICATION Spec
INVARIANT InterruptsRestored
