\* Two threads call acquire() while an entrant is inside.
CONSTANTS
    e1 = e1  e2 = e2  a1 = a1  a2 = a2
    Width = 3
    Entrants = {e1}
    Acquirers = {a1, a2}
SPECIFICATION Spec
INVARIANT LockExcludes
