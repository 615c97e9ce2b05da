\* Two entrants and one acquirer, every interleaving of their steps.
\* Three bits of size_t hold every count the counter reaches.
CONSTANTS
    e1 = e1  e2 = e2  a1 = a1  a2 = a2
    Width = 3
    Entrants = {e1, e2}
    Acquirers = {a1}
SPECIFICATION Spec
INVARIANT LockExcludes
INVARIANT CounterTracksEntries
SYMMETRY MCSymmetry
