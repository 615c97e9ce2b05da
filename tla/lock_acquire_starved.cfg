\* Two entrants whose stays in the section overlap, and one acquirer.
CONSTANTS
    e1 = e1  e2 = e2  a1 = a1  a2 = a2
    Width = 3
    Entrants = {e1, e2}
    Acquirers = {a1}
SPECIFICATION Spec
PROPERTY AcquireEventually
