----------------------------- MODULE MCGPTimer -----------------------------
EXTENDS GPTimer

CONSTANTS r1, r2, h1, h2, h3, e1

MCHandlers == {h1, h2, h3}
\* ArmBeagle::initialise starts timer 0 at this base (Beagle.cc).
MCBases == {\h49032000}
\* Alarms of 1000 microseconds and of one second.
MCAlarmArgs == {[secs |-> 0, usecs |-> 1000], [secs |-> 1, usecs |-> 0]}

=============================================================================
