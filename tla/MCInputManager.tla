--------------------------- MODULE MCInputManager ---------------------------
EXTENDS InputManager

CONSTANTS c1, c2

MCCallbacks == {c1, c2}
MCTypes == {"Key", "Mouse"}

=============================================================================
