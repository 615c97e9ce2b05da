----------------------------- MODULE MCWinMan -----------------------------
(* Instances of WinMan for TLC.                                            *)
EXTENDS WinMan

\* A key notification, with or without ALT and SHIFT.
Key(k, alt, shift) == [type |-> "Key", alt |-> alt, shift |-> shift, key |-> k,
                       relx |-> 0, rely |-> 0]

\* The tiling keys: ALT-Enter, ALT-v, ALT-h, ALT-left, a plain key and a
\* mouse movement past the screen's corner.
MCTileNotes ==
    {Key("\n", TRUE, FALSE), Key("v", TRUE, FALSE), Key("h", TRUE, FALSE),
     Key("left", TRUE, FALSE), Key("x", FALSE, FALSE),
     [type |-> "Mouse", alt |-> FALSE, shift |-> FALSE, key |-> "",
      relx |-> 3, rely |-> 1]}

\* Resize mode: ALT-r, then Escape.
MCResizeNotes == {Key("r", TRUE, FALSE), Key("esc", FALSE, FALSE)}

\* Every key winman handles itself, and the two of resize mode.
MCAllNotes == MCTileNotes \cup MCResizeNotes

\* Enough to nest a container in a container: ALT-Enter, ALT-v, ALT-h.
MCSplitNotes == {Key("\n", TRUE, FALSE), Key("v", TRUE, FALSE), Key("h", TRUE, FALSE)}

MCHandles == {"h1", "h2"}
MCThreeHandles == {"h1", "h2", "h3"}
MCMaxClients == 3
MCMaxInputs == 3
MCMaxObjs == MCMaxClients + MCMaxInputs
=============================================================================
