------------------------------ MODULE MCXterm ------------------------------
(* Input words and sizes for checking Xterm.                               *)
EXTENDS Xterm

\* In the ground state the parameters are dead: they are read only in the
\* control-sequence and OS-command branches, and the ESC that leads there
\* clears them (lines 366-375).  States differing only in them behave
\* alike, so they are identified.
MCView ==
    <<flags, IF flags = Ground THEN <<>> ELSE <<params, curParam, osCur>>,
      active, win, modes, savedX, savedY, tabSize, tabStops, xfaults, pending>>

\* Characters a program writes: text, the C0 controls, and the escape and
\* control sequences of a full-screen program (cursor addressing with
\* parameters on the screen, a scroll region of its lower rows, erasing,
\* line and character insertion and deletion, the alternate screen, the
\* saved cursor, tab stops, line drawing, an OS title and an APC).
MCScreenWords ==
    { <<"a">>, <<"LF">>, <<"CR">>, <<"BS">>, <<"HT">>,
      <<"ESC", "[", "A">>, <<"ESC", "[", "D">>,
      <<"ESC", "[", "2", ";", "2", "H">>, <<"ESC", "[", "2", "J">>,
      <<"ESC", "7">>, <<"ESC", "8">>, <<"ESC", "M">>,
      <<"ESC", "H">>, <<"ESC", "[", "3", "g">>,
      <<"ESC", "[", "?", "1", "0", "4", "9", "h">>,
      <<"ESC", "[", "?", "1", "0", "4", "9", "l">>,
      <<"ESC", "[", "2", ";", "3", "r">>, <<"ESC", "[", "r">>,
      <<"ESC", "[", "L">>, <<"ESC", "[", "M">>, <<"ESC", "[", "s">>,
      <<"ESC", "[", "@">>, <<"ESC", "[", "P">>,
      <<"ESC", "]", "BEL">>, <<"ESC", "_", "ST">> }

\* The cursor-right sequence every line editor sends.
MCCursorRightWords == { <<"a">>, <<"LF">>, <<"ESC", "[", "C">> }

\* A scroll region given bottom row first.
MCRegionWords == { <<"ESC", "[", "3", ";", "1", "r">>, <<"LF">> }

\* The saved cursor across a resize.
MCSaveWords == { <<"a">>, <<"LF">>, <<"ESC", "7">>, <<"ESC", "8">> }

\* A control sequence interrupted by an OS-command introducer, then text.
MCMalformedWords == { <<"ESC", "[", "]">>, <<"a">> }

\* Character insertion of a count past the last column.
MCInsertCountWords == { <<"a">>, <<"ESC", "[", "2", "@">> }

MCSameSize == { [cols |-> 2, rows |-> 3] }
MCShrink == { [cols |-> 2, rows |-> 2], [cols |-> 2, rows |-> 3] }
=============================================================================
