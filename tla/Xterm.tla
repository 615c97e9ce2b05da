------------------------------- MODULE Xterm -------------------------------
(***************************************************************************)
(* The TUI terminal emulator, Xterm.cc and Xterm.h: write(utf32) parses   *)
(* one character of the output of the programs the terminal runs and acts *)
(* on one of two Windows (the normal and the alternate screen); resize()  *)
(* reshapes both.  Everything runs on the TUI's one thread, so each call  *)
(* is one step.                                                            *)
(*                                                                         *)
(* A window is kept as its geometry and cursor; the characters and colours *)
(* in its buffer are left out, and every access the code makes to the     *)
(* buffer (m_pInsert/m_pBuffer), to m_TabStops, or to the parameter arrays *)
(* is checked against the extent of that array instead: an access outside *)
(* it is recorded, by the name of the function making it, in the faults   *)
(* of the window or of the Xterm.  size_t values are integers in two's    *)
(* complement (a negative value v is 2^64 + v), compared unsigned where   *)
(* the code compares them; with Width and every resized width a power of  *)
(* two, x % width agrees with the 64-bit remainder.                       *)
(*                                                                         *)
(* The input is a sequence of words from Words, each a sequence of        *)
(* characters that write() receives one at a time: a control character   *)
(* by its name ("ESC", "LF", ...), any other character as a one-character *)
(* string; "a" stands for every printable character the parser does not  *)
(* treat specially.                                                        *)
(***************************************************************************)
EXTENDS Integers, Sequences, FiniteSets, TLC

CONSTANTS
    Width, Height,  \* the character grid of the constructor (nWidth, nHeight)
    Sizes,          \* the [cols, rows] a resize may set
    Words           \* the sequences of characters programs write

ASSUME /\ Width \in {1, 2, 4, 8, 16} /\ Height \in Nat \ {0}
       /\ Sizes \subseteq [cols : {1, 2, 4, 8, 16}, rows : Nat \ {0}]

MaxParams == 16     \* XTERM_MAX_PARAMS (Xterm.h line 37)
CharSize == 8       \* sizeof(TermChar): three uint8_t and a uint32_t
MaxScrollback == 1000  \* nMaxScrollback, as the constructor passes it

VARIABLES
    flags,     \* m_Flags, as the set of TerminalFlags set
    params,    \* m_Cmd.params
    curParam,  \* m_Cmd.cur_param
    osCur,     \* m_OsCtl.cur_param
    active,    \* m_ActiveBuffer
    win,       \* m_pWindows[0..1]: a record per Window
    modes,     \* m_Modes, as the set of TerminalModes set
    savedX, savedY,  \* m_SavedX, m_SavedY
    tabSize,   \* the length of the m_TabStops array
    tabStops,  \* the columns whose m_TabStops entry is non-zero
    xfaults,   \* the Xterm functions that accessed outside an array
    pending    \* the rest of the word being written

vars == <<flags, params, curParam, osCur, active, win, modes, savedX, savedY,
          tabSize, tabStops, xfaults, pending>>

-----------------------------------------------------------------------------
(* size_t arithmetic.                                                      *)

\* a < b for size_t operands.
ULt(a, b) == IF (a < 0) = (b < 0) THEN a < b ELSE b < 0

(* Buffer accesses.                                                        *)

InBuffer(w, i) == 0 <= i /\ i < w.bufferLength

Check(w, ok, name) == IF ok THEN w ELSE [w EXCEPT !.faults = @ \cup {name}]

\* setChar(utf32, x, y), lines 1397-1411, on every cell of a set: the
\* tests `x > m_Width` and `y > m_Height` skip a cell, any other is
\* written at m_pInsert[y*m_Width+x].
SetChars(w, cells, name) ==
    Check(w, \A c \in cells : ULt(w.width, c[1]) \/ ULt(w.height, c[2])
                              \/ InBuffer(w, c[2] * w.width + c[1]), name)

\* The cells of columns cols of row y, and of whole rows.
Row(cols, y) == {<<c, y>> : c \in cols}
Rows(w, rows) == {<<c, r>> : c \in 0..(w.width - 1), r \in rows}

\* memmove(&m_pBuffer[dst], &m_pBuffer[src], bytes): dst and src index
\* TermChars, the length counts bytes (a negative size_t is huge).
MoveOk(w, dst, src, bytes) ==
    \/ bytes = 0
    \/ /\ bytes > 0 /\ dst >= 0 /\ src >= 0
       /\ dst * CharSize + bytes <= w.bufferLength * CharSize
       /\ src * CharSize + bytes <= w.bufferLength * CharSize

\* The blanking loop `for (i = a; i < b; i++) m_pBuffer[i] = blank`.
BlankOk(w, a, b) == ~ULt(a, b) \/ (a >= 0 /\ b <= w.bufferLength)


-----------------------------------------------------------------------------
(* Window operations: each maps a window record to the record after it.    *)

\* The constructor, lines 1219-1256.
NewWindow(rows, cols) ==
    [width |-> cols, height |-> rows, cursorX |-> 0, cursorY |-> 0,
     scrollStart |-> 0, scrollEnd |-> rows - 1,
     leftMargin |-> 0, rightMargin |-> cols,
     bufferLength |-> rows * cols, lineRender |-> FALSE, faults |-> {}]

\* scrollRegionUp(n), lines 1589-1653: move rows start+n..end up by n and
\* blank the n rows above end+1.
ScrollRegionUp(w, n) ==
    LET s == w.scrollStart  e == w.scrollEnd  W == w.width IN
    Check(w, /\ MoveOk(w, s * W, (s + n) * W, (e + 1 - n - s) * W * CharSize)
             /\ BlankOk(w, W * (e + 1 - n), W * (e + 1)), "scrollRegionUp")

\* scrollRegionDown(n), lines 1655-1723.
ScrollRegionDown(w, n) ==
    LET s == w.scrollStart  e == w.scrollEnd  W == w.width IN
    Check(w, /\ MoveOk(w, (s + n) * W, s * W, (e + 1 - n - s) * W * CharSize)
             /\ BlankOk(w, W * s, W * (s + n)), "scrollRegionDown")

\* scrollScreenUp(n), lines 1725-1822: move the whole screen up by n, then,
\* since m_pInsert never advances, test `m_pInsert + m_Height*m_Width >=
\* m_pBuffer + m_BufferLength` and grow the scrollback buffer.
ScrollScreenUp(w, n) ==
    LET W == w.width  H == w.height
        moved == Check(w, /\ MoveOk(w, 0, n * W, (W * H - n * W) * CharSize)
                          /\ BlankOk(w, W * H - n * W, W * H), "scrollScreenUp")
        amount == IF W * H + w.bufferLength > MaxScrollback * W
                  THEN MaxScrollback * W - w.bufferLength ELSE W * H
    IN CASE ~(H * W >= w.bufferLength) -> moved
         [] w.bufferLength < MaxScrollback * W ->
              [moved EXCEPT !.bufferLength = @ + amount]
         [] OTHER ->
              [Check(moved, MoveOk(w, W * H, 0, W * H * CharSize), "scrollScreenUp")
                  EXCEPT !.bufferLength = @ + W * H]

\* cursorDown(n), lines 1420-1436.
CursorDown(w, n) ==
    LET y == w.cursorY + n IN
    IF ULt(w.scrollEnd, y)
    THEN LET amount == y - w.scrollEnd
             scrolled == IF w.scrollStart = 0 /\ w.scrollEnd = w.height - 1
                         THEN ScrollScreenUp(w, amount)
                         ELSE ScrollRegionUp(w, amount)
         IN [scrolled EXCEPT !.cursorY = w.scrollEnd]
    ELSE [w EXCEPT !.cursorY = y]

\* cursorUp(n), lines 1438-1460: both branches scroll the region down.
CursorUp(w, n) ==
    IF ULt(w.cursorY, n)
    THEN ScrollRegionDown([w EXCEPT !.cursorY = 0], n - w.cursorY)
    ELSE [w EXCEPT !.cursorY = @ - n]

\* Lines 1462-1471.
CursorUpWithinMargin(w, n) ==
    LET y == w.cursorY - (IF ULt(w.cursorY, n) THEN w.cursorY ELSE n) IN
    [w EXCEPT !.cursorY = IF ULt(y, w.scrollStart) THEN w.scrollStart ELSE y]

\* Lines 1473-1482.
CursorLeftWithinMargin(w, n) ==
    LET x == w.cursorX - (IF ULt(w.cursorX, n) THEN w.cursorX ELSE n) IN
    [w EXCEPT !.cursorX = IF ULt(x, w.leftMargin) THEN w.leftMargin ELSE x]

\* Lines 1484-1490: past the right margin the code assigns the ROW.
CursorRightWithinMargin(w, n) ==
    IF ULt(w.cursorX + n, w.rightMargin)
    THEN [w EXCEPT !.cursorX = @ + n]
    ELSE [w EXCEPT !.cursorX = @ + n, !.cursorY = w.rightMargin - 1]

\* Lines 1492-1498.
CursorDownWithinMargin(w, n) ==
    [w EXCEPT !.cursorY = IF ULt(w.scrollEnd, @ + n) THEN w.scrollEnd ELSE @ + n]

\* backspace(), lines 1501-1508.
Backspace(w) ==
    LET x == IF w.cursorX = w.rightMargin THEN w.cursorX - 1 ELSE w.cursorX IN
    [w EXCEPT !.cursorX = IF ULt(w.leftMargin, x) THEN x - 1 ELSE x]

\* setCursor, setCursorX, setCursorY, lines 1824-1837: no clamping.
SetCursor(w, x, y) == [w EXCEPT !.cursorX = x, !.cursorY = y]

\* Lines 1863-1872.
CursorLeftToMargin(w) == [w EXCEPT !.cursorX = w.leftMargin]
CursorDownAndLeftToMargin(w) == [CursorDown(w, 1) EXCEPT !.cursorX = w.leftMargin]

\* cursorTab(), lines 1874-1893: the first stop right of the cursor and
\* left of the right margin, else the last column before the margin.  The
\* scan reads m_TabStops[x] for every x it passes.
CursorTab(w, size, stops) ==
    LET scan == IF ULt(w.cursorX + 1, w.rightMargin)
                THEN (w.cursorX + 1)..(w.rightMargin - 1) ELSE {}
        found == scan \cap stops
        stop == CHOOSE x \in found : \A z \in found : x <= z
        read == IF found = {} THEN scan ELSE {x \in scan : x <= stop}
        w1 == Check(w, \A x \in read : 0 <= x /\ x < size, "cursorTab")
    IN [w1 EXCEPT !.cursorX = IF found = {} THEN w.rightMargin - 1 ELSE stop]

\* cursorTabBack(), lines 1895-1914: the scan counts a signed x down to 0.
CursorTabBack(w, size, stops) ==
    LET scan == 0..(w.cursorX - 1)
        found == scan \cap stops
        stop == CHOOSE x \in found : \A z \in found : x >= z
        read == IF found = {} THEN scan ELSE {x \in scan : x >= stop}
        w1 == Check(w, \A x \in read : x < size, "cursorTabBack")
    IN [w1 EXCEPT !.cursorX = IF found = {} \/ ULt(stop, w.leftMargin)
                              THEN w.leftMargin ELSE stop]

\* addChar(utf32), lines 1916-1929: read the cell (getChar, lines
\* 1413-1418), write it, advance, and wrap at a multiple of the width.
AddCharNoWrap(w) ==
    [SetChars(Check(w, InBuffer(w, w.cursorY * w.width + w.cursorX), "getChar"),
              {<<w.cursorX, w.cursorY>>}, "addChar") EXCEPT !.cursorX = @ + 1]
AddChar(w) ==
    LET read == Check(w, InBuffer(w, w.cursorY * w.width + w.cursorX), "getChar")
        written == SetChars(read, {<<w.cursorX, w.cursorY>>}, "addChar")
    IN IF (w.cursorX + 1) % w.width = 0
       THEN CursorDown([written EXCEPT !.cursorX = 0], 1)
       ELSE [written EXCEPT !.cursorX = @ + 1]

\* scrollUp and scrollDown, lines 1931-1939.
ScrollUp(w, n) == ScrollRegionDown(w, n)
ScrollDown(w, n) == ScrollRegionUp(w, n)


\* eraseScreen(), lines 1941-1971 (the cursor stays).
EraseScreen(w) == SetChars(w, Rows(w, 0..(w.height - 1)), "eraseScreen")

\* eraseEOL(), lines 1973-2003: columns cursorX..width-1.
EraseEOL(w) ==
    SetChars(w, Row(IF ULt(w.cursorX, w.width) THEN w.cursorX..(w.width - 1) ELSE {},
                    w.cursorY), "eraseEOL")

\* eraseSOL(), lines 2005-2033: columns 0..cursorX-1; a wrapped cursorX
\* runs the loop over every column setChar lets through.
EraseSOL(w) ==
    SetChars(w, Row(IF w.cursorX < 0 THEN 0..w.width ELSE 0..(w.cursorX - 1),
                    w.cursorY), "eraseSOL")

\* eraseLine(), lines 2035-2063.
EraseLine(w) == SetChars(w, Rows(w, {w.cursorY}), "eraseLine")

\* eraseChars(n), lines 2065-2098: n is cut to the width left of the cursor.
EraseChars(w, n) ==
    LET m == IF ULt(w.width, w.cursorX + n) THEN w.width - w.cursorX ELSE n
        end == w.cursorX + m
    IN SetChars(w, Row(IF ULt(w.cursorX, end) THEN w.cursorX..(end - 1) ELSE {},
                       w.cursorY), "eraseChars")

\* eraseUp(), lines 2100-2129: rows 0..cursorY-1.
EraseUp(w) ==
    SetChars(w, Rows(w, IF w.cursorY < 0 THEN 0..w.height ELSE 0..(w.cursorY - 1)),
             "eraseUp")

\* eraseDown(), lines 2131-2162: rows cursorY..height-1.
EraseDown(w) ==
    SetChars(w, Rows(w, IF ULt(w.cursorY, w.height) THEN w.cursorY..(w.height - 1)
                        ELSE {}), "eraseDown")

DeleteCharactersWholeRest(w, n) ==
    LET base == w.cursorY * w.width
        moved == Check(w, MoveOk(w, base + w.cursorX, base + w.cursorX + n,
                                 (w.width - w.cursorX) * CharSize),
                       "deleteCharacters")
    IN SetChars(moved, Row(IF ULt(w.width - n, w.width) THEN (w.width - n)..(w.width - 1)
                           ELSE {}, w.cursorY), "deleteCharacters")

\* deleteCharacters(n), lines 2164-2212: shift the rest of the row left
\* by n, then blank the last n columns.
DeleteCharacters(w, n) ==
    LET base == w.cursorY * w.width
        moved == Check(w, MoveOk(w, base + w.cursorX, base + w.cursorX + n,
                                 (w.width - (w.cursorX + n)) * CharSize),
                       "deleteCharacters")
    IN SetChars(moved, Row(IF ULt(w.width - n, w.width) THEN (w.width - n)..(w.width - 1)
                           ELSE {}, w.cursorY), "deleteCharacters")

\* insertCharacters(n), lines 2214-2259: the memmove counts bytes, not
\* TermChars; then blank n columns at the cursor.
InsertCharacters(w, n) ==
    LET base == w.cursorY * w.width
        end == w.cursorX + n
        moved == Check(w, MoveOk(w, base + end, base + w.cursorX, w.width - end),
                       "insertCharacters")
    IN SetChars(moved, Row(IF ULt(w.cursorX, end) THEN w.cursorX..(end - 1) ELSE {},
                           w.cursorY), "insertCharacters")

\* insertLines(n), lines 2261-2288: near the region's end, erase below the
\* cursor; otherwise scroll the rows below the cursor down and blank n.
InsertLines(w, n) ==
    IF ~ULt(w.cursorY + 1 + n, w.scrollEnd)
    THEN [EraseDown([w EXCEPT !.cursorY = @ + 1]) EXCEPT !.cursorY = w.cursorY]
    ELSE LET w1 == ScrollRegionDown([w EXCEPT !.scrollStart = w.cursorY + 1], n)
             w2 == SetChars(w1, Rows(w, (w.cursorY + 1)..(w.cursorY + n)), "eraseLine")
         IN [w2 EXCEPT !.scrollStart = w.scrollStart]

\* deleteLines(n), lines 2290-2319: the same test; the other branch moves
\* the whole screen up (scrollScreenUp ignores the region it set), and
\* its blanking loop runs from savedY+n+1 to below savedY+1+n, no row.
DeleteLines(w, n) ==
    IF ~ULt(w.cursorY + 1 + n, w.scrollEnd)
    THEN [EraseDown([w EXCEPT !.cursorY = @ + 1]) EXCEPT !.cursorY = w.cursorY]
    ELSE [ScrollScreenUp([w EXCEPT !.scrollStart = w.cursorY + 1], n)
            EXCEPT !.scrollStart = w.scrollStart]

\* setScrollRegion(start, end), lines 1350-1358: -1 means the default.
SetScrollRegion(w, start, end) ==
    [w EXCEPT !.scrollStart = IF start = -1 THEN 0 ELSE start,
              !.scrollEnd = IF end = -1 THEN w.height - 1 ELSE end]

\* setMargins(left, right), Xterm.h lines 125-134: both clamped to width.
SetMargins(w, left, right) ==
    [w EXCEPT !.leftMargin = IF ULt(w.width, left) THEN w.width ELSE left,
              !.rightMargin = IF ULt(w.width, right) THEN w.width ELSE right]

\* resize(nWidth, nHeight, bActive), lines 1273-1348: a new buffer of the
\* new size, the region reset, the cursor and margins cut back (the saved
\* cursor of the Xterm is not).  The copy loop stays inside both buffers.
Resize(w, cols, rows) ==
    [w EXCEPT !.width = cols, !.height = rows, !.bufferLength = rows * cols,
              !.scrollStart = 0, !.scrollEnd = rows - 1,
              !.cursorX = IF ULt(@, cols) THEN @ ELSE 0,
              !.cursorY = IF ULt(@, rows) THEN @ ELSE 0,
              !.rightMargin = IF ULt(cols, @) THEN cols ELSE @,
              !.leftMargin = IF ULt(cols, @) THEN cols ELSE @]

\* The default tab stops, every eighth column (lines 108-114, 1340-1346).
DefaultTabStops(cols) == {i \in 0..(cols - 1) : i % 8 = 0}


-----------------------------------------------------------------------------
(* The parser of write(utf32), lines 325-1212.                             *)

\* setFlagsForUtf32(utf32), lines 236-323.
FlagTable ==
    ("ESC" :> "Escape") @@ ("?" :> "Question") @@ (" " :> "Space")
    @@ ("#" :> "Hash") @@ ("%" :> "Percent") @@ ("(" :> "LeftRound")
    @@ (")" :> "RightRound") @@ ("[" :> "LeftSquare") @@ ("]" :> "RightSquare")
    @@ ("_" :> "Underscore") @@ ("/" :> "Slash") @@ ("." :> "Period")
    @@ ("-" :> "Minus") @@ ("+" :> "Plus") @@ ("*" :> "Asterisk")
    @@ ("\\" :> "Backslash") @@ ("!" :> "Bang") @@ ("'" :> "Apostrophe")
    @@ ("\"" :> "Quote") @@ ("$" :> "Dollar")
SetFlagsFor(c) == IF c \in DOMAIN FlagTable THEN flags \cup {FlagTable[c]} ELSE flags

\* The bits that choose a branch of write() (lines 331, 413, 981, 1165,
\* 1204), and the branches there are.
Kind == flags \cap {"Escape", "LeftSquare", "RightSquare", "Underscore"}
Ground == {}
Esc == {"Escape"}
Csi == {"Escape", "LeftSquare"}
Osc == {"Escape", "RightSquare"}
Apc == {"Escape", "Underscore"}

\* Characters below 32, which the ground branch does not print (line 407).
Controls == {"ENQ", "BS", "LF", "VT", "FF", "HT", "CR", "SO", "SI", "ESC", "BEL"}
DigitSeq == <<"0", "1", "2", "3", "4", "5", "6", "7", "8", "9">>
Digits == {DigitSeq[i] : i \in 1..10}
DigitValue(c) == CHOOSE d \in 0..9 : DigitSeq[d + 1] = c

\* m_Cmd.params[i]; past XTERM_MAX_PARAMS the read leaves the array.
P(i) == IF i < MaxParams THEN params[i] ELSE 0
\* The `params[0] ? params[0] : d` and `params[0] ? params[0]-1 : d` forms.
Or(p, d) == IF p # 0 THEN p ELSE d
Dec(p, d) == IF p # 0 THEN p - 1 ELSE d

Active == win[active]
SetActive(w) == win' = [win EXCEPT ![active] = w]

\* The ground branch, lines 331-412, on the active window.
GroundOp(c, w) ==
    CASE c \in {"ENQ", "BS"} -> Backspace(w)   \* ENQ falls through (line 335)
      [] c \in {"LF", "VT", "FF"} ->
            IF "LineFeedNewLine" \in modes THEN CursorDownAndLeftToMargin(w)
            ELSE CursorDown(w, 1)
      [] c = "HT" -> CursorTab(w, tabSize, tabStops)
      [] c = "CR" -> CursorLeftToMargin(w)
      [] c \in Controls -> w
      [] OTHER -> AddChar(w)

ZeroParams == [i \in 0..(MaxParams - 1) |-> 0]

WriteGround ==
    /\ pending # <<>> /\ Kind = Ground
    /\ LET c == Head(pending) IN
       /\ SetActive(GroundOp(c, Active))
       /\ IF c = "ESC"
          THEN flags' = Esc /\ params' = ZeroParams /\ curParam' = 0 /\ osCur' = 0
          ELSE UNCHANGED <<flags, params, curParam, osCur>>
    /\ pending' = Tail(pending)
    /\ UNCHANGED <<active, modes, savedX, savedY, tabSize, tabStops, xfaults>>


(* The control-sequence branch, lines 413-980.                             *)

\* The characters that end a control sequence (`m_Flags = 0`).
CsiFinalsNoR == {"@", "A", "B", "C", "D", "E", "F", "G", "H", "f", "I", "J", "K",
                 "L", "M", "P", "S", "T", "X", "Z", "c", "d", "e", "g", "h", "l",
                 "m", "n", "p", "q", "s", "u", "x"}
CsiFinals == {"@", "A", "B", "C", "D", "E", "F", "G", "H", "f", "I", "J", "K",
              "L", "M", "P", "S", "T", "X", "Z", "c", "d", "e", "g", "h", "l",
              "m", "n", "p", "q", "r", "s", "u", "x"}

RECURSIVE Tabs(_, _), BackTabs(_, _)
Tabs(w, k) == IF k <= 0 THEN w ELSE Tabs(CursorTab(w, tabSize, tabStops), k - 1)
BackTabs(w, k) == IF k <= 0 THEN w ELSE BackTabs(CursorTabBack(w, tabSize, tabStops), k - 1)

\* The window calls of the control-sequence branch.  'c', 'n' and 'x'
\* answer through m_pT->addToQueue and 'm' sets colours, none of which is
\* kept; 'T' with RightAngle is unreachable, since setFlagsForUtf32 never
\* sets that flag.
CsiOp(c, w) ==
    CASE c = "BS" -> Backspace(w)
      [] c \in {"LF", "VT"} ->
            CursorDown(IF "LineFeedNewLine" \in modes THEN CursorLeftToMargin(w) ELSE w, 1)
      [] c = "CR" -> CursorLeftToMargin(w)
      [] c = "@" -> InsertCharacters(w, Or(P(0), 1))
      [] c = "A" -> CursorUpWithinMargin(w, 1)
      [] c = "B" -> CursorDownWithinMargin(w, 1)
      [] c = "C" -> CursorRightWithinMargin(w, 1)
      [] c = "D" -> CursorLeftWithinMargin(w, 1)
      [] c = "E" -> CursorDown(CursorLeftToMargin(w), Or(P(0), 1))
      [] c = "F" -> CursorUp(CursorLeftToMargin(w), Or(P(0), 1))
      [] c = "G" -> SetCursor(w, Dec(P(0), 0), w.cursorY)
      [] c \in {"H", "f"} -> SetCursor(w, Dec(P(1), 0), Dec(P(0), 0))
      [] c = "I" -> Tabs(w, Or(P(0), 1))
      [] c = "J" -> CASE P(0) = 0 -> EraseDown(w) [] P(0) = 1 -> EraseUp(w)
                      [] P(0) = 2 -> EraseScreen(w) [] OTHER -> w
      [] c = "K" -> CASE P(0) = 0 -> EraseEOL(w) [] P(0) = 1 -> EraseSOL(w)
                      [] P(0) = 2 -> EraseLine(w) [] OTHER -> w
      [] c = "L" -> InsertLines(w, Or(P(0), 1))
      [] c = "M" -> DeleteLines(w, Or(P(0), 1))
      [] c = "P" -> DeleteCharacters(w, Or(P(0), 1))
      [] c = "S" -> ScrollDown(w, Or(P(0), 1))
      [] c = "T" -> IF curParam > 1 THEN w ELSE ScrollUp(w, Or(P(0), 1))
      [] c = "X" -> EraseChars(w, Dec(P(0), 1))
      [] c = "Z" -> BackTabs(w, Or(P(0), 1))
      [] c = "d" -> SetCursor(w, w.cursorX, Dec(P(0), 0))
      [] c = "e" -> CursorDown(w, Dec(P(0), 1))
      [] c = "r" -> IF "Question" \in flags THEN w
                    ELSE SetScrollRegion(w, Dec(P(0), -1), Dec(P(1), -1))
      [] OTHER -> w

\* A character of a control sequence that acts on the window, or on
\* nothing kept: every case of lines 419-977 but the parameters, the
\* modes, the cursor save and restore and the tab stops.  'I' and 'Z'
\* raise a zero params[0] to 1 before their loops.
WriteCsi ==
    /\ pending # <<>> /\ Kind = Csi
    /\ LET c == Head(pending) IN
       /\ c \notin Digits \cup {";", ",", "h", "l", "s", "u", "g"}
       /\ SetActive(CsiOp(c, Active))
       /\ flags' = IF c \in CsiFinals THEN Ground ELSE SetFlagsFor(c)
       /\ params' = IF c \in {"I", "Z"} /\ params[0] = 0
                    THEN [params EXCEPT ![0] = 1] ELSE params
    /\ pending' = Tail(pending)
    /\ UNCHANGED <<curParam, osCur, active, modes, savedX, savedY, tabSize,
                   tabStops, xfaults>>

\* Lines 431-446: a digit accumulates into params[cur_param], a ';' or ','
\* moves to the next parameter; cur_param has no bound.
WriteCsiParam ==
    /\ pending # <<>> /\ Kind = Csi
    /\ LET c == Head(pending) IN
       /\ c \in Digits \cup {";", ","}
       /\ IF c \in Digits
          THEN /\ IF curParam < MaxParams
                  THEN params' = [params EXCEPT ![curParam] = @ * 10 + DigitValue(c)]
                       /\ UNCHANGED xfaults
                  ELSE xfaults' = xfaults \cup {"write"} /\ UNCHANGED params
               /\ UNCHANGED curParam
          ELSE curParam' = curParam + 1 /\ UNCHANGED <<params, xfaults>>
    /\ pending' = Tail(pending)
    /\ UNCHANGED <<flags, osCur, active, win, modes, savedX, savedY, tabSize, tabStops>>


\* Lines 665-697: the DEC private modes that only mark m_Modes.
DecModeTable ==
    (1 :> "CursorKey") @@ (2 :> "AnsiVt52") @@ (4 :> "Scrolling")
    @@ (6 :> "Origin") @@ (7 :> "AutoWrap") @@ (8 :> "AutoRepeat")
    @@ (67 :> "AppKeypad") @@ (69 :> "Margin")

\* One parameter of 'h' or 'l' under '?' (lines 662-729), on st: the modes
\* to change, m_ActiveBuffer, the windows and the saved cursor.  1048 and
\* 1049 save (h) or restore (l) the cursor of the window active at that
\* moment; 1049, 47 and 1047 then switch buffers, and 1049h clears the new
\* one.
SwitchBuffer(p, set, st) ==
    IF p = 1048 THEN st
    ELSE LET to == IF set THEN 1 ELSE 0 IN
         [st EXCEPT !.active = to,
                    !.win = IF set /\ p = 1049
                            THEN [@ EXCEPT ![to] = EraseScreen(@)] ELSE @]

DecModeStep(p, set, st) ==
    CASE p \in DOMAIN DecModeTable -> [st EXCEPT !.chg = @ \cup {DecModeTable[p]}]
      [] p = 5 -> IF set = ("Screen" \notin modes)
                  THEN [st EXCEPT !.chg = @ \cup {"Screen"}] ELSE st
      [] p \in {1048, 1049} ->
            SwitchBuffer(p, set,
              IF set THEN [st EXCEPT !.sx = st.win[st.active].cursorX,
                                     !.sy = st.win[st.active].cursorY]
              ELSE [st EXCEPT !.win[st.active] = SetCursor(@, st.sx, st.sy)])
      [] p \in {47, 1047} -> SwitchBuffer(p, set, st)
      [] OTHER -> st

\* Lines 733-745: the one standard mode, 20.
StdModeStep(p, st) ==
    IF p = 20 THEN [st EXCEPT !.chg = @ \cup {"LineFeedNewLine"}] ELSE st

RECURSIVE ModeLoop(_, _, _)
ModeLoop(i, set, st) ==
    IF i > curParam THEN st
    ELSE ModeLoop(i + 1, set, IF "Question" \in flags THEN DecModeStep(P(i), set, st)
                              ELSE StdModeStep(P(i), st))

\* 'h' and 'l', lines 653-773: apply every parameter, then set or clear
\* the modes, and home the cursor when Origin changed.  Screen inverts the
\* colours, which are not kept.
WriteCsiMode ==
    /\ pending # <<>> /\ Kind = Csi
    /\ LET c == Head(pending)
           set == c = "h"
           st == ModeLoop(0, set, [chg |-> {}, active |-> active, win |-> win,
                                   sx |-> savedX, sy |-> savedY])
       IN /\ c \in {"h", "l"}
          /\ modes' = IF set THEN modes \cup st.chg ELSE modes \ st.chg
          /\ active' = st.active
          /\ win' = IF "Origin" \in st.chg
                    THEN [st.win EXCEPT ![st.active] = SetCursor(@, 0, 0)] ELSE st.win
          /\ savedX' = st.sx /\ savedY' = st.sy
          /\ xfaults' = IF curParam >= MaxParams THEN xfaults \cup {"write"} ELSE xfaults
    /\ flags' = Ground
    /\ pending' = Tail(pending)
    /\ UNCHANGED <<params, curParam, osCur, tabSize, tabStops>>

\* 's' and 'u', lines 930-954: save the cursor when there is no parameter
\* and Margin mode is off, set the left and right margins when there are
\* parameters and it is on (~0 is a size_t that setMargins cuts to the
\* width); restore the cursor.
WriteCsiSave ==
    /\ pending # <<>> /\ Kind = Csi
    /\ LET c == Head(pending) IN
       /\ c \in {"s", "u"}
       /\ CASE c = "s" /\ curParam = 0 /\ "Margin" \notin modes ->
                 savedX' = Active.cursorX /\ savedY' = Active.cursorY /\ UNCHANGED win
            [] c = "s" /\ curParam # 0 /\ "Margin" \in modes ->
                 SetActive(SetMargins(Active, Dec(P(0), -1), Dec(P(1), -1)))
                 /\ UNCHANGED <<savedX, savedY>>
            [] c = "u" /\ "Space" \notin flags ->
                 SetActive(SetCursor(Active, savedX, savedY)) /\ UNCHANGED <<savedX, savedY>>
            [] OTHER -> UNCHANGED <<win, savedX, savedY>>
    /\ flags' = Ground
    /\ pending' = Tail(pending)
    /\ UNCHANGED <<params, curParam, osCur, active, modes, tabSize, tabStops, xfaults>>

\* 'g', lines 645-651: clearTabStop() (lines 2582-2585) writes
\* m_TabStops[m_CursorX]; clearAllTabStops() (2587-2590) clears m_Width
\* entries.
WriteCsiTabClear ==
    /\ pending # <<>> /\ Kind = Csi /\ Head(pending) = "g"
    /\ IF P(0) # 3
       THEN /\ tabStops' = tabStops \ {Active.cursorX}
            /\ xfaults' = IF 0 <= Active.cursorX /\ Active.cursorX < tabSize THEN xfaults
                          ELSE xfaults \cup {"clearTabStop"}
       ELSE /\ tabStops' = {}
            /\ xfaults' = IF Active.width <= tabSize THEN xfaults
                          ELSE xfaults \cup {"clearAllTabStops"}
    /\ flags' = Ground
    /\ pending' = Tail(pending)
    /\ UNCHANGED <<params, curParam, osCur, active, win, modes, savedX, savedY, tabSize>>


(* The escape branch, lines 981-1164.                                     *)

EscFinals == {"0", "7", "8", "<", ">", "A", "B", "C", "D", "E", "F", "G", "H",
              "I", "J", "K", "M", "N", "O", "Y", "Z"}

\* The window calls of the escape branch, under the flags after
\* setFlagsForUtf32 (f).  'Z' answers through m_pT, which is not kept.
EscOp(c, f, w) ==
    LET vt52 == "AnsiVt52" \in modes IN
    CASE c = "BS" -> Backspace(w)
      [] c = "0" -> IF "LeftRound" \in f THEN [w EXCEPT !.lineRender = TRUE] ELSE w
      [] c = "8" -> IF "Hash" \in f THEN w ELSE SetCursor(w, savedX, savedY)
      [] c = "A" -> CursorUpWithinMargin(w, 1)
      [] c = "B" -> IF "LeftRound" \in f THEN [w EXCEPT !.lineRender = FALSE]
                    ELSE CursorDownWithinMargin(w, 1)
      [] c = "C" -> CursorRightWithinMargin(w, 1)
      [] c = "D" -> IF vt52 THEN CursorDown(w, 1) ELSE CursorLeftWithinMargin(w, 1)
      [] c = "E" -> CursorDownAndLeftToMargin(w)
      [] c = "H" -> IF vt52 THEN w ELSE SetCursor(w, 0, 0)
      [] c = "I" -> IF vt52 THEN w ELSE CursorUp(w, 1)
      [] c = "J" -> IF vt52 THEN w ELSE EraseDown(w)
      [] c = "K" -> IF vt52 THEN w ELSE EraseEOL(w)
      [] c = "M" -> IF vt52 /\ "Space" \notin f THEN CursorUp(w, 1) ELSE w
      [] OTHER -> w

\* One character after ESC: '7' saves the cursor, '<' sets AnsiVt52, 'H'
\* in that mode sets a tab stop at m_TabStops[cursorX] (line 1087); any
\* character that is not a final one only adds its flag, so '[' opens a
\* control sequence and ']' an OS command.
WriteEsc ==
    /\ pending # <<>> /\ Kind = Esc
    /\ LET c == Head(pending)
           f == SetFlagsFor(c)
           x == Active.cursorX
       IN /\ SetActive(EscOp(c, f, Active))
          /\ flags' = IF c \in EscFinals THEN Ground ELSE f
          /\ IF c = "7" THEN savedX' = x /\ savedY' = Active.cursorY
                        ELSE UNCHANGED <<savedX, savedY>>
          /\ modes' = IF c = "<" THEN modes \cup {"AnsiVt52"} ELSE modes
          /\ IF c = "H" /\ "AnsiVt52" \in modes
             THEN /\ tabStops' = tabStops \cup {x}
                  /\ xfaults' = IF 0 <= x /\ x < tabSize THEN xfaults
                                ELSE xfaults \cup {"write"}
             ELSE UNCHANGED <<tabStops, xfaults>>
    /\ pending' = Tail(pending)
    /\ UNCHANGED <<params, curParam, osCur, active, tabSize>>

(* The OS-command and application-command branches, lines 1165-1209.       *)

\* BEL or ST ends the command (the title it sets is not kept); ';' or ':'
\* moves to the next of the XTERM_MAX_PARAMS strings, without a bound; any
\* other printable character is appended to the current one.
WriteOsc ==
    /\ pending # <<>> /\ Kind = Osc
    /\ LET c == Head(pending) IN
       CASE c \in {"BEL", "ST"} -> flags' = Ground /\ UNCHANGED <<osCur, xfaults>>
         [] c \in {";", ":"} -> osCur' = osCur + 1 /\ UNCHANGED <<flags, xfaults>>
         [] c \notin Controls ->
              /\ xfaults' = IF osCur < MaxParams THEN xfaults ELSE xfaults \cup {"write"}
              /\ UNCHANGED <<flags, osCur>>
         [] OTHER -> UNCHANGED <<flags, osCur, xfaults>>
    /\ pending' = Tail(pending)
    /\ UNCHANGED <<params, curParam, active, win, modes, savedX, savedY, tabSize, tabStops>>

\* An application command is skipped up to ST (lines 1205-1209).  With
\* Escape and two of the branch bits, m_Flags matches no branch and the
\* character only reaches m_pT->addToQueue(0, true) (line 1211).
WriteSkip ==
    /\ pending # <<>> /\ Kind \notin {Ground, Esc, Csi, Osc}
    /\ flags' = IF Kind = Apc /\ Head(pending) = "ST" THEN Ground ELSE flags
    /\ pending' = Tail(pending)
    /\ UNCHANGED <<params, curParam, osCur, active, win, modes, savedX, savedY,
                   tabSize, tabStops, xfaults>>

-----------------------------------------------------------------------------
(* The terminal's environment.                                             *)

\* A program writes its next word, once the last one is consumed.
Output(wd) ==
    /\ pending = <<>>
    /\ pending' = wd
    /\ UNCHANGED <<flags, params, curParam, osCur, active, win, modes, savedX,
                   savedY, tabSize, tabStops, xfaults>>

\* Xterm::resize (Xterm.h lines 69-73), between two characters: the
\* inactive window, then the active one; each replaces m_TabStops with
\* the default stops of the new width.
ResizeXterm(sz) ==
    /\ win' = [b \in {0, 1} |-> Resize(win[b], sz.cols, sz.rows)]
    /\ tabSize' = sz.cols
    /\ tabStops' = DefaultTabStops(sz.cols)
    /\ UNCHANGED <<flags, params, curParam, osCur, active, modes, savedX, savedY,
                   xfaults, pending>>

\* The constructor, lines 94-118.
Init ==
    /\ flags = Ground /\ params = ZeroParams /\ curParam = 0 /\ osCur = 0
    /\ active = 0
    /\ win = [b \in {0, 1} |-> NewWindow(Height, Width)]
    /\ modes = {"AnsiVt52"}
    /\ savedX = 0 /\ savedY = 0
    /\ tabSize = Width /\ tabStops = DefaultTabStops(Width)
    /\ xfaults = {}
    /\ pending = <<>>

Next ==
    \/ WriteGround \/ WriteCsi \/ WriteCsiParam \/ WriteCsiMode \/ WriteCsiSave
    \/ WriteCsiTabClear \/ WriteEsc \/ WriteOsc \/ WriteSkip
    \/ \E wd \in Words : Output(wd)
    \/ \E sz \in Sizes : ResizeXterm(sz)

Spec == Init /\ [][Next]_vars

-----------------------------------------------------------------------------
(* Properties.                                                             *)

Faults == win[0].faults \cup win[1].faults \cup xfaults

\* Every access write() and resize() make to a window's character buffer,
\* to m_TabStops and to the parameter arrays lies inside the array: no
\* sequence of escape sequences and resizes drives the cursor, the scroll
\* region or a count to where setChar, getChar, the memmoves of the
\* scroll, insert and delete functions or the blanking loops overrun it.
NoBufferOverrun == Faults = {}

\* The cursor of the active window is on its screen, where addChar reads
\* and writes the next character.
CursorOnScreen ==
    /\ 0 <= Active.cursorX /\ Active.cursorX < Active.width
    /\ 0 <= Active.cursorY /\ Active.cursorY < Active.height

\* Once a program has written a whole escape sequence, write() is back in
\* its ground state: every sequence ends in a character its branch treats
\* as final, so the characters after it are printed, not swallowed.
WordsEndInGround == pending = <<>> => flags = Ground

\* m_Flags always selects one of the five branches of write(); otherwise
\* the terminal ignores every later character, ESC included.
ParserDispatchable == Kind \in {Ground, Esc, Csi, Osc, Apc}

=============================================================================
