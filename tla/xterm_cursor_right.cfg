\* Text, line feeds and the cursor-right sequence ESC [ C on a 2x3 terminal.
CONSTANTS
    Width = 2
    Height = 3
    Sizes <- MCSameSize
    Words <- MCCursorRightWords
SPECIFICATION Spec
VIEW MCView
INVARIANT NoBufferOverrun
