\* A full-screen program's output on a 2x3 terminal, with resize events
\* that keep the size.
CONSTANTS
    Width = 2
    Height = 3
    Sizes <- MCSameSize
    Words <- MCScreenWords
SPECIFICATION Spec
VIEW MCView
INVARIANT NoBufferOverrun
INVARIANT CursorOnScreen
INVARIANT WordsEndInGround
