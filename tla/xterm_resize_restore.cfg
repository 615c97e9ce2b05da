\* The cursor saved on the bottom row, the terminal shrunk by a row, the cursor restored.
CONSTANTS
    Width = 2
    Height = 3
    Sizes <- MCShrink
    Words <- MCSaveWords
SPECIFICATION Spec
VIEW MCView
INVARIANT NoBufferOverrun
