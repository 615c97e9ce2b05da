\* A scroll region set bottom row first, then a line feed.
CONSTANTS
    Width = 2
    Height = 3
    Sizes <- MCSameSize
    Words <- MCRegionWords
SPECIFICATION Spec
VIEW MCView
INVARIANT NoBufferOverrun
