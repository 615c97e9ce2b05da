\* An ESC [ sequence interrupted by ']', then text.
CONSTANTS
    Width = 2
    Height = 3
    Sizes <- MCSameSize
    Words <- MCMalformedWords
SPECIFICATION Spec
VIEW MCView
INVARIANT ParserDispatchable
