\* LD_LIBRARY_PATH=/opt:/libraries: strtok is given the buffer on every
\* call (loader.cc 153) and the loop never ends.
CONSTANTS
    NoFile = NoFile  None = None  Unbound = Unbound  Weak = Weak  Missing = Missing  AsGiven = AsGiven  NUL = NUL
    Names <- MCNames
    Dirs <- MCDirs
    Files <- MCFiles
    Symbols <- MCSymbols
    Image <- MCImage
    Located <- MCLocated
    Program = "app"
    Preloads <- MCPreloads
    LibPaths <- MCLibPathSet
    Arches <- MCArches
    MayFail = TRUE
    MaxPaths = 3
    MaxMetas = 5
SPECIFICATION Spec
PROPERTY Terminates
CHECK_DEADLOCK FALSE
