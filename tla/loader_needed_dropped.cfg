\* The program needs liba and libb; the DT_NEEDED copy loop (loader.cc
\* 545-554) records liba only, so libb is never loaded.
CONSTANTS
    NoFile = NoFile  None = None  Unbound = Unbound  Weak = Weak  Missing = Missing  AsGiven = AsGiven  NUL = NUL
    Names <- MCNames
    Dirs <- MCDirs
    Files <- MCFiles
    Symbols <- MCSymbols
    Image <- MCImageDeps
    Located <- MCLocated
    Program = "app"
    Preloads <- MCPreloads
    LibPaths <- MCLibPaths
    Arches <- MCArches
    MayFail = TRUE
    MaxPaths = 3
    MaxMetas = 5
SPECIFICATION Spec
INVARIANT NeededLoaded
CHECK_DEADLOCK FALSE
