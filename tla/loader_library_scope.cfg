\* liba calls s4, which only the program defines: findSymbol searches the
\* preloads and libraries, never the program (loader.cc 637-666).
CONSTANTS
    NoFile = NoFile  None = None  Unbound = Unbound  Weak = Weak  Missing = Missing  AsGiven = AsGiven  NUL = NUL
    Names <- MCNames
    Dirs <- MCDirs
    Files <- MCFiles
    Symbols <- MCSymbolsScope
    Image <- MCImageScope
    Located <- MCLocated
    Program = "app"
    Preloads <- MCPreloads
    LibPaths <- MCLibPaths
    Arches <- MCArches
    MayFail = TRUE
    MaxPaths = 3
    MaxMetas = 5
SPECIFICATION Spec
INVARIANT AllResolve
CHECK_DEADLOCK FALSE
