\* The program, its preload and libraries of MCLoader, on both builds, with
\* LD_LIBRARY_PATH unset or set, and mmap allowed to fail.
CONSTANTS
    NoFile = NoFile  None = None  Unbound = Unbound  Weak = Weak  Missing = Missing  AsGiven = AsGiven  NUL = NUL
    Names <- MCNames
    Dirs <- MCDirs
    Files <- MCFiles
    Symbols <- MCSymbols
    Image <- MCImage
    Located <- MCLocated
    Program = "app"
    Preloads <- MCPreloads
    LibPaths <- MCLibPaths
    Arches <- MCArches
    MayFail = TRUE
    MaxPaths = 3
    MaxMetas = 5
SPECIFICATION Spec
INVARIANT TypeOK
INVARIANT PreloadInterposesMain
INVARIANT MainResolves
INVARIANT BoundBeforeEntry
PROPERTY TerminatesWithoutLibPath
\* The loader's work ends at the program's entry, an exit or a crash; once
\* the program has made its calls nothing more happens.
CHECK_DEADLOCK FALSE
