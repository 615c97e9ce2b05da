CONSTANTS
    Null = Null
    Handles <- MCHandles
    Notes <- MCResizeNotes
    RootLayouts = {"SideBySide"}
    Width = 2
    Height = 2
    MaxObjs <- MCMaxObjs
    MaxClients <- MCMaxClients
    MaxInputs <- MCMaxInputs
    MaxQueue = 2
SPECIFICATION Spec
CHECK_DEADLOCK FALSE
INVARIANT
    NoNullDeref
