CONSTANTS
    Null = Null
    Handles <- MCThreeHandles
    Notes <- MCAllNotes
    RootLayouts = {"SideBySide"}
    Width = 2
    Height = 2
    MaxObjs <- MCMaxObjs
    MaxClients <- MCMaxClients
    MaxInputs <- MCMaxInputs
    MaxQueue = 2
SPECIFICATION Spec
CHECK_DEADLOCK FALSE
INVARIANTS
    TypeOK
    WindowsTracked
    FocusValid
    TreeConsistent
