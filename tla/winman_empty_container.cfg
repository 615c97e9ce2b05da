CONSTANTS
    Null = Null
    Handles <- MCThreeHandles
    Notes <- MCSplitNotes
    RootLayouts = {"SideBySide"}
    Width = 2
    Height = 2
    MaxObjs = 7
    MaxClients <- MCMaxClients
    MaxInputs = 4
    MaxQueue = 2
SPECIFICATION Spec
CHECK_DEADLOCK FALSE
INVARIANT
    NoEmptyContainer
