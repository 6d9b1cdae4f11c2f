SPECIFICATION Spec
CONSTANTS
    Area <- MCArea
    Extent <- MCExtent
    Xs <- MCXs
    Windows <- MCWindows
    HandleWidth = 5
    Presses = 2
INVARIANTS
    HandlesInOrder
    HandlesMatchWindow
PROPERTIES
    PanKeepsTheSize
