SPECIFICATION Spec
CONSTANTS
    None = None
    Area <- MCArea
    Canvas <- MCCanvas
    Extent <- MCExtent
    Values <- MCValues
    Fits <- MCFits
    Points <- MCPoints
    Buttons <- MCButtons
    DRAG_EDGE_MARGIN = 100
    Gestures = 3
INVARIANTS
    GestureOwned
    WindowNotTurned
    FingerHoldsTheData
PROPERTIES
    ZoomInside
    FarAwayIsNoZoom
