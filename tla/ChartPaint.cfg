SPECIFICATION Spec
CONSTANTS
    Null = Null
    NaN = NaN
    Fraction = Fraction
    Unit = 1
    Sigma = 2
    Columns <- MCColumns
    Charts <- MCCharts
    Height = 10
INVARIANTS
    StrokesJoinNeighbours
    AreasFit
    FastPathLooksTheSame
CHECK_DEADLOCK FALSE
