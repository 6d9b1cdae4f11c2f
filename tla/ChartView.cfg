SPECIFICATION Spec
CONSTANTS
    Null = Null
    NaN = NaN
    Fraction = Fraction
    Unit = 720
    Sigma = 2
    Columns <- MCColumns
    Files <- MCFiles
    Rolls <- MCRolls
    Windows <- MCWindows
    Mice <- MCMice
INVARIANTS
    RowsAreFound
    RolledIsTheMean
    LinesReachTheEdge
    RangeHoldsThePicture
    StackIsTheSum
    SelectionIsTheRow
