SPECIFICATION Spec
CONSTANTS
    home = home
    cabin = cabin
    typo = typo
    NoCreds = NoCreds
    Torn = Torn
    Absent = Absent
    Creds <- AllCreds
    GoodCreds <- RealCreds
    PAUSE = 1
    Start = 3
    MaxNow = 8
INVARIANTS
    StationModeTested
    StoredPageIsTrue
    NeverAhead
PROPERTIES
    OnlyWrongClocksReplace
