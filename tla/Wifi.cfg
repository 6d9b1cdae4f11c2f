SPECIFICATION WifiSpec
CONSTANTS
    right = right
    wrong = wrong
    Creds <- BothCreds
    GoodCreds <- RightCreds
    NoCreds = NoCreds
    MAX_RETRY = 5
INVARIANTS
    FailMeansExhausted
    NeverAbandoned
PROPERTIES
    VerdictComes
