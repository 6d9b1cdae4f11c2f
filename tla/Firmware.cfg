SPECIFICATION FwSpec
CONSTANTS
    home = home
    other = other
    secret = secret
    typo = typo
    Empty = Empty
    NoCreds = NoCreds
    Ssid <- Networks
    Password <- Passwords
    Creds <- AllCreds
    GoodCreds <- HomeCreds
    MAX_RETRY = 2
    WIFI_FAIL_THRESHOLD = 3
    CONFIG_SEND_INTERVAL = 3
    MaxNvsFaults = 1
    MaxResets = 1
    MaxHangs = 1
INVARIANTS
    FailureIsTold
    UnwatchedWaits
    SavedIsStored
PROPERTIES
    ApOnlyAfterFailures
    AutomaticAp
    WakeEnds
