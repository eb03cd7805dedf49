SPECIFICATION Spec
CONSTANTS
    None = None
    Full = 2
    Slow = 1
    Stale = 1
    Settings <- OnOff
    Infos <- Walks
    Hands = {"left"}
    HooksInstalled = TRUE
    MaxGen = 2
    MaxQueue = 1
INVARIANT StopsWithoutInfo
