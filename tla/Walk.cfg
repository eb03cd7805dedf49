SPECIFICATION SceneSpec
CONSTANTS
    None = None
    Full = 2
    Slow = 1
    Stale = 1
    Settings <- AllWays
    Infos <- States
    Hands = {"left", "right"}
    HooksInstalled = TRUE
    MaxGen = 2
    MaxQueue = 1
INVARIANTS TypeOK OneOutput StopsWithoutInfo
PROPERTIES WalkingEnds OutputFollowsApp
