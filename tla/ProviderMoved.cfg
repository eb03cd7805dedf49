SPECIFICATION FairSpec
CONSTANTS
    u1 = u1
    u2 = u2
    near = near
    far = far
    Ids = {u1}
    NoId = NoId
    Spaces = {near, far}
    Raw = Raw
    None = None
    InMsgs = {}
    ReportEvery = 2
    FallbackAfter = 2
    Changes = {"space"}
    MaxGen = 1
    MaxQueue = 0
PROPERTIES UniverseReachesApp
