SPECIFICATION SceneSpec
CONSTANTS
    u1 = u1
    u2 = u2
    near = near
    far = far
    Ids = {u1, u2}
    NoId = NoId
    Spaces = {near, far}
    Raw = Raw
    None = None
    InMsgs = {"wip_info"}
    ReportEvery = 2
    FallbackAfter = 2
    Changes = {"hmd", "uid", "known"}
    MaxGen = 2
    MaxQueue = 1
PROPERTIES UniverseReachesApp ToldWithoutData StatusReachesApp
