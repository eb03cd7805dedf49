SPECIFICATION Spec
CONSTANTS
    u1 = u1
    u2 = u2
    near = near
    far = far
    Ids = {u1, u2}
    NoId = NoId
    Spaces = {near, far}
    Raw = Raw
    None = None
    InMsgs = {}
    ReportEvery = 1
    FallbackAfter = 1
    Changes = {"hmd", "uid", "space"}
    MaxGen = 2
    MaxQueue = 0
INVARIANTS TypeOK HandshakeCurrent
SYMMETRY Symmetry
