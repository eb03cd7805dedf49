SPECIFICATION Spec
CONSTANTS
    fd1 = fd1
    fd2 = fd2
    pose = pose
    status = status
    on = on
    off = off
    wip = wip
    nothing = nothing
    noise = noise
    Fds = {fd1, fd2}
    NoFd = NoFd
    Kinds = {pose}
    Values = {on}
    None = nothing
    Frames <- TwoFrames
    Garbage = noise
    HeaderLen = 2
    MaxPayload = 1
    NumAddrs = 2
    PollTries = 1
    MaxGen = 2
    MaxRx = 2
SYMMETRY Symmetry
INVARIANTS TypeOK FdSafe NoLeak NoBlockingRecv FramesInOrder
PROPERTIES NothingAfterTorn ImplementsLink
