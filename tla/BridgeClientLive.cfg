SPECIFICATION FairSpec
CONSTANTS
    fd1 = fd1
    fd2 = fd2
    pose = pose
    status = status
    on = on
    off = off
    wip = wip
    nothing = nothing
    noise = noise
    Fds = {fd1, fd2}
    NoFd = NoFd
    Kinds = {pose}
    Values = {on}
    None = nothing
    Frames <- NoFrames
    Garbage = noise
    HeaderLen = 1
    MaxPayload = 1
    NumAddrs = 1
    PollTries = 1
    MaxGen = 2
    MaxRx = 0
PROPERTIES TornCloses CallsReturn
