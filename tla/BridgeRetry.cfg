SPECIFICATION FairSpec
CONSTANTS
    hello = hello
    status = status
    big = big
    pose = pose
    info = info
    bad = bad
    long = long
    None = None
    PipeSize = 1
    SendSize = 1
    Frames = {hello}
    Oversized = {}
    Messages = {pose}
    Malformed = {}
    TooLong = {}
    MaxSent = 1
PROPERTY RetryUntilDisconnect
