SPECIFICATION RelaySpec
CONSTANTS
    hello = hello
    status = status
    big = big
    pose = pose
    info = info
    bad = bad
    long = long
    None = None
    PipeSize = 1
    SendSize = 1
    Frames = {hello, status}
    Oversized = {big}
    Messages = {pose}
    Malformed = {bad}
    TooLong = {long}
    MaxSent = 2
    Word = 16384
    Half = 128
    MaxGroups = 2
    DoubleLen = 2
    FloatLen = 1
    Ints <- MCInts
    Floats <- MCFloats
    Doubles <- MCDoubles
    Texts <- MCTexts
    MaxFields = 3
    Standings <- MCStandings
    Points <- MCPoints
    IdBits = 1
    MaxEntries = 2
INVARIANTS ThereAndBack WalksWhereWaistFaces
INVARIANTS Understood SentAsMeant
INVARIANTS TypeOK HandleSafe RelayedInOrder NothingLost
PROPERTIES SessionEnds FirstSourceDecides
