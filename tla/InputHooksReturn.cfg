SPECIFICATION RepeatingSpec
CONSTANTS
    d1 = d1
    d2 = d2
    NoHandle = NoHandle
    Devices = {d1}
    Axes = {"x", "y", "touch"}
    Hands = {"left", "right"}
    NoHand = "none"
    NoComp = NoHandle
    RealValues = {1}
    Rest = 0
    Speeds = {2}
    MaxPending = 1
PROPERTY RealReturns
CHECK_DEADLOCK FALSE
