SPECIFICATION InstallSpec
CONSTANTS
    d1 = d1
    d2 = d2
    NoHandle = NoHandle
    Devices = {d1, d2}
    Axes = {"x", "y"}
    Hands = {"left", "right"}
    NoHand = "none"
    NoComp = NoHandle
    RealValues = {0}
    Rest = 0
    Speeds = {1}
    MaxPending = 2
    h1 = h1
    h2 = h2
    Homes = {h1, h2}
    Others = {"other"}
    NoHome = NoHandle
SYMMETRY HomesToo
INVARIANTS
    TypeOK OnlyDrivenStick CapturedByRole
PROPERTY RunMakesGood
CHECK_DEADLOCK FALSE
