SPECIFICATION Spec
CONSTANTS
    Reports = {"OK", "DISCONNECTED"}
    MaxSpace = 2
    None = None
    Timeout = 1
    MaxGen = 1
    MaxQueue = 1
    Devices = {1}
    HandMsgs <- MCHandMsgs
    LastSpace = 1
    NoDevice = 0
    Own = Own
INVARIANTS
    DevicesTypeOK SilentDisconnects
PROPERTIES
    StatusFollowsApp ConvertedAsSent
    WholePoses ReplacedWhileDue
