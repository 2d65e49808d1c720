CONSTANTS
    Values = {v1, v2}
    Blank = Blank
    Default = Default
    HwMac = HwMac
    NoFile = NoFile
    Empty = Empty
    None = None
    MaxOps = 2
    MaxReboots = 0
    Writers = {"web", "client"}
SPECIFICATION Spec
INVARIANT StillAvailable
CHECK_DEADLOCK FALSE
