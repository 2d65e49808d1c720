CONSTANTS
    Values = {v1, v2}
    Blank = Blank
    Default = Default
    HwMac = HwMac
    NoFile = NoFile
    Empty = Empty
    None = None
    MaxOps = 2
    MaxReboots = 1
    Writers = {"web"}
SPECIFICATION Spec
INVARIANT StillAvailableAlways
CHECK_DEADLOCK FALSE
