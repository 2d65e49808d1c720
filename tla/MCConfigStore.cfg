CONSTANTS
    Values = {v1, v2}
    Blank = Blank
    Default = Default
    HwMac = HwMac
    NoFile = NoFile
    Empty = Empty
    None = None
    MaxOps = 3
    MaxReboots = 1
    Writers = {"web"}
SPECIFICATION Spec
SYMMETRY ValueSymmetry
CHECK_DEADLOCK FALSE
INVARIANTS SoleInv StillAvailable
