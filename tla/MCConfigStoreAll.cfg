CONSTANTS
    Values = {v1}
    Blank = Blank
    Default = Default
    HwMac = HwMac
    NoFile = NoFile
    Empty = Empty
    None = None
    MaxOps = 2
    MaxReboots = 1
    Writers = {"web", "client", "report", "key"}
SPECIFICATION Spec
CHECK_DEADLOCK FALSE
INVARIANTS FileWholeAtRest
