SPECIFICATION FairSpec
CONSTANTS
    n1 = n1
    l1 = l1
    e = e
    f1 = f1
    f2 = f2
    NoFd = NoFd
    Fds = {f1, f2}
    Names = {n1}
    Literals = {l1}
    EmptyName = e
    Addr <- MCAddr
    Ports = {6000}
    Grants = {2}
    HEARTBEAT_TIMEOUT = 1
    TimeoutModulus = 4
    MaxInbox = 1
PROPERTY UpdatedServerTaken
CHECK_DEADLOCK FALSE
