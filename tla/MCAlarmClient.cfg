SPECIFICATION FairSpec
CONSTANTS
    n1 = n1
    l1 = l1
    e = e
    f1 = f1
    f2 = f2
    NoFd = NoFd
    Fds = {f1, f2}
    Names = {n1}
    Literals = {l1}
    EmptyName = e
    Addr <- MCAddr
    Ports = {6000}
    Grants = {0, 1}
    HEARTBEAT_TIMEOUT = 2
    TimeoutModulus = 4
    MaxInbox = 1
CHECK_DEADLOCK FALSE
INVARIANTS IInv FdsOwned LedFresh
PROPERTIES OfflineExactlyWhenDue LostServerDropped
