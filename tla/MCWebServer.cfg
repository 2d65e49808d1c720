CONSTANTS
    MAX_TCP_CONN = 2
    TIMEOUT_CNT = 2
    Head = 1
    Body = 1
    Data = 2
    Listen = 3
    Fds <- MCFds
    MaxConns = 3
    MaxBytes = 2
SPECIFICATION FairSpec
INVARIANTS WebInv ConnsOwned NoWaitForIdle
PROPERTIES BytesRead GoneIsFreed BacklogServed
