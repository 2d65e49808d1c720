CONSTANTS
    MAX_SESSION = 2
    Fds <- MCFds
    Targets = {t1, t2}
    Unbound = Unbound
    MaxSets = 1
    MaxEvents = 3
SPECIFICATION FairSpec
CHECK_DEADLOCK FALSE
INVARIANTS ModeInv SocketsOwned SocketMatchesCopy
PROPERTIES ChangeFollowed EndsAreClosed
