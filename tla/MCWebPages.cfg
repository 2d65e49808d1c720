CONSTANTS
    Ports <- MCPorts
    MAX_USR_NUM = 3
    Procs <- MCProcs
    Scenarios <- MCScenarios
    Faults = {"full", "late", "slow", "kill", "die"}
    MaxFaults = 1
SPECIFICATION FairSpec
CHECK_DEADLOCK FALSE
INVARIANTS Whole UsersAsked
PROPERTIES CallsKept RequestServed
