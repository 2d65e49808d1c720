CONSTANTS
    server_s = 10
    Fds = {11, 12, 13, 14}
    Site <- MCSite
    ka_max = 2
    single_post_limit = 5
    BUFFER_SIZE = 4
    CLIENT_STREAM_SIZE = 9
    SOCKETBUF_SIZE = 2
    MAX_FILE_MMAP = 5
    MMAP_LIST_SIZE = 2
    MMAP_LIST_USE_MAX = 1
    CGI_ENV_MAX = 3
    SndBuf = 3
    max_connections = 13
    Scenarios <- MCScenarios
    Faults = {"temp", "pipe", "fork", "mmap", "bus", "disk", "crash"}
    MaxFaults = 1
SPECIFICATION FairSpec
CHECK_DEADLOCK FALSE
INVARIANTS Accounted SleepsOnlyIdle PostWhole InOrder
PROPERTIES ReuseAtBoundary WholeAnswer ConnectionEnds
