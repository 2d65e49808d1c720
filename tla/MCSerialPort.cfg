CONSTANTS
    SINGLE_SENSOR_MAX_NUM = 2
    IO_OUT_NUM = 4
    NetThreads = {4}
    PortOf <- MCPortOf
    UART_RECV_BUF_SIZE = 4
    BUF_SEND_SIZE = 10
    CntModulus = 5
    MaxChunk = 4
    MaxMsg = 2
    WebComs <- MCWebComs
    Commands <- MCCommands
    MaxWork = 3
SPECIFICATION FairSpec
INVARIANTS BusExclusive FramesWhole Port1Kept LineFollows
PROPERTIES UartReadBack BusReleased
