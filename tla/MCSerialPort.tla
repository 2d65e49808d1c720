--------------------------- MODULE MCSerialPort ------------------------------
EXTENDS SerialPort

MCPortOf == [w \in NetThreads |-> 1]

Cmd(id, b4, args) == [args |-> args, b4 |-> b4, device |-> "ALARM_DEVICE_ID", id |-> id, num |-> 14]

Attr(seq, baud, parity) ==
    [attr |-> 0, baud |-> baud, dbit |-> 8, parity |-> parity, sbit |-> 1, seq |-> seq]

B9600 == <<0, 37, 128>>
B115200 == <<1, 194, 0>>

\* The commands that change something, in the forms the code tells apart, and
\* those whose answers are computed from what they change.
MCCommands ==
    {Cmd("GET_UART_ATTR", 0, <<>>),
     [Cmd("GET_IO_NUM", 0, <<>>) EXCEPT !.num = 4],
     Cmd("SET_DEVICE_ATTR", 3, <<>>), Cmd("SET_IO", 1, <<<<2, 0, 1>>>>),
     Cmd("SET_TEMP", 1, <<<<1, 1>>>>), Cmd("SET_UART_RECV_ATTR", 1, "INT"),
     Cmd("QUERY_UART_RECV_DATA", 1, <<>>), Cmd("QUERY_UART_RECV_DATA", 2, <<>>),
     Cmd("UART_SEND_DATA", 2, "ok"),
     Cmd("SET_UART_ATTR", 1, <<Attr(2, B115200, 1)>>),
     Cmd("SET_UART_ATTR", 2, <<Attr(129, B115200, 0), Attr(2, B9600, 7)>>)}

MCWebComs == {[DefaultCom EXCEPT !.type = "RS485"], [DefaultCom EXCEPT !.bps = 460800]}
=============================================================================
