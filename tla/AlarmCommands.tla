---------------------------- MODULE AlarmCommands ----------------------------
(***************************************************************************)
(* What the commands of the alarm server compute (client.c, the check_for_ *)
(* and make_ack_ functions), as operators over the configuration: the      *)
(* sensor tables con_sensor, the port parameters con_com, and the          *)
(* conversions between their local form and the one of the protocol.       *)
(* SerialPort runs them as steps of the client thread.                     *)
(***************************************************************************)
EXTENDS Integers, Sequences

CONSTANTS
    SINGLE_SENSOR_MAX_NUM,  \* places of a sensor table
    IO_OUT_NUM              \* outputs

ASSUME CommandsAssumption ==
    /\ SINGLE_SENSOR_MAX_NUM \in Nat \ {0}
    /\ IO_OUT_NUM \in Nat \ {0}

MAX_COM_PORT == 2
TEMP_NUM == 1

\* con_sensor's four tables.
SensorTypes == {"UART", "IO_IN", "IO_OUT", "SINGLE_BUS"}

Places == 1..SINGLE_SENSOR_MAX_NUM

\* Read past the end of a table: whatever the memory behind it holds, no byte of ours.
Past == 256

\* The shortest read that is looked at: the _num < n of each check_for_.
\* SET_TEMP has no check of its own.
MinNum ==
    [GET_DEVICE_ATTR |-> 5, SET_DEVICE_ATTR |-> 7, GET_ALARM_STATUS |-> 5,
     SET_TIME |-> 11, GET_UART_QTY |-> 5, GET_UART_ATTR |-> 7, SET_UART_ATTR |-> 14,
     QUERY_UART_SENDBUF |-> 6, UART_SEND_DATA |-> 8, SET_UART_RECV_ATTR |-> 7,
     QUERY_UART_RECV_DATA |-> 6, GET_IO_NUM |-> 5, SET_IO |-> 9, GET_IO_STATUS |-> 7,
     GET_TEMP_NUM |-> 5, SET_TEMP |-> 0, GET_TEMP_STATUS |-> 7]

CommandIds == DOMAIN MinNum

\* check_protocol_head and the length test of the command's check_for_.  The
\* checksum is not looked at: check_for_crc accepts everything.
Accepted(m) == m.num >= MinNum[m.id] /\ (m.id = "SET_TEMP" \/ m.device = "ALARM_DEVICE_ID")

-----------------------------------------------------------------------------
(* Sensor tables *)

\* get_one_sensor_buf: an empty table is reported with one place of zeros, a
\* table that claims too many places is read past its end.
get_one_sensor_buf(s) ==
    [num |-> s.num,
     places |-> IF s.num = 0 THEN <<<<0, 0>>>>
                ELSE [j \in 1..s.num |->
                        IF j \in Places THEN <<s.seq_num[j], s.attr[j]>> ELSE <<Past, Past>>]]

\* What it returns: the bytes it says it has written, the type's included.
get_one_sensor_size(s) == IF s.num = 0 THEN 4 ELSE 2 + 2 * s.num

\* tmp of make_ack_set_device_attr.
TMP_SIZE == 100

\* get_all_sensor_buf
get_all_sensor_buf(con_sensor) ==
    [t \in SensorTypes |-> get_one_sensor_buf(con_sensor[t])]

\* set_one_sensor_buf(buf + 4, table): num is stored before it is tested, and
\* the caller does not look at the result.
set_one_sensor_buf(num, places, s) ==
    IF num = 0
    THEN [s EXCEPT !.num = 0, !.seq_num[1] = 0, !.attr[1] = 0]
    ELSE IF num > SINGLE_SENSOR_MAX_NUM
    THEN [s EXCEPT !.num = num]
    ELSE [num |-> num,
          seq_num |-> [j \in Places |-> IF j <= num THEN places[j][1] ELSE s.seq_num[j]],
          attr |-> [j \in Places |-> IF j <= num THEN places[j][2] ELSE s.attr[j]]]

\* make_ack_get_alarm_status: the table's numbers beside the inputs' alarms,
\* paired by position.
make_ack_get_alarm_status(s, g_alarm_in) ==
    [num |-> s.num,
     places |-> [j \in 1..s.num |->
                   <<IF j \in Places THEN s.seq_num[j] ELSE Past,
                     IF j \in DOMAIN g_alarm_in THEN g_alarm_in[j] ELSE Past>>]]

\* set_io_out: the outputs named in the command, and the whole table replaced
\* by the command's.  num = 0 && num > IO_OUT_NUM refuses nothing.
set_io_out(num, places, outputs) ==
    [o \in DOMAIN outputs |->
        LET named == {j \in 1..num : places[j][1] = o} IN
        IF named = {} THEN outputs[o]
        ELSE places[CHOOSE j \in named : \A k \in named : k <= j][3]]

io_out_table(num, places, local) ==
    [num |-> num,
     seq_num |-> [j \in Places |-> IF j <= num THEN places[j][1] ELSE local],
     attr |-> [j \in Places |-> IF j <= num THEN places[j][2] ELSE local]]

\* make_ack_get_io_status: 0xff for an output there is not.
make_ack_get_io_status(seq_num, outputs) ==
    [j \in DOMAIN seq_num |->
        <<seq_num[j], IF seq_num[j] \in DOMAIN outputs THEN outputs[seq_num[j]] ELSE 255>>]

\* make_ack_get_temp_status: three digits of /proc/am2301 each, as a number.
Digits(d) == d[1] * 100 + d[2] * 10 + d[3]

make_ack_get_temp_status(am2301) ==
    [hum  |-> <<Digits(am2301.h) \div 256, Digits(am2301.h) % 256>>,
     temp |-> <<Digits(am2301.t) \div 256, Digits(am2301.t) % 256>>]

-----------------------------------------------------------------------------
(* Port parameters *)

Bauds == {300, 600, 1200, 2400, 4800, 9600, 19200, 38400, 57600, 115200, 230400,
          460800, 576000, 921600}

\* Mutant: the protocol's own numbers are taken for the local ones.
return_remote_odd_even_Same(l) == IF l \in 1..3 THEN l - 1 ELSE 255

\* return_local_odd_even and its inverse; 255 is -1 in a u8.
return_local_odd_even(r) == CASE r = 0 -> 3 [] r = 1 -> 2 [] r = 2 -> 1 [] OTHER -> 255
return_remote_odd_even(l) == CASE l = 3 -> 0 [] l = 2 -> 1 [] l = 1 -> 2 [] OTHER -> 255

\* calc_high_byte, calc_mid_byte and calc_low_byte, each stored in a u8.
BaudBytes(bps) == <<(bps \div 65536) % 256, (bps % 65536) \div 256, bps % 256>>
calc_baud_rate(b) == b[1] * 65536 + b[2] * 256 + b[3]

is_good_uart(c) ==
    /\ c.bps \in Bauds
    /\ c.dbit \in 5..8
    /\ c.chk \in 1..3
    /\ c.sbit \in 1..2

\* setTTY: what the line is programmed with.  An unknown speed is 115200; the
\* other parameters are refused when they are out of range, and the line keeps
\* what it had.
TtySpeed(bps) == IF bps \in Bauds THEN bps ELSE 115200

setTTY(c, old) ==
    IF c.dbit \in 5..8 /\ c.chk \in 1..3 /\ c.sbit \in 1..2
    THEN [bps |-> TtySpeed(c.bps), dbit |-> c.dbit, chk |-> c.chk, sbit |-> c.sbit]
    ELSE old

\* RESET_MSB
RESET_MSB(v) == v % 128

\* The parameters of one port, as a SET_UART_ATTR carries them, put over the
\* record c (make_ack_set_uart_attr).
UartAttr(a, c) ==
    [c EXCEPT !.bps = calc_baud_rate(a.baud), !.dbit = a.dbit, !.sbit = a.sbit,
              !.chk = return_local_odd_even(a.parity)]

\* make_ack_get_uart_attr: the ports the UART table lists, with their
\* parameters in the protocol's form; nothing for an empty table.
make_ack_get_uart_attr(s, con_com) ==
    [j \in 1..(IF s.num \in 1..2 THEN s.num ELSE 0) |->
        LET id == RESET_MSB(s.seq_num[j]) IN
        [attr |-> s.attr[j], id |-> id,
         line |-> IF id \in DOMAIN con_com
                  THEN [baud |-> BaudBytes(con_com[id].bps), dbit |-> con_com[id].dbit,
                        parity |-> return_remote_odd_even(con_com[id].chk),
                        sbit |-> con_com[id].sbit]
                  ELSE Past]]
=============================================================================
