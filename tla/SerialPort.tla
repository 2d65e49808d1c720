----------------------------- MODULE SerialPort ------------------------------
(***************************************************************************)
(* The serial ports of the gateway (com.c, writen and writen_rs485 of      *)
(* system.c, SendComDataToNet of mode.c) and the commands by which the     *)
(* alarm server uses them (client.c).                                      *)
(*                                                                         *)
(* Threads: one com_proc per port, which passes what it reads to the       *)
(* port's network sessions and, on RS-232, into the receive buffers of the *)
(* alarm protocol or straight to the alarm server; the mode threads and    *)
(* the client thread, which write to a port; the web thread, which changes *)
(* a port's parameters.  On RS-485 all of them share rs485_mutex.  rs_type *)
(* is one variable for both ports.                                         *)
(*                                                                         *)
(* The bytes of a port are numbered in the order they are read, so that a  *)
(* buffer shows which of them it holds.  The socket to the alarm server is *)
(* AlarmClient's; here a write to it only records the frame.               *)
(***************************************************************************)
EXTENDS AlarmCommands, FiniteSets

CONSTANTS
    NetThreads,          \* mode threads: numbers above 3
    PortOf,              \* the port a mode thread belongs to
    UART_RECV_BUF_SIZE,
    BUF_SEND_SIZE,       \* the bytes of buf_send
    CntModulus,          \* 2^width of uart1_cnt and uart2_cnt (u16)
    MaxChunk,            \* bytes that arrive on a port at a time
    MaxMsg,              \* bytes of a message for a port
    WebComs,             \* what the web page may set: records of con_com
    Commands,            \* what the alarm server may send
    MaxWork              \* bound: arrivals, messages, commands and settings

Ports == 1..MAX_COM_PORT
client == 3
Writers == NetThreads \cup {client}
Threads == Ports \cup Writers
Free == 0

ASSUME SerialAssumption ==
    /\ NetThreads \subseteq {n \in Nat : n > 3}
    /\ PortOf \in [NetThreads -> Ports]
    /\ UART_RECV_BUF_SIZE \in Nat \ {0} /\ BUF_SEND_SIZE \in Nat
    /\ CntModulus \in Nat /\ UART_RECV_BUF_SIZE < CntModulus
    /\ MaxChunk \in Nat \ {0} /\ MaxMsg \in Nat \ {0}
    /\ MaxWork \in Nat

RsTypes == {"RS232", "RS485", "RS422"}

\* CONFIG_COM, the members the code here looks at; recv is rsvd[0].
Coms == [bps : Int, dbit : Int, chk : Int, sbit : Int, type : RsTypes, recv : {"POLL", "INT"}]

\* What a line is programmed with.
Lines == [bps : Int, dbit : Int, chk : Int, sbit : Int]

\* One port of a SET_UART_ATTR command.
Attrs == [seq : Nat, attr : Nat, baud : Nat \X Nat \X Nat, dbit : Nat, sbit : Nat,
          parity : Nat]

ASSUME InputAssumption ==
    /\ WebComs \subseteq Coms
    /\ \A m \in Commands :
         m.id = "SET_UART_ATTR" /\ m.b4 \in Ports => m.args \in Seq(Attrs) /\ Len(m.args) = m.b4

VARIABLES
    pc,            \* where each thread is
    rs485_mutex,   \* its owner, or Free
    rs_type,
    line,          \* per port: bytes that have arrived and are not read
    len,           \* per port: bytes in com_proc's lsbuf
    sess,          \* per port: "none", "open", or "stalled" when the peer does not read
    port, nleft,   \* per writer: the port, and what writen has left to write
    late,          \* history: threads that were on a line without the mutex, see NowLate
    con_com, tty,  \* the parameters of the ports, and what the lines are programmed with
    con_sensor, outputs,
    uart_cnt, uart_buf,
    rcvd,          \* history, per port: bytes handed to the alarm protocol
    cmd, next,     \* client thread: the command in hand, the next port of a SET_UART_ATTR
    buf4,          \* buf[4]: the byte after the head of the last command read
    buf_send,      \* shared by the client thread and com_proc in int mode
    mixed,         \* history: "yes" once a thread has written a frame another one made
    intmode,       \* history: "yes" once a port has been in int mode
    overrun,       \* "yes" once a copy has run over the end of its buffer
    web, webconf,  \* web thread: where it is, and the record it has received
    stray,         \* history: ports whose line may not follow con_com, see Stray
    work

busVars  == <<rs485_mutex, rs_type, line, len, sess, port, nleft, late>>
confVars == <<con_com, tty, con_sensor, outputs, stray>>
uartVars == <<uart_cnt, uart_buf, rcvd>>
ansVars  == <<cmd, next, buf4, buf_send, mixed, intmode, overrun>>
webVars  == <<web, webconf>>
vars == <<pc, busVars, confVars, uartVars, ansVars, webVars, work>>

Frame(t, ack, body) == [by |-> t, ack |-> ack, id |-> 0, body |-> body, held |-> 0]
NoFrame == Frame(Free, "none", <<>>)
NoCmd == [id |-> "none"]

DefaultCom == [bps |-> 9600, dbit |-> 8, chk |-> 3, sbit |-> 1, type |-> "RS232",
               recv |-> "POLL"]

\* config_makedefault's parameters and tables; com_init has opened the ports
\* and programmed both lines.
Init ==
    /\ pc = [t \in Threads |-> IF t \in Ports THEN "test" ELSE "idle"]
    /\ rs485_mutex = Free
    /\ rs_type = "RS232"
    /\ line = [p \in Ports |-> 0]
    /\ len = [p \in Ports |-> 0]
    /\ sess = [p \in Ports |-> "open"]
    /\ port = [w \in Writers |-> IF w = client THEN 1 ELSE PortOf[w]]
    /\ nleft = [w \in Writers |-> 0]
    /\ late = {}
    /\ con_com = [p \in Ports |-> DefaultCom]
    /\ tty = [p \in Ports |-> setTTY(DefaultCom, DefaultCom)]
    /\ con_sensor = [t \in SensorTypes |->
          [num |-> CASE t = "UART" -> 2 [] t = "IO_IN" -> SINGLE_SENSOR_MAX_NUM
                     [] t = "IO_OUT" -> 2 [] OTHER -> 1,
           seq_num |-> [j \in Places |-> j], attr |-> [j \in Places |-> 0]]]
    /\ outputs = [o \in 1..IO_OUT_NUM |-> 0]
    /\ uart_cnt = [p \in Ports |-> 0]
    /\ uart_buf = [p \in Ports |-> [k \in 1..UART_RECV_BUF_SIZE |-> 0]]
    /\ rcvd = [p \in Ports |-> 0]
    /\ cmd = NoCmd /\ next = 1 /\ buf4 = 0
    /\ buf_send = NoFrame /\ mixed = "no"
    /\ intmode = "no" /\ overrun = "no"
    /\ web = "idle" /\ webconf = [id |-> 1, all |-> "no", com |-> DefaultCom]
    /\ stray = {}
    /\ work = 0

Goto(t, to) == pc' = [pc EXCEPT ![t] = to]

-----------------------------------------------------------------------------
(* com_proc *)

\* The turn starts: which branch, by rs_type.  On any other type the thread
\* only sleeps.
ComTest(p) ==
    /\ pc[p] = "test"
    /\ Goto(p, CASE rs_type = "RS232" -> "read232"
                 [] rs_type = "RS485" -> "lock"
                 [] OTHER             -> "test")
    /\ UNCHANGED <<busVars, confVars, uartVars, ansVars, webVars, work>>

Lock(t, to) ==
    /\ pc[t] = "lock"
    /\ rs485_mutex = Free
    /\ rs485_mutex' = t
    /\ Goto(t, to)
    /\ UNCHANGED <<rs_type, line, len, sess, port, nleft, confVars, uartVars, ansVars,
                   webVars, work, late>>

ComLock(p) == Lock(p, "read485")

\* read takes what has arrived.
ComRead(p) ==
    /\ pc[p] \in {"read232", "read485"}
    /\ len' = [len EXCEPT ![p] = line[p]]
    /\ line' = [line EXCEPT ![p] = 0]
    /\ late' = late \ {p}
    /\ Goto(p, CASE pc[p] = "read232" -> IF line[p] > 0 THEN "send232" ELSE "test"
                 [] OTHER             -> IF line[p] > 0 THEN "send485" ELSE "unlock")
    /\ UNCHANGED <<rs485_mutex, rs_type, sess, port, nleft, confVars, uartVars, ansVars,
                   webVars, work>>

\* SendComDataToNet: send blocks for as long as the peer of the session does
\* not read.
ComSend(p) ==
    /\ pc[p] \in {"send232", "send485"}
    /\ sess[p] # "stalled"
    /\ Goto(p, IF pc[p] = "send232" THEN "count" ELSE "unlock")
    /\ UNCHANGED <<busVars, confVars, uartVars, ansVars, webVars, work>>

ComUnlock(p) ==
    /\ pc[p] = "unlock"
    /\ rs485_mutex' = Free
    /\ len' = [len EXCEPT ![p] = 0]
    /\ Goto(p, "test")
    /\ UNCHANGED <<rs_type, line, sess, port, nleft, confVars, uartVars, ansVars, webVars,
                   work, late>>

\* Mutant: the mode of the port is not looked at, every chunk is sent at once.
Count_AlwaysInt(p) ==
    /\ pc[p] = "count"
    /\ uart_cnt' = [uart_cnt EXCEPT ![p] = (@ + len[p]) % CntModulus]
    /\ rcvd' = [rcvd EXCEPT ![p] = @ + len[p]]
    /\ Goto(p, "copyint")
    /\ UNCHANGED <<busVars, confVars, uart_buf, ansVars, webVars, work>>

\* Protocol_SendComDataToNet_PollMode, in either mode: the count goes up first ...
Count(p) ==
    /\ pc[p] = "count"
    /\ uart_cnt' = [uart_cnt EXCEPT ![p] = (@ + len[p]) % CntModulus]
    /\ rcvd' = [rcvd EXCEPT ![p] = @ + len[p]]
    /\ Goto(p, IF con_com[p].recv = "INT" THEN "copyint" ELSE "copypoll")
    /\ UNCHANGED <<busVars, confVars, uart_buf, ansVars, webVars, work>>

\* Mutant: the first port copies to the front of its buffer too.
CopyAt_Front(p) == 0

\* Where memcpy puts the bytes: uart1_recv_buf + cnt1, the count before this
\* chunk, but uart2_recv_buf + cnt2, and cnt2 is never set.
CopyAt(p) == IF p = 1 THEN (uart_cnt[p] - len[p]) % CntModulus ELSE 0

\* ... and the bytes follow, if the count is below the size of the buffer.
Copied(p) ==
    [k \in 1..UART_RECV_BUF_SIZE |->
        IF uart_cnt[p] < UART_RECV_BUF_SIZE /\ k - CopyAt(p) \in 1..len[p]
        THEN rcvd[p] - len[p] + (k - CopyAt(p))
        ELSE uart_buf[p][k]]

\* When the count has just wrapped, or the second port's chunk is longer than its
\* buffer, memcpy writes behind the buffer.
CopyFits(p) == uart_cnt[p] < UART_RECV_BUF_SIZE => CopyAt(p) + len[p] <= UART_RECV_BUF_SIZE

\* Writing behind a buffer is undefined behaviour: the model ends there.
Overrun(fits) == overrun' = IF fits THEN overrun ELSE "yes"

Copy(p) ==
    /\ pc[p] \in {"copypoll", "copyint"}
    /\ Overrun(CopyFits(p))
    /\ uart_buf' = [uart_buf EXCEPT ![p] = Copied(p)]
    /\ len' = [len EXCEPT ![p] = 0]
    /\ Goto(p, IF pc[p] = "copyint" THEN "intmake" ELSE "test")
    /\ UNCHANGED <<rs485_mutex, rs_type, line, sess, port, nleft, confVars, uart_cnt, rcvd,
                   cmd, next, buf4, buf_send, mixed, intmode, webVars, work, late>>

\* make_ack_query_uart_recv_data: the port comes from buf[4].  For the second
\* port the length is uart2_cnt but the copy is uart1_cnt bytes long: what lies
\* beyond is what buf_send held before.
RecvBody(id) ==
    [k \in 1..uart_cnt[id] |->
        IF k <= uart_cnt[1] /\ k <= UART_RECV_BUF_SIZE THEN uart_buf[id][k] ELSE Past]

\* What is copied behind the seven bytes of the head, and the checksum after as
\* many bytes as the port has, must fit in buf_send.  Nothing ever clears the
\* counts.
RecvFits(id) ==
    id \in Ports => /\ uart_cnt[1] + 7 <= BUF_SEND_SIZE
                    /\ uart_cnt[id] + 8 <= BUF_SEND_SIZE

\* History: the bytes counted and copied.
Held(id) == IF pc[id] \in {"copypoll", "copyint"} THEN rcvd[id] - len[id] ELSE rcvd[id]

make_ack_query_uart_recv_data(t, id) ==
    [by |-> t, ack |-> "QUERY_UART_RECV_DATA", id |-> id,
     body |-> IF id \in Ports THEN RecvBody(id) ELSE <<>>,
     held |-> IF id \in Ports THEN Held(id) ELSE 0]

\* Protocol_SendComDataToNet_IntMode: the frame is made in buf_send ...
IntMake(p) ==
    /\ pc[p] = "intmake"
    /\ buf_send' = make_ack_query_uart_recv_data(p, buf4)
    /\ Overrun(RecvFits(buf4))
    /\ Goto(p, "answer")
    /\ UNCHANGED <<busVars, confVars, uartVars, cmd, next, buf4, mixed, intmode, webVars,
                   work>>

\* ... and written from there, as the client thread writes its answers.
Answer(t, to) ==
    /\ pc[t] = "answer"
    /\ mixed' = IF buf_send.by = t THEN mixed ELSE "yes"
    /\ Goto(t, to)
    /\ UNCHANGED <<busVars, confVars, uartVars, cmd, next, buf4, buf_send, intmode, webVars,
                   work, overrun>>

IntWrite(p) == Answer(p, "test")

ComStep(p) ==
    \/ ComTest(p) \/ ComRead(p) \/ ComSend(p) \/ ComUnlock(p)
    \/ Count(p) \/ Copy(p) \/ IntMake(p) \/ IntWrite(p)

-----------------------------------------------------------------------------
(* Writing to a port *)

\* SendNetDataToCom chooses by rs_type; anything else returns -1 at once.
Dispatch(back) ==
    CASE rs_type = "RS232" -> "write232"
      [] rs_type = "RS485" -> "lock"
      [] OTHER             -> back

WriterLock(w) == Lock(w, "write485")

\* Where a writer goes on when SendNetDataToCom has returned: a mode thread to
\* its loop, the client thread to the acknowledgement.
Back(w) == IF w = client THEN "ack" ELSE "idle"

\* Mutant: the error path of writen_rs485 returns without unlocking.
WriteError_Locked(w) ==
    /\ pc[w] \in {"write232", "write485"}
    /\ nleft' = [nleft EXCEPT ![w] = 0]
    /\ late' = late \ {w}
    /\ Goto(w, Back(w))
    /\ UNCHANGED <<rs485_mutex, rs_type, line, len, sess, port, confVars, uartVars, ansVars,
                   webVars, work>>

\* write or ioctl fails: return, unlocked.
WriteError(w) ==
    /\ pc[w] \in {"write232", "write485"}
    /\ nleft' = [nleft EXCEPT ![w] = 0]
    /\ late' = late \ {w}
    /\ rs485_mutex' = IF pc[w] = "write485" THEN Free ELSE rs485_mutex
    /\ Goto(w, Back(w))
    /\ UNCHANGED <<rs_type, line, len, sess, port, confVars, uartVars, ansVars, webVars,
                   work>>

\* n bytes are taken; the loop ends when nothing is left.  (0 bytes: the loop
\* sleeps a millisecond, with the mutex held, and tries again.)
WriteSome(w) ==
    /\ pc[w] \in {"write232", "write485"}
    /\ \E n \in 1..nleft[w] :
         /\ nleft' = [nleft EXCEPT ![w] = @ - n]
         /\ IF n < nleft[w]
            THEN UNCHANGED <<pc, rs485_mutex, late>>
            ELSE /\ rs485_mutex' = IF pc[w] = "write485" THEN Free ELSE rs485_mutex
                 /\ late' = late \ {w}
                 /\ Goto(w, Back(w))
    /\ UNCHANGED <<rs_type, line, len, sess, port, confVars, uartVars, ansVars, webVars,
                   work>>

WriteStep(w) == WriteError(w) \/ WriteSome(w)

\* mode_proc has received data for its port.
NetData(w) ==
    /\ w \in NetThreads /\ pc[w] = "idle" /\ work < MaxWork
    /\ nleft' = [nleft EXCEPT ![w] = IF rs_type = "RS422" THEN 0 ELSE MaxMsg]
    /\ Goto(w, Dispatch("idle"))
    /\ work' = work + 1
    /\ UNCHANGED <<rs485_mutex, rs_type, line, len, sess, port, confVars, uartVars, ansVars,
                   webVars, late>>

-----------------------------------------------------------------------------
(* The client thread: the commands of the alarm server *)

\* A command is read; those that only ask are answered from buf_send.
Take(m) ==
    /\ pc[client] = "idle" /\ work < MaxWork
    /\ work' = work + 1
    /\ buf4' = m.b4

Asking == {"GET_DEVICE_ATTR", "GET_ALARM_STATUS", "SET_TIME", "GET_UART_QTY",
           "GET_UART_ATTR", "QUERY_UART_SENDBUF", "GET_IO_NUM", "GET_IO_STATUS",
           "GET_TEMP_NUM", "GET_TEMP_STATUS"}

\* The bodies of the acknowledgements.  GET_IO_STATUS with a number of outputs
\* that is out of range returns no length: what is written then is not a frame.
AckBody(m) ==
    CASE m.id = "GET_DEVICE_ATTR"    -> get_all_sensor_buf(con_sensor)
      [] m.id = "GET_ALARM_STATUS"   -> make_ack_get_alarm_status(con_sensor["IO_IN"], m.args)
      [] m.id = "GET_UART_QTY"       -> MAX_COM_PORT
      [] m.id = "GET_UART_ATTR"      -> make_ack_get_uart_attr(con_sensor["UART"], con_com)
      [] m.id = "QUERY_UART_SENDBUF" -> <<m.b4, 8, 0>>
      [] m.id = "GET_IO_NUM"         -> IO_OUT_NUM
      [] m.id = "GET_IO_STATUS"      -> IF m.b4 \in 1..IO_OUT_NUM
                                        THEN make_ack_get_io_status(m.args, outputs)
                                        ELSE <<>>
      [] m.id = "GET_TEMP_NUM"       -> TEMP_NUM
      [] m.id = "GET_TEMP_STATUS"    -> make_ack_get_temp_status(m.args)
      [] OTHER                       -> <<>>

\* The four tables, head and checksum included, as long as they say they are.
DeviceAttrSize ==
    6 + get_one_sensor_size(con_sensor["UART"]) + get_one_sensor_size(con_sensor["IO_IN"])
      + get_one_sensor_size(con_sensor["IO_OUT"]) + get_one_sensor_size(con_sensor["SINGLE_BUS"])

ServeAsking(m) ==
    /\ Take(m) /\ Accepted(m) /\ m.id \in Asking
    /\ Overrun(m.id = "GET_DEVICE_ATTR" => DeviceAttrSize <= BUF_SEND_SIZE)
    /\ buf_send' = Frame(client, m.id, AckBody(m))
    /\ Goto(client, "answer")
    /\ UNCHANGED <<busVars, confVars, uartVars, cmd, next, mixed, intmode, webVars>>

\* Too short, or for another device: dropped.
Drop(m) ==
    /\ Take(m) /\ ~Accepted(m)
    /\ UNCHANGED <<pc, busVars, confVars, uartVars, cmd, next, buf_send, mixed, intmode,
                   webVars, overrun>>

\* PROTOCOL_SET_DEVICE_ATTR: the table of the alarm inputs, and its echo, by way
\* of a local buffer of 100 bytes.
SetDeviceAttr(m) ==
    /\ Take(m) /\ Accepted(m) /\ m.id = "SET_DEVICE_ATTR"
    /\ con_sensor' = [con_sensor EXCEPT !["IO_IN"] = set_one_sensor_buf(m.b4, m.args, @)]
    /\ buf_send' = Frame(client, m.id, get_one_sensor_buf(con_sensor'["IO_IN"]))
    /\ Overrun(get_one_sensor_size(con_sensor'["IO_IN"]) <= TMP_SIZE)
    /\ Goto(client, "answer")
    /\ UNCHANGED <<busVars, con_com, tty, outputs, stray, uartVars, cmd, next, mixed,
                   intmode, webVars>>

\* PROTOCOL_SET_IO and PROTOCOL_SET_TEMP: stored, not answered.  The table is
\* built in a local variable of which only the places named are set, those that a
\* table does not have too.
SetIo(m) ==
    /\ Take(m) /\ Accepted(m) /\ m.id = "SET_IO"
    /\ outputs' = set_io_out(m.b4, m.args, outputs)
    /\ Overrun(m.b4 <= SINGLE_SENSOR_MAX_NUM)
    /\ con_sensor' = [con_sensor EXCEPT !["IO_OUT"] = io_out_table(m.b4, m.args, Past)]
    /\ UNCHANGED <<pc, busVars, con_com, tty, stray, uartVars, cmd, next, buf_send, mixed,
                   intmode, webVars>>

SetTemp(m) ==
    /\ Take(m) /\ Accepted(m) /\ m.id = "SET_TEMP"
    /\ con_sensor' = [con_sensor EXCEPT !["SINGLE_BUS"] =
                        [io_out_table(1, m.args, Past) EXCEPT !.num = m.b4]]
    /\ UNCHANGED <<pc, busVars, con_com, tty, outputs, stray, uartVars, cmd, next, buf_send,
                   mixed, intmode, webVars, overrun>>

\* PROTOCOL_SET_UART_RECV_ATTR: an unknown mode is poll mode.
SetRecvAttr(m) ==
    /\ Take(m) /\ Accepted(m) /\ m.id = "SET_UART_RECV_ATTR"
    /\ con_com' = IF m.b4 \in Ports
                  THEN [con_com EXCEPT ![m.b4].recv = IF m.args = "INT" THEN "INT" ELSE "POLL"]
                  ELSE con_com
    /\ intmode' = IF m.b4 \in Ports /\ m.args = "INT" THEN "yes" ELSE intmode
    /\ UNCHANGED <<pc, busVars, tty, con_sensor, outputs, stray, uartVars, cmd, next,
                   buf_send, mixed, webVars, overrun>>

\* PROTOCOL_QUERY_UART_RECV_DATA.  Nothing is cleared.
QueryRecv(m) ==
    /\ Take(m) /\ Accepted(m) /\ m.id = "QUERY_UART_RECV_DATA"
    /\ buf_send' = make_ack_query_uart_recv_data(client, m.b4)
    /\ Overrun(RecvFits(m.b4))
    /\ Goto(client, "answer")
    /\ UNCHANGED <<busVars, confVars, uartVars, cmd, next, mixed, intmode, webVars>>

\* PROTOCOL_UART_SEND_DATA: an unknown port or a count of 0 or above 0x800 is
\* acknowledged with 0; otherwise the data is written to the port first.
SendData(m) ==
    /\ Take(m) /\ Accepted(m) /\ m.id = "UART_SEND_DATA"
    /\ IF m.b4 \in Ports /\ m.args = "ok"
       THEN /\ port' = [port EXCEPT ![client] = m.b4]
            /\ nleft' = [nleft EXCEPT ![client] = IF rs_type = "RS422" THEN 0 ELSE MaxMsg]
            /\ Goto(client, Dispatch("ack"))
            /\ UNCHANGED buf_send
       ELSE /\ buf_send' = Frame(client, m.id, 0)
            /\ Goto(client, "answer")
            /\ UNCHANGED <<port, nleft>>
    /\ UNCHANGED <<rs485_mutex, rs_type, line, len, sess, confVars, uartVars, cmd, next,
                   mixed, intmode, webVars, late, overrun>>

SendAck ==
    /\ pc[client] = "ack"
    /\ buf_send' = Frame(client, "UART_SEND_DATA", MaxMsg)
    /\ Goto(client, "answer")
    /\ UNCHANGED <<busVars, confVars, uartVars, cmd, next, buf4, mixed, intmode, webVars,
                   work, overrun>>

\* PROTOCOL_SET_UART_ATTR: copies of the UART table and of con_com are taken,
\* then the ports of the command are stored and programmed one by one.
UartFail(m) ==
    /\ buf_send' = Frame(client, "SET_UART_ATTR", "FAIL")
    /\ Goto(client, "answer")

UartBegin(m) ==
    /\ Take(m) /\ Accepted(m) /\ m.id = "SET_UART_ATTR"
    /\ IF m.b4 \in Ports
       THEN /\ cmd' = [id |-> m.id, args |-> m.args, coms |-> con_com,
                       sensor |-> [con_sensor["UART"] EXCEPT !.num = m.b4]]
            /\ next' = 1
            /\ Goto(client, "uattr")
            /\ UNCHANGED buf_send
       ELSE UartFail(m) /\ UNCHANGED <<cmd, next>>
    /\ UNCHANGED <<busVars, confVars, uartVars, mixed, intmode, webVars, overrun>>

\* The history of who may have left a line behind its con_com: a setter that
\* stores while the other one is between storing and programming.
Stray(p, overlap) == IF overlap THEN stray \cup {p} ELSE stray \ {p}

\* The next port of the command.  It is built over entry number next of the
\* copy, whatever port it names.  A port number of 0 is let through: it
\* overwrites what lies before con_com, and neither port.
UartStore ==
    LET a == cmd.args[next]
        id == RESET_MSB(a.seq)
        c == UartAttr(a, cmd.coms[next])
        table == [cmd.sensor EXCEPT !.seq_num[next] = a.seq, !.attr[next] = a.attr] IN
    /\ pc[client] = "uattr"
    /\ IF id > 2 \/ ~is_good_uart(c)
       THEN /\ UartFail(cmd)
            /\ cmd' = NoCmd /\ next' = 1
            /\ UNCHANGED <<con_com, con_sensor, stray>>
       ELSE /\ con_com' = IF id \in Ports THEN [con_com EXCEPT ![id] = c] ELSE con_com
            /\ con_sensor' = [con_sensor EXCEPT !["UART"] = table]
            /\ cmd' = [cmd EXCEPT !.sensor = table, !.coms[next] = c]
            /\ stray' = IF id \in Ports
                        THEN Stray(id, web = "comset" /\ webconf.id = id) ELSE stray
            /\ Goto(client, "comset")
            /\ UNCHANGED <<next, buf_send>>
    /\ UNCHANGED <<busVars, tty, outputs, uartVars, buf4, mixed, intmode, webVars, work,
                   overrun>>

\* History: who is in read or writen of the RS-232 branch when the type becomes
\* RS485.  It stays there, without the mutex, until that call has returned.
Unlocked(t) == pc[t] \in {"read232", "write232"}

NowLate(type) == IF type = "RS485" THEN late \cup {t \in Threads : Unlocked(t)} ELSE late

\* Mutant: the line is chosen by the place in the command, not by the port.
UartComSet_ByPlace ==
    LET c == cmd.coms[next] IN
    /\ pc[client] = "comset"
    /\ tty' = [tty EXCEPT ![next] = setTTY(c, @)]
    /\ rs_type' = c.type
    /\ late' = NowLate(c.type)
    /\ IF next < Len(cmd.args)
       THEN /\ next' = next + 1
            /\ Goto(client, "uattr")
            /\ UNCHANGED <<cmd, buf_send>>
       ELSE /\ next' = 1 /\ cmd' = NoCmd
            /\ buf_send' = Frame(client, "SET_UART_ATTR", "PASS")
            /\ Goto(client, "answer")
    /\ UNCHANGED <<rs485_mutex, line, len, sess, port, nleft, con_com, con_sensor, outputs,
                   stray, uartVars, buf4, mixed, intmode, webVars, work, overrun>>

\* com_set(&set_com_attr_max[j]): the line of the port, and rs_type for both.
UartComSet ==
    LET id == RESET_MSB(cmd.args[next].seq)
        c == cmd.coms[next] IN
    /\ pc[client] = "comset"
    /\ IF id \in Ports
       THEN /\ tty' = [tty EXCEPT ![id] = setTTY(c, @)]
            /\ rs_type' = c.type
            /\ late' = NowLate(c.type)
       ELSE UNCHANGED <<tty, rs_type, late>>
    /\ IF next < Len(cmd.args)
       THEN /\ next' = next + 1
            /\ Goto(client, "uattr")
            /\ UNCHANGED <<cmd, buf_send>>
       ELSE /\ next' = 1 /\ cmd' = NoCmd
            /\ buf_send' = Frame(client, "SET_UART_ATTR", "PASS")
            /\ Goto(client, "answer")
    /\ UNCHANGED <<rs485_mutex, line, len, sess, port, nleft, con_com, con_sensor, outputs,
                   stray, uartVars, buf4, mixed, intmode, webVars, work, overrun>>

ClientAnswer == Answer(client, "idle")

ClientStep == SendAck \/ UartStore \/ UartComSet \/ ClientAnswer

ServeCommand ==
    \E m \in Commands :
        \/ ServeAsking(m) \/ Drop(m) \/ SetDeviceAttr(m) \/ SetIo(m) \/ SetTemp(m)
        \/ SetRecvAttr(m) \/ QueryRecv(m) \/ SendData(m) \/ UartBegin(m)

-----------------------------------------------------------------------------
(* The web thread: ITS_CONF_SET of a port, with con_lim not enabled *)

\* The record replaces the port's, or its parameters are put into every port.
WebStore ==
    /\ web = "idle" /\ work < MaxWork
    /\ work' = work + 1
    /\ \E p \in Ports, c \in WebComs, all \in {"yes", "no"} :
         /\ webconf' = [id |-> p, all |-> all, com |-> c]
         /\ con_com' = IF all = "no" THEN [con_com EXCEPT ![p] = c]
                       ELSE [q \in Ports |-> [c EXCEPT !.recv = con_com[q].recv]]
         /\ intmode' = IF all = "no" /\ c.recv = "INT" THEN "yes" ELSE intmode
         /\ stray' = LET named == Stray(p, pc[client] = "comset"
                                            /\ RESET_MSB(cmd.args[next].seq) = p)
                     IN IF all = "no" THEN named ELSE named \cup (Ports \ {p})
    /\ web' = "comset"
    /\ UNCHANGED <<pc, busVars, tty, con_sensor, outputs, uartVars, cmd, next, buf4,
                   buf_send, mixed, overrun>>

\* com_set of the port that was named, and of no other.
WebComSet ==
    /\ web = "comset"
    /\ tty' = [tty EXCEPT ![webconf.id] = setTTY(con_com[webconf.id], @)]
    /\ rs_type' = con_com[webconf.id].type
    /\ late' = NowLate(con_com[webconf.id].type)
    /\ web' = "idle"
    /\ UNCHANGED <<pc, rs485_mutex, line, len, sess, port, nleft, con_com, con_sensor,
                   outputs, stray, uartVars, ansVars, webconf, work>>

-----------------------------------------------------------------------------
(* The environment *)

Arrive(p) ==
    /\ work < MaxWork
    /\ \E n \in 1..MaxChunk : line' = [line EXCEPT ![p] = @ + n]
    /\ work' = work + 1
    /\ UNCHANGED <<pc, rs485_mutex, rs_type, len, sess, port, nleft, confVars, uartVars,
                   ansVars, webVars, late>>

\* The session of the port ends or comes, or its peer stops reading, and reads
\* again.  A send that is blocked keeps its connection until the peer reads.
Session(p) ==
    /\ work < MaxWork
    /\ work' = work + 1
    /\ \/ sess[p] = "open" /\ sess' = [sess EXCEPT ![p] = "stalled"]
       \/ sess[p] = "none" /\ sess' = [sess EXCEPT ![p] = "open"]
       \/ /\ sess[p] = "open" \/ (sess[p] = "stalled" /\ pc[p] \notin {"send232", "send485"})
          /\ sess' = [sess EXCEPT ![p] = "none"]
    /\ UNCHANGED <<pc, rs485_mutex, rs_type, line, len, port, nleft, confVars, uartVars,
                   ansVars, webVars, late>>

PeerReads(p) ==
    /\ sess[p] = "stalled"
    /\ sess' = [sess EXCEPT ![p] = "open"]
    /\ UNCHANGED <<pc, rs485_mutex, rs_type, line, len, port, nleft, confVars, uartVars,
                   ansVars, webVars, work, late>>

Step ==
    \/ \E p \in Ports : ComStep(p) \/ ComLock(p) \/ Arrive(p) \/ Session(p) \/ PeerReads(p)
    \/ \E w \in Writers : WriteStep(w) \/ WriterLock(w)
    \/ \E w \in NetThreads : NetData(w)
    \/ ClientStep \/ ServeCommand
    \/ WebStore \/ WebComSet

\* Nothing is said of the program once it has written behind a buffer.
Undefined == overrun = "yes" /\ UNCHANGED vars

Next == (overrun = "no" /\ Step) \/ Undefined

Spec == Init /\ [][Next]_vars

\* The threads that use a port run when they can, and a line takes or refuses
\* what is written to it.  Nothing is assumed of the order in which the mutex is
\* handed over.
FairSpec ==
    /\ Spec
    /\ \A p \in Ports : WF_vars(overrun = "no" /\ ComStep(p))
    /\ \A w \in Writers : WF_vars(overrun = "no" /\ WriteStep(w))

-----------------------------------------------------------------------------
(* Properties *)

ComPcs == {"test", "lock", "read232", "read485", "send232", "send485", "unlock", "count",
           "copypoll", "copyint", "intmake", "answer"}
WritePcs == {"idle", "lock", "write232", "write485"}
ClientPcs == WritePcs \cup {"ack", "answer", "uattr", "comset"}

\* The threads are where their code can be; the bus, the parameters of the ports and
\* the receive buffers have the program's types.
PcOK ==
    /\ pc \in [Threads -> ComPcs \cup ClientPcs]
    /\ \A p \in Ports : pc[p] \in ComPcs
    /\ \A w \in NetThreads : pc[w] \in WritePcs
    /\ pc[client] \in ClientPcs

BusOK ==
    /\ rs485_mutex \in Threads \cup {Free}
    /\ rs_type \in RsTypes
    /\ line \in [Ports -> Nat] /\ len \in [Ports -> Nat]
    /\ sess \in [Ports -> {"none", "open", "stalled"}]
    /\ nleft \in [Writers -> Nat]

UartOK ==
    /\ uart_cnt \in [Ports -> 0..(CntModulus - 1)]
    /\ uart_buf \in [Ports -> [1..UART_RECV_BUF_SIZE -> Int]]
    /\ rcvd \in [Ports -> Nat]
    /\ overrun \in {"yes", "no"}

ConfOK ==
    /\ con_com \in [Ports -> Coms]
    /\ tty \in [Ports -> Lines]
    /\ web \in {"idle", "comset"}
    /\ webconf \in [id : Ports, all : {"yes", "no"}, com : Coms]
    /\ stray \subseteq Ports

TypeOK == PcOK /\ BusOK /\ UartOK /\ ConfOK

\* A thread has the RS-485 line to itself: between the lock and the unlock of
\* com_proc, or in writen_rs485's loop.
OnBus(t) == pc[t] \in {"read485", "send485", "unlock", "write485"}

\* A thread uses a line, in whichever branch.
OnLine(t) == pc[t] \in {"read485", "write485"} \/ Unlocked(t)

\* The RS-485 line is half duplex.  The mutex belongs to exactly the thread that is
\* between lock and unlock, and never stays behind locked (writen_rs485 unlocks on
\* two paths, com_proc on one).  It does not keep everybody off the line: a thread
\* that was in the RS-232 branch when the web page or the alarm server set the type
\* to RS485 finishes its read or its writen while others use the line.  But only
\* such a thread: whoever came to the line after the change is alone on it or with
\* late ones.
BusExclusive ==
    /\ \A t \in Threads : OnBus(t) <=> rs485_mutex = t
    /\ rs_type = "RS485" =>
         \A t, u \in Threads : OnLine(t) /\ OnLine(u) /\ t # u => t \in late \/ u \in late

\* What keeps it so.
LateInv ==
    /\ late \subseteq {t \in Threads : Unlocked(t)}
    /\ rs_type = "RS485" => \A t \in Threads : Unlocked(t) => t \in late

\* As long as no port has been put into int mode, what is written to the alarm
\* server is what its writer has put into buf_send: in poll mode the com threads
\* leave the shared buffer alone.  (In int mode a com thread may overwrite an
\* answer between make_ack_ and write.)
FramesWhole == intmode = "no" => mixed = "no"

\* What keeps it so: no port and no record on its way into con_com is in int
\* mode, and no com thread is in the steps of int mode.  A SET_UART_ATTR in
\* progress holds copies of con_com and at most two ports.
Setting == pc[client] \in {"uattr", "comset"}

CmdOK ==
    Setting =>
        /\ DOMAIN cmd = {"id", "args", "coms", "sensor"}
        /\ cmd.coms \in [Ports -> Coms]
        /\ cmd.args \in Seq(Attrs)
        /\ next \in 1..Len(cmd.args) /\ Len(cmd.args) \in Ports

FramesInv ==
    intmode = "no" =>
        /\ mixed = "no"
        /\ \A p \in Ports :
             /\ con_com[p].recv = "POLL"
             /\ pc[p] \notin {"copyint", "intmake", "answer"}
             /\ Setting => cmd.coms[p].recv = "POLL"
        /\ pc[client] = "answer" => buf_send.by = client

\* A query of the first port returns what the port has received from the start,
\* in order and without a gap, as long as that fits its buffer and, with the
\* frame around it, buf_send; only bytes that com_proc has counted and not yet
\* copied at that moment are missing.  (buf_send is half the size of the buffer,
\* nothing clears the count and nothing checks it: a query after more than
\* BUF_SEND_SIZE - 8 bytes runs over the end of buf_send.  When the port has
\* received more than the answer counts, uart1_cnt has wrapped.)
Port1Kept ==
    LET f == buf_send
        n == Len(f.body) IN
    f.ack = "QUERY_UART_RECV_DATA" /\ f.id = 1 /\ f.held <= n
    /\ n < UART_RECV_BUF_SIZE /\ n <= BUF_SEND_SIZE - 8
        => f.body = [k \in 1..n |-> IF k <= f.held THEN k ELSE 0]

\* What keeps it so: the buffer holds what has been copied, from its start, as long
\* as that fits; until the count wraps it counts all that was received.
Copying(p) == pc[p] \in {"copypoll", "copyint"}

KeptInv ==
    /\ Copying(1) => len[1] <= rcvd[1]
    /\ rcvd[1] < CntModulus => uart_cnt[1] = rcvd[1]
    /\ Held(1) < UART_RECV_BUF_SIZE =>
         \A k \in 1..UART_RECV_BUF_SIZE : uart_buf[1][k] = IF k <= Held(1) THEN k ELSE 0
    /\ Port1Kept

\* A line is programmed with what con_com says, whichever of the alarm server
\* and the web page set it last, unless the two overlapped or the page set
\* "all ports", which programs only the one it names.
LineFollows ==
    \A p \in Ports \ stray :
        ~(web = "comset" /\ webconf.id = p) /\ pc[client] # "comset"
            => tty[p] = setTTY(con_com[p], tty[p])

\* What keeps it so: unless the line is stray, at most one of the two setters is
\* between storing and programming its parameters, and the alarm server's copy has
\* the parameters that are stored.
ClientSets(p) == pc[client] = "comset" /\ RESET_MSB(cmd.args[next].seq) = p
WebSets(p) == web = "comset" /\ webconf.id = p
SameLine(c, d) == c.bps = d.bps /\ c.dbit = d.dbit /\ c.chk = d.chk /\ c.sbit = d.sbit

LineInv ==
    \A p \in Ports \ stray :
        /\ ~(ClientSets(p) /\ WebSets(p))
        /\ ClientSets(p) => SameLine(cmd.coms[next], con_com[p])
        /\ ~ClientSets(p) /\ ~WebSets(p) => tty[p] = setTTY(con_com[p], tty[p])

SerialInv == TypeOK /\ BusExclusive /\ LateInv /\ CmdOK /\ FramesInv /\ KeptInv /\ LineInv

\* GET_UART_ATTR answers, after the conversions of baud rate and parity to the
\* protocol and back, what the lines are programmed with.
UartReadBack ==
    [][buf_send'.ack = "GET_UART_ATTR" /\ buf_send' # buf_send /\ web = "idle" =>
        \A j \in DOMAIN buf_send'.body :
            LET e == buf_send'.body[j] IN
            e.id \in Ports \ stray =>
                /\ calc_baud_rate(e.line.baud) = tty[e.id].bps
                /\ return_local_odd_even(e.line.parity) = tty[e.id].chk
                /\ e.line.dbit = tty[e.id].dbit
                /\ e.line.sbit = tty[e.id].sbit]_vars

\* Once every peer keeps reading, the RS-485 line is given back again and again:
\* no order of locks, errors and changes of rs_type leaves the other port and
\* the writers waiting for ever.  (com_proc holds the mutex over a send that a
\* stalled peer blocks: without the condition everybody waits for that peer.)
BusReleased ==
    <>[](\A p \in Ports : sess[p] # "stalled")
        => []<>(rs485_mutex = Free) \/ <>(overrun = "yes")
=============================================================================
