----------------------------- MODULE AlarmClient -----------------------------
(***************************************************************************)
(* The alarm-server client thread of the gateway (client.c,                *)
(* client_process), with the threads and the environment it races with:    *)
(*                                                                         *)
(*  - the client thread: one loop turn counts heartbeat_timeout, sleeps,   *)
(*    reconnects when g_reconnect_flag asks for it, polls the socket and   *)
(*    serves at most one command;                                          *)
(*  - the web thread: ITS_SERVER_SET replaces g_conf_info.con_server and   *)
(*    later raises g_reconnect_flag, without a lock;                       *)
(*  - a com thread that writes serial data to the same socket (int mode);  *)
(*  - the alarm server: sends commands, falls silent, stops reading,       *)
(*    closes, resets;                                                      *)
(*  - a com thread that keeps rs485_mutex while it sends to a peer that    *)
(*    does not read (com.c), so that a command for a serial port waits.    *)
(*                                                                         *)
(* Every action between two labels of pc is one stretch of the client's    *)
(* code in which it touches the shared state once.  Host names, addresses  *)
(* and commands are abstract; loop turns stand for seconds.                *)
(***************************************************************************)
EXTENDS Naturals, Sequences

CONSTANTS
    Fds,               \* descriptors the kernel can hand to the client
    NoFd,              \* -1 in g_sockfd_client
    Names,             \* non-empty host names that need a DNS query
    Literals,          \* host names ip_check accepts as dotted addresses
    EmptyName,         \* dns_str = ""
    Addr,              \* the address a name stands for; 0.0.0.0 for the empty one
    Ports,             \* server_port values
    Grants,            \* the periods a SET_HEARTBEAT command may carry
    HEARTBEAT_TIMEOUT, \* the period in force when the server is offline
    TimeoutModulus,    \* 2^width of heartbeat_timeout (u16)
    MaxInbox           \* bound on commands waiting in the socket

HostNames == Names \cup Literals \cup {EmptyName}

Servers == [server_ip : {Addr[n] : n \in HostNames},
            server_port : Ports,
            dns_str : HostNames]

\* What is in memory at boot: a server that was set through the web, the
\* default server (SERVER_IP is "") or a blank configuration.
BootServers == {s \in Servers : s.server_ip \in {Addr[s.dns_str], Addr[EmptyName]}}

\* What the CGI sends: it refuses a name it cannot resolve itself.
WebServers == {s \in Servers : /\ s.dns_str # EmptyName
                               /\ s.server_ip = Addr[s.dns_str]}

ASSUME NoFdAssumption == NoFd \notin Fds

ASSUME NamesAssumption ==
    /\ EmptyName \notin Names \cup Literals
    /\ Names \cap Literals = {}
    /\ HostNames \subseteq DOMAIN Addr

\* heartbeat_s is a u8, heartbeat_timeout a u16 since "FIX BUG001".
ASSUME PeriodAssumption ==
    /\ Grants \subseteq Nat
    /\ HEARTBEAT_TIMEOUT \in Nat
    /\ TimeoutModulus \in Nat
    /\ HEARTBEAT_TIMEOUT + 1 < TimeoutModulus
    /\ \A g \in Grants : g + 1 < TimeoutModulus

ASSUME MaxInboxAssumption == MaxInbox \in Nat

VARIABLES
    pc,                \* where the client thread is
    g_sockfd_client,   \* the socket of the alarm server, or NoFd
    fds,               \* the descriptors this thread has open
    dns_fd,            \* the socket of the DNS query under way
    query,             \* the name that query carries
    alarm_server,      \* sockaddr_in the last connect used
    g_reconnect_flag,
    heartbeat_s,
    heartbeat_timeout,
    led,               \* LED_D3_ALARM_SERVER_STATUS: LED_ON or LED_OFF
    peer,              \* the server's end: "open", "fin" or "rst"
    inbox,             \* commands waiting in the socket
    room,              \* "yes" while the socket takes what is written, see ServerStops
    bus,               \* rs485_mutex: "free" to be had, or "stuck"
    cmd,               \* the command in hand
    con_server,        \* g_conf_info.con_server
    wpc,               \* where the web thread is in ITS_SERVER_SET
    conf_server,       \* the web thread's received CONFIG_SERVER
    process,           \* "running", or "killed" by SIGPIPE
    since,             \* history: loop turns since the last heartbeat
    grant              \* history: the period the last heartbeat granted

clientVars == <<g_sockfd_client, fds, dns_fd, query, alarm_server>>
beatVars   == <<heartbeat_s, heartbeat_timeout, led, since, grant>>
netVars    == <<peer, inbox, room>>
webVars    == <<wpc, conf_server>>
hereVars   == <<bus, cmd>>
vars == <<pc, clientVars, g_reconnect_flag, beatVars, netVars, hereVars, con_server,
          webVars, process>>

LED_ON  == "LED_ON"
LED_OFF == "LED_OFF"

RECONNECT_ON      == "RECONNECT_ON"
RECONNECT_OFF     == "RECONNECT_OFF"
HEARTBEAT_OFFLINE == "HEARTBEAT_OFFLINE"
HEARTBEAT_ONLINE  == "HEARTBEAT_ONLINE"

\* What a command does as far as this thread's state goes.  "acked" commands
\* are answered, and "uart_send" after its data has been written to a serial
\* port; "quiet" ones are not (GET_TIME, SET_IO, SET_TEMP, a command whose
\* check_for_* or check_head fails, an unknown one).
Heartbeats == [cmd : {"set_heartbeat"}, time : Grants]
Commands   == Heartbeats \cup [cmd : {"acked", "uart_send", "quiet"}]
NoCmd      == [cmd |-> "quiet"]

ClientPcs == {"tick", "sleep", "socket", "dns", "dnswait", "addr", "port",
              "connect", "backoff", "linked", "check", "uart", "write"}

Init ==
    /\ pc = "tick"
    /\ g_sockfd_client = NoFd /\ fds = {} /\ dns_fd = NoFd
    /\ query = EmptyName
    /\ con_server \in BootServers
    /\ alarm_server = [ip |-> con_server.server_ip, port |-> con_server.server_port]
    /\ g_reconnect_flag = RECONNECT_OFF
    /\ heartbeat_s = HEARTBEAT_TIMEOUT /\ heartbeat_timeout = 0
    /\ led = LED_OFF /\ since = 0 /\ grant = HEARTBEAT_TIMEOUT
    /\ peer = "open" /\ inbox = << >> /\ room = "yes"
    /\ bus = "free" /\ cmd = NoCmd
    /\ wpc = "idle" /\ conf_server = con_server
    /\ process = "running"

-----------------------------------------------------------------------------
(* The client thread *)

\* What the history variables record at the top of a turn: turns are only
\* counted while the LED claims that the server is there, and the count stops
\* two past the granted period.
CountTurn ==
    /\ since' = IF led = LED_ON /\ since < grant + 2 THEN since + 1 ELSE since
    /\ UNCHANGED grant

\* Mutant: the test of the limit is off by one.
Tick_AtLimit ==
    LET t == (heartbeat_timeout + 1) % TimeoutModulus IN
    /\ pc = "tick"
    /\ pc' = "sleep"
    /\ IF t >= heartbeat_s
       THEN /\ g_reconnect_flag' = HEARTBEAT_OFFLINE
            /\ heartbeat_s' = HEARTBEAT_TIMEOUT
            /\ heartbeat_timeout' = 0
       ELSE /\ heartbeat_timeout' = t
            /\ UNCHANGED <<g_reconnect_flag, heartbeat_s>>
    /\ CountTurn
    /\ UNCHANGED <<clientVars, led, netVars, con_server, hereVars, webVars, process>>

\* Mutant: heartbeat_timeout is no wider than heartbeat_s (BUG001).
Tick_NarrowCounter ==
    LET t == (heartbeat_timeout + 1) % (TimeoutModulus - 1) IN
    /\ pc = "tick"
    /\ pc' = "sleep"
    /\ IF t > heartbeat_s
       THEN /\ g_reconnect_flag' = HEARTBEAT_OFFLINE
            /\ heartbeat_s' = HEARTBEAT_TIMEOUT
            /\ heartbeat_timeout' = 0
       ELSE /\ heartbeat_timeout' = t
            /\ UNCHANGED <<g_reconnect_flag, heartbeat_s>>
    /\ CountTurn
    /\ UNCHANGED <<clientVars, led, netVars, con_server, hereVars, webVars, process>>

\* Mutant: going offline leaves the counter where it is.
Tick_KeepCounter ==
    LET t == (heartbeat_timeout + 1) % TimeoutModulus IN
    /\ pc = "tick"
    /\ pc' = "sleep"
    /\ heartbeat_timeout' = t
    /\ IF t > heartbeat_s
       THEN /\ g_reconnect_flag' = HEARTBEAT_OFFLINE
            /\ heartbeat_s' = HEARTBEAT_TIMEOUT
       ELSE UNCHANGED <<g_reconnect_flag, heartbeat_s>>
    /\ CountTurn
    /\ UNCHANGED <<clientVars, led, netVars, con_server, hereVars, webVars, process>>

\* heartbeat_timeout++; over the limit, set_heartbeat(HEARTBEAT_OFFLINE).
Tick ==
    LET t == (heartbeat_timeout + 1) % TimeoutModulus IN
    /\ pc = "tick"
    /\ pc' = "sleep"
    /\ IF t > heartbeat_s
       THEN /\ g_reconnect_flag' = HEARTBEAT_OFFLINE
            /\ heartbeat_s' = HEARTBEAT_TIMEOUT
            /\ heartbeat_timeout' = 0
       ELSE /\ heartbeat_timeout' = t
            /\ UNCHANGED <<g_reconnect_flag, heartbeat_s>>
    /\ CountTurn
    /\ UNCHANGED <<clientVars, led, netVars, con_server, hereVars, webVars, process>>

\* Closing the alarm-server socket: what was waiting in it is gone.
CloseClient ==
    /\ fds' = fds \ {g_sockfd_client}
    /\ g_sockfd_client' = NoFd
    /\ inbox' = << >>
    /\ peer' = "open"
    /\ room' = "yes"

\* Mutant: client_reconnect leaves the LED alone.
Wake_LedStays ==
    /\ pc = "sleep"
    /\ IF g_reconnect_flag \in {RECONNECT_ON, HEARTBEAT_OFFLINE}
       THEN pc' = "socket" /\ CloseClient
       ELSE pc' = "check" /\ UNCHANGED <<g_sockfd_client, fds, netVars>>
    /\ UNCHANGED <<dns_fd, query, alarm_server, g_reconnect_flag, beatVars,
                   con_server, hereVars, webVars, process>>

\* After sleep(1): enter client_reconnect when the flag says so.
Wake ==
    /\ pc = "sleep"
    /\ IF g_reconnect_flag \in {RECONNECT_ON, HEARTBEAT_OFFLINE}
       THEN /\ pc' = "socket"
            /\ CloseClient
            /\ led' = LED_OFF
       ELSE /\ pc' = "check"
            /\ UNCHANGED <<g_sockfd_client, fds, netVars, led>>
    /\ UNCHANGED <<dns_fd, query, alarm_server, g_reconnect_flag, heartbeat_s,
                   heartbeat_timeout, since, grant, con_server, hereVars, webVars, process>>

\* socket() of client_connect_server; it fails when no descriptor is left,
\* or for a reason of the kernel's own.
OpenSocket ==
    /\ pc = "socket"
    /\ \/ \E f \in Fds \ fds :
            /\ g_sockfd_client' = f
            /\ fds' = fds \cup {f}
            /\ pc' = "dns"
       \/ /\ pc' = "backoff"
          /\ g_sockfd_client' = NoFd
          /\ UNCHANGED fds
    /\ UNCHANGED <<dns_fd, query, alarm_server, g_reconnect_flag, beatVars,
                   netVars, con_server, hereVars, webVars, process>>

\* dns_resolution(g_conf_info.con_server.dns_str): a dotted address is taken
\* as it stands, an empty name fails, any other name is put in a query.
DnsStart ==
    /\ pc = "dns"
    /\ \/ /\ con_server.dns_str \in Literals
          /\ con_server' = [con_server EXCEPT !.server_ip = Addr[con_server.dns_str]]
          /\ pc' = "addr"
          /\ UNCHANGED <<fds, dns_fd, query>>
       \/ /\ con_server.dns_str = EmptyName
          /\ pc' = "backoff"
          /\ UNCHANGED <<fds, dns_fd, query, con_server>>
       \/ /\ con_server.dns_str \in Names
          /\ \E f \in Fds \ fds :
               /\ dns_fd' = f
               /\ fds' = fds \cup {f}
          /\ query' = con_server.dns_str
          /\ pc' = "dnswait"
          /\ UNCHANGED con_server
    /\ UNCHANGED <<g_sockfd_client, alarm_server, g_reconnect_flag, beatVars,
                   netVars, hereVars, webVars, process>>

\* Mutant: the socket of the query is forgotten (BUG002).
DnsClose_Leak ==
    /\ dns_fd' = NoFd
    /\ UNCHANGED fds

\* sendDNSPacket ends, after at most two seconds, and closes its socket.
DnsClose ==
    /\ fds' = fds \ {dns_fd}
    /\ dns_fd' = NoFd

\* The answer: server_ip is overwritten with the address of the name that was
\* asked for, whatever con_server holds by now.
DnsAnswer ==
    /\ pc = "dnswait"
    /\ DnsClose
    /\ con_server' = [con_server EXCEPT !.server_ip = Addr[query]]
    /\ pc' = "addr"
    /\ UNCHANGED <<g_sockfd_client, query, alarm_server, g_reconnect_flag, beatVars,
                   netVars, hereVars, webVars, process>>

\* No answer in time, or one without an address.
DnsFail ==
    /\ pc = "dnswait"
    /\ DnsClose
    /\ pc' = "backoff"
    /\ UNCHANGED <<g_sockfd_client, query, alarm_server, g_reconnect_flag, beatVars,
                   netVars, con_server, hereVars, webVars, process>>

\* The two reads that fill in sockaddr_in.
ReadAddress ==
    /\ pc = "addr"
    /\ alarm_server' = [alarm_server EXCEPT !.ip = con_server.server_ip]
    /\ pc' = "port"
    /\ UNCHANGED <<g_sockfd_client, fds, dns_fd, query, g_reconnect_flag, beatVars,
                   netVars, con_server, hereVars, webVars, process>>

ReadPort ==
    /\ pc = "port"
    /\ alarm_server' = [alarm_server EXCEPT !.port = con_server.server_port]
    /\ pc' = "connect"
    /\ UNCHANGED <<g_sockfd_client, fds, dns_fd, query, g_reconnect_flag, beatVars,
                   netVars, con_server, hereVars, webVars, process>>

\* connect and poll succeed.
ConnectOk ==
    /\ pc = "connect"
    /\ pc' = "linked"
    /\ UNCHANGED <<clientVars, g_reconnect_flag, beatVars, netVars, con_server,
                   hereVars, webVars, process>>

\* The err label: refused, timed out or an error on the socket.
ConnectErr ==
    /\ pc = "connect"
    /\ g_reconnect_flag' = RECONNECT_ON
    /\ CloseClient
    /\ pc' = "backoff"
    /\ UNCHANGED <<dns_fd, query, alarm_server, beatVars, con_server, hereVars, webVars, process>>

\* client_reconnect after a failure: close what client_connect_server left
\* open, sleep CLIENT_RECONNECT_DURATION and try again.
Backoff ==
    /\ pc = "backoff"
    /\ CloseClient
    /\ pc' = "socket"
    /\ UNCHANGED <<dns_fd, query, alarm_server, g_reconnect_flag, beatVars,
                   con_server, hereVars, webVars, process>>

\* client_reconnect returned SUCCESS: the flag is cleared, whoever raised it.
Linked ==
    /\ pc = "linked"
    /\ g_reconnect_flag' = RECONNECT_OFF
    /\ pc' = "check"
    /\ UNCHANGED <<clientVars, beatVars, netVars, con_server, hereVars, webVars, process>>

\* g_sockfd_client <= 0: ask for a reconnect on the next turn.
NoSocket ==
    /\ pc = "check" /\ g_sockfd_client = NoFd
    /\ g_reconnect_flag' = RECONNECT_ON
    /\ pc' = "tick"
    /\ UNCHANGED <<clientVars, beatVars, netVars, con_server, hereVars, webVars, process>>

\* select reports nothing or fails, or read returns 0 or an error: the turn
\* ends.  A closed connection stays open on this side.
NothingRead ==
    /\ pc = "check" /\ g_sockfd_client # NoFd
    /\ pc' = "tick"
    /\ UNCHANGED <<clientVars, g_reconnect_flag, beatVars, netVars, con_server,
                   hereVars, webVars, process>>

\* write() of an answer: it waits for as long as the server does not read what
\* was written before; the socket is a blocking one again once it is connected.
\* On a connection the server has reset it may raise SIGPIPE, which nothing in
\* the program handles or ignores.
Answer ==
    /\ room = "yes"
    /\ process' \in {"running"} \cup {p \in {"killed"} : peer = "rst"}

\* set_heartbeat(HEARTBEAT_ONLINE, time), after the answer.
Beat(time) ==
    /\ g_reconnect_flag' = HEARTBEAT_ONLINE
    /\ heartbeat_s' = time
    /\ heartbeat_timeout' = 0
    /\ led' = LED_ON
    /\ since' = 0
    /\ grant' = time

\* One read of up to 100 bytes takes the waiting commands; only the one at the
\* front of the buffer is looked at, the others are lost.
Serve ==
    /\ pc = "check" /\ g_sockfd_client # NoFd
    /\ \E n \in 1..Len(inbox) : inbox' = SubSeq(inbox, n + 1, Len(inbox))
    /\ LET m == Head(inbox) IN
         \/ m.cmd = "uart_send" /\ pc' = "uart" /\ cmd' = m
         \/ m.cmd \in {"set_heartbeat", "acked"} /\ pc' = "write" /\ cmd' = m
         \/ m.cmd = "quiet" /\ pc' = "tick" /\ UNCHANGED cmd
    /\ UNCHANGED <<clientVars, g_reconnect_flag, beatVars, peer, room, bus, con_server,
                   webVars, process>>

\* SendNetDataToCom: writen_rs485 waits for the mutex.
UartWrite ==
    /\ pc = "uart" /\ bus = "free"
    /\ pc' = "write"
    /\ UNCHANGED <<clientVars, g_reconnect_flag, beatVars, netVars, hereVars, con_server,
                   webVars, process>>

\* The answer, and what a heartbeat changes after it.
Write ==
    /\ pc = "write"
    /\ Answer
    /\ pc' = "tick"
    /\ cmd' = NoCmd
    /\ \/ cmd.cmd = "set_heartbeat" /\ Beat(cmd.time)
       \/ cmd.cmd # "set_heartbeat" /\ UNCHANGED <<g_reconnect_flag, beatVars>>
    /\ UNCHANGED <<clientVars, netVars, bus, con_server, webVars>>

ClientStep ==
    \/ Tick \/ Wake \/ OpenSocket \/ DnsStart \/ DnsAnswer \/ DnsFail
    \/ ReadAddress \/ ReadPort \/ ConnectOk \/ ConnectErr \/ Backoff
    \/ Linked \/ NoSocket \/ NothingRead \/ Serve \/ UartWrite \/ Write

-----------------------------------------------------------------------------
(* The web thread: ITS_SERVER_SET *)

\* The packet is in; memcpy copies it field by field, server_ip first.
WebCopyAddress ==
    /\ wpc = "idle"
    /\ \E s \in WebServers :
         /\ conf_server' = s
         /\ con_server' = [con_server EXCEPT !.server_ip = s.server_ip]
    /\ wpc' = "copy"
    /\ UNCHANGED <<pc, clientVars, g_reconnect_flag, beatVars, netVars, hereVars, process>>

WebCopyRest ==
    /\ wpc = "copy"
    /\ con_server' = [con_server EXCEPT !.server_port = conf_server.server_port,
                                        !.dns_str = conf_server.dns_str]
    /\ wpc' = "saved"
    /\ UNCHANGED <<pc, clientVars, g_reconnect_flag, beatVars, netVars, hereVars,
                   conf_server, process>>

\* Saved and acknowledged: g_reconnect_flag = RECONNECT_ON.
WebRaiseFlag ==
    /\ wpc = "saved"
    /\ g_reconnect_flag' = RECONNECT_ON
    /\ wpc' = "idle"
    /\ UNCHANGED <<pc, clientVars, beatVars, netVars, hereVars, con_server, conf_server, process>>

WebStep == WebCopyAddress \/ WebCopyRest \/ WebRaiseFlag

-----------------------------------------------------------------------------
(* The environment *)

Established == g_sockfd_client # NoFd /\ pc \in {"tick", "sleep", "linked", "check", "uart", "write"}

ServerSend ==
    /\ Established /\ peer = "open" /\ Len(inbox) < MaxInbox
    /\ \E m \in Commands : inbox' = Append(inbox, m)
    /\ UNCHANGED <<pc, clientVars, g_reconnect_flag, beatVars, peer, room, hereVars, con_server,
                   webVars, process>>

ServerClose ==
    /\ Established /\ peer = "open"
    /\ peer' = "fin"
    /\ UNCHANGED <<pc, clientVars, g_reconnect_flag, beatVars, inbox, room, hereVars, con_server,
                   webVars, process>>

\* A write that waited fails with the connection.
ServerReset ==
    /\ Established /\ peer # "rst"
    /\ peer' = "rst"
    /\ room' = "yes"
    /\ UNCHANGED <<pc, clientVars, g_reconnect_flag, beatVars, inbox, hereVars, con_server,
                   webVars, process>>

\* A com thread in int mode writes to g_sockfd_client, whatever it is.
ComIntModeWrite ==
    /\ g_sockfd_client # NoFd
    /\ Answer
    /\ UNCHANGED <<pc, clientVars, g_reconnect_flag, beatVars, netVars, hereVars, con_server,
                   webVars>>

\* The server no longer reads, and what is written does not fit any more; or it
\* reads again.
ServerStops ==
    /\ Established /\ peer # "rst"
    /\ room' = "no"
    /\ UNCHANGED <<pc, clientVars, g_reconnect_flag, beatVars, peer, inbox, hereVars,
                   con_server, webVars, process>>

ServerReads ==
    /\ room = "no"
    /\ room' = "yes"
    /\ UNCHANGED <<pc, clientVars, g_reconnect_flag, beatVars, peer, inbox, hereVars,
                   con_server, webVars, process>>

\* com_proc has locked rs485_mutex and is in a send that its peer blocks; or that
\* peer reads again.
BusStuck ==
    /\ bus = "free"
    /\ bus' = "stuck"
    /\ UNCHANGED <<pc, clientVars, g_reconnect_flag, beatVars, netVars, cmd, con_server,
                   webVars, process>>

BusFreed ==
    /\ bus = "stuck"
    /\ bus' = "free"
    /\ UNCHANGED <<pc, clientVars, g_reconnect_flag, beatVars, netVars, cmd, con_server,
                   webVars, process>>

EnvStep ==
    \/ ServerSend \/ ServerClose \/ ServerReset \/ ComIntModeWrite
    \/ ServerStops \/ ServerReads \/ BusStuck \/ BusFreed

Next == process = "running" /\ (ClientStep \/ WebStep \/ EnvStep)

Spec == Init /\ [][Next]_vars

\* The client thread and the web handler run whenever they can: sleep, select
\* and poll all have a timeout.  write of an answer and the wait for rs485_mutex
\* have none: those steps are disabled while they block, and nothing is assumed
\* of the server or of the peers of the serial sessions.
FairSpec ==
    /\ Spec
    /\ WF_vars(process = "running" /\ ClientStep)
    /\ WF_vars(process = "running" /\ (WebCopyRest \/ WebRaiseFlag))

-----------------------------------------------------------------------------
(* Properties *)

\* The variables have the types of the program's.
TypeOK ==
    /\ pc \in ClientPcs
    /\ g_sockfd_client \in Fds \cup {NoFd}
    /\ fds \subseteq Fds
    /\ dns_fd \in Fds \cup {NoFd}
    /\ query \in HostNames
    /\ alarm_server \in [ip : {Addr[n] : n \in HostNames}, port : Ports]
    /\ g_reconnect_flag \in {RECONNECT_ON, RECONNECT_OFF, HEARTBEAT_OFFLINE,
                             HEARTBEAT_ONLINE}
    /\ heartbeat_s \in Grants \cup {HEARTBEAT_TIMEOUT}
    /\ heartbeat_timeout \in 0..(TimeoutModulus - 1)
    /\ led \in {LED_ON, LED_OFF}
    /\ peer \in {"open", "fin", "rst"}
    /\ inbox \in Seq(Commands)
    /\ room \in {"yes", "no"} /\ bus \in {"free", "stuck"}
    /\ cmd \in Commands
    /\ con_server \in Servers
    /\ wpc \in {"idle", "copy", "saved"}
    /\ conf_server \in Servers
    /\ process \in {"running", "killed"}
    /\ since \in Nat
    /\ grant \in Grants \cup {HEARTBEAT_TIMEOUT}

\* The descriptors the client has opened are exactly the ones it still has a
\* handle on: the alarm-server socket and, during a query, the DNS socket.
\* A retry loop that runs for months must not lose one on any failure path
\* (client.c closes in three places; "FIX BUG002" was such a leak).
FdsOwned ==
    fds = {f \in {g_sockfd_client} : f # NoFd}
             \cup {f \in {dns_fd} : pc = "dnswait"}

\* heartbeat_timeout never passes heartbeat_s, whatever period the server
\* grants and whenever it changes it, so the counter never wraps.
TimeoutBelowPeriod == heartbeat_timeout <= heartbeat_s

\* The server-status LED is lit only over an open connection on which a
\* heartbeat came at most grant + 1 loop turns ago.
LedFresh ==
    led = LED_ON =>
        /\ g_sockfd_client # NoFd
        /\ pc \in {"tick", "sleep", "check", "uart", "write"}
        /\ since <= grant + 1

\* The inductive invariant behind FdsOwned, TimeoutBelowPeriod and LedFresh.
\* While the LED is lit the program's counter and period agree with the
\* history variables, except between the turn's timeout and its reconnect.
FdInv ==
    /\ FdsOwned
    /\ pc = "socket" => g_sockfd_client = NoFd
    /\ pc = "dnswait" => dns_fd # NoFd /\ dns_fd # g_sockfd_client
    /\ pc \in {"uart", "write"} => g_sockfd_client # NoFd

LedInv ==
    led = LED_ON =>
        /\ g_sockfd_client # NoFd
        /\ pc \in {"tick", "sleep", "check", "uart", "write"}
        /\ \/ since = heartbeat_timeout /\ grant = heartbeat_s
           \/ /\ pc = "sleep"
              /\ g_reconnect_flag \in {RECONNECT_ON, HEARTBEAT_OFFLINE}
              /\ since = grant + 1

\* The three together, with the types: what every step of every thread keeps.
IInv == TypeOK /\ FdInv /\ TimeoutBelowPeriod /\ LedInv

\* A server that has been sending heartbeats is declared offline in the very
\* turn its granted period is over: never earlier, never later.
OfflineExactlyWhenDue ==
    [][led = LED_ON /\ g_reconnect_flag # HEARTBEAT_OFFLINE
           /\ g_reconnect_flag' = HEARTBEAT_OFFLINE
         => since' = grant + 1]_vars

\* A heartbeat command has just been served.
BeatServed == g_reconnect_flag = HEARTBEAT_ONLINE /\ heartbeat_timeout = 0

\* A connection on which no heartbeat comes is dropped in the end: client.c's
\* "case 2: server offline(No heartbeat)".  So is one the server has closed or
\* reset, whatever it had sent before, although no code looks at what read
\* returns.  The condition: from some time on the thread can write, to the server
\* and to a port.  A server that keeps the connection and no longer reads, or a
\* serial session's peer behind which the mutex is held, can stop the thread in a
\* write for good, and then no timeout is counted.
CanWrite == room = "yes" /\ bus = "free"

LostServerDropped ==
    <>[]CanWrite =>
        /\ Established ~> (BeatServed \/ g_sockfd_client = NoFd \/ process = "killed")
        /\ (Established /\ peer # "open") ~> (g_sockfd_client = NoFd \/ process = "killed")

\* The server the configuration names.
ConfiguredServer == [ip |-> Addr[con_server.dns_str], port |-> con_server.server_port]

OnWrongServer == Established /\ wpc = "idle" /\ alarm_server # ConfiguredServer

\* client.c's "case 1: server configuration(ip , port) updated": once the web
\* thread has finished a server update, the client does not stay connected to
\* a server that is not the configured one (nor is it stopped in a write).
UpdatedServerTaken ==
    <>[]CanWrite =>
        OnWrongServer ~> (~OnWrongServer \/ g_sockfd_client = NoFd \/ process = "killed")

=============================================================================
