----------------------------- MODULE ModeSession -----------------------------
(***************************************************************************)
(* mode.c: one of the threads that carry a serial port's data over the     *)
(* network.  mode_proc makes the socket its CONFIG_SESSION asks for (a TCP *)
(* client, a TCP server with up to MAX_SESSION clients, or UDP), copies    *)
(* the configuration, and then serves the socket until the configuration   *)
(* differs from the copy.  The web thread replaces the configuration under *)
(* it at any moment, without a lock; the network does as it likes.  What    *)
(* arrives is written to the serial port, which may have to wait: for the  *)
(* line, and on RS-485 for rs485_mutex, which com_proc holds while it      *)
(* sends to a peer (com.c), for as long as that peer does not read.        *)
(*                                                                         *)
(* Addresses and ports are one abstract target, data is a flag of the      *)
(* descriptor it waits at.  0 is a free descriptor variable, -1 what a     *)
(* failed call returned.                                                   *)
(***************************************************************************)
EXTENDS Integers, FiniteSets

CONSTANTS
    MAX_SESSION,  \* clients of a server session
    Fds,          \* descriptors the kernel can hand to the thread
    Targets,      \* addresses and ports
    Unbound,      \* what a UDP socket is bound to when bind fails
    MaxSets,      \* bound on configuration changes
    MaxEvents     \* bound on what the network does

ASSUME SessionAssumption ==
    /\ MAX_SESSION \in Nat \ {0} /\ Fds \subseteq Nat \ {0}
    /\ Unbound \notin Targets
    /\ MaxSets \in Nat /\ MaxEvents \in Nat

Slots     == 1 .. MAX_SESSION
Protocols == {"TCP_NO", "TCP_CLI", "TCP_SRV", "TCP_UDP"}
Sessions  == [protocol : Protocols, target : Targets]

VARIABLES
    session,    \* md->session, in g_conf_info
    mode,       \* con_mode->mode
    wpc, conf,  \* the web thread: where it is, and the session it is copying
    pc,         \* where the thread is
    made,       \* the configuration the socket was made from
    tmp,        \* mode_proc's copy
    fd, sfd,    \* md->fd, md->sfd
    m_readfds,
    i,          \* loop index
    open,       \* the descriptors this thread has open
    backlog,    \* clients waiting at the listening socket
    chan,       \* what waits at a descriptor: nothing, data, the end, an error
    bus,        \* what a write to the serial port finds: "free" or "stuck"
    raced,      \* history: the configuration changed while the socket was made
    sets, events

web     == <<session, mode, wpc, conf, sets>>
network == <<backlog, chan, events>>
vars    == <<web, network, pc, made, tmp, fd, sfd, m_readfds, i, open, bus, raced>>

Init ==
    /\ session \in Sessions /\ mode \in {"WORK_NO", "WORK_SOCKET"}
    /\ wpc = "idle" /\ conf = session
    /\ pc = "again"
    /\ made = session /\ tmp = session
    /\ fd = 0 /\ sfd = [n \in Slots |-> 0]
    /\ m_readfds = {} /\ i = 1 /\ open = {}
    /\ backlog = 0 /\ chan = [f \in Fds |-> "quiet"]
    /\ bus = "free" /\ raced = "no"
    /\ sets = 0 /\ events = 0

-----------------------------------------------------------------------------
(* Making the socket *)

\* AGAIN: the protocol is read, then the address and port it needs.
Choose ==
    /\ pc = "again"
    /\ mode # "WORK_NO" /\ session.protocol # "TCP_NO"
    /\ made' = [made EXCEPT !.protocol = session.protocol]
    /\ pc' = "args"
    /\ raced' = "no"
    /\ UNCHANGED <<web, network, tmp, fd, sfd, m_readfds, i, open, bus>>

ReadTarget ==
    /\ pc = "args"
    /\ made' = [made EXCEPT !.target = session.target]
    /\ pc' = "make"
    /\ UNCHANGED <<web, network, tmp, fd, sfd, m_readfds, i, open, raced, bus>>

\* socket_cli_init connects, socket_init listens, init_udp_socket binds.
MakeOk ==
    /\ pc = "make"
    /\ \E f \in Fds \ open :
         /\ fd' = f /\ open' = open \cup {f}
         /\ chan' = [chan EXCEPT ![f] = "quiet"]
    /\ backlog' = 0
    /\ pc' = "copy"
    /\ UNCHANGED <<web, events, made, tmp, sfd, m_readfds, i, raced, bus>>

\* socket, connect, bind or listen fails: nothing stays open.  (The returns after
\* setsockopt, which does not fail on a new socket, are left out.)
MakeFails ==
    /\ pc = "make"
    /\ fd' = -1
    /\ pc' = "again"
    /\ UNCHANGED <<web, network, made, tmp, sfd, m_readfds, i, open, raced, bus>>

\* init_udp_socket returns its socket also when bind fails.
UdpBindFails ==
    /\ pc = "make" /\ made.protocol = "TCP_UDP"
    /\ made' = [made EXCEPT !.target = Unbound]
    /\ \E f \in Fds \ open :
         /\ fd' = f /\ open' = open \cup {f}
         /\ chan' = [chan EXCEPT ![f] = "quiet"]
    /\ pc' = "copy"
    /\ UNCHANGED <<web, backlog, events, tmp, sfd, m_readfds, i, raced, bus>>

\* Mutant: a copy of the configuration that the socket was not made from.
Copy_Old ==
    /\ pc = "copy"
    /\ tmp' = IF tmp.protocol = "TCP_NO" THEN session ELSE tmp
    /\ pc' = "loop"
    /\ UNCHANGED <<web, network, made, fd, sfd, m_readfds, i, open, raced, bus>>

\* memcpy(&tmp, md->session, ...).
Copy ==
    /\ pc = "copy"
    /\ tmp' = session
    /\ pc' = "loop"
    /\ UNCHANGED <<web, network, made, fd, sfd, m_readfds, i, open, raced, bus>>

-----------------------------------------------------------------------------
(* Serving it *)

Holding == {sfd[n] : n \in Slots}

Stale == mode = "WORK_NO" \/ session # tmp

\* Mutant: only the session's own socket is closed.
Teardown_KeepClients ==
    /\ pc = "loop" /\ Stale
    /\ open' = open \ {fd}
    /\ fd' = 0
    /\ pc' = "again"
    /\ UNCHANGED <<web, network, made, tmp, sfd, m_readfds, i, raced, bus>>

\* The configuration has changed: everything is closed.
Teardown ==
    /\ pc = "loop" /\ Stale
    /\ open' = open \ ({fd} \cup Holding)
    /\ fd' = 0 /\ sfd' = [n \in Slots |-> 0]
    /\ pc' = "again"
    /\ UNCHANGED <<web, network, made, tmp, m_readfds, i, raced, bus>>

\* Mutant: the mode is looked at, the session is not.
Current_ModeOnly ==
    /\ pc = "loop" /\ mode # "WORK_NO"
    /\ pc' = "switch"
    /\ UNCHANGED <<web, network, made, tmp, fd, sfd, m_readfds, i, open, raced, bus>>

Current ==
    /\ pc = "loop" /\ ~Stale
    /\ pc' = "switch"
    /\ UNCHANGED <<web, network, made, tmp, fd, sfd, m_readfds, i, open, raced, bus>>

\* switch(md->session->protocol), which the web thread may have changed by now.
Switch ==
    /\ pc = "switch"
    /\ pc' = CASE session.protocol = "TCP_CLI" -> "cli"
               [] session.protocol = "TCP_SRV" -> "srv"
               [] session.protocol = "TCP_UDP" -> "udp"
               [] OTHER -> "loop"
    /\ UNCHANGED <<web, network, made, tmp, fd, sfd, m_readfds, i, open, raced, bus>>

\* What recv finds at a descriptor, and leaves there: data is taken; an error
\* is reported once, then the end; the end stays.
AfterRecv(f) ==
    chan' = [chan EXCEPT ![f] = IF @ = "data" THEN "quiet" ELSE "end"]

\* The socket the session has is a listening one.
Listening == made.protocol = "TCP_SRV"

FdReady == IF Listening THEN backlog > 0 ELSE chan[fd] # "quiet"

Back == pc' = "loop"

\* Mutant: recv's 0 is taken for an empty read.
CliRecv_IgnoresEnd ==
    /\ pc = "cli" /\ FdReady
    /\ pc' = "write"
    /\ IF Listening THEN UNCHANGED chan ELSE AfterRecv(fd)
    /\ UNCHANGED <<web, backlog, events, made, tmp, fd, sfd, m_readfds, i, open, bus, raced>>

\* TCP_CLI: the end of the stream closes the socket; data and errors (always one
\* at a listening socket) go on to SendNetDataToCom.
CliRecv ==
    /\ pc = "cli" /\ FdReady
    /\ \/ /\ ~Listening /\ chan[fd] = "end"
          /\ open' = open \ {fd} /\ fd' = 0
          /\ pc' = "again"
          /\ UNCHANGED chan
       \/ /\ ~Listening /\ chan[fd] # "end"
          /\ AfterRecv(fd)
          /\ pc' = "write"
          /\ UNCHANGED <<fd, open>>
       \/ /\ Listening
          /\ pc' = "write"
          /\ UNCHANGED <<chan, fd, open>>
    /\ UNCHANGED <<web, backlog, events, made, tmp, sfd, m_readfds, i, bus, raced>>

\* A second without anything to read.
CliNothing ==
    /\ pc = "cli" /\ ~FdReady
    /\ Back
    /\ UNCHANGED <<web, network, made, tmp, fd, sfd, m_readfds, i, open, bus, raced>>

\* SendNetDataToCom of what TCP_CLI or TCP_UDP has read: writen and writen_rs485
\* return when everything is written (or at once for an error), but first wait
\* for the line and for rs485_mutex.
Write ==
    /\ pc = "write" /\ bus = "free"
    /\ Back
    /\ UNCHANGED <<web, network, made, tmp, fd, sfd, m_readfds, i, open, bus, raced>>

\* TCP_SRV: select over the listening socket and the clients.
SrvSelect ==
    /\ pc = "srv"
    /\ m_readfds' = {f \in {fd} : FdReady} \cup {f \in Holding \cap Fds : chan[f] # "quiet"}
    /\ pc' = IF fd \in m_readfds' THEN "accept" ELSE "serve"
    /\ i' = 1
    /\ UNCHANGED <<web, network, made, tmp, fd, sfd, open, raced, bus>>

\* The first slot that is 0.
FirstFree(n) == sfd[n] = 0 /\ \A m \in Slots : sfd[m] = 0 => n <= m

Full == \A n \in Slots : sfd[n] # 0

SrvAccept ==
    /\ pc = "accept" /\ Listening
    /\ backlog' = backlog - 1
    /\ \E f \in Fds \ open, n \in Slots :
         /\ FirstFree(n)
         /\ sfd' = [sfd EXCEPT ![n] = f]
         /\ open' = open \cup {f}
         /\ chan' = [chan EXCEPT ![f] = "quiet"]
    /\ pc' = "serve"
    /\ UNCHANGED <<web, events, made, tmp, fd, m_readfds, i, raced, bus>>

\* No free slot: the client is closed again.
SrvAcceptFull ==
    /\ pc = "accept" /\ Listening /\ Full
    /\ backlog' = backlog - 1
    /\ pc' = "serve"
    /\ UNCHANGED <<web, chan, events, made, tmp, fd, sfd, m_readfds, i, open, raced, bus>>

\* accept returns -1, always when the socket is not a listening one, and the
\* first free slot keeps it.
SrvAcceptFails ==
    /\ pc = "accept"
    /\ backlog' = IF Listening THEN backlog - 1 ELSE backlog
    /\ \/ \E n \in Slots : FirstFree(n) /\ sfd' = [sfd EXCEPT ![n] = -1]
       \/ Full /\ UNCHANGED sfd
    /\ pc' = "serve"
    /\ UNCHANGED <<web, chan, events, made, tmp, fd, m_readfds, i, open, raced, bus>>

NextClient == IF i = MAX_SESSION THEN pc' = "loop" /\ i' = 1
                                 ELSE pc' = "serve" /\ i' = i + 1

SrvSkip ==
    /\ pc = "serve" /\ sfd[i] \notin m_readfds
    /\ NextClient
    /\ UNCHANGED <<web, network, made, tmp, fd, sfd, m_readfds, open, bus, raced>>

\* Mutant: the slot of a client that has gone is not cleared.
SrvRecv_KeepSlot ==
    /\ pc = "serve" /\ sfd[i] \in m_readfds /\ sfd[i] \in Fds
    /\ \/ /\ chan[sfd[i]] = "end"
          /\ open' = open \ {sfd[i]}
          /\ NextClient
          /\ UNCHANGED chan
       \/ /\ chan[sfd[i]] # "end"
          /\ AfterRecv(sfd[i])
          /\ pc' = "swrite"
          /\ UNCHANGED <<i, open>>
    /\ UNCHANGED <<web, backlog, events, made, tmp, fd, sfd, m_readfds, bus, raced>>

\* A client that has gone is closed; anything else goes on to SendNetDataToCom.
SrvRecv ==
    /\ pc = "serve" /\ sfd[i] \in m_readfds /\ sfd[i] \in Fds
    /\ \/ /\ chan[sfd[i]] = "end"
          /\ open' = open \ {sfd[i]}
          /\ sfd' = [sfd EXCEPT ![i] = 0]
          /\ NextClient
          /\ UNCHANGED chan
       \/ /\ chan[sfd[i]] # "end"
          /\ AfterRecv(sfd[i])
          /\ pc' = "swrite"
          /\ UNCHANGED <<i, open, sfd>>
    /\ UNCHANGED <<web, backlog, events, made, tmp, fd, m_readfds, bus, raced>>

\* The same write, for a client of the server; then it is the next one's turn.
SrvWrite ==
    /\ pc = "swrite" /\ bus = "free"
    /\ NextClient
    /\ UNCHANGED <<web, network, made, tmp, fd, sfd, m_readfds, open, bus, raced>>

\* TCP_UDP: a datagram goes on to SendNetDataToCom; recvfrom on another kind of
\* socket takes what there is, and the write is called for its error too.
Udp ==
    /\ pc = "udp"
    /\ pc' = IF FdReady THEN "write" ELSE "loop"
    /\ IF FdReady /\ ~Listening THEN AfterRecv(fd) ELSE UNCHANGED chan
    /\ UNCHANGED <<web, backlog, events, made, tmp, fd, sfd, m_readfds, i, open, bus, raced>>

ModeProc ==
    \/ Choose \/ ReadTarget \/ MakeOk \/ MakeFails \/ UdpBindFails \/ Copy
    \/ Teardown \/ Current \/ Switch \/ CliRecv \/ CliNothing
    \/ Write \/ SrvSelect \/ SrvAccept \/ SrvAcceptFull \/ SrvAcceptFails \/ SrvSkip
    \/ SrvRecv \/ SrvWrite \/ Udp

-----------------------------------------------------------------------------
(* The web thread, ITS_CONF_SET: memcpy copies the mode and the protocol before *)
(* the addresses.                                                               *)

Racing == raced' = IF pc \in {"args", "make", "copy"} THEN "yes" ELSE raced

WebCopyProtocol ==
    /\ wpc = "idle" /\ sets < MaxSets /\ sets' = sets + 1
    /\ \E s \in Sessions, m \in {"WORK_NO", "WORK_SOCKET"} :
         /\ conf' = s /\ mode' = m
         /\ session' = [session EXCEPT !.protocol = s.protocol]
    /\ wpc' = "copy"
    /\ Racing
    /\ UNCHANGED <<network, pc, made, tmp, fd, sfd, m_readfds, i, open, bus>>

WebCopyRest ==
    /\ wpc = "copy"
    /\ session' = conf
    /\ wpc' = "idle"
    /\ Racing
    /\ UNCHANGED <<network, mode, conf, sets, pc, made, tmp, fd, sfd, m_readfds, i, open, bus>>

-----------------------------------------------------------------------------
(* The serial port: com_proc has rs485_mutex and waits for a peer that does not *)
(* read, or the line does not take what is written; and it is over again.       *)

BusStuck ==
    /\ bus = "free" /\ bus' = "stuck"
    /\ UNCHANGED <<web, network, pc, made, tmp, fd, sfd, m_readfds, i, open, raced>>

BusFreed ==
    /\ bus = "stuck" /\ bus' = "free"
    /\ UNCHANGED <<web, network, pc, made, tmp, fd, sfd, m_readfds, i, open, raced>>

-----------------------------------------------------------------------------
(* The network *)

Event == events < MaxEvents /\ events' = events + 1

ClientConnects ==
    /\ Event /\ fd \in open /\ Listening
    /\ backlog' = backlog + 1
    /\ UNCHANGED <<web, chan, pc, made, tmp, fd, sfd, m_readfds, i, open, raced, bus>>

\* Something arrives at a connection, or at the UDP socket, which never ends.
Arrives(f) ==
    /\ Event /\ f \in open /\ chan[f] = "quiet"
    /\ ~(f = fd /\ Listening)
    /\ \E c \in (IF f = fd /\ made.protocol = "TCP_UDP" THEN {"data"}
                                                       ELSE {"data", "error", "end"}) :
         chan' = [chan EXCEPT ![f] = c]
    /\ UNCHANGED <<web, backlog, pc, made, tmp, fd, sfd, m_readfds, i, open, raced, bus>>

Next ==
    \/ ModeProc \/ WebCopyProtocol \/ WebCopyRest \/ BusStuck \/ BusFreed
    \/ ClientConnects \/ \E f \in Fds : Arrives(f)

Spec == Init /\ [][Next]_vars

\* The thread runs, connect gives up in the end, and the web thread finishes
\* its memcpy; nobody owes a change or a message.  Nothing is assumed of the
\* serial port: Write and SrvWrite are disabled while it is stuck, and it may be
\* for good.
FairSpec == Spec /\ WF_vars(ModeProc) /\ WF_vars(WebCopyRest)

-----------------------------------------------------------------------------
(* Properties *)

\* Every variable of mode_proc stays in its range, the loop index included.
TypeOK ==
    /\ session \in Sessions /\ conf \in Sessions /\ tmp \in Sessions
    /\ made \in [protocol : Protocols, target : Targets \cup {Unbound}]
    /\ mode \in {"WORK_NO", "WORK_SOCKET"}
    /\ wpc \in {"idle", "copy"}
    /\ pc \in {"again", "args", "make", "copy", "loop", "switch", "cli", "srv", "udp", "accept",
              "serve", "write", "swrite"}
    /\ fd \in Fds \cup {0, -1}
    /\ sfd \in [Slots -> Fds \cup {0, -1}]
    /\ m_readfds \subseteq Fds
    /\ i \in Slots
    /\ open \subseteq Fds
    /\ backlog \in Nat
    /\ chan \in [Fds -> {"quiet", "data", "error", "end"}]
    /\ bus \in {"free", "stuck"} /\ raced \in {"yes", "no"}
    /\ sets \in Nat /\ events \in Nat

\* The thread loses no socket and keeps no closed one, through every change of
\* its configuration: what is open is its own socket and one client per slot.
SocketsOwned ==
    /\ open = ({fd} \cup Holding) \cap Fds
    /\ \A n \in Slots : sfd[n] \in Fds =>
          sfd[n] # fd /\ \A m \in Slots : sfd[m] = sfd[n] => m = n

\* When the thread starts over, nothing of the last session is open.
CleanStart == pc \in {"again", "args", "make"} => open = {}

\* While the thread serves, its socket is the one its copy of the configuration
\* describes, unless the configuration changed while the socket was being made.
SocketMatchesCopy ==
    pc \notin {"again", "args", "make", "copy"} /\ raced = "no" =>
        made.protocol = tmp.protocol /\ made.target \in {tmp.target, Unbound}

\* The inductive invariant.  Only a listening session has clients, the thread
\* serves only an open socket, accept finds a client, and until its copy is taken what it has read of
\* the configuration is current unless raced says otherwise.
ServesOpen ==
    /\ pc \notin {"again", "args", "make"} => fd \in open
    /\ ~Listening => Holding \cap Fds = {}
    /\ pc = "accept" /\ Listening => backlog > 0

ReadCurrent ==
    raced = "no" =>
        /\ pc \in {"args", "make", "copy"} => made.protocol = session.protocol
        /\ pc \in {"make", "copy"} => made.target \in {session.target, Unbound}

\* Sockets, slots and copies of the configuration stay in step.
ModeInv == /\ TypeOK /\ SocketsOwned /\ CleanStart /\ SocketMatchesCopy
           /\ ServesOpen /\ ReadCurrent

\* The socket is not what the configuration asks for.
Outdated ==
    \/ mode = "WORK_NO"
    \/ made.protocol # session.protocol
    \/ made.target \notin {session.target, Unbound}

\* From some time on the thread can write to its serial port.  Without it mode.c's
\* loop never turns again: a thread that waits in writen_rs485 sees neither a
\* change nor an end.
CanWrite == bus = "free"

\* A change of the configuration reaches the socket (mode.c compares with its
\* copy in every turn of its loop), unless it came while the socket was made.
ChangeFollowed ==
    <>[]CanWrite =>
        (fd \in open /\ wpc = "idle" /\ Outdated)
            ~> (fd \notin open \/ ~Outdated \/ raced = "yes")

\* A connection whose other end has gone is closed, and its slot is free again.
EndsAreClosed ==
    <>[]CanWrite =>
        \A f \in Fds :
            (f \in open /\ chan[f] = "end")
                ~> (f \notin open \/ chan[f] # "end" \/ raced = "yes")
=============================================================================
