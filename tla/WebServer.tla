------------------------------ MODULE WebServer ------------------------------
(***************************************************************************)
(* web_net.c: the TCP server that the CGI programs of the web interface    *)
(* talk to.  main's loop runs web_process, one pass after another: select  *)
(* over the listening socket and the connected slots of g_client_conn, at  *)
(* most one accept, then web_svr_proc for every ready slot.  There is one  *)
(* thread and every receive and send inside a pass waits for its client,   *)
(* up to TIMEOUT_CNT, so the clients interleave with every step of it.     *)
(*                                                                         *)
(* Bytes are counted, not kept: what a command does to the configuration   *)
(* is in ConfigStore.  A command is told apart by what it makes the server *)
(* do with the connection: nothing, an answer, an answer with data, or a   *)
(* body to receive before the answer.                                      *)
(***************************************************************************)
EXTENDS Integers, FiniteSets

CONSTANTS
    MAX_TCP_CONN,      \* slots of g_client_conn
    TIMEOUT_CNT,       \* empty selects until a client is given up
    Head, Body, Data,  \* bytes of a header, of a setter's body, of a data packet
    Listen,            \* g_listen_conn
    Fds,               \* descriptors accept may return
    MaxConns, MaxBytes \* bounds on connections and bytes of the clients

ASSUME SizesAssumption ==
    /\ MAX_TCP_CONN \in Nat \ {0} /\ TIMEOUT_CNT \in Nat \ {0}
    /\ Head \in Nat \ {0} /\ Body \in Nat \ {0} /\ Data \in Nat \ {0}
    /\ MaxConns \in Nat /\ MaxBytes \in Nat

ASSUME FdsAssumption ==
    Listen \in Nat \ {0} /\ Fds \subseteq Nat \ {0} /\ Listen \notin Fds

Slots == 0 .. MAX_TCP_CONN - 1

VARIABLES
    client_conn,  \* the descriptor in each slot, -1 when free
    m_max_i, m_max_sock,
    m_readfds,    \* what select reported in this pass
    pc,           \* where the server is
    i,            \* the slot the serving loop is at
    left,         \* total_length: bytes still to receive or send
    waited,       \* empty selects since ms_cnt1 was taken
    open,         \* descriptors accept returned and close has not taken back
    backlog,      \* connections waiting to be accepted
    inbox,        \* bytes that have arrived on a descriptor
    peer,         \* the other end of a descriptor
    conns, bytes  \* how much the clients have done

server  == <<client_conn, m_max_i, m_max_sock, m_readfds, pc, i, left, waited, open>>
network == <<backlog, inbox, peer, conns, bytes>>
vars    == <<server, network>>

Init ==
    /\ client_conn = [s \in Slots |-> -1]
    /\ m_max_i = 0 /\ m_max_sock = -1
    /\ m_readfds = {}
    /\ pc = "start" /\ i = 0 /\ left = 0 /\ waited = 0
    /\ open = {}
    /\ backlog = 0
    /\ inbox = [fd \in Fds |-> 0]
    /\ peer = [fd \in Fds |-> "none"]
    /\ conns = 0 /\ bytes = 0

\* A read on the descriptor would not block.
Ready(fd) == inbox[fd] > 0 \/ peer[fd] \in {"fin", "rst", "err"}

Cur == client_conn[i]

-----------------------------------------------------------------------------
(* web_svr_start *)

\* The loop around bind sleeps until the port is free.
Start ==
    /\ pc = "start" /\ pc' = "select"
    /\ m_max_sock' = Listen
    /\ UNCHANGED <<client_conn, m_max_i, m_readfds, i, left, waited, open, network>>

\* socket, setsockopt or listen fails: m_max_sock stays -1, and the select of
\* web_process watches nothing.
StartFails ==
    /\ pc = "start" /\ pc' = "select"
    /\ UNCHANGED <<client_conn, m_max_i, m_max_sock, m_readfds, i, left, waited, open, network>>

-----------------------------------------------------------------------------
(* web_process *)

Connected == {s \in Slots : client_conn[s] # -1}

\* What select(m_max_sock + 1, ...) would report.
Reported ==
    {fd \in {client_conn[s] : s \in Connected} : fd <= m_max_sock /\ Ready(fd)}
      \cup {fd \in {Listen} : fd <= m_max_sock /\ backlog > 0}

\* Mutant: the set is not cleared before it is filled again.
Select_NoZero ==
    /\ pc = "select" /\ Reported # {}
    /\ m_readfds' = m_readfds \cup Reported
    /\ pc' = IF Listen \in m_readfds' THEN "accept" ELSE "serve"
    /\ i' = 0
    /\ UNCHANGED <<client_conn, m_max_i, m_max_sock, left, waited, open, network>>

Select ==
    /\ pc = "select" /\ Reported # {}
    /\ m_readfds' = Reported
    /\ pc' = IF Listen \in m_readfds' THEN "accept" ELSE "serve"
    /\ i' = 0
    /\ UNCHANGED <<client_conn, m_max_i, m_max_sock, left, waited, open, network>>

\* select fails, a signal apart: every client is closed.
SelectFails ==
    /\ pc = "select"
    /\ client_conn' = [s \in Slots |-> -1]
    /\ open' = open \ {client_conn[s] : s \in Connected}
    /\ UNCHANGED <<m_max_i, m_max_sock, m_readfds, pc, i, left, waited, network>>

Free == Slots \ Connected

FirstFree(s) == s \in Free /\ \A u \in Free : s <= u

Bigger(a, b) == IF a > b THEN a ELSE b

Arrived(fd) ==
    /\ backlog' = backlog - 1
    /\ inbox' = [inbox EXCEPT ![fd] = 0]
    /\ peer' = [peer EXCEPT ![fd] = "up"]
    /\ UNCHANGED <<conns, bytes>>

\* Mutant: m_max_i counts slots by their number before this one.
Accept_LowMax(fd) ==
    /\ pc = "accept" /\ fd \in Fds \ open
    /\ \E s \in Slots :
         /\ FirstFree(s)
         /\ client_conn' = [client_conn EXCEPT ![s] = fd]
         /\ m_max_i' = Bigger(m_max_i, s - 1)
    /\ m_max_sock' = Bigger(m_max_sock, fd)
    /\ open' = open \cup {fd}
    /\ Arrived(fd)
    /\ pc' = "serve"
    /\ UNCHANGED <<m_readfds, i, left, waited>>

\* The first free slot takes the new connection.
Accept(fd) ==
    /\ pc = "accept" /\ fd \in Fds \ open
    /\ \E s \in Slots :
         /\ FirstFree(s)
         /\ client_conn' = [client_conn EXCEPT ![s] = fd]
         /\ m_max_i' = Bigger(m_max_i, s)
    /\ m_max_sock' = Bigger(m_max_sock, fd)
    /\ open' = open \cup {fd}
    /\ Arrived(fd)
    /\ pc' = "serve"
    /\ UNCHANGED <<m_readfds, i, left, waited>>

\* Mutant: a connection for which there is no slot is not closed.
AcceptFull_Leak ==
    /\ pc = "accept" /\ Free = {}
    /\ \E fd \in Fds \ open : open' = open \cup {fd} /\ Arrived(fd)
    /\ pc' = "serve"
    /\ UNCHANGED <<client_conn, m_max_i, m_max_sock, m_readfds, i, left, waited>>

\* No free slot: the connection is closed at once.
AcceptFull ==
    /\ pc = "accept" /\ Free = {}
    /\ backlog' = backlog - 1
    /\ pc' = "serve"
    /\ UNCHANGED <<client_conn, m_max_i, m_max_sock, m_readfds, i, left, waited, open,
                   inbox, peer, conns, bytes>>

\* accept returns -1: the client has gone.
AcceptFails ==
    /\ pc = "accept"
    /\ backlog' = backlog - 1
    /\ pc' = "serve"
    /\ UNCHANGED <<client_conn, m_max_i, m_max_sock, m_readfds, i, left, waited, open,
                   inbox, peer, conns, bytes>>

NextSlot == pc' = "serve" /\ i' = i + 1

Skip ==
    /\ pc = "serve" /\ i <= m_max_i
    /\ Cur \notin m_readfds
    /\ NextSlot
    /\ UNCHANGED <<client_conn, m_max_i, m_max_sock, m_readfds, left, waited, open, network>>

\* web_svr_proc asks for a header.
ServeSlot ==
    /\ pc = "serve" /\ i <= m_max_i
    /\ Cur # -1 /\ Cur \in m_readfds
    /\ pc' = "head" /\ left' = Head /\ waited' = 0
    /\ UNCHANGED <<client_conn, m_max_i, m_max_sock, m_readfds, i, open, network>>

PassDone ==
    /\ pc = "serve" /\ i > m_max_i
    /\ pc' = "select"
    /\ UNCHANGED <<client_conn, m_max_i, m_max_sock, m_readfds, i, left, waited, open, network>>

-----------------------------------------------------------------------------
(* web_conn_recv and web_cmd_proc *)

net_conn_close ==
    /\ open' = open \ {Cur}
    /\ client_conn' = [client_conn EXCEPT ![i] = -1]

\* Where a receive that failed leads: web_svr_proc gives up, a setter answers
\* all the same.
Failed ==
    \/ pc = "head" /\ NextSlot /\ UNCHANGED <<left, waited>>
    \/ pc = "body" /\ pc' = "ack" /\ left' = Head /\ waited' = 0 /\ UNCHANGED i

\* Where a whole packet leads: the commands of web_cmd_proc, or the answer.
Received ==
    \/ /\ pc = "head" /\ waited' = 0
       /\ \/ NextSlot /\ left' = 0
          \/ pc' \in {"ack", "reply"} /\ left' = Head /\ UNCHANGED i
          \/ pc' = "body" /\ left' = Body /\ UNCHANGED i
    \/ pc = "body" /\ pc' = "ack" /\ left' = Head /\ waited' = 0 /\ UNCHANGED i

Receiving == pc \in {"head", "body"}

\* recv takes what has arrived, as much as is wanted of it, and the clock starts
\* again.  (The clock is read twice in a row after a partial read, so that the
\* timeout of that branch never comes.)
RecvBytes ==
    LET n == IF inbox[Cur] < left THEN inbox[Cur] ELSE left IN
    /\ Receiving /\ inbox[Cur] > 0
    /\ inbox' = [inbox EXCEPT ![Cur] = @ - n]
    /\ \/ n = left /\ Received
       \/ n < left /\ left' = left - n /\ waited' = 0 /\ UNCHANGED <<pc, i>>
    /\ UNCHANGED <<client_conn, m_max_i, m_max_sock, m_readfds, open, backlog, peer, conns, bytes>>

\* Mutant: a client that stays silent in the middle of a header is waited for.
RecvEmpty_NoTimeout ==
    /\ Receiving /\ ~Ready(Cur)
    /\ waited' = (waited + 1) % TIMEOUT_CNT
    /\ UNCHANGED <<client_conn, m_max_i, m_max_sock, m_readfds, pc, i, left, open, network>>

\* select found nothing to read.
RecvEmpty ==
    /\ Receiving /\ ~Ready(Cur)
    /\ \/ /\ waited + 1 >= TIMEOUT_CNT
          /\ net_conn_close /\ Failed
       \/ /\ waited + 1 < TIMEOUT_CNT
          /\ waited' = waited + 1
          /\ UNCHANGED <<client_conn, pc, i, left, open>>
    /\ UNCHANGED <<m_max_i, m_max_sock, m_readfds, network>>

\* Mutant: a connection the client has closed is kept.
RecvGone_Kept ==
    /\ Receiving /\ inbox[Cur] = 0 /\ peer[Cur] \in {"fin", "rst"}
    /\ Failed
    /\ UNCHANGED <<client_conn, open, m_max_i, m_max_sock, m_readfds, network>>

\* recv returns 0 or ECONNRESET.
RecvGone ==
    /\ Receiving /\ inbox[Cur] = 0 /\ peer[Cur] \in {"fin", "rst"}
    /\ net_conn_close /\ Failed
    /\ UNCHANGED <<m_max_i, m_max_sock, m_readfds, network>>

\* recv returns another error, once: the connection is kept, and the end of the
\* stream is what the next recv finds.
RecvError ==
    /\ Receiving /\ inbox[Cur] = 0 /\ peer[Cur] = "err"
    /\ peer' = [peer EXCEPT ![Cur] = "fin"]
    /\ Failed
    /\ UNCHANGED <<client_conn, m_max_i, m_max_sock, m_readfds, open, backlog, inbox, conns, bytes>>

\* select fails, a signal apart.
RecvSelectFails ==
    /\ Receiving
    /\ net_conn_close /\ Failed
    /\ UNCHANGED <<m_max_i, m_max_sock, m_readfds, network>>

-----------------------------------------------------------------------------
(* net_conn_send and net_conn_send_pkt *)

Sending == pc \in {"ack", "reply", "data"}

\* The header of an answer with data is followed by the data, whatever became
\* of the header.
Sent ==
    \/ pc = "reply" /\ pc' = "data" /\ left' = Data /\ waited' = 0 /\ UNCHANGED i
    \/ pc # "reply" /\ NextSlot /\ left' = 0 /\ UNCHANGED waited

\* The connection has been closed on the way.
SendClosed ==
    /\ Sending /\ Cur = -1
    /\ Sent
    /\ UNCHANGED <<client_conn, m_max_i, m_max_sock, m_readfds, open, network>>

\* send takes some of it; the clock is not started again.
SendBytes ==
    /\ Sending /\ Cur # -1
    /\ \E n \in 1 .. left :
         \/ n = left /\ Sent /\ UNCHANGED <<client_conn, open>>
         \/ n < left /\ waited >= TIMEOUT_CNT /\ net_conn_close /\ Sent
         \/ /\ n < left /\ waited < TIMEOUT_CNT
            /\ left' = left - n
            /\ UNCHANGED <<client_conn, open, pc, i, waited>>
    /\ UNCHANGED <<m_max_i, m_max_sock, m_readfds, network>>

\* The client takes nothing.
SendWait ==
    /\ Sending /\ Cur # -1
    /\ \/ waited + 1 >= TIMEOUT_CNT /\ net_conn_close /\ Sent
       \/ /\ waited + 1 < TIMEOUT_CNT
          /\ waited' = waited + 1
          /\ UNCHANGED <<client_conn, open, pc, i, left>>
    /\ UNCHANGED <<m_max_i, m_max_sock, m_readfds, network>>

\* send or select fails.
SendError ==
    /\ Sending /\ Cur # -1
    /\ net_conn_close /\ Sent
    /\ UNCHANGED <<m_max_i, m_max_sock, m_readfds, network>>

-----------------------------------------------------------------------------
(* The CGI programs *)

Connect ==
    /\ m_max_sock # -1 /\ conns < MaxConns
    /\ conns' = conns + 1 /\ backlog' = backlog + 1
    /\ UNCHANGED <<server, inbox, peer, bytes>>

ClientSend(fd) ==
    /\ fd \in open /\ peer[fd] = "up" /\ bytes < MaxBytes
    /\ bytes' = bytes + 1
    /\ inbox' = [inbox EXCEPT ![fd] = @ + 1]
    /\ UNCHANGED <<server, backlog, peer, conns>>

\* It closes, it is killed, or its host is lost.
ClientEnds(fd) ==
    /\ fd \in open /\ peer[fd] = "up"
    /\ \E end \in {"fin", "rst", "err"} : peer' = [peer EXCEPT ![fd] = end]
    /\ UNCHANGED <<server, backlog, inbox, conns, bytes>>

-----------------------------------------------------------------------------

Pass ==
    \/ AcceptFull \/ AcceptFails \/ (\E fd \in Fds : Accept(fd))
    \/ Skip \/ ServeSlot \/ PassDone
    \/ RecvBytes \/ RecvEmpty \/ RecvGone \/ RecvError \/ RecvSelectFails
    \/ SendClosed \/ SendBytes \/ SendWait \/ SendError

Clients == Connect \/ \E fd \in Fds : ClientSend(fd) \/ ClientEnds(fd)

Next == Start \/ StartFails \/ Select \/ SelectFails \/ Pass \/ Clients

Spec == Init /\ [][Next]_vars

\* The server's thread runs: a pass goes on, and a select that has something to
\* report returns.  The clients owe nothing.
FairSpec == Spec /\ WF_vars(Pass) /\ WF_vars(Select)

-----------------------------------------------------------------------------
(* Properties *)

\* The table, the indices and the descriptor sets stay in their ranges.
TypeOK ==
    /\ client_conn \in [Slots -> Fds \cup {-1}]
    /\ m_max_i \in Slots
    /\ m_max_sock \in Fds \cup {-1, Listen}
    /\ m_readfds \subseteq Fds \cup {Listen}
    /\ pc \in {"start", "select", "accept", "serve", "head", "body", "ack", "reply", "data"}
    /\ i \in 0 .. MAX_TCP_CONN
    /\ left \in Nat /\ waited \in Nat
    /\ open \subseteq Fds
    /\ backlog \in Nat
    /\ inbox \in [Fds -> Nat]
    /\ peer \in [Fds -> {"none", "up", "fin", "rst", "err"}]
    /\ conns \in Nat /\ bytes \in Nat

\* g_client_conn accounts for every connection: a descriptor that is open is in
\* one slot, and a slot never holds one that has been closed, whichever of the
\* many closing paths the clients lead the server through.
ConnsOwned ==
    /\ open = {client_conn[s] : s \in Connected}
    /\ \A s, u \in Connected : client_conn[s] = client_conn[u] => s = u

\* m_max_i and m_max_sock, which only ever grow, reach every connection: no
\* client is left out of select or of the serving loop.
AllWatched ==
    \A s \in Connected : s <= m_max_i /\ client_conn[s] <= m_max_sock

\* The server never waits for a client that has not begun a request: m_readfds,
\* filled before the accept and before the slots ahead were served, still tells
\* the truth when a slot's turn comes.
NoWaitForIdle == pc = "head" /\ left = Head /\ Cur # -1 => Ready(Cur)

\* The inductive invariant.  ReadyKept is what makes NoWaitForIdle stay true:
\* what select reported stays readable until its own slot has been served, and
\* accept never returns a descriptor that select has reported.
BusyWithSlot ==
    /\ pc = "start" => Connected = {}
    /\ pc = "accept" => backlog > 0
    /\ pc \in {"head", "body", "ack", "reply", "data"} => i \in Slots
    /\ pc \in {"head", "body"} => Cur # -1
    /\ pc = "head" => left \in 1 .. Head

ReadyKept ==
    /\ pc = "accept" => i = 0 /\ m_readfds \subseteq open \cup {Listen}
    /\ pc = "accept" =>
          \A s \in Connected : client_conn[s] \in m_readfds => Ready(client_conn[s])
    /\ pc \in {"serve", "head", "body", "ack", "reply", "data"} =>
          \A s \in Connected :
             client_conn[s] \in m_readfds /\ (s > i \/ (s = i /\ pc = "serve"))
                => Ready(client_conn[s])

\* The connection table, the marks and what select reported stay in step.
WebInv == TypeOK /\ ConnsOwned /\ AllWatched /\ BusyWithSlot /\ ReadyKept /\ NoWaitForIdle

\* Nobody is starved: what a client has sent is read, or its connection closed.
\* Clients send so much only, so one formula says it of all of them, as below.
BytesRead == []<>(\A fd \in open : inbox[fd] = 0)

\* A client that has gone gives its slot back.
GoneIsFreed == []<>(\A fd \in open : peer[fd] = "up")

\* A connection is taken from the backlog even while other clients misbehave.
BacklogServed == backlog > 0 ~> backlog = 0
=============================================================================
