--------------------------- MODULE WebServerProofs ---------------------------
(***************************************************************************)
(* WebInv is inductive, for any number of slots, any descriptors, packet   *)
(* sizes and timeout, and with it what it contains.                        *)
(***************************************************************************)
EXTENDS WebServer, TLAPS

USE SizesAssumption, FdsAssumption

LEMMA FdsAreInts == \A fd \in Fds : fd \in Nat /\ fd \in Int
  OBVIOUS

Busy == {"head", "body", "ack", "reply", "data"}

\* The steps a pass takes while it serves a slot.
Serving ==
    \/ RecvBytes \/ RecvEmpty \/ RecvGone \/ RecvError \/ RecvSelectFails
    \/ SendClosed \/ SendBytes \/ SendWait \/ SendError

\* What such a step does: the table is left alone or loses the slot's
\* connection, only that connection's input changes, and the loop stays at the
\* slot or goes on to the next.
LEMMA ServingSteps ==
    ASSUME WebInv, Serving
    PROVE  /\ pc \in Busy /\ i \in Slots
           /\ \/ UNCHANGED <<client_conn, open>>
              \/ Cur # -1 /\ net_conn_close
           /\ UNCHANGED <<m_max_i, m_max_sock, m_readfds, backlog, conns, bytes>>
           /\ \/ UNCHANGED <<inbox, peer>>
              \/ /\ Cur # -1
                 /\ inbox' \in [Fds -> Nat]
                 /\ peer' \in [Fds -> {"none", "up", "fin", "rst", "err"}]
                 /\ \A fd \in Fds \ {Cur} : inbox'[fd] = inbox[fd] /\ peer'[fd] = peer[fd]
           /\ \/ pc' \in Busy /\ i' = i
              \/ pc' = "serve" /\ i' = i + 1
           /\ left' \in Nat /\ waited' \in Nat
           /\ pc' = "head" => left' \in 1 .. Head - 1 \/ (left' = left /\ ~Ready(Cur))
           /\ pc' \in {"head", "body"} => UNCHANGED client_conn /\ Cur # -1
<1>a. TypeOK /\ BusyWithSlot  BY DEF WebInv
<1>b. left \in Nat /\ waited \in Nat /\ inbox \in [Fds -> Nat]
      /\ peer \in [Fds -> {"none", "up", "fin", "rst", "err"}]
      /\ client_conn \in [Slots -> Fds \cup {-1}]
  BY <1>a DEF TypeOK
<1> USE DEF Busy, network
<1>0. pc \in Busy => i \in Slots  BY <1>a DEF BusyWithSlot
<1>f. Receiving /\ Failed =>
        /\ pc' \in {"ack", "serve"} /\ left' \in Nat /\ waited' \in Nat
        /\ \/ pc' = "ack" /\ i' = i
           \/ pc' = "serve" /\ i' = i + 1
  BY <1>b DEF Failed, NextSlot, Receiving
<1>s. Sending /\ Sent =>
        /\ pc' \in {"data", "serve"} /\ left' \in Nat /\ waited' \in Nat
        /\ \/ pc' = "data" /\ i' = i
           \/ pc' = "serve" /\ i' = i + 1
  BY <1>b DEF Sent, NextSlot, Sending
<1>c. Receiving => pc \in {"head", "body"} /\ Cur # -1 /\ Cur \in Fds /\ i \in Slots
  BY <1>a, <1>b, <1>0 DEF Receiving, BusyWithSlot, Cur
<1>d. Sending => pc \in {"ack", "reply", "data"} /\ i \in Slots
  BY <1>0 DEF Sending
<1>1. CASE RecvBytes
  <2> DEFINE n == IF inbox[Cur] < left THEN inbox[Cur] ELSE left
  <2>1. Receiving /\ inbox[Cur] > 0  BY <1>1 DEF RecvBytes
  <2>0. inbox[Cur] \in Nat  BY <1>b, <1>c, <2>1
  <2>2. inbox[Cur] \in Nat /\ n \in Nat /\ n <= inbox[Cur]  BY <1>b, <2>0
  <2>3. inbox' = [inbox EXCEPT ![Cur] = @ - n]  BY <1>1 DEF RecvBytes
  <2>4. inbox' \in [Fds -> Nat] /\ \A fd \in Fds \ {Cur} : inbox'[fd] = inbox[fd]
    BY <1>b, <1>c, <2>1, <2>2, <2>3
  <2>5. CASE n = left /\ Received
    <3>1. left' \in Nat /\ waited' \in Nat  BY <2>5 DEF Received
    <3>2. pc' \in {"serve", "ack", "reply", "body"}  BY <2>5 DEF Received, NextSlot
    <3>3. \/ pc' \in Busy /\ i' = i
          \/ pc' = "serve" /\ i' = i + 1
      BY <2>5 DEF Received, NextSlot
    <3> QED  BY <1>1, <1>b, <1>c, <2>1, <2>4, <3>1, <3>2, <3>3 DEF RecvBytes
  <2>6. CASE n < left /\ left' = left - n /\ waited' = 0 /\ UNCHANGED <<pc, i>>
    <3>1. n > 0 /\ left' \in Nat /\ left' < left  BY <1>b, <2>1, <2>2, <2>6
    <3>2. pc = "head" => left \in 1 .. Head  BY <1>a DEF BusyWithSlot
    <3>3. pc' = "head" => left' \in 1 .. Head - 1
      BY <1>b, <2>2, <2>6, <3>1, <3>2
    <3> QED  BY <1>1, <1>b, <1>c, <2>1, <2>4, <2>6, <3>1, <3>3 DEF RecvBytes
  <2> QED  BY <1>1, <2>5, <2>6 DEF RecvBytes
<1>2. CASE RecvEmpty
  <2>1. CASE net_conn_close /\ Failed
    BY <1>2, <2>1, <1>b, <1>c, <1>f DEF RecvEmpty
  <2>2. CASE waited' = waited + 1 /\ UNCHANGED <<client_conn, pc, i, left, open>>
    BY <1>2, <2>2, <1>b, <1>c DEF RecvEmpty
  <2> QED  BY <1>2, <2>1, <2>2 DEF RecvEmpty
<1>3. CASE RecvGone
  BY <1>3, <1>b, <1>c, <1>f DEF RecvGone
<1>4. CASE RecvError
  BY <1>4, <1>b, <1>c, <1>f DEF RecvError
<1>5. CASE RecvSelectFails
  BY <1>5, <1>b, <1>c, <1>f DEF RecvSelectFails
<1>6. CASE SendClosed
  BY <1>6, <1>b, <1>d, <1>s DEF SendClosed
<1>7. CASE SendBytes
  <2>1. PICK n \in 1 .. left :
         \/ n = left /\ Sent /\ UNCHANGED <<client_conn, open>>
         \/ n < left /\ waited >= TIMEOUT_CNT /\ net_conn_close /\ Sent
         \/ /\ n < left /\ waited < TIMEOUT_CNT
            /\ left' = left - n
            /\ UNCHANGED <<client_conn, open, pc, i, waited>>
    BY <1>7 DEF SendBytes
  <2>2. CASE Sent /\ UNCHANGED <<client_conn, open>>
    BY <1>7, <2>2, <1>b, <1>d, <1>s DEF SendBytes
  <2>3. CASE net_conn_close /\ Sent
    BY <1>7, <2>3, <1>b, <1>d, <1>s DEF SendBytes
  <2>4. CASE n < left /\ left' = left - n /\ UNCHANGED <<client_conn, open, pc, i, waited>>
    <3>1. left' \in Nat  BY <1>b, <2>4
    <3> QED  BY <1>7, <2>4, <3>1, <1>b, <1>d DEF SendBytes
  <2> QED  BY <2>1, <2>2, <2>3, <2>4
<1>8. CASE SendWait
  <2>1. CASE net_conn_close /\ Sent
    BY <1>8, <2>1, <1>b, <1>d, <1>s DEF SendWait
  <2>2. CASE waited' = waited + 1 /\ UNCHANGED <<client_conn, open, pc, i, left>>
    BY <1>8, <2>2, <1>b, <1>d DEF SendWait
  <2> QED  BY <1>8, <2>1, <2>2 DEF SendWait
<1>9. CASE SendError
  BY <1>9, <1>b, <1>d, <1>s DEF SendError
<1> QED  BY <1>1, <1>2, <1>3, <1>4, <1>5, <1>6, <1>7, <1>8, <1>9 DEF Serving

LEMMA InitInv == Init => WebInv
  BY DEF Init, WebInv, TypeOK, ConnsOwned, AllWatched, BusyWithSlot, ReadyKept,
         NoWaitForIdle, Connected, Slots

LEMMA TypeStep == WebInv /\ [Next]_vars => TypeOK'
<1> SUFFICES ASSUME WebInv, [Next]_vars PROVE TypeOK'  OBVIOUS
<1>a. TypeOK /\ BusyWithSlot  BY DEF WebInv
<1> USE DEF TypeOK, network, server
<1>1. CASE Start \/ StartFails
  BY <1>1, <1>a DEF Start, StartFails
<1>2. CASE Select
  <2>1. Reported \subseteq Fds \cup {Listen}
    BY <1>a DEF Reported, Connected
  <2> QED  BY <1>2, <1>a, <2>1 DEF Select
<1>3. CASE SelectFails
  BY <1>3, <1>a DEF SelectFails
<1>4. CASE AcceptFull \/ AcceptFails
  <2>1. backlog' \in Nat  BY <1>4, <1>a DEF AcceptFull, AcceptFails, BusyWithSlot
  <2>2. CASE AcceptFull  BY <2>1, <2>2, <1>a DEF AcceptFull
  <2>3. CASE AcceptFails  BY <2>1, <2>3, <1>a DEF AcceptFails
  <2> QED  BY <1>4, <2>2, <2>3
<1>5. ASSUME NEW fd \in Fds, Accept(fd) PROVE TypeOK'
  <2>1. PICK s \in Slots :
          /\ client_conn' = [client_conn EXCEPT ![s] = fd]
          /\ m_max_i' = Bigger(m_max_i, s)
    BY <1>5 DEF Accept
  <2>2. m_max_i' \in Slots /\ m_max_sock' \in Fds \cup {-1, Listen}
    BY <1>5, <1>a, <2>1 DEF Accept, Bigger
  <2> QED  BY <1>5, <1>a, <2>1, <2>2 DEF Accept, Arrived, BusyWithSlot
<1>6. CASE Skip \/ ServeSlot \/ PassDone
  <2>1. CASE Skip
    <3>1. i' \in 0 .. MAX_TCP_CONN  BY <2>1, <1>a DEF Skip, NextSlot, Slots
    <3> QED  BY <2>1, <3>1, <1>a DEF Skip, NextSlot
  <2>2. CASE ServeSlot  BY <2>2, <1>a DEF ServeSlot
  <2>3. CASE PassDone  BY <2>3, <1>a DEF PassDone
  <2> QED  BY <1>6, <2>1, <2>2, <2>3
<1>7. CASE Serving
  <2>1. i' \in 0 .. MAX_TCP_CONN /\ left' \in Nat /\ waited' \in Nat
    BY <1>7, <1>a, ServingSteps DEF Slots
  <2>2. client_conn' \in [Slots -> Fds \cup {-1}] /\ open' \subseteq Fds
    BY <1>7, <1>a, ServingSteps DEF net_conn_close
  <2>3. pc' \in Busy \cup {"serve"}  BY <1>7, ServingSteps
  <2> QED  BY <1>7, <1>a, <2>1, <2>2, <2>3, ServingSteps DEF Busy
<1>8. CASE Clients
  <2>1. CASE Connect  BY <2>1, <1>a DEF Connect
  <2>2. ASSUME NEW fd \in Fds, ClientSend(fd) PROVE TypeOK'
    BY <2>2, <1>a DEF ClientSend
  <2>3. ASSUME NEW fd \in Fds, ClientEnds(fd) PROVE TypeOK'
    BY <2>3, <1>a DEF ClientEnds
  <2> QED  BY <1>8, <2>1, <2>2, <2>3 DEF Clients
<1>9. CASE UNCHANGED vars
  BY <1>9, <1>a DEF vars
<1> QED
  BY <1>1, <1>2, <1>3, <1>4, <1>5, <1>6, <1>7, <1>8, <1>9 DEF Next, Pass, Serving

\* Closing the connection of the slot that is being served.
LEMMA CloseTable ==
    ASSUME WebInv, i \in Slots, Cur # -1, net_conn_close, UNCHANGED <<m_max_i, m_max_sock>>
    PROVE  ConnsOwned' /\ AllWatched'
<1>1. /\ client_conn \in [Slots -> Fds \cup {-1}]
      /\ ConnsOwned /\ AllWatched
  BY DEF WebInv, TypeOK
<1>2. \A s \in Slots : client_conn'[s] = IF s = i THEN -1 ELSE client_conn[s]
  BY <1>1 DEF net_conn_close
<1>3. Connected' = Connected \ {i}
  BY <1>2 DEF Connected
<1>4. open' = {client_conn'[s] : s \in Connected'}
  <2>1. open' = open \ {client_conn[i]}  BY DEF net_conn_close, Cur
  <2>2. i \in Connected  BY DEF Connected, Cur
  <2> QED  BY <1>1, <1>2, <1>3, <2>1, <2>2 DEF ConnsOwned, Connected
<1>5. \A s, u \in Connected' : client_conn'[s] = client_conn'[u] => s = u
  BY <1>1, <1>2, <1>3 DEF ConnsOwned, Connected
<1>6. AllWatched'
  BY <1>1, <1>2, <1>3 DEF AllWatched, Connected
<1> QED  BY <1>4, <1>5, <1>6 DEF ConnsOwned

LEMMA TableStep == WebInv /\ [Next]_vars => ConnsOwned' /\ AllWatched'
<1> SUFFICES ASSUME WebInv, [Next]_vars PROVE ConnsOwned' /\ AllWatched'  OBVIOUS
<1>a. TypeOK /\ ConnsOwned /\ AllWatched  BY DEF WebInv
<1>b. client_conn \in [Slots -> Fds \cup {-1}] /\ m_max_i \in Slots
      /\ m_max_sock \in Fds \cup {-1, Listen}
  BY <1>a DEF TypeOK
<1>0. CASE UNCHANGED <<client_conn, m_max_i, m_max_sock, open>>
  BY <1>0, <1>a DEF ConnsOwned, AllWatched, Connected
<1>1. CASE Start
  <2>1. Connected = {}  BY <1>1 DEF Start, WebInv, BusyWithSlot
  <2>2. UNCHANGED <<client_conn, open>>  BY <1>1 DEF Start
  <2>3. Connected' = {}  BY <2>1, <2>2 DEF Connected
  <2> QED  BY <1>a, <2>1, <2>2, <2>3 DEF ConnsOwned, AllWatched
<1>3. CASE SelectFails
  <2>1. Connected' = {}  BY <1>3 DEF SelectFails, Connected
  <2>2. open' = {}  BY <1>3, <1>a DEF SelectFails, ConnsOwned
  <2> QED  BY <2>1, <2>2 DEF ConnsOwned, AllWatched
<1>5. ASSUME NEW fd \in Fds, Accept(fd) PROVE ConnsOwned' /\ AllWatched'
  <2>1. PICK s \in Slots :
          /\ FirstFree(s)
          /\ client_conn' = [client_conn EXCEPT ![s] = fd]
          /\ m_max_i' = Bigger(m_max_i, s)
    BY <1>5 DEF Accept
  <2>2. /\ m_max_sock' = Bigger(m_max_sock, fd)
        /\ open' = open \cup {fd} /\ fd \notin open
    BY <1>5 DEF Accept
  <2>3. s \notin Connected  BY <2>1 DEF FirstFree, Free
  <2>4. \A u \in Slots : client_conn'[u] = IF u = s THEN fd ELSE client_conn[u]
    BY <1>b, <2>1
  <2>5. Connected' = Connected \cup {s}
    BY <2>4 DEF Connected
  <2>6. open' = {client_conn'[u] : u \in Connected'}
    BY <1>a, <2>2, <2>3, <2>4, <2>5 DEF ConnsOwned, Connected
  <2>7. \A u \in Connected : client_conn[u] # fd
    BY <1>a, <2>2 DEF ConnsOwned
  <2>8. \A u, v \in Connected' : client_conn'[u] = client_conn'[v] => u = v
    BY <1>a, <2>3, <2>4, <2>5, <2>7 DEF ConnsOwned, Connected
  <2>9. ASSUME NEW u \in Connected' PROVE u <= m_max_i' /\ client_conn'[u] <= m_max_sock'
    <3>1. m_max_i' \in Int /\ m_max_i' >= m_max_i /\ m_max_i' >= s
      BY <1>b, <2>1 DEF Bigger, Slots
    <3>2. m_max_sock' \in Int /\ m_max_sock' >= m_max_sock /\ m_max_sock' >= fd
      BY <1>b, <2>2 DEF Bigger
    <3>3. CASE u = s  BY <2>4, <3>1, <3>2, <3>3 DEF Slots
    <3>4. CASE u # s
      <4>1. u \in Connected /\ client_conn'[u] = client_conn[u]
        BY <2>4, <2>5, <3>4 DEF Connected
      <4>a. u \in Slots  BY <4>1 DEF Connected
      <4>b. client_conn[u] \in Fds  BY <1>b, <4>1, <4>a DEF Connected
      <4>c. u \in Int /\ m_max_i \in Int  BY <1>b, <4>a DEF Slots
      <4>d. client_conn[u] \in Int  BY <4>b, FdsAreInts
      <4>e. m_max_sock \in Int  BY <1>b
      <4> QED  BY <1>a, <3>1, <3>2, <4>1, <4>c, <4>d, <4>e DEF AllWatched
    <3> QED  BY <3>3, <3>4
  <2> QED  BY <2>6, <2>8, <2>9 DEF ConnsOwned, AllWatched
<1>7. CASE Serving
  <2>1. CASE UNCHANGED <<client_conn, open>>
    BY <1>0, <1>7, <2>1, ServingSteps
  <2>2. CASE Cur # -1 /\ net_conn_close
    BY <1>7, <2>2, ServingSteps, CloseTable
  <2> QED  BY <1>7, <2>1, <2>2, ServingSteps
<1> QED
  BY <1>0, <1>1, <1>3, <1>5, <1>7
  DEF Next, Pass, Serving, vars, server, Clients, Connect, ClientSend, ClientEnds,
      StartFails, Select, AcceptFull, AcceptFails, Skip, ServeSlot, PassDone

LEMMA BusyStep == WebInv /\ [Next]_vars => BusyWithSlot'
<1> SUFFICES ASSUME WebInv, [Next]_vars PROVE BusyWithSlot'  OBVIOUS
<1>a. TypeOK /\ BusyWithSlot  BY DEF WebInv
<1> USE DEF BusyWithSlot
<1>1. CASE Start \/ StartFails
  BY <1>1 DEF Start, StartFails
<1>2. CASE Select
  <2>1. Listen \in Reported => backlog > 0
    <3>1. Listen \notin {client_conn[s] : s \in Connected}
      BY <1>a DEF TypeOK, Connected
    <3> QED  BY <3>1 DEF Reported
  <2> QED  BY <1>2, <2>1 DEF Select, network
<1>3. CASE SelectFails
  BY <1>3 DEF SelectFails
<1>4. CASE AcceptFull \/ AcceptFails \/ \E fd \in Fds : Accept(fd)
  BY <1>4 DEF AcceptFull, AcceptFails, Accept
<1>6. CASE Skip \/ PassDone
  BY <1>6 DEF Skip, PassDone, NextSlot
<1>5. CASE ServeSlot
  BY <1>5, <1>a DEF ServeSlot, TypeOK, Slots, Cur
<1>7. CASE Serving
  <2>1. pc \in Busy /\ i \in Slots /\ (pc' \in Busy => i' = i)
    BY <1>7, ServingSteps DEF Busy
  <2>2. pc' \in {"head", "body"} => Cur' # -1
    BY <1>7, <2>1, ServingSteps DEF Busy, Cur
  <2>3. pc' = "head" => left' \in 1 .. Head
    <3>1. pc' = "head" => pc = "head"
      BY <1>7 DEF Serving, RecvBytes, RecvEmpty, RecvGone, RecvError, RecvSelectFails,
                  SendClosed, SendBytes, SendWait, SendError, Receiving, Sending,
                  Failed, Received, Sent, NextSlot
    <3>2. pc' = "head" => left' \in 1 .. Head - 1 \/ left' = left
      BY <1>7, ServingSteps
    <3>3. 1 .. Head - 1 \subseteq 1 .. Head  OBVIOUS
    <3> QED  BY <1>a, <3>1, <3>2, <3>3
  <2>4. pc' \in Busy \cup {"serve"}  BY <1>7, ServingSteps
  <2> QED  BY <2>1, <2>2, <2>3, <2>4 DEF Busy
<1>8. CASE Clients
  <2>1. UNCHANGED server /\ backlog' >= backlog
    BY <1>8, <1>a DEF Clients, Connect, ClientSend, ClientEnds, TypeOK
  <2>2. UNCHANGED <<client_conn, pc, i, left>>  BY <2>1 DEF server
  <2>3. Connected' = Connected /\ Cur' = Cur  BY <2>2 DEF Connected, Cur
  <2>4. pc' = "accept" => backlog' > 0  BY <1>a, <2>1, <2>2, TypeStep DEF TypeOK
  <2> QED  BY <1>a, <2>2, <2>3, <2>4
<1>9. CASE UNCHANGED vars
  <2>1. UNCHANGED <<client_conn, pc, i, left, backlog>>  BY <1>9 DEF vars, server, network
  <2>2. Connected' = Connected /\ Cur' = Cur  BY <2>1 DEF Connected, Cur
  <2> QED  BY <1>a, <2>1, <2>2
<1> QED
  BY <1>1, <1>2, <1>3, <1>4, <1>5, <1>6, <1>7, <1>8, <1>9 DEF Next, Pass, Serving

\* Clients can only make a connection readable.
LEMMA ClientsKeepReady ==
    ASSUME TypeOK, Clients, NEW fd \in Fds, Ready(fd)
    PROVE  Ready(fd)'
<1> USE DEF Ready, TypeOK
<1>1. CASE Connect  BY <1>1 DEF Connect
<1>2. ASSUME NEW g \in Fds, ClientSend(g) PROVE Ready(fd)'
  BY <1>2 DEF ClientSend
<1>3. ASSUME NEW g \in Fds, ClientEnds(g) PROVE Ready(fd)'
  BY <1>3 DEF ClientEnds
<1> QED  BY <1>1, <1>2, <1>3 DEF Clients

LEMMA ReadyStep == WebInv /\ [Next]_vars => ReadyKept' /\ NoWaitForIdle'
<1> SUFFICES ASSUME WebInv, [Next]_vars PROVE ReadyKept' /\ NoWaitForIdle'  OBVIOUS
<1>a. TypeOK /\ ConnsOwned /\ BusyWithSlot /\ ReadyKept /\ NoWaitForIdle  BY DEF WebInv
<1>b. /\ client_conn \in [Slots -> Fds \cup {-1}]
      /\ i \in 0 .. MAX_TCP_CONN
      /\ \A s \in Connected : s \in Slots /\ client_conn[s] \in Fds
  BY <1>a DEF TypeOK, Connected
<1>1. CASE Start \/ StartFails
  BY <1>1 DEF Start, StartFails, ReadyKept, NoWaitForIdle
<1>2. CASE Select
  <2>1. /\ m_readfds' = Reported /\ i' = 0 /\ pc' \in {"accept", "serve"}
        /\ UNCHANGED <<client_conn, open, inbox, peer>>
    BY <1>2 DEF Select, network
  <2>2. Reported \subseteq open \cup {Listen}
    BY <1>a DEF Reported, ConnsOwned
  <2>3. \A s \in Connected : client_conn[s] \in Reported => Ready(client_conn[s])
    BY <1>b DEF Reported
  <2>4. Connected' = Connected  BY <2>1 DEF Connected
  <2>5. \A s \in Connected : Ready(client_conn[s]) => Ready(client_conn[s])'
    BY <2>1 DEF Ready
  <2> QED  BY <2>1, <2>2, <2>3, <2>4, <2>5 DEF ReadyKept, NoWaitForIdle
<1>3. CASE SelectFails
  BY <1>3 DEF SelectFails, ReadyKept, NoWaitForIdle
<1>4. CASE AcceptFull \/ AcceptFails
  <2>1. /\ pc = "accept" /\ pc' = "serve"
        /\ UNCHANGED <<client_conn, m_readfds, inbox, peer>>
    BY <1>4 DEF AcceptFull, AcceptFails
  <2>2. Connected' = Connected  BY <2>1 DEF Connected
  <2> QED  BY <1>a, <2>1, <2>2 DEF ReadyKept, NoWaitForIdle, Ready
<1>5. ASSUME NEW fd \in Fds, Accept(fd) PROVE ReadyKept' /\ NoWaitForIdle'
  <2>1. PICK s \in Slots : client_conn' = [client_conn EXCEPT ![s] = fd]
    BY <1>5 DEF Accept
  <2>2. /\ pc = "accept" /\ pc' = "serve" /\ fd \notin open
        /\ inbox' = [inbox EXCEPT ![fd] = 0] /\ peer' = [peer EXCEPT ![fd] = "up"]
        /\ m_readfds' = m_readfds
    BY <1>5 DEF Accept, Arrived
  <2>3. fd \notin m_readfds  BY <1>a, <2>2 DEF ReadyKept
  <2>4. ASSUME NEW u \in Connected', client_conn'[u] \in m_readfds
        PROVE  Ready(client_conn[u])' /\ client_conn'[u] = client_conn[u]
    <3>1. u \in Slots /\ u # s  BY <1>b, <2>1, <2>3, <2>4 DEF Connected
    <3>2. client_conn'[u] = client_conn[u]  BY <1>b, <2>1, <3>1
    <3>3. u \in Connected  BY <2>4, <3>1, <3>2 DEF Connected
    <3>4. client_conn[u] \in Fds \ {fd} /\ Ready(client_conn[u])
      BY <1>a, <1>b, <2>2, <2>3, <2>4, <3>2, <3>3 DEF ReadyKept
    <3>5. inbox'[client_conn[u]] = inbox[client_conn[u]]
          /\ peer'[client_conn[u]] = peer[client_conn[u]]
      BY <1>a, <2>2, <3>4 DEF TypeOK
    <3> QED  BY <3>2, <3>4, <3>5 DEF Ready
  <2> QED  BY <2>2, <2>4 DEF ReadyKept, NoWaitForIdle
<1>6. CASE Skip
  <2>1. /\ pc = "serve" /\ pc' = "serve" /\ i' = i + 1
        /\ UNCHANGED <<client_conn, m_readfds, inbox, peer>>
    BY <1>6 DEF Skip, NextSlot, network
  <2>2. Connected' = Connected  BY <2>1 DEF Connected
  <2>3. \A s \in Connected : s > i' \/ s = i' => s > i
    BY <1>b, <2>1 DEF Slots
  <2> QED  BY <1>a, <2>1, <2>2, <2>3 DEF ReadyKept, NoWaitForIdle, Ready
<1>10. CASE ServeSlot
  <2>1. /\ pc = "serve" /\ pc' = "head" /\ i' = i /\ Cur # -1 /\ Cur \in m_readfds
        /\ i \in Slots
        /\ UNCHANGED <<client_conn, m_readfds, inbox, peer>>
    BY <1>10, <1>a DEF ServeSlot, network, TypeOK, Slots
  <2>2. Connected' = Connected  BY <2>1 DEF Connected
  <2>3. Ready(Cur)
    BY <1>a, <2>1 DEF ReadyKept, Connected, Cur
  <2>4. NoWaitForIdle'  BY <2>1, <2>3 DEF NoWaitForIdle, Ready, Cur
  <2>5. ReadyKept'  BY <1>a, <2>1, <2>2 DEF ReadyKept, Ready
  <2> QED  BY <2>4, <2>5
<1>11. CASE PassDone
  BY <1>11 DEF PassDone, ReadyKept, NoWaitForIdle
<1>7. CASE Serving
  <2>1. /\ pc \in Busy /\ i \in Slots /\ m_readfds' = m_readfds
        /\ \/ pc' \in Busy /\ i' = i
           \/ pc' = "serve" /\ i' = i + 1
    BY <1>7, ServingSteps
  <2>2. \A s \in Slots \ {i} : client_conn'[s] = client_conn[s]
    BY <1>7, <1>b, ServingSteps DEF net_conn_close
  <2>3. ASSUME NEW s \in Connected', client_conn'[s] \in m_readfds',
               s > i' \/ (s = i' /\ pc' = "serve")
        PROVE  Ready(client_conn[s])'
    <3>1. s \in Slots /\ s > i
      BY <1>b, <2>1, <2>3 DEF Connected, Slots, Busy
    <3>0. s # i  BY <1>b, <3>1 DEF Slots
    <3>2. client_conn'[s] = client_conn[s] /\ s \in Connected
      BY <2>2, <2>3, <3>0, <3>1 DEF Connected
    <3>3. Ready(client_conn[s])
      BY <1>a, <2>1, <2>3, <3>1, <3>2 DEF ReadyKept, Busy
    <3>4. client_conn[s] \in Fds \ {Cur}
      BY <1>a, <1>b, <2>1, <3>1, <3>2 DEF ConnsOwned, Connected, Cur
    <3>5. inbox'[client_conn[s]] = inbox[client_conn[s]]
          /\ peer'[client_conn[s]] = peer[client_conn[s]]
      BY <1>7, <3>4, ServingSteps
    <3> QED  BY <3>2, <3>3, <3>5 DEF Ready
  <2>4. NoWaitForIdle'
    <3> SUFFICES ASSUME pc' = "head", left' = Head, Cur' # -1 PROVE Ready(Cur)'
      BY DEF NoWaitForIdle
    <3>1. left' = left /\ ~Ready(Cur) /\ Cur # -1
      BY <1>7, ServingSteps
    <3>2. pc = "head"
      BY <1>7 DEF Serving, RecvBytes, RecvEmpty, RecvGone, RecvError, RecvSelectFails,
                  SendClosed, SendBytes, SendWait, SendError, Receiving, Sending,
                  Failed, Received, Sent, NextSlot
    <3> QED  BY <1>a, <3>1, <3>2 DEF NoWaitForIdle
  <2>5. pc' # "accept"  BY <2>1 DEF Busy
  <2> QED  BY <2>3, <2>4, <2>5 DEF ReadyKept
<1>8. CASE Clients
  <2>1. UNCHANGED server
    BY <1>8 DEF Clients, Connect, ClientSend, ClientEnds
  <2>2. Connected' = Connected  BY <2>1 DEF Connected, server
  <2>3. \A s \in Connected : Ready(client_conn[s]) => Ready(client_conn[s])'
    <3> SUFFICES ASSUME NEW s \in Connected, Ready(client_conn[s])
                 PROVE  Ready(client_conn[s])'
      OBVIOUS
    <3>1. client_conn[s] \in Fds /\ client_conn'[s] = client_conn[s]
      BY <1>b, <2>1 DEF server
    <3> DEFINE fd == client_conn[s]
    <3>2. inbox'[fd] > 0 \/ peer'[fd] \in {"fin", "rst", "err"}
      BY <1>8, <1>a, <3>1, ClientsKeepReady DEF Ready
    <3> QED  BY <3>1, <3>2 DEF Ready
  <2>4. ReadyKept'
    BY <1>a, <2>1, <2>2, <2>3 DEF ReadyKept, server
  <2>5. NoWaitForIdle'
    <3> SUFFICES ASSUME pc' = "head", left' = Head, Cur' # -1 PROVE Ready(Cur)'
      BY DEF NoWaitForIdle
    <3>1. pc = "head" /\ left = Head /\ Cur # -1 /\ Cur' = Cur
      BY <2>1 DEF server, Cur
    <3>2. i \in Connected /\ Ready(client_conn[i])
      BY <1>a, <3>1 DEF BusyWithSlot, NoWaitForIdle, Connected, Cur
    <3> QED  BY <2>1, <2>3, <3>1, <3>2 DEF Cur, Ready, server
  <2> QED  BY <2>4, <2>5
<1>9. CASE UNCHANGED vars
  BY <1>9, <1>a DEF vars, server, network, ReadyKept, NoWaitForIdle, Ready, Connected, Cur
<1> QED
  BY <1>1, <1>2, <1>3, <1>4, <1>5, <1>6, <1>7, <1>8, <1>9, <1>10, <1>11
  DEF Next, Pass, Serving

\* The inductive invariant of the server: see WebInv.
THEOREM WebInvariant == Spec => []WebInv
<1>1. WebInv /\ [Next]_vars => WebInv'
  BY TypeStep, TableStep, BusyStep, ReadyStep DEF WebInv
<1> QED  BY InitInv, <1>1, PTL DEF Spec

\* No connection is lost from g_client_conn and none is there twice or after
\* its close, for any number of slots.
THEOREM NoConnectionLeak == Spec => []ConnsOwned
<1>1. WebInv => ConnsOwned  BY DEF WebInv
<1> QED  BY WebInvariant, <1>1, PTL

\* m_max_i and m_max_sock reach every connection.
THEOREM EveryClientWatched == Spec => []AllWatched
<1>1. WebInv => AllWatched  BY DEF WebInv
<1> QED  BY WebInvariant, <1>1, PTL

\* The server's one thread never waits for a client that has sent nothing.
THEOREM IdleClientsHarmless == Spec => []NoWaitForIdle
<1>1. WebInv => NoWaitForIdle  BY DEF WebInv
<1> QED  BY WebInvariant, <1>1, PTL
=============================================================================
