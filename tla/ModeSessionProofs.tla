-------------------------- MODULE ModeSessionProofs --------------------------
(***************************************************************************)
(* What TLAPS proves of ModeSession, for any number of client slots,       *)
(* descriptors and addresses and any number of configuration changes: no   *)
(* socket is lost, none survives the session it was made for, and the      *)
(* socket is the one the copy describes unless the change came in between. *)
(***************************************************************************)
EXTENDS ModeSession, TLAPS

USE SessionAssumption

\* 0 and -1 are not descriptors.
LEMMA NotFds == 0 \notin Fds /\ -1 \notin Fds
  OBVIOUS

LEMMA InitInv == Init => ModeInv
<1> SUFFICES ASSUME Init PROVE ModeInv  OBVIOUS
<1>1. TypeOK
  BY DEF Init, TypeOK, Sessions, Protocols, Slots
<1>2. Holding \cap Fds = {}
  BY NotFds DEF Init, Holding
<1>3. SocketsOwned
  BY <1>2, NotFds DEF Init, SocketsOwned, Slots
<1> QED
  BY <1>1, <1>2, <1>3
  DEF Init, ModeInv, CleanStart, SocketMatchesCopy, ServesOpen, ReadCurrent

LEMMA NextClientType ==
    ASSUME TypeOK, NextClient
    PROVE  i' \in Slots /\ pc' \in {"loop", "serve"}
  BY DEF TypeOK, NextClient, Slots

\* Types.
LEMMA TypeStep == ModeInv /\ [Next]_vars => TypeOK'
<1> SUFFICES ASSUME ModeInv, [Next]_vars PROVE TypeOK'  OBVIOUS
<1>a. TypeOK  BY DEF ModeInv
<1>1. CASE Choose
  BY <1>a, <1>1 DEF Choose, TypeOK, web, network, Sessions
<1>2. CASE ReadTarget
  BY <1>a, <1>2 DEF ReadTarget, TypeOK, web, network, Sessions
<1>3. CASE MakeOk
  BY <1>a, <1>3 DEF MakeOk, TypeOK, web
<1>4. CASE MakeFails
  BY <1>a, <1>4 DEF MakeFails, TypeOK, web, network
<1>5. CASE UdpBindFails
  BY <1>a, <1>5 DEF UdpBindFails, TypeOK, web
<1>6. CASE Copy
  BY <1>a, <1>6 DEF Copy, TypeOK, web, network
<1>7. CASE Teardown
  BY <1>a, <1>7 DEF Teardown, TypeOK, web, network
<1>8. CASE Current
  BY <1>a, <1>8 DEF Current, TypeOK, web, network
<1>9. CASE Switch
  BY <1>a, <1>9 DEF Switch, TypeOK, web, network
<1>10. CASE CliRecv
  <2>1. fd \in Fds  BY <1>10 DEF CliRecv, ModeInv, ServesOpen, TypeOK
  <2>2. chan' \in [Fds -> {"quiet", "data", "error", "end"}]
    BY <1>a, <1>10 DEF CliRecv, AfterRecv, TypeOK
  <2>3. open' \subseteq Fds /\ fd' \in Fds \cup {0, -1} /\ pc' \in {"again", "write"}
    BY <1>a, <1>10 DEF CliRecv, TypeOK
  <2> QED  BY <1>a, <1>10, <2>2, <2>3 DEF CliRecv, TypeOK, web
<1>10a. CASE Write
  BY <1>a, <1>10a DEF Write, Back, TypeOK, web, network
<1>11. CASE CliNothing
  BY <1>a, <1>11 DEF CliNothing, Back, TypeOK, web, network
<1>12. CASE SrvSelect
  <2>1. fd \in Fds  BY <1>12 DEF SrvSelect, ModeInv, ServesOpen, TypeOK
  <2>2. m_readfds' \subseteq Fds  BY <1>12, <2>1 DEF SrvSelect
  <2>3. i' \in Slots  BY <1>12 DEF SrvSelect, Slots
  <2> QED  BY <1>a, <1>12, <2>2, <2>3 DEF SrvSelect, TypeOK, web, network
<1>13. CASE SrvAccept
  <2>1. backlog' \in Nat  BY <1>a, <1>13 DEF SrvAccept, ModeInv, ServesOpen, TypeOK
  <2>2. sfd' \in [Slots -> Fds \cup {0, -1}] /\ open' \subseteq Fds
        /\ chan' \in [Fds -> {"quiet", "data", "error", "end"}]
    BY <1>a, <1>13 DEF SrvAccept, TypeOK
  <2> QED  BY <1>a, <1>13, <2>1, <2>2 DEF SrvAccept, TypeOK, web
<1>13a. CASE SrvAcceptFull
  <2>1. backlog' \in Nat  BY <1>a, <1>13a DEF SrvAcceptFull, ModeInv, ServesOpen, TypeOK
  <2> QED  BY <1>a, <1>13a, <2>1 DEF SrvAcceptFull, TypeOK, web
<1>14. CASE SrvAcceptFails
  <2>1. backlog' \in Nat  BY <1>a, <1>14 DEF SrvAcceptFails, ModeInv, ServesOpen, TypeOK
  <2>2. sfd' \in [Slots -> Fds \cup {0, -1}]  BY <1>a, <1>14 DEF SrvAcceptFails, TypeOK
  <2> QED  BY <1>a, <1>14, <2>1, <2>2 DEF SrvAcceptFails, TypeOK, web
<1>15. CASE SrvSkip
  BY <1>a, <1>15, NextClientType DEF SrvSkip, TypeOK, web, network
<1>16. CASE SrvRecv
  <2>1. chan' \in [Fds -> {"quiet", "data", "error", "end"}]
    BY <1>a, <1>16 DEF SrvRecv, AfterRecv, TypeOK
  <2>2. sfd' \in [Slots -> Fds \cup {0, -1}] /\ open' \subseteq Fds
    BY <1>a, <1>16 DEF SrvRecv, TypeOK
  <2>3. i' \in Slots /\ pc' \in {"loop", "serve", "swrite"}
    BY <1>a, <1>16, NextClientType DEF SrvRecv, TypeOK
  <2> QED  BY <1>a, <1>16, <2>1, <2>2, <2>3 DEF SrvRecv, TypeOK, web
<1>16a. CASE SrvWrite
  BY <1>a, <1>16a, NextClientType DEF SrvWrite, TypeOK, web, network
<1>17. CASE Udp
  <2>1. chan' \in [Fds -> {"quiet", "data", "error", "end"}]
    BY <1>a, <1>17 DEF Udp, AfterRecv, TypeOK
  <2> QED  BY <1>a, <1>17, <2>1 DEF Udp, TypeOK, web
<1>18. CASE WebCopyProtocol
  <2>1. session' \in Sessions /\ conf' \in Sessions /\ mode' \in {"WORK_NO", "WORK_SOCKET"}
    BY <1>a, <1>18 DEF WebCopyProtocol, TypeOK, Sessions
  <2> QED  BY <1>a, <1>18, <2>1 DEF WebCopyProtocol, Racing, TypeOK, network
<1>19. CASE WebCopyRest
  BY <1>a, <1>19 DEF WebCopyRest, Racing, TypeOK, network
<1>20. CASE ClientConnects
  BY <1>a, <1>20 DEF ClientConnects, Event, TypeOK, web
<1>20a. CASE BusStuck \/ BusFreed
  BY <1>a, <1>20a DEF BusStuck, BusFreed, TypeOK, web, network
<1>21. ASSUME NEW f \in Fds, Arrives(f) PROVE TypeOK'
  BY <1>a, <1>21 DEF Arrives, Event, TypeOK, web
<1>22. CASE UNCHANGED vars
  BY <1>a, <1>22 DEF vars, web, network, TypeOK
<1> QED
  BY <1>1, <1>2, <1>3, <1>4, <1>5, <1>6, <1>7, <1>8, <1>9, <1>10, <1>10a, <1>11, <1>12, <1>13,
     <1>13a, <1>14, <1>15, <1>16, <1>16a, <1>17, <1>18, <1>19, <1>20, <1>20a, <1>21, <1>22
  DEF Next, ModeProc

\* Steps that leave the sockets, the slots and the backlog where they are, and
\* stay among the places where the thread has a socket or has none.
Idle ==
    /\ UNCHANGED <<fd, sfd, open>>
    /\ (pc \in {"again", "args", "make"}) <=> (pc' \in {"again", "args", "make"})
    /\ made'.protocol = made.protocol \/ open = {}
    /\ pc' = "accept" /\ Listening' => backlog' > 0

LEMMA IdleKeeps ==
    ASSUME ModeInv, Idle
    PROVE  SocketsOwned' /\ CleanStart' /\ ServesOpen'
<1>1. Holding' = Holding  BY DEF Idle, Holding
<1>2. SocketsOwned'  BY <1>1 DEF Idle, ModeInv, SocketsOwned
<1>3. CleanStart'  BY DEF Idle, ModeInv, CleanStart
<1>4. ~Listening' => Holding' \cap Fds = {}
  <2>1. CASE made'.protocol = made.protocol
    BY <1>1, <2>1 DEF ModeInv, ServesOpen, Listening
  <2>2. CASE open = {}
    BY <1>1, <2>2 DEF ModeInv, SocketsOwned
  <2> QED  BY <2>1, <2>2 DEF Idle
<1>5. pc' \notin {"again", "args", "make"} => fd' \in open'
  BY DEF Idle, ModeInv, ServesOpen
<1> QED  BY <1>2, <1>3, <1>4, <1>5 DEF ServesOpen, Idle

\* The sockets.
LEMMA SocketsStep ==
    ModeInv /\ [Next]_vars => SocketsOwned' /\ CleanStart' /\ ServesOpen'
<1> SUFFICES ASSUME ModeInv, [Next]_vars
             PROVE  SocketsOwned' /\ CleanStart' /\ ServesOpen'
  OBVIOUS
<1>a. /\ TypeOK /\ SocketsOwned /\ CleanStart /\ ServesOpen
      /\ sfd \in [Slots -> Fds \cup {0, -1}]
  BY DEF ModeInv, TypeOK
<1>m. ASSUME NEW f \in Fds, pc = "make", pc' = "copy", fd' = f, open' = open \cup {f},
             sfd' = sfd, made'.protocol = made.protocol
      PROVE  SocketsOwned' /\ CleanStart' /\ ServesOpen'
  <2>1. open = {} /\ Holding \cap Fds = {}
    BY <1>a, <1>m DEF CleanStart, SocketsOwned
  <2>2. Holding' = Holding /\ open' = {f}  BY <1>m, <2>1 DEF Holding
  <2>3. \A n \in Slots : sfd'[n] \notin Fds  BY <1>m, <2>1 DEF Holding
  <2>4. SocketsOwned'  BY <1>m, <2>1, <2>2, <2>3 DEF SocketsOwned
  <2> QED  BY <1>m, <2>1, <2>2, <2>4 DEF CleanStart, ServesOpen
<1>3. CASE MakeOk
  BY <1>3, <1>m DEF MakeOk
<1>4. CASE MakeFails
  <2>1. open = {} /\ Holding \cap Fds = {}
    BY <1>a, <1>4 DEF MakeFails, CleanStart, SocketsOwned
  <2>2. Holding' = Holding /\ open' = {} /\ fd' = -1  BY <1>4, <2>1 DEF MakeFails, Holding
  <2>3. \A n \in Slots : sfd'[n] \notin Fds  BY <1>4, <2>1 DEF MakeFails, Holding
  <2>4. SocketsOwned'  BY <2>1, <2>2, <2>3, NotFds DEF SocketsOwned
  <2> QED  BY <1>4, <2>1, <2>2, <2>4 DEF MakeFails, CleanStart, ServesOpen
<1>5. CASE UdpBindFails
  <2>1. made'.protocol = made.protocol  BY <1>a, <1>5 DEF UdpBindFails, TypeOK
  <2> QED  BY <1>5, <2>1, <1>m DEF UdpBindFails
<1>7. CASE Teardown
  <2>1. open' = {}  BY <1>a, <1>7 DEF Teardown, SocketsOwned
  <2>2. \A n \in Slots : sfd'[n] = 0  BY <1>7 DEF Teardown
  <2>3. Holding' \cap Fds = {}  BY <2>2, NotFds DEF Holding
  <2>4. SocketsOwned'
    BY <1>7, <2>1, <2>2, <2>3, NotFds DEF Teardown, SocketsOwned
  <2> QED  BY <1>7, <2>1, <2>3, <2>4 DEF Teardown, CleanStart, ServesOpen
<1>10. CASE CliRecv
  <2>1. CASE chan[fd] # "end" \/ Listening
    <3>1. Idle  BY <1>10, <2>1 DEF CliRecv, Idle
    <3> QED  BY <3>1, IdleKeeps
  <2>2. CASE chan[fd] = "end" /\ ~Listening
    <3>1. Holding \cap Fds = {}  BY <1>a, <2>2 DEF ServesOpen
    <3>2. open' = {} /\ fd' = 0 /\ Holding' = Holding /\ pc' = "again" /\ sfd' = sfd
      BY <1>a, <1>10, <2>2, <3>1 DEF CliRecv, SocketsOwned, Holding
    <3>3. \A n \in Slots : sfd'[n] \notin Fds  BY <3>1, <3>2 DEF Holding
    <3>4. SocketsOwned'  BY <3>1, <3>2, <3>3, NotFds DEF SocketsOwned
    <3> QED  BY <3>1, <3>2, <3>4 DEF CleanStart, ServesOpen
  <2> QED  BY <2>1, <2>2
<1>12. CASE SrvSelect
  <2>1. fd \in open /\ fd \in Fds  BY <1>a, <1>12 DEF SrvSelect, ServesOpen, TypeOK
  <2>2. fd \notin Holding  BY <1>a, <2>1 DEF SocketsOwned, Holding
  <2>3. pc' = "accept" => FdReady
    BY <1>12, <2>2 DEF SrvSelect
  <2>4. Idle  BY <1>12, <2>3 DEF SrvSelect, Idle, FdReady, Listening, network
  <2> QED  BY <2>4, IdleKeeps
<1>13. CASE SrvAccept
  <2>1. PICK f \in Fds \ open, n \in Slots :
           /\ sfd[n] = 0
           /\ sfd' = [sfd EXCEPT ![n] = f]
           /\ open' = open \cup {f}
    BY <1>13 DEF SrvAccept, FirstFree
  <2>2. pc = "accept" /\ pc' = "serve" /\ made' = made /\ fd' = fd /\ Listening
    BY <1>13 DEF SrvAccept
  <2>3. \A m \in Slots : sfd'[m] = IF m = n THEN f ELSE sfd[m]  BY <1>a, <2>1
  <2>4. fd \in open /\ fd # f  BY <1>a, <2>1, <2>2 DEF ServesOpen
  <2>5. Holding' \cap Fds = (Holding \cap Fds) \cup {f}
    BY <2>1, <2>3, NotFds DEF Holding
  <2>6. open' = ({fd'} \cup Holding') \cap Fds
    BY <1>a, <2>1, <2>2, <2>5 DEF SocketsOwned
  <2>7. \A m \in Slots : sfd[m] # f
    BY <1>a, <2>1 DEF SocketsOwned, Holding
  <2>8. \A m \in Slots : sfd'[m] \in Fds =>
           sfd'[m] # fd' /\ \A l \in Slots : sfd'[l] = sfd'[m] => l = m
    BY <1>a, <2>2, <2>3, <2>4, <2>7 DEF SocketsOwned
  <2>9. SocketsOwned'  BY <2>6, <2>8 DEF SocketsOwned
  <2> QED  BY <2>1, <2>2, <2>4, <2>9 DEF CleanStart, ServesOpen, Listening
<1>14. CASE SrvAcceptFails
  <2>1. /\ pc = "accept" /\ pc' = "serve" /\ made' = made /\ fd' = fd /\ open' = open
        /\ \/ sfd' = sfd
           \/ \E n \in Slots : sfd[n] = 0 /\ sfd' = [sfd EXCEPT ![n] = -1]
    BY <1>14 DEF SrvAcceptFails, FirstFree
  <2>2. CASE sfd' = sfd
    <3>1. Idle  BY <2>1, <2>2 DEF Idle
    <3> QED  BY <3>1, IdleKeeps
  <2>3. CASE \E n \in Slots : sfd[n] = 0 /\ sfd' = [sfd EXCEPT ![n] = -1]
    <3>1. PICK n \in Slots : sfd[n] = 0 /\ sfd' = [sfd EXCEPT ![n] = -1]  BY <2>3
    <3>2. \A m \in Slots : sfd'[m] = IF m = n THEN -1 ELSE sfd[m]  BY <1>a, <3>1
    <3>3. Holding' \cap Fds = Holding \cap Fds  BY <3>1, <3>2, NotFds DEF Holding
    <3>4. \A m \in Slots : sfd'[m] \in Fds => m # n /\ sfd'[m] = sfd[m]
      BY <3>2, NotFds
    <3>5. \A m, l \in Slots : sfd'[m] \in Fds /\ sfd'[l] = sfd'[m] => sfd[l] = sfd[m]
      BY <3>4
    <3>6. SocketsOwned'
      BY <1>a, <2>1, <3>3, <3>4, <3>5 DEF SocketsOwned
    <3> QED  BY <1>a, <2>1, <3>3, <3>6 DEF CleanStart, ServesOpen, Listening
  <2> QED  BY <2>1, <2>2, <2>3
<1>16. CASE SrvRecv
  <2>1. /\ pc = "serve" /\ sfd[i] \in Fds /\ i \in Slots /\ made' = made /\ fd' = fd
        /\ pc' \in {"loop", "serve", "swrite"}
        /\ \/ UNCHANGED <<sfd, open>>
           \/ open' = open \ {sfd[i]} /\ sfd' = [sfd EXCEPT ![i] = 0]
    BY <1>a, <1>16, NextClientType DEF SrvRecv, TypeOK
  <2>2. CASE UNCHANGED <<sfd, open>>
    <3>1. Idle  BY <2>1, <2>2 DEF Idle
    <3> QED  BY <3>1, IdleKeeps
  <2>3. CASE open' = open \ {sfd[i]} /\ sfd' = [sfd EXCEPT ![i] = 0]
    <3>1. \A m \in Slots : sfd'[m] = IF m = i THEN 0 ELSE sfd[m]  BY <1>a, <2>3
    <3>2. \A m \in Slots : m # i => sfd[m] # sfd[i]  BY <1>a, <2>1 DEF SocketsOwned
    <3>3. Holding' \cap Fds = (Holding \cap Fds) \ {sfd[i]}
      BY <2>1, <3>1, <3>2, NotFds DEF Holding
    <3>4. fd # sfd[i]  BY <1>a, <2>1 DEF SocketsOwned
    <3>5. open' = ({fd'} \cup Holding') \cap Fds
      BY <1>a, <2>1, <2>3, <3>3, <3>4 DEF SocketsOwned
    <3>6. \A m \in Slots : sfd'[m] \in Fds => m # i /\ sfd'[m] = sfd[m]
      BY <3>1, NotFds
    <3>7. \A m, l \in Slots : sfd'[m] \in Fds /\ sfd'[l] = sfd'[m] => sfd[l] = sfd[m]
      BY <3>6
    <3>8. SocketsOwned'
      BY <1>a, <2>1, <3>5, <3>6, <3>7 DEF SocketsOwned
    <3> QED  BY <1>a, <2>1, <2>3, <3>3, <3>4, <3>8 DEF CleanStart, ServesOpen, Listening
  <2> QED  BY <2>1, <2>2, <2>3
<1>20. CASE ClientConnects
  <2>1. Idle
    BY <1>a, <1>20 DEF ClientConnects, Idle, TypeOK
  <2> QED  BY <2>1, IdleKeeps
<1>21. CASE Choose
  <2>1. open = {}  BY <1>a, <1>21 DEF Choose, CleanStart
  <2>2. Idle  BY <1>21, <2>1 DEF Choose, Idle
  <2> QED  BY <2>2, IdleKeeps
<1>22. CASE ReadTarget
  <2>1. made'.protocol = made.protocol  BY <1>a, <1>22 DEF ReadTarget, TypeOK
  <2>2. Idle  BY <1>22, <2>1 DEF ReadTarget, Idle
  <2> QED  BY <2>2, IdleKeeps
<1>23. CASE Copy
  <2>1. Idle  BY <1>23 DEF Copy, Idle
  <2> QED  BY <2>1, IdleKeeps
<1>24. CASE Current \/ CliNothing \/ Write \/ Udp \/ SrvAcceptFull
  <2>1. Idle  BY <1>24 DEF Current, CliNothing, Write, Udp, SrvAcceptFull, Back, Idle
  <2> QED  BY <2>1, IdleKeeps
<1>25. CASE Switch
  <2>1. Idle  BY <1>25 DEF Switch, Idle
  <2> QED  BY <2>1, IdleKeeps
<1>26. CASE SrvSkip \/ SrvWrite
  <2>1. Idle  BY <1>a, <1>26, NextClientType DEF SrvSkip, SrvWrite, Idle
  <2> QED  BY <2>1, IdleKeeps
<1>27. CASE WebCopyProtocol \/ WebCopyRest \/ BusStuck \/ BusFreed \/ \E f \in Fds : Arrives(f)
  <2>1. UNCHANGED <<fd, sfd, open, pc, made, backlog>>
    BY <1>27 DEF WebCopyProtocol, WebCopyRest, BusStuck, BusFreed, Arrives, network
  <2>2. Idle  BY <1>a, <2>1 DEF Idle, ServesOpen, Listening
  <2> QED  BY <2>2, IdleKeeps
<1>28. CASE UNCHANGED vars
  <2>1. UNCHANGED <<fd, sfd, open, pc, made, backlog>>  BY <1>28 DEF vars, network
  <2>2. Idle  BY <1>a, <2>1 DEF Idle, ServesOpen, Listening
  <2> QED  BY <2>2, IdleKeeps
<1> QED
  BY <1>3, <1>4, <1>5, <1>7, <1>10, <1>12, <1>13, <1>14, <1>16, <1>20, <1>21, <1>22,
     <1>23, <1>24, <1>25, <1>26, <1>27, <1>28
  DEF Next, ModeProc

\* The copies of the configuration.
LEMMA CopiesStep == ModeInv /\ [Next]_vars => ReadCurrent' /\ SocketMatchesCopy'
<1> SUFFICES ASSUME ModeInv, [Next]_vars PROVE ReadCurrent' /\ SocketMatchesCopy'
  OBVIOUS
<1>a. /\ TypeOK /\ ReadCurrent /\ SocketMatchesCopy
      /\ made \in [protocol : Protocols, target : Targets \cup {Unbound}]
  BY DEF ModeInv, TypeOK
<1>1. CASE Choose
  <2>1. made'.protocol = session'.protocol /\ pc' = "args"
    BY <1>a, <1>1 DEF Choose, web
  <2> QED  BY <2>1 DEF ReadCurrent, SocketMatchesCopy
<1>2. CASE ReadTarget
  <2>1. /\ made'.protocol = made.protocol /\ made'.target = session'.target
        /\ pc = "args" /\ pc' = "make" /\ raced' = raced /\ session' = session
    BY <1>a, <1>2 DEF ReadTarget, web
  <2> QED  BY <1>a, <2>1 DEF ReadCurrent, SocketMatchesCopy
<1>3. CASE MakeOk \/ MakeFails
  BY <1>a, <1>3 DEF MakeOk, MakeFails, web, ReadCurrent, SocketMatchesCopy
<1>4. CASE UdpBindFails
  <2>1. /\ made'.protocol = made.protocol /\ made'.target = Unbound
        /\ pc = "make" /\ pc' = "copy" /\ raced' = raced /\ session' = session
    BY <1>a, <1>4 DEF UdpBindFails, web
  <2> QED  BY <1>a, <2>1 DEF ReadCurrent, SocketMatchesCopy
<1>5. CASE Copy
  BY <1>a, <1>5 DEF Copy, web, ReadCurrent, SocketMatchesCopy
<1>6. CASE Teardown \/ Current \/ Switch \/ CliRecv \/ CliNothing \/ Write \/ Udp
  <2>1. /\ pc \in {"loop", "switch", "cli", "udp", "write"}
        /\ pc' \in {"again", "loop", "switch", "cli", "srv", "udp", "write"}
        /\ UNCHANGED <<made, tmp, raced>>
    BY <1>6 DEF Teardown, Current, Switch, CliRecv, CliNothing, Write, Udp, Back
  <2> QED  BY <1>a, <2>1 DEF ReadCurrent, SocketMatchesCopy
<1>7. CASE \/ SrvSelect \/ SrvAccept \/ SrvAcceptFull \/ SrvAcceptFails \/ SrvSkip
           \/ SrvRecv \/ SrvWrite
  <2>1. /\ pc \in {"srv", "accept", "serve", "swrite"}
        /\ pc' \in {"accept", "serve", "swrite", "loop"}
        /\ UNCHANGED <<made, tmp, raced>>
    BY <1>a, <1>7, NextClientType
    DEF SrvSelect, SrvAccept, SrvAcceptFull, SrvAcceptFails, SrvSkip, SrvRecv, SrvWrite
  <2> QED  BY <1>a, <2>1 DEF ReadCurrent, SocketMatchesCopy
<1>8. CASE WebCopyProtocol \/ WebCopyRest
  <2>1. Racing /\ UNCHANGED <<pc, made, tmp>>
    BY <1>8 DEF WebCopyProtocol, WebCopyRest
  <2> QED  BY <1>a, <2>1 DEF Racing, ReadCurrent, SocketMatchesCopy
<1>9. CASE \/ ClientConnects \/ (\E f \in Fds : Arrives(f)) \/ BusStuck \/ BusFreed
           \/ UNCHANGED vars
  <2>1. UNCHANGED <<pc, made, tmp, raced, session>>
    BY <1>9 DEF ClientConnects, Arrives, BusStuck, BusFreed, vars, web
  <2> QED  BY <1>a, <2>1 DEF ReadCurrent, SocketMatchesCopy
<1> QED
  BY <1>1, <1>2, <1>3, <1>4, <1>5, <1>6, <1>7, <1>8, <1>9 DEF Next, ModeProc

\* mode_proc keeps its sockets, its slots and its copies of the configuration
\* in step, whatever the web thread and the network do in between.
THEOREM ModeInvariant == Spec => []ModeInv
<1>1. ModeInv /\ [Next]_vars => ModeInv'
  BY TypeStep, SocketsStep, CopiesStep DEF ModeInv
<1> QED  BY InitInv, <1>1, PTL DEF Spec

\* Every socket mode_proc opens is in md->fd or in one slot of md->sfd, and
\* neither holds one that has been closed.
THEOREM NoSocketLeak == Spec => []SocketsOwned
<1>1. ModeInv => SocketsOwned  BY DEF ModeInv
<1> QED  BY ModeInvariant, <1>1, PTL

\* Whichever way a session ends, nothing of it is open when the next one begins.
THEOREM SessionsStartClean == Spec => []CleanStart
<1>1. ModeInv => CleanStart  BY DEF ModeInv
<1> QED  BY ModeInvariant, <1>1, PTL

\* The copy that mode_proc compares with describes the socket it serves, unless
\* the configuration changed while the socket was being made.
THEOREM CopyDescribesSocket == Spec => []SocketMatchesCopy
<1>1. ModeInv => SocketMatchesCopy  BY DEF ModeInv
<1> QED  BY ModeInvariant, <1>1, PTL
=============================================================================
