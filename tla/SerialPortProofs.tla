-------------------------- MODULE SerialPortProofs ---------------------------
(***************************************************************************)
(* Proofs about the serial ports, for any number of mode threads, sizes    *)
(* and commands: types, the RS-485 mutex, the answers to the alarm server  *)
(* (in poll mode whole, of the first port complete, of the parameters what *)
(* the lines are programmed with) and the lines' parameters.  Each         *)
(* invariant has a part of the bus, com, client and web threads' steps.    *)
(***************************************************************************)
EXTENDS SerialPort, TLAPS

USE DEF MAX_COM_PORT, Ports, client, Writers, Threads, Free

\* The mutex belongs to the thread that is between lock and unlock.
Owned == \A t \in Threads : OnBus(t) <=> rs485_mutex = t

\* What the locks depend on.
BusInv ==
    /\ pc \in [Threads -> ComPcs \cup ClientPcs]
    /\ rs485_mutex \in Threads \cup {Free}
    /\ Owned

\* A step of the specification is one of the threads or of their environment, or
\* changes nothing.
LEMMA Steps == [Next]_vars => Step \/ UNCHANGED vars
  BY DEF Next, Undefined

\* Every step takes one thread from one place to another; these two cases are
\* all that the mutex can see of it.
LEMMA BusStep ==
    ASSUME BusInv, NEW t \in Threads, NEW to \in ComPcs \cup ClientPcs,
           pc' = [pc EXCEPT ![t] = to],
           \/ /\ rs485_mutex' = rs485_mutex
              /\ (pc[t] \in {"read485", "send485", "unlock", "write485"}) =
                   (to \in {"read485", "send485", "unlock", "write485"})
           \/ /\ rs485_mutex = Free /\ rs485_mutex' = t
              /\ to \in {"read485", "send485", "unlock", "write485"}
           \/ /\ rs485_mutex = t /\ rs485_mutex' = Free
              /\ to \notin {"read485", "send485", "unlock", "write485"}
    PROVE  BusInv'
  BY SerialAssumption DEF BusInv, Owned, OnBus

\* A step of a thread that is off the line, and stays off it.
LEMMA BusOff ==
    ASSUME BusInv, NEW t \in Threads, NEW to \in ComPcs \cup ClientPcs,
           pc' = [pc EXCEPT ![t] = to], UNCHANGED rs485_mutex,
           pc[t] \notin {"read485", "send485", "unlock", "write485"},
           to \notin {"read485", "send485", "unlock", "write485"}
    PROVE  BusInv'
  BY SerialAssumption DEF BusInv, Owned, OnBus

LEMMA BusIdle ==
    ASSUME BusInv, UNCHANGED <<pc, rs485_mutex>>
    PROVE  BusInv'
  BY SerialAssumption DEF BusInv, Owned, OnBus


LEMMA BusInit == Init => BusInv
  <1> SUFFICES ASSUME Init PROVE BusInv
    OBVIOUS
  <1>1. pc = [t \in Threads |-> IF t \in Ports THEN "test" ELSE "idle"] /\ rs485_mutex = Free
    BY DEF Init
  <1>2. \A t \in Threads : t # Free /\ pc[t] \in {"test", "idle"}
    BY <1>1, SerialAssumption
  <1>3. pc \in [Threads -> ComPcs \cup ClientPcs]
    BY <1>1 DEF ComPcs, ClientPcs, WritePcs
  <1> QED BY <1>1, <1>2, <1>3 DEF BusInv, Owned, OnBus

LEMMA ComKeepsBus ==
    ASSUME BusInv, NEW p \in Ports, ComStep(p) \/ ComLock(p)
    PROVE  BusInv'
  <1> USE DEF Goto, busVars, ComPcs, ClientPcs, WritePcs
  <1>0. p \in Threads /\ (OnBus(p) <=> rs485_mutex = p)
    BY DEF BusInv, Owned
  <1>1. CASE ComTest(p) \/ ComSend(p) \/ Count(p) \/ Copy(p) \/ IntMake(p) \/ IntWrite(p)
    <2>1. PICK to \in ComPcs : pc' = [pc EXCEPT ![p] = to]
      BY <1>1, <1>0 DEF ComTest, ComSend, Count, Copy, IntMake, IntWrite, Answer
    <2>2. /\ rs485_mutex' = rs485_mutex
          /\ (pc[p] \in {"read485", "send485", "unlock", "write485"}) =
                (to \in {"read485", "send485", "unlock", "write485"})
      BY <1>1, <1>0, <2>1
      DEF ComTest, ComSend, Count, Copy, IntMake, IntWrite, Answer, BusInv
    <2> QED BY <1>0, <2>1, <2>2, BusStep
  <1>2. CASE ComRead(p)
    <2>1. PICK to \in ComPcs : pc' = [pc EXCEPT ![p] = to]
      BY <1>2 DEF ComRead
    <2>2. /\ rs485_mutex' = rs485_mutex
          /\ (pc[p] \in {"read485", "send485", "unlock", "write485"}) =
                (to \in {"read485", "send485", "unlock", "write485"})
      BY <1>2, <1>0, <2>1 DEF ComRead, BusInv
    <2> QED BY <1>0, <2>1, <2>2, BusStep
  <1>3. CASE ComUnlock(p)
    BY <1>0, <1>3, BusStep DEF ComUnlock, OnBus
  <1>4. CASE ComLock(p)
    BY <1>0, <1>4, BusStep DEF ComLock, Lock
  <1> QED BY <1>1, <1>2, <1>3, <1>4 DEF ComStep

LEMMA WriterKeepsBus ==
    ASSUME BusInv, NEW w \in Writers, WriteStep(w) \/ WriterLock(w)
    PROVE  BusInv'
  <1> USE DEF Goto, busVars, ComPcs, ClientPcs, WritePcs
  <1>0. w \in Threads /\ (OnBus(w) <=> rs485_mutex = w) /\ Back(w) \in {"ack", "idle"}
    BY DEF BusInv, Owned, Back
  <1>1. CASE WriteError(w)
    <2>1. /\ pc[w] \in {"write232", "write485"}
          /\ pc' = [pc EXCEPT ![w] = Back(w)]
          /\ rs485_mutex' = IF pc[w] = "write485" THEN Free ELSE rs485_mutex
      BY <1>1 DEF WriteError
    <2>2. CASE pc[w] = "write232"
      BY <1>0, <2>1, <2>2, BusOff
    <2>3. CASE pc[w] = "write485"
      BY <1>0, <2>1, <2>3, BusStep DEF OnBus
    <2> QED BY <2>1, <2>2, <2>3
  <1>2. CASE WriteSome(w)
    <2>1. PICK n \in 1..nleft[w] :
            IF n < nleft[w]
            THEN UNCHANGED <<pc, rs485_mutex>>
            ELSE /\ rs485_mutex' = IF pc[w] = "write485" THEN Free ELSE rs485_mutex
                 /\ Goto(w, Back(w))
      BY <1>2 DEF WriteSome
    <2>2. CASE n < nleft[w]
      BY <2>1, <2>2, BusIdle
    <2>3. CASE ~(n < nleft[w])
      BY <1>0, <1>2, <2>1, <2>3, BusStep DEF WriteSome, OnBus
    <2> QED BY <2>2, <2>3
  <1>3. CASE WriterLock(w)
    BY <1>0, <1>3, BusStep DEF WriterLock, Lock
  <1> QED BY <1>1, <1>2, <1>3 DEF WriteStep

LEMMA NetDataKeepsBus ==
    ASSUME BusInv, NEW w \in NetThreads, NetData(w)
    PROVE  BusInv'
  <1>1. w \in Threads /\ Dispatch("idle") \in {"write232", "lock", "idle"}
    BY DEF Dispatch
  <1>2. pc[w] = "idle" /\ pc' = [pc EXCEPT ![w] = Dispatch("idle")]
        /\ rs485_mutex' = rs485_mutex
    BY Zenon DEF NetData, Goto
  <1> QED
    BY <1>1, <1>2, BusOff DEF ComPcs, ClientPcs, WritePcs

LEMMA ClientKeepsBus ==
    ASSUME BusInv, ClientStep \/ ServeCommand
    PROVE  BusInv'
  <1> USE DEF Goto, busVars, ComPcs, ClientPcs, WritePcs
  <1>0. client \in Threads
    OBVIOUS
  <1>1. CASE SendAck \/ UartStore \/ UartComSet \/ ClientAnswer
    <2>1. PICK to \in {"answer", "comset", "uattr", "idle"} : pc' = [pc EXCEPT ![client] = to]
      BY <1>1 DEF SendAck, UartStore, UartComSet, ClientAnswer, Answer, UartFail
    <2>2. /\ pc[client] \in {"ack", "uattr", "comset", "answer"}
          /\ rs485_mutex' = rs485_mutex
      BY <1>1 DEF SendAck, UartStore, UartComSet, ClientAnswer, Answer
    <2> QED BY <1>0, <2>1, <2>2, BusOff
  <1>2. ASSUME NEW m \in Commands,
               ServeAsking(m) \/ SetDeviceAttr(m) \/ QueryRecv(m) \/ SendData(m) \/ UartBegin(m)
        PROVE  BusInv'
    <2>1. PICK to \in {"answer", "uattr", "write232", "lock", "ack"} :
            pc' = [pc EXCEPT ![client] = to]
      BY <1>2 DEF ServeAsking, SetDeviceAttr, QueryRecv, SendData, UartBegin, UartFail, Dispatch
    <2>2. pc[client] = "idle"
      BY <1>2 DEF ServeAsking, SetDeviceAttr, QueryRecv, SendData, UartBegin, Take
    <2>3. rs485_mutex' = rs485_mutex
      BY <1>2 DEF ServeAsking, SetDeviceAttr, QueryRecv, SendData, UartBegin
    <2> QED BY <1>0, <2>1, <2>2, <2>3, BusOff
  <1>3. ASSUME NEW m \in Commands, Drop(m) \/ SetIo(m) \/ SetTemp(m) \/ SetRecvAttr(m)
        PROVE  BusInv'
    <2>0. Drop(m) => UNCHANGED <<pc, busVars>>
      BY DEF Drop
    <2>3. SetIo(m) => UNCHANGED <<pc, busVars>>
      BY DEF SetIo
    <2>4. SetTemp(m) => UNCHANGED <<pc, busVars>>
      BY DEF SetTemp
    <2>5. SetRecvAttr(m) => UNCHANGED <<pc, busVars>>
      BY DEF SetRecvAttr
    <2>1. UNCHANGED <<pc, rs485_mutex>>
      BY <1>3, <2>0, <2>3, <2>4, <2>5
    <2> QED BY <2>1, BusIdle
  <1> QED BY <1>1, <1>2, <1>3 DEF ClientStep, ServeCommand

\* What a step does to the history of late threads: a thread comes to a line without
\* the mutex only while the type is RS232, and is late from the moment the type
\* becomes RS485 until it has left the line.
LEMMA LateStep ==
    ASSUME pc \in [Threads -> ComPcs \cup ClientPcs], LateInv, NEW t \in Threads, NEW to,
           pc' = [pc EXCEPT ![t] = to], rs_type' = rs_type,
           \/ late' = late \ {t} /\ to \notin {"read232", "write232"}
           \/ /\ late' = late /\ ~Unlocked(t)
              /\ to \in {"read232", "write232"} => rs_type = "RS232"
    PROVE  LateInv'
  <1>1. pc'[t] = to /\ \A u \in Threads \ {t} : pc'[u] = pc[u]
    OBVIOUS
  <1>2. \A u \in Threads \ {t} : Unlocked(u)' <=> Unlocked(u)
    BY <1>1 DEF Unlocked
  <1>3. Unlocked(t)' <=> to \in {"read232", "write232"}
    BY <1>1 DEF Unlocked
  <1>4. t \notin late'
    BY DEF LateInv
  <1>5. \A u \in Threads \ {t} : u \in late' <=> u \in late
    OBVIOUS
  <1>6. late' \subseteq Threads
    BY DEF LateInv
  <1>7. rs_type = "RS485" => ~Unlocked(t)'
    BY <1>3
  <1> HIDE DEF Threads
  <1> QED BY <1>2, <1>4, <1>5, <1>6, <1>7 DEF LateInv

LEMMA LateIdle ==
    ASSUME LateInv, UNCHANGED <<pc, rs_type, late>>
    PROVE  LateInv'
  BY DEF LateInv, Unlocked

\* The type is set by a thread that is on no line.
LEMMA LateSet ==
    ASSUME pc \in [Threads -> ComPcs \cup ClientPcs], LateInv, late' = NowLate(rs_type'),
           \A t \in Threads : Unlocked(t)' <=> Unlocked(t)
    PROVE  LateInv'
  <1>1. CASE rs_type' = "RS485"
    <2>1. late' = late \cup {t \in Threads : Unlocked(t)}
      BY <1>1 DEF NowLate
    <2> HIDE DEF Threads
    <2> QED BY <2>1 DEF LateInv
  <1>2. CASE rs_type' # "RS485"
    <2>1. late' = late
      BY <1>2 DEF NowLate
    <2> HIDE DEF Threads
    <2> QED BY <1>2, <2>1 DEF LateInv
  <1> QED BY <1>1, <1>2

LEMMA ComKeepsLate ==
    ASSUME BusInv, LateInv, NEW p \in Ports, ComStep(p) \/ ComLock(p)
    PROVE  LateInv'
  <1>0. p \in Threads /\ pc \in [Threads -> ComPcs \cup ClientPcs]
    BY DEF BusInv
  <1>1. rs_type' = rs_type
    BY DEF ComStep, ComTest, ComRead, ComSend, ComUnlock, Count, Copy, IntMake, IntWrite, Answer,
           ComLock, Lock, busVars
  <1>2. CASE ComRead(p)
    <2>1. late' = late \ {p}
      BY <1>2 DEF ComRead
    <2>2. \E to \in {"send232", "test", "send485", "unlock"} : pc' = [pc EXCEPT ![p] = to]
      BY <1>2 DEF ComRead, Goto
    <2> QED BY <1>0, <1>1, <2>1, <2>2, LateStep
  <1>3. CASE ComTest(p)
    <2>1. late' = late /\ pc[p] = "test"
      BY <1>3 DEF ComTest, busVars
    <2>2. \E to \in {"read232", "lock", "test"} :
            pc' = [pc EXCEPT ![p] = to] /\ (to = "read232" => rs_type = "RS232")
      BY <1>3 DEF ComTest, Goto
    <2>3. ~Unlocked(p)
      BY <2>1 DEF Unlocked
    <2> QED BY <1>0, <1>1, <2>1, <2>2, <2>3, LateStep
  <1>4. CASE \/ ComSend(p) \/ ComUnlock(p) \/ Count(p) \/ Copy(p) \/ IntMake(p) \/ IntWrite(p)
             \/ ComLock(p)
    <2>1. late' = late
      BY <1>4 DEF ComSend, ComUnlock, Count, Copy, IntMake, IntWrite, Answer, ComLock, Lock, busVars
    <2>2. ~Unlocked(p)
      BY <1>4 DEF ComSend, ComUnlock, Count, Copy, IntMake, IntWrite, Answer, ComLock, Lock, Unlocked
    <2>3. \E to \in ComPcs \ {"read232"} : pc' = [pc EXCEPT ![p] = to]
      BY <1>4 DEF ComSend, ComUnlock, Count, Copy, IntMake, IntWrite, Answer, ComLock, Lock, Goto,
                  ComPcs
    <2>4. "write232" \notin ComPcs
      BY DEF ComPcs
    <2> QED BY <1>0, <1>1, <2>1, <2>2, <2>3, <2>4, LateStep
  <1> QED BY <1>2, <1>3, <1>4 DEF ComStep

LEMMA WriterKeepsLate ==
    ASSUME BusInv, LateInv, NEW w \in Writers,
           WriteStep(w) \/ WriterLock(w) \/ (w \in NetThreads /\ NetData(w))
    PROVE  LateInv'
  <1>0. w \in Threads /\ pc \in [Threads -> ComPcs \cup ClientPcs] /\ Back(w) \in {"ack", "idle"}
    BY DEF BusInv, Back
  <1>1. rs_type' = rs_type
    BY DEF WriteStep, WriteError, WriteSome, WriterLock, Lock, NetData
  <1>2. CASE WriteStep(w)
    <2>1. \/ UNCHANGED <<pc, late>>
          \/ late' = late \ {w} /\ pc' = [pc EXCEPT ![w] = Back(w)]
      BY <1>2 DEF WriteStep, WriteError, WriteSome, Goto
    <2> QED BY <1>0, <1>1, <2>1, LateStep, LateIdle
  <1>3. CASE WriterLock(w)
    <2>1. late' = late /\ pc[w] = "lock" /\ pc' = [pc EXCEPT ![w] = "write485"]
      BY <1>3 DEF WriterLock, Lock, Goto
    <2> QED BY <1>0, <1>1, <2>1, LateStep DEF Unlocked
  <1>4. CASE w \in NetThreads /\ NetData(w)
    <2>1. late' = late /\ pc[w] = "idle" /\ pc' = [pc EXCEPT ![w] = Dispatch("idle")]
      BY <1>4, Zenon DEF NetData, Goto
    <2>2. Dispatch("idle") \in {"read232", "write232"} => rs_type = "RS232"
      BY DEF Dispatch
    <2>3. ~Unlocked(w)
      BY <2>1 DEF Unlocked
    <2> QED BY <1>0, <1>1, <2>1, <2>2, <2>3, LateStep
  <1> QED BY <1>2, <1>3, <1>4

LEMMA ClientKeepsLate ==
    ASSUME BusInv, LateInv, ClientStep \/ ServeCommand \/ WebStore \/ WebComSet
    PROVE  LateInv'
  <1>0. client \in Threads /\ pc \in [Threads -> ComPcs \cup ClientPcs]
    BY DEF BusInv
  <1>1. CASE SendAck \/ UartStore \/ ClientAnswer
    <2>1. late' = late /\ rs_type' = rs_type
      BY <1>1 DEF SendAck, UartStore, ClientAnswer, Answer, busVars
    <2>2. ~Unlocked(client)
      BY <1>1 DEF SendAck, UartStore, ClientAnswer, Answer, Unlocked
    <2>3. \E to \in {"answer", "comset", "idle"} : pc' = [pc EXCEPT ![client] = to]
      BY <1>1 DEF SendAck, UartStore, UartFail, ClientAnswer, Answer, Goto
    <2> QED BY <1>0, <2>1, <2>2, <2>3, LateStep
  <1>2. CASE UartComSet
    <2>1. pc[client] = "comset" /\ \E to \in {"uattr", "answer"} : pc' = [pc EXCEPT ![client] = to]
      BY <1>2 DEF UartComSet, Goto
    <2>2. ~Unlocked(client) /\ ~Unlocked(client)'
      BY <1>0, <2>1 DEF Unlocked
    <2>3. \A t \in Threads : Unlocked(t)' <=> Unlocked(t)
      BY <1>0, <2>1, <2>2 DEF Unlocked
    <2>4. late' = NowLate(rs_type') \/ UNCHANGED <<rs_type, late>>
      BY <1>2 DEF UartComSet
    <2>5. CASE UNCHANGED <<rs_type, late>>
      BY <1>0, <2>1, <2>2, <2>5, LateStep
    <2> QED BY <1>0, <2>3, <2>4, <2>5, LateSet
  <1>3. CASE WebComSet
    <2>1. pc' = pc /\ late' = NowLate(rs_type')
      BY <1>3 DEF WebComSet
    <2> QED BY <1>0, <2>1, LateSet DEF Unlocked
  <1>4. CASE WebStore
    BY <1>4, LateIdle DEF WebStore, busVars
  <1>5. ASSUME NEW m \in Commands, Drop(m) \/ SetIo(m) \/ SetTemp(m) \/ SetRecvAttr(m)
        PROVE  LateInv'
    BY <1>5, LateIdle DEF Drop, SetIo, SetTemp, SetRecvAttr, busVars
  <1>6. ASSUME NEW m \in Commands,
               ServeAsking(m) \/ SetDeviceAttr(m) \/ QueryRecv(m) \/ SendData(m) \/ UartBegin(m)
        PROVE  LateInv'
    <2>1. late' = late /\ rs_type' = rs_type
      BY <1>6 DEF ServeAsking, SetDeviceAttr, QueryRecv, SendData, UartBegin, busVars
    <2>2. pc[client] = "idle"
      BY <1>6 DEF ServeAsking, SetDeviceAttr, QueryRecv, SendData, UartBegin, Take
    <2>3. \E to \in {"answer", "uattr", "write232", "lock", "ack"} :
            pc' = [pc EXCEPT ![client] = to] /\ (to = "write232" => rs_type = "RS232")
      BY <1>6 DEF ServeAsking, SetDeviceAttr, QueryRecv, SendData, UartBegin, UartFail, Dispatch, Goto
    <2>4. ~Unlocked(client)
      BY <2>2 DEF Unlocked
    <2> QED BY <1>0, <2>1, <2>3, <2>4, LateStep
  <1> QED BY <1>1, <1>2, <1>3, <1>4, <1>5, <1>6 DEF ClientStep, ServeCommand

\* The mutex belongs at every moment to exactly the thread that is between lock and
\* unlock, and two threads are on the line of type RS485 at once only if one of them
\* was on it, without the mutex, when the type was set (com.c, rs485_mutex, rs_type),
\* for every number of threads.
THEOREM BusIsExclusive == Spec => []BusExclusive
  <1>1. BusInv /\ LateInv /\ [Next]_vars => (BusInv /\ LateInv)'
    <2> SUFFICES ASSUME BusInv, LateInv, [Next]_vars PROVE (BusInv /\ LateInv)'
      OBVIOUS
    <2>1. ASSUME NEW p \in Ports, Arrive(p) \/ Session(p) \/ PeerReads(p) PROVE (BusInv /\ LateInv)'
      BY <2>1, BusIdle, LateIdle DEF Arrive, Session, PeerReads
    <2>2. CASE WebStore \/ WebComSet
      <3>1. UNCHANGED <<pc, rs485_mutex>>
        BY <2>2 DEF WebStore, WebComSet, busVars
      <3> QED BY <2>2, <3>1, BusIdle, ClientKeepsLate
    <2>3. CASE UNCHANGED vars
      BY <2>3, BusIdle, LateIdle DEF vars, busVars
    <2>4. ASSUME NEW p \in Ports, ComStep(p) \/ ComLock(p) PROVE (BusInv /\ LateInv)'
      BY <2>4, ComKeepsBus, ComKeepsLate
    <2>5. ASSUME NEW w \in Writers, WriteStep(w) \/ WriterLock(w) PROVE (BusInv /\ LateInv)'
      BY <2>5, WriterKeepsBus, WriterKeepsLate
    <2>6. ASSUME NEW w \in NetThreads, NetData(w) PROVE (BusInv /\ LateInv)'
      BY <2>6, NetDataKeepsBus, WriterKeepsLate
    <2>7. CASE ClientStep \/ ServeCommand
      BY <2>7, ClientKeepsBus, ClientKeepsLate
    <2> QED BY <2>1, <2>2, <2>3, <2>4, <2>5, <2>6, <2>7, Steps DEF Step
  <1>2. BusInv /\ LateInv => BusExclusive
    <2> SUFFICES ASSUME Owned, LateInv, rs_type = "RS485",
                        NEW t \in Threads, NEW u \in Threads, OnLine(t), OnLine(u), t # u
                 PROVE  t \in late \/ u \in late
      BY DEF BusInv, BusExclusive, Owned
    <2>1. CASE Unlocked(t) \/ Unlocked(u)
      BY <2>1 DEF LateInv
    <2>2. CASE ~Unlocked(t) /\ ~Unlocked(u)
      BY <2>2 DEF Owned, OnLine, OnBus
    <2> QED BY <2>1, <2>2
  <1>3. Init => LateInv
    <2> SUFFICES ASSUME Init PROVE LateInv
      OBVIOUS
    <2>1. late = {} /\ rs_type = "RS232"
      BY DEF Init
    <2> QED BY <2>1 DEF LateInv
  <1> QED BY <1>1, <1>2, <1>3, BusInit, PTL DEF Spec

-----------------------------------------------------------------------------
(* Types *)

LEMMA Tuples ==
    UNCHANGED vars => /\ UNCHANGED <<pc, rs485_mutex, rs_type, line, len, sess, port, nleft, late>>
                      /\ UNCHANGED <<con_com, tty, con_sensor, outputs, stray>>
                      /\ UNCHANGED <<uart_cnt, uart_buf, rcvd>>
                      /\ UNCHANGED <<cmd, next, buf4, buf_send, mixed, intmode, overrun>>
                      /\ UNCHANGED <<web, webconf, work>>
  BY DEF vars, busVars, confVars, uartVars, ansVars, webVars

LEMMA Sizes ==
    /\ CntModulus \in Nat /\ UART_RECV_BUF_SIZE \in Nat
    /\ 0 < UART_RECV_BUF_SIZE /\ UART_RECV_BUF_SIZE < CntModulus
    /\ MaxChunk \in Nat /\ MaxMsg \in Nat
  BY SerialAssumption

LEMMA CountsTyped ==
    ASSUME UartOK, NEW p \in Ports
    PROVE  /\ uart_cnt[p] \in Nat /\ uart_cnt[p] < CntModulus
           /\ rcvd[p] \in Nat
           /\ uart_buf[p] \in [1..UART_RECV_BUF_SIZE -> Int]
  <1>1. uart_cnt[p] \in 0..(CntModulus - 1)
    BY DEF UartOK
  <1>2. rcvd[p] \in Nat /\ uart_buf[p] \in [1..UART_RECV_BUF_SIZE -> Int]
    BY DEF UartOK
  <1> HIDE DEF UartOK
  <1> QED BY <1>1, <1>2, Sizes

LEMMA CountType ==
    ASSUME NEW a \in Nat
    PROVE  /\ a % CntModulus \in 0..(CntModulus - 1)
           /\ a < CntModulus => a % CntModulus = a
  BY SerialAssumption

LEMMA LineType ==
    ASSUME NEW c \in Coms, NEW o \in Lines
    PROVE  setTTY(c, o) \in Lines
  BY DEF setTTY, TtySpeed, Coms, Lines

LEMMA AttrType ==
    ASSUME NEW a \in Attrs, NEW c \in Coms
    PROVE  UartAttr(a, c) \in Coms
  <1>1. calc_baud_rate(a.baud) \in Int
    <2>1. a.baud \in Nat \X Nat \X Nat
      BY DEF Attrs
    <2> QED BY <2>1 DEF calc_baud_rate
  <1>2. return_local_odd_even(a.parity) \in Int
    BY DEF return_local_odd_even
  <1>3. a.dbit \in Int /\ a.sbit \in Int
    BY DEF Attrs
  <1> HIDE DEF Attrs
  <1> QED BY <1>1, <1>2, <1>3 DEF UartAttr, Coms

LEMMA TypeInit == Init => TypeOK
  <1> SUFFICES ASSUME Init PROVE TypeOK
    OBVIOUS
  <1>1. DefaultCom \in Coms
    BY DEF DefaultCom, Coms, RsTypes
  <1>2. setTTY(DefaultCom, DefaultCom) \in Lines
    BY DEF DefaultCom, setTTY, TtySpeed, Lines
  <1>3. PcOK
    <2>1. \A t \in Threads : pc[t] = IF t \in Ports THEN "test" ELSE "idle"
      BY DEF Init
    <2>2. \A n \in NetThreads : n \notin Ports
      BY SerialAssumption
    <2>3. pc \in [Threads -> ComPcs \cup ClientPcs]
      BY DEF Init, ComPcs, ClientPcs, WritePcs
    <2>4. \A p \in Ports : pc[p] = "test"
      BY <2>1
    <2>5. pc[client] = "idle" /\ \A n \in NetThreads : pc[n] = "idle"
      <3>1. client \in Threads /\ client \notin Ports
        OBVIOUS
      <3>2. pc[client] = "idle"
        BY <2>1, <3>1
      <3>3. \A n \in NetThreads : n \in Threads
        OBVIOUS
      <3>4. \A n \in NetThreads : pc[n] = "idle"
        BY <2>1, <2>2, <3>3
      <3> QED BY <3>2, <3>4
    <2> HIDE DEF Ports, Init
    <2> QED BY <2>3, <2>4, <2>5 DEF PcOK, ComPcs, ClientPcs, WritePcs
  <1>4. BusOK
    BY DEF Init, BusOK, RsTypes
  <1>5. UartOK
    <2>1. uart_cnt = [p \in Ports |-> 0] /\ rcvd = [p \in Ports |-> 0] /\ overrun = "no"
          /\ uart_buf = [p \in Ports |-> [k \in 1..UART_RECV_BUF_SIZE |-> 0]]
      BY DEF Init
    <2>2. 0 \in 0..(CntModulus - 1)
      BY Sizes
    <2>3. uart_cnt \in [Ports -> 0..(CntModulus - 1)]
      BY <2>1, <2>2, Zenon
    <2>4. uart_buf \in [Ports -> [1..UART_RECV_BUF_SIZE -> Int]]
      BY <2>1
    <2> QED BY <2>1, <2>3, <2>4 DEF UartOK
  <1>6. ConfOK
    BY <1>1, <1>2 DEF Init, ConfOK
  <1> QED
    BY <1>3, <1>4, <1>5, <1>6 DEF TypeOK

LEMMA PcStep ==
    ASSUME PcOK, NEW t \in Threads, NEW to, pc' = [pc EXCEPT ![t] = to],
           t \in Ports => to \in ComPcs,
           t \in NetThreads => to \in WritePcs,
           t = client => to \in ClientPcs
    PROVE  PcOK'
  BY DEF PcOK, ClientPcs

LEMMA KindsApart == /\ \A n \in NetThreads : n \notin Ports /\ n # client
                    /\ client \notin Ports /\ client \in Threads
  BY SerialAssumption
\* Every thread stays where its code can be.
LEMMA PcNext ==
    ASSUME PcOK, Step
    PROVE  PcOK'
  <1> USE DEF Goto
  <1>1. ASSUME NEW p \in Ports, ComStep(p) \/ ComLock(p)
        PROVE  PcOK'
    <2>1. p \in Threads /\ p # client /\ p \notin NetThreads
      BY KindsApart
    <2>2. PICK to \in ComPcs : pc' = [pc EXCEPT ![p] = to]
      BY <1>1 DEF ComStep, ComTest, ComRead, ComSend, ComUnlock, Count, Copy, IntMake,
                  IntWrite, Answer, ComLock, Lock, ComPcs
    <2> QED BY <2>1, <2>2, PcStep
  <1>2. ASSUME NEW p \in Ports, Arrive(p) \/ Session(p) \/ PeerReads(p)
        PROVE  PcOK'
    <2>1. pc' = pc
      BY <1>2 DEF Arrive, Session, PeerReads
    <2> QED BY <2>1 DEF PcOK
  <1>3. ASSUME NEW w \in Writers, WriteStep(w) \/ WriterLock(w)
        PROVE  PcOK'
    <2>1. w \in Threads /\ w \notin Ports
      BY KindsApart
    <2>2. CASE pc' = pc
      BY <2>2 DEF PcOK
    <2>3. CASE pc' # pc
      <3>1. pc' = [pc EXCEPT ![w] = Back(w)] \/ pc' = [pc EXCEPT ![w] = "write485"]
        BY <1>3, <2>3 DEF WriteStep, WriteError, WriteSome, WriterLock, Lock
      <3>2. Back(w) \in ClientPcs /\ (w \in NetThreads => Back(w) \in WritePcs)
        BY KindsApart DEF Back, ClientPcs, WritePcs
      <3>3. "write485" \in WritePcs /\ "write485" \in ClientPcs
        BY DEF WritePcs, ClientPcs
      <3> QED BY <2>1, <3>1, <3>2, <3>3, PcStep
    <2> QED BY <2>2, <2>3
  <1>4. ASSUME NEW w \in NetThreads, NetData(w)
        PROVE  PcOK'
    <2>1. w \in Threads /\ w \notin Ports /\ w # client
      BY KindsApart
    <2>2. pc' = [pc EXCEPT ![w] = Dispatch("idle")]
      BY <1>4, Zenon DEF NetData
    <2>3. Dispatch("idle") \in WritePcs
      BY DEF Dispatch, WritePcs
    <2> QED BY <2>1, <2>2, <2>3, PcStep
  <1>5. ASSUME ClientStep
        PROVE  PcOK'
    <2>1. PICK to \in {"answer", "comset", "uattr", "idle"} : pc' = [pc EXCEPT ![client] = to]
      BY <1>5 DEF ClientStep, SendAck, UartStore, UartComSet, ClientAnswer, Answer, UartFail
    <2>2. to \in ClientPcs
      BY DEF ClientPcs, WritePcs
    <2> QED BY <2>1, <2>2, KindsApart, PcStep
  <1>6. ASSUME NEW m \in Commands,
               ServeAsking(m) \/ SetDeviceAttr(m) \/ QueryRecv(m) \/ SendData(m) \/ UartBegin(m)
        PROVE  PcOK'
    <2>1. PICK to \in {"answer", "uattr", "write232", "lock", "ack"} :
            pc' = [pc EXCEPT ![client] = to]
      BY <1>6 DEF ServeAsking, SetDeviceAttr, QueryRecv, SendData, UartBegin, UartFail, Dispatch
    <2>2. to \in ClientPcs
      BY DEF ClientPcs, WritePcs
    <2> QED BY <2>1, <2>2, KindsApart, PcStep
  <1>7. ASSUME NEW m \in Commands, Drop(m) \/ SetIo(m) \/ SetTemp(m) \/ SetRecvAttr(m)
        PROVE  PcOK'
    <2>1. pc' = pc
      BY <1>7 DEF Drop, SetIo, SetTemp, SetRecvAttr
    <2> QED BY <2>1 DEF PcOK
  <1>8. CASE WebStore \/ WebComSet
    <2>1. pc' = pc
      BY <1>8 DEF WebStore, WebComSet
    <2> QED BY <2>1 DEF PcOK
  <1> QED
    BY <1>1, <1>2, <1>3, <1>4, <1>5, <1>6, <1>7, <1>8 DEF Step, ServeCommand

-----------------------------------------------------------------------------
(* What the actions of each thread leave alone *)

LEMMA ComFrame ==
    ASSUME PcOK, NEW p \in Ports,
           ComStep(p) \/ ComLock(p) \/ Arrive(p) \/ Session(p) \/ PeerReads(p)
    PROVE  /\ UNCHANGED <<confVars, webVars, cmd, next, buf4, intmode>>
           /\ UNCHANGED <<rs_type, port, nleft>>
           /\ pc'[client] = pc[client]
           /\ \A q \in Ports \ {p} : pc'[q] = pc[q]
  <1> USE DEF Goto
  <1>1. CASE ComStep(p) \/ ComLock(p)
    <2>1. UNCHANGED <<confVars, webVars, cmd, next, buf4, intmode>>
      BY <1>1 DEF ComStep, ComTest, ComRead, ComSend, ComUnlock, Count, Copy, IntMake,
                  IntWrite, Answer, ComLock, Lock, ansVars
    <2>2. UNCHANGED <<rs_type, port, nleft>>
      BY <1>1 DEF ComStep, ComTest, ComRead, ComSend, ComUnlock, Count, Copy, IntMake,
                  IntWrite, Answer, ComLock, Lock, busVars
    <2>3. PICK to : pc' = [pc EXCEPT ![p] = to]
      BY <1>1 DEF ComStep, ComTest, ComRead, ComSend, ComUnlock, Count, Copy, IntMake,
                  IntWrite, Answer, ComLock, Lock
    <2>4. pc'[client] = pc[client] /\ \A q \in Ports \ {p} : pc'[q] = pc[q]
      BY <2>3 DEF PcOK
    <2> QED BY <2>1, <2>2, <2>4
  <1>2. CASE Arrive(p) \/ Session(p) \/ PeerReads(p)
    BY <1>2 DEF Arrive, Session, PeerReads, ansVars
  <1> QED BY <1>1, <1>2

LEMMA WriteFrame ==
    ASSUME PcOK, NEW w \in Writers, WriteStep(w) \/ WriterLock(w) \/ (w \in NetThreads /\ NetData(w))
    PROVE  /\ UNCHANGED <<confVars, uartVars, ansVars, webVars>>
           /\ UNCHANGED <<rs_type, line, len, sess, port>>
           /\ \A p \in Ports : pc'[p] = pc[p]
           /\ pc'[client] = pc[client] \/ (w = client /\ pc'[client] \in {"ack", "write485"})
  <1>1. UNCHANGED <<confVars, uartVars, ansVars, webVars>> /\ UNCHANGED <<rs_type, line, len, sess, port>>
    BY DEF WriteStep, WriteError, WriteSome, WriterLock, Lock, NetData
  <1>2. \/ pc' = pc
        \/ pc' = [pc EXCEPT ![w] = Back(w)]
        \/ pc' = [pc EXCEPT ![w] = "write485"]
        \/ w \in NetThreads /\ pc' = [pc EXCEPT ![w] = Dispatch("idle")]
    BY DEF WriteStep, WriteError, WriteSome, WriterLock, Lock, NetData, Goto
  <1>3. w \notin Ports /\ (w \in NetThreads => w # client) /\ (w = client => Back(w) = "ack")
    BY KindsApart DEF Back
  <1>4. pc \in [Threads -> ComPcs \cup ClientPcs]
    BY DEF PcOK
  <1>5. \A p \in Ports : pc'[p] = pc[p]
    BY <1>2, <1>3, <1>4
  <1>6. pc'[client] = pc[client] \/ (w = client /\ pc'[client] \in {"ack", "write485"})
    BY <1>2, <1>3, <1>4
  <1> QED BY <1>1, <1>5, <1>6

LEMMA ClientFrame ==
    ASSUME PcOK, ClientStep \/ ServeCommand
    PROVE  /\ UNCHANGED <<uartVars, webVars, rs485_mutex, line, len, sess>>
           /\ \A p \in Ports : pc'[p] = pc[p]
  <1> USE DEF Goto
  <1>1. CASE ClientStep
    <2>1. UNCHANGED <<uartVars, webVars, rs485_mutex, line, len, sess>>
      BY <1>1 DEF ClientStep, SendAck, UartStore, UartComSet, ClientAnswer, Answer, busVars
    <2>2. PICK to : pc' = [pc EXCEPT ![client] = to]
      BY <1>1 DEF ClientStep, SendAck, UartStore, UartComSet, ClientAnswer, Answer, UartFail
    <2> QED BY <2>1, <2>2 DEF PcOK
  <1>2. ASSUME NEW m \in Commands,
               ServeAsking(m) \/ SetDeviceAttr(m) \/ QueryRecv(m) \/ SendData(m) \/ UartBegin(m)
        PROVE  /\ UNCHANGED <<uartVars, webVars, rs485_mutex, line, len, sess>>
               /\ \A p \in Ports : pc'[p] = pc[p]
    <2>1. UNCHANGED <<uartVars, webVars, rs485_mutex, line, len, sess>>
      BY <1>2 DEF ServeAsking, SetDeviceAttr, QueryRecv, SendData, UartBegin, busVars
    <2>2. PICK to : pc' = [pc EXCEPT ![client] = to]
      BY <1>2 DEF ServeAsking, SetDeviceAttr, QueryRecv, SendData, UartBegin, UartFail
    <2> QED BY <2>1, <2>2 DEF PcOK
  <1>3. ASSUME NEW m \in Commands, Drop(m) \/ SetIo(m) \/ SetTemp(m) \/ SetRecvAttr(m)
        PROVE  /\ UNCHANGED <<uartVars, webVars, rs485_mutex, line, len, sess>>
               /\ \A p \in Ports : pc'[p] = pc[p]
    BY <1>3 DEF Drop, SetIo, SetTemp, SetRecvAttr, busVars
  <1> QED BY <1>1, <1>2, <1>3 DEF ServeCommand

LEMMA WebFrame ==
    ASSUME WebStore \/ WebComSet
    PROVE  /\ UNCHANGED <<pc, uartVars, cmd, next, buf4, buf_send, mixed>>
           /\ UNCHANGED <<rs485_mutex, line, len, sess, port, nleft>>
  BY DEF WebStore, WebComSet, busVars, ansVars

-----------------------------------------------------------------------------
(* Type correctness *)

\* The other commands find the client thread idle and leave it elsewhere than in
\* a SET_UART_ATTR.
LEMMA ServeFrame ==
    ASSUME PcOK, NEW m \in Commands,
           \/ ServeAsking(m) \/ Drop(m) \/ SetDeviceAttr(m) \/ SetIo(m) \/ SetTemp(m)
           \/ SetRecvAttr(m) \/ QueryRecv(m) \/ SendData(m)
    PROVE  ~Setting /\ ~Setting' /\ UNCHANGED <<tty, stray, cmd, next, rs_type>>
  <1> USE DEF Goto, Take
  <1>1. pc[client] = "idle"
    BY DEF ServeAsking, Drop, SetDeviceAttr, SetIo, SetTemp, SetRecvAttr, QueryRecv, SendData
  <1>2. UNCHANGED <<tty, stray, cmd, next, rs_type>>
    BY DEF ServeAsking, Drop, SetDeviceAttr, SetIo, SetTemp, SetRecvAttr, QueryRecv, SendData,
           confVars, busVars
  <1>3. pc'[client] \in {"idle", "answer", "write232", "lock", "ack"}
    <2>1. \/ pc' = pc
          \/ \E to \in {"answer", "write232", "lock", "ack"} : pc' = [pc EXCEPT ![client] = to]
      BY DEF ServeAsking, Drop, SetDeviceAttr, SetIo, SetTemp, SetRecvAttr, QueryRecv, SendData,
             Dispatch
    <2> QED BY <1>1, <2>1 DEF PcOK
  <1> QED BY <1>1, <1>2, <1>3 DEF Setting

LEMMA BeginSets ==
    ASSUME PcOK, ConfOK, NEW m \in Commands, UartBegin(m)
    PROVE  CmdOK' /\ pc[client] = "idle" /\ pc'[client] # "comset"
  <1> USE DEF Goto, Take
  <1>1. pc[client] = "idle" /\ m.id = "SET_UART_ATTR"
    BY DEF UartBegin
  <1>2. CASE m.b4 \in Ports
    <2>1. /\ cmd' = [id |-> m.id, args |-> m.args, coms |-> con_com,
                     sensor |-> [con_sensor["UART"] EXCEPT !.num = m.b4]]
          /\ next' = 1 /\ pc' = [pc EXCEPT ![client] = "uattr"]
      BY <1>2 DEF UartBegin
    <2>2. m.args \in Seq(Attrs) /\ Len(m.args) = m.b4
      BY <1>1, <1>2, InputAssumption
    <2>3. con_com \in [Ports -> Coms]
      BY DEF ConfOK
    <2>4. pc'[client] = "uattr"
      BY <2>1 DEF PcOK
    <2>5. cmd'.args = m.args /\ cmd'.coms = con_com
          /\ DOMAIN cmd' = {"id", "args", "coms", "sensor"}
      BY <2>1
    <2>6. next' \in 1..Len(cmd'.args)
      BY <1>2, <2>1, <2>2, <2>5
    <2> QED BY <1>1, <1>2, <2>2, <2>3, <2>4, <2>5, <2>6 DEF CmdOK
  <1>3. CASE m.b4 \notin Ports
    <2>1. pc' = [pc EXCEPT ![client] = "answer"]
      BY <1>3 DEF UartBegin, UartFail
    <2>2. pc'[client] = "answer"
      BY <2>1 DEF PcOK
    <2> QED BY <1>1, <2>2 DEF CmdOK, Setting
  <1> QED BY <1>2, <1>3

\* What a SET_UART_ATTR in progress builds for its next port.
LEMMA SettingTyped ==
    ASSUME CmdOK, Setting
    PROVE  /\ next \in Ports
           /\ cmd.args[next] \in Attrs
           /\ cmd.coms \in [Ports -> Coms]
           /\ cmd.coms[next] \in Coms
           /\ UartAttr(cmd.args[next], cmd.coms[next]) \in Coms
           /\ DOMAIN cmd = {"id", "args", "coms", "sensor"}
           /\ next \in 1..Len(cmd.args) /\ Len(cmd.args) \in Ports
  <1>1. /\ DOMAIN cmd = {"id", "args", "coms", "sensor"}
        /\ cmd.coms \in [Ports -> Coms]
        /\ cmd.args \in Seq(Attrs)
        /\ next \in 1..Len(cmd.args) /\ Len(cmd.args) \in Ports
    BY DEF CmdOK
  <1>2. next \in Ports
    <2>1. \A n, k : n \in 1..k /\ k \in 1..2 => n \in 1..2
      OBVIOUS
    <2> QED BY <1>1, <2>1, Zenon
  <1>3. cmd.args[next] \in Attrs
    BY <1>1
  <1>4. cmd.coms[next] \in Coms
    BY <1>1, <1>2
  <1> QED BY <1>1, <1>2, <1>3, <1>4, AttrType

LEMMA StoreCmd ==
    ASSUME PcOK, CmdOK, UartStore
    PROVE  CmdOK'
  <1> DEFINE c == UartAttr(cmd.args[next], cmd.coms[next])
             table == [cmd.sensor EXCEPT !.seq_num[next] = cmd.args[next].seq,
                                         !.attr[next] = cmd.args[next].attr]
  <1>1. Setting
    BY DEF UartStore, Setting
  <1>2. CASE pc' = [pc EXCEPT ![client] = "answer"]
    <2>1. pc'[client] = "answer"
      BY <1>2 DEF PcOK
    <2> QED BY <2>1 DEF CmdOK, Setting
  <1>3. CASE pc' # [pc EXCEPT ![client] = "answer"]
    <2>1. cmd' = [cmd EXCEPT !.sensor = table, !.coms[next] = c] /\ next' = next
      BY <1>3, Zenon DEF UartStore, UartFail, Goto
    <2>2. cmd'.coms = [cmd.coms EXCEPT ![next] = c] /\ cmd'.args = cmd.args
          /\ DOMAIN cmd' = DOMAIN cmd
      BY <1>1, <2>1, SettingTyped
    <2>3. cmd.coms \in [Ports -> Coms] /\ c \in Coms
      BY <1>1, SettingTyped
    <2>4. cmd'.coms \in [Ports -> Coms]
      BY <2>2, <2>3
    <2> QED BY <1>1, <2>1, <2>2, <2>4 DEF CmdOK
  <1> QED BY <1>2, <1>3

LEMMA ComSetCmd ==
    ASSUME PcOK, CmdOK, UartComSet
    PROVE  CmdOK' /\ Setting
  <1>1. Setting /\ pc[client] = "comset"
    BY DEF UartComSet, Setting
  <1>2. CASE next < Len(cmd.args)
    <2>1. cmd' = cmd /\ next' = next + 1
      BY <1>2 DEF UartComSet
    <2>2. next + 1 \in 1..Len(cmd.args)
      BY <1>1, <1>2, SettingTyped
    <2> QED BY <1>1, <2>1, <2>2 DEF CmdOK
  <1>3. CASE ~(next < Len(cmd.args))
    <2>1. pc' = [pc EXCEPT ![client] = "answer"]
      BY <1>3 DEF UartComSet, Goto
    <2>2. pc'[client] = "answer"
      BY <2>1 DEF PcOK
    <2> QED BY <1>1, <2>2 DEF CmdOK, Setting
  <1> QED BY <1>2, <1>3

LEMMA CmdNext ==
    ASSUME PcOK, ConfOK, CmdOK, Step
    PROVE  CmdOK'
  <1>1. ASSUME UNCHANGED <<cmd, next>>, Setting' => Setting
        PROVE  CmdOK'
    BY <1>1 DEF CmdOK
  <1>2. ASSUME NEW p \in Ports,
               ComStep(p) \/ ComLock(p) \/ Arrive(p) \/ Session(p) \/ PeerReads(p)
        PROVE  CmdOK'
    BY <1>1, <1>2, ComFrame DEF Setting
  <1>3. ASSUME NEW w \in Writers, WriteStep(w) \/ WriterLock(w) \/ (w \in NetThreads /\ NetData(w))
        PROVE  CmdOK'
    BY <1>1, <1>3, WriteFrame DEF Setting, ansVars
  <1>4. ASSUME ServeCommand
        PROVE  CmdOK'
    BY <1>1, <1>4, ServeFrame, BeginSets DEF ServeCommand
  <1>5. CASE SendAck \/ ClientAnswer
    <2>1. UNCHANGED <<cmd, next>>
      BY <1>5 DEF SendAck, ClientAnswer, Answer
    <2>2. pc'[client] \in {"answer", "idle"}
      BY <1>5 DEF SendAck, ClientAnswer, Answer, Goto, PcOK
    <2> QED BY <1>1, <2>1, <2>2 DEF Setting
  <1>6. CASE WebStore \/ WebComSet
    BY <1>1, <1>6, WebFrame DEF Setting
  <1> QED
    BY <1>2, <1>3, <1>4, <1>5, <1>6, StoreCmd, ComSetCmd DEF Step, ClientStep

LEMMA ComBus ==
    ASSUME PcOK, BusOK, NEW p \in Ports,
           ComStep(p) \/ ComLock(p) \/ Arrive(p) \/ Session(p) \/ PeerReads(p)
    PROVE  BusOK'
  <1>1. p \in Threads /\ UNCHANGED <<rs_type, nleft>>
    BY ComFrame
  <1>2. rs485_mutex' \in Threads \cup {Free}
    <2>1. rs485_mutex' = rs485_mutex \/ rs485_mutex' = p \/ rs485_mutex' = Free
      BY DEF ComStep, ComTest, ComRead, ComSend, ComUnlock, Count, Copy, IntMake, IntWrite,
             Answer, ComLock, Lock, Arrive, Session, PeerReads, busVars
    <2> QED BY <1>1, <2>1 DEF BusOK
  <1>3. line' \in [Ports -> Nat] /\ len' \in [Ports -> Nat]
    <2>0. line \in [Ports -> Nat] /\ len \in [Ports -> Nat]
      BY DEF BusOK
    <2>1. \/ UNCHANGED <<line, len>>
          \/ len' = [len EXCEPT ![p] = line[p]] /\ line' = [line EXCEPT ![p] = 0]
          \/ len' = [len EXCEPT ![p] = 0] /\ line' = line
          \/ len' = len /\ \E n \in 1..MaxChunk : line' = [line EXCEPT ![p] = @ + n]
      BY DEF ComStep, ComTest, ComRead, ComSend, ComUnlock, Count, Copy, IntMake, IntWrite,
             Answer, ComLock, Lock, Arrive, Session, PeerReads, busVars
    <2>2. ASSUME NEW n \in 1..MaxChunk PROVE line[p] + n \in Nat
      BY <2>0, Sizes
    <2> QED BY <2>0, <2>1, <2>2
  <1>4. sess' \in [Ports -> {"none", "open", "stalled"}]
    <2>1. \/ sess' = sess
          \/ \E s \in {"none", "open", "stalled"} : sess' = [sess EXCEPT ![p] = s]
      BY DEF ComStep, ComTest, ComRead, ComSend, ComUnlock, Count, Copy, IntMake, IntWrite,
             Answer, ComLock, Lock, Arrive, Session, PeerReads, busVars
    <2> QED BY <2>1 DEF BusOK
  <1> QED BY <1>1, <1>2, <1>3, <1>4 DEF BusOK

LEMMA WriteBus ==
    ASSUME PcOK, BusOK, NEW w \in Writers,
           WriteStep(w) \/ WriterLock(w) \/ (w \in NetThreads /\ NetData(w))
    PROVE  BusOK'
  <1>1. w \in Threads /\ UNCHANGED <<rs_type, line, len, sess>>
    BY WriteFrame
  <1>2. rs485_mutex' \in Threads \cup {Free}
    <2>1. rs485_mutex' = rs485_mutex \/ rs485_mutex' = w \/ rs485_mutex' = Free
      BY DEF WriteStep, WriteError, WriteSome, WriterLock, Lock, NetData
    <2> QED BY <1>1, <2>1 DEF BusOK
  <1>3. nleft' \in [Writers -> Nat]
    <2>0. nleft \in [Writers -> Nat]
      BY DEF BusOK
    <2>1. nleft' = nleft \/ \E n \in {0, MaxMsg} \cup {nleft[w] - n : n \in 1..nleft[w]} :
                                nleft' = [nleft EXCEPT ![w] = n]
      BY DEF WriteStep, WriteError, WriteSome, WriterLock, Lock, NetData
    <2>2. {0, MaxMsg} \cup {nleft[w] - n : n \in 1..nleft[w]} \subseteq Nat
      BY <2>0, Sizes
    <2> QED BY <2>0, <2>1, <2>2
  <1> QED BY <1>1, <1>2, <1>3 DEF BusOK

LEMMA ClientBus ==
    ASSUME PcOK, BusOK, ConfOK, CmdOK, ClientStep \/ ServeCommand \/ WebStore \/ WebComSet
    PROVE  BusOK'
  <1>1. UNCHANGED <<rs485_mutex, line, len, sess>>
    BY ClientFrame, WebFrame
  <1>2. nleft' \in [Writers -> Nat]
    <2>0. nleft \in [Writers -> Nat]
      BY DEF BusOK
    <2>1. nleft' = nleft \/ \E n \in {0, MaxMsg} : nleft' = [nleft EXCEPT ![client] = n]
      BY DEF ClientStep, SendAck, UartStore, UartComSet, ClientAnswer, Answer, ServeCommand,
             ServeAsking, Drop, SetDeviceAttr, SetIo, SetTemp, SetRecvAttr, QueryRecv, SendData,
             UartBegin, WebStore, WebComSet, busVars
    <2> QED BY <2>0, <2>1, Sizes
  <1>3. rs_type' \in RsTypes
    <2>0. rs_type \in RsTypes /\ con_com \in [Ports -> Coms] /\ webconf.id \in Ports
      BY DEF BusOK, ConfOK
    <2>1. CASE UartComSet
      <3>1. rs_type' = rs_type \/ rs_type' = cmd.coms[next].type
        BY <2>1 DEF UartComSet
      <3>2. cmd.coms[next].type \in RsTypes
        BY <2>1, ComSetCmd, SettingTyped DEF Coms
      <3> QED BY <2>0, <3>1, <3>2
    <2>2. CASE WebComSet
      <3>1. rs_type' = con_com[webconf.id].type
        BY <2>2 DEF WebComSet
      <3> QED BY <2>0, <3>1 DEF Coms
    <2>3. CASE SendAck \/ UartStore \/ ClientAnswer \/ WebStore
      BY <2>0, <2>3 DEF SendAck, UartStore, ClientAnswer, Answer, WebStore, busVars
    <2>4. CASE ServeCommand
      BY <2>0, <2>4 DEF ServeCommand, ServeAsking, Drop, SetDeviceAttr, SetIo, SetTemp,
             SetRecvAttr, QueryRecv, SendData, UartBegin, busVars
    <2> QED BY <2>1, <2>2, <2>3, <2>4 DEF ClientStep
  <1> QED BY <1>1, <1>2, <1>3 DEF BusOK

\* An overrun is never taken back.
LEMMA OverrunStep ==
    ASSUME PcOK, Step
    PROVE  overrun' = overrun \/ overrun' = "yes"
  <1>1. ASSUME NEW p \in Ports,
               ComStep(p) \/ ComLock(p) \/ Arrive(p) \/ Session(p) \/ PeerReads(p)
        PROVE  overrun' = overrun \/ overrun' = "yes"
    BY <1>1 DEF ComStep, ComTest, ComRead, ComSend, ComUnlock, Count, Copy, IntMake, IntWrite,
       Answer, ComLock, Lock, Arrive, Session, PeerReads, ansVars, Overrun
  <1>2. ASSUME NEW w \in Writers, WriteStep(w) \/ WriterLock(w) \/ (w \in NetThreads /\ NetData(w))
        PROVE  overrun' = overrun
    BY <1>2, WriteFrame DEF ansVars
  <1>3. CASE ClientStep \/ WebStore \/ WebComSet
    BY <1>3 DEF ClientStep, SendAck, UartStore, UartComSet, ClientAnswer, Answer, WebStore,
       WebComSet, ansVars
  <1>4. CASE ServeCommand
    BY <1>4 DEF ServeCommand, ServeAsking, Drop, SetDeviceAttr, SetIo, SetTemp, SetRecvAttr,
       QueryRecv, SendData, UartBegin, Overrun
  <1> QED BY <1>1, <1>2, <1>3, <1>4 DEF Step

LEMMA UartNext ==
    ASSUME PcOK, BusOK, UartOK, Step
    PROVE  UartOK'
  <1>0. overrun' \in {"yes", "no"}
    <2>1. overrun' = overrun \/ overrun' = "yes"
      BY OverrunStep
    <2> QED BY <2>1 DEF UartOK
  <1>1. CASE UNCHANGED uartVars
    BY <1>0, <1>1 DEF UartOK, uartVars
  <1>2. ASSUME NEW p \in Ports, Count(p) PROVE UartOK'
    <2>0. uart_cnt[p] + len[p] \in Nat /\ rcvd[p] + len[p] \in Nat
      <3>1. len[p] \in Nat
        BY DEF BusOK
      <3>2. uart_cnt[p] \in Nat /\ rcvd[p] \in Nat
        BY CountsTyped
      <3> QED BY <3>1, <3>2
    <2>1. (uart_cnt[p] + len[p]) % CntModulus \in 0..(CntModulus - 1)
      BY <2>0, CountType
    <2>2. /\ uart_cnt' = [uart_cnt EXCEPT ![p] = (@ + len[p]) % CntModulus]
          /\ rcvd' = [rcvd EXCEPT ![p] = @ + len[p]]
          /\ uart_buf' = uart_buf
      BY <1>2 DEF Count
    <2>3. uart_cnt' \in [Ports -> 0..(CntModulus - 1)]
      BY <2>1, <2>2 DEF UartOK
    <2>4. rcvd' \in [Ports -> Nat]
      BY <2>0, <2>2 DEF UartOK
    <2> QED BY <1>0, <2>2, <2>3, <2>4 DEF UartOK
  <1>3. ASSUME NEW p \in Ports, Copy(p) PROVE UartOK'
    <2>0. len[p] \in Nat /\ rcvd[p] \in Nat /\ uart_buf[p] \in [1..UART_RECV_BUF_SIZE -> Int]
      <3>1. len[p] \in Nat
        BY DEF BusOK
      <3> QED BY <3>1, CountsTyped
    <2>1. CopyAt(p) \in Int
      <3>1. uart_cnt[p] - len[p] \in Int
        BY <2>0, CountsTyped
      <3>2. (uart_cnt[p] - len[p]) % CntModulus \in Int
        BY <3>1, SerialAssumption
      <3> QED BY <3>2 DEF CopyAt
    <2>2. Copied(p) \in [1..UART_RECV_BUF_SIZE -> Int]
      <3>1. ASSUME NEW k \in 1..UART_RECV_BUF_SIZE
            PROVE  rcvd[p] - len[p] + (k - CopyAt(p)) \in Int /\ uart_buf[p][k] \in Int
        BY <2>0, <2>1, Sizes
      <3> QED BY <3>1 DEF Copied
    <2>3. uart_buf' = [uart_buf EXCEPT ![p] = Copied(p)] /\ UNCHANGED <<uart_cnt, rcvd>>
      BY <1>3 DEF Copy
    <2> QED BY <1>0, <2>2, <2>3 DEF UartOK
  <1>4. ASSUME NEW p \in Ports,
               \/ ComTest(p) \/ ComRead(p) \/ ComSend(p) \/ ComUnlock(p) \/ IntMake(p) \/ IntWrite(p)
               \/ ComLock(p) \/ Arrive(p) \/ Session(p) \/ PeerReads(p)
        PROVE  UNCHANGED uartVars
    BY <1>4 DEF ComTest, ComRead, ComSend, ComUnlock, IntMake, IntWrite, Answer, ComLock, Lock,
                Arrive, Session, PeerReads
  <1> QED
    BY <1>1, <1>2, <1>3, <1>4, WriteFrame, ClientFrame, WebFrame DEF Step, ComStep

LEMMA ClientConf ==
    ASSUME PcOK, ConfOK, CmdOK, ClientStep \/ ServeCommand
    PROVE  ConfOK'
  <1>0. /\ con_com \in [Ports -> Coms] /\ tty \in [Ports -> Lines]
        /\ web \in {"idle", "comset"} /\ stray \subseteq Ports
        /\ webconf \in [id : Ports, all : {"yes", "no"}, com : Coms]
    BY DEF ConfOK
  <1>1. UNCHANGED <<web, webconf>>
    BY ClientFrame DEF webVars
  <1>2. con_com' \in [Ports -> Coms]
    <2>1. CASE UartStore
      <3>1. UartAttr(cmd.args[next], cmd.coms[next]) \in Coms
        BY <2>1, SettingTyped DEF Setting, UartStore
      <3>2. \/ con_com' = con_com
            \/ \E id \in Ports : con_com' = [con_com EXCEPT ![id] =
                                               UartAttr(cmd.args[next], cmd.coms[next])]
        BY <2>1, Zenon DEF UartStore
      <3> QED BY <1>0, <3>1, <3>2
    <2>2. ASSUME NEW m \in Commands, SetRecvAttr(m) PROVE con_com' \in [Ports -> Coms]
      <3>1. con_com' = con_com \/ \E id \in Ports, r \in {"INT", "POLL"} :
                                     con_com' = [con_com EXCEPT ![id].recv = r]
        BY <2>2 DEF SetRecvAttr
      <3>2. ASSUME NEW id \in Ports, NEW r \in {"INT", "POLL"}
            PROVE  [con_com[id] EXCEPT !.recv = r] \in Coms
        BY <1>0 DEF Coms
      <3> QED BY <1>0, <3>1, <3>2
    <2>3. CASE SendAck \/ UartComSet \/ ClientAnswer
      BY <1>0, <2>3 DEF SendAck, UartComSet, ClientAnswer, Answer, confVars
    <2>4. ASSUME NEW m \in Commands,
                 \/ ServeAsking(m) \/ Drop(m) \/ SetDeviceAttr(m) \/ SetIo(m) \/ SetTemp(m)
                 \/ QueryRecv(m) \/ SendData(m) \/ UartBegin(m)
          PROVE  con_com' \in [Ports -> Coms]
      BY <1>0, <2>4 DEF ServeAsking, Drop, SetDeviceAttr, SetIo, SetTemp, QueryRecv, SendData,
                        UartBegin, confVars
    <2> QED BY <2>1, <2>2, <2>3, <2>4 DEF ClientStep, ServeCommand
  <1>3. tty' \in [Ports -> Lines]
    <2>1. CASE UartComSet
      <3>1. cmd.coms[next] \in Coms
        BY <2>1, ComSetCmd, SettingTyped
      <3>2. tty' = tty \/ \E id \in Ports : tty' = [tty EXCEPT ![id] = setTTY(cmd.coms[next], @)]
        BY <2>1 DEF UartComSet
      <3> QED BY <1>0, <3>1, <3>2, LineType
    <2>2. CASE SendAck \/ UartStore \/ ClientAnswer
      BY <1>0, <2>2 DEF SendAck, UartStore, ClientAnswer, Answer, confVars
    <2>3. CASE ServeCommand
      BY <1>0, <2>3, ServeFrame DEF ServeCommand, UartBegin, confVars
    <2> QED BY <2>1, <2>2, <2>3 DEF ClientStep
  <1>4. stray' \subseteq Ports
    <2>1. CASE UartStore
      <3>1. stray' = stray \/ \E p \in Ports : stray' \in {stray \cup {p}, stray \ {p}}
        BY <2>1, Zenon DEF UartStore, Stray
      <3> QED BY <1>0, <3>1
    <2>2. CASE SendAck \/ UartComSet \/ ClientAnswer
      BY <1>0, <2>2 DEF SendAck, UartComSet, ClientAnswer, Answer, confVars
    <2>3. CASE ServeCommand
      BY <1>0, <2>3, ServeFrame DEF ServeCommand, UartBegin, confVars
    <2> QED BY <2>1, <2>2, <2>3 DEF ClientStep
  <1> QED BY <1>0, <1>1, <1>2, <1>3, <1>4 DEF ConfOK

LEMMA WebConf ==
    ASSUME ConfOK, WebStore \/ WebComSet
    PROVE  ConfOK'
  <1>0. /\ con_com \in [Ports -> Coms] /\ tty \in [Ports -> Lines]
        /\ web \in {"idle", "comset"} /\ stray \subseteq Ports
        /\ webconf \in [id : Ports, all : {"yes", "no"}, com : Coms]
    BY DEF ConfOK
  <1>1. CASE WebStore
    <2>1. PICK p \in Ports, c \in WebComs, all \in {"yes", "no"} :
             /\ webconf' = [id |-> p, all |-> all, com |-> c]
             /\ con_com' = IF all = "no" THEN [con_com EXCEPT ![p] = c]
                           ELSE [q \in Ports |-> [c EXCEPT !.recv = con_com[q].recv]]
             /\ stray' = LET named == Stray(p, pc[client] = "comset"
                                                /\ RESET_MSB(cmd.args[next].seq) = p)
                         IN IF all = "no" THEN named ELSE named \cup (Ports \ {p})
      BY <1>1, Zenon DEF WebStore
    <2>2. c \in Coms
      BY InputAssumption
    <2>3. \A q \in Ports : [c EXCEPT !.recv = con_com[q].recv] \in Coms
      BY <1>0, <2>2 DEF Coms
    <2>4. con_com' \in [Ports -> Coms]
      BY <1>0, <2>1, <2>2, <2>3
    <2>5. stray' \subseteq Ports
      BY <1>0, <2>1 DEF Stray
    <2>6. webconf' \in [id : Ports, all : {"yes", "no"}, com : Coms]
      BY <2>1, <2>2
    <2>7. web' = "comset" /\ tty' = tty
      BY <1>1 DEF WebStore
    <2> QED BY <1>0, <2>4, <2>5, <2>6, <2>7 DEF ConfOK
  <1>2. CASE WebComSet
    <2>1. /\ tty' = [tty EXCEPT ![webconf.id] = setTTY(con_com[webconf.id], @)]
          /\ web' = "idle" /\ UNCHANGED <<con_com, stray, webconf>>
      BY <1>2 DEF WebComSet
    <2>2. webconf.id \in Ports
      BY <1>0
    <2>3. setTTY(con_com[webconf.id], tty[webconf.id]) \in Lines
      BY <1>0, <2>2, LineType
    <2> QED BY <1>0, <2>1, <2>2, <2>3 DEF ConfOK
  <1> QED BY <1>1, <1>2

LEMMA ConfNext ==
    ASSUME PcOK, ConfOK, CmdOK, Step
    PROVE  ConfOK'
  <1>1. CASE UNCHANGED <<confVars, webVars>>
    BY <1>1 DEF ConfOK, confVars, webVars
  <1> QED BY <1>1, ComFrame, WriteFrame, ClientConf, WebConf DEF Step

\* The threads are where their code can be, and the bus, the ports' parameters and
\* the receive buffers have the program's types, whatever the alarm server and the
\* page send (CmdOK: a SET_UART_ATTR in progress names ports there are).
Typed == TypeOK /\ CmdOK

LEMMA TypedInit == Init => Typed
  <1>1. Init => pc[client] = "idle"
    BY DEF Init
  <1> QED BY <1>1, TypeInit DEF Typed, CmdOK, Setting

LEMMA TypedNext ==
    ASSUME Typed, [Next]_vars
    PROVE  Typed'
  <1>0. PcOK /\ BusOK /\ UartOK /\ ConfOK /\ CmdOK
    BY DEF Typed, TypeOK
  <1>1. CASE Step
    <2>1. BusOK'
      BY <1>0, <1>1, ComBus, WriteBus, ClientBus DEF Step
    <2> QED
      BY <1>0, <1>1, <2>1, PcNext, UartNext, ConfNext, CmdNext DEF Typed, TypeOK
  <1>2. CASE UNCHANGED vars
    BY <1>0, <1>2, Tuples
    DEF Typed, TypeOK, PcOK, BusOK, UartOK, ConfOK, CmdOK, Setting
  <1> QED BY <1>1, <1>2, Steps

\* The threads of com_proc, the writers and the client thread are where their code can
\* be, and the counts, buffers and parameters have the program's types (com.c, client.c).
THEOREM TypeCorrect == Spec => []TypeOK
  <1>1. Typed => TypeOK
    BY DEF Typed
  <1> QED BY <1>1, TypedInit, TypedNext, PTL DEF Spec

-----------------------------------------------------------------------------
(* Poll mode: whole frames *)

LEMMA ComFrames ==
    ASSUME Typed, FramesInv, NEW p \in Ports,
           ComStep(p) \/ ComLock(p) \/ Arrive(p) \/ Session(p) \/ PeerReads(p)
    PROVE  FramesInv'
  <1> SUFFICES ASSUME intmode' = "no" PROVE FramesInv'
    BY DEF FramesInv
  <1>0. PcOK
    BY DEF Typed, TypeOK
  <1>1. /\ UNCHANGED <<con_com, cmd, intmode>> /\ pc'[client] = pc[client]
        /\ \A q \in Ports \ {p} : pc'[q] = pc[q]
    BY <1>0, ComFrame DEF confVars
  <1>2. /\ mixed = "no" /\ con_com[p].recv = "POLL" /\ pc[p] \notin {"copyint", "intmake", "answer"}
        /\ \A q \in Ports :
             /\ con_com[q].recv = "POLL"
             /\ pc[q] \notin {"copyint", "intmake", "answer"}
             /\ Setting => cmd.coms[q].recv = "POLL"
        /\ pc[client] = "answer" => buf_send.by = client
    BY <1>1 DEF FramesInv
  <1>3. UNCHANGED <<mixed, buf_send>>
    BY <1>2 DEF ComStep, ComTest, ComRead, ComSend, ComUnlock, Count, Copy, IntMake, IntWrite,
                Answer, ComLock, Lock, Arrive, Session, PeerReads, ansVars
  <1>4. pc'[p] \notin {"copyint", "intmake", "answer"}
    <2>1. pc' = pc \/ \E to \in ComPcs \ {"copyint", "intmake", "answer"} : pc' = [pc EXCEPT ![p] = to]
      BY <1>2 DEF ComStep, ComTest, ComRead, ComSend, ComUnlock, Count, Copy, IntMake, IntWrite,
             Answer, ComLock, Lock, Arrive, Session, PeerReads, Goto, ComPcs
    <2> QED BY <1>0, <1>2, <2>1 DEF PcOK
  <1> QED BY <1>1, <1>2, <1>3, <1>4 DEF FramesInv, Setting

LEMMA ClientFrames ==
    ASSUME Typed, FramesInv, ClientStep \/ ServeCommand
    PROVE  FramesInv'
  <1>0. PcOK /\ CmdOK /\ ConfOK
    BY DEF Typed, TypeOK
  <1> SUFFICES ASSUME intmode' = "no" PROVE FramesInv'
    BY DEF FramesInv
  <1>1. \A p \in Ports : pc'[p] = pc[p]
    BY <1>0, ClientFrame
  <1>2. intmode = "no"
    BY DEF ClientStep, SendAck, UartStore, UartComSet, ClientAnswer, Answer, ServeCommand,
           ServeAsking, Drop, SetDeviceAttr, SetIo, SetTemp, SetRecvAttr, QueryRecv, SendData,
           UartBegin, ansVars
  <1>3. /\ mixed = "no"
        /\ pc[client] = "answer" => buf_send.by = client
        /\ \A q \in Ports :
             /\ con_com[q].recv = "POLL"
             /\ pc[q] \notin {"copyint", "intmake", "answer"}
             /\ Setting => cmd.coms[q].recv = "POLL"
    BY <1>2 DEF FramesInv
  <1>4. mixed' = "no"
    <2>1. CASE ClientAnswer
      BY <1>3, <2>1 DEF ClientAnswer, Answer
    <2>2. CASE SendAck \/ UartStore \/ UartComSet \/ ServeCommand
      <3>1. mixed' = mixed
        BY <2>2 DEF SendAck, UartStore, UartComSet, ServeCommand, ServeAsking, Drop,
               SetDeviceAttr, SetIo, SetTemp, SetRecvAttr, QueryRecv, SendData, UartBegin
      <3> QED BY <1>3, <3>1
    <2> QED BY <2>1, <2>2 DEF ClientStep
  <1>5. /\ pc'[client] = "answer" => buf_send'.by = client
        /\ \A q \in Ports : con_com'[q].recv = "POLL" /\ (Setting' => cmd'.coms[q].recv = "POLL")
    <2> DEFINE Good == /\ pc'[client] = "answer" => buf_send'.by = client
                       /\ \A q \in Ports :
                            /\ con_com'[q].recv = "POLL"
                            /\ Setting' => cmd'.coms[q].recv = "POLL"
    <2>0. Frame(client, "x", "x").by = client
          /\ \A a, b : Frame(client, a, b).by = client
          /\ \A i : make_ack_query_uart_recv_data(client, i).by = client
      BY DEF Frame, make_ack_query_uart_recv_data
    <2>1. CASE SendAck \/ ClientAnswer
      <3>1. UNCHANGED <<con_com, cmd>> /\ pc'[client] \in {"idle", "answer"}
        BY <1>0, <2>1 DEF SendAck, ClientAnswer, Answer, Goto, PcOK, confVars
      <3>2. pc'[client] = "answer" => buf_send'.by = client
        BY <1>0, <2>0, <2>1 DEF SendAck, ClientAnswer, Answer, Goto, PcOK
      <3> QED BY <1>3, <3>1, <3>2 DEF Setting
    <2>2. CASE UartStore
      <3> DEFINE c == UartAttr(cmd.args[next], cmd.coms[next])
      <3>1. Setting
        BY <2>2 DEF UartStore, Setting
      <3>2. c.recv = "POLL" /\ cmd.coms \in [Ports -> Coms] /\ next \in Ports
            /\ DOMAIN cmd = {"id", "args", "coms", "sensor"}
        <4>1. cmd.coms[next] \in Coms /\ next \in Ports /\ cmd.coms \in [Ports -> Coms]
              /\ DOMAIN cmd = {"id", "args", "coms", "sensor"}
          BY <1>0, <3>1, SettingTyped
        <4>2. cmd.coms[next].recv = "POLL"
          BY <1>3, <3>1, <4>1
        <4>3. c.recv = cmd.coms[next].recv
          BY <4>1 DEF UartAttr, Coms
        <4> QED BY <4>1, <4>2, <4>3
      <3>3. con_com' = con_com \/ \E id \in Ports : con_com' = [con_com EXCEPT ![id] = c]
        BY <2>2, Zenon DEF UartStore
      <3>4. \A q \in Ports : con_com'[q].recv = "POLL"
        BY <1>0, <1>3, <3>2, <3>3 DEF ConfOK
      <3>5. CASE pc' = [pc EXCEPT ![client] = "answer"] /\ buf_send' = Frame(client, "SET_UART_ATTR", "FAIL")
        <4>1. pc'[client] = "answer" /\ buf_send'.by = client
          BY <1>0, <2>0, <3>5 DEF PcOK
        <4> QED BY <3>4, <4>1 DEF Setting
      <3>6. ASSUME NEW s, cmd' = [cmd EXCEPT !.sensor = s, !.coms[next] = c],
                   pc' = [pc EXCEPT ![client] = "comset"]
            PROVE  Good
        <4>1. cmd'.coms = [cmd.coms EXCEPT ![next] = c]
          BY <3>2, <3>6
        <4>2. \A q \in Ports : cmd'.coms[q].recv = "POLL"
          BY <1>3, <3>1, <3>2, <4>1
        <4>3. pc'[client] = "comset"
          BY <1>0, <3>6 DEF PcOK
        <4> QED BY <3>4, <4>2, <4>3
      <3> QED BY <2>2, <3>5, <3>6, Zenon DEF UartStore, UartFail, Goto
    <2>3. CASE UartComSet
      <3>1. con_com' = con_com /\ Setting
        BY <1>0, <2>3, ComSetCmd DEF UartComSet
      <3>2. \/ cmd' = cmd /\ pc' = [pc EXCEPT ![client] = "uattr"]
            \/ /\ pc' = [pc EXCEPT ![client] = "answer"]
               /\ buf_send' = Frame(client, "SET_UART_ATTR", "PASS")
        BY <2>3 DEF UartComSet, Goto
      <3>3. \/ cmd' = cmd /\ pc'[client] = "uattr"
            \/ pc'[client] = "answer" /\ buf_send'.by = client
        BY <1>0, <2>0, <3>2 DEF PcOK
      <3> QED BY <1>3, <3>1, <3>3 DEF Setting
    <2>4. ASSUME NEW m \in Commands,
                 \/ ServeAsking(m) \/ Drop(m) \/ SetDeviceAttr(m) \/ SetIo(m) \/ SetTemp(m)
                 \/ SetRecvAttr(m) \/ QueryRecv(m) \/ SendData(m)
          PROVE  Good
      <3>1. ~Setting'
        BY <1>0, <2>4, ServeFrame
      <3>2. con_com' = con_com \/ \E id \in Ports : con_com' = [con_com EXCEPT ![id].recv = "POLL"]
        <4>1. CASE SetRecvAttr(m)
          BY <1>2, <4>1 DEF SetRecvAttr
        <4>2. CASE \/ ServeAsking(m) \/ Drop(m) \/ SetDeviceAttr(m) \/ SetIo(m) \/ SetTemp(m)
                   \/ QueryRecv(m) \/ SendData(m)
          BY <4>2 DEF ServeAsking, Drop, SetDeviceAttr, SetIo, SetTemp, QueryRecv, SendData, confVars
        <4> QED BY <2>4, <4>1, <4>2
      <3>3. \A q \in Ports : con_com'[q].recv = "POLL"
        BY <1>0, <1>3, <3>2 DEF ConfOK, Coms
      <3>4. pc[client] = "idle"
        BY <2>4 DEF ServeAsking, Drop, SetDeviceAttr, SetIo, SetTemp, SetRecvAttr, QueryRecv,
                    SendData, Take
      <3>5. pc'[client] = "answer" => buf_send'.by = client
        <4>1. CASE ServeAsking(m) \/ SetDeviceAttr(m) \/ QueryRecv(m)
          BY <2>0, <4>1 DEF ServeAsking, SetDeviceAttr, QueryRecv
        <4>2. CASE Drop(m) \/ SetIo(m) \/ SetTemp(m) \/ SetRecvAttr(m)
          BY <3>4, <4>2 DEF Drop, SetIo, SetTemp, SetRecvAttr
        <4>3. CASE SendData(m)
          <5>1. \/ pc' = [pc EXCEPT ![client] = Dispatch("ack")]
                \/ \E i : buf_send' = Frame(client, i, 0)
            BY <4>3 DEF SendData, Goto
          <5>2. Dispatch("ack") # "answer"
            BY DEF Dispatch
          <5> QED BY <1>0, <2>0, <5>1, <5>2 DEF PcOK
        <4> QED BY <2>4, <4>1, <4>2, <4>3
      <3> QED BY <3>1, <3>3, <3>5
    <2>5. ASSUME NEW m \in Commands, UartBegin(m) PROVE Good
      <3>1. con_com' = con_com
        BY <2>5 DEF UartBegin, confVars
      <3>2. CASE m.b4 \in Ports
        <4>1. cmd' = [id |-> m.id, args |-> m.args, coms |-> con_com,
                      sensor |-> [con_sensor["UART"] EXCEPT !.num = m.b4]]
              /\ pc' = [pc EXCEPT ![client] = "uattr"]
          BY <2>5, <3>2 DEF UartBegin, Goto
        <4>2. cmd'.coms = con_com
          BY <4>1
        <4>3. pc'[client] = "uattr"
          BY <1>0, <4>1 DEF PcOK
        <4> QED BY <1>3, <3>1, <4>2, <4>3
      <3>3. CASE m.b4 \notin Ports
        <4>1. pc' = [pc EXCEPT ![client] = "answer"] /\ buf_send' = Frame(client, "SET_UART_ATTR", "FAIL")
          BY <2>5, <3>3 DEF UartBegin, UartFail, Goto
        <4>2. pc'[client] = "answer" /\ buf_send'.by = client
          BY <1>0, <2>0, <4>1 DEF PcOK
        <4> QED BY <1>3, <3>1, <4>2 DEF Setting
      <3> QED BY <3>2, <3>3
    <2> QED BY <2>1, <2>2, <2>3, <2>4, <2>5 DEF ClientStep, ServeCommand
  <1> QED BY <1>1, <1>3, <1>4, <1>5 DEF FramesInv

LEMMA WebFrames ==
    ASSUME Typed, FramesInv, WebStore \/ WebComSet
    PROVE  FramesInv'
  <1>0. ConfOK
    BY DEF Typed, TypeOK
  <1>1. UNCHANGED <<pc, cmd, buf_send, mixed>>
    BY WebFrame
  <1>2. CASE WebStore
    <2>1. PICK p \in Ports, c \in WebComs, all \in {"yes", "no"} :
             /\ con_com' = IF all = "no" THEN [con_com EXCEPT ![p] = c]
                           ELSE [q \in Ports |-> [c EXCEPT !.recv = con_com[q].recv]]
             /\ intmode' = IF all = "no" /\ c.recv = "INT" THEN "yes" ELSE intmode
      BY <1>2, Zenon DEF WebStore
    <2>2. c \in Coms
      BY InputAssumption
    <2>3. intmode' = "no" => \A q \in Ports : con_com[q].recv = "POLL" => con_com'[q].recv = "POLL"
      BY <1>0, <2>1, <2>2 DEF Coms, ConfOK
    <2>4. intmode' = "no" => intmode = "no"
      BY <2>1
    <2> QED BY <1>1, <2>3, <2>4 DEF FramesInv, Setting
  <1>3. CASE WebComSet
    <2>1. UNCHANGED <<con_com, intmode>>
      BY <1>3 DEF WebComSet, ansVars
    <2> QED BY <1>1, <2>1 DEF FramesInv, Setting
  <1> QED BY <1>2, <1>3

LEMMA WriteFrames ==
    ASSUME Typed, FramesInv, NEW w \in Writers,
           WriteStep(w) \/ WriterLock(w) \/ (w \in NetThreads /\ NetData(w))
    PROVE  FramesInv'
  <1>0. PcOK
    BY DEF Typed, TypeOK
  <1>1. UNCHANGED <<con_com, cmd, buf_send, mixed, intmode>>
    BY <1>0, WriteFrame DEF confVars, ansVars
  <1>2. \A p \in Ports : pc'[p] = pc[p]
    BY <1>0, WriteFrame
  <1>3. pc'[client] = pc[client] \/ pc'[client] \in {"ack", "write485"}
    BY <1>0, WriteFrame
  <1> QED BY <1>1, <1>2, <1>3 DEF FramesInv, Setting

\* As long as no port has been put into int mode, no thread writes to the alarm server
\* a frame that another one has made (buf_send in client.c and com.c).
THEOREM FramesAreWhole == Spec => []FramesWhole
  <1>1. Init => FramesInv
    BY KindsApart DEF Init, FramesInv, Setting, DefaultCom
  <1>2. Typed /\ FramesInv /\ [Next]_vars => FramesInv'
    <2> SUFFICES ASSUME Typed, FramesInv, [Next]_vars PROVE FramesInv'
      OBVIOUS
    <2>1. CASE UNCHANGED vars
      BY <2>1, Tuples DEF FramesInv, Setting
    <2> QED
      BY <2>1, ComFrames, WriteFrames, ClientFrames, WebFrames, Steps DEF Step
  <1>3. FramesInv => FramesWhole
    BY DEF FramesInv, FramesWhole
  <1> QED BY <1>1, <1>2, <1>3, TypedInit, TypedNext, PTL DEF Spec

-----------------------------------------------------------------------------
(* The receive buffer of the first port *)

LEMMA FillLength ==
    ASSUME NEW S, NEW n \in Nat, NEW s \in [1..n -> S]
    PROVE  Len(s) = n
  <1>1. s \in Seq(S)
    OBVIOUS
  <1>2. DOMAIN s = 1..Len(s) /\ Len(s) \in Nat
    BY <1>1
  <1>3. \A m \in Nat : 1..m = 1..n => m = n
    OBVIOUS
  <1> QED BY <1>2, <1>3

\* The invariant without the property that it keeps.
BufferInv ==
    /\ Copying(1) => len[1] <= rcvd[1]
    /\ rcvd[1] < CntModulus => uart_cnt[1] = rcvd[1]
    /\ Held(1) < UART_RECV_BUF_SIZE =>
         \A k \in 1..UART_RECV_BUF_SIZE : uart_buf[1][k] = IF k <= Held(1) THEN k ELSE 0

LEMMA CountsOfOne ==
    ASSUME Typed
    PROVE  /\ uart_cnt[1] \in Nat /\ uart_cnt[1] < CntModulus
           /\ len[1] \in Nat /\ rcvd[1] \in Nat /\ Held(1) \in Int
           /\ uart_buf[1] \in [1..UART_RECV_BUF_SIZE -> Int]
  <1>1. UartOK /\ BusOK /\ 1 \in Ports
    BY DEF Typed, TypeOK
  <1>2. len[1] \in Nat
    BY <1>1 DEF BusOK
  <1>3. rcvd[1] \in Nat
    BY <1>1, CountsTyped
  <1>4. Held(1) \in Int
    BY <1>2, <1>3 DEF Held
  <1> QED BY <1>1, <1>2, <1>4, CountsTyped

\* Counting: what is held stays, the count goes up with what has been received.
LEMMA CountKeeps ==
    ASSUME Typed, BufferInv, Count(1)
    PROVE  BufferInv'
  <1>1. /\ pc[1] = "count" /\ uart_cnt'[1] = (uart_cnt[1] + len[1]) % CntModulus
        /\ rcvd'[1] = rcvd[1] + len[1] /\ len' = len /\ uart_buf' = uart_buf
        /\ pc'[1] \in {"copyint", "copypoll"}
    BY DEF Count, Goto, Typed, TypeOK, PcOK, UartOK, busVars
  <1>2. Held(1) = rcvd[1] /\ Held(1)' = rcvd[1]
    BY <1>1, CountsOfOne DEF Held
  <1>3. rcvd'[1] < CntModulus => uart_cnt'[1] = rcvd'[1]
    <2> SUFFICES ASSUME rcvd'[1] < CntModulus PROVE uart_cnt'[1] = rcvd'[1]
      OBVIOUS
    <2>1. rcvd[1] < CntModulus
      BY <1>1, CountsOfOne, Sizes
    <2>2. uart_cnt[1] = rcvd[1]
      BY <2>1 DEF BufferInv
    <2>3. rcvd[1] + len[1] \in Nat /\ rcvd[1] + len[1] < CntModulus
      BY <1>1, CountsOfOne
    <2>4. (rcvd[1] + len[1]) % CntModulus = rcvd[1] + len[1]
      BY <2>3, CountType
    <2> QED BY <1>1, <2>2, <2>4
  <1>4. len'[1] <= rcvd'[1]
    BY <1>1, CountsOfOne
  <1> QED BY <1>1, <1>2, <1>3, <1>4 DEF BufferInv

\* Copying: the chunk goes behind what is held, as long as it fits.
LEMMA CopyKeeps ==
    ASSUME Typed, BufferInv, Copy(1)
    PROVE  BufferInv'
  <1>1. /\ Copying(1) /\ uart_buf'[1] = Copied(1) /\ UNCHANGED <<uart_cnt, rcvd>>
        /\ ~Copying(1)'
    BY DEF Copy, Copying, Goto, Typed, TypeOK, PcOK, UartOK
  <1>2. Held(1) = rcvd[1] - len[1] /\ Held(1)' = rcvd[1]
    BY <1>1 DEF Held, Copying
  <1>3. ASSUME rcvd[1] < UART_RECV_BUF_SIZE, NEW k \in 1..UART_RECV_BUF_SIZE
        PROVE  uart_buf'[1][k] = IF k <= rcvd[1] THEN k ELSE 0
    <2> DEFINE r == rcvd[1]
               l == len[1]
    <2>1. r \in Nat /\ l \in Nat /\ l <= r /\ r < CntModulus /\ k \in Int
      BY <1>1, <1>3, CountsOfOne, Sizes DEF BufferInv
    <2>2. uart_cnt[1] = r
      BY <2>1 DEF BufferInv
    <2>3. CopyAt(1) = r - l
      <3>1. r - l \in Nat /\ r - l < CntModulus
        BY <2>1, Sizes
      <3>2. (r - l) % CntModulus = r - l
        BY <3>1, CountType
      <3> QED BY <2>2, <3>2 DEF CopyAt
    <2>4. uart_buf[1][k] = IF k <= r - l THEN k ELSE 0
      BY <1>2, <1>3, <2>1, Sizes DEF BufferInv
    <2>5. Copied(1)[k] = IF k - (r - l) \in 1..l THEN r - l + (k - (r - l)) ELSE uart_buf[1][k]
      BY <1>3, <2>2, <2>3 DEF Copied
    <2> HIDE DEF r, l
    <2>6. Copied(1)[k] = IF k <= r THEN k ELSE 0
      BY <2>1, <2>4, <2>5
    <2> QED BY <1>1, <2>6 DEF r
  <1>4. rcvd'[1] < CntModulus => uart_cnt'[1] = rcvd'[1]
    BY <1>1 DEF BufferInv
  <1> QED BY <1>1, <1>2, <1>3, <1>4 DEF BufferInv

LEMMA BufferNext ==
    ASSUME Typed, BufferInv, Step
    PROVE  BufferInv'
  <1>0. PcOK
    BY DEF Typed, TypeOK
  <1>1. ASSUME UNCHANGED uartVars, Copying(1)' = Copying(1), Copying(1) => len'[1] = len[1]
        PROVE  BufferInv'
    BY <1>1 DEF BufferInv, Held, Copying, uartVars
  <1>2. ASSUME NEW p \in Ports,
               \/ ComTest(p) \/ ComRead(p) \/ ComSend(p) \/ ComUnlock(p) \/ IntMake(p) \/ IntWrite(p)
               \/ ComLock(p) \/ Arrive(p) \/ Session(p) \/ PeerReads(p)
        PROVE  BufferInv'
    <2>1. UNCHANGED uartVars
      BY <1>2 DEF ComTest, ComRead, ComSend, ComUnlock, IntMake, IntWrite, Answer, ComLock,
                  Lock, Arrive, Session, PeerReads
    <2>2. CASE p # 1
      <3>1. pc'[1] = pc[1]
        BY <1>0, <1>2, <2>2, ComFrame DEF ComStep
      <3>2. len'[1] = len[1]
        <4>1. len' = len \/ \E n : len' = [len EXCEPT ![p] = n]
          BY <1>2 DEF ComTest, ComRead, ComSend, ComUnlock, IntMake, IntWrite, Answer,
               ComLock, Lock, Arrive, Session, PeerReads, busVars
        <4> QED BY <2>2, <4>1 DEF Typed, TypeOK, BusOK
      <3> QED BY <1>1, <2>1, <3>1, <3>2 DEF Copying
    <2>3. CASE p = 1 /\ pc' = pc
      <3>1. UNCHANGED len \/ pc[1] \in {"read232", "read485", "unlock"}
        BY <1>2, <2>3 DEF ComTest, ComRead, ComSend, ComUnlock, IntMake, IntWrite, Answer,
               ComLock, Lock, Arrive, Session, PeerReads, busVars
      <3> QED BY <1>1, <2>1, <2>3, <3>1 DEF Copying
    <2>4. CASE p = 1 /\ pc' # pc
      <3>1. PICK to \in ComPcs \ {"copypoll", "copyint"} : pc' = [pc EXCEPT ![1] = to]
        BY <1>2, <2>4 DEF ComTest, ComRead, ComSend, ComUnlock, IntMake, IntWrite, Answer,
               ComLock, Lock, Arrive, Session, PeerReads, Goto, ComPcs
      <3>2. pc[1] \notin {"copypoll", "copyint"}
        BY <1>2, <2>4 DEF ComTest, ComRead, ComSend, ComUnlock, IntMake, IntWrite, Answer,
               ComLock, Lock, Arrive, Session, PeerReads
      <3>3. pc'[1] \notin {"copypoll", "copyint"}
        BY <1>0, <3>1 DEF PcOK
      <3> QED BY <1>1, <2>1, <3>2, <3>3 DEF Copying
    <2> QED BY <2>2, <2>3, <2>4
  <1>3. ASSUME Count(2) \/ Copy(2)
        PROVE  BufferInv'
    <2>1. pc'[1] = pc[1]
      BY <1>0, <1>3, ComFrame DEF ComStep
    <2>2. uart_cnt'[1] = uart_cnt[1] /\ rcvd'[1] = rcvd[1] /\ len'[1] = len[1]
          /\ uart_buf'[1] = uart_buf[1]
      BY <1>3 DEF Count, Copy, busVars, Typed, TypeOK, BusOK, UartOK
    <2> QED BY <2>1, <2>2 DEF BufferInv, Held, Copying
  <1>4. ASSUME NEW w \in Writers, WriteStep(w) \/ WriterLock(w) \/ (w \in NetThreads /\ NetData(w))
        PROVE  BufferInv'
    BY <1>0, <1>1, <1>4, WriteFrame DEF Copying
  <1>5. CASE ClientStep \/ ServeCommand
    BY <1>0, <1>1, <1>5, ClientFrame DEF Copying
  <1>6. CASE WebStore \/ WebComSet
    BY <1>1, <1>6, WebFrame DEF Copying
  <1>7. \A p \in Ports : p = 1 \/ p = 2
    OBVIOUS
  <1> QED
    BY <1>2, <1>3, <1>4, <1>5, <1>6, <1>7, CountKeeps, CopyKeeps DEF Step, ComStep

\* The answer to a query of the first port, made from a buffer that holds that.
LEMMA QueryKept ==
    ASSUME Typed, BufferInv, NEW t,
           make_ack_query_uart_recv_data(t, 1).held <= Len(make_ack_query_uart_recv_data(t, 1).body),
           Len(make_ack_query_uart_recv_data(t, 1).body) < UART_RECV_BUF_SIZE
    PROVE  make_ack_query_uart_recv_data(t, 1).body =
             [k \in 1..Len(make_ack_query_uart_recv_data(t, 1).body) |->
                IF k <= make_ack_query_uart_recv_data(t, 1).held THEN k ELSE 0]
  <1> DEFINE f == make_ack_query_uart_recv_data(t, 1)
             n == uart_cnt[1]
  <1>1. f.body = RecvBody(1) /\ f.held = Held(1)
    BY DEF make_ack_query_uart_recv_data
  <1>2. n \in Nat /\ Held(1) \in Int /\ uart_buf[1] \in [1..UART_RECV_BUF_SIZE -> Int]
        /\ UART_RECV_BUF_SIZE \in Nat
    BY CountsOfOne, Sizes
  <1>3. RecvBody(1) = [k \in 1..n |-> IF k <= n /\ k <= UART_RECV_BUF_SIZE
                                      THEN uart_buf[1][k] ELSE Past]
    BY DEF RecvBody
  <1>4. RecvBody(1) \in [1..n -> Int]
    BY <1>2, <1>3 DEF Past
  <1>5. Len(f.body) = n
    BY <1>1, <1>2, <1>4, FillLength
  <1>6. Held(1) <= n /\ n < UART_RECV_BUF_SIZE
    BY <1>1, <1>5
  <1>7. Held(1) < UART_RECV_BUF_SIZE
    BY <1>2, <1>6
  <1>8. ASSUME NEW k \in 1..n
        PROVE  RecvBody(1)[k] = IF k <= Held(1) THEN k ELSE 0
    <2>1. k \in 1..UART_RECV_BUF_SIZE /\ k <= n /\ k <= UART_RECV_BUF_SIZE
      BY <1>2, <1>6, <1>8
    <2>2. RecvBody(1)[k] = uart_buf[1][k]
      BY <1>3, <1>8, <2>1
    <2> QED BY <1>7, <2>1, <2>2 DEF BufferInv
  <1>9. RecvBody(1) = [k \in 1..n |-> IF k <= Held(1) THEN k ELSE 0]
    BY <1>3, <1>8
  <1> QED BY <1>1, <1>5, <1>9

\* An answer that is written over buf_send is kept as Port1Kept says, or is not one
\* to a query of the first port.
LEMMA AnswersKept ==
    ASSUME Typed, BufferInv, Port1Kept, Step
    PROVE  Port1Kept'
  <1>1. CASE UNCHANGED buf_send
    BY <1>1 DEF Port1Kept
  <1>2. ASSUME NEW t, NEW id, buf_send' = make_ack_query_uart_recv_data(t, id)
        PROVE  Port1Kept'
    <2>1. buf_send'.id = id
      BY <1>2 DEF make_ack_query_uart_recv_data
    <2>2. CASE id = 1
      <3> DEFINE f == make_ack_query_uart_recv_data(t, 1)
      <3>1. buf_send' = f
        BY <1>2, <2>2
      <3>2. f.held <= Len(f.body) /\ Len(f.body) < UART_RECV_BUF_SIZE
            /\ Len(f.body) <= BUF_SEND_SIZE - 8
              => f.body = [k \in 1..Len(f.body) |-> IF k <= f.held THEN k ELSE 0]
        BY QueryKept
      <3> HIDE DEF f
      <3> QED BY <3>1, <3>2 DEF Port1Kept
    <2> QED BY <2>1, <2>2 DEF Port1Kept
  <1>3. ASSUME NEW t, NEW a, NEW b, buf_send' = Frame(t, a, b), a # "QUERY_UART_RECV_DATA"
        PROVE  Port1Kept'
    <2>1. buf_send'.ack = a
      BY <1>3 DEF Frame
    <2> QED BY <1>3, <2>1 DEF Port1Kept
  <1>4. ASSUME NEW p \in Ports, ComStep(p) \/ ComLock(p) \/ Arrive(p) \/ Session(p) \/ PeerReads(p)
        PROVE  Port1Kept'
    <2>1. UNCHANGED buf_send \/ buf_send' = make_ack_query_uart_recv_data(p, buf4)
      BY <1>4 DEF ComStep, ComTest, ComRead, ComSend, ComUnlock, Count, Copy, IntMake, IntWrite,
             Answer, ComLock, Lock, Arrive, Session, PeerReads, ansVars
    <2> QED BY <1>1, <1>2, <2>1
  <1>5. ASSUME NEW w \in Writers, WriteStep(w) \/ WriterLock(w) \/ (w \in NetThreads /\ NetData(w))
        PROVE  Port1Kept'
    BY <1>1, <1>5, WriteFrame DEF Typed, TypeOK, ansVars
  <1>6. CASE ClientStep
    <2>1. \/ UNCHANGED buf_send
          \/ \E a \in {"UART_SEND_DATA", "SET_UART_ATTR"} : \E b : buf_send' = Frame(client, a, b)
      BY <1>6, Zenon DEF ClientStep, SendAck, UartStore, UartComSet, ClientAnswer, Answer, UartFail
    <2> QED BY <1>1, <1>3, <2>1
  <1>7. ASSUME NEW m \in Commands,
               \/ ServeAsking(m) \/ Drop(m) \/ SetDeviceAttr(m) \/ SetIo(m) \/ SetTemp(m)
               \/ SetRecvAttr(m) \/ QueryRecv(m) \/ SendData(m) \/ UartBegin(m)
        PROVE  Port1Kept'
    <2>1. CASE ServeAsking(m)
      BY <1>3, <2>1 DEF ServeAsking, Asking
    <2>2. CASE SetDeviceAttr(m)
      BY <1>3, <2>2 DEF SetDeviceAttr
    <2>3. CASE QueryRecv(m)
      BY <1>2, <2>3 DEF QueryRecv
    <2>4. CASE SendData(m)
      BY <1>1, <1>3, <2>4 DEF SendData
    <2>5. CASE UartBegin(m)
      BY <1>1, <1>3, <2>5 DEF UartBegin, UartFail
    <2>6. CASE Drop(m) \/ SetIo(m) \/ SetTemp(m) \/ SetRecvAttr(m)
      BY <1>1, <2>6 DEF Drop, SetIo, SetTemp, SetRecvAttr
    <2> QED BY <1>7, <2>1, <2>2, <2>3, <2>4, <2>5, <2>6
  <1>8. CASE WebStore \/ WebComSet
    BY <1>1, <1>8, WebFrame
  <1> QED BY <1>4, <1>5, <1>6, <1>7, <1>8 DEF Step, ServeCommand

\* A query of the first port returns what the port has received from the start, in
\* order and without a gap, for as long as uart1_cnt has not wrapped and what it counts
\* fits uart1_recv_buf and, with the frame around it, buf_send.  (A longer answer is
\* an overrun of buf_send, make_ack_query_uart_recv_data in client.c.)
THEOREM Port1IsKept == Spec => []Port1Kept
  <1>1. Init => KeptInv
    <2> SUFFICES ASSUME Init PROVE KeptInv
      OBVIOUS
    <2>1. pc[1] = "test" /\ rcvd[1] = 0 /\ uart_cnt[1] = 0 /\ len[1] = 0
          /\ uart_buf[1] = [k \in 1..UART_RECV_BUF_SIZE |-> 0]
      BY DEF Init
    <2>2. Held(1) = 0 /\ ~Copying(1)
      BY <2>1 DEF Held, Copying
    <2>3. buf_send.ack = "none"
      BY DEF Init, NoFrame, Frame
    <2>4. \A k \in 1..UART_RECV_BUF_SIZE : uart_buf[1][k] = IF k <= 0 THEN k ELSE 0
      BY <2>1, Sizes
    <2> QED BY <2>1, <2>2, <2>3, <2>4 DEF KeptInv, Port1Kept
  <1>2. Typed /\ KeptInv /\ [Next]_vars => KeptInv'
    <2> SUFFICES ASSUME Typed, KeptInv, [Next]_vars PROVE KeptInv'
      OBVIOUS
    <2>0. BufferInv /\ Port1Kept
      BY DEF KeptInv, BufferInv
    <2>1. CASE UNCHANGED vars
      BY <2>0, <2>1, Tuples DEF KeptInv, BufferInv, Port1Kept, Copying, Held
    <2>2. CASE Step
      <3>1. BufferInv' /\ Port1Kept'
        BY <2>0, <2>2, BufferNext, AnswersKept
      <3> QED BY <3>1 DEF KeptInv, BufferInv
    <2> QED BY <2>1, <2>2, Steps
  <1>3. KeptInv => Port1Kept
    BY DEF KeptInv
  <1> QED BY <1>1, <1>2, <1>3, TypedInit, TypedNext, PTL DEF Spec

-----------------------------------------------------------------------------
(* Lines and parameters *)

\* Programming a line again changes nothing, and only the line's four parameters
\* count.
LEMMA SetAgain ==
    ASSUME NEW c, NEW o
    PROVE  setTTY(c, o) = setTTY(c, setTTY(c, o))
  BY DEF setTTY

LEMMA SetSame ==
    ASSUME NEW c, NEW d, NEW o, SameLine(c, d)
    PROVE  setTTY(c, o) = setTTY(d, o)
  BY DEF setTTY, SameLine

LEMMA LineIdle ==
    ASSUME LineInv, UNCHANGED <<con_com, tty, cmd, next, webVars>>, stray' = stray,
           pc'[client] = "comset" <=> pc[client] = "comset"
    PROVE  LineInv'
  BY DEF LineInv, ClientSets, WebSets, webVars

LEMMA StoreLine ==
    ASSUME Typed, LineInv, UartStore
    PROVE  LineInv'
  <1> DEFINE id == RESET_MSB(cmd.args[next].seq)
             c == UartAttr(cmd.args[next], cmd.coms[next])
             overlap == web = "comset" /\ webconf.id = id
  <1>0. PcOK /\ CmdOK /\ ConfOK /\ Setting
    BY DEF Typed, TypeOK, UartStore, Setting
  <1>1. pc[client] = "uattr" /\ UNCHANGED <<tty, webVars>>
    BY DEF UartStore
  <1>2. CASE pc' = [pc EXCEPT ![client] = "answer"] /\ UNCHANGED <<con_com, stray>>
    <2>1. pc'[client] = "answer"
      BY <1>0, <1>2 DEF PcOK
    <2> QED BY <1>1, <1>2, <2>1 DEF LineInv, ClientSets, WebSets, webVars
  <1>3. ASSUME NEW s,
               con_com' = IF id \in Ports THEN [con_com EXCEPT ![id] = c] ELSE con_com,
               cmd' = [cmd EXCEPT !.sensor = s, !.coms[next] = c], next' = next,
               stray' = IF id \in Ports THEN Stray(id, overlap) ELSE stray,
               pc' = [pc EXCEPT ![client] = "comset"]
        PROVE  LineInv'
    <2>1. pc'[client] = "comset"
      BY <1>0, <1>3 DEF PcOK
    <2>2. /\ cmd.coms \in [Ports -> Coms] /\ next \in Ports
          /\ DOMAIN cmd = {"id", "args", "coms", "sensor"}
      BY <1>0, SettingTyped
    <2>3. cmd'.args = cmd.args /\ cmd'.coms[next'] = c
      BY <1>3, <2>2
    <2>4. ASSUME NEW p PROVE (ClientSets(p)' <=> id = p) /\ (WebSets(p)' <=> WebSets(p)) /\ ~ClientSets(p)
      BY <1>1, <1>3, <2>1, <2>3 DEF ClientSets, WebSets, webVars
    <2> HIDE DEF id, c
    <2>5. ASSUME NEW p \in Ports, p \notin stray', p = id
          PROVE  /\ ~(ClientSets(p)' /\ WebSets(p)')
                 /\ SameLine(cmd'.coms[next'], con_com'[p])
      <3>1. ~overlap
        BY <1>3, <2>5 DEF Stray
      <3>2. con_com'[p] = c
        BY <1>0, <1>3, <2>5 DEF ConfOK
      <3> QED BY <2>3, <2>4, <2>5, <3>1, <3>2 DEF WebSets, SameLine
    <2>6. ASSUME NEW p \in Ports, p \notin stray', p # id
          PROVE  /\ ~ClientSets(p)' /\ p \notin stray /\ con_com'[p] = con_com[p]
                 /\ ~WebSets(p) => tty[p] = setTTY(con_com[p], tty[p])
      <3>1. p \notin stray
        BY <1>3, <2>6 DEF Stray
      <3>2. con_com'[p] = con_com[p]
        BY <1>0, <1>3, <2>6 DEF ConfOK
      <3>3. ~ClientSets(p) /\ ~ClientSets(p)'
        BY <2>4, <2>6
      <3>4. ~WebSets(p) => tty[p] = setTTY(con_com[p], tty[p])
        BY <3>1, <3>3, <2>6 DEF LineInv
      <3> QED BY <3>1, <3>2, <3>3, <3>4
    <2>7. ASSUME NEW p \in Ports, p \notin stray'
          PROVE  /\ ~(ClientSets(p)' /\ WebSets(p)')
                 /\ ClientSets(p)' => SameLine(cmd'.coms[next'], con_com'[p])
                 /\ ~ClientSets(p)' /\ ~WebSets(p)' => tty'[p] = setTTY(con_com'[p], tty'[p])
      <3>1. CASE p = id
        BY <2>4, <2>5, <2>7, <3>1
      <3>2. CASE p # id
        <4>1. tty' = tty
          BY <1>1
        <4> QED BY <2>4, <2>6, <2>7, <3>2, <4>1
      <3> QED BY <3>1, <3>2
    <2> QED BY <2>7, Zenon DEF LineInv
  <1> QED BY <1>2, <1>3, Zenon DEF UartStore, UartFail, Goto

LEMMA ComSetLine ==
    ASSUME Typed, LineInv, UartComSet
    PROVE  LineInv'
  <1> DEFINE id == RESET_MSB(cmd.args[next].seq)
             c == cmd.coms[next]
  <1>0. PcOK /\ CmdOK /\ ConfOK
    BY DEF Typed, TypeOK
  <1>1. /\ pc[client] = "comset" /\ UNCHANGED <<con_com, stray, webVars>>
        /\ tty' = IF id \in Ports THEN [tty EXCEPT ![id] = setTTY(c, @)] ELSE tty
    BY DEF UartComSet
  <1>2. pc'[client] \in {"uattr", "answer"}
    <2>1. pc' = [pc EXCEPT ![client] = "uattr"] \/ pc' = [pc EXCEPT ![client] = "answer"]
      BY DEF UartComSet, Goto
    <2> QED BY <1>0, <2>1 DEF PcOK
  <1>3. ASSUME NEW p PROVE (WebSets(p)' <=> WebSets(p)) /\ ~ClientSets(p)' /\ (ClientSets(p) <=> p = id)
    BY <1>1, <1>2 DEF ClientSets, WebSets, webVars
  <1> HIDE DEF id, c
  <1>4. ASSUME NEW p \in Ports, p \notin stray, ~WebSets(p)
        PROVE  tty'[p] = setTTY(con_com[p], tty'[p])
    <2>1. CASE p = id
      <3>1. SameLine(c, con_com[p])
        BY <1>3, <1>4, <2>1 DEF LineInv, c
      <3>2. tty'[p] = setTTY(c, tty[p])
        BY <1>0, <1>1, <2>1 DEF ConfOK
      <3>3. tty'[p] = setTTY(con_com[p], tty[p])
        BY <3>1, <3>2, SetSame
      <3> QED BY <3>3, SetAgain
    <2>2. CASE p # id
      <3>1. tty'[p] = tty[p]
        BY <1>0, <1>1, <2>2 DEF ConfOK
      <3>2. tty[p] = setTTY(con_com[p], tty[p])
        BY <1>3, <1>4, <2>2 DEF LineInv
      <3> QED BY <3>1, <3>2
    <2> QED BY <2>1, <2>2
  <1>5. UNCHANGED <<con_com, stray>>
    BY <1>1
  <1> QED BY <1>3, <1>4, <1>5 DEF LineInv

LEMMA ServeLine ==
    ASSUME Typed, LineInv, SendAck \/ ClientAnswer \/ ServeCommand
    PROVE  LineInv'
  <1>0. PcOK /\ CmdOK /\ ConfOK
    BY DEF Typed, TypeOK
  <1>1. webVars' = webVars
    BY <1>0, ClientFrame DEF ClientStep
  <1>2. CASE SendAck \/ ClientAnswer
    <2>1. UNCHANGED <<con_com, tty, cmd, next, stray>>
      BY <1>2 DEF SendAck, ClientAnswer, Answer, confVars
    <2>2. pc[client] \in {"ack", "answer"} /\ pc'[client] \in {"answer", "idle"}
      BY <1>0, <1>2 DEF SendAck, ClientAnswer, Answer, Goto, PcOK
    <2> QED BY <1>1, <2>1, <2>2, LineIdle
  <1>3. ASSUME NEW m \in Commands,
               \/ ServeAsking(m) \/ Drop(m) \/ SetDeviceAttr(m) \/ SetIo(m) \/ SetTemp(m)
               \/ QueryRecv(m) \/ SendData(m)
        PROVE  LineInv'
    <2>1. con_com' = con_com
      BY <1>3 DEF ServeAsking, Drop, SetDeviceAttr, SetIo, SetTemp, QueryRecv, SendData, confVars
    <2>2. ~Setting /\ ~Setting' /\ UNCHANGED <<tty, stray, cmd, next>>
      BY <1>0, <1>3, ServeFrame
    <2> QED BY <1>1, <2>1, <2>2, LineIdle DEF Setting
  <1>4. ASSUME NEW m \in Commands, UartBegin(m)
        PROVE  LineInv'
    <2>1. UNCHANGED <<con_com, tty, stray>>
      BY <1>4 DEF UartBegin, confVars
    <2>2. pc[client] # "comset" /\ pc'[client] # "comset"
      BY <1>0, <1>4, BeginSets
    <2>3. ASSUME NEW p PROVE ~ClientSets(p) /\ ~ClientSets(p)' /\ (WebSets(p)' <=> WebSets(p))
      BY <1>1, <2>2 DEF ClientSets, WebSets, webVars
    <2> QED BY <2>1, <2>3 DEF LineInv
  <1>5. ASSUME NEW m \in Commands, SetRecvAttr(m)
        PROVE  LineInv'
    <2>1. ~Setting /\ ~Setting' /\ UNCHANGED <<tty, stray, cmd, next>>
      BY <1>0, <1>5, ServeFrame
    <2>2. ASSUME NEW p \in Ports PROVE SameLine(con_com'[p], con_com[p])
      <3>1. con_com' = con_com \/ \E id \in Ports : \E r : con_com' = [con_com EXCEPT ![id].recv = r]
        BY <1>5 DEF SetRecvAttr
      <3> QED BY <1>0, <3>1 DEF SameLine, ConfOK, Coms
    <2>3. ASSUME NEW p PROVE ~ClientSets(p) /\ ~ClientSets(p)' /\ (WebSets(p)' <=> WebSets(p))
      BY <1>1, <2>1 DEF ClientSets, WebSets, webVars, Setting
    <2>4. ASSUME NEW p \in Ports, tty[p] = setTTY(con_com[p], tty[p])
          PROVE  tty'[p] = setTTY(con_com'[p], tty'[p])
      <3>1. setTTY(con_com'[p], tty[p]) = setTTY(con_com[p], tty[p])
        BY <2>2, SetSame
      <3> QED BY <2>1, <2>4, <3>1
    <2>5. stray' = stray
      BY <2>1
    <2> QED BY <2>3, <2>4, <2>5 DEF LineInv
  <1> QED BY <1>2, <1>3, <1>4, <1>5 DEF ServeCommand

LEMMA WebLine ==
    ASSUME Typed, LineInv, WebStore \/ WebComSet
    PROVE  LineInv'
  <1>0. PcOK /\ CmdOK /\ ConfOK
    BY DEF Typed, TypeOK
  <1>1. UNCHANGED <<pc, cmd, next>>
    BY WebFrame
  <1>2. \A p : ClientSets(p)' <=> ClientSets(p)
    BY <1>1 DEF ClientSets
  <1>3. CASE WebStore
    <2>1. PICK n \in Ports, c \in WebComs, all \in {"yes", "no"} :
             /\ webconf' = [id |-> n, all |-> all, com |-> c]
             /\ con_com' = IF all = "no" THEN [con_com EXCEPT ![n] = c]
                           ELSE [q \in Ports |-> [c EXCEPT !.recv = con_com[q].recv]]
             /\ stray' = LET named == Stray(n, pc[client] = "comset"
                                                /\ RESET_MSB(cmd.args[next].seq) = n)
                         IN IF all = "no" THEN named ELSE named \cup (Ports \ {n})
      BY <1>3, Zenon DEF WebStore
    <2>2. web = "idle" /\ web' = "comset" /\ tty' = tty
      BY <1>3 DEF WebStore
    <2>3. ASSUME NEW p PROVE ~WebSets(p) /\ (WebSets(p)' <=> p = n)
      BY <2>1, <2>2 DEF WebSets
    <2>4. ASSUME NEW p \in Ports, p \notin stray', p = n
          PROVE  ~ClientSets(p)
      BY <2>1, <2>4 DEF Stray, ClientSets
    <2>5. ASSUME NEW p \in Ports, p \notin stray', p # n
          PROVE  p \notin stray /\ con_com'[p] = con_com[p]
      BY <1>0, <2>1, <2>5 DEF Stray, ConfOK
    <2>6. ASSUME NEW p \in Ports, p \notin stray'
          PROVE  /\ ~(ClientSets(p)' /\ WebSets(p)')
                 /\ ClientSets(p)' => SameLine(cmd'.coms[next'], con_com'[p])
                 /\ ~ClientSets(p)' /\ ~WebSets(p)' => tty'[p] = setTTY(con_com'[p], tty'[p])
      <3>1. CASE p = n
        BY <1>2, <2>3, <2>4, <2>6, <3>1
      <3>2. CASE p # n
        <4>1. p \notin stray /\ con_com'[p] = con_com[p] /\ ~WebSets(p) /\ ~WebSets(p)'
          BY <2>3, <2>5, <2>6, <3>2
        <4> QED BY <1>1, <1>2, <2>2, <4>1 DEF LineInv
      <3> QED BY <3>1, <3>2
    <2> QED BY <2>6, Zenon DEF LineInv
  <1>4. CASE WebComSet
    <2> DEFINE n == webconf.id
    <2>1. /\ web = "comset" /\ web' = "idle" /\ UNCHANGED <<con_com, stray, webconf>>
          /\ tty' = [tty EXCEPT ![n] = setTTY(con_com[n], @)]
      BY <1>4 DEF WebComSet
    <2>2. ASSUME NEW p PROVE ~WebSets(p)' /\ (WebSets(p) <=> p = n)
      BY <2>1 DEF WebSets
    <2> HIDE DEF n
    <2>3. ASSUME NEW p \in Ports, p \notin stray
          PROVE  /\ ClientSets(p) => SameLine(cmd.coms[next], con_com[p])
                 /\ ~ClientSets(p) => tty'[p] = setTTY(con_com[p], tty'[p])
      <3>1. CASE p = n
        <4>1. tty'[p] = setTTY(con_com[p], tty[p])
          BY <1>0, <2>1, <3>1 DEF ConfOK
        <4>2. tty'[p] = setTTY(con_com[p], tty'[p])
          BY <4>1, SetAgain
        <4> QED BY <2>2, <2>3, <3>1, <4>2 DEF LineInv
      <3>2. CASE p # n
        <4>1. tty'[p] = tty[p]
          BY <1>0, <2>1, <3>2 DEF ConfOK
        <4> QED BY <2>2, <2>3, <3>2, <4>1 DEF LineInv
      <3> QED BY <3>1, <3>2
    <2>4. UNCHANGED <<con_com, stray>>
      BY <2>1
    <2> QED BY <1>1, <1>2, <2>2, <2>3, <2>4 DEF LineInv
  <1> QED BY <1>3, <1>4

LEMMA LineInit == Init => LineInv
  <1> SUFFICES ASSUME Init PROVE LineInv
    OBVIOUS
  <1>1. web = "idle" /\ pc[client] = "idle"
    BY KindsApart DEF Init
  <1>2. \A p \in Ports : con_com[p] = DefaultCom /\ tty[p] = setTTY(DefaultCom, DefaultCom)
    BY DEF Init
  <1>3. \A p \in Ports : tty[p] = setTTY(con_com[p], tty[p])
    BY <1>2, SetAgain
  <1> QED BY <1>1, <1>3 DEF LineInv, ClientSets, WebSets

LEMMA LineNext ==
    ASSUME Typed, LineInv, [Next]_vars
    PROVE  LineInv'
  <1>0. PcOK
    BY DEF Typed, TypeOK
  <1>1. CASE UNCHANGED vars
    BY <1>1, Tuples, LineIdle DEF webVars
  <1>2. ASSUME NEW p \in Ports, ComStep(p) \/ ComLock(p) \/ Arrive(p) \/ Session(p) \/ PeerReads(p)
        PROVE  LineInv'
    BY <1>0, <1>2, ComFrame, LineIdle DEF confVars
  <1>3. ASSUME NEW w \in Writers, WriteStep(w) \/ WriterLock(w) \/ (w \in NetThreads /\ NetData(w))
        PROVE  LineInv'
    <2>1. UNCHANGED <<con_com, tty, cmd, next, webVars, stray>>
      BY <1>0, <1>3, WriteFrame DEF confVars, ansVars
    <2>2. pc'[client] = "comset" <=> pc[client] = "comset"
      <3>1. pc'[client] = pc[client] \/ (w = client /\ pc'[client] \in {"ack", "write485"})
        BY <1>0, <1>3, WriteFrame
      <3>2. w = client => pc[client] # "comset" \/ pc' = pc
        BY <1>3, KindsApart DEF WriteStep, WriteError, WriteSome, WriterLock, Lock
      <3> QED BY <3>1, <3>2
    <2> QED BY <2>1, <2>2, LineIdle
  <1> QED
    BY <1>1, <1>2, <1>3, StoreLine, ComSetLine, ServeLine, WebLine, Steps DEF Step, ClientStep

\* A line is programmed with what con_com says, whichever of the alarm server and the
\* page set it last (com_set and setTTY in com.c), unless the two overlapped or the
\* page set all the ports.
THEOREM LinesFollow == Spec => []LineFollows
  <1>1. LineInv => LineFollows
    BY DEF LineInv, LineFollows, ClientSets, WebSets
  <1> QED BY <1>1, LineInit, LineNext, TypedInit, TypedNext, PTL DEF Spec

-----------------------------------------------------------------------------
(* What GET_UART_ATTR answers *)

\* The protocol's bytes of a baud rate, and its parity, are read back as they were.
LEMMA BaudReadBack ==
    ASSUME NEW b \in Bauds
    PROVE  calc_baud_rate(BaudBytes(b)) = b
  BY DEF Bauds, BaudBytes, calc_baud_rate

LEMMA ParityReadBack ==
    ASSUME NEW l \in 1..3
    PROVE  return_local_odd_even(return_remote_odd_even(l)) = l
  BY DEF return_local_odd_even, return_remote_odd_even

GoodComs == \A p \in Ports : is_good_uart(con_com[p])

LEMMA GoodNext ==
    ASSUME \A c \in WebComs : is_good_uart(c), Typed, GoodComs, [Next]_vars
    PROVE  GoodComs'
  <1>0. PcOK /\ con_com \in [Ports -> Coms]
    BY DEF Typed, TypeOK, ConfOK
  <1>1. CASE con_com' = con_com
    BY <1>1 DEF GoodComs
  <1>2. CASE UartStore
    <2>1. \/ con_com' = con_com
          \/ \E id \in Ports : \E c : is_good_uart(c) /\ con_com' = [con_com EXCEPT ![id] = c]
      BY <1>2, Zenon DEF UartStore
    <2> QED BY <1>0, <2>1 DEF GoodComs
  <1>3. ASSUME NEW m \in Commands, SetRecvAttr(m) PROVE GoodComs'
    <2>1. con_com' = con_com \/ \E id \in Ports : \E r : con_com' = [con_com EXCEPT ![id].recv = r]
      BY <1>3 DEF SetRecvAttr
    <2> QED BY <1>0, <2>1 DEF GoodComs, is_good_uart, Coms
  <1>4. CASE WebStore
    <2>1. PICK p \in Ports, c \in WebComs, all \in {"yes", "no"} :
             con_com' = IF all = "no" THEN [con_com EXCEPT ![p] = c]
                        ELSE [q \in Ports |-> [c EXCEPT !.recv = con_com[q].recv]]
      BY <1>4, Zenon DEF WebStore
    <2>2. is_good_uart(c) /\ c \in Coms
      BY InputAssumption
    <2>3. ASSUME NEW r PROVE is_good_uart([c EXCEPT !.recv = r])
      BY <2>2 DEF is_good_uart, Coms
    <2> QED BY <1>0, <2>1, <2>2, <2>3 DEF GoodComs
  <1>5. CASE UNCHANGED vars
    BY <1>1, <1>5, Tuples
  <1>6. ASSUME NEW p \in Ports, ComStep(p) \/ ComLock(p) \/ Arrive(p) \/ Session(p) \/ PeerReads(p)
        PROVE  con_com' = con_com
    BY <1>0, <1>6, ComFrame DEF confVars
  <1>7. ASSUME NEW w \in Writers, WriteStep(w) \/ WriterLock(w) \/ (w \in NetThreads /\ NetData(w))
        PROVE  con_com' = con_com
    BY <1>0, <1>7, WriteFrame DEF confVars
  <1>8. CASE SendAck \/ UartComSet \/ ClientAnswer \/ WebComSet
    BY <1>1, <1>8 DEF SendAck, UartComSet, ClientAnswer, Answer, WebComSet, confVars
  <1>9. ASSUME NEW m \in Commands,
               \/ ServeAsking(m) \/ Drop(m) \/ SetDeviceAttr(m) \/ SetIo(m) \/ SetTemp(m)
               \/ QueryRecv(m) \/ SendData(m) \/ UartBegin(m)
        PROVE  con_com' = con_com
    BY <1>9 DEF ServeAsking, Drop, SetDeviceAttr, SetIo, SetTemp, QueryRecv, SendData, UartBegin,
                confVars
  <1> QED
    BY <1>1, <1>2, <1>3, <1>4, <1>5, <1>6, <1>7, <1>8, <1>9, Steps DEF Step, ClientStep, ServeCommand

\* The answer that is made from parameters that the lines are programmed with.
LEMMA AttrAnswer ==
    ASSUME Typed, GoodComs, LineInv, web = "idle", pc[client] = "idle",
           NEW s, NEW j \in DOMAIN make_ack_get_uart_attr(s, con_com),
           make_ack_get_uart_attr(s, con_com)[j].id \in Ports \ stray
    PROVE  LET e == make_ack_get_uart_attr(s, con_com)[j] IN
           /\ calc_baud_rate(e.line.baud) = tty[e.id].bps
           /\ return_local_odd_even(e.line.parity) = tty[e.id].chk
           /\ e.line.dbit = tty[e.id].dbit
           /\ e.line.sbit = tty[e.id].sbit
  <1> DEFINE e == make_ack_get_uart_attr(s, con_com)[j]
             p == e.id
             c == con_com[p]
  <1>1. DOMAIN con_com = Ports
    BY DEF Typed, TypeOK, ConfOK
  <1>2. e.id = RESET_MSB(s.seq_num[j])
    BY DEF make_ack_get_uart_attr
  <1>3. e.line = IF RESET_MSB(s.seq_num[j]) \in DOMAIN con_com
                 THEN [baud |-> BaudBytes(con_com[RESET_MSB(s.seq_num[j])].bps),
                       dbit |-> con_com[RESET_MSB(s.seq_num[j])].dbit,
                       parity |-> return_remote_odd_even(con_com[RESET_MSB(s.seq_num[j])].chk),
                       sbit |-> con_com[RESET_MSB(s.seq_num[j])].sbit]
                 ELSE Past
    BY DEF make_ack_get_uart_attr
  <1> HIDE DEF e
  <1>4. p \in Ports /\ p \notin stray
    BY DEF e
  <1>5. e.line = [baud |-> BaudBytes(c.bps), dbit |-> c.dbit,
                  parity |-> return_remote_odd_even(c.chk), sbit |-> c.sbit]
    BY <1>1, <1>2, <1>3, <1>4, Zenon
  <1>6. tty[p] = setTTY(c, tty[p])
    BY <1>4 DEF LineInv, ClientSets, WebSets
  <1>7. is_good_uart(c)
    BY <1>4 DEF GoodComs
  <1> HIDE DEF p, c
  <1>8. tty[p] = [bps |-> c.bps, dbit |-> c.dbit, chk |-> c.chk, sbit |-> c.sbit]
    BY <1>6, <1>7 DEF setTTY, TtySpeed, is_good_uart
  <1>9. calc_baud_rate(BaudBytes(c.bps)) = c.bps
        /\ return_local_odd_even(return_remote_odd_even(c.chk)) = c.chk
    BY <1>7, BaudReadBack, ParityReadBack DEF is_good_uart
  <1> QED BY <1>5, <1>8, <1>9 DEF e, p

\* An answer to GET_UART_ATTR is made by the client thread alone, from con_com.
LEMMA AttrFrames ==
    ASSUME PcOK, Step, buf_send' # buf_send, buf_send'.ack = "GET_UART_ATTR"
    PROVE  /\ pc[client] = "idle"
           /\ buf_send'.body = make_ack_get_uart_attr(con_sensor["UART"], con_com)
  <1>1. ASSUME NEW t, NEW a, NEW b
        PROVE  Frame(t, a, b).ack = a /\ Frame(t, a, b).body = b
    BY DEF Frame
  <1>2. ASSUME NEW t, NEW id
        PROVE  make_ack_query_uart_recv_data(t, id).ack = "QUERY_UART_RECV_DATA"
    BY DEF make_ack_query_uart_recv_data
  <1>3. ASSUME NEW p \in Ports, ComStep(p) \/ ComLock(p) \/ Arrive(p) \/ Session(p) \/ PeerReads(p)
        PROVE  FALSE
    <2>1. UNCHANGED buf_send \/ buf_send' = make_ack_query_uart_recv_data(p, buf4)
      BY <1>3 DEF ComStep, ComTest, ComRead, ComSend, ComUnlock, Count, Copy, IntMake, IntWrite,
             Answer, ComLock, Lock, Arrive, Session, PeerReads, ansVars
    <2> QED BY <1>2, <2>1
  <1>4. ASSUME NEW w \in Writers, WriteStep(w) \/ WriterLock(w) \/ (w \in NetThreads /\ NetData(w))
        PROVE  FALSE
    BY <1>4, WriteFrame DEF ansVars
  <1>5. CASE ClientStep
    <2>1. \/ UNCHANGED buf_send
          \/ \E a \in {"UART_SEND_DATA", "SET_UART_ATTR"} : \E b : buf_send' = Frame(client, a, b)
      BY <1>5, Zenon DEF ClientStep, SendAck, UartStore, UartComSet, ClientAnswer, Answer, UartFail
    <2> QED BY <1>1, <2>1
  <1>6. ASSUME NEW m \in Commands, ServeAsking(m)
        PROVE  /\ pc[client] = "idle"
               /\ buf_send'.body = make_ack_get_uart_attr(con_sensor["UART"], con_com)
    <2>1. pc[client] = "idle" /\ buf_send' = Frame(client, m.id, AckBody(m))
      BY <1>6 DEF ServeAsking, Take
    <2>2. m.id = "GET_UART_ATTR"
      BY <1>1, <2>1
    <2>3. AckBody(m) = make_ack_get_uart_attr(con_sensor["UART"], con_com)
      BY <2>2 DEF AckBody
    <2> QED BY <1>1, <2>1, <2>3
  <1>7. ASSUME NEW m \in Commands,
               \/ Drop(m) \/ SetDeviceAttr(m) \/ SetIo(m) \/ SetTemp(m)
               \/ SetRecvAttr(m) \/ QueryRecv(m) \/ SendData(m) \/ UartBegin(m)
        PROVE  FALSE
    <2>1. CASE SetDeviceAttr(m)
      BY <1>1, <2>1 DEF SetDeviceAttr
    <2>2. CASE QueryRecv(m)
      BY <1>2, <2>2 DEF QueryRecv
    <2>3. CASE SendData(m)
      BY <1>1, <2>3 DEF SendData
    <2>4. CASE UartBegin(m)
      BY <1>1, <2>4 DEF UartBegin, UartFail
    <2>5. CASE Drop(m) \/ SetIo(m) \/ SetTemp(m) \/ SetRecvAttr(m)
      BY <2>5 DEF Drop, SetIo, SetTemp, SetRecvAttr
    <2> QED BY <1>7, <2>1, <2>2, <2>3, <2>4, <2>5
  <1>8. CASE WebStore \/ WebComSet
    BY <1>8, WebFrame
  <1> QED BY <1>3, <1>4, <1>5, <1>6, <1>7, <1>8 DEF Step, ServeCommand

\* GET_UART_ATTR answers, after the conversions of baud rate and parity to the protocol
\* and back (calc_high_byte to return_local_odd_even in client.c), what the lines are
\* programmed with, when the page sets what it offers.
THEOREM UartIsReadBack ==
    ASSUME \A c \in WebComs : is_good_uart(c)
    PROVE  Spec => UartReadBack
  <1>1. Init => GoodComs
    BY DEF Init, GoodComs, is_good_uart, DefaultCom, Bauds
  <1>2. Typed /\ GoodComs /\ [Next]_vars => GoodComs'
    BY GoodNext
  <1> DEFINE Answered ==
        buf_send'.ack = "GET_UART_ATTR" /\ buf_send' # buf_send /\ web = "idle" =>
          \A j \in DOMAIN buf_send'.body :
            LET e == buf_send'.body[j] IN
            e.id \in Ports \ stray =>
                /\ calc_baud_rate(e.line.baud) = tty[e.id].bps
                /\ return_local_odd_even(e.line.parity) = tty[e.id].chk
                /\ e.line.dbit = tty[e.id].dbit
                /\ e.line.sbit = tty[e.id].sbit
  <1>3. Typed /\ GoodComs /\ LineInv /\ [Next]_vars => [Answered]_vars
    <2> SUFFICES ASSUME Typed, GoodComs, LineInv, Step,
                        buf_send'.ack = "GET_UART_ATTR", buf_send' # buf_send, web = "idle",
                        NEW j \in DOMAIN buf_send'.body, buf_send'.body[j].id \in Ports \ stray
                 PROVE  LET e == buf_send'.body[j] IN
                        /\ calc_baud_rate(e.line.baud) = tty[e.id].bps
                        /\ return_local_odd_even(e.line.parity) = tty[e.id].chk
                        /\ e.line.dbit = tty[e.id].dbit
                        /\ e.line.sbit = tty[e.id].sbit
      BY Steps
    <2>1. pc[client] = "idle"
          /\ buf_send'.body = make_ack_get_uart_attr(con_sensor["UART"], con_com)
      BY AttrFrames DEF Typed, TypeOK
    <2> QED BY <2>1, AttrAnswer
  <1>4. UartReadBack <=> [][Answered]_vars
    BY DEF UartReadBack
  <1> QED
    BY <1>1, <1>2, <1>3, <1>4, TypedInit, TypedNext, LineInit, LineNext, PTL DEF Spec
=============================================================================
