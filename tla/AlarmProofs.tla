----------------------------- MODULE AlarmProofs ------------------------------
(***************************************************************************)
(* What the runs of AlarmClient and AlarmInput check on small instances,   *)
(* proved.  Of the client, for every set of descriptors, names and granted *)
(* periods: the inductive invariant IInv, the descriptor, counter and LED  *)
(* invariants that follow from it, and the exactness of the heartbeat      *)
(* timeout.  Of the inputs, for any number of them and any waiting time:   *)
(* the alarm window is exact, and a line that has not moved is not in      *)
(* alarm.                                                                  *)
(***************************************************************************)
EXTENDS AlarmClient, AlarmInput, TLAPS

USE DEF LED_ON, LED_OFF, RECONNECT_ON, RECONNECT_OFF, HEARTBEAT_OFFLINE, HEARTBEAT_ONLINE

\* The initial states satisfy the inductive invariant.
LEMMA InitIInv == Init => IInv
  <1> SUFFICES ASSUME Init PROVE IInv
    OBVIOUS
  <1>1. TypeOK
    <2>1. con_server \in Servers /\ EmptyName \in HostNames
      BY DEF Init, BootServers, HostNames
    <2>2. alarm_server \in [ip : {Addr[n] : n \in HostNames}, port : Ports]
      BY <2>1 DEF Init, Servers
    <2> QED
      BY <2>1, <2>2, PeriodAssumption DEF Init, TypeOK, ClientPcs, NoCmd, Commands
  <1>2. FdInv
    BY DEF Init, FdInv, FdsOwned
  <1>3. TimeoutBelowPeriod /\ LedInv
    BY PeriodAssumption DEF Init, TimeoutBelowPeriod, LedInv
  <1> QED
    BY <1>1, <1>2, <1>3 DEF IInv

\* The counter does not wrap: the next count is exact.
LEMMA NoWrap ==
  ASSUME TypeOK, TimeoutBelowPeriod
  PROVE  /\ heartbeat_s \in Nat
         /\ (heartbeat_timeout + 1) % TimeoutModulus = heartbeat_timeout + 1
  <1>1. heartbeat_s \in Nat /\ heartbeat_s + 1 < TimeoutModulus
    BY PeriodAssumption DEF TypeOK
  <1>2. heartbeat_timeout \in Nat /\ heartbeat_timeout <= heartbeat_s
    BY PeriodAssumption DEF TypeOK, TimeoutBelowPeriod
  <1>3. \A n, m \in Nat : n < m => n % m = n
    OBVIOUS
  <1> QED
    BY <1>1, <1>2, <1>3, PeriodAssumption

\* Types are preserved by every step.
LEMMA TypeStep == TypeOK /\ [Next]_vars => TypeOK'
  <1> SUFFICES ASSUME TypeOK, [Next]_vars PROVE TypeOK'
    OBVIOUS
  <1> USE DEF TypeOK, ClientPcs, hereVars
  <1>1. CASE Tick
    <2>1. (heartbeat_timeout + 1) % TimeoutModulus \in 0..(TimeoutModulus - 1)
      BY PeriodAssumption
    <2> QED
      BY <1>1, <2>1, PeriodAssumption
      DEF Tick, CountTurn, clientVars, netVars, webVars
  <1>2. CASE Wake
    <2>1. CASE g_reconnect_flag \in {RECONNECT_ON, HEARTBEAT_OFFLINE}
      BY <1>2, <2>1 DEF Wake, CloseClient, webVars
    <2>2. CASE g_reconnect_flag \notin {RECONNECT_ON, HEARTBEAT_OFFLINE}
      BY <1>2, <2>2 DEF Wake, netVars, webVars
    <2> QED
      BY <2>1, <2>2
  <1>3. CASE OpenSocket
    BY <1>3 DEF OpenSocket, beatVars, netVars, webVars
  <1>4. CASE DnsStart
    BY <1>4 DEF DnsStart, Servers, HostNames, beatVars, netVars, webVars
  <1>5. CASE DnsAnswer
    BY <1>5 DEF DnsAnswer, DnsClose, Servers, beatVars, netVars, webVars
  <1>6. CASE DnsFail
    BY <1>6 DEF DnsFail, DnsClose, beatVars, netVars, webVars
  <1>7. CASE ReadAddress
    BY <1>7 DEF ReadAddress, Servers, beatVars, netVars, webVars
  <1>8. CASE ReadPort
    BY <1>8 DEF ReadPort, Servers, beatVars, netVars, webVars
  <1>9. CASE ConnectOk
    BY <1>9 DEF ConnectOk, clientVars, beatVars, netVars, webVars
  <1>10. CASE ConnectErr
    BY <1>10 DEF ConnectErr, CloseClient, beatVars, webVars
  <1>11. CASE Backoff
    BY <1>11 DEF Backoff, CloseClient, beatVars, webVars
  <1>12. CASE Linked
    BY <1>12 DEF Linked, clientVars, beatVars, netVars, webVars
  <1>13. CASE NoSocket
    BY <1>13 DEF NoSocket, clientVars, beatVars, netVars, webVars
  <1>14. CASE NothingRead
    BY <1>14 DEF NothingRead, clientVars, beatVars, netVars, webVars
  <1>15. CASE Serve
    <2> DEFINE m == Head(inbox)
    <2>1. PICK n \in 1..Len(inbox) : inbox' = SubSeq(inbox, n + 1, Len(inbox))
      BY <1>15 DEF Serve
    <2>2. inbox' \in Seq(Commands) /\ m \in Commands
      BY <2>1
    <2>3. pc' \in ClientPcs /\ cmd' \in Commands
      BY <1>15, <2>2 DEF Serve
    <2> QED
      BY <1>15, <2>2, <2>3 DEF Serve, clientVars, beatVars, webVars
  <1>a. CASE UartWrite
    BY <1>a DEF UartWrite, clientVars, beatVars, netVars, webVars
  <1>b. CASE Write
    <2>1. cmd.cmd = "set_heartbeat" => cmd.time \in Grants
      BY DEF Commands, Heartbeats
    <2>2. /\ heartbeat_s' \in Grants \cup {HEARTBEAT_TIMEOUT}
          /\ grant' \in Grants \cup {HEARTBEAT_TIMEOUT}
          /\ heartbeat_timeout' \in 0..(TimeoutModulus - 1)
          /\ since' \in Nat /\ led' \in {LED_ON, LED_OFF} /\ process' \in {"running", "killed"}
          /\ g_reconnect_flag' \in {RECONNECT_ON, RECONNECT_OFF, HEARTBEAT_OFFLINE,
                                    HEARTBEAT_ONLINE}
      BY <1>b, <2>1, PeriodAssumption DEF Write, Answer, Beat, beatVars
    <2>3. pc' = "tick" /\ cmd' \in Commands
      BY <1>b DEF Write, NoCmd, Commands
    <2>4. UNCHANGED <<clientVars, netVars, bus, con_server, webVars>>
      BY <1>b DEF Write
    <2> QED
      BY <2>2, <2>3, <2>4 DEF clientVars, netVars, webVars
  <1>16. CASE WebStep
    <2>1. CASE WebCopyAddress
      BY <2>1 DEF WebCopyAddress, Servers, WebServers, clientVars, beatVars, netVars
    <2>2. CASE WebCopyRest
      <3>1. con_server' \in Servers
        BY <2>2 DEF WebCopyRest, Servers
      <3> QED
        BY <2>2, <3>1 DEF WebCopyRest, clientVars, beatVars, netVars
    <2>3. CASE WebRaiseFlag
      BY <2>3 DEF WebRaiseFlag, clientVars, beatVars, netVars
    <2> QED
      BY <1>16, <2>1, <2>2, <2>3 DEF WebStep
  <1>17. CASE EnvStep
    <2>1. CASE ServerSend
      BY <2>1 DEF ServerSend, clientVars, beatVars, webVars
    <2>2. CASE ServerClose \/ ServerReset
      BY <2>2 DEF ServerClose, ServerReset, clientVars, beatVars, webVars
    <2>3. CASE ComIntModeWrite
      BY <2>3 DEF ComIntModeWrite, Answer, clientVars, beatVars, webVars, netVars
    <2>4. CASE ServerStops \/ ServerReads
      BY <2>4 DEF ServerStops, ServerReads, clientVars, beatVars, webVars
    <2>5. CASE BusStuck \/ BusFreed
      BY <2>5 DEF BusStuck, BusFreed, clientVars, beatVars, netVars, webVars
    <2> QED
      BY <1>17, <2>1, <2>2, <2>3, <2>4, <2>5 DEF EnvStep
  <1>18. CASE UNCHANGED vars
    BY <1>18 DEF vars, clientVars, beatVars, netVars, webVars
  <1> QED
    BY <1>1, <1>2, <1>3, <1>4, <1>5, <1>6, <1>7, <1>8, <1>9, <1>10, <1>11, <1>12,
       <1>13, <1>14, <1>15, <1>16, <1>17, <1>18, <1>a, <1>b DEF Next, ClientStep

\* Every step keeps the descriptors accounted for.
LEMMA FdStep == TypeOK /\ FdInv /\ [Next]_vars => FdInv'
  <1> SUFFICES ASSUME TypeOK, FdInv, [Next]_vars PROVE FdInv'
    OBVIOUS
  <1> USE NoFdAssumption DEF TypeOK, FdInv, FdsOwned
  <1>1. CASE \/ Tick \/ ConnectOk \/ Linked \/ NoSocket \/ NothingRead \/ Serve
             \/ UartWrite \/ Write
    BY <1>1 DEF Tick, ConnectOk, Linked, NoSocket, NothingRead, Serve, UartWrite, Write,
                clientVars
  <1>2. CASE Wake
    BY <1>2 DEF Wake, CloseClient
  <1>3. CASE OpenSocket
    BY <1>3 DEF OpenSocket
  <1>4. CASE DnsStart
    BY <1>4 DEF DnsStart
  <1>5. CASE DnsAnswer \/ DnsFail
    BY <1>5 DEF DnsAnswer, DnsFail, DnsClose
  <1>6. CASE ReadAddress \/ ReadPort
    BY <1>6 DEF ReadAddress, ReadPort
  <1>7. CASE ConnectErr \/ Backoff
    BY <1>7 DEF ConnectErr, Backoff, CloseClient
  <1>8. CASE WebStep
    BY <1>8 DEF WebStep, WebCopyAddress, WebCopyRest, WebRaiseFlag, clientVars
  <1>9. CASE EnvStep
    BY <1>9 DEF EnvStep, ServerSend, ServerClose, ServerReset, ComIntModeWrite,
                ServerStops, ServerReads, BusStuck, BusFreed, clientVars
  <1>10. CASE UNCHANGED vars
    BY <1>10 DEF vars, clientVars
  <1> QED
    BY <1>1, <1>2, <1>3, <1>4, <1>5, <1>6, <1>7, <1>8, <1>9, <1>10
    DEF Next, ClientStep

\* Every step keeps the counter at or below the period in force.
LEMMA TimeoutStep ==
  TypeOK /\ TimeoutBelowPeriod /\ [Next]_vars => TimeoutBelowPeriod'
  <1> SUFFICES ASSUME TypeOK, TimeoutBelowPeriod, [Next]_vars
               PROVE  TimeoutBelowPeriod'
    OBVIOUS
  <1> USE DEF TimeoutBelowPeriod
  <1>1. CASE Tick
    <2>1. heartbeat_timeout \in Nat /\ heartbeat_s \in Nat
      <3>1. /\ heartbeat_timeout \in 0..(TimeoutModulus - 1)
            /\ heartbeat_s \in Grants \cup {HEARTBEAT_TIMEOUT}
        BY DEF TypeOK
      <3> QED BY <3>1, PeriodAssumption
    <2> QED
      BY <1>1, <2>1, NoWrap, PeriodAssumption DEF Tick
  <1>2. CASE Write
    <2>1. CASE cmd.cmd = "set_heartbeat"
      <3>1. cmd.time \in Nat
        BY <2>1, PeriodAssumption DEF TypeOK, Commands, Heartbeats
      <3> QED
        BY <1>2, <2>1, <3>1 DEF Write, Beat
    <2>2. CASE cmd.cmd # "set_heartbeat"
      BY <1>2, <2>2 DEF Write, beatVars
    <2> QED
      BY <2>1, <2>2
  <1>3. CASE UNCHANGED <<heartbeat_s, heartbeat_timeout>>
    BY <1>3
  <1>4. \/ Tick \/ Write
        \/ UNCHANGED <<heartbeat_s, heartbeat_timeout>>
    BY DEF Next, ClientStep, WebStep, EnvStep, vars, beatVars, Wake, OpenSocket,
           DnsStart, DnsAnswer, DnsFail, ReadAddress, ReadPort, ConnectOk,
           ConnectErr, Backoff, Linked, NoSocket, NothingRead, Serve, UartWrite,
           WebCopyAddress, WebCopyRest, WebRaiseFlag, ServerSend, ServerClose,
           ServerReset, ComIntModeWrite, ServerStops, ServerReads, BusStuck, BusFreed
  <1> QED
    BY <1>1, <1>2, <1>3, <1>4

\* Every step keeps a lit LED in agreement with the history of heartbeats.
LEMMA LedStep == IInv /\ [Next]_vars => LedInv'
  <1> SUFFICES ASSUME IInv, [Next]_vars, (led = LED_ON)' PROVE LedInv'
    BY DEF LedInv
  <1> USE DEF IInv
  <1>1. CASE Tick
    <2>1. led = LED_ON /\ g_sockfd_client # NoFd
      BY <1>1 DEF Tick, LedInv
    <2>2. since = heartbeat_timeout /\ grant = heartbeat_s
      BY <1>1, <2>1 DEF Tick, LedInv
    <2>3. heartbeat_timeout \in Nat /\ heartbeat_s \in Nat
          /\ heartbeat_timeout <= heartbeat_s
      BY PeriodAssumption DEF TypeOK, TimeoutBelowPeriod
    <2>4. since' = since + 1 /\ grant' = grant
      BY <1>1, <2>1, <2>2, <2>3 DEF Tick, CountTurn
    <2> QED
      BY <1>1, <2>1, <2>2, <2>3, <2>4, NoWrap DEF Tick, LedInv, clientVars
  <1>2. CASE Wake
    BY <1>2 DEF Wake, LedInv, TypeOK
  <1>3. CASE Write
    <2>1. CASE cmd.cmd = "set_heartbeat"
      BY <1>3, <2>1 DEF Write, Beat, LedInv, FdInv, clientVars
    <2>2. CASE cmd.cmd # "set_heartbeat"
      BY <1>3, <2>2 DEF Write, LedInv, beatVars, clientVars
    <2> QED
      BY <2>1, <2>2
  <1>4. CASE NothingRead \/ NoSocket \/ Serve \/ UartWrite
    BY <1>4 DEF NothingRead, NoSocket, Serve, UartWrite, LedInv, beatVars, clientVars
  <1>5. CASE WebStep
    BY <1>5 DEF WebStep, WebCopyAddress, WebCopyRest, WebRaiseFlag, LedInv,
                beatVars, clientVars
  <1>6. CASE EnvStep
    BY <1>6 DEF EnvStep, ServerSend, ServerClose, ServerReset, ComIntModeWrite,
                ServerStops, ServerReads, BusStuck, BusFreed, LedInv, beatVars, clientVars
  <1>7. CASE UNCHANGED vars
    BY <1>7 DEF vars, LedInv, beatVars, clientVars
  <1>8. CASE \/ OpenSocket \/ DnsStart \/ DnsAnswer \/ DnsFail \/ ReadAddress
             \/ ReadPort \/ ConnectOk \/ ConnectErr \/ Backoff \/ Linked
    BY <1>8 DEF OpenSocket, DnsStart, DnsAnswer, DnsFail, ReadAddress, ReadPort,
                ConnectOk, ConnectErr, Backoff, Linked, LedInv, beatVars
  <1> QED
    BY <1>1, <1>2, <1>3, <1>4, <1>5, <1>6, <1>7, <1>8 DEF Next, ClientStep

\* IInv is an invariant of the client, whatever the web thread, the com
\* thread and the alarm server do.
THEOREM IInvInvariant == Spec => []IInv
  <1>1. IInv /\ [Next]_vars => IInv'
    BY TypeStep, FdStep, TimeoutStep, LedStep DEF IInv
  <1> QED
    BY InitIInv, <1>1, PTL DEF Spec

\* Type correctness of the client's and the web thread's state.
THEOREM TypeInvariant == Spec => []TypeOK
  <1>1. IInv => TypeOK
    BY DEF IInv
  <1> QED
    BY IInvInvariant, <1>1, PTL

\* client_connect_server, client_reconnect and sendDNSPacket lose no
\* descriptor on any path.
THEOREM NoDescriptorLeak == Spec => []FdsOwned
  <1>1. IInv => FdsOwned
    BY DEF IInv, FdInv
  <1> QED
    BY IInvInvariant, <1>1, PTL

\* heartbeat_timeout never wraps, for any u8 period and any wider counter.
THEOREM CounterNeverWraps == Spec => []TimeoutBelowPeriod
  <1>1. IInv => TimeoutBelowPeriod
    BY DEF IInv
  <1> QED
    BY IInvInvariant, <1>1, PTL

\* The status LED is lit only while heartbeats are recent.
THEOREM LedIsFresh == Spec => []LedFresh
  <1>1. IInv => LedFresh
    <2> SUFFICES ASSUME IInv, led = LED_ON PROVE since <= grant + 1
      BY DEF IInv, LedInv, LedFresh
    <2>1. heartbeat_timeout \in Nat /\ heartbeat_s \in Nat /\ grant \in Nat
          /\ heartbeat_timeout <= heartbeat_s
      <3>1. /\ heartbeat_timeout \in 0..(TimeoutModulus - 1)
            /\ heartbeat_s \in Grants \cup {HEARTBEAT_TIMEOUT}
            /\ grant \in Grants \cup {HEARTBEAT_TIMEOUT}
            /\ heartbeat_timeout <= heartbeat_s
        BY DEF IInv, TypeOK, TimeoutBelowPeriod
      <3> QED BY <3>1, PeriodAssumption
    <2> QED
      BY <2>1 DEF IInv, LedInv
  <1> QED
    BY IInvInvariant, <1>1, PTL

\* A server is declared offline in the turn its period ends and in no other.
THEOREM TimeoutIsExact == Spec => OfflineExactlyWhenDue
  <1> DEFINE A == led = LED_ON /\ g_reconnect_flag # HEARTBEAT_OFFLINE
                      /\ g_reconnect_flag' = HEARTBEAT_OFFLINE
                    => since' = grant + 1
  <1>1. IInv /\ [Next]_vars => [A]_vars
    <2> SUFFICES ASSUME IInv, Next, led = LED_ON,
                        g_reconnect_flag # HEARTBEAT_OFFLINE,
                        g_reconnect_flag' = HEARTBEAT_OFFLINE
                 PROVE  since' = grant + 1
      OBVIOUS
    <2>1. Tick
      BY DEF Next, ClientStep, WebStep, EnvStep, Wake, OpenSocket, DnsStart,
             DnsAnswer, DnsFail, ReadAddress, ReadPort, ConnectOk, ConnectErr,
             Backoff, Linked, NoSocket, NothingRead, Serve, UartWrite, Write, Beat,
             WebCopyAddress, WebCopyRest, WebRaiseFlag, ServerSend, ServerClose,
             ServerReset, ComIntModeWrite, ServerStops, ServerReads, BusStuck, BusFreed
    <2>2. since = heartbeat_timeout /\ grant = heartbeat_s
      BY <2>1 DEF Tick, IInv, LedInv
    <2>3. heartbeat_timeout \in Nat /\ heartbeat_s \in Nat
          /\ heartbeat_timeout <= heartbeat_s
      BY PeriodAssumption DEF IInv, TypeOK, TimeoutBelowPeriod
    <2>4. heartbeat_timeout + 1 > heartbeat_s
      BY <2>1, NoWrap DEF Tick, IInv
    <2>5. since' = since + 1
      BY <2>1, <2>2, <2>3 DEF Tick, CountTurn
    <2> QED
      BY <2>2, <2>3, <2>4, <2>5
  <1> QED
    BY IInvInvariant, <1>1, PTL DEF Spec, OfflineExactlyWhenDue

-----------------------------------------------------------------------------
(* The alarm inputs *)

USE AlarmAssumption

\* The initial states satisfy the invariant of the inputs.
LEMMA InitInv == InputInit => AlarmInv
<1> SUFFICES ASSUME InputInit PROVE AlarmInv  OBVIOUS
<1>1. InputTypeOK
  BY DEF InputInit, InputTypeOK, Inputs, Levels, Readings, ALARM_OFF, ALARM_ON
<1>2. WindowInv
  BY DEF InputInit, WindowInv, ALARM_OFF, ALARM_ON
<1>3. QuietInv
  BY DEF InputInit, QuietInv, InitRead, UpdateRead, Inputs
<1> QED  BY <1>1, <1>2, <1>3 DEF AlarmInv

\* What a reading does to the two arrays and to the place in the program.
LEMMA ReadType ==
    ASSUME InputTypeOK, input_pc \in {"first", "read"}, alarm' \in Readings, Store, NextInput
    PROVE  /\ alarm_init' \in [Inputs -> Readings]
           /\ alarm_update' \in [Inputs -> Readings]
           /\ i' \in Inputs
           /\ input_pc' \in {"first", "read", "judge"}
<1>1. alarm_init' \in [Inputs -> Readings] /\ alarm_update' \in [Inputs -> Readings]
  BY DEF Store, InputTypeOK
<1>2. i' \in Inputs /\ input_pc' \in {"first", "read", "judge"}
  BY DEF NextInput, InputTypeOK, Inputs
<1> QED  BY <1>1, <1>2

LEMMA CountType == InputTypeOK => Count \in 0..(CountModulus - 1)
  BY DEF InputTypeOK, Count

LEMMA InputTypeStep == InputTypeOK /\ [InputNext]_inputVars => InputTypeOK'
<1> SUFFICES ASSUME InputTypeOK, [InputNext]_inputVars PROVE InputTypeOK'  OBVIOUS
<1>1. CASE ReadOk
  <2>1. alarm' \in Readings  BY <1>1 DEF ReadOk, InputTypeOK, Readings
  <2> QED  BY <1>1, <2>1, ReadType DEF ReadOk, InputTypeOK
<1>2. CASE ReadFails
  <2>1. alarm' \in Readings  BY <1>2 DEF ReadFails, InputTypeOK
  <2> QED  BY <1>2, <2>1, ReadType DEF ReadFails, InputTypeOK
<1>3. CASE Judge
  <2>1. alarm_off_count' \in [Inputs -> 0..(CountModulus - 1)]
    BY <1>3, CountType DEF Judge, InputTypeOK
  <2>2. g_alarm_in' \in [Inputs -> {ALARM_ON, ALARM_OFF}]
    BY <1>3 DEF Judge, InputTypeOK, Verdict
  <2>3. quiet' \in [Inputs -> 0..ALARM_OFF_TIMEOUT]
    BY <1>3 DEF Judge, InputTypeOK
  <2>4. i' \in Inputs /\ input_pc' \in {"first", "read", "judge"}
    BY <1>3 DEF Judge, InputTypeOK, Inputs
  <2>5. alarm_init' \in [Inputs -> Readings]
    BY <1>3 DEF Judge, InputTypeOK
  <2> QED  BY <1>3, <2>1, <2>2, <2>3, <2>4, <2>5 DEF Judge, InputTypeOK
<1>4. CASE LineChanges
  BY <1>4 DEF LineChanges, InputTypeOK, Levels
<1>5. CASE UNCHANGED inputVars
  BY <1>5 DEF inputVars, InputTypeOK
<1> QED  BY <1>1, <1>2, <1>3, <1>4, <1>5 DEF InputNext

\* The history variable quiet runs with alarm_off_count while the alarm is on,
\* and the counter is then below the limit, hence below the wrap-around.
LEMMA WindowStep == AlarmInv /\ [InputNext]_inputVars => WindowInv'
<1> SUFFICES ASSUME AlarmInv, [InputNext]_inputVars PROVE WindowInv'  OBVIOUS
<1>a. InputTypeOK /\ WindowInv  BY DEF AlarmInv
<1>1. CASE ReadOk \/ ReadFails \/ LineChanges
  BY <1>1, <1>a DEF ReadOk, ReadFails, LineChanges, WindowInv
<1>2. CASE Judge
  <2> SUFFICES ASSUME NEW n \in Inputs
               PROVE  /\ g_alarm_in'[n] = ALARM_ON <=> quiet'[n] < ALARM_OFF_TIMEOUT
                      /\ g_alarm_in'[n] = ALARM_ON => alarm_off_count'[n] = quiet'[n]
    BY DEF WindowInv
  <2>1. CASE n # i
    BY <1>2, <1>a, <2>1 DEF Judge, WindowInv, InputTypeOK
  <2>2. CASE n = i
    <3>1. /\ alarm_off_count'[n] = Count
          /\ g_alarm_in'[n] = Verdict
          /\ quiet'[n] = IF Edge THEN 0
                         ELSE IF quiet[n] < ALARM_OFF_TIMEOUT THEN quiet[n] + 1 ELSE quiet[n]
      BY <1>2, <1>a, <2>2 DEF Edge, Judge, InputTypeOK
    <3>2. /\ quiet[n] \in 0..ALARM_OFF_TIMEOUT
          /\ alarm_off_count[n] \in 0..(CountModulus - 1)
          /\ g_alarm_in[n] \in {ALARM_ON, ALARM_OFF}
          /\ g_alarm_in[n] = ALARM_ON <=> quiet[n] < ALARM_OFF_TIMEOUT
          /\ g_alarm_in[n] = ALARM_ON => alarm_off_count[n] = quiet[n]
      BY <1>a DEF InputTypeOK, WindowInv
    <3>3. CASE Edge
      BY <2>2, <3>1, <3>3 DEF Count, Verdict
    <3>4. CASE ~Edge /\ g_alarm_in[n] = ALARM_ON
      <4>1. Count = quiet[n] + 1
        BY <2>2, <3>2, <3>4 DEF Count
      <4> QED  BY <2>2, <3>1, <3>2, <3>4, <4>1 DEF Verdict, ALARM_ON, ALARM_OFF
    <3>5. CASE ~Edge /\ g_alarm_in[n] # ALARM_ON
      BY <2>2, <3>1, <3>2, <3>5 DEF Verdict, ALARM_ON, ALARM_OFF
    <3> QED  BY <3>3, <3>4, <3>5
  <2> QED  BY <2>1, <2>2
<1>3. CASE UNCHANGED inputVars
  BY <1>3, <1>a DEF inputVars, WindowInv
<1> QED  BY <1>1, <1>2, <1>3 DEF InputNext

\* A line at rest reads the same in every round.
LEMMA QuietStep == AlarmInv /\ [InputNext]_inputVars => QuietInv'
<1> SUFFICES ASSUME AlarmInv, [InputNext]_inputVars, failed' = "no",
                    NEW n \in Inputs, changed'[n] = "no"
             PROVE  /\ g_alarm_in'[n] = ALARM_OFF
                    /\ InitRead(n)' => alarm_init'[n] = level'[n]
                    /\ UpdateRead(n)' => alarm_update'[n] = level'[n]
  BY DEF QuietInv
<1>a. InputTypeOK /\ QuietInv  BY DEF AlarmInv
<1>t. /\ i \in Inputs /\ input_pc \in {"first", "read", "judge"}
      /\ alarm_init \in [Inputs -> Readings] /\ alarm_update \in [Inputs -> Readings]
  BY <1>a DEF InputTypeOK
<1>1. CASE ReadOk
  <2>1. /\ failed = "no" /\ changed[n] = "no"
        /\ level'[n] = level[n] /\ g_alarm_in'[n] = g_alarm_in[n]
    BY <1>1 DEF ReadOk
  <2>2. /\ g_alarm_in[n] = ALARM_OFF
        /\ InitRead(n) => alarm_init[n] = level[n]
        /\ UpdateRead(n) => alarm_update[n] = level[n]
    BY <1>a, <2>1 DEF QuietInv
  <2>3. InitRead(n)' => alarm_init'[n] = level[n]
    <3>1. CASE input_pc = "first"
      <4>1. alarm_init' = [alarm_init EXCEPT ![i] = level[i]]
        BY <1>1, <3>1 DEF ReadOk, Store
      <4>2. InitRead(n)' => n = i \/ n < i
        BY <1>1, <1>t, <3>1 DEF ReadOk, NextInput, InitRead, Inputs
      <4>3. n < i => alarm_init[n] = level[n]  BY <2>2 DEF InitRead
      <4> QED  BY <1>t, <4>1, <4>2, <4>3
    <3>2. CASE input_pc = "read"
      BY <1>1, <2>2, <3>2 DEF ReadOk, Store, InitRead
    <3> QED  BY <1>1, <3>1, <3>2 DEF ReadOk
  <2>4. UpdateRead(n)' => alarm_update'[n] = level[n]
    <3>1. CASE input_pc = "first"
      BY <1>1, <1>t, <3>1 DEF ReadOk, NextInput, UpdateRead, Inputs
    <3>2. CASE input_pc = "read"
      <4>1. alarm_update' = [alarm_update EXCEPT ![i] = level[i]]
        BY <1>1, <3>2 DEF ReadOk, Store
      <4>2. UpdateRead(n)' => n = i \/ n < i
        BY <1>1, <1>t, <3>2 DEF ReadOk, NextInput, UpdateRead, Inputs
      <4>3. n < i => alarm_update[n] = level[n]  BY <2>2, <3>2 DEF UpdateRead
      <4> QED  BY <1>t, <4>1, <4>2, <4>3
    <3> QED  BY <1>1, <3>1, <3>2 DEF ReadOk
  <2> QED  BY <2>1, <2>2, <2>3, <2>4
<1>2. CASE ReadFails
  BY <1>2 DEF ReadFails
<1>3. CASE Judge
  <2>1. /\ failed = "no" /\ changed[n] = "no" /\ input_pc = "judge"
        /\ level'[n] = level[n] /\ alarm_update' = alarm_update
    BY <1>3 DEF Judge
  <2>2. /\ g_alarm_in[n] = ALARM_OFF
        /\ alarm_init[n] = level[n]
        /\ alarm_update[n] = level[n]
    BY <1>a, <2>1 DEF QuietInv, InitRead, UpdateRead
  <2>3. g_alarm_in'[n] = ALARM_OFF
    <3>1. CASE n # i
      BY <1>3, <1>a, <2>2, <3>1 DEF Judge, InputTypeOK
    <3>2. CASE n = i
      <4>1. ~Edge /\ g_alarm_in[i] # ALARM_ON
        BY <2>2, <3>2 DEF Edge, ALARM_ON, ALARM_OFF
      <4>2. Verdict = ALARM_OFF  BY <4>1 DEF Verdict
      <4> QED  BY <1>3, <1>a, <3>2, <4>2 DEF Judge, InputTypeOK
    <3> QED  BY <3>1, <3>2
  <2>4. alarm_init'[n] = level[n]
    BY <1>3, <2>2 DEF Judge
  <2> QED  BY <2>1, <2>2, <2>3, <2>4
<1>4. CASE LineChanges
  <2>1. /\ failed = "no"
        /\ UNCHANGED <<input_pc, i, alarm_init, alarm_update, g_alarm_in>>
    BY <1>4 DEF LineChanges
  <2>2. changed[n] = "no" /\ level'[n] = level[n]
    BY <1>4, <1>a DEF LineChanges, InputTypeOK
  <2> QED  BY <1>a, <2>1, <2>2 DEF QuietInv, InitRead, UpdateRead
<1>5. CASE UNCHANGED inputVars
  BY <1>5, <1>a DEF inputVars, QuietInv, InitRead, UpdateRead
<1> QED  BY <1>1, <1>2, <1>3, <1>4, <1>5 DEF InputNext

\* The inductive invariant, for any number of inputs.
THEOREM AlarmInvariant == InputSpec => []AlarmInv
<1>1. AlarmInv /\ [InputNext]_inputVars => AlarmInv'
  BY InputTypeStep, WindowStep, QuietStep DEF AlarmInv
<1> QED  BY InitInv, <1>1, PTL DEF InputSpec

\* An input is in alarm exactly while one of its last ALARM_OFF_TIMEOUT readings
\* was a change, for any width of the counter that can hold the limit.
THEOREM AlarmWindowIsExact == InputSpec => []AlarmWindow
<1>1. AlarmInv => AlarmWindow
  BY DEF AlarmInv, WindowInv, AlarmWindow
<1> QED  BY AlarmInvariant, <1>1, PTL

\* No alarm on a line that has not moved, unless a reading has failed.
THEOREM NoFalseAlarms == InputSpec => []NoFalseAlarm
<1>1. AlarmInv => NoFalseAlarm
  BY DEF AlarmInv, InputTypeOK, QuietInv, NoFalseAlarm, ALARM_ON, ALARM_OFF
<1> QED  BY AlarmInvariant, <1>1, PTL
=============================================================================
