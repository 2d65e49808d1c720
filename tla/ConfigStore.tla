----------------------------- MODULE ConfigStore -----------------------------
(***************************************************************************)
(* g_conf_info and the file behind it (config.c, file.c), with every       *)
(* thread that changes it and saves it: the web thread (ITS_*_SET), the    *)
(* alarm-server client (SET_DEVICE_ATTR, SET_UART_ATTR), the report thread *)
(* (pc_set_dev_info) and the configuration key (reconfig).  There is no    *)
(* lock: config_save truncates the file, copies the structure into the     *)
(* stdio buffer and writes that buffer when the file is closed, and any    *)
(* two threads may be inside it at once.  A reboot can come at any time:   *)
(* four places in the program call system("reboot").                       *)
(*                                                                         *)
(* The configuration is a function from the members of CONFI_DATA to       *)
(* abstract values; the file is missing, empty, or one such function: the  *)
(* structure is smaller than a stdio buffer, so it reaches the disk in one *)
(* write.  Two derived fields are left out: server_ip, which every connect *)
(* computes anew from dns_str, and sw_ver, which every query overwrites    *)
(* with the program's version.                                             *)
(***************************************************************************)
EXTENDS Naturals, FiniteSets

CONSTANTS
    Writers,      \* the threads that may save, "web" among them
    Values,       \* settings a client may ask for
    Blank,        \* a member of the zero-initialised structure
    Default,      \* what config_makedefault puts there
    HwMac,        \* the address of the network chip
    NoFile, Empty,
    None,         \* nothing acknowledged
    MaxOps,       \* bound on changes
    MaxReboots    \* bound on reboots

Threads == {"web", "client", "report", "key"}

ASSUME WritersAssumption == "web" \in Writers /\ Writers \subseteq Threads

ASSUME ValuesAssumption ==
    /\ {Blank, Default, HwMac, None} \cap Values = {}
    /\ Blank # Default /\ Blank # HwMac
    /\ None \notin {Blank, Default, HwMac}

ASSUME BoundsAssumption == MaxOps \in Nat /\ MaxReboots \in Nat

\* The members of CONFI_DATA; the MAC address apart from the rest of con_net.
Members == {"con_sys", "con_net", "dev_mac", "con_vlan", "con_com", "con_mode",
            "con_lim", "con_usr", "con_server", "con_gpio", "con_sensor"}

AnyValue == Values \cup {Blank, Default, HwMac}
Configs  == [Members -> AnyValue]

ASSUME FileAssumption == NoFile # Empty /\ NoFile \notin Configs /\ Empty \notin Configs

VARIABLES
    g_conf_info,  \* the structure in memory
    file,         \* CONFIG_FILE
    pc,           \* where each thread is
    op,           \* the members the thread's request sets, and to what
    buffer,       \* the stdio buffer of the thread's open file
    con_sys,      \* pc_set_dev_info's copy of con_sys
    up,           \* config_init has returned
    acked,        \* history: what the last finished request left in each member
    torn,         \* history: a reboot cut a config_save off
    missed,       \* history: fopen refused a config_save
    ops, reboots

vars == <<g_conf_info, file, pc, op, buffer, con_sys, up, acked, torn, missed, ops, reboots>>

Const(v) == [m \in Members |-> v]

\* Mutant: a short read is not told from a whole one.
LoadOf_Raw(f) == f

\* What config_init finds in the file: a short read leaves the structure as
\* it is, zero-initialised.
LoadOf(f) == IF f \in {NoFile, Empty} THEN Const(Blank) ELSE f

NoOp == [set |-> {}, val |-> Default]

Ops == [set : SUBSET Members, val : Values \cup {Default}]

Init ==
    /\ g_conf_info = Const(Blank)
    /\ file \in {NoFile, Const(Default)}
    /\ pc = [t \in Writers |-> IF t = "web" THEN "boot" ELSE "idle"]
    /\ op = [t \in Writers |-> NoOp]
    /\ buffer = [t \in Writers |-> Const(Blank)]
    /\ con_sys = Blank
    /\ up = "no"
    /\ acked = Const(None)
    /\ torn = "no" /\ missed = "no"
    /\ ops = 0 /\ reboots = 0

\* Between config_save's fopen and its fclose.
Saving == {"write", "close"}

Goto(t, label) == pc' = [pc EXCEPT ![t] = label]

\* A change of some members; what was acknowledged of them is superseded.
Assign(members, v) ==
    /\ g_conf_info' = [m \in Members |-> IF m \in members THEN v ELSE g_conf_info[m]]
    /\ acked' = [m \in Members |-> IF m \in members THEN None ELSE acked[m]]

-----------------------------------------------------------------------------
(* config_init, run by main before any other thread exists *)

\* No file: config_makedefault, which ends with config_save.
MakeDefault ==
    /\ pc["web"] = "boot" /\ file = NoFile
    /\ g_conf_info' = Const(Default)
    /\ Goto("web", "open")
    /\ UNCHANGED <<file, op, buffer, con_sys, up, acked, torn, missed, ops, reboots>>

\* config_load.
Load ==
    /\ pc["web"] = "boot" /\ file # NoFile
    /\ g_conf_info' = LoadOf(file)
    /\ Goto("web", "mac")
    /\ UNCHANGED <<file, op, buffer, con_sys, up, acked, torn, missed, ops, reboots>>

\* config_net_set programs the MAC address, get_mac_init reads it back: an
\* all-zero address is refused and the chip's own is found.
ReadMac ==
    /\ pc["web"] = "mac"
    /\ g_conf_info' = [g_conf_info EXCEPT !["dev_mac"] = IF @ = Blank THEN HwMac ELSE @]
    /\ up' = "yes"
    /\ Goto("web", "idle")
    /\ UNCHANGED <<file, op, buffer, con_sys, acked, torn, missed, ops, reboots>>

-----------------------------------------------------------------------------
(* config_save *)

\* fopen(CONFIG_FILE, "w").
Open(t) ==
    /\ pc[t] = "open"
    /\ file' = Empty
    /\ Goto(t, "write")
    /\ UNCHANGED <<g_conf_info, op, buffer, con_sys, up, acked, torn, missed, ops, reboots>>

\* fopen fails: logged, and the caller goes on as if all were well.
OpenFails(t) ==
    /\ pc[t] = "open"
    /\ Goto(t, "saved")
    /\ missed' = "yes"
    /\ UNCHANGED <<g_conf_info, file, op, buffer, con_sys, up, acked, torn, ops, reboots>>

\* sys_file_write: the structure is smaller than the stdio buffer.
Write(t) ==
    /\ pc[t] = "write"
    /\ buffer' = [buffer EXCEPT ![t] = g_conf_info]
    /\ Goto(t, "close")
    /\ UNCHANGED <<g_conf_info, file, op, con_sys, up, acked, torn, missed, ops, reboots>>

\* Mutant: the stdio buffer is never flushed.
Close_NoFlush(t) ==
    /\ pc[t] = "close"
    /\ Goto(t, "saved")
    /\ UNCHANGED <<g_conf_info, file, op, buffer, con_sys, up, acked, torn, missed,
                   ops, reboots>>

\* sys_file_close: the buffer goes to the start of the file.
Close(t) ==
    /\ pc[t] = "close"
    /\ file' = buffer[t]
    /\ Goto(t, "saved")
    /\ UNCHANGED <<g_conf_info, op, buffer, con_sys, up, acked, torn, missed, ops, reboots>>

-----------------------------------------------------------------------------
(* The requests that change the configuration *)

Request == up = "yes" /\ ops < MaxOps /\ ops' = ops + 1

\* What one ITS_*_SET replaces.
WebSets == {{"con_sys"}, {"con_net", "dev_mac"}, {"con_vlan"}, {"con_com"},
            {"con_mode"}, {"con_lim"}, {"con_usr"}, {"con_server"}, {"con_gpio"}}

\* What one command of the alarm server replaces: SET_DEVICE_ATTR, SET_IO and
\* SET_TEMP, SET_UART_RECV_ATTR, SET_UART_ATTR.
ClientSets == {{"con_sensor"}, {"con_com"}, {"con_com", "con_sensor"}}

\* Mutant: the change is acknowledged without being saved.
Set_NotSaved(t) ==
    /\ t \in {"web", "client"} /\ pc[t] = "idle"
    /\ Request
    /\ \E s \in (IF t = "web" THEN WebSets ELSE ClientSets), v \in Values :
         /\ Assign(s, v)
         /\ op' = [op EXCEPT ![t] = [set |-> s, val |-> v]]
    /\ Goto(t, "saved")
    /\ UNCHANGED <<file, buffer, con_sys, up, torn, missed, reboots>>

\* A setter of the web or of the client thread: memcpy, then config_save.
Set(t) ==
    /\ t \in {"web", "client"} /\ pc[t] = "idle"
    /\ Request
    /\ \E s \in (IF t = "web" THEN WebSets ELSE ClientSets), v \in Values :
         /\ Assign(s, v)
         /\ op' = [op EXCEPT ![t] = [set |-> s, val |-> v]]
    /\ Goto(t, "open")
    /\ UNCHANGED <<file, buffer, con_sys, up, torn, missed, reboots>>

\* ITS_GPIO_QUERY stores the live inputs into con_gpio, and does not save.
GpioQuery ==
    /\ up = "yes" /\ pc["web"] = "idle"
    /\ \E v \in Values : g_conf_info' = [g_conf_info EXCEPT !["con_gpio"] = v]
    /\ acked' = [acked EXCEPT !["con_gpio"] = None]
    /\ UNCHANGED <<file, pc, op, buffer, con_sys, up, torn, missed, ops, reboots>>

\* pc_set_dev_info: the network and server settings are replaced at once; the
\* copy of con_sys, with a new serial number or without, is put back only
\* after config_net_set and dns_resolution.
ReportCopy ==
    LET t == "report" IN
    /\ t \in Writers /\ pc[t] = "idle" /\ Request
    /\ \E v \in Values, sn \in {{}, {"con_sys"}} :
         LET s == {"con_net", "dev_mac", "con_server"} IN
         /\ Assign(s, v)
         /\ con_sys' = IF sn = {} THEN g_conf_info["con_sys"] ELSE v
         /\ op' = [op EXCEPT ![t] = [set |-> s \cup sn, val |-> v]]
    /\ Goto(t, "sys")
    /\ UNCHANGED <<file, buffer, up, torn, missed, reboots>>

ReportSys ==
    LET t == "report" IN
    /\ t \in Writers /\ pc[t] = "sys"
    /\ g_conf_info' = [g_conf_info EXCEPT !["con_sys"] = con_sys]
    /\ acked' = [acked EXCEPT !["con_sys"] = IF "con_sys" \in op[t].set THEN None ELSE @]
    /\ Goto(t, "open")
    /\ UNCHANGED <<file, op, buffer, con_sys, up, torn, missed, ops, reboots>>

\* Two requests save more than once before they answer: SET_UART_ATTR takes its
\* ports one by one, USER_MODIFY saves the new name and then the new password.
PartSaved(t) ==
    /\ pc[t] = "saved"
    /\ \/ t = "client" /\ op[t].set = {"con_com", "con_sensor"}
       \/ t = "web" /\ op[t].set = {"con_usr"}

NextPart(t) ==
    /\ PartSaved(t) /\ Request
    /\ \E v \in Values : /\ Assign(op[t].set, v)
                         /\ op' = [op EXCEPT ![t].val = v]
    /\ Goto(t, "open")
    /\ UNCHANGED <<file, buffer, con_sys, up, torn, missed, reboots>>

\* A port that is refused ends the command with SET_UART_ATTR_FAIL; the ports
\* before it stay set and saved.
UartFail ==
    /\ "client" \in Writers /\ PartSaved("client")
    /\ Goto("client", "idle")
    /\ UNCHANGED <<g_conf_info, file, op, buffer, con_sys, up, acked, torn, missed,
                   ops, reboots>>

\* The members reconfig gives their default again.
ReconfigSet == {"con_net", "con_gpio", "con_server"}

\* cfg_key_proc: the key reads low, three seconds go by, and it is read again.
KeyDown ==
    /\ "key" \in Writers /\ up = "yes" /\ pc["key"] = "idle"
    /\ Goto("key", "held")
    /\ UNCHANGED <<g_conf_info, file, op, buffer, con_sys, up, acked, torn, missed,
                   ops, reboots>>

KeyUp ==
    /\ "key" \in Writers /\ pc["key"] = "held"
    /\ Goto("key", "idle")
    /\ UNCHANGED <<g_conf_info, file, op, buffer, con_sys, up, acked, torn, missed,
                   ops, reboots>>

\* reconfig, from the key that is still low or from ITS_FACTORY_SET: save, sync,
\* reboot.
Reconfig(t) ==
    /\ \/ t = "web" /\ pc[t] = "idle"
       \/ t = "key" /\ pc[t] = "held"
    /\ Request
    /\ Assign(ReconfigSet, Default)
    /\ op' = [op EXCEPT ![t] = [set |-> ReconfigSet, val |-> Default]]
    /\ Goto(t, "open")
    /\ UNCHANGED <<file, buffer, con_sys, up, torn, missed, reboots>>

\* After config_save: boot goes on, a setter acknowledges, the others have
\* called system("reboot") and wait for it.  A member that a later request has
\* replaced by now does not count as acknowledged.
Saved(t) ==
    /\ pc[t] = "saved"
    /\ \/ up = "no" /\ Goto(t, "mac") /\ UNCHANGED acked
       \/ /\ up = "yes" /\ t \in {"web", "client"} /\ op[t].val # Default
          /\ Goto(t, "idle")
          /\ acked' = [m \in Members |->
                IF m \in op[t].set /\ g_conf_info[m] = op[t].val
                THEN op[t].val ELSE acked[m]]
       \/ /\ up = "yes" /\ (t \in {"report", "key"} \/ op[t].val = Default)
          /\ Goto(t, "reboot") /\ UNCHANGED acked
    /\ UNCHANGED <<g_conf_info, file, op, buffer, con_sys, up, torn, missed, ops, reboots>>

\* A reboot: memory is lost, a half-done save stays as it is on the disk.
Reboot ==
    /\ reboots < MaxReboots /\ reboots' = reboots + 1
    /\ g_conf_info' = Const(Blank)
    /\ pc' = [t \in Writers |-> IF t = "web" THEN "boot" ELSE "idle"]
    /\ op' = [t \in Writers |-> NoOp]
    /\ buffer' = [t \in Writers |-> Const(Blank)]
    /\ con_sys' = Blank
    /\ up' = "no"
    /\ torn' = IF \E t \in Writers : pc[t] \in Saving THEN "yes" ELSE torn
    /\ UNCHANGED <<file, acked, missed, ops>>

SaveStep(t) == Open(t) \/ OpenFails(t) \/ Write(t) \/ Close(t) \/ Saved(t)

Next ==
    \/ MakeDefault \/ Load \/ ReadMac \/ GpioQuery \/ ReportCopy \/ ReportSys
    \/ UartFail \/ KeyDown \/ KeyUp \/ Reboot
    \/ \E t \in Writers : Set(t) \/ NextPart(t) \/ Reconfig(t) \/ SaveStep(t)

Spec == Init /\ [][Next]_vars

-----------------------------------------------------------------------------
(* Properties *)

PcValues == {"boot", "mac", "idle", "sys", "held", "open", "write", "close", "saved",
             "reboot"}

\* Memory and buffers hold configurations, the file one or none.
TypeOK ==
    /\ g_conf_info \in Configs
    /\ file \in Configs \cup {NoFile, Empty}
    /\ pc \in [Writers -> PcValues]
    /\ op \in [Writers -> Ops]
    /\ buffer \in [Writers -> Configs]
    /\ con_sys \in AnyValue
    /\ up \in {"yes", "no"} /\ torn \in {"yes", "no"} /\ missed \in {"yes", "no"}
    /\ acked \in [Members -> AnyValue \cup {None}]
    /\ ops \in Nat /\ reboots \in Nat

\* No thread is inside a handler.
AtRest == up = "yes" /\ \A t \in Writers : pc[t] \in {"idle", "held", "reboot"}

\* The inductive invariant behind FileWholeAtRest: while the file is empty some
\* thread is between its fopen and its fclose, however many of them are.
EmptyWhileSaving == file = Empty /\ torn = "no" => \E t \in Writers : pc[t] \in Saving

\* The types, and the file is empty only under a thread that will fill it.
ConfInv == TypeOK /\ EmptyWhileSaving

\* However many threads save at once, in whatever order config_save's steps
\* interleave and whichever fopen fails, the file they leave behind is never
\* the empty one that fopen makes on the way, unless a reboot cut a save off.
FileWholeAtRest == AtRest /\ torn = "no" => file # Empty

Kept == Members \ {"con_gpio", "dev_mac"}

\* Between two requests the file says what memory says, in every member that
\* is meant to be kept (con_gpio holds live inputs, dev_mac is read from the
\* chip): also after a reboot in the middle of a save, which config_load
\* answers with a blank configuration.
FileTracksMemory ==
    AtRest /\ missed = "no" =>
        \A m \in Kept : LoadOf(file)[m] = g_conf_info[m]

\* What the next boot will load is what was acknowledged last.
AckedInFile == \A m \in Members : acked[m] # None => LoadOf(file)[m] = acked[m]

\* client.c's "still available if reboot", as long as no reboot cuts a
\* config_save off.
StillAvailable == AtRest /\ torn = "no" /\ missed = "no" => AckedInFile

\* The inductive invariant behind FileTracksMemory and StillAvailable when the
\* web thread is the only writer: from config_save's copy on, file and memory
\* agree in everything, and what was acknowledged is in memory all along and
\* in the file except while config_save has it open.
FileSole ==
    missed = "no" =>
        /\ pc["web"] = "close" => buffer["web"] = g_conf_info
        /\ pc["web"] = "saved" => LoadOf(file) = g_conf_info
        /\ pc["web"] \in {"mac", "idle", "held", "reboot"} =>
              \A m \in Kept : LoadOf(file)[m] = g_conf_info[m]

AckSole ==
    missed = "no" /\ torn = "no" =>
        /\ pc["web"] \notin Saving => AckedInFile
        /\ pc["web"] # "boot" =>
              \A m \in Members : acked[m] # None => g_conf_info[m] = acked[m]

\* The two together: what every step keeps while the web thread alone saves.
SoleInv == TypeOK /\ acked \in [Members -> Values \cup {None}] /\ FileSole /\ AckSole

\* StillAvailable with the reboot at any moment, in the middle of a config_save
\* too.
StillAvailableAlways == AtRest /\ missed = "no" => AckedInFile
=============================================================================
