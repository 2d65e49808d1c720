----------------------------- MODULE WebCommands ------------------------------
(***************************************************************************)
(* The commands of the web interface: the requests itslib packs            *)
(* (itscmd.c), and what web_cmd_proc and the sys_* functions of web_net.c   *)
(* do with them.                                                           *)
(*                                                                         *)
(* A configuration record is told apart by its form, the members a page    *)
(* lets the user edit, and the rest of its members.  com and mode records   *)
(* also by their id, the port's number from 1.                             *)
(***************************************************************************)
EXTENDS Integers, Sequences, FiniteSets

CONSTANTS
    Ports,        \* 1 .. MAX_COM_PORT
    MAX_USR_NUM

Record(id, form, rest) == [form |-> form, id |-> id, rest |-> rest]
Blank == Record(0, "blank", "blank")          \* bzero
Garbage == Record(0, "garbage", "garbage")    \* memory that is no record
NoName == <<>>                                \* names are sequences of letters

-----------------------------------------------------------------------------
(* itscmd.c.  A request: its command, the port and operation in itsip_data, *)
(* itsip_user, the body that follows, and whether data follows the answer.  *)
(* The setters do not write itsip_user.                                    *)

itsip_pack(cmd, user, body) ==
    [all |-> 0, body |-> body, cmd |-> cmd, op |-> "none", port |-> 0, psw |-> "none",
     query |-> 0, user |-> user]

Unset == <<"unset">>

Query(cmd, name) == [itsip_pack(cmd, name, <<>>) EXCEPT !.query = 1]
ConfQuery(kind, name, id) == [Query("ITS_CONF_QUERY", name) EXCEPT !.op = kind, !.port = id]
ConfSet(kind, id, rec) ==
    [itsip_pack("ITS_CONF_SET", Unset, <<rec>>) EXCEPT !.op = kind, !.port = id]
UserSet(op, name, users) == [itsip_pack("ITS_USER_SET", name, <<users>>) EXCEPT !.op = op]

user_login(name, psw) == [itsip_pack("ITS_LOGIN", name, <<>>) EXCEPT !.psw = psw]
its_sysinfo_query(name) == Query("ITS_SYSINFO_QUERY", name)
its_sysinfo_set(con_sys) == itsip_pack("ITS_SYSINFO_SET", Unset, <<con_sys>>)
its_netinfo_query(name) == Query("ITS_NETINFO_QUERY", name)
its_netinfo_set(con_net) == itsip_pack("ITS_NETINFO_SET", Unset, <<con_net>>)
its_vlan_query(name) == Query("ITS_VLAN_QUERY", name)
its_vlan_set(con_vlan) == itsip_pack("ITS_VLAN_SET", Unset, <<con_vlan>>)
its_factory_set == itsip_pack("ITS_FACTORY_SET", Unset, <<>>)
its_user_query(name) == Query("ITS_USER_QUERY", name)
its_user_add(name, user) == UserSet("USER_ADD", name, <<user>>)
its_user_del(name, user) == UserSet("USER_DEL", name, <<user>>)
its_user_modify(name, old, new) == UserSet("USER_MODIFY", name, <<old, new>>)
its_conf_com_query(name, con_com) == ConfQuery("CONF_COM", name, con_com.id)
its_conf_gpio_query(name) == Query("ITS_GPIO_QUERY", name)
its_conf_gpio_set(con_gpio) == itsip_pack("ITS_GPIO_SET", Unset, <<con_gpio>>)
its_conf_server_query(name) == Query("ITS_SERVER_QUERY", name)
its_conf_mode_query(name, con_mode) == ConfQuery("CONF_MODE", name, con_mode.id)
its_conf_lim_query(name, id) == ConfQuery("CONF_LIMIT", name, id)
its_conf_com_set(con_com, flag) ==
    [ConfSet("CONF_COM", con_com.id, con_com) EXCEPT !.all = flag]
its_conf_server_set(con_server) == itsip_pack("ITS_SERVER_SET", Unset, <<con_server>>)
its_conf_mode_set(con_mode) == ConfSet("CONF_MODE", con_mode.id, con_mode)
its_conf_lim_set(id, con_lim) == ConfSet("CONF_LIMIT", id, con_lim)

-----------------------------------------------------------------------------
(* The user table, config.c.  A slot is [auth, name, psw].                 *)

\* The first slot with this name, none or one.
SlotOf(usr, name) ==
    {i \in 1..MAX_USR_NUM : usr[i].name = name /\ \A j \in 1..(i - 1) : usr[j].name # name}

get_usr_info(usr, name) == {usr[i] : i \in SlotOf(usr, name)}
get_usr_id(usr, name) == SlotOf(usr, name)

\* In the first slot with this name replace one field; ok or failed says whether
\* there is one.
InSlot(usr, name, field, val, ok, failed) ==
    [ret |-> IF SlotOf(usr, name) = {} THEN failed ELSE ok,
     usr |-> [i \in 1..MAX_USR_NUM |->
                IF i \in SlotOf(usr, name) THEN [usr[i] EXCEPT ![field] = val] ELSE usr[i]]]

\* A new user takes the first empty slot, and the rights that are in it.
sys_usr_add(usr, u) ==
    [InSlot(usr, NoName, "name", u.name, "USR_ADD_OK", "USR_ADD_FAILED")
        EXCEPT !.usr = [i \in 1..MAX_USR_NUM |->
            IF i \in SlotOf(usr, NoName) THEN [usr[i] EXCEPT !.name = u.name, !.psw = u.psw]
            ELSE usr[i]]]
sys_usr_del(usr, name) == InSlot(usr, name, "name", NoName, "USR_DEL_OK", "USR_DEL_FAILED")
set_usr_name(usr, old, new) ==
    InSlot(usr, old, "name", new, "USR_MODIFY_OK", "USR_MODIFY_FAILED")
set_usr_psw(usr, name, psw) ==
    InSlot(usr, name, "psw", psw, "USR_MODIFY_OK", "USR_MODIFY_FAILED")

sys_usr_login(usr, name, psw) ==
    IF SlotOf(usr, name) = {} THEN "NO_USER"
    ELSE IF \E u \in get_usr_info(usr, name) : u.psw = psw THEN "LOGIN_OK"
    ELSE "ERROR_PSW"

Modified(usr) == [ret |-> "USR_MODIFY_OK", usr |-> usr]

\* The switch of sys_usr_set on what has been received.  The tests for FAILURE
\* never hold, since the functions return USR_MODIFY_FAILED.
UserOp(usr, op, users) ==
    LET u == users[1]
    IN CASE op = "USER_ADD" ->
              IF SlotOf(usr, u.name) = {} THEN sys_usr_add(usr, u)
              ELSE [ret |-> "RC_USREXIST", usr |-> usr]
         [] op = "USER_DEL" ->
              IF SlotOf(usr, u.name) = {} THEN [ret |-> "RC_NOUSR", usr |-> usr]
              ELSE IF u.name = <<"root">> THEN [ret |-> "USR_DEL_FAILED", usr |-> usr]
              ELSE sys_usr_del(usr, u.name)
         [] op = "USER_MODIFY" ->
              IF users[2].name = NoName
              THEN Modified(set_usr_psw(usr, u.name, users[2].psw).usr)
              ELSE Modified(set_usr_psw(set_usr_name(usr, u.name, users[2].name).usr,
                                        users[2].name, users[2].psw).usr)

-----------------------------------------------------------------------------
(* web_net.c.  What a command does: the store after it, the code it answers *)
(* (ret) and whether data follows (ext).                                   *)

Ack(store, ret) == [ext |-> 0, ret |-> ret, store |-> store]
Answer(store) == [ext |-> 1, ret |-> "0", store |-> store]
Refuse(store) == Ack(store, "1")

\* body is empty when it could not be received.
Replace(store, member, body, ok, failed) ==
    IF body = <<>> THEN Ack(store, failed) ELSE Ack([store EXCEPT ![member] = body[1]], ok)

sys_sysinfo_set(s, body) == Replace(s, "sys", body, "SYS_SET_OK", "SYS_SET_FAILED")
sys_server_set(s, body) == Replace(s, "server", body, "SERVER_SET_OK", "SERVER_SET_FAILED")
sys_netinfo_set(s, body) == Replace(s, "net", body, "NET_SET_OK", "NET_SET_FAILED")
sys_gpio_set(s, body) == Replace(s, "gpio", body, "GPIO_SET_OK", "NET_SET_FAILED")
sys_vlan_set(s, body) == Replace(s, "vlan", body, "VLAN_SET_OK", "VLAN_SET_FAILED")

\* reconfig: the network settings on the form, the server, and alarm_on_off[0..7],
\* of which [3..6] are the outputs.
sys_factory_set(s) ==
    Ack([s EXCEPT !.net.form = "default", !.server = Record(0, "default", "default"),
                  !.gpio = Record(0, "default", "default")], "FACTORY_SET_OK")

\* ITS_GPIO_QUERY writes eight ints over the three of con_gpio.alarm: the switches
\* and the outputs behind them take the states of inputs 4 to 8.
GpioRead(s) == [s EXCEPT !.gpio = Record(0, "alarms", "alarms")]

\* A setter's user is what its stack holds: the name of the query before, or not.
Users(req) == IF req.user = Unset THEN {NoName, <<"root">>} ELSE {req.user}

\* con_lim of the port lets this user do it, or is not enabled.
Allowed(s, port, right, user) ==
    s.lim[port].enable = 0 \/ \E i \in get_usr_id(s.usr, user) : i \in s.lim[port][right]

\* An unknown user's rights are read behind con_usr: they may be anything.
RootSays(s, user) ==
    IF SlotOf(s.usr, user) = {} THEN {"root", "normal"}
    ELSE {u.auth : u \in get_usr_info(s.usr, user)}

\* A port's number of 0 has con_lim read far behind its end.
sys_conf_query(s, req) ==
    IF req.op = "CONF_LIMIT"
    THEN {IF a = "root" THEN Answer(s) ELSE Refuse(s) : a \in RootSays(s, req.user)}
    ELSE IF req.port \notin Ports THEN {Answer(s), Refuse(s)}
    ELSE {IF Allowed(s, req.port, "read", req.user) THEN Answer(s) ELSE Refuse(s)}

\* com.all = 1: the form goes to all ports, and nothing else of the record.
ComStored(s, req, con_com) ==
    IF req.all = 1 THEN [s EXCEPT !.com = [p \in Ports |-> [s.com[p] EXCEPT !.form = con_com.form]]]
    ELSE [s EXCEPT !.com[req.port] = con_com]

sys_conf_set(s, req, body) ==
    IF body = <<>> THEN {Ack(s, "RECV_FAILED")}
    ELSE UNION {
        CASE req.op = "CONF_COM" ->
               {IF Allowed(s, req.port, "modify", u) THEN Ack(ComStored(s, req, body[1]), "COM_SET_OK")
                ELSE Ack(s, "COM_SET_OK")}
          [] req.op = "CONF_MODE" ->
               {IF Allowed(s, req.port, "modify", u)
                THEN Ack([s EXCEPT !.mode[req.port] = body[1]], "MODE_SET_OK")
                ELSE Ack(s, "MODE_SET_FAILED")}
          [] req.op = "CONF_LIMIT" ->
               {IF a = "root" THEN Ack([s EXCEPT !.lim[req.port] = body[1]], "LIMIT_SET_OK")
                ELSE Ack(s, "LIMIT_SET_FAILED") : a \in RootSays(s, u)}
        : u \in Users(req)}

\* sys_usr_set asks who it is before it receives the body.
UserMay(s, req) ==
    IF SlotOf(s.usr, req.user) = {} THEN "RC_NOUSR"
    ELSE IF \E u \in get_usr_info(s.usr, req.user) : u.auth # "root" THEN "RC_NORIGHT"
    ELSE "yes"

\* And does not ask whether it has received it: extdat may hold anything.
NoUser == [auth |-> "normal", name |-> <<"garbage">>, psw |-> "garbage"]
sys_usr_set(s, req, body) ==
    IF UserMay(s, req) # "yes" THEN Ack(s, UserMay(s, req))
    ELSE LET users == IF body = <<>> THEN <<NoUser, NoUser>> ELSE body[1]
             done == UserOp(s.usr, req.op, users)
         IN Ack([s EXCEPT !.usr = done.usr], done.ret)

\* Mutant: a user's record is not received.
TakesBody_NoUser(s, req) ==
    req.cmd \in {"ITS_SYSINFO_SET", "ITS_NETINFO_SET", "ITS_VLAN_SET", "ITS_SERVER_SET",
                 "ITS_GPIO_SET", "ITS_CONF_SET"}

\* The handler calls web_conn_recv for a body.
TakesBody(s, req) ==
    \/ req.cmd \in {"ITS_SYSINFO_SET", "ITS_NETINFO_SET", "ITS_VLAN_SET", "ITS_SERVER_SET",
                    "ITS_GPIO_SET", "ITS_CONF_SET"}
    \/ req.cmd = "ITS_USER_SET" /\ UserMay(s, req) = "yes"

web_cmd_proc(s, req, body) ==
    CASE req.cmd = "ITS_LOGIN" -> {Ack(s, sys_usr_login(s.usr, req.user, req.psw))}
      [] req.cmd = "ITS_USER_SET" -> {sys_usr_set(s, req, body)}
      [] req.cmd = "ITS_SYSINFO_SET" -> {sys_sysinfo_set(s, body)}
      [] req.cmd = "ITS_NETINFO_SET" -> {sys_netinfo_set(s, body)}
      [] req.cmd = "ITS_VLAN_SET" -> {sys_vlan_set(s, body)}
      [] req.cmd = "ITS_SERVER_SET" -> {sys_server_set(s, body)}
      [] req.cmd = "ITS_GPIO_SET" -> {sys_gpio_set(s, body)}
      [] req.cmd = "ITS_FACTORY_SET" -> {sys_factory_set(s)}
      [] req.cmd = "ITS_CONF_SET" -> sys_conf_set(s, req, body)
      [] req.cmd = "ITS_CONF_QUERY" -> sys_conf_query(s, req)
      [] req.cmd = "ITS_GPIO_QUERY" -> {Answer(GpioRead(s))}
      [] OTHER -> {Answer(s)}       \* the other queries

\* What a query sends after its answer, from the store as it is by then.
Sent(s, req) ==
    CASE req.cmd = "ITS_SYSINFO_QUERY" -> s.sys
      [] req.cmd = "ITS_NETINFO_QUERY" -> s.net
      [] req.cmd = "ITS_VLAN_QUERY" -> s.vlan
      [] req.cmd = "ITS_SERVER_QUERY" -> s.server
      [] req.cmd = "ITS_GPIO_QUERY" -> s.gpio
      [] req.cmd = "ITS_USER_QUERY" -> s.usr
      [] OTHER ->
           IF req.port \notin Ports THEN Garbage
           ELSE CASE req.op = "CONF_LIMIT" -> s.lim[req.port]
                  [] req.op = "CONF_COM" -> s.com[req.port]
                  [] req.op = "CONF_MODE" -> s.mode[req.port]
=============================================================================
