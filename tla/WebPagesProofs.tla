---------------------------- MODULE WebPagesProofs ----------------------------
(***************************************************************************)
(* Proofs about the pages and the server that carries out their calls, for *)
(* any number of programs, whatever they are asked and whatever goes       *)
(* wrong: every call is kept as RemoteCalls promises, no page stores a     *)
(* record that it has not received, and the user table holds those who     *)
(* were asked for.                                                         *)
(***************************************************************************)
EXTENDS WebPages, TLAPS

-----------------------------------------------------------------------------
(* What the programs ask *)

LEMMA QueryPacked ==
    ASSUME NEW cmd, NEW name,
           cmd \notin Setters \cup {"ITS_USER_SET", "ITS_LOGIN", "ITS_FACTORY_SET"}
    PROVE  /\ Packed(Query(cmd, name)) /\ Query(cmd, name).query = 1 /\ Query(cmd, name).cmd = cmd
  BY DEF Packed, Query, itsip_pack, Setters

LEMMA ConfQueryPacked ==
    ASSUME NEW kind, NEW name, NEW id
    PROVE  /\ Packed(ConfQuery(kind, name, id))
           /\ ConfQuery(kind, name, id).query = 1
           /\ ConfQuery(kind, name, id).cmd = "ITS_CONF_QUERY"
           /\ ConfQuery(kind, name, id).op = kind /\ ConfQuery(kind, name, id).port = id
  BY DEF Packed, ConfQuery, Query, itsip_pack, Setters

LEMMA RecordPacked ==
    ASSUME NEW cmd \in Setters \ {"ITS_CONF_SET"}, NEW rec, IsWhole(rec)
    PROVE  Packed(itsip_pack(cmd, Unset, <<rec>>))
  <1>1. <<rec>> # <<>> /\ <<rec>>[1] = rec
    OBVIOUS
  <1> QED BY <1>1 DEF Packed, itsip_pack, Setters

LEMMA ConfPacked ==
    ASSUME NEW kind \in {"CONF_COM", "CONF_MODE"}, NEW id, NEW rec, IsWhole(rec), NEW flag
    PROVE  /\ Packed(ConfSet(kind, id, rec))
           /\ Packed([ConfSet(kind, id, rec) EXCEPT !.all = flag])
  <1>1. <<rec>> # <<>> /\ <<rec>>[1] = rec
    OBVIOUS
  <1> QED BY <1>1 DEF Packed, ConfSet, itsip_pack, Setters

LEMMA OthersPacked ==
    /\ Packed(its_factory_set)
    /\ \A user, psw : Packed(user_login(user, psw)) /\ user_login(user, psw).query = 0
  BY DEF Packed, its_factory_set, user_login, itsip_pack, Setters

RecordPages == Pages \ {"factory", "users", "mainFrame"}

\* What PageOf says of each page.
LEMMA Queries ==
    ASSUME NEW g, VisitOK(g.visit)
    PROVE  /\ g.visit.page \in RecordPages =>
                Packed(PageOf(g).query) /\ PageOf(g).query.query = 1 /\ PageOf(g).seen = "QUERY_OK"
           /\ g.visit.page \in RecordPages /\ (g.visit.page \in {"com", "mode"} => g.rec.id \in Ports)
                => ForRecord(PageOf(g).query)
           /\ g.visit.page = "mainFrame" =>
                Packed(PageOf(g).query) /\ PageOf(g).query.query = 0 /\ PageOf(g).seen = "LOGIN_OK"
  <1>1. g.visit.page \in Pages
    BY DEF VisitOK
  <1>2. CASE g.visit.page \in {"host", "net", "vlan", "server", "gpio", "gpio_set"}
    <2>1. PICK cmd \in {"ITS_SYSINFO_QUERY", "ITS_NETINFO_QUERY", "ITS_VLAN_QUERY",
                        "ITS_SERVER_QUERY", "ITS_GPIO_QUERY"} :
             PageOf(g).query = Query(cmd, g.name) /\ PageOf(g).seen = "QUERY_OK"
      BY <1>2
      DEF PageOf, host, net, vlan, server, gpio, gpio_set, its_sysinfo_query, its_netinfo_query,
          its_vlan_query, its_conf_server_query, its_conf_gpio_query
    <2>2. /\ Packed(Query(cmd, g.name)) /\ Query(cmd, g.name).query = 1
          /\ Query(cmd, g.name).cmd = cmd
      BY QueryPacked, cmd \notin Setters \cup {"ITS_USER_SET", "ITS_LOGIN", "ITS_FACTORY_SET"}
      DEF Setters
    <2>3. ForRecord(Query(cmd, g.name))
      BY <2>2 DEF ForRecord
    <2> QED BY <1>2, <2>1, <2>2, <2>3
  <1>3. CASE g.visit.page \in {"com", "mode"}
    <2>1. PICK kind \in {"CONF_COM", "CONF_MODE"} :
             PageOf(g).query = ConfQuery(kind, g.name, g.rec.id) /\ PageOf(g).seen = "QUERY_OK"
      BY <1>3 DEF PageOf, com, mode, its_conf_com_query, its_conf_mode_query
    <2> DEFINE q == ConfQuery(kind, g.name, g.rec.id)
    <2>2. /\ Packed(q) /\ q.query = 1 /\ q.cmd = "ITS_CONF_QUERY"
          /\ q.op = kind /\ q.port = g.rec.id
      BY ConfQueryPacked
    <2>3. g.rec.id \in Ports => ForRecord(q)
      BY <2>2 DEF ForRecord
    <2> QED BY <1>3, <2>1, <2>2, <2>3
  <1>4. CASE g.visit.page = "mainFrame"
    BY <1>4, OthersPacked DEF PageOf, mainFrame, RecordPages
  <1>5. CASE g.visit.page \in {"factory", "users"}
    BY <1>5 DEF RecordPages
  <1> QED BY <1>1, <1>2, <1>3, <1>4, <1>5 DEF Pages

LEMMA Sets ==
    ASSUME NEW g, VisitOK(g.visit), g.visit.page \in {"factory", "users"} \/ IsWhole(g.rec)
    PROVE  Packed(PageOf(g).set)
  <1>1. g.visit.page \in Pages
    BY DEF VisitOK
  <1>2. CASE g.visit.page \in {"host", "net", "vlan", "server", "gpio_set"}
    BY <1>2, RecordPacked
    DEF PageOf, host, net, vlan, server, gpio_set, its_sysinfo_set, its_netinfo_set,
        its_vlan_set, its_conf_server_set, its_conf_gpio_set, Setters
  <1>3. CASE g.visit.page \in {"com", "mode"}
    BY <1>3, ConfPacked DEF PageOf, com, mode, its_conf_com_set, its_conf_mode_set
  <1>4. CASE g.visit.page \in {"mainFrame", "factory", "gpio"}
    BY <1>4, OthersPacked DEF PageOf, mainFrame, factory, gpio
  <1>5. CASE g.visit.page = "users"
    BY <1>5 DEF PageOf, users, VisitOK, Managing
  <1> QED BY <1>1, <1>2, <1>3, <1>4, <1>5 DEF Pages

LEMMA RequestPacked ==
    ASSUME NEW g, VisitOK(g.visit), g.at \in DOMAIN Before,
           g.visit.page \in {"factory", "users"} => g.at = "set",
           g.at = "set" /\ g.visit.page \notin {"factory", "users"} => IsWhole(g.rec)
    PROVE  Packed(Request(g))
  <1>1. g.at \in {"query", "net", "set", "requery"}
    BY DEF Before
  <1>2. CASE g.at = "set"
    BY <1>2, Sets DEF Request
  <1>3. CASE g.at = "net"
    BY <1>3, QueryPacked DEF Request, its_netinfo_query, Setters
  <1>4. CASE g.at \in {"query", "requery"}
    <2>1. g.visit.page \in RecordPages \cup {"mainFrame"}
      BY <1>4 DEF VisitOK, RecordPages
    <2>2. Request(g) = PageOf(g).query
      BY <1>4 DEF Request
    <2> QED BY <2>1, <2>2, Queries
  <1> QED BY <1>1, <1>2, <1>3, <1>4

-----------------------------------------------------------------------------
(* What the commands do *)

\* Only a command that receives its body looks at it.
LEMMA UnlessReceived ==
    ASSUME NEW s, NEW req, Packed(req), ~TakesBody(s, req), NEW body
    PROVE  web_cmd_proc(s, req, body) = web_cmd_proc(s, req, <<>>)
  <1>1. req.cmd \notin Setters
    BY DEF TakesBody, Setters
  <1>2. CASE req.cmd = "ITS_USER_SET"
    <2>1. sys_usr_set(s, req, body) = sys_usr_set(s, req, <<>>)
      BY <1>2 DEF TakesBody, sys_usr_set
    <2> QED BY <1>2, <2>1 DEF web_cmd_proc
  <1>3. CASE req.cmd # "ITS_USER_SET"
    BY <1>1, <1>3 DEF web_cmd_proc, Setters
  <1> QED BY <1>2, <1>3

\* A command that takes a body is sent with one, and no query takes any.
LEMMA TakesPacked ==
    ASSUME NEW s, NEW req, Packed(req), TakesBody(s, req)
    PROVE  req.body # <<>> /\ req.query = 0
  BY DEF TakesBody, Packed, Setters

\* The first slot of a name is a slot.
LEMMA SlotIsSlot == \A usr, name : SlotOf(usr, name) \subseteq 1..MAX_USR_NUM
  BY DEF SlotOf

LEMMA SlotKeepsUsers ==
    ASSUME NEW usr, UsersOK(usr), NEW name, NEW field, NEW val, NEW ok, NEW failed
    PROVE  UsersOK(InSlot(usr, name, field, val, ok, failed).usr)
  BY DEF UsersOK, InSlot

LEMMA SlotAdd ==
    ASSUME NEW usr, UsersOK(usr), NEW u
    PROVE  UsersOK(sys_usr_add(usr, u).usr)
  <1> DEFINE new == [i \in 1..MAX_USR_NUM |->
            IF i \in SlotOf(usr, NoName) THEN [usr[i] EXCEPT !.name = u.name, !.psw = u.psw]
            ELSE usr[i]]
  <1>1. sys_usr_add(usr, u).usr = new
    BY DEF sys_usr_add, InSlot
  <1>2. UsersOK(new)
    BY DEF UsersOK
  <1> QED BY <1>1, <1>2

\* Whatever is asked, and whatever came: the table keeps its slots.
LEMMA UserOpKeeps ==
    ASSUME NEW usr, UsersOK(usr), NEW op \in DOMAIN UserCount, NEW us
    PROVE  UsersOK(UserOp(usr, op, us).usr)
  <1>1. op \in {"USER_ADD", "USER_DEL", "USER_MODIFY"}
    BY DEF UserCount
  <1>2. CASE op = "USER_ADD"
    BY <1>2, SlotAdd DEF UserOp
  <1>3. CASE op = "USER_DEL"
    <2>1. UsersOK(sys_usr_del(usr, us[1].name).usr)
      BY SlotKeepsUsers DEF sys_usr_del
    <2> QED BY <1>3, <2>1 DEF UserOp
  <1>4. CASE op = "USER_MODIFY"
    <2>1. UsersOK(set_usr_name(usr, us[1].name, us[2].name).usr)
      BY SlotKeepsUsers DEF set_usr_name
    <2>2. \A tab, name, psw : UsersOK(tab) => UsersOK(set_usr_psw(tab, name, psw).usr)
      BY SlotKeepsUsers DEF set_usr_psw
    <2>3. \A tab : Modified(tab).usr = tab
      BY DEF Modified
    <2> QED BY <1>4, <2>1, <2>2, <2>3 DEF UserOp
  <1> QED BY <1>1, <1>2, <1>3, <1>4

\* A member of the store replaced by a whole record.
LEMMA MemberSet ==
    ASSUME NEW s, StoreOK(s), NEW r, IsWhole(r),
           NEW m \in {"sys", "net", "vlan", "server", "gpio"}
    PROVE  StoreOK([s EXCEPT ![m] = r]) /\ [s EXCEPT ![m] = r].usr = s.usr
  BY DEF StoreOK

LEMMA PortSet ==
    ASSUME NEW s, StoreOK(s), NEW r, IsWhole(r), NEW p
    PROVE  /\ StoreOK([s EXCEPT !.com[p] = r]) /\ [s EXCEPT !.com[p] = r].usr = s.usr
           /\ StoreOK([s EXCEPT !.mode[p] = r]) /\ [s EXCEPT !.mode[p] = r].usr = s.usr
  BY DEF StoreOK

LEMMA LimitSet ==
    ASSUME NEW s, StoreOK(s), NEW r, NEW p
    PROVE  StoreOK([s EXCEPT !.lim[p] = r]) /\ [s EXCEPT !.lim[p] = r].usr = s.usr
  BY DEF StoreOK

LEMMA UsersSet ==
    ASSUME NEW s, StoreOK(s), NEW usr, UsersOK(usr)
    PROVE  StoreOK([s EXCEPT !.usr = usr]) /\ [s EXCEPT !.usr = usr].usr = usr
  BY DEF StoreOK

\* Every port's form from one record.
LEMMA FormsSet ==
    ASSUME NEW s, StoreOK(s), NEW f, f \notin {"blank", "garbage"}
    PROVE  LET t == [s EXCEPT !.com = [p \in Ports |-> [s.com[p] EXCEPT !.form = f]]]
           IN  StoreOK(t) /\ t.usr = s.usr
  <1>1. \A p \in Ports : IsWhole([s.com[p] EXCEPT !.form = f])
    BY DEF StoreOK, IsWhole
  <1> QED BY <1>1 DEF StoreOK

LEMMA Fields ==
    ASSUME NEW r, IsWhole(r), NEW f, f \notin {"blank", "garbage"}
    PROVE  IsWhole([r EXCEPT !.form = f]) /\ IsWhole([r EXCEPT !.rest = f])
  BY DEF IsWhole

LEMMA WholeRecord ==
    ASSUME NEW id, NEW f, NEW r, {f, r} \cap {"blank", "garbage"} = {}
    PROVE  IsWhole(Record(id, f, r))
  BY DEF IsWhole, Record

LEMMA OthersKeep ==
    ASSUME NEW s, StoreOK(s), NEW t \in Others(s)
    PROVE  StoreOK(t) /\ t.usr = s.usr
  <1>1. \/ \E p \in Ports : t = [s EXCEPT !.com[p].rest = "other"]
        \/ \E p \in Ports : t = [s EXCEPT !.com[p].form = "other"]
    BY DEF Others
  <1>2. \A p \in Ports : IsWhole([s.com[p] EXCEPT !.form = "other"])
                         /\ IsWhole([s.com[p] EXCEPT !.rest = "other"])
    BY Fields DEF StoreOK
  <1> QED BY <1>1, <1>2 DEF StoreOK

LEMMA ReplaceKeeps ==
    ASSUME NEW s, StoreOK(s), NEW m \in {"sys", "net", "vlan", "server", "gpio"},
           NEW body, body = <<>> \/ IsWhole(body[1]), NEW ok, NEW failed
    PROVE  LET o == Replace(s, m, body, ok, failed)
           IN  StoreOK(o.store) /\ o.ext = 0 /\ o.store.usr = s.usr
  BY MemberSet DEF Replace, Ack

LEMMA ConfKeeps ==
    ASSUME NEW s, StoreOK(s), NEW req, Packed(req), req.cmd = "ITS_CONF_SET",
           NEW body, body = <<>> \/ body = req.body, NEW o \in sys_conf_set(s, req, body)
    PROVE  StoreOK(o.store) /\ o.ext = 0 /\ o.store.usr = s.usr
  <1> DEFINE Kept(t) == StoreOK(t) /\ t.usr = s.usr
  <1>1. \A t, ret : Ack(t, ret).store = t /\ Ack(t, ret).ext = 0
    BY DEF Ack
  <1>0. Kept(s)
    OBVIOUS
  <1> SUFFICES \E t, ret : Kept(t) /\ o = Ack(t, ret)
    BY <1>1
  <1> HIDE DEF Kept
  <1>2. CASE body = <<>>
    <2>1. o = Ack(s, "RECV_FAILED")
      BY <1>2 DEF sys_conf_set
    <2> QED BY <1>0, <2>1
  <1>3. CASE body # <<>>
    <2>1. /\ req.op \in {"CONF_COM", "CONF_MODE", "CONF_LIMIT"}
          /\ req.op # "CONF_LIMIT" => IsWhole(body[1])
      BY <1>3 DEF Packed, Setters
    <2>2. PICK u \in Users(req) : o \in
            CASE req.op = "CONF_COM" ->
               {IF Allowed(s, req.port, "modify", u) THEN Ack(ComStored(s, req, body[1]), "COM_SET_OK")
                ELSE Ack(s, "COM_SET_OK")}
              [] req.op = "CONF_MODE" ->
               {IF Allowed(s, req.port, "modify", u)
                THEN Ack([s EXCEPT !.mode[req.port] = body[1]], "MODE_SET_OK")
                ELSE Ack(s, "MODE_SET_FAILED")}
              [] req.op = "CONF_LIMIT" ->
               {IF a = "root" THEN Ack([s EXCEPT !.lim[req.port] = body[1]], "LIMIT_SET_OK")
                ELSE Ack(s, "LIMIT_SET_FAILED") : a \in RootSays(s, u)}
      BY <1>3, Zenon DEF sys_conf_set
    <2>3. CASE req.op = "CONF_COM"
      <3>1. Kept(ComStored(s, req, body[1]))
        <4>1. IsWhole(body[1])
          BY <2>1, <2>3
        <4>2. body[1].form \notin {"blank", "garbage"}
          BY <4>1 DEF IsWhole
        <4> QED BY <4>1, <4>2, PortSet, FormsSet DEF ComStored, Kept
      <3>2. \/ o = Ack(ComStored(s, req, body[1]), "COM_SET_OK")
            \/ o = Ack(s, "COM_SET_OK")
        BY <2>2, <2>3
      <3> QED BY <3>1, <3>2, <1>0, Zenon
    <2>4. CASE req.op = "CONF_MODE"
      <3>1. Kept([s EXCEPT !.mode[req.port] = body[1]])
        BY <2>1, <2>4, PortSet DEF Kept
      <3>2. \/ o = Ack([s EXCEPT !.mode[req.port] = body[1]], "MODE_SET_OK")
            \/ o = Ack(s, "MODE_SET_FAILED")
        BY <2>2, <2>4
      <3> QED BY <3>1, <3>2, <1>0, Zenon
    <2>5. CASE req.op = "CONF_LIMIT"
      <3>1. Kept([s EXCEPT !.lim[req.port] = body[1]])
        BY LimitSet DEF Kept
      <3>2. \/ o = Ack([s EXCEPT !.lim[req.port] = body[1]], "LIMIT_SET_OK")
            \/ o = Ack(s, "LIMIT_SET_FAILED")
        BY <2>2, <2>5
      <3> QED BY <3>1, <3>2, <1>0, Zenon
    <2> QED BY <2>1, <2>3, <2>4, <2>5
  <1> QED BY <1>2, <1>3

\* A command leaves a store of whole records, whether its body has come or not, and
\* announces data to queries only.
LEMMA CommandKeeps ==
    ASSUME NEW s, StoreOK(s), NEW req, Packed(req), NEW body, body = <<>> \/ body = req.body,
           NEW o \in web_cmd_proc(s, req, body)
    PROVE  /\ StoreOK(o.store)
           /\ o.ext \in {0, 1} /\ (o.ext = 1 => req.query = 1)
           /\ req.cmd # "ITS_USER_SET" => o.store.usr = s.usr
  <1> DEFINE Kept == /\ StoreOK(o.store) /\ o.store.usr = s.usr
                     /\ o.ext \in {0, 1} /\ (o.ext = 1 => req.query = 1)
  <1>1. \A t, ret : Ack(t, ret).store = t /\ Ack(t, ret).ext = 0
    BY DEF Ack
  <1>2. CASE req.cmd = "ITS_LOGIN"
    BY <1>1, <1>2 DEF web_cmd_proc
  <1>3. CASE req.cmd = "ITS_USER_SET"
    <2>1. o = sys_usr_set(s, req, body)
      BY <1>3 DEF web_cmd_proc
    <2>2. req.op \in DOMAIN UserCount
      BY <1>3 DEF Packed, Setters
    <2>3. PICK us : \/ o = Ack(s, UserMay(s, req))
                    \/ \E ret : o = Ack([s EXCEPT !.usr = UserOp(s.usr, req.op, us).usr], ret)
      BY <2>1 DEF sys_usr_set
    <2>4. UsersOK(UserOp(s.usr, req.op, us).usr)
      BY <2>2, UserOpKeeps DEF StoreOK
    <2>5. StoreOK([s EXCEPT !.usr = UserOp(s.usr, req.op, us).usr])
      BY <2>4, UsersSet
    <2> QED BY <1>1, <1>3, <2>3, <2>5
  <1>4. CASE req.cmd \in {"ITS_SYSINFO_SET", "ITS_NETINFO_SET", "ITS_VLAN_SET", "ITS_SERVER_SET",
                          "ITS_GPIO_SET"}
    <2>1. body = <<>> \/ IsWhole(body[1])
      BY <1>4 DEF Packed, Setters
    <2>2. PICK m \in {"sys", "net", "vlan", "server", "gpio"} :
            \E ok, failed : o = Replace(s, m, body, ok, failed)
      BY <1>4 DEF web_cmd_proc, sys_sysinfo_set, sys_netinfo_set, sys_vlan_set,
                  sys_server_set, sys_gpio_set
    <2> QED BY <1>4, <2>1, <2>2, ReplaceKeeps
  <1>5. CASE req.cmd = "ITS_FACTORY_SET"
    <2> DEFINE d == Record(0, "default", "default")
               t == [s EXCEPT !.net.form = "default", !.server = d, !.gpio = d]
    <2>1. o = Ack(t, "FACTORY_SET_OK")
      BY <1>5 DEF web_cmd_proc, sys_factory_set
    <2>2. IsWhole(d)
      BY WholeRecord
    <2>3. IsWhole([s.net EXCEPT !.form = "default"])
      BY Fields DEF StoreOK
    <2>4. StoreOK(t) /\ t.usr = s.usr
      <3> DEFINE n == [s EXCEPT !["net"] = [s.net EXCEPT !.form = "default"]]
                 v == [n EXCEPT !["server"] = d]
                 w == [v EXCEPT !["gpio"] = d]
      <3>1. StoreOK(n) /\ n.usr = s.usr
        BY <2>3, MemberSet
      <3>2. StoreOK(v) /\ v.usr = n.usr
        BY <3>1, <2>2, MemberSet
      <3>3. StoreOK(w) /\ w.usr = v.usr
        BY <3>2, <2>2, MemberSet
      <3>4. t = w
        BY DEF StoreOK
      <3> QED BY <3>1, <3>2, <3>3, <3>4
    <2> HIDE DEF t
    <2> QED BY <1>1, <2>1, <2>4
  <1>6. CASE req.cmd = "ITS_CONF_SET"
    <2>1. o \in sys_conf_set(s, req, body)
      BY <1>6 DEF web_cmd_proc
    <2> QED BY <2>1, <1>6, ConfKeeps
  <1>7. CASE req.cmd = "ITS_GPIO_QUERY"
    <2>1. o = Answer(GpioRead(s)) /\ req.query = 1
      BY <1>7 DEF web_cmd_proc, Packed, Setters
    <2>2. StoreOK(GpioRead(s)) /\ GpioRead(s).usr = s.usr
      BY MemberSet, WholeRecord DEF GpioRead
    <2> QED BY <2>1, <2>2 DEF Answer
  <1>8. CASE /\ req.cmd \notin Setters \cup {"ITS_USER_SET", "ITS_LOGIN", "ITS_FACTORY_SET"}
             /\ req.cmd # "ITS_GPIO_QUERY"
    <2>1. o = Answer(s) \/ o = Refuse(s)
      <3>1. CASE req.cmd = "ITS_CONF_QUERY"
        <4>1. o \in sys_conf_query(s, req)
          BY <3>1 DEF web_cmd_proc
        <4> QED BY <4>1 DEF sys_conf_query
      <3>2. CASE req.cmd # "ITS_CONF_QUERY"
        BY <3>2, <1>8 DEF web_cmd_proc, Setters
      <3> QED BY <3>1, <3>2
    <2>2. req.query = 1
      BY <1>8 DEF Packed
    <2> QED BY <2>1, <2>2 DEF Answer, Refuse, Ack
  <1> QED BY <1>2, <1>3, <1>4, <1>5, <1>6, <1>7, <1>8 DEF Setters

\* What a page asks for is whole, wherever it is read.
LEMMA SentWhole ==
    ASSUME NEW s, StoreOK(s), NEW req, ForRecord(req)
    PROVE  IsWhole(Sent(s, req))
  <1>1. CASE req.cmd = "ITS_CONF_QUERY"
    BY <1>1 DEF ForRecord, Sent, StoreOK
  <1>2. CASE req.cmd # "ITS_CONF_QUERY"
    <2>1. Sent(s, req) \in {s.sys, s.net, s.vlan, s.server, s.gpio}
      BY <1>2 DEF ForRecord, Sent
    <2> QED BY <2>1 DEF StoreOK
  <1> QED BY <1>1, <1>2

-----------------------------------------------------------------------------
(* What a step leaves alone *)

LEMMA ProgramFrame ==
    ASSUME NEW p \in Procs, ProgramOK(cgi[p]), cgi'[p] = cgi[p],
           srv.pc = "dead" => srv'.pc = "dead"
    PROVE  ProgramOK(cgi[p])'
  BY DEF ProgramOK

LEMMA TalkFrame ==
    ASSUME NEW p \in Procs, ProgramOK(cgi[p]), TalkOK(p), cgi'[p] = cgi[p],
           \A j \in 1..MaxCalls :
              /\ call'[<<p, j>>].st = call[<<p, j>>].st /\ call'[<<p, j>>].req = call[<<p, j>>].req
              /\ mine'[<<p, j>>] = mine[<<p, j>>]
              /\ head[<<p, j>>] # <<>> => head'[<<p, j>>] # <<>>
    PROVE  TalkOK(p)'
  <1>1. ASSUME Talking(cgi[p])
        PROVE  Cur(p) = <<p, cgi[p].k>> /\ cgi[p].k \in 1..MaxCalls
    <2>1. cgi[p].k \in 0..MaxCalls /\ cgi[p].at \in DOMAIN Before
          /\ cgi[p].k \in 1..(Before[cgi[p].at] + 1)
      BY <1>1 DEF ProgramOK, Talking
    <2> QED BY <2>1 DEF Cur, MaxCalls, Before
  <1>2. Cur(p)' = Cur(p)
    BY DEF Cur
  <1>3. Request(cgi[p])' = Request(cgi[p])
    BY DEF Request
  <1>4. Talking(cgi[p])' = Talking(cgi[p])
    BY DEF Talking
  <1>5. (\A j \in 1..MaxCalls : j > cgi[p].k => call[<<p, j>>].st = "none")'
    BY DEF TalkOK
  <1>6. ASSUME Talking(cgi[p])
        PROVE  LET c == Cur(p) IN
         /\ call'[c].st = "open" /\ mine'[c] = "open" /\ call'[c].req = Request(cgi[p])
         /\ cgi[p].cl = "body" => call'[c].req.body # <<>>
         /\ cgi[p].cl = "data" => call'[c].req.query = 1 /\ head'[c] # <<>>
    BY <1>1, <1>6 DEF TalkOK
  <1> QED BY <1>2, <1>3, <1>4, <1>5, <1>6 DEF TalkOK

LEMMA CallFrame ==
    ASSUME NEW c \in Conns, CallOK(c),
           call'[c] = call[c], mine'[c] = mine[c], up'[c] = up[c], head'[c] = head[c],
           data'[c] = data[c], theirs'[c] = theirs[c], srv.pc = "dead" => srv'.pc = "dead"
    PROVE  CallOK(c)'
  BY DEF CallOK

LEMMA ServerFrame ==
    ASSUME ServerOK, UNCHANGED <<store, srv>>,
           srv.conn \in Conns =>
             LET c == srv.conn IN
             /\ theirs'[c] = theirs[c]
             /\ "head" \in up'[c] => "head" \in up[c]
             /\ \/ call'[c] = call[c]
                \/ /\ call[c].st # "none" => call'[c].st # "none"
                   /\ call'[c].req = call[c].req /\ call'[c].taken = call[c].taken
                   /\ call'[c].ext = call[c].ext /\ call'[c].data = call[c].data
    PROVE  ServerOK'
  BY DEF ServerOK

\* A request is told by where its program is and what it has in hand.
LEMMA RequestSame ==
    ASSUME NEW g, NEW h, h.at = g.at, h.name = g.name, h.rec = g.rec, h.visit = g.visit
    PROVE  Request(h) = Request(g)
  <1>1. PageOf(h) = PageOf(g)
    BY DEF PageOf, host, net, vlan, com, mode, server, gpio, gpio_set, mainFrame, factory, users
  <1> QED BY <1>1 DEF Request

LEMMA ServerRests ==
    ASSUME ServerOK, UNCHANGED srv, srv.pc \in {"idle", "dead"}
    PROVE  ServerOK'
  BY DEF ServerOK

-----------------------------------------------------------------------------
(* A call returns *)

\* What is known of program g when its call returns ret: it is past no call it has
\* still to make, and has the record if it thinks so.
Returns(g, ret) ==
    /\ DOMAIN g = {"alert", "at", "cl", "k", "name", "rec", "visit"}
    /\ VisitOK(g.visit)
    /\ g.at \in DOMAIN Before /\ g.k \in 0..(Before[g.at] + 1)
    /\ g.visit.page \in {"factory", "users"} => g.at = "set"
    /\ g.visit.page \notin {"factory", "users"}
         /\ (g.at = "net" \/ (g.at = "query" /\ g.visit.page \in RecordPages /\ ret = "QUERY_OK"))
       => IsWhole(g.rec) \/ srv.pc = "dead"

LEMMA EndsOK ==
    ASSUME NEW g, NEW ret, Returns(g, ret), NEW alert
    PROVE  LET h == Ends(g, alert) IN ProgramOK(h) /\ ~Talking(h) /\ h.k = g.k
  BY DEF Returns, Ends, ProgramOK, Talking, Before, MaxCalls

\* Asking again.
LEMMA AgainOK ==
    ASSUME NEW g,
           DOMAIN g = {"alert", "at", "cl", "k", "name", "rec", "visit"}, VisitOK(g.visit),
           g.k \in 0..3, g.visit.page \notin {"factory", "users"}, NEW alert
    PROVE  LET h == Again(g, alert) IN ProgramOK(h) /\ ~Talking(h) /\ h.k = g.k
  <1> DEFINE r == PageOf(g).again
  <1>1. Again(g, alert) = ToCall([g EXCEPT !.rec = r, !.alert = alert], "requery")
    BY DEF Again
  <1> HIDE DEF r
  <1> QED BY <1>1 DEF ToCall, ProgramOK, Talking, Before, MaxCalls

\* The form goes over a record that is whole.
LEMMA FilledOK ==
    ASSUME NEW g,
           DOMAIN g = {"alert", "at", "cl", "k", "name", "rec", "visit"}, VisitOK(g.visit),
           g.k \in 0..2, g.visit.page \notin {"factory", "users"},
           IsWhole(g.rec) \/ srv.pc = "dead"
    PROVE  LET h == Filled(g) IN ProgramOK(h) /\ ~Talking(h) /\ h.k = g.k
  <1> DEFINE r == [g.rec EXCEPT !.form = g.visit.form]
  <1>1. IsWhole(r) \/ srv.pc = "dead"
    BY Fields DEF VisitOK
  <1>2. Filled(g) = ToCall([g EXCEPT !.rec = r], "set")
    BY DEF Filled
  <1> HIDE DEF r
  <1> QED BY <1>1, <1>2 DEF ToCall, ProgramOK, Talking, Before, MaxCalls

LEMMA SubmittedOK ==
    ASSUME NEW g,
           DOMAIN g = {"alert", "at", "cl", "k", "name", "rec", "visit"}, VisitOK(g.visit),
           g.k \in 0..2, g.visit.page \notin {"factory", "users"},
           IsWhole(g.rec) \/ srv.pc = "dead", NEW h \in Submitted(g)
    PROVE  ProgramOK(h) /\ ~Talking(h) /\ h.k = g.k
  <1>1. h = Filled(g) \/ h = Again(g, "rejected")
    BY DEF Submitted
  <1> QED BY <1>1, FilledOK, AgainOK

\* A page goes on with its calls in order, and to set only a record that it has.
LEMMA AfterOK ==
    ASSUME NEW g, NEW ret, Returns(g, ret), NEW h \in AfterCall(g, ret)
    PROVE  ProgramOK(h) /\ ~Talking(h) /\ h.k = g.k
  <1> DEFINE Fine(f) == ProgramOK(f) /\ ~Talking(f) /\ f.k = g.k
  <1>a. /\ DOMAIN g = {"alert", "at", "cl", "k", "name", "rec", "visit"} /\ VisitOK(g.visit)
        /\ g.at \in DOMAIN Before /\ g.k \in 0..(Before[g.at] + 1)
    BY DEF Returns
  <1>b. \A alert : Fine(Ends(g, alert))
    BY EndsOK
  <1>c. g.at # "requery" /\ g.visit.page \notin {"factory", "users"} =>
          \A alert : Fine(Again(g, alert))
    BY <1>a, AgainOK DEF Before
  <1>d. (g.at \in {"query", "net"} /\ g.visit.page \notin {"factory", "users"}
           /\ (IsWhole(g.rec) \/ srv.pc = "dead"))
        => \A f \in Submitted(g) : Fine(f)
    BY <1>a, SubmittedOK DEF Before
  <1> SUFFICES Fine(h)
    OBVIOUS
  <1>1. CASE g.at = "query"
    <2>1. g.visit.page \in RecordPages \cup {"mainFrame"}
      BY <1>a, <1>1 DEF Returns, VisitOK, RecordPages
    <2>2. CASE \E alert : h = Ends(g, alert)
      BY <2>2, <1>b, Zenon
    <2>3. CASE ~ \E alert : h = Ends(g, alert)
      <3>1. /\ ret = PageOf(g).seen /\ g.visit.page # "mainFrame"
            /\ h = ToCall(g, "net") \/ h \in Submitted(g)
        BY <1>1, <2>3 DEF AfterCall
      <3>2. g.visit.page \in RecordPages /\ ret = "QUERY_OK"
        BY <2>1, <3>1, <1>a, Queries
      <3>3. g.visit.page \notin {"factory", "users"} /\ (IsWhole(g.rec) \/ srv.pc = "dead")
        BY <1>1, <3>2 DEF Returns, RecordPages
      <3>4. CASE h = ToCall(g, "net")
        <4>1. g.k \in 0..1
          BY <1>a, <1>1 DEF Before
        <4> QED BY <3>3, <3>4, <4>1, <1>a DEF ToCall, ProgramOK, Talking, Before, MaxCalls
      <3> QED BY <3>1, <3>3, <3>4, <1>d, <1>1
    <2> QED BY <2>2, <2>3
  <1>2. CASE g.at = "net"
    <2>1. g.visit.page \notin {"factory", "users"} /\ (IsWhole(g.rec) \/ srv.pc = "dead")
      BY <1>2 DEF Returns
    <2>2. h = AskName(g) \/ h \in Submitted(g)
      BY <1>2 DEF AfterCall, AfterNet
    <2>3. CASE h = AskName(g)
      <3>1. g.k \in 0..2
        BY <1>a, <1>2 DEF Before
      <3> QED BY <2>1, <2>3, <3>1, <1>a DEF AskName, ProgramOK, Talking, Before, MaxCalls
    <2> QED BY <2>1, <2>2, <2>3, <1>d, <1>2
  <1>3. CASE g.at = "set"
    <2>1. \/ \E alert : h = Ends(g, alert)
          \/ g.visit.page \notin {"factory", "users"} /\ h = Again(g, "failed")
      BY <1>3 DEF AfterCall
    <2> QED BY <2>1, <1>b, <1>c, <1>3, Zenon
  <1>4. CASE g.at = "requery"
    <2>1. h = Ends(g, g.alert)
      BY <1>4 DEF AfterCall
    <2> QED BY <2>1, <1>b, Zenon
  <1> QED BY <1>a, <1>1, <1>2, <1>3, <1>4 DEF Before

-----------------------------------------------------------------------------
(* Every step keeps PagesInv.  First a program's own: what is not <<p, k>> is as it  *)
(* was, so are the other programs and the server.                          *)

\* The connection on which a program talks, and what it has asked there.
LEMMA CurIs ==
    ASSUME NEW p \in Procs, ProgramOK(cgi[p]), Talking(cgi[p])
    PROVE  /\ cgi[p].at \in DOMAIN Before /\ cgi[p].k \in 1..(Before[cgi[p].at] + 1)
           /\ cgi[p].k \in 1..MaxCalls /\ Cur(p) = <<p, cgi[p].k>> /\ Cur(p) \in Conns
  <1>1. /\ cgi[p].k \in 0..MaxCalls /\ cgi[p].at \in DOMAIN Before
        /\ cgi[p].k \in 1..(Before[cgi[p].at] + 1)
    BY DEF ProgramOK, Talking
  <1>2. cgi[p].k \in 1..MaxCalls
    BY <1>1 DEF MaxCalls, Before
  <1> QED BY <1>1, <1>2 DEF Cur, Conns

\* A step of program p that has no part in any call.
LEMMA OwnStep ==
    ASSUME PagesInv, NEW p \in Procs, NEW g, cgi' = [cgi EXCEPT ![p] = g],
           UNCHANGED <<store, links, srv, call>>,
           ProgramOK(g), ~Talking(g), g.k = cgi[p].k
    PROVE  PagesInv'
  <1>1. /\ Tables /\ StoreOK(store) /\ ServerOK
        /\ \A q \in Procs : ProgramOK(cgi[q]) /\ TalkOK(q)
        /\ \A c \in Conns : CallOK(c)
    BY DEF PagesInv
  <1>2. /\ cgi'[p] = g /\ \A q \in Procs \ {p} : cgi'[q] = cgi[q]
        /\ store' = store /\ srv' = srv /\ call' = call /\ up' = up /\ mine' = mine
        /\ head' = head /\ data' = data /\ theirs' = theirs
    BY <1>1 DEF Tables, links
  <1>3. Tables'
    BY <1>1, <1>2 DEF Tables
  <1>4. StoreOK(store)'
    BY <1>1, <1>2
  <1>5. ServerOK'
    BY <1>1, <1>2, ServerFrame
  <1>6. \A c \in Conns : CallOK(c)'
    BY <1>1, <1>2, CallFrame
  <1>7. ASSUME NEW q \in Procs, q # p
        PROVE  ProgramOK(cgi[q])' /\ TalkOK(q)'
    <2>1. ProgramOK(cgi[q]) /\ TalkOK(q) /\ cgi'[q] = cgi[q]
      BY <1>1, <1>2, <1>7
    <2>2. ProgramOK(cgi[q])'
      BY <2>1, <1>2, ProgramFrame
    <2>3. TalkOK(q)'
      BY <2>1, <1>2, TalkFrame
    <2> QED BY <2>2, <2>3
  <1>8. ProgramOK(cgi[p])'
    BY <1>2 DEF ProgramOK
  <1>9. TalkOK(p)'
    <2>1. ~Talking(cgi[p])'
      BY <1>2 DEF Talking
    <2>2. (\A j \in 1..MaxCalls : j > cgi[p].k => call[<<p, j>>].st = "none")'
      BY <1>1, <1>2 DEF TalkOK
    <2> QED BY <2>1, <2>2 DEF TalkOK
  <1> QED BY <1>3, <1>4, <1>5, <1>6, <1>7, <1>8, <1>9 DEF PagesInv

LEMMA BeginKeeps == ASSUME PagesInv, NEW p \in Procs, Begin(p) PROVE PagesInv'
  <1> DEFINE g == cgi[p]
             s == session[g.visit.addr]
             named == [g EXCEPT !.name = s, !.rec = Record(g.visit.port, "blank", "blank")]
  <1>1. ProgramOK(g) /\ g.at = "start" /\ g.k = 0 /\ Tables
    BY DEF PagesInv, Begin, ProgramOK, Before
  <1>2. PICK h : /\ cgi' = [cgi EXCEPT ![p] = h]
                 /\ \/ \E alert : h = Ends(g, alert)
                    \/ h = ToCall(g, "query") /\ g.visit.page = "mainFrame"
                    \/ h = ToCall(named, "set") /\ g.visit.page \in {"users", "factory"}
                    \/ h = ToCall(named, "query") /\ g.visit.page \notin {"users", "factory"}
    BY DEF Begin
  <1>3. named.rec.id = g.visit.port /\ named.visit = g.visit /\ named.k = g.k /\ DOMAIN named = DOMAIN g
    BY <1>1 DEF ProgramOK, Record
  <1>4. ProgramOK(h) /\ ~Talking(h) /\ h.k = g.k
    <2> HIDE DEF named
    <2>1. CASE \E alert : h = Ends(g, alert)
      BY <2>1, <1>1 DEF Ends, ProgramOK, Talking, MaxCalls
    <2>2. CASE h = ToCall(g, "query") /\ g.visit.page = "mainFrame"
      BY <2>2, <1>1 DEF ToCall, ProgramOK, Talking, MaxCalls, Before
    <2>3. CASE h = ToCall(named, "set") /\ g.visit.page \in {"users", "factory"}
      BY <2>3, <1>1, <1>3 DEF ToCall, ProgramOK, Talking, MaxCalls, Before
    <2>4. CASE h = ToCall(named, "query") /\ g.visit.page \notin {"users", "factory"}
      BY <2>4, <1>1, <1>3 DEF ToCall, ProgramOK, VisitOK, Talking, MaxCalls, Before
    <2> QED BY <1>2, <2>1, <2>2, <2>3, <2>4
  <1>5. UNCHANGED <<store, links, srv, call>>
    BY DEF Begin
  <1> QED BY <1>2, <1>4, <1>5, OwnStep

LEMMA ResolveKeeps == ASSUME PagesInv, NEW p \in Procs, Resolve(p) PROVE PagesInv'
  <1>1. ProgramOK(cgi[p]) /\ cgi[p].cl = "dns"
    BY DEF PagesInv, Resolve
  <1>2. PICK h \in Submitted(cgi[p]) : cgi' = [cgi EXCEPT ![p] = h]
    BY DEF Resolve
  <1>3. /\ DOMAIN cgi[p] = {"alert", "at", "cl", "k", "name", "rec", "visit"}
        /\ VisitOK(cgi[p].visit) /\ cgi[p].k \in 0..2
        /\ cgi[p].visit.page \notin {"factory", "users"}
        /\ IsWhole(cgi[p].rec) \/ srv.pc = "dead"
    BY <1>1 DEF ProgramOK, Talking, MaxCalls
  <1>4. ProgramOK(h) /\ ~Talking(h) /\ h.k = cgi[p].k
    BY <1>2, <1>3, SubmittedOK
  <1>5. UNCHANGED <<store, links, srv, call>>
    BY DEF Resolve
  <1> QED BY <1>2, <1>4, <1>5, OwnStep

LEMMA ConnectFailsKeeps == ASSUME PagesInv, NEW p \in Procs, ConnectFails(p) PROVE PagesInv'
  <1>1. ProgramOK(cgi[p]) /\ cgi[p].cl = "connect" /\ srv.pc = "dead"
    BY DEF PagesInv, ConnectFails, At
  <1>2. PICK h \in AfterCall(cgi[p], "CONN_FAILED") : cgi' = [cgi EXCEPT ![p] = h]
    BY DEF ConnectFails
  <1>3. Returns(cgi[p], "CONN_FAILED")
    BY <1>1 DEF ProgramOK, Returns, Talking, MaxCalls, Before
  <1>4. ProgramOK(h) /\ ~Talking(h) /\ h.k = cgi[p].k
    BY <1>2, <1>3, AfterOK
  <1>5. UNCHANGED <<store, links, srv, call>>
    BY DEF ConnectFails
  <1> QED BY <1>2, <1>4, <1>5, OwnStep

LEMMA ConnectKeeps == ASSUME PagesInv, NEW p \in Procs, Connect(p) PROVE PagesInv'
  <1> DEFINE g == cgi[p]
             c == <<p, g.k + 1>>
             req == Request(g)
             cl == IF req.body = <<>> THEN "head" ELSE "body"
             h == [g EXCEPT !.k = @ + 1, !.cl = cl]
  <1>1. /\ Tables /\ StoreOK(store) /\ ServerOK
        /\ \A q \in Procs : ProgramOK(cgi[q]) /\ TalkOK(q)
        /\ \A d \in Conns : CallOK(d)
    BY DEF PagesInv
  <1>2. /\ g.cl = "connect" /\ srv.pc # "dead"
        /\ UNCHANGED <<store, head, data, theirs, srv>>
        /\ mine' = [mine EXCEPT ![c] = "open"] /\ up' = [up EXCEPT ![c] = {"head"}]
        /\ call' = [call EXCEPT ![c] = Call(req)]
    BY DEF Connect, At
  <1>3. ProgramOK(g) /\ g.at \in DOMAIN Before /\ g.k \in 0..Before[g.at] /\ g.k + 1 \in 1..MaxCalls
    <2>1. ProgramOK(g)
      BY <1>1
    <2>2. g.at \in DOMAIN Before /\ g.k \in 0..Before[g.at]
      BY <1>2, <2>1 DEF ProgramOK, Talking, MaxCalls, Before
    <2> QED BY <2>1, <2>2 DEF Before, MaxCalls
  <1>4. c \in Conns /\ call[c].st = "none"
    BY <1>1, <1>3 DEF Conns, TalkOK
  <1>5. /\ call'[c] = Call(req) /\ mine'[c] = "open" /\ up'[c] = {"head"}
        /\ \A d \in Conns \ {c} : call'[d] = call[d] /\ mine'[d] = mine[d] /\ up'[d] = up[d]
        /\ Tables'
        /\ cgi'[p] = h /\ \A q \in Procs \ {p} : cgi'[q] = cgi[q]
    <2>1. cgi' = [cgi EXCEPT ![p] = h]
      BY DEF Connect
    <2> HIDE DEF h, c, req
    <2> QED BY <2>1, <1>1, <1>2, <1>4 DEF Tables
  <1>6. Packed(req)
    <2>1. g.visit.page \in {"factory", "users"} => g.at = "set"
      BY <1>3 DEF ProgramOK, Before
    <2>2. g.at = "set" /\ g.visit.page \notin {"factory", "users"} => IsWhole(g.rec)
      BY <1>2, <1>3 DEF ProgramOK
    <2>3. VisitOK(g.visit)
      BY <1>3 DEF ProgramOK
    <2> QED BY <2>1, <2>2, <2>3, <1>3, RequestPacked
  <1>7. /\ h.at = g.at /\ h.name = g.name /\ h.rec = g.rec /\ h.visit = g.visit
        /\ h.k = g.k + 1 /\ h.cl = cl /\ DOMAIN h = DOMAIN g
    BY <1>3 DEF ProgramOK
  <1>8. Call(req).st = "open" /\ Call(req).req = req
    BY DEF Call
  <1>9. \A d \in Conns : CallOK(d)'
    <2>1. ASSUME NEW d \in Conns, d # c
          PROVE  CallOK(d)'
      BY <2>1, <1>1, <1>2, <1>5, CallFrame
    <2>2. ASSUME NEW d \in Conns, d = c
          PROVE  CallOK(d)'
      <3>1. CallOK(d) /\ call[d].st = "none"
        BY <1>1, <1>4, <2>2
      <3>2. head[d] = <<>> /\ data[d] = <<>>
        BY <3>1 DEF CallOK, Call
      <3>3. /\ head'[d] = <<>> /\ data'[d] = <<>>
            /\ call'[d] = Call(req) /\ mine'[d] = "open" /\ up'[d] = {"head"}
        BY <3>2, <2>2, <1>2, <1>5
      <3> HIDE DEF c, req
      <3> QED BY <3>3, <1>6 DEF CallOK, Call
    <2> QED BY <2>1, <2>2
  <1>10. ServerOK'
    <2>1. CASE srv.conn = c
      <3>1. srv.pc \in {"idle", "dead"}
        BY <1>1, <1>4, <2>1 DEF ServerOK
      <3> QED BY <1>1, <1>2, <3>1, ServerRests
    <2>2. CASE srv.conn # c
      <3> HIDE DEF c, req, h
      <3>1. srv.conn \in Conns =>
              /\ theirs'[srv.conn] = theirs[srv.conn] /\ up'[srv.conn] = up[srv.conn]
              /\ call'[srv.conn] = call[srv.conn]
        BY <2>2, <1>2, <1>5
      <3> QED BY <3>1, <1>1, <1>2, ServerFrame
    <2> QED BY <2>1, <2>2
  <1>11. ASSUME NEW q \in Procs, q # p
         PROVE  ProgramOK(cgi[q])' /\ TalkOK(q)'
    <2>1. ProgramOK(cgi[q]) /\ TalkOK(q) /\ cgi'[q] = cgi[q]
      BY <1>1, <1>5, <1>11
    <2>2. ProgramOK(cgi[q])'
      BY <2>1, <1>2, ProgramFrame
    <2>3. \A j \in 1..MaxCalls : <<q, j>> \in Conns \ {c}
      BY <1>11 DEF Conns
    <2>4. TalkOK(q)'
      BY <2>1, <2>3, <1>2, <1>5, TalkFrame
    <2> QED BY <2>2, <2>4
  <1>12. ProgramOK(cgi[p])'
    <2> HIDE DEF h
    <2> QED BY <1>2, <1>3, <1>5, <1>7 DEF ProgramOK, Talking, Before, MaxCalls
  <1>13. TalkOK(p)'
    <2>1. Request(h) = req
      BY <1>7, RequestSame
    <2>2. Cur(p)' = c /\ cgi'[p].k = g.k + 1 /\ cgi'[p].cl = cl
      BY <1>5, <1>7 DEF Cur
    <2>3. Request(cgi[p])' = req
      <3>1. Request(cgi[p])' = Request(h)
        BY <1>5 DEF Request, PageOf, host, net, vlan, com, mode, server, gpio, gpio_set,
                    mainFrame, factory, users
      <3> QED BY <3>1, <2>1
    <2>4. ASSUME NEW j \in 1..MaxCalls, j > g.k + 1
          PROVE  call'[<<p, j>>].st = "none"
      <3>1. j > g.k /\ j # g.k + 1
        BY <2>4, <1>3
      <3>2. <<p, j>> \in Conns \ {c} /\ call[<<p, j>>].st = "none"
        BY <3>1, <1>1 DEF TalkOK, Conns
      <3> QED BY <3>2, <1>5
    <2> HIDE DEF c, h, req
    <2> QED BY <2>2, <2>3, <2>4, <1>5, <1>8 DEF TalkOK
  <1> QED BY <1>1, <1>2, <1>5, <1>9, <1>10, <1>11, <1>12, <1>13 DEF PagesInv

\* A program that goes on with its call: only cl changes, and what it has sent.
LEMMA TalksOn ==
    ASSUME PagesInv, NEW p \in Procs, Talking(cgi[p]), NEW cl \in {"head", "data"},
           cgi' = [cgi EXCEPT ![p].cl = cl],
           UNCHANGED <<store, mine, head, data, theirs, srv, call>>,
           Tables', \A d \in Conns \ {Cur(p)} : up'[d] = up[d],
           "head" \in up'[Cur(p)] => "head" \in up[Cur(p)],
           call[Cur(p)].req.query = 1 => up'[Cur(p)] = up[Cur(p)],
           cl = "data" => call[Cur(p)].req.query = 1 /\ head[Cur(p)] # <<>>
    PROVE  PagesInv'
  <1> DEFINE g == cgi[p]
             h == [g EXCEPT !.cl = cl]
  <1>1. /\ Tables /\ StoreOK(store) /\ ServerOK
        /\ \A q \in Procs : ProgramOK(cgi[q]) /\ TalkOK(q)
        /\ \A d \in Conns : CallOK(d)
    BY DEF PagesInv
  <1>2. /\ g.at \in DOMAIN Before /\ g.k \in 1..(Before[g.at] + 1) /\ g.k \in 1..MaxCalls
        /\ Cur(p) = <<p, g.k>> /\ Cur(p) \in Conns
    BY <1>1, CurIs
  <1>3. PICK c \in Conns : c = Cur(p)
    BY <1>2
  <1>4. cgi'[p] = h /\ \A q \in Procs \ {p} : cgi'[q] = cgi[q]
    BY <1>1 DEF Tables
  <1>5. /\ h.at = g.at /\ h.name = g.name /\ h.rec = g.rec /\ h.visit = g.visit
        /\ h.k = g.k /\ h.cl = cl /\ DOMAIN h = DOMAIN g
    <2>1. DOMAIN g = {"alert", "at", "cl", "k", "name", "rec", "visit"}
      BY <1>1 DEF ProgramOK
    <2> QED BY <2>1
  <1>6. /\ call[c].st = "open" /\ mine[c] = "open" /\ call[c].req = Request(g)
        /\ \A j \in 1..MaxCalls : j > g.k => call[<<p, j>>].st = "none"
    BY <1>1, <1>3 DEF TalkOK
  <1>7. \A d \in Conns : CallOK(d)'
    <2>1. ASSUME NEW d \in Conns, d # c
          PROVE  CallOK(d)'
      BY <2>1, <1>1, <1>3, CallFrame
    <2>2. CallOK(c)'
      <3>1. CallOK(c)
        BY <1>1
      <3>2. /\ "head" \in up'[c] => "head" \in up[c]
            /\ call[c].req.query = 1 => up'[c] = up[c]
        BY <1>3
      <3>3. call' = call /\ mine' = mine /\ head' = head /\ data' = data /\ theirs' = theirs
            /\ srv' = srv
        OBVIOUS
      <3> QED BY <3>1, <3>2, <3>3, <1>6 DEF CallOK
    <2> QED BY <2>1, <2>2
  <1>8. ServerOK'
    <2>1. srv.conn \in Conns => ("head" \in up'[srv.conn] => "head" \in up[srv.conn])
      BY <1>3
    <2> QED BY <2>1, <1>1, ServerFrame
  <1>9. ASSUME NEW q \in Procs, q # p
        PROVE  ProgramOK(cgi[q])' /\ TalkOK(q)'
    <2>1. ProgramOK(cgi[q]) /\ TalkOK(q) /\ cgi'[q] = cgi[q]
      BY <1>1, <1>4, <1>9
    <2>2. ProgramOK(cgi[q])'
      BY <2>1, ProgramFrame
    <2>3. TalkOK(q)'
      BY <2>1, TalkFrame
    <2> QED BY <2>2, <2>3
  <1>10. ProgramOK(cgi[p])'
    <2>1. ProgramOK(g)
      BY <1>1
    <2> HIDE DEF h
    <2> QED BY <2>1, <1>2, <1>4, <1>5 DEF ProgramOK, Talking, MaxCalls
  <1>11. TalkOK(p)'
    <2>1. Cur(p)' = c
      BY <1>2, <1>3, <1>4, <1>5 DEF Cur
    <2>2. Request(cgi[p])' = Request(g)
      <3>1. Request(cgi[p])' = Request(h)
        BY <1>4 DEF Request, PageOf, host, net, vlan, com, mode, server, gpio, gpio_set,
                    mainFrame, factory, users
      <3> QED BY <3>1, <1>5, RequestSame
    <2>3. cgi'[p].cl = cl /\ cgi'[p].k = g.k
      BY <1>4, <1>5
    <2>4. cl = "data" => call[c].req.query = 1 /\ head[c] # <<>>
      BY <1>3
    <2> HIDE DEF g, h
    <2> QED BY <2>1, <2>2, <2>3, <2>4, <1>6 DEF TalkOK
  <1> QED BY <1>1, <1>7, <1>8, <1>9, <1>10, <1>11 DEF PagesInv

LEMMA SendBodyKeeps == ASSUME PagesInv, NEW p \in Procs, SendBody(p) PROVE PagesInv'
  <1>1. Tables /\ ProgramOK(cgi[p]) /\ TalkOK(p) /\ cgi[p].cl = "body"
    BY DEF PagesInv, SendBody, At
  <1>2. Talking(cgi[p])
    BY <1>1 DEF Talking
  <1>3. Cur(p) \in Conns
    BY <1>1, <1>2, CurIs
  <1>4. /\ cgi' = [cgi EXCEPT ![p].cl = "head"]
        /\ up' = [up EXCEPT ![Cur(p)] = @ \cup {"rec", "pad"}]
        /\ UNCHANGED <<store, mine, head, data, theirs, srv, call>>
    BY DEF SendBody
  <1>5. Tables' /\ up'[Cur(p)] = up[Cur(p)] \cup {"rec", "pad"}
        /\ \A d \in Conns \ {Cur(p)} : up'[d] = up[d]
    BY <1>1, <1>3, <1>4 DEF Tables
  <1>6. call[Cur(p)].req.query # 1
    <2>1. call[Cur(p)].req.body # <<>> /\ call[Cur(p)].st # "none"
      BY <1>1, <1>2 DEF TalkOK
    <2>2. Packed(call[Cur(p)].req)
      BY <1>3, <2>1 DEF PagesInv, CallOK
    <2> QED BY <2>1, <2>2 DEF Packed
  <1> QED BY <1>2, <1>4, <1>5, <1>6, TalksOn

LEMMA RecvHeadKeeps == ASSUME PagesInv, NEW p \in Procs, RecvHead(p) PROVE PagesInv'
  <1>1. Tables /\ cgi[p].cl = "head" /\ head[Cur(p)] # <<>> /\ call[Cur(p)].req.query = 1
    BY DEF PagesInv, RecvHead, At
  <1>2. Talking(cgi[p])
    BY <1>1 DEF Talking
  <1>3. /\ cgi' = [cgi EXCEPT ![p].cl = "data"]
        /\ UNCHANGED <<store, up, mine, head, data, theirs, srv, call>>
    BY DEF RecvHead, links
  <1>4. Tables'
    BY <1>1, <1>3 DEF Tables
  <1> QED BY <1>1, <1>2, <1>3, <1>4, TalksOn

\* A program's call ends, well or not, and its connection.
LEMMA CallEnds ==
    ASSUME PagesInv, NEW p \in Procs, Talking(cgi[p]), NEW h,
           ProgramOK(h), ~Talking(h), h.k = cgi[p].k,
           cgi' = [cgi EXCEPT ![p] = h], mine' = [mine EXCEPT ![Cur(p)] = "fin"],
           UNCHANGED <<store, up, head, data, theirs, srv>>,
           NEW st \in {"ok", "failed"}, NEW res,
           \/ call' = [call EXCEPT ![Cur(p)].st = st]
           \/ call' = [call EXCEPT ![Cur(p)].st = st, ![Cur(p)].res = res]
    PROVE  PagesInv'
  <1> DEFINE g == cgi[p]
  <1>1. /\ Tables /\ StoreOK(store) /\ ServerOK
        /\ \A q \in Procs : ProgramOK(cgi[q]) /\ TalkOK(q)
        /\ \A d \in Conns : CallOK(d)
    BY DEF PagesInv
  <1>2. /\ g.k \in 1..MaxCalls /\ Cur(p) = <<p, g.k>> /\ Cur(p) \in Conns
    BY <1>1, CurIs
  <1>3. PICK c \in Conns : c = Cur(p)
    BY <1>2
  <1>4. cgi'[p] = h /\ \A q \in Procs \ {p} : cgi'[q] = cgi[q]
    BY <1>1 DEF Tables
  <1>5. Tables' /\ mine'[c] = "fin" /\ \A d \in Conns \ {c} : mine'[d] = mine[d] /\ call'[d] = call[d]
    BY <1>1, <1>3 DEF Tables
  <1>6. DOMAIN call[c] = DOMAIN Call(<<>>)
    BY <1>1 DEF CallOK
  <1>7. /\ DOMAIN call'[c] = DOMAIN call[c] /\ call'[c].st = st
        /\ \A x \in DOMAIN call[c] \ {"st", "res"} : call'[c][x] = call[c][x]
    BY <1>1, <1>3, <1>6 DEF Tables, Call
  <1>8. /\ call'[c].data = call[c].data /\ call'[c].ext = call[c].ext /\ call'[c].req = call[c].req
        /\ call'[c].ret = call[c].ret /\ call'[c].taken = call[c].taken
        /\ call'[c].whole = call[c].whole
    BY <1>6, <1>7 DEF Call
  <1>9. \A d \in Conns : CallOK(d)'
    <2>1. ASSUME NEW d \in Conns, d # c
          PROVE  CallOK(d)'
      BY <2>1, <1>1, <1>5, CallFrame
    <2>2. CallOK(c)'
      <3>1. CallOK(c) /\ call[c].st # "none"
        BY <1>1, <1>3 DEF TalkOK
      <3>2. /\ DOMAIN call'[c] = DOMAIN Call(<<>>)' /\ DOMAIN call[c] = DOMAIN Call(<<>>)
        BY <1>6, <1>7 DEF Call
      <3>3. up' = up /\ head' = head /\ data' = data /\ theirs' = theirs /\ srv' = srv
        OBVIOUS
      <3>4. call'[c].st # "none"
        BY <1>7
      <3> HIDE DEF g
      <3> QED BY <3>1, <3>2, <3>3, <3>4, <1>5, <1>8 DEF CallOK
    <2> QED BY <2>1, <2>2
  <1>10. ServerOK'
    <2>1. CASE srv.conn = c
      BY <2>1, <1>1, <1>7, <1>8, ServerFrame
    <2>2. CASE srv.conn # c
      <3>1. srv.conn \in Conns => call'[srv.conn] = call[srv.conn]
        BY <2>2, <1>5
      <3> QED BY <3>1, <1>1, ServerFrame
    <2> QED BY <2>1, <2>2
  <1>11. ASSUME NEW q \in Procs, q # p
         PROVE  ProgramOK(cgi[q])' /\ TalkOK(q)'
    <2>1. ProgramOK(cgi[q]) /\ TalkOK(q) /\ cgi'[q] = cgi[q]
      BY <1>1, <1>4, <1>11
    <2>2. ProgramOK(cgi[q])'
      BY <2>1, ProgramFrame
    <2>3. \A j \in 1..MaxCalls : <<q, j>> \in Conns \ {c}
      BY <1>2, <1>3, <1>11 DEF Conns
    <2>4. TalkOK(q)'
      BY <2>1, <2>3, <1>5, TalkFrame
    <2> QED BY <2>2, <2>4
  <1>12. ProgramOK(cgi[p])'
    BY <1>4 DEF ProgramOK
  <1>13. TalkOK(p)'
    <2>1. ~Talking(cgi[p])'
      BY <1>4 DEF Talking
    <2>2. ASSUME NEW j \in 1..MaxCalls, j > g.k
          PROVE  call'[<<p, j>>].st = "none"
      <3>1. <<p, j>> \in Conns \ {c} /\ call[<<p, j>>].st = "none"
        BY <2>2, <1>1, <1>2, <1>3 DEF TalkOK, Conns
      <3> QED BY <3>1, <1>5
    <2> QED BY <2>1, <2>2, <1>4 DEF TalkOK
  <1> QED BY <1>1, <1>5, <1>9, <1>10, <1>11, <1>12, <1>13 DEF PagesInv

\* Return: it is enough that a page whose query came back with QUERY_OK has a record.
LEMMA ReturnKeeps ==
    ASSUME PagesInv, NEW p \in Procs, Talking(cgi[p]), NEW ret, NEW got, Return(p, ret, got),
           cgi[p].at = "query" /\ cgi[p].visit.page \in RecordPages /\ ret = "QUERY_OK" =>
              (got # <<>> /\ IsWhole(got[1])) \/ srv.pc = "dead",
           NEW st \in {"ok", "failed"}, NEW res,
           \/ call' = [call EXCEPT ![Cur(p)].st = st]
           \/ call' = [call EXCEPT ![Cur(p)].st = st, ![Cur(p)].res = res]
    PROVE  PagesInv'
  <1> DEFINE g == cgi[p]
             f == IF got # <<>> /\ g.at \in {"query", "requery"}
                  THEN [g EXCEPT !.rec = got[1]] ELSE g
  <1>1. ProgramOK(g) /\ g.at \in DOMAIN Before /\ g.k \in 1..(Before[g.at] + 1)
    BY CurIs DEF PagesInv
  <1>2. /\ DOMAIN f = DOMAIN g /\ f.visit = g.visit /\ f.at = g.at /\ f.k = g.k
        /\ got # <<>> /\ g.at = "query" => f.rec = got[1]
        /\ g.at # "query" /\ g.at # "requery" => f.rec = g.rec
        /\ got = <<>> => f = g
    BY <1>1 DEF ProgramOK
  <1>3. Returns(f, ret)
    <2>1. /\ DOMAIN g = {"alert", "at", "cl", "k", "name", "rec", "visit"} /\ VisitOK(g.visit)
          /\ g.k \in 0..(Before[g.at] + 1)
          /\ g.visit.page \in {"factory", "users"} => g.at = "set"
          /\ g.visit.page \notin {"factory", "users"} /\ g.at = "net" =>
               IsWhole(g.rec) \/ srv.pc = "dead"
      BY <1>1 DEF ProgramOK, Before
    <2>2. g.at = "query" /\ g.visit.page \in RecordPages /\ ret = "QUERY_OK"
            => IsWhole(f.rec) \/ srv.pc = "dead"
      BY <1>2
    <2> HIDE DEF f
    <2> QED BY <1>1, <1>2, <2>1, <2>2 DEF Returns
  <1>4. PICK h \in AfterCall(f, ret) : cgi' = [cgi EXCEPT ![p] = h]
    BY DEF Return
  <1> HIDE DEF f
  <1>5. ProgramOK(h) /\ ~Talking(h) /\ h.k = g.k
    BY <1>2, <1>3, <1>4, AfterOK
  <1>6. /\ mine' = [mine EXCEPT ![Cur(p)] = "fin"]
        /\ UNCHANGED <<store, up, head, data, theirs, srv>>
    BY DEF Return
  <1> QED BY <1>4, <1>5, <1>6, CallEnds

\* A page that has asked for a record has asked with a query.
LEMMA AsksQuery ==
    ASSUME PagesInv, NEW p \in Procs, Talking(cgi[p]), cgi[p].at = "query",
           cgi[p].visit.page \in RecordPages
    PROVE  LET req == call[Cur(p)].req IN req.query = 1 /\ ForRecord(req)
  <1>1. ProgramOK(cgi[p]) /\ TalkOK(p)
    BY DEF PagesInv
  <1>2. call[Cur(p)].req = PageOf(cgi[p]).query
    BY <1>1 DEF TalkOK, Request
  <1>3. VisitOK(cgi[p].visit) /\ (cgi[p].visit.page \in {"com", "mode"} => cgi[p].rec.id \in Ports)
    BY <1>1 DEF ProgramOK
  <1> QED BY <1>2, <1>3, Queries

LEMMA AnsweredKeeps == ASSUME PagesInv, NEW p \in Procs, Answered(p) PROVE PagesInv'
  <1> DEFINE ret == head[Cur(p)][1].ret
             res == <<ret, <<>>>>
  <1>1. Talking(cgi[p]) /\ call[Cur(p)].req.query = 0
    BY DEF Answered, At, Talking
  <1>2. ~(cgi[p].at = "query" /\ cgi[p].visit.page \in RecordPages)
    BY <1>1, AsksQuery
  <1>3. Return(p, ret, <<>>) /\ call' = [call EXCEPT ![Cur(p)].st = "ok", ![Cur(p)].res = res]
    BY DEF Answered, Succeeds
  <1> HIDE DEF ret, res
  <1> QED BY <1>1, <1>2, <1>3, ReturnKeeps

LEMMA RecvDataKeeps == ASSUME PagesInv, NEW p \in Procs, RecvData(p) PROVE PagesInv'
  <1> DEFINE got == data[Cur(p)]
             res == <<head[Cur(p)][1].ret, got>>
  <1>1. Talking(cgi[p]) /\ got # <<>>
    BY DEF RecvData, At, Talking
  <1>2. cgi[p].at = "query" /\ cgi[p].visit.page \in RecordPages => IsWhole(got[1])
    <2>1. Cur(p) \in Conns
      BY <1>1, CurIs DEF PagesInv
    <2>2. CallOK(Cur(p))
      BY <2>1 DEF PagesInv
    <2>3. ForRecord(call[Cur(p)].req) => IsWhole(got[1])
      BY <1>1, <2>2 DEF CallOK
    <2> QED BY <1>1, <2>3, AsksQuery
  <1>3. /\ Return(p, "QUERY_OK", got)
        /\ call' = [call EXCEPT ![Cur(p)].st = "ok", ![Cur(p)].res = res]
    BY DEF RecvData, Succeeds
  <1> HIDE DEF got, res
  <1> QED BY <1>1, <1>2, <1>3, ReturnKeeps

LEMMA RecvNoDataKeeps == ASSUME PagesInv, NEW p \in Procs, RecvNoData(p) PROVE PagesInv'
  <1> DEFINE res == <<head[Cur(p)][1].ret, <<>>>>
  <1>1. Talking(cgi[p]) /\ cgi[p].cl = "data" /\ theirs[Cur(p)] = "closed"
    BY DEF RecvNoData, At, Talking
  \* The server closes the connection of a query that waits only when it dies.
  <1>2. srv.pc = "dead"
    <2>1. Cur(p) \in Conns
      BY <1>1, CurIs DEF PagesInv
    <2>2. CallOK(Cur(p)) /\ TalkOK(p)
      BY <2>1 DEF PagesInv
    <2>3. /\ call[Cur(p)].st = "open" /\ mine[Cur(p)] = "open"
          /\ call[Cur(p)].req.query = 1 /\ head[Cur(p)] # <<>>
      BY <1>1, <2>2 DEF TalkOK
    <2> QED BY <1>1, <2>2, <2>3 DEF CallOK
  <1>3. /\ Return(p, "QUERY_OK", <<>>)
        /\ call' = [call EXCEPT ![Cur(p)].st = "ok", ![Cur(p)].res = res]
    BY DEF RecvNoData, Succeeds
  <1> HIDE DEF res
  <1> QED BY <1>1, <1>2, <1>3, ReturnKeeps

LEMMA CallFailsKeeps == ASSUME PagesInv, NEW p \in Procs, CallFails(p) PROVE PagesInv'
  <1> DEFINE ret == IF At(p, "body") THEN "SEND_FAILED" ELSE "RECV_FAILED"
  <1>1. Talking(cgi[p])
    BY DEF CallFails, Unanswered, At, Talking
  <1>2. Return(p, ret, <<>>) /\ call' = [call EXCEPT ![Cur(p)].st = "failed"]
    BY DEF CallFails
  <1>3. ret # "QUERY_OK"
    OBVIOUS
  <1> HIDE DEF ret
  <1> QED BY <1>1, <1>2, <1>3, ReturnKeeps

LEMMA KillKeeps == ASSUME PagesInv, NEW p \in Procs, Kill(p) PROVE PagesInv'
  <1> DEFINE h == Ends(cgi[p], "killed")
  <1>1. /\ Talking(cgi[p])
        /\ mine' = [mine EXCEPT ![Cur(p)] = "fin"] /\ call' = [call EXCEPT ![Cur(p)].st = "failed"]
        /\ UNCHANGED <<store, up, head, data, theirs, srv>>
    BY DEF Kill, Talking
  <1>2. cgi' = [cgi EXCEPT ![p] = h]
    BY DEF Kill
  <1>3. ProgramOK(h) /\ ~Talking(h) /\ h.k = cgi[p].k
    <2>1. ProgramOK(cgi[p])
      BY DEF PagesInv
    <2> QED BY <2>1 DEF Ends, ProgramOK, Talking
  <1> HIDE DEF h
  <1> QED BY <1>1, <1>2, <1>3, CallEnds

-----------------------------------------------------------------------------
(* The server's steps *)

\* The programs see none of them but by an answer.
LEMMA ProgramsStay ==
    ASSUME PagesInv, UNCHANGED cgi, srv.pc = "dead" => srv'.pc = "dead",
           \A d \in Conns : /\ call'[d].st = call[d].st /\ call'[d].req = call[d].req
                            /\ mine'[d] = mine[d] /\ (head[d] # <<>> => head'[d] # <<>>)
    PROVE  \A q \in Procs : ProgramOK(cgi[q])' /\ TalkOK(q)'
  <1> TAKE q \in Procs
  <1>1. ProgramOK(cgi[q]) /\ TalkOK(q) /\ cgi'[q] = cgi[q]
    BY DEF PagesInv
  <1>2. ProgramOK(cgi[q])'
    BY <1>1, ProgramFrame
  <1>3. \A j \in 1..MaxCalls : <<q, j>> \in Conns
    BY DEF Conns
  <1>4. TalkOK(q)'
    BY <1>1, <1>3, TalkFrame
  <1> QED BY <1>2, <1>4

LEMMA ServeKeeps == ASSUME PagesInv, NEW c \in Conns, Serve(c) PROVE PagesInv'
  <1> DEFINE pc == IF TakesBody(store, call[c].req) THEN "body" ELSE "exec"
  <1>1. Tables /\ StoreOK(store) /\ ServerOK /\ (\A d \in Conns : CallOK(d))
    BY DEF PagesInv
  <1>2. /\ srv.pc = "idle" /\ theirs[c] = "open" /\ "head" \in up[c]
        /\ UNCHANGED <<store, cgi, mine, head, data, theirs, call>>
        /\ up' = [up EXCEPT ![c] = @ \ {"head"}]
        /\ srv' = [srv EXCEPT !.conn = c, !.pc = pc]
    BY DEF Serve, Readable
  <1>3. Tables' /\ up'[c] = up[c] \ {"head"} /\ \A d \in Conns \ {c} : up'[d] = up[d]
    BY <1>1, <1>2 DEF Tables
  <1>4. /\ DOMAIN srv' = DOMAIN Idle /\ srv'.conn = c /\ srv'.pc = pc /\ srv'.body = <<>>
    BY <1>1, <1>2 DEF ServerOK, Idle
  <1>5. \A q \in Procs : ProgramOK(cgi[q])' /\ TalkOK(q)'
    BY <1>2, ProgramsStay
  <1>6. \A d \in Conns : CallOK(d)'
    <2>1. ASSUME NEW d \in Conns, d # c
          PROVE  CallOK(d)'
      BY <2>1, <1>1, <1>2, <1>3, CallFrame
    <2>2. CallOK(c)'
      <3>1. CallOK(c) /\ srv.pc # "dead"
        BY <1>1, <1>2
      <3> QED BY <3>1, <1>2, <1>3 DEF CallOK
    <2> QED BY <2>1, <2>2
  <1>7. call[c].st # "none" /\ call[c].taken = "no"
    BY <1>1, <1>2 DEF CallOK
  <1>8. ServerOK'
    <2>1. TakesBody(store, call[c].req)' = TakesBody(store, call[c].req)
      BY <1>2
    <2> QED BY <2>1, <1>2, <1>3, <1>4, <1>7 DEF ServerOK, Idle
  <1> QED BY <1>1, <1>2, <1>3, <1>5, <1>6, <1>8 DEF PagesInv

LEMMA ServeRestKeeps == ASSUME PagesInv, NEW c \in Conns, ServeRest(c) PROVE PagesInv'
  <1>1. Tables /\ StoreOK(store) /\ ServerOK /\ (\A d \in Conns : CallOK(d))
    BY DEF PagesInv
  <1>2. /\ srv.pc = "idle" /\ theirs[c] = "open" /\ up[c] # {} /\ "head" \notin up[c]
        /\ UNCHANGED <<store, cgi, mine, head, data, theirs, call>>
        /\ up' = [up EXCEPT ![c] = {}]
        /\ srv' = [srv EXCEPT !.conn = c, !.pc = "rest"]
    BY DEF ServeRest, Readable
  <1>3. Tables' /\ up'[c] = {} /\ \A d \in Conns \ {c} : up'[d] = up[d]
    BY <1>1, <1>2 DEF Tables
  <1>4. DOMAIN srv' = DOMAIN Idle /\ srv'.conn = c /\ srv'.pc = "rest"
    BY <1>1, <1>2 DEF ServerOK, Idle
  <1>5. \A q \in Procs : ProgramOK(cgi[q])' /\ TalkOK(q)'
    BY <1>2, ProgramsStay
  <1>6. \A d \in Conns : CallOK(d)'
    <2>1. ASSUME NEW d \in Conns, d # c
          PROVE  CallOK(d)'
      BY <2>1, <1>1, <1>2, <1>3, CallFrame
    <2>2. CallOK(c)'
      <3>1. CallOK(c) /\ srv.pc # "dead"
        BY <1>1, <1>2
      <3> QED BY <3>1, <1>2, <1>3 DEF CallOK
    <2> QED BY <2>1, <2>2
  \* A query's connection carries its header alone.
  <1>7. call[c].st # "none" /\ call[c].req.query = 0
    <2>1. CallOK(c)
      BY <1>1
    <2>2. call[c].st # "none" /\ call[c].req.query # 1
      BY <2>1, <1>2 DEF CallOK
    <2>3. Packed(call[c].req)
      BY <2>1, <2>2 DEF CallOK
    <2> QED BY <2>2, <2>3 DEF Packed
  <1>8. ServerOK'
    BY <1>2, <1>3, <1>4, <1>7 DEF ServerOK, Idle
  <1> QED BY <1>1, <1>2, <1>3, <1>5, <1>6, <1>8 DEF PagesInv

\* The server closes a connection and does nothing else: it is not one on which a query
\* has its header and waits.
LEMMA ClosesKeeps ==
    ASSUME PagesInv, NEW c \in Conns, Closed(c), UNCHANGED <<store, cgi, mine, head, data, call>>,
           \/ up' = up
           \/ up' = [up EXCEPT ![c] = {}],
           ServerOK', srv.pc = "dead" => srv'.pc = "dead",
           ~ (head[c] # <<>> /\ mine[c] = "open" /\ call[c].req.query = 1)
    PROVE  PagesInv'
  <1>1. Tables /\ StoreOK(store) /\ (\A d \in Conns : CallOK(d))
    BY DEF PagesInv
  <1>2. /\ Tables' /\ theirs'[c] = "closed" /\ (up'[c] = up[c] \/ up'[c] = {})
        /\ \A d \in Conns \ {c} : theirs'[d] = theirs[d] /\ up'[d] = up[d]
    BY <1>1 DEF Tables, Closed
  <1>3. \A q \in Procs : ProgramOK(cgi[q])' /\ TalkOK(q)'
    BY ProgramsStay
  <1>4. \A d \in Conns : CallOK(d)'
    <2>1. ASSUME NEW d \in Conns, d # c
          PROVE  CallOK(d)'
      BY <2>1, <1>1, <1>2, CallFrame
    <2>2. CallOK(c)'
      <3>1. CallOK(c)
        BY <1>1
      <3> QED BY <3>1, <1>2 DEF CallOK
    <2> QED BY <2>1, <2>2
  <1> QED BY <1>1, <1>2, <1>3, <1>4 DEF PagesInv

LEMMA ServeEndKeeps == ASSUME PagesInv, NEW c \in Conns, ServeEnd(c) PROVE PagesInv'
  <1>1. /\ Closed(c) /\ UNCHANGED <<store, cgi, up, mine, head, data, srv, call>>
        /\ srv.pc = "idle" /\ mine[c] = "fin"
    BY DEF ServeEnd, Readable
  <1>2. ServerOK'
    BY <1>1, ServerRests DEF PagesInv
  <1> QED BY <1>1, <1>2, ClosesKeeps

LEMMA RestEndsKeeps == ASSUME PagesInv, RestEnds PROVE PagesInv'
  <1>1. srv.pc = "rest" /\ srv.conn \in Conns /\ call[srv.conn].req.query = 0
    BY DEF PagesInv, RestEnds, ServerOK
  <1>2. PICK c \in Conns : c = srv.conn
    BY <1>1
  <1>3. Closed(c) /\ srv' = Idle /\ UNCHANGED <<store, cgi, up, mine, head, data, call>>
    BY <1>2 DEF RestEnds, Closed
  <1>4. ServerOK'
    BY <1>3 DEF ServerOK, Idle
  <1> QED BY <1>1, <1>2, <1>3, <1>4, ClosesKeeps

LEMMA FullKeeps == ASSUME PagesInv, NEW c \in Conns, Full(c) PROVE PagesInv'
  <1>1. /\ srv.pc = "idle" /\ up[c] = {"head"} /\ Closed(c) /\ up' = [up EXCEPT ![c] = {}]
        /\ UNCHANGED <<store, cgi, mine, head, data, srv, call>>
    BY DEF Full
  <1>2. ServerOK'
    BY <1>1, ServerRests DEF PagesInv
  <1>3. head[c] = <<>>
    <2>1. CallOK(c)
      BY DEF PagesInv
    <2> QED BY <2>1, <1>1 DEF CallOK
  <1> QED BY <1>1, <1>2, <1>3, ClosesKeeps

LEMMA TakeBodyKeeps == ASSUME PagesInv, TakeBody PROVE PagesInv'
  <1>1. Tables /\ StoreOK(store) /\ ServerOK /\ (\A d \in Conns : CallOK(d))
    BY DEF PagesInv
  <1>2. /\ srv.pc = "body" /\ srv.conn \in Conns /\ theirs[srv.conn] = "open"
        /\ call[srv.conn].st # "none" /\ call[srv.conn].taken = "no" /\ "head" \notin up[srv.conn]
    BY <1>1 DEF TakeBody, ServerOK
  <1>3. PICK c \in Conns : c = srv.conn
    BY <1>2
  <1>4. /\ UNCHANGED <<store, cgi, mine, head, data, theirs, call>>
        /\ up' = [up EXCEPT ![c] = @ \ {"rec"}]
        /\ srv' = [srv EXCEPT !.pc = "exec", !.body = call[c].req.body]
    BY <1>3 DEF TakeBody
  <1>5. Tables' /\ up'[c] = up[c] \ {"rec"} /\ \A d \in Conns \ {c} : up'[d] = up[d]
    BY <1>1, <1>4 DEF Tables
  <1>6. /\ DOMAIN srv' = DOMAIN Idle /\ srv'.conn = c /\ srv'.pc = "exec"
        /\ srv'.body = call[c].req.body
    BY <1>1, <1>3, <1>4 DEF ServerOK, Idle
  <1>7. \A q \in Procs : ProgramOK(cgi[q])' /\ TalkOK(q)'
    BY <1>2, <1>4, ProgramsStay
  <1>8. \A d \in Conns : CallOK(d)'
    <2>1. ASSUME NEW d \in Conns, d # c
          PROVE  CallOK(d)'
      BY <2>1, <1>1, <1>2, <1>4, <1>5, CallFrame
    <2>2. CallOK(c)'
      <3>1. CallOK(c) /\ srv.pc # "dead" /\ call[c].st # "none"
        BY <1>1, <1>2, <1>3
      <3> QED BY <3>1, <1>4, <1>5 DEF CallOK
    <2> QED BY <2>1, <2>2
  <1>9. ServerOK'
    BY <1>2, <1>3, <1>4, <1>5, <1>6 DEF ServerOK, Idle
  <1> QED BY <1>1, <1>4, <1>5, <1>7, <1>8, <1>9 DEF PagesInv

LEMMA BodyLostKeeps == ASSUME PagesInv, BodyLost PROVE PagesInv'
  <1>1. ServerOK /\ Tables
    BY DEF PagesInv
  <1>2. /\ srv.pc = "body" /\ srv.conn \in Conns /\ srv.body = <<>>
        /\ call[srv.conn].st # "none" /\ call[srv.conn].taken = "no" /\ "head" \notin up[srv.conn]
        /\ TakesBody(store, call[srv.conn].req)
    BY <1>1 DEF BodyLost, ServerOK
  <1>3. PICK c \in Conns : c = srv.conn
    BY <1>2
  <1>4. /\ Closed(c) /\ UNCHANGED <<store, cgi, up, mine, head, data, call>>
        /\ srv' = [srv EXCEPT !.pc = "exec"]
    BY <1>3 DEF BodyLost, Closed
  <1>5. /\ DOMAIN srv' = DOMAIN Idle /\ srv'.conn = c /\ srv'.pc = "exec" /\ srv'.body = <<>>
        /\ theirs'[c] = "closed"
    BY <1>1, <1>2, <1>3, <1>4 DEF ServerOK, Idle, Tables, Closed
  <1>6. ServerOK'
    <2>1. TakesBody(store, call[c].req)'
      BY <1>2, <1>3, <1>4
    <2> QED BY <2>1, <1>2, <1>3, <1>4, <1>5 DEF ServerOK, Idle
  <1>7. call[c].req.query = 0
    <2>1. Packed(call[c].req)
      BY <1>2, <1>3 DEF PagesInv, CallOK
    <2> QED BY <2>1, <1>2, <1>3, TakesPacked
  <1> QED BY <1>2, <1>4, <1>6, <1>7, ClosesKeeps

\* What the server carries out: the whole request on an open connection, or what it does
\* without its body.
LEMMA ExecuteIs ==
    ASSUME PagesInv, Execute
    PROVE  /\ srv.conn \in Conns /\ call[srv.conn].st # "none" /\ Packed(call[srv.conn].req)
           /\ call[srv.conn].taken = "no"
           /\ theirs[srv.conn] = "open" =>
                web_cmd_proc(store, call[srv.conn].req, srv.body) =
                  web_cmd_proc(store, call[srv.conn].req, call[srv.conn].req.body)
           /\ theirs[srv.conn] # "open" =>
                srv.body = <<>> /\ TakesBody(store, call[srv.conn].req)
           /\ srv.body = <<>> \/ srv.body = call[srv.conn].req.body
  <1>1. ServerOK /\ srv.pc = "exec" /\ srv.conn \in Conns
    BY DEF PagesInv, Execute, ServerOK
  <1>2. PICK c \in Conns : c = srv.conn
    BY <1>1
  <1>3. /\ call[c].st # "none" /\ call[c].taken = "no"
        /\ \/ theirs[c] = "open" /\ srv.body = call[c].req.body
           \/ theirs[c] = "open" /\ srv.body = <<>> /\ ~TakesBody(store, call[c].req)
           \/ theirs[c] = "closed" /\ srv.body = <<>> /\ TakesBody(store, call[c].req)
    BY <1>1, <1>2 DEF ServerOK
  <1>4. Packed(call[c].req)
    BY <1>3 DEF PagesInv, CallOK
  <1>5. ~TakesBody(store, call[c].req) =>
          web_cmd_proc(store, call[c].req, <<>>) = web_cmd_proc(store, call[c].req, call[c].req.body)
    BY <1>4, UnlessReceived
  <1> QED BY <1>2, <1>3, <1>4, <1>5

LEMMA ExecuteKeeps == ASSUME PagesInv, Execute PROVE PagesInv'
  <1>1. Tables /\ StoreOK(store) /\ ServerOK /\ (\A d \in Conns : CallOK(d))
    BY DEF PagesInv
  <1>2. PICK c \in Conns : c = srv.conn
    BY ExecuteIs
  <1>3. /\ call[c].st # "none" /\ Packed(call[c].req) /\ call[c].taken = "no"
        /\ srv.body = <<>> \/ srv.body = call[c].req.body
        /\ srv.pc = "exec" /\ "head" \notin up[c]
    BY <1>1, <1>2, ExecuteIs DEF ServerOK, Execute
  <1>4. PICK o \in web_cmd_proc(store, call[c].req, srv.body) :
              /\ store' = o.store
              /\ call' = [call EXCEPT ![c].taken = "yes", ![c].ret = o.ret, ![c].ext = o.ext,
                            ![c].whole = IF theirs[c] = "open" THEN "yes" ELSE "no"]
              /\ head' = IF theirs[c] = "open"
                         THEN [head EXCEPT ![c] = <<[ext |-> o.ext, ret |-> o.ret]>>] ELSE head
              /\ srv' = IF o.ext = 1 THEN [srv EXCEPT !.pc = "data"] ELSE Idle
    BY <1>2 DEF Execute
  <1>5. UNCHANGED <<session, cgi, up, mine, data, theirs>>
    BY DEF Execute
  <1>6. StoreOK(o.store) /\ o.ext \in {0, 1} /\ (o.ext = 1 => call[c].req.query = 1)
    BY <1>1, <1>3, <1>4, CommandKeeps
  <1>7. CallOK(c) /\ DOMAIN call[c] = DOMAIN Call(<<>>) /\ head[c] = <<>> /\ call[c].data = <<>>
    BY <1>1, <1>3 DEF CallOK
  <1>8. /\ Tables'
        /\ \A d \in Conns \ {c} : call'[d] = call[d] /\ head'[d] = head[d]
        /\ head'[c] = IF theirs[c] = "open" THEN <<[ext |-> o.ext, ret |-> o.ret]>> ELSE <<>>
    BY <1>1, <1>4, <1>5, <1>7 DEF Tables
  <1>9. /\ DOMAIN call'[c] = DOMAIN Call(<<>>)
        /\ call'[c].st = call[c].st /\ call'[c].req = call[c].req /\ call'[c].data = <<>>
        /\ call'[c].taken = "yes" /\ call'[c].ret = o.ret /\ call'[c].ext = o.ext
        /\ call'[c].whole = IF theirs[c] = "open" THEN "yes" ELSE "no"
    BY <1>1, <1>4, <1>7 DEF Tables, Call
  <1>10. \A q \in Procs : ProgramOK(cgi[q])' /\ TalkOK(q)'
    <2>1. \A d \in Conns : /\ call'[d].st = call[d].st /\ call'[d].req = call[d].req
                           /\ mine'[d] = mine[d] /\ (head[d] # <<>> => head'[d] # <<>>)
      BY <1>5, <1>7, <1>8, <1>9
    <2> QED BY <2>1, <1>3, <1>5, ProgramsStay
  <1>11. \A d \in Conns : CallOK(d)'
    <2>1. ASSUME NEW d \in Conns, d # c
          PROVE  CallOK(d)'
      BY <2>1, <1>1, <1>3, <1>5, <1>8, CallFrame
    <2>2. CallOK(c)'
      <3>1. data[c] = <<>> /\ (call[c].req.query = 1 => up[c] \subseteq {"head"})
        BY <1>3, <1>7 DEF CallOK
      <3>2. Call(<<>>)' = Call(<<>>)
        BY DEF Call
      <3> QED BY <3>1, <3>2, <1>3, <1>5, <1>6, <1>8, <1>9 DEF CallOK
    <2> QED BY <2>1, <2>2
  <1>12. ServerOK'
    <2>1. CASE o.ext = 1
      <3>1. DOMAIN srv' = DOMAIN Idle /\ srv'.conn = c /\ srv'.pc = "data"
        BY <1>1, <1>2, <1>4, <2>1 DEF ServerOK, Idle
      <3> QED BY <3>1, <2>1, <1>3, <1>5, <1>9 DEF ServerOK, Idle
    <2>2. CASE o.ext # 1
      BY <2>2, <1>4 DEF ServerOK, Idle
    <2> QED BY <2>1, <2>2
  <1> QED BY <1>4, <1>6, <1>8, <1>10, <1>11, <1>12 DEF PagesInv

LEMMA SendDataKeeps == ASSUME PagesInv, SendData PROVE PagesInv'
  <1>1. Tables /\ StoreOK(store) /\ ServerOK /\ (\A d \in Conns : CallOK(d))
    BY DEF PagesInv
  <1>2. /\ srv.pc = "data" /\ srv.conn \in Conns /\ call[srv.conn].st # "none"
        /\ call[srv.conn].taken = "yes" /\ call[srv.conn].ext = 1 /\ "head" \notin up[srv.conn]
    BY <1>1 DEF SendData, ServerOK
  <1>3. PICK c \in Conns : c = srv.conn
    BY <1>2
  <1>4. srv' = Idle /\ UNCHANGED <<store, cgi, up, mine, head>>
    BY DEF SendData
  <1>5. ServerOK'
    BY <1>4 DEF ServerOK, Idle
  <1>6. CASE mine[c] = "open"
    <2> DEFINE rec == Sent(store, call[c].req)
    <2>1. /\ data' = [data EXCEPT ![c] = <<rec>>] /\ call' = [call EXCEPT ![c].data = <<rec>>]
          /\ theirs' = theirs
      BY <1>3, <1>6 DEF SendData
    <2>2. ForRecord(call[c].req) => IsWhole(rec)
      BY <1>1, SentWhole
    <2> HIDE DEF rec
    <2>3. CallOK(c) /\ DOMAIN call[c] = DOMAIN Call(<<>>)
      BY <1>1 DEF CallOK
    <2>4. /\ Tables' /\ data'[c] = <<rec>>
          /\ \A d \in Conns \ {c} : call'[d] = call[d] /\ data'[d] = data[d]
      BY <1>1, <1>4, <2>1 DEF Tables
    <2>5. /\ DOMAIN call'[c] = DOMAIN Call(<<>>)
          /\ call'[c].st = call[c].st /\ call'[c].req = call[c].req /\ call'[c].data = <<rec>>
          /\ call'[c].taken = call[c].taken /\ call'[c].ret = call[c].ret
          /\ call'[c].ext = call[c].ext /\ call'[c].whole = call[c].whole
      BY <1>1, <2>1, <2>3 DEF Tables, Call
    <2>6. \A q \in Procs : ProgramOK(cgi[q])' /\ TalkOK(q)'
      <3>1. \A d \in Conns : call'[d].st = call[d].st /\ call'[d].req = call[d].req
        BY <2>4, <2>5
      <3> QED BY <3>1, <1>2, <1>4, ProgramsStay
    <2>7. \A d \in Conns : CallOK(d)'
      <3>1. ASSUME NEW d \in Conns, d # c
            PROVE  CallOK(d)'
        BY <3>1, <1>1, <1>2, <1>4, <2>1, <2>4, CallFrame
      <3>2. CallOK(c)'
        <4>1. Call(<<>>)' = Call(<<>>)
          BY DEF Call
        <4>2. <<rec>> # <<>> /\ <<rec>>[1] = rec
          OBVIOUS
        <4>3. srv.pc # "dead" /\ call[c].taken = "yes" /\ call[c].ext = 1 /\ call[c].st # "none"
          BY <1>2, <1>3
        <4> QED BY <4>1, <4>2, <4>3, <1>4, <2>1, <2>2, <2>3, <2>4, <2>5 DEF CallOK
      <3> QED BY <3>1, <3>2
    <2> QED BY <1>1, <1>4, <1>5, <2>4, <2>6, <2>7 DEF PagesInv
  <1>7. CASE mine[c] # "open"
    <2>1. Closed(c) /\ UNCHANGED <<data, call>>
      BY <1>3, <1>7 DEF SendData, Closed
    <2> QED BY <2>1, <1>2, <1>4, <1>5, <1>7, ClosesKeeps
  <1> QED BY <1>6, <1>7

LEMMA DieKeeps == ASSUME PagesInv, Die PROVE PagesInv'
  <1>1. Tables /\ StoreOK(store) /\ ServerOK /\ (\A d \in Conns : CallOK(d))
    BY DEF PagesInv
  <1>2. /\ srv' = [Idle EXCEPT !.pc = "dead"] /\ theirs' = [d \in Conns |-> "closed"]
        /\ up' = [d \in Conns |-> {}] /\ UNCHANGED <<store, cgi, mine, head, data, call>>
    BY DEF Die
  <1>3. Tables'
    BY <1>1, <1>2 DEF Tables
  <1>4. ServerOK' /\ srv'.pc = "dead"
    BY <1>2 DEF ServerOK, Idle
  <1>5. \A q \in Procs : ProgramOK(cgi[q])' /\ TalkOK(q)'
    BY <1>2, <1>4, ProgramsStay
  <1>6. ASSUME NEW d \in Conns
        PROVE  CallOK(d)'
    <2>1. CallOK(d) /\ up'[d] = {}
      BY <1>1, <1>2
    <2> QED BY <2>1, <1>2, <1>4 DEF CallOK
  <1> QED BY <1>1, <1>2, <1>3, <1>4, <1>5, <1>6 DEF PagesInv

LEMMA WriteKeeps == ASSUME PagesInv, Write PROVE PagesInv'
  <1>1. Tables /\ StoreOK(store) /\ ServerOK /\ (\A d \in Conns : CallOK(d))
    BY DEF PagesInv
  <1>2. /\ UNCHANGED <<cgi, up, mine, head, data, theirs, srv, call>>
        /\ StoreOK(store') /\ store'.usr = store.usr
    BY <1>1, OthersKeep DEF Write, links
  <1>3. \A q \in Procs : ProgramOK(cgi[q])' /\ TalkOK(q)'
    BY <1>2, ProgramsStay
  <1>4. \A d \in Conns : CallOK(d)'
    BY <1>1, <1>2, CallFrame
  <1>5. \A req : TakesBody(store, req)' <=> TakesBody(store, req)
    BY <1>2 DEF TakesBody, UserMay
  <1>6. ServerOK'
    BY <1>1, <1>2, <1>5 DEF ServerOK
  <1>7. Tables'
    BY <1>1, <1>2 DEF Tables
  <1> QED BY <1>2, <1>3, <1>4, <1>6, <1>7 DEF PagesInv

-----------------------------------------------------------------------------
(* PagesInv is an invariant, and says that the store holds whole records.  *)

LEMMA PagesInit == Init => PagesInv
  <1> SUFFICES ASSUME NEW s \in Scenarios,
                      store = Store(s),
                      cgi = [p \in Procs |->
                        [alert |-> "none", at |-> "start", cl |-> "none", k |-> 0, name |-> NoName,
                         rec |-> Blank, visit |-> s.visits[p]]],
                      up = [c \in Conns |-> {}], mine = [c \in Conns |-> "none"],
                      head = [c \in Conns |-> <<>>], data = [c \in Conns |-> <<>>],
                      theirs = [c \in Conns |-> "open"], srv = Idle,
                      call = [c \in Conns |-> [Call(<<>>) EXCEPT !.st = "none"]]
               PROVE  PagesInv
    BY DEF Init
  <1>1. Tables
    BY DEF Tables
  <1>2. StoreOK(store)
    <2>1. UsersOK(s.usr)
      BY ScenarioAssumption
    <2>2. \A id : IsWhole(Old(id))
      BY WholeRecord DEF Old
    <2> QED BY <2>1, <2>2 DEF Store, StoreOK
  <1>3. ASSUME NEW p \in Procs
        PROVE  ProgramOK(cgi[p]) /\ TalkOK(p)
    <2>1. VisitOK(s.visits[p])
      BY ScenarioAssumption
    <2>2. ProgramOK(cgi[p])
      BY <2>1 DEF ProgramOK, MaxCalls, Before
    <2>3. ~Talking(cgi[p])
      BY DEF Talking
    <2>4. \A j \in 1..MaxCalls : call[<<p, j>>].st = "none"
      BY DEF Conns, Call
    <2> QED BY <2>2, <2>3, <2>4 DEF TalkOK
  <1>4. \A c \in Conns : CallOK(c)
    BY DEF CallOK, Call
  <1>5. ServerOK
    BY DEF ServerOK, Idle
  <1> QED BY <1>1, <1>2, <1>3, <1>4, <1>5 DEF PagesInv

LEMMA PagesStep == PagesInv /\ [Next]_vars => PagesInv'
  <1> SUFFICES ASSUME PagesInv, [Next]_vars
               PROVE  PagesInv'
    OBVIOUS
  <1>1. ASSUME NEW p \in Procs, Page(p)
        PROVE  PagesInv'
    BY <1>1, BeginKeeps, ResolveKeeps, ConnectKeeps, ConnectFailsKeeps, SendBodyKeeps,
       RecvHeadKeeps, AnsweredKeeps, RecvDataKeeps, RecvNoDataKeeps, CallFailsKeeps, Zenon DEF Page
  <1>2. CASE Server
    BY <1>2, ServeKeeps, ServeRestKeeps, ServeEndKeeps, RestEndsKeeps, TakeBodyKeeps,
       BodyLostKeeps, ExecuteKeeps, SendDataKeeps, Zenon DEF Server
  <1>3. CASE Mishap
    BY <1>3, KillKeeps, FullKeeps, DieKeeps, Zenon DEF Mishap
  <1>4. CASE Write
    BY <1>4, WriteKeeps
  <1>5. CASE UNCHANGED vars
    <2>1. UNCHANGED <<store, cgi, up, mine, head, data, theirs, srv, call>>
      BY <1>5 DEF vars, links
    <2>2. Tables' /\ StoreOK(store)'
      BY <2>1 DEF PagesInv, Tables
    <2>3. \A q \in Procs : ProgramOK(cgi[q])' /\ TalkOK(q)'
      BY <2>1, ProgramsStay
    <2>4. \A d \in Conns : CallOK(d)'
      BY <2>1, CallFrame DEF PagesInv
    <2>5. ServerOK'
      BY <2>1, ServerFrame DEF PagesInv
    <2> QED BY <2>2, <2>3, <2>4, <2>5 DEF PagesInv
  <1> QED BY <1>1, <1>2, <1>3, <1>4, <1>5 DEF Next

LEMMA PagesCorrect == Spec => []PagesInv
  BY PagesInit, PagesStep, PTL DEF Spec

\* No page puts a record in the store that it has blanked or not received, whichever of
\* its calls fails, and whatever the other pages and the alarm server write meanwhile
\* (cgiMain's query, form and set; web_net.c's setters that have lost their body).
THEOREM RecordsAreWhole == Spec => []Whole
  <1>1. StoreOK(store) => Whole
    BY DEF StoreOK, Whole, Records, IsWhole
  <1>2. PagesInv => Whole
    BY <1>1 DEF PagesInv
  <1> QED BY <1>2, PagesCorrect, PTL

-----------------------------------------------------------------------------
(* Every call, one connection each, is a call of RemoteCalls.  A program's  *)
(* steps begin and end it; the server's carry it out and read for it.      *)

LEMMA ConnectBegins ==
    ASSUME PagesInv, NEW p \in Procs, Connect(p)
    PROVE  \E c \in Conns : Promise!Begin(c)
  <1> DEFINE k == cgi[p].k + 1
             req == Request(cgi[p])
  <1>1. PICK c : c = <<p, k>>
    OBVIOUS
  <1>2. UNCHANGED store /\ call' = [call EXCEPT ![c] = Call(req)] /\ cgi[p].cl = "connect"
    BY <1>1 DEF Connect, At
  <1>3. ProgramOK(cgi[p]) /\ TalkOK(p) /\ Tables
    BY DEF PagesInv
  <1>4. k \in 1..MaxCalls /\ k > cgi[p].k
    BY <1>2, <1>3 DEF ProgramOK, Talking, MaxCalls, Before
  <1>5. c \in Conns /\ call[c].st = "none"
    BY <1>1, <1>3, <1>4 DEF Conns, TalkOK
  <1>6. call[c] = Promise!NoCall
    <2>1. call[c] = [Call(<<>>) EXCEPT !.st = "none"]
      BY <1>5 DEF PagesInv, CallOK
    <2> QED BY <2>1 DEF Call, Promise!NoCall, Promise!New
  <1> HIDE DEF req, k
  <1>7. call'[c].req = req /\ Promise!New(req) = Call(req)
    BY <1>2, <1>3, <1>5 DEF Tables, Call, Promise!New
  <1> QED BY <1>2, <1>5, <1>6, <1>7 DEF Promise!Begin

LEMMA ReturnSucceeds ==
    ASSUME PagesInv, NEW p \in Procs, Answered(p) \/ RecvData(p) \/ RecvNoData(p)
    PROVE  \E c \in Conns : Promise!Succeed(c)
  <1>1. Talking(cgi[p]) /\ head[Cur(p)] # <<>>
    <2>1. Talking(cgi[p])
      BY DEF Answered, RecvData, RecvNoData, At, Talking
    <2>2. cgi[p].cl = "data" => head[Cur(p)] # <<>>
      BY <2>1 DEF PagesInv, TalkOK
    <2> QED BY <2>1, <2>2 DEF Answered, RecvData, RecvNoData, At
  <1>2. PICK c \in Conns : c = Cur(p)
    BY <1>1, CurIs DEF PagesInv
  <1>3. CallOK(c) /\ TalkOK(p)
    BY DEF PagesInv
  <1>4. call[c].st = "open"
    BY <1>1, <1>2, <1>3 DEF TalkOK
  <1>5. /\ head[c] = <<[ext |-> call[c].ext, ret |-> call[c].ret]>>
        /\ call[c].whole = "yes" /\ call[c].taken = "yes" /\ data[c] = call[c].data
        /\ call[c].ext \in {0, 1}
        /\ call[c].data # <<>> => call[c].ext = 1
        /\ call[c].ext = 1 => call[c].req.query = 1
    BY <1>1, <1>2, <1>3 DEF CallOK
  <1>6. head[c][1].ret = call[c].ret /\ head[c][1].ext = call[c].ext
    BY <1>5
  <1>7. PICK got : /\ UNCHANGED store
                   /\ call' = [call EXCEPT ![c].st = "ok", ![c].res = <<head[c][1].ret, got>>]
                   /\ \/ got = <<>> /\ call[c].req.query = 0
                      \/ got = data[c] /\ data[c] # <<>>
                      \/ got = <<>> /\ head[c][1].ext = 0
    BY <1>2 DEF Answered, RecvData, RecvNoData, Succeeds, Return
  <1>8. got = call[c].data /\ (call[c].ext = 0 \/ call[c].req.query = 0 \/ call[c].data # <<>>)
    BY <1>5, <1>6, <1>7
  <1> QED BY <1>4, <1>5, <1>6, <1>7, <1>8 DEF Promise!Succeed

LEMMA CallFailsFails ==
    ASSUME PagesInv, NEW p \in Procs, CallFails(p) \/ Kill(p)
    PROVE  \E c \in Conns : Promise!Fail(c)
  <1>1. /\ Talking(cgi[p]) /\ UNCHANGED store /\ call' = [call EXCEPT ![Cur(p)].st = "failed"]
    BY DEF CallFails, Kill, Return, Unanswered, At, Talking
  <1>2. Cur(p) \in Conns /\ call[Cur(p)].st = "open"
    BY <1>1, CurIs DEF PagesInv, TalkOK
  <1> QED BY <1>1, <1>2 DEF Promise!Fail

LEMMA ExecuteTakes ==
    ASSUME PagesInv, Execute
    PROVE  \E c \in Conns : Promise!Take(c)
  <1>1. PICK c \in Conns : c = srv.conn
    BY ExecuteIs
  <1> DEFINE req == call[c].req
             whole == IF theirs[c] = "open" THEN "yes" ELSE "no"
  <1>2. PICK o \in web_cmd_proc(store, req, srv.body) :
              /\ store' = o.store
              /\ call' = [call EXCEPT ![c].taken = "yes", ![c].ret = o.ret, ![c].ext = o.ext,
                            ![c].whole = whole]
    BY <1>1 DEF Execute
  <1>3. call[c].st # "none" /\ call[c].taken = "no"
    BY <1>1, ExecuteIs
  <1> DEFINE w == [ext |-> o.ext, ret |-> o.ret, store |-> o.store, whole |-> whole]
  <1>4. w \in PerformCall(store, req)
    <2>1. CASE theirs[c] = "open"
      <3>1. o \in web_cmd_proc(store, req, req.body)
        BY <1>1, <1>2, <2>1, ExecuteIs
      <3> QED BY <2>1, <3>1 DEF PerformCall
    <2>2. CASE theirs[c] # "open"
      <3>1. srv.body = <<>> /\ req.body # <<>>
        BY <1>1, <2>2, ExecuteIs, TakesPacked
      <3> QED BY <1>2, <2>2, <3>1 DEF PerformCall
    <2> QED BY <2>1, <2>2
  <1>5. w.store = o.store /\ w.ret = o.ret /\ w.ext = o.ext /\ w.whole = whole
    OBVIOUS
  <1> HIDE DEF w, whole
  <1>6. \E v \in PerformCall(store, call[c].req) :
          /\ store' = v.store
          /\ call' = [call EXCEPT ![c].taken = "yes", ![c].ret = v.ret, ![c].ext = v.ext,
                        ![c].whole = v.whole]
    BY <1>2, <1>4, <1>5
  <1> QED BY <1>3, <1>6 DEF Promise!Take

LEMMA SendDataReads ==
    ASSUME PagesInv, SendData
    PROVE  (\E c \in Conns : Promise!Read(c)) \/ UNCHANGED <<store, call>>
  <1>1. /\ srv.conn \in Conns /\ call[srv.conn].taken = "yes" /\ call[srv.conn].ext = 1
        /\ call[srv.conn].data = <<>>
    BY DEF PagesInv, SendData, ServerOK
  <1> QED BY <1>1 DEF SendData, Promise!Read

LEMMA StepKept ==
    ASSUME PagesInv, [Next]_vars
    PROVE  [Promise!Next]_(Promise!vars)
  <1> SUFFICES Promise!Next \/ UNCHANGED <<store, call>>
    BY DEF Promise!vars
  <1>1. ASSUME NEW p \in Procs, Page(p)
        PROVE  Promise!Next \/ UNCHANGED <<store, call>>
    <2>1. CASE Connect(p)
      BY <2>1, ConnectBegins, Zenon DEF Promise!Next
    <2>2. CASE Answered(p) \/ RecvData(p) \/ RecvNoData(p)
      BY <2>2, ReturnSucceeds, Zenon DEF Promise!Next
    <2>3. CASE CallFails(p)
      BY <2>3, CallFailsFails, Zenon DEF Promise!Next
    <2>4. CASE Begin(p) \/ Resolve(p) \/ ConnectFails(p) \/ SendBody(p) \/ RecvHead(p)
      BY <2>4 DEF Begin, Resolve, ConnectFails, SendBody, RecvHead
    <2> QED BY <1>1, <2>1, <2>2, <2>3, <2>4 DEF Page
  <1>2. CASE Server
    <2>1. CASE \E c \in Conns : Serve(c) \/ ServeRest(c) \/ ServeEnd(c)
      BY <2>1 DEF Serve, ServeRest, ServeEnd
    <2>2. CASE RestEnds \/ TakeBody \/ BodyLost
      BY <2>2 DEF RestEnds, TakeBody, BodyLost
    <2>3. CASE Execute
      BY <2>3, ExecuteTakes, Zenon DEF Promise!Next
    <2>4. CASE SendData
      BY <2>4, SendDataReads, Zenon DEF Promise!Next
    <2> QED BY <1>2, <2>1, <2>2, <2>3, <2>4 DEF Server
  <1>3. CASE Mishap
    <2>1. CASE \E p \in Procs : Kill(p)
      BY <2>1, CallFailsFails, Zenon DEF Promise!Next
    <2>2. CASE (\E c \in Conns : Full(c)) \/ Die
      BY <2>2 DEF Full, Die
    <2> QED BY <1>3, <2>1, <2>2 DEF Mishap
  <1>4. CASE Write
    <2>1. Promise!Write
      BY <1>4 DEF Write, Promise!Write
    <2> QED BY <2>1 DEF Promise!Next
  <1>5. CASE UNCHANGED vars
    BY <1>5 DEF vars
  <1> QED BY <1>1, <1>2, <1>3, <1>4, <1>5 DEF Next

\* Whatever its connections do, each call is carried out at most once, after it began,
\* wholly or not at all as far as its caller is told, and a query returns what the store
\* held at one moment of the call (net.c, web_svr_proc and web_cmd_proc refine
\* RemoteCalls).
THEOREM CallsAreKept == Spec => CallsKept
  <1>1. Init => Promise!Init
    <2> SUFFICES ASSUME Init PROVE Promise!Init
      OBVIOUS
    <2>1. PICK s \in Scenarios : store = Store(s)
      BY DEF Init
    <2>2. call = [c \in Conns |-> [Call(<<>>) EXCEPT !.st = "none"]]
      BY DEF Init
    <2>3. [Call(<<>>) EXCEPT !.st = "none"] = Promise!NoCall
      BY DEF Call, Promise!NoCall, Promise!New
    <2> QED BY <2>1, <2>2, <2>3 DEF Promise!Init
  <1>2. PagesInv /\ [Next]_vars => [Promise!Next]_(Promise!vars)
    BY StepKept
  <1> QED BY <1>1, <1>2, PagesCorrect, PTL DEF Spec, CallsKept, Promise!Spec

-----------------------------------------------------------------------------
(* What a program may rely on when a call has ended well, and what the      *)
(* store may go through: consequences of the refinement.                    *)

Relied(r) ==
    r.st = "ok" =>
        /\ r.taken = "yes" /\ r.whole = "yes" /\ r.res[1] = r.ret
        /\ r.ext = 1 /\ r.req.query = 1 => r.data # <<>> /\ r.res[2] = r.data

SuccessIsDone == \A c \in Conns : Relied(call[c])

LEMMA ReliedStep ==
    ASSUME Tables, \A c \in Conns : CallOK(c), SuccessIsDone,
           [Promise!Next]_(Promise!vars)
    PROVE  SuccessIsDone'
  <1>1. DOMAIN call = Conns /\ (\A c \in Conns : DOMAIN call[c] = DOMAIN Call(<<>>))
    BY DEF Tables, CallOK
  <1>2. DOMAIN Call(<<>>) = {"data", "ext", "req", "res", "ret", "st", "taken", "whole"}
    BY DEF Call
  <1> SUFFICES ASSUME NEW d \in Conns PROVE Relied(call'[d])
    BY DEF SuccessIsDone
  <1>3. Relied(call[d])
    BY DEF SuccessIsDone
  <1>4. CASE UNCHANGED call
    BY <1>3, <1>4
  <1>5. ASSUME NEW c \in Conns,
               Promise!Begin(c) \/ Promise!Take(c) \/ Promise!Read(c) \/ Promise!Succeed(c)
                 \/ Promise!Fail(c)
        PROVE  Relied(call'[d])
    <2>1. CASE c # d
      BY <1>1, <1>3, <1>5, <2>1
      DEF Promise!Begin, Promise!Take, Promise!Read, Promise!Succeed, Promise!Fail
    <2>2. CASE c = d /\ Promise!Begin(c)
      <3>1. call'[d].st = "open"
        BY <1>1, <2>2 DEF Promise!Begin, Promise!New
      <3> QED BY <3>1 DEF Relied
    <2>3. CASE c = d /\ Promise!Take(c)
      BY <1>1, <1>2, <1>3, <2>3 DEF Promise!Take, Relied
    <2>4. CASE c = d /\ Promise!Read(c)
      BY <1>1, <1>2, <1>3, <2>4 DEF Promise!Read, Relied
    <2>5. CASE c = d /\ Promise!Succeed(c)
      BY <1>1, <1>2, <1>3, <2>5 DEF Promise!Succeed, Relied
    <2>6. CASE c = d /\ Promise!Fail(c)
      BY <1>1, <1>2, <1>3, <2>6 DEF Promise!Fail, Relied
    <2> QED BY <1>5, <2>1, <2>2, <2>3, <2>4, <2>5, <2>6
  <1> QED BY <1>4, <1>5 DEF Promise!Next, Promise!Write, Promise!vars

\* A program that is told of success can rely on it: its whole request has been carried
\* out, and a query that has data has it (the calls of itscmd.c, and the answer in
\* web_svr_proc).
THEOREM SuccessIsTrue == Spec => []SuccessIsDone
  <1>1. Init => SuccessIsDone
    BY DEF Init, SuccessIsDone, Relied, Call
  <1>2. PagesInv /\ SuccessIsDone /\ [Next]_vars => SuccessIsDone'
    <2> SUFFICES ASSUME PagesInv, SuccessIsDone, [Next]_vars PROVE SuccessIsDone'
      OBVIOUS
    <2>1. [Promise!Next]_(Promise!vars)
      BY StepKept
    <2>2. Tables /\ (\A c \in Conns : CallOK(c))
      BY DEF PagesInv
    <2> QED BY <2>1, <2>2, ReliedStep
  <1> QED BY <1>1, <1>2, PagesCorrect, PTL DEF Spec

-----------------------------------------------------------------------------
(* The names in the user table *)

NamesIn(usr, S) == \A i \in 1..MAX_USR_NUM : usr[i].name \in S

LEMMA SlotNames ==
    ASSUME NEW usr, UsersOK(usr), NEW S, NamesIn(usr, S), NEW name, NEW val, NEW ok, NEW failed,
           NEW field \in {"name", "psw"}, field = "name" => val \in S
    PROVE  NamesIn(InSlot(usr, name, field, val, ok, failed).usr, S)
  <1> DEFINE new == [i \in 1..MAX_USR_NUM |->
                IF i \in SlotOf(usr, name) THEN [usr[i] EXCEPT ![field] = val] ELSE usr[i]]
  <1>1. InSlot(usr, name, field, val, ok, failed).usr = new
    BY DEF InSlot
  <1>2. ASSUME NEW i \in 1..MAX_USR_NUM
        PROVE  new[i].name \in S
    <2>1. usr[i].name \in S /\ DOMAIN usr[i] = {"auth", "name", "psw"}
      BY DEF NamesIn, UsersOK
    <2>2. new[i] = IF i \in SlotOf(usr, name) THEN [usr[i] EXCEPT ![field] = val] ELSE usr[i]
      OBVIOUS
    <2> HIDE DEF new
    <2> QED BY <2>1, <2>2
  <1> HIDE DEF new
  <1> QED BY <1>1, <1>2 DEF NamesIn

\* Only names that are there, or are asked for, or none.
LEMMA UserOpNames ==
    ASSUME NEW usr, UsersOK(usr), NEW op \in DOMAIN UserCount, NEW us, NEW S, NamesIn(usr, S),
           NoName \in S, \A j \in 1..UserCount[op] : us[j].name \in S
    PROVE  NamesIn(UserOp(usr, op, us).usr, S)
  <1>1. op \in {"USER_ADD", "USER_DEL", "USER_MODIFY"}
    BY DEF UserCount
  <1>2. CASE op = "USER_ADD"
    <2>1. us[1].name \in S
      BY <1>2 DEF UserCount
    <2>2. NamesIn(sys_usr_add(usr, us[1]).usr, S)
      <3> DEFINE u == us[1]
                 new == [i \in 1..MAX_USR_NUM |->
                   IF i \in SlotOf(usr, NoName) THEN [usr[i] EXCEPT !.name = u.name, !.psw = u.psw]
                   ELSE usr[i]]
      <3>1. sys_usr_add(usr, u).usr = new
        BY DEF sys_usr_add, InSlot
      <3>2. ASSUME NEW i \in 1..MAX_USR_NUM
            PROVE  new[i].name \in S
        <4>1. usr[i].name \in S /\ DOMAIN usr[i] = {"auth", "name", "psw"}
          BY DEF NamesIn, UsersOK
        <4> QED BY <2>1, <4>1
      <3> HIDE DEF new
      <3> QED BY <3>1, <3>2 DEF NamesIn
    <2> QED BY <1>2, <2>2 DEF UserOp
  <1>3. CASE op = "USER_DEL"
    <2>1. NamesIn(sys_usr_del(usr, us[1].name).usr, S)
      BY SlotNames DEF sys_usr_del
    <2> QED BY <1>3, <2>1 DEF UserOp
  <1>4. CASE op = "USER_MODIFY"
    <2>1. us[2].name \in S
      BY <1>4 DEF UserCount
    <2> DEFINE t == set_usr_name(usr, us[1].name, us[2].name).usr
    <2>2. UsersOK(t) /\ NamesIn(t, S)
      BY <2>1, SlotNames, SlotKeepsUsers DEF set_usr_name
    <2>3. \A tab, name, psw : UsersOK(tab) /\ NamesIn(tab, S) =>
                                NamesIn(set_usr_psw(tab, name, psw).usr, S)
      BY SlotNames DEF set_usr_psw
    <2>4. \A tab : Modified(tab).usr = tab
      BY DEF Modified
    <2> QED BY <1>4, <2>2, <2>3, <2>4 DEF UserOp
  <1> QED BY <1>1, <1>2, <1>3, <1>4

\* Calls are not forgotten, and nor is what they asked for.
LEMMA AskedGrows ==
    ASSUME \A c \in Conns : call[c].st # "none" =>
             call'[c].st # "none" /\ call'[c].req = call[c].req
    PROVE  Asked \subseteq Asked'
  <1>1. \A c \in UserSets : c \in UserSets' /\ call'[c].req = call[c].req
    BY DEF UserSets
  <1>2. \A c \in UserSets : NamesOf(call[c].req) \in {NamesOf(call'[d].req) : d \in UserSets'}
    BY <1>1
  <1>3. Asked' = AtFirst \cup (UNION {NamesOf(call'[d].req) : d \in UserSets'})
    BY DEF Asked, AtFirst, NamesOf
  <1> QED BY <1>2, <1>3 DEF Asked

LEMMA AskedStays ==
    ASSUME UsersAsked, store'.usr = store.usr,
           \A c \in Conns : call[c].st # "none" =>
             /\ call'[c].st # "none" /\ call'[c].req = call[c].req
             /\ call[c].req.cmd = "ITS_USER_SET" /\ call'[c].whole = "yes" => call[c].whole = "yes"
    PROVE  UsersAsked'
  <1>1. Asked \subseteq Asked'
    BY AskedGrows
  <1>2. (\A c \in UserSets : call[c].whole = "yes")' => \A c \in UserSets : call[c].whole = "yes"
    BY DEF UserSets
  <1> QED BY <1>1, <1>2 DEF UsersAsked

LEMMA ExecuteAsked ==
    ASSUME PagesInv, UsersAsked, Execute
    PROVE  UsersAsked'
  <1>1. Tables /\ StoreOK(store) /\ (\A d \in Conns : CallOK(d))
    BY DEF PagesInv
  <1>2. PICK c \in Conns : c = srv.conn
    BY ExecuteIs
  <1> DEFINE req == call[c].req
             open == theirs[c] = "open"
  <1>3. /\ call[c].st # "none" /\ Packed(req) /\ call[c].taken = "no"
        /\ open => web_cmd_proc(store, req, srv.body) = web_cmd_proc(store, req, req.body)
        /\ srv.body = <<>> \/ srv.body = req.body
    BY <1>2, ExecuteIs
  <1>4. PICK o \in web_cmd_proc(store, req, srv.body) :
              /\ store' = o.store
              /\ call' = [call EXCEPT ![c].taken = "yes", ![c].ret = o.ret, ![c].ext = o.ext,
                            ![c].whole = IF open THEN "yes" ELSE "no"]
    BY <1>2 DEF Execute
  <1>5. call[c].whole = "yes" /\ DOMAIN call[c] = DOMAIN Call(<<>>)
    BY <1>1, <1>3 DEF CallOK
  <1>6. /\ \A d \in Conns \ {c} : call'[d] = call[d]
        /\ call'[c].st = call[c].st /\ call'[c].req = req
        /\ call'[c].whole = IF open THEN "yes" ELSE "no"
    BY <1>1, <1>4, <1>5 DEF Tables, Call
  <1>7. \A d \in Conns : call[d].st # "none" =>
             /\ call'[d].st # "none" /\ call'[d].req = call[d].req
             /\ call[d].req.cmd = "ITS_USER_SET" /\ call'[d].whole = "yes" => call[d].whole = "yes"
    BY <1>5, <1>6
  <1>8. CASE req.cmd # "ITS_USER_SET"
    <2>1. store'.usr = store.usr
      BY <1>1, <1>3, <1>4, <1>8, CommandKeeps
    <2> QED BY <2>1, <1>7, AskedStays
  <1>9. CASE req.cmd = "ITS_USER_SET" /\ ~open
    <2>1. c \in UserSets' /\ call'[c].whole # "yes"
      BY <1>3, <1>6, <1>9 DEF UserSets
    <2> QED BY <2>1 DEF UsersAsked
  <1>10. CASE req.cmd = "ITS_USER_SET" /\ open
    <2> DEFINE us == req.body[1]
    <2>1. o = sys_usr_set(store, req, req.body)
      BY <1>3, <1>4, <1>10 DEF web_cmd_proc
    <2>2. req.body # <<>> /\ req.op \in DOMAIN UserCount /\ DOMAIN us = 1..UserCount[req.op]
      BY <1>3, <1>10 DEF Packed, Setters
    <2>3. UsersOK(store.usr) /\ "usr" \in DOMAIN store
      BY <1>1 DEF StoreOK
    <2>4. store'.usr = store.usr \/ store'.usr = UserOp(store.usr, req.op, us).usr
      <3>1. \A t, ret : Ack(t, ret).store = t
        BY DEF Ack
      <3> DEFINE done == UserOp(store.usr, req.op, us)
      <3>2. o = Ack(store, UserMay(store, req)) \/ o = Ack([store EXCEPT !.usr = done.usr], done.ret)
        BY <2>1, <2>2 DEF sys_usr_set
      <3> HIDE DEF done
      <3>3. store' = store \/ store' = [store EXCEPT !.usr = done.usr]
        BY <1>4, <3>1, <3>2
      <3>4. store' = store \/ store'.usr = done.usr
        BY <2>3, <3>3
      <3> QED BY <3>4 DEF done
    <2>5. CASE store'.usr = store.usr
      BY <2>5, <1>7, AskedStays
    <2>6. CASE store'.usr = UserOp(store.usr, req.op, us).usr
      <3> SUFFICES ASSUME (\A d \in UserSets : call[d].whole = "yes")'
                   PROVE  NamesIn(store'.usr, Asked' \cup {NoName})
        BY DEF UsersAsked, NamesIn
      <3> DEFINE S == Asked' \cup {NoName}
      <3>1. Asked \subseteq Asked'
        BY <1>7, AskedGrows
      <3>2. \A d \in UserSets : call[d].whole = "yes"
        BY <1>7 DEF UserSets
      <3>3. NamesIn(store.usr, S)
        BY <3>1, <3>2 DEF UsersAsked, NamesIn
      <3>4. \A j \in 1..UserCount[req.op] : us[j].name \in S
        <4>1. c \in UserSets' /\ call'[c].req = req
          BY <1>3, <1>6, <1>10 DEF UserSets
        <4>2. NamesOf(req) \subseteq Asked'
          <5>1. Asked' = AtFirst \cup (UNION {NamesOf(call'[d].req) : d \in UserSets'})
            BY DEF Asked, AtFirst, NamesOf
          <5> QED BY <4>1, <5>1
        <4>3. \A j \in 1..UserCount[req.op] : us[j].name \in NamesOf(req)
          BY <2>2 DEF NamesOf
        <4> QED BY <4>2, <4>3
      <3> HIDE DEF S, us
      <3>5. NamesIn(UserOp(store.usr, req.op, us).usr, S)
        <4>1. NoName \in S
          BY DEF S
        <4> QED BY <4>1, <2>2, <2>3, <3>3, <3>4, UserOpNames
      <3> QED BY <2>6, <3>5 DEF S
    <2> QED BY <2>4, <2>5, <2>6
  <1> QED BY <1>8, <1>9, <1>10

LEMMA AskedStep ==
    ASSUME PagesInv, UsersAsked, [Next]_vars
    PROVE  UsersAsked'
  <1>1. CASE Execute
    BY <1>1, ExecuteAsked
  <1>2. ASSUME NEW c \in Conns, NEW v, call' = [call EXCEPT ![c] = v], store' = store,
               call[c].st # "none" => /\ v.st # "none" /\ v.req = call[c].req
                                      /\ v.whole = call[c].whole
        PROVE  UsersAsked'
    <2>1. \A d \in Conns : d # c => call'[d] = call[d]
      BY <1>2 DEF PagesInv, Tables
    <2>2. call'[c] = v
      BY <1>2 DEF PagesInv, Tables
    <2> QED BY <1>2, <2>1, <2>2, AskedStays
  <1>3. ASSUME NEW p \in Procs, Connect(p)
        PROVE  UsersAsked'
    <2>1. PICK c \in Conns : Promise!Begin(c)
      BY <1>3, ConnectBegins
    <2>2. store' = store /\ call[c].st = "none"
      BY <2>1 DEF Promise!Begin, Promise!NoCall, Promise!New
    <2>3. \E v : call' = [call EXCEPT ![c] = v]
      BY <2>1 DEF Promise!Begin
    <2> QED BY <2>2, <2>3, <1>2
  <1>5. ASSUME \E c \in Conns : Promise!Succeed(c) \/ Promise!Fail(c) \/ Promise!Read(c)
        PROVE  UsersAsked'
    <2>1. PICK c \in Conns : Promise!Succeed(c) \/ Promise!Fail(c) \/ Promise!Read(c)
      BY <1>5
    <2>2. DOMAIN call[c] = DOMAIN Call(<<>>) /\ store' = store
      BY <2>1 DEF PagesInv, CallOK, Promise!Succeed, Promise!Fail, Promise!Read
    <2>3. /\ call'[c].req = call[c].req /\ call'[c].whole = call[c].whole
          /\ call[c].st # "none" => call'[c].st # "none"
          /\ \A d \in Conns : d # c => call'[d] = call[d]
      BY <2>1, <2>2 DEF PagesInv, Tables, Call, Promise!Succeed, Promise!Fail, Promise!Read
    <2> QED BY <2>2, <2>3, AskedStays
  <1>6. ASSUME store'.usr = store.usr, UNCHANGED call
        PROVE  UsersAsked'
    BY <1>6, AskedStays
  <1>7. ASSUME NEW p \in Procs, Page(p)
        PROVE  UsersAsked'
    <2>1. CASE Answered(p) \/ RecvData(p) \/ RecvNoData(p)
      BY <2>1, ReturnSucceeds, <1>5, Zenon
    <2>2. CASE CallFails(p)
      BY <2>2, CallFailsFails, <1>5, Zenon
    <2>3. CASE Begin(p) \/ Resolve(p) \/ ConnectFails(p) \/ SendBody(p) \/ RecvHead(p)
      BY <2>3, <1>6 DEF Begin, Resolve, ConnectFails, SendBody, RecvHead
    <2> QED BY <1>3, <1>7, <2>1, <2>2, <2>3 DEF Page
  <1>8. CASE Server
    <2>1. CASE \E c \in Conns : Serve(c) \/ ServeRest(c) \/ ServeEnd(c)
      BY <2>1, <1>6 DEF Serve, ServeRest, ServeEnd
    <2>2. CASE RestEnds \/ TakeBody \/ BodyLost
      BY <2>2, <1>6 DEF RestEnds, TakeBody, BodyLost
    <2>3. CASE SendData
      BY <2>3, SendDataReads, <1>5, <1>6
    <2> QED BY <1>1, <1>8, <2>1, <2>2, <2>3 DEF Server
  <1>9. CASE Mishap
    <2>1. CASE \E p \in Procs : Kill(p)
      BY <2>1, CallFailsFails, <1>5, Zenon
    <2>2. CASE (\E c \in Conns : Full(c)) \/ Die
      BY <2>2, <1>6 DEF Full, Die
    <2> QED BY <1>9, <2>1, <2>2 DEF Mishap
  <1>10. CASE Write
    <2>1. StoreOK(store)
      BY DEF PagesInv
    <2> QED BY <2>1, <1>10, <1>6, OthersKeep DEF Write
  <1>11. CASE UNCHANGED vars
    BY <1>11, <1>6 DEF vars
  <1> QED BY <1>7, <1>8, <1>9, <1>10, <1>11 DEF Next

\* The user table holds nobody who was not there at first and for whom no program has
\* asked, unless a user's record was lost on the way (sys_usr_set does not look whether
\* web_conn_recv has received it).
THEOREM UsersAreAsked == Spec => []UsersAsked
  <1>1. Init => UsersAsked
    <2> SUFFICES ASSUME Init PROVE NamesIn(store.usr, AtFirst)
      BY DEF UsersAsked, Asked, NamesIn
    <2>1. PICK s \in Scenarios : store = Store(s)
      BY DEF Init
    <2>2. store.usr = s.usr
      BY <2>1 DEF Store
    <2> QED BY <2>2 DEF NamesIn, AtFirst
  <1>2. PagesInv /\ UsersAsked /\ [Next]_vars => UsersAsked'
    BY AskedStep
  <1> QED BY <1>1, <1>2, PagesCorrect, PTL DEF Spec
=============================================================================
