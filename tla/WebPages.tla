------------------------------- MODULE WebPages -------------------------------
(***************************************************************************)
(* The pages of the web interface: CGI programs, each a process of its own *)
(* that runs while a browser waits, the calls of itslib they make          *)
(* (itscmd.c, net.c), and web_svr_proc, which serves all of them in one    *)
(* thread.  Every call has a connection of its own.  How the server finds  *)
(* its connections is in WebServer; here one of those with input is next.  *)
(*                                                                         *)
(* A body is sent as MAX_LENGTH bytes whatever its size, so a connection   *)
(* carries at most three things: a header, a record, and what lies behind  *)
(* the record in memory.  That padding never begins with ITS_HEAD.         *)
(***************************************************************************)
EXTENDS WebCommands

CONSTANTS
    Procs,          \* CGI programs that run
    Scenarios,      \* what they are asked, by whom, and the rights in the store
    Faults,         \* what may go wrong: "full", "late", "slow", "kill", "die"
    MaxFaults

ASSUME PagesAssumption == MaxFaults \in Nat /\ Ports \subseteq Nat /\ MAX_USR_NUM \in Nat

Pages == {"host", "net", "vlan", "com", "mode", "server", "gpio", "gpio_set", "mainFrame",
          "factory", "users"}

\* A record that has been blanked, or was never received, is told by its members.
IsWhole(r) ==
    DOMAIN r = {"form", "id", "rest"} /\ {r.form, r.rest} \cap {"blank", "garbage"} = {}

\* What itslib packs.  A query takes no body; every other command answers with a
\* code only, and a setter is sent with its record, or its users.
Setters == {"ITS_SYSINFO_SET", "ITS_NETINFO_SET", "ITS_VLAN_SET", "ITS_SERVER_SET",
            "ITS_GPIO_SET", "ITS_CONF_SET"}
UserCount == [USER_ADD |-> 1, USER_DEL |-> 1, USER_MODIFY |-> 2]
Packed(req) ==
    /\ \/ req.query = 1 /\ req.body = <<>>
          /\ req.cmd \notin Setters \cup {"ITS_USER_SET", "ITS_LOGIN", "ITS_FACTORY_SET"}
       \/ req.query = 0
          /\ req.cmd \in Setters \cup {"ITS_USER_SET", "ITS_LOGIN", "ITS_FACTORY_SET"}
    /\ req.cmd \in Setters =>
         /\ req.body # <<>>
         /\ req.cmd = "ITS_CONF_SET" => req.op \in {"CONF_COM", "CONF_MODE", "CONF_LIMIT"}
         /\ IsWhole(req.body[1]) \/ (req.cmd = "ITS_CONF_SET" /\ req.op = "CONF_LIMIT")
    /\ req.cmd = "ITS_USER_SET" =>
         /\ req.body # <<>> /\ req.op \in DOMAIN UserCount
         /\ DOMAIN req.body[1] = 1..UserCount[req.op]

\* What a program is asked: a form of whole fields, a port there is, and from a program
\* that manages users one of its commands.
Managing(req) ==
    /\ Packed(req)
    /\ \/ req.cmd \in {"ITS_USER_SET", "ITS_USER_QUERY"}
       \/ req.cmd \in {"ITS_CONF_SET", "ITS_CONF_QUERY"} /\ req.op = "CONF_LIMIT"

VisitOK(v) ==
    /\ v.page \in Pages
    /\ v.page \in {"com", "mode"} => v.port \in Ports
    /\ v.form \notin {"blank", "garbage"}
    /\ v.page = "users" => Managing(v.ask)

UsersOK(usr) ==
    DOMAIN usr = 1..MAX_USR_NUM /\ \A i \in 1..MAX_USR_NUM : DOMAIN usr[i] = {"auth", "name", "psw"}

ASSUME ScenarioAssumption ==
    \A s \in Scenarios : UsersOK(s.usr) /\ \A p \in Procs : VisitOK(s.visits[p])

\* Page p's calls are <<p, 1>>, <<p, 2>>, ...
MaxCalls == 4
Conns == Procs \X (1..MaxCalls)

VARIABLES
    store,    \* g_conf_info
    session,  \* /tmp/nc_<addr>: what each holds, empty when it is not there
    cgi,      \* each program
    up,       \* what it has sent on a connection and the server has not read
    mine,     \* its end of the connection: none, open, fin
    head,     \* the answer, and
    data,     \* the data the server has sent on a connection
    theirs,   \* the server's end: open, closed
    srv,      \* the server's thread
    call,     \* history: what became of each call, see RemoteCalls
    writes,   \* bound: how often the alarm server may still write to the store
    faults    \* bound: how often something has gone wrong

links == <<up, mine, head, data, theirs>>
vars == <<store, session, cgi, links, srv, call, writes, faults>>

Call(req) ==
    [data |-> <<>>, ext |-> 0, req |-> req, res |-> <<>>, ret |-> "none", st |-> "open",
     taken |-> "no", whole |-> "yes"]

Idle == [body |-> <<>>, conn |-> <<>>, pc |-> "idle"]

\* Every member of the store is its own.
Old(id) == Record(id, "old", "old")
Store(scenario) ==
    [com |-> [p \in Ports |-> Old(p)], gpio |-> Old(0), lim |-> scenario.lim,
     mode |-> [p \in Ports |-> Old(p)], net |-> Old(0), server |-> Old(0), sys |-> Old(0),
     usr |-> scenario.usr, vlan |-> Old(0)]

Init == \E s \in Scenarios :
    /\ store = Store(s)
    /\ session = s.session
    /\ cgi = [p \in Procs |->
                [alert |-> "none", at |-> "start", cl |-> "none", k |-> 0, name |-> NoName,
                 rec |-> Blank, visit |-> s.visits[p]]]
    /\ up = [c \in Conns |-> {}] /\ mine = [c \in Conns |-> "none"]
    /\ head = [c \in Conns |-> <<>>] /\ data = [c \in Conns |-> <<>>]
    /\ theirs = [c \in Conns |-> "open"]
    /\ srv = Idle
    /\ call = [c \in Conns |-> [Call(<<>>) EXCEPT !.st = "none"]]
    /\ writes = s.writes /\ faults = 0

Fault(f) == f \in Faults /\ faults < MaxFaults /\ faults' = faults + 1

-----------------------------------------------------------------------------
(* The pages.  Of each: the query it begins with and the code it waits     *)
(* for, the call for a submitted form and its code, and the record with    *)
(* which it asks again.  g is the program's state.                         *)

host(g) ==
    [query |-> its_sysinfo_query(g.name), seen |-> "QUERY_OK",
     set |-> its_sysinfo_set(g.rec), ok |-> "SYS_SET_OK", again |-> Blank]
net(g) ==
    [query |-> its_netinfo_query(g.name), seen |-> "QUERY_OK",
     set |-> its_netinfo_set(g.rec), ok |-> "NET_SET_OK", again |-> Blank]
vlan(g) ==
    [query |-> its_vlan_query(g.name), seen |-> "QUERY_OK",
     set |-> its_vlan_set(g.rec), ok |-> "VLAN_SET_OK", again |-> Blank]
\* com.c does not put the port's number back before it asks again.
com(g) ==
    [query |-> its_conf_com_query(g.name, g.rec), seen |-> "QUERY_OK",
     set |-> its_conf_com_set(g.rec, g.visit.all), ok |-> "COM_SET_OK", again |-> Blank]
mode(g) ==
    [query |-> its_conf_mode_query(g.name, g.rec), seen |-> "QUERY_OK",
     set |-> its_conf_mode_set(g.rec), ok |-> "MODE_SET_OK",
     again |-> Record(g.visit.port, "blank", "blank")]
server(g) ==
    [query |-> its_conf_server_query(g.name), seen |-> "QUERY_OK",
     set |-> its_conf_server_set(g.rec), ok |-> "SERVER_SET_OK", again |-> Blank]
gpio(g) ==
    [query |-> its_conf_gpio_query(g.name), seen |-> "QUERY_OK",
     set |-> its_factory_set, ok |-> "none", again |-> Blank]
gpio_set(g) ==
    [query |-> its_conf_gpio_query(g.name), seen |-> "QUERY_OK",
     set |-> its_conf_gpio_set(g.rec), ok |-> "GPIO_SET_OK", again |-> Blank]
mainFrame(g) ==
    [query |-> user_login(g.visit.user, g.visit.psw), seen |-> "LOGIN_OK",
     set |-> its_factory_set, ok |-> "none", again |-> Blank]
factory(g) ==
    [query |-> its_factory_set, seen |-> "none",
     set |-> its_factory_set, ok |-> "FACTORY_SET_OK", again |-> Blank]
\* A program that manages users; there is none in the repository.
users(g) ==
    [query |-> its_factory_set, seen |-> "none", set |-> g.visit.ask,
     ok |-> "any", again |-> Blank]

PageOf(g) ==
    CASE g.visit.page = "host" -> host(g)
      [] g.visit.page = "net" -> net(g)
      [] g.visit.page = "vlan" -> vlan(g)
      [] g.visit.page = "com" -> com(g)
      [] g.visit.page = "mode" -> mode(g)
      [] g.visit.page = "server" -> server(g)
      [] g.visit.page = "gpio" -> gpio(g)
      [] g.visit.page = "gpio_set" -> gpio_set(g)
      [] g.visit.page = "mainFrame" -> mainFrame(g)
      [] g.visit.page = "factory" -> factory(g)
      [] g.visit.page = "users" -> users(g)

Request(g) ==
    CASE g.at = "set" -> PageOf(g).set
      [] g.at = "net" -> its_netinfo_query(g.name)   \* server.c needs the name server
      [] OTHER -> PageOf(g).query

ToCall(g, at) == [g EXCEPT !.at = at, !.cl = "connect"]
Ends(g, alert) == [g EXCEPT !.at = "end", !.cl = "none", !.alert = alert]

\* The form goes over the queried record.
Filled(g) == ToCall([g EXCEPT !.rec.form = g.visit.form], "set")
\* Or it is not valid: the record is blanked and asked for again.
Again(g, alert) == ToCall([g EXCEPT !.rec = PageOf(g).again, !.alert = alert], "requery")

\* submit is "no", "good", "bad" or, on the server page, a "name" to be resolved,
\* which shows only then whether it is good.
Submitted(g) ==
    (IF g.visit.submit \in {"good", "name"} THEN {Filled(g)} ELSE {})
      \cup (IF g.visit.submit \in {"bad", "name"} THEN {Again(g, "rejected")} ELSE {})

AskName(g) == [g EXCEPT !.at = "dns", !.cl = "dns"]
AfterNet(g) == IF g.visit.submit = "name" THEN {AskName(g)} ELSE Submitted(g)

\* Mutant: the page goes on when it could not read the record.
AfterCall_Unread(g, ret) ==
    CASE g.at = "query" -> IF g.visit.submit = "no" THEN {Ends(g, "none")} ELSE Submitted(g)
      [] g.at = "net" -> AfterNet(g)
      [] g.at = "set" -> {IF ret = PageOf(g).ok THEN Ends(g, "ok") ELSE Again(g, "failed")}
      [] g.at = "requery" -> {Ends(g, g.alert)}

\* cgiMain after a call.
AfterCall(g, ret) ==
    CASE g.at = "query" ->
           IF ret # PageOf(g).seen THEN {Ends(g, "error")}
           ELSE IF g.visit.submit = "no" \/ g.visit.page \in {"mainFrame", "gpio"}
           THEN {Ends(g, "none")}
           ELSE IF g.visit.page = "server" THEN {ToCall(g, "net")}
           ELSE Submitted(g)
      [] g.at = "net" -> AfterNet(g)
      [] g.at = "set" ->
           {IF ret = PageOf(g).ok THEN Ends(g, "ok")
            ELSE IF g.visit.page \in {"factory", "users"} THEN Ends(g, "failed")
            ELSE Again(g, "failed")}
      [] g.at = "requery" -> {Ends(g, g.alert)}

\* session_read, and cgiMain up to its first call.
Begin(p) ==
    LET g == cgi[p]
        s == session[g.visit.addr]
        named == [g EXCEPT !.name = s, !.rec = Record(g.visit.port, "blank", "blank")]
    IN /\ g.at = "start"
       /\ cgi' = [cgi EXCEPT ![p] =
            CASE g.visit.page = "mainFrame" -> ToCall(g, "query")
              [] g.visit.page # "mainFrame" /\ s = NoName -> Ends(g, "login")
              [] g.visit.page = "users" /\ s # NoName -> ToCall(named, "set")
              [] g.visit.page = "factory" /\ s # NoName ->
                   IF g.visit.submit = "no" THEN Ends(g, "none") ELSE ToCall(named, "set")
              [] OTHER -> ToCall(named, "query")]
       /\ UNCHANGED <<store, session, links, srv, call, writes, faults>>

\* session_save does not truncate: the end of a longer name stays.
Overwritten(new, old) == new \o SubSeq(old, Len(new) + 1, Len(old))

SessionSave(g, ret) ==
    IF g.visit.page = "mainFrame" /\ g.at = "query" /\ ret = "LOGIN_OK"
    THEN [session EXCEPT ![g.visit.addr] = Overwritten(g.visit.user, session[g.visit.addr])]
    ELSE session

\* its_dns: the name server answers, or in two seconds it has not.
Resolve(p) ==
    /\ cgi[p].cl = "dns"
    /\ \E g \in Submitted(cgi[p]) : cgi' = [cgi EXCEPT ![p] = g]
    /\ UNCHANGED <<store, session, links, srv, call, writes, faults>>

-----------------------------------------------------------------------------
(* net.c and itscmd.c: one call                                            *)

Cur(p) == <<p, cgi[p].k>>
At(p, cl) == cgi[p].cl = cl

\* net_conn_connect, and net_conn_send of the header.
Connect(p) ==
    LET c == <<p, cgi[p].k + 1>>
        req == Request(cgi[p])
    IN /\ At(p, "connect") /\ srv.pc # "dead"
       /\ cgi' = [cgi EXCEPT ![p].k = @ + 1,
                             ![p].cl = IF req.body = <<>> THEN "head" ELSE "body"]
       /\ mine' = [mine EXCEPT ![c] = "open"]
       /\ up' = [up EXCEPT ![c] = {"head"}]
       /\ call' = [call EXCEPT ![c] = Call(req)]
       /\ UNCHANGED <<store, session, head, data, theirs, srv, writes, faults>>

ConnectFails(p) ==
    /\ At(p, "connect") /\ srv.pc = "dead"
    /\ \E g \in AfterCall(cgi[p], "CONN_FAILED") : cgi' = [cgi EXCEPT ![p] = g]
    /\ UNCHANGED <<store, session, links, srv, call, writes, faults>>

SendBody(p) ==
    /\ At(p, "body") /\ theirs[Cur(p)] = "open"
    /\ up' = [up EXCEPT ![Cur(p)] = @ \cup {"rec", "pad"}]
    /\ cgi' = [cgi EXCEPT ![p].cl = "head"]
    /\ UNCHANGED <<store, session, mine, head, data, theirs, srv, call, writes, faults>>

\* net_conn_recv: a select of three seconds, and one recv.
RecvHead(p) ==
    /\ At(p, "head") /\ head[Cur(p)] # <<>> /\ call[Cur(p)].req.query = 1
    /\ cgi' = [cgi EXCEPT ![p].cl = "data"]
    /\ UNCHANGED <<store, session, links, srv, call, writes, faults>>

\* The call returns, its connection is closed and the page goes on; got is the
\* data a query has received.
Return(p, ret, got) ==
    /\ \E g \in AfterCall(IF got # <<>> /\ cgi[p].at \in {"query", "requery"}
                          THEN [cgi[p] EXCEPT !.rec = got[1]] ELSE cgi[p], ret) :
          cgi' = [cgi EXCEPT ![p] = g]
    /\ session' = SessionSave(cgi[p], ret)
    /\ mine' = [mine EXCEPT ![Cur(p)] = "fin"]
    /\ UNCHANGED <<store, up, head, data, theirs, srv, writes>>

Succeeds(p, ret, got) ==
    /\ Return(p, ret, got)
    /\ UNCHANGED faults
    /\ call' = [call EXCEPT ![Cur(p)].st = "ok",
                            ![Cur(p)].res = <<head[Cur(p)][1].ret, got>>]

\* A call without data returns the code of the answer.
Answered(p) ==
    /\ At(p, "head") /\ head[Cur(p)] # <<>> /\ call[Cur(p)].req.query = 0
    /\ Succeeds(p, head[Cur(p)][1].ret, <<>>)

RecvData(p) ==
    /\ At(p, "data") /\ data[Cur(p)] # <<>> /\ head[Cur(p)][1].ext = 1
    /\ Succeeds(p, "QUERY_OK", data[Cur(p)])

\* No data were announced: recv of no bytes, which waits for three seconds like
\* any other, and then fails; unless the server has closed the connection.
RecvNoData(p) ==
    /\ At(p, "data") /\ head[Cur(p)][1].ext = 0 /\ theirs[Cur(p)] = "closed"
    /\ Succeeds(p, "QUERY_OK", <<>>)

Unanswered(p) ==
    \/ At(p, "head") /\ head[Cur(p)] = <<>>
    \/ At(p, "data") /\ data[Cur(p)] = <<>> /\ head[Cur(p)][1].ext = 1

\* Nothing will come, or nothing has come for three seconds; or the body cannot be
\* sent.
CallFails(p) ==
    /\ \/ At(p, "body") /\ theirs[Cur(p)] = "closed" /\ UNCHANGED faults
       \/ Unanswered(p) /\ IF theirs[Cur(p)] = "open" THEN Fault("slow") ELSE UNCHANGED faults
       \/ /\ At(p, "data") /\ head[Cur(p)][1].ext = 0 /\ theirs[Cur(p)] = "open"
          /\ UNCHANGED faults
    /\ Return(p, IF At(p, "body") THEN "SEND_FAILED" ELSE "RECV_FAILED", <<>>)
    /\ call' = [call EXCEPT ![Cur(p)].st = "failed"]

\* The program is killed in the middle of a call.
Kill(p) ==
    /\ Fault("kill") /\ cgi[p].cl \in {"body", "head", "data"}
    /\ cgi' = [cgi EXCEPT ![p] = Ends(@, "killed")]
    /\ mine' = [mine EXCEPT ![Cur(p)] = "fin"]
    /\ call' = [call EXCEPT ![Cur(p)].st = "failed"]
    /\ UNCHANGED <<store, session, up, head, data, theirs, srv, writes>>

-----------------------------------------------------------------------------
(* web_svr_proc, web_cmd_proc and web_conn_recv                            *)

Readable(c) ==
    /\ theirs[c] = "open" /\ mine[c] # "none"
    /\ up[c] # {} \/ mine[c] = "fin"

Closed(c) == theirs' = [theirs EXCEPT ![c] = "closed"]

\* A header is received.  ready: a body is waiting to be received first.
Serve(c) ==
    /\ srv.pc = "idle" /\ Readable(c) /\ "head" \in up[c]
    /\ up' = [up EXCEPT ![c] = @ \ {"head"}]
    /\ srv' = [srv EXCEPT !.conn = c,
                          !.pc = IF TakesBody(store, call[c].req) THEN "body" ELSE "exec"]
    /\ UNCHANGED <<store, session, cgi, mine, head, data, theirs, call, writes, faults>>

\* Mutant: leftovers are carried out.
ServeRest_Header(c) ==
    /\ srv.pc = "idle" /\ Readable(c) /\ up[c] # {} /\ "head" \notin up[c]
    /\ up' = [up EXCEPT ![c] = {}]
    /\ srv' = [srv EXCEPT !.conn = c, !.pc = "exec", !.body = call[c].req.body]
    /\ UNCHANGED <<store, session, cgi, mine, head, data, theirs, call, writes, faults>>

\* What a body leaves behind it is taken for headers, which it is not; the last
\* of them is not whole.
ServeRest(c) ==
    /\ srv.pc = "idle" /\ Readable(c) /\ up[c] # {} /\ "head" \notin up[c]
    /\ up' = [up EXCEPT ![c] = {}]
    /\ srv' = [srv EXCEPT !.conn = c, !.pc = "rest"]
    /\ UNCHANGED <<store, session, cgi, mine, head, data, theirs, call, writes, faults>>

ServeEnd(c) ==
    /\ srv.pc = "idle" /\ Readable(c) /\ up[c] = {}
    /\ Closed(c)
    /\ UNCHANGED <<store, session, cgi, up, mine, head, data, srv, call, writes, faults>>

\* The rest of such a header does not come: the client goes, or has TIMEOUT_CNT.
RestEnds ==
    /\ srv.pc = "rest"
    /\ Closed(srv.conn)
    /\ srv' = Idle
    /\ UNCHANGED <<store, session, cgi, up, mine, head, data, call, writes, faults>>

TakeBody ==
    /\ srv.pc = "body" /\ "rec" \in up[srv.conn]
    /\ up' = [up EXCEPT ![srv.conn] = @ \ {"rec"}]
    /\ srv' = [srv EXCEPT !.pc = "exec", !.body = call[srv.conn].req.body]
    /\ UNCHANGED <<store, session, cgi, mine, head, data, theirs, call, writes, faults>>

\* Mutant: web_conn_recv does not see that the client has gone.
BodyLost_Deaf ==
    /\ srv.pc = "body" /\ "rec" \notin up[srv.conn]
    /\ mine[srv.conn] = "open" /\ Fault("late")
    /\ Closed(srv.conn)
    /\ srv' = [srv EXCEPT !.pc = "exec"]
    /\ UNCHANGED <<store, session, cgi, up, mine, head, data, call, writes>>

\* The client has gone, or is slower than TIMEOUT_CNT.
BodyLost ==
    /\ srv.pc = "body" /\ "rec" \notin up[srv.conn]
    /\ \/ mine[srv.conn] = "fin" /\ UNCHANGED faults
       \/ mine[srv.conn] = "open" /\ Fault("late")
    /\ Closed(srv.conn)
    /\ srv' = [srv EXCEPT !.pc = "exec"]
    /\ UNCHANGED <<store, session, cgi, up, mine, head, data, call, writes>>

\* The command, and the header of its answer, which a closed connection drops.
Execute ==
    LET c == srv.conn
        req == call[c].req
    IN /\ srv.pc = "exec"
       /\ \E o \in web_cmd_proc(store, req, srv.body) :
             /\ store' = o.store
             /\ call' = [call EXCEPT ![c].taken = "yes", ![c].ret = o.ret, ![c].ext = o.ext,
                           ![c].whole = IF theirs[c] = "open" THEN "yes" ELSE "no"]
             /\ head' = IF theirs[c] = "open"
                        THEN [head EXCEPT ![c] = <<[ext |-> o.ext, ret |-> o.ret]>>] ELSE head
             /\ srv' = IF o.ext = 1 THEN [srv EXCEPT !.pc = "data"] ELSE Idle
       /\ UNCHANGED <<session, cgi, up, mine, data, theirs, writes, faults>>

SendData ==
    LET c == srv.conn IN
    /\ srv.pc = "data"
    /\ srv' = Idle
    /\ IF mine[c] = "open"
       THEN /\ data' = [data EXCEPT ![c] = <<Sent(store, call[c].req)>>]
            /\ call' = [call EXCEPT ![c].data = <<Sent(store, call[c].req)>>]
            /\ UNCHANGED theirs
       ELSE Closed(c) /\ UNCHANGED <<data, call>>
    /\ UNCHANGED <<store, session, cgi, up, mine, head, writes, faults>>

\* Every slot is taken: accept and close.
Full(c) ==
    /\ srv.pc = "idle" /\ up[c] = {"head"} /\ theirs[c] = "open" /\ Fault("full")
    /\ Closed(c) /\ up' = [up EXCEPT ![c] = {}]
    /\ UNCHANGED <<store, session, cgi, mine, head, data, srv, call, writes>>

\* The process dies: by SIGPIPE from another thread, or the device restarts
\* after a factory reset.
Die ==
    /\ srv.pc # "dead"
    /\ \/ Fault("die")
       \/ store.server.form = "default" /\ UNCHANGED faults
    /\ srv' = [Idle EXCEPT !.pc = "dead"]
    /\ theirs' = [c \in Conns |-> "closed"]
    /\ up' = [c \in Conns |-> {}]
    /\ UNCHANGED <<store, session, cgi, mine, head, data, call, writes>>

-----------------------------------------------------------------------------
(* The alarm server's thread: SET_UART_RECV_ATTR and SET_UART_ATTR          *)

Others(s) ==
    {[s EXCEPT !.com[p].rest = "other"] : p \in Ports}
      \cup {[s EXCEPT !.com[p].form = "other"] : p \in Ports}

Write ==
    /\ writes > 0 /\ srv.pc # "dead"
    /\ store' \in Others(store)
    /\ writes' = writes - 1
    /\ UNCHANGED <<session, cgi, links, srv, call, faults>>

-----------------------------------------------------------------------------
Page(p) ==
    \/ Begin(p) \/ Resolve(p) \/ Connect(p) \/ ConnectFails(p) \/ SendBody(p) \/ RecvHead(p)
    \/ Answered(p) \/ RecvData(p) \/ RecvNoData(p) \/ CallFails(p)

Server ==
    \/ \E c \in Conns : Serve(c) \/ ServeRest(c) \/ ServeEnd(c)
    \/ RestEnds \/ TakeBody \/ BodyLost \/ Execute \/ SendData

Mishap == (\E p \in Procs : Kill(p)) \/ (\E c \in Conns : Full(c)) \/ Die

Next == (\E p \in Procs : Page(p)) \/ Server \/ Mishap \/ Write

Spec == Init /\ [][Next]_vars

\* The programs run, and every wait in them has a timeout.
FairSpec == Spec /\ (\A p \in Procs : WF_vars(Page(p))) /\ WF_vars(Server)

-----------------------------------------------------------------------------
(* Properties *)

Records == {store.sys, store.net, store.vlan, store.server, store.gpio}
             \cup {store.com[p] : p \in Ports} \cup {store.mode[p] : p \in Ports}

\* A page sends a whole record, and what its form does not show comes from a query
\* before.  Whatever fails on the way, no page puts a record in the store that it has
\* blanked, or not received: read-modify-write over three separate calls (cgiMain).
Whole == \A r \in Records : {r.form, r.rest} \cap {"blank", "garbage"} = {}

\* sys_usr_set does not ask whether web_conn_recv got the user (web_net.c:270): the
\* table holds a user nobody asked for only if a body was lost on the way.  A slot
\* without a name holds none.
UserSets == {c \in Conns : call[c].st # "none" /\ call[c].req.cmd = "ITS_USER_SET"}
NamesOf(req) == {req.body[1][i].name : i \in DOMAIN req.body[1]}
AtFirst == UNION {{s.usr[i].name : i \in 1..MAX_USR_NUM} : s \in Scenarios}
Asked == AtFirst \cup (UNION {NamesOf(call[c].req) : c \in UserSets})
UsersAsked ==
    (\A c \in UserSets : call[c].whole = "yes")
        => \A i \in 1..MAX_USR_NUM : store.usr[i].name \in Asked \cup {NoName}

\* Every call, one connection each, is what RemoteCalls promises: carried out at most
\* once, wholly or not at all as far as its caller is told, and answered with what the
\* store held.  Leftover bodies (web_net.c:266), connections given up by one side, late
\* answers and a server that dies are all below this.
PerformCall(s, req) ==
    {[ext |-> o.ext, ret |-> o.ret, store |-> o.store, whole |-> "yes"] :
        o \in web_cmd_proc(s, req, req.body)}
      \cup {[ext |-> o.ext, ret |-> o.ret, store |-> o.store, whole |-> "no"] :
        o \in {l \in web_cmd_proc(s, req, <<>>) : req.body # <<>>}}

Promise == INSTANCE RemoteCalls WITH
    Calls <- Conns, Stores <- {Store(s) : s \in Scenarios},
    Perform <- PerformCall, Look <- Sent, Others <- Others
CallsKept == Promise!Spec

\* What keeps these so, in parts.  The store holds whole records and the user table's
\* members.
StoreOK(s) ==
    /\ DOMAIN s = {"com", "gpio", "lim", "mode", "net", "server", "sys", "usr", "vlan"}
    /\ IsWhole(s.sys) /\ IsWhole(s.net) /\ IsWhole(s.vlan) /\ IsWhole(s.server)
    /\ IsWhole(s.gpio)
    /\ DOMAIN s.com = Ports /\ DOMAIN s.mode = Ports
    /\ \A p \in Ports : IsWhole(s.com[p]) /\ IsWhole(s.mode[p])
    /\ UsersOK(s.usr)

\* A program makes its calls in this order, so it never runs out of them; it goes on
\* to set a record only with one that it has received, or that no server will see.
Before == [query |-> 0, net |-> 1, set |-> 2, requery |-> 3]
Talking(g) == g.cl \in {"body", "head", "data"}

ProgramOK(g) ==
    /\ DOMAIN g = {"alert", "at", "cl", "k", "name", "rec", "visit"}
    /\ VisitOK(g.visit)
    /\ g.k \in 0..MaxCalls
    /\ \/ g.at = "start" /\ g.cl = "none" /\ g.k = 0
       \/ g.at = "end" /\ g.cl = "none"
       \/ g.at = "dns" /\ g.cl = "dns" /\ g.k <= 2
       \/ g.at \in DOMAIN Before /\ g.cl = "connect" /\ g.k <= Before[g.at]
       \/ g.at \in DOMAIN Before /\ Talking(g) /\ g.k \in 1..(Before[g.at] + 1)
    /\ g.visit.page \in {"factory", "users"} => g.at \in {"start", "set", "end"}
    /\ g.visit.page \in {"com", "mode"} /\ g.at = "query" => g.rec.id \in Ports
    /\ g.visit.page \notin {"factory", "users"} /\ g.at \in {"net", "dns", "set"} =>
         IsWhole(g.rec) \/ srv.pc = "dead"

\* A call is begun by its program, carried out from its header, and answered from
\* what has become of it; a query's connection carries nothing but its header, and
\* stays open while its program waits.
ForRecord(req) ==
    \/ req.cmd \in {"ITS_SYSINFO_QUERY", "ITS_NETINFO_QUERY", "ITS_VLAN_QUERY",
                    "ITS_SERVER_QUERY", "ITS_GPIO_QUERY"}
    \/ req.cmd = "ITS_CONF_QUERY" /\ req.op \in {"CONF_COM", "CONF_MODE"} /\ req.port \in Ports

CallOK(c) ==
    LET r == call[c] IN
    /\ DOMAIN r = DOMAIN Call(<<>>) /\ r.ext \in {0, 1}
    /\ r.st = "none" => r = [Call(<<>>) EXCEPT !.st = "none"] /\ mine[c] = "none" /\ up[c] = {}
    /\ r.st # "none" => Packed(r.req)
    /\ "head" \in up[c] => r.taken = "no"
    /\ r.taken = "no" => head[c] = <<>> /\ r.data = <<>> /\ r.whole = "yes"
    /\ head[c] # <<>> => head[c] = <<[ext |-> r.ext, ret |-> r.ret]>> /\ r.whole = "yes"
                          /\ r.taken = "yes"
    /\ data[c] = r.data
    /\ r.data # <<>> => r.ext = 1 /\ (ForRecord(r.req) => IsWhole(r.data[1]))
    /\ r.ext = 1 => r.req.query = 1
    /\ r.st # "none" /\ r.req.query = 1 =>
         /\ up[c] \subseteq {"head"}
         /\ head[c] # <<>> /\ mine[c] = "open" /\ theirs[c] = "closed" => srv.pc = "dead"

TalkOK(p) ==
    /\ Talking(cgi[p]) =>
         LET c == Cur(p) IN
         /\ call[c].st = "open" /\ mine[c] = "open" /\ call[c].req = Request(cgi[p])
         /\ cgi[p].cl = "body" => call[c].req.body # <<>>
         /\ cgi[p].cl = "data" => call[c].req.query = 1 /\ head[c] # <<>>
    /\ \A j \in 1..MaxCalls : j > cgi[p].k => call[<<p, j>>].st = "none"

\* The server is busy with one connection, whose header it has read.
ServerOK ==
    LET c == srv.conn
        r == call[c] IN
    /\ DOMAIN srv = DOMAIN Idle /\ srv.pc \in {"idle", "body", "exec", "data", "rest", "dead"}
    /\ srv.pc \in {"body", "exec", "data", "rest"} => c \in Conns /\ r.st # "none" /\ "head" \notin up[c]
    /\ srv.pc \in {"body", "exec"} => r.taken = "no"
    /\ srv.pc = "idle" => srv.body = <<>>
    /\ srv.pc = "body" => TakesBody(store, r.req) /\ theirs[c] = "open" /\ srv.body = <<>>
    /\ srv.pc = "exec" =>
         \/ theirs[c] = "open" /\ srv.body = r.req.body
         \/ theirs[c] = "open" /\ srv.body = <<>> /\ ~TakesBody(store, r.req)
         \/ theirs[c] = "closed" /\ srv.body = <<>> /\ TakesBody(store, r.req)
    /\ srv.pc = "data" => r.taken = "yes" /\ r.ext = 1 /\ r.data = <<>>
    /\ srv.pc = "rest" => r.req.query = 0

Tables ==
    /\ DOMAIN cgi = Procs /\ DOMAIN up = Conns /\ DOMAIN mine = Conns /\ DOMAIN head = Conns
    /\ DOMAIN data = Conns /\ DOMAIN theirs = Conns /\ DOMAIN call = Conns

PagesInv ==
    /\ Tables
    /\ StoreOK(store)
    /\ \A p \in Procs : ProgramOK(cgi[p]) /\ TalkOK(p)
    /\ \A c \in Conns : CallOK(c)
    /\ ServerOK

\* The one thread that serves all pages always comes round: a request is carried out,
\* or its connection closed, whatever the other pages do (TIMEOUT_CNT, web_net.c:114).
\* Calls are few and a served one stays served, so one formula says it of all of them.
RequestServed ==
    []<>(\A c \in Conns : call[c].st = "none" \/ call[c].taken = "yes" \/ theirs[c] = "closed")
=============================================================================
