----------------------------- MODULE MCWebPages -------------------------------
EXTENDS WebPages

MCPorts == 1..2
MCProcs == 1..2

Root == <<"root">>
Free == [auth |-> "normal", name |-> NoName, psw |-> "none"]
MCUsers == <<[auth |-> "root", name |-> Root, psw |-> "x"],
             [auth |-> "normal", name |-> <<"o", "p">>, psw |-> "y"], Free>>

Open == [p \in MCPorts |-> [enable |-> 0, read |-> {}, modify |-> {}]]
\* Port 1 is root's: the second user may not even read it.
Limited == [Open EXCEPT ![1] = [enable |-> 1, read |-> {1}, modify |-> {1}]]

Visit(page, submit, form) ==
    [addr |-> "a", all |-> 0, ask |-> <<>>, form |-> form, page |-> page, port |-> 0,
     psw |-> "none", submit |-> submit, user |-> NoName]
Port(page, port, submit, form, all) ==
    [Visit(page, submit, form) EXCEPT !.port = port, !.all = all]
Login(user, psw) == [Visit("mainFrame", "no", "none") EXCEPT !.user = user, !.psw = psw]
Manage(ask) == [Visit("users", "good", "none") EXCEPT !.ask = ask]
New(name) == [auth |-> "normal", name |-> name, psw |-> "z"]

As(user, lim, v1, v2) ==
    [lim |-> lim, session |-> [a \in {"a"} |-> user], usr |-> MCUsers, visits |-> <<v1, v2>>,
     writes |-> 0]
ByRoot(v1, v2) == As(Root, Open, v1, v2)
Meanwhile(scenario) == [scenario EXCEPT !.writes = 1]

\* Two pages at a time: on the same record, on records of which one needs the other,
\* a login beside a page, users managed beside one another.
MCScenarios ==
    { Meanwhile(ByRoot(Port("com", 1, "good", "f1", 0), Port("com", 1, "good", "f2", 1))),
      ByRoot(Port("com", 2, "good", "f1", 0), Port("mode", 1, "good", "f2", 0)),
      ByRoot(Visit("host", "good", "f1"), Visit("host", "no", "none")),
      ByRoot(Visit("net", "good", "f1"), Visit("server", "name", "f2")),
      ByRoot(Visit("net", "bad", "f1"), Visit("vlan", "good", "f2")),
      ByRoot(Visit("gpio", "no", "none"), Visit("gpio_set", "good", "f2")),
      ByRoot(Visit("factory", "good", "none"), Visit("server", "good", "f2")),
      ByRoot(Manage(its_user_add(Root, New(<<"n">>))), Manage(its_user_query(Root))),
      ByRoot(Manage(its_user_modify(Root, New(<<"o", "p">>), New(<<"n">>))),
             Manage(its_user_del(Root, New(<<"o", "p">>)))),
      ByRoot(Manage(its_conf_lim_set(1, Limited[1])), Manage(its_conf_lim_query(Root, 1))),
      As(NoName, Open, Login(Root, "x"), Visit("host", "good", "f2")),
      As(<<"o", "p">>, Open, Login(Root, "x"), Login(<<"o", "p">>, "x")),
      As(<<"o", "p">>, Limited, Port("mode", 1, "good", "f1", 0), Manage(its_user_add(<<"o", "p">>, New(<<"n">>)))),
      As(Root, Limited, Port("com", 1, "good", "f1", 0), Port("mode", 1, "good", "f2", 0)) }
=============================================================================
