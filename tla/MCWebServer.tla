---------------------------- MODULE MCWebServer ----------------------------
(* WebServer with two slots; the listening descriptor lies between those that *)
(* accept may return.                                                         *)
EXTENDS WebServer

MCFds == {2, 4, 5}
=============================================================================
