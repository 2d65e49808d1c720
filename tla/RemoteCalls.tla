----------------------------- MODULE RemoteCalls ------------------------------
(***************************************************************************)
(* What the configuration interface promises, whatever its connections do. *)
(* A caller begins a call.  Its command is carried out at most once, in    *)
(* one step, after it began.  What a query returns is what the store held  *)
(* at one moment between that step and its end.  A call that ends well has *)
(* been carried out; of one that failed nobody knows, and its command may  *)
(* still be carried out afterwards.  One of which only a part arrived is   *)
(* never reported as done.                                                 *)
(***************************************************************************)
EXTENDS Sequences

CONSTANTS
    Calls,           \* names for calls, each used once
    Stores,          \* what the store may be at first
    Perform(_, _),   \* what carrying out a request on a store may do: a set of
                     \* [store, ret, ext, whole], ext = 1 when data is sent as well,
                     \* whole = "no" when only a part of the request was there
    Look(_, _),      \* the data a query sends
    Others(_)        \* what the other users of the store may make of it

VARIABLES store, call

New(req) == [data |-> <<>>, ext |-> 0, req |-> req, res |-> <<>>, ret |-> "none",
             st |-> "open", taken |-> "no", whole |-> "yes"]
NoCall == [New(<<>>) EXCEPT !.st = "none"]

Init ==
    /\ store \in Stores
    /\ call = [c \in Calls |-> NoCall]

\* Any request at all: it is read off the next state.
Begin(c) ==
    /\ call[c] = NoCall
    /\ call' = [call EXCEPT ![c] = New(call'[c].req)]
    /\ UNCHANGED store

Take(c) ==
    /\ call[c].st # "none" /\ call[c].taken = "no"
    /\ \E o \in Perform(store, call[c].req) :
          /\ store' = o.store
          /\ call' = [call EXCEPT ![c].taken = "yes", ![c].ret = o.ret, ![c].ext = o.ext,
                        ![c].whole = o.whole]

Read(c) ==
    /\ call[c].taken = "yes" /\ call[c].ext = 1 /\ call[c].data = <<>>
    /\ call' = [call EXCEPT ![c].data = <<Look(store, call[c].req)>>]
    /\ UNCHANGED store

\* The caller gets the answer, and the data if the answer has announced them.
Succeed(c) ==
    /\ call[c].st = "open" /\ call[c].taken = "yes" /\ call[c].whole = "yes"
    /\ \/ call[c].ext = 0 \/ call[c].req.query = 0 \/ call[c].data # <<>>
    /\ call' = [call EXCEPT ![c].st = "ok", ![c].res = <<call[c].ret, call[c].data>>]
    /\ UNCHANGED store

Fail(c) ==
    /\ call[c].st = "open"
    /\ call' = [call EXCEPT ![c].st = "failed"]
    /\ UNCHANGED store

Write == store' \in Others(store) /\ UNCHANGED call

Next ==
    \/ \E c \in Calls : Begin(c) \/ Take(c) \/ Read(c) \/ Succeed(c) \/ Fail(c)
    \/ Write

vars == <<store, call>>
Spec == Init /\ [][Next]_vars
=============================================================================
