--------------------------------- MODULE Boa ----------------------------------
(***************************************************************************)
(* The event loop of the Boa web server (select.c, request.c, queue.c and  *)
(* signals.c): one process that accepts connections, keeps every request   *)
(* in the ready or in the blocked list, runs one handler of BoaHttp per    *)
(* ready request and round, and sleeps in select.  Beside it are the       *)
(* clients, the CGI programs, the clock and the signals.                   *)
(*                                                                         *)
(* A request is named by its socket's number.  req, net and src give every *)
(* number a value; the one of a number not in use is the default.          *)
(***************************************************************************)
EXTENDS BoaHttp

CONSTANTS
    max_connections,
    Scenarios,        \* the connections that are made: sequences of scripts, and a
                      \* script is the sequence of the pieces a client sends
    Faults,           \* the failing system calls of this instance
    MaxFaults         \* bound: failing calls, crashes, departures and signals

\* What a client can send ("none" is a string, but the provers do not know it).
Token == [n : Int, t : STRING \cup {"none"}]

ASSUME ScenariosAssumption == Scenarios \subseteq Seq(Seq(Seq(Token)))

VARIABLES
    stage,               \* where select_loop is
    todo,                \* the ready requests still to be run in this round
    ret,                 \* retval of the request that has just been run
    ready, block,        \* request_ready and request_block, by socket
    req, net, open, src, mm, used,
    bits,                \* block_read_fdset and block_write_fdset
    max_fd, pending_requests, total_connections, sigterm_flag, sighup_flag,
    backlog,             \* the connections that await accept
    arrivals,            \* the connections still to be made
    faults

server == <<stage, todo, ret, max_fd, pending_requests, total_connections>>
counters == <<arrivals, faults>>
data == <<req, net, open, src, mm, used>>
vars == <<server, ready, block, data, bits, sigterm_flag, sighup_flag, backlog, counters>>

NoReq == NewRequest(0, <<>>)
NoNet == [inq |-> <<>>, more |-> <<>>, peer |-> "open", room |-> SndBuf]

Init ==
    /\ stage = "signals" /\ todo = <<>> /\ ret = 1
    /\ ready = <<>> /\ block = <<>>
    /\ req = [f \in Fds |-> NoReq] /\ net = [f \in Fds |-> NoNet]
    /\ open = [f \in AllFds |-> IF f = server_s THEN "listen" ELSE "free"]
    /\ src = [f \in AllFds |-> NoSrc]
    /\ mm = [i \in 0..(MMAP_LIST_SIZE - 1) |-> [count |-> 0, file |-> 0]] /\ used = 0
    /\ bits = {} /\ max_fd = -1 /\ pending_requests = 0 /\ total_connections = 0
    /\ sigterm_flag = 0 /\ sighup_flag = 0
    /\ backlog = <<>>
    /\ arrivals \in Scenarios /\ faults = 0

-----------------------------------------------------------------------------
(* queue.c *)

dequeue(list, f) == RemoveAt(list, CHOOSE i \in DOMAIN list : list[i] = f)

\* Mutant: a request that reads a pipe or saves a body waits for its socket.
Awaits_Socket(f, r) ==
    CASE r.buf # <<>> \/ r.status \in {"WRITE", "PIPE_WRITE", "DONE", "BODY_WRITE"} -> <<"w", f>>
      [] OTHER -> <<"r", f>>

\* The descriptor, and the set, for which a request is put to sleep.
Awaits(f, r) ==
    CASE r.buf # <<>> \/ r.status \in {"WRITE", "PIPE_WRITE", "DONE"} -> <<"w", f>>
      [] r.buf = <<>> /\ r.status = "PIPE_READ"  -> <<"r", r.data_fd>>
      [] r.buf = <<>> /\ r.status = "BODY_WRITE" -> <<"w", r.post_data_fd>>
      [] OTHER -> <<"r", f>>

block_request(f, r) ==
    /\ ready' = dequeue(ready, f)
    /\ block' = <<f>> \o block
    /\ bits' = bits \cup {Awaits(f, r)}
    /\ max_fd' = IF Awaits(f, r)[2] > max_fd THEN Awaits(f, r)[2] ELSE max_fd

-----------------------------------------------------------------------------
(* select.c *)

\* The top of the loop: SIGHUP, SIGTERM and, when nothing is left, the end.
Signals ==
    /\ stage = "signals"
    /\ sighup_flag' = 0
    /\ sigterm_flag' = IF sigterm_flag = 1 THEN 2 ELSE sigterm_flag
    /\ bits' = (IF sighup_flag = 1 THEN {} ELSE bits) \
               (IF sigterm_flag = 1 THEN {<<"r", server_s>>} ELSE {})
    /\ open' = IF sigterm_flag = 1 THEN [open EXCEPT ![server_s] = "free"] ELSE open
    /\ max_fd' = -1
    /\ stage' = IF sigterm_flag # 0 /\ ready = <<>> /\ block = <<>> THEN "exited"
                ELSE IF block # <<>> THEN "update" ELSE "first"
    /\ UNCHANGED <<todo, ret, pending_requests, total_connections, ready, block,
                   req, net, src, mm, used, backlog, counters>>

\* Mutant: only a connection kept alive is given up.
TimedOut_Ka(r) == r.kacount < ka_max /\ r.age >= 1 /\ r.logline = "no"

\* A connection kept alive with nothing read on it is given up sooner.
TimedOut(r) == (r.kacount < ka_max /\ r.age >= 1 /\ r.logline = "no") \/ r.age = 2

\* fdset_update for one blocked request; q has the lists, the sets and req.
Wake(q, f) ==
    LET r == [q.req[f] EXCEPT !.status = IF TimedOut(q.req[f]) THEN "DEAD" ELSE @]
        a == Awaits(f, r) IN
    IF r.status = "DEAD" \/ a \in q.bits
    THEN [q EXCEPT !.req[f] = r, !.bits = @ \ {a},
                   !.block = dequeue(@, f), !.ready = <<f>> \o @]
    ELSE [q EXCEPT !.bits = @ \cup {a}, !.max_fd = IF a[2] > @ THEN a[2] ELSE @]

\* The blocked requests, one after the other.
Woken(q0, list) ==
    LET q[k \in 0..Len(list)] == IF k = 0 THEN q0 ELSE Wake(q[k - 1], list[k])
    IN q[Len(list)]

fdset_update ==
    /\ stage = "update"
    /\ LET q0 == [bits |-> bits, block |-> block, max_fd |-> max_fd,
                  ready |-> ready, req |-> req]
           q == Woken(q0, block) IN
       /\ bits' = q.bits /\ block' = q.block /\ max_fd' = q.max_fd
       /\ ready' = q.ready /\ req' = q.req
    /\ stage' = "first"
    /\ UNCHANGED <<todo, ret, pending_requests, total_connections, net, open, src, mm, used,
                   sigterm_flag, sighup_flag, backlog, counters>>

\* The listening socket joins the set while there is room for connections.
Poll ==
    /\ stage = "poll"
    /\ LET join == sigterm_flag = 0 /\ total_connections < max_connections - 10 IN
       /\ bits' = IF join THEN bits \cup {<<"r", server_s>>} ELSE bits
       /\ max_fd' = IF join /\ server_s > max_fd THEN server_s ELSE max_fd
    /\ stage' = "select"
    /\ UNCHANGED <<todo, ret, pending_requests, total_connections, ready, block, data,
                   sigterm_flag, sighup_flag, backlog, counters>>

\* What the kernel answers for a bit.
CanRead(f) ==
    CASE open[f] = "listen" -> backlog # <<>>
      [] open[f] = "socket" -> net[f].inq # <<>> \/ net[f].peer # "open"
      [] open[f] = "pipe"   -> src[f].pipe # <<>> \/ src[f].alive # "yes"
      [] OTHER -> TRUE
CanWrite(f) == open[f] = "socket" => net[f].room > 0 \/ net[f].peer = "reset"
Available(b) == IF b[1] = "r" THEN CanRead(b[2]) ELSE CanWrite(b[2])

\* Some descriptor below max_fd + 1 is not open: select fails with EBADF and
\* leaves the sets as they are.
BadBit == \E b \in bits : b[2] <= max_fd /\ open[b[2]] = "free"

\* select and what follows it.  Without ready or blocked requests there is no
\* timeout, with ready ones it is 0.
Select ==
    /\ stage = "select"
    /\ \/ BadBit /\ bits' = bits
       \/ /\ ~BadBit
          /\ bits' = IF max_fd = -1 THEN bits ELSE {b \in bits : Available(b)}
          /\ ready # <<>> \/ block # <<>> \/ (max_fd # -1 /\ bits' # {})
    /\ pending_requests' = IF <<"r", server_s>> \in bits' THEN 1 ELSE pending_requests
    /\ stage' = "signals"
    /\ UNCHANGED <<todo, ret, max_fd, total_connections, ready, block, data,
                   sigterm_flag, sighup_flag, backlog, counters>>

-----------------------------------------------------------------------------
(* request.c *)

\* A connection is taken, first in the ready list.  One whose descriptor is
\* above max_connections is told that the service is unavailable.  Without a free
\* descriptor it waits.
get_request ==
    \/ /\ open[server_s] = "listen" /\ backlog # <<>> /\ Free(open) # {}
       /\ LET fd == LowestFree(open)
              conn == NewRequest(ka_max, <<>>)
              nw == [NoNet EXCEPT !.more = Head(backlog)]
              w == send_r([r |-> conn, n |-> nw, ret |-> 0], 503)
              tooMany == fd > max_connections IN
          /\ req' = [req EXCEPT ![fd] = IF tooMany THEN [w.r EXCEPT !.status = "DONE"] ELSE conn]
          /\ net' = [net EXCEPT ![fd] = IF tooMany THEN w.n ELSE nw]
          /\ open' = [open EXCEPT ![fd] = "socket"]
          /\ pending_requests' = IF tooMany THEN 0 ELSE pending_requests
          /\ ready' = <<fd>> \o ready
       /\ backlog' = Tail(backlog)
       /\ total_connections' = total_connections + 1
    \/ /\ open[server_s] = "listen" /\ backlog = <<>>
       /\ pending_requests' = 0
       /\ UNCHANGED <<req, net, open, ready, backlog, total_connections>>
    \/ /\ open[server_s] # "listen" \/ (backlog # <<>> /\ Free(open) = {})
       /\ UNCHANGED <<req, net, open, ready, backlog, total_connections, pending_requests>>

Round == IF todo' = <<>> THEN "poll" ELSE "handle"

\* process_requests up to its loop.
First ==
    /\ stage = "first"
    /\ \/ pending_requests = 1 /\ get_request
       \/ /\ pending_requests = 0
          /\ UNCHANGED <<req, net, open, ready, backlog, total_connections, pending_requests>>
    /\ todo' = ready'
    /\ stage' = Round
    /\ UNCHANGED <<ret, max_fd, block, src, mm, used, bits, sigterm_flag, sighup_flag, counters>>

\* What the body of the loop does with the result of a handler.
Handled(f, w) ==
    /\ req' = [req EXCEPT ![f] = IF sigterm_flag # 0 THEN SQUASH_KA(w.r) ELSE w.r]
    /\ net' = [net EXCEPT ![f] = w.n]
    /\ open' = w.open /\ src' = w.src /\ mm' = w.mm /\ used' = w.used
    /\ ret' = w.ret
    /\ stage' = IF pending_requests = 1 THEN "accept" ELSE "dispose"
    /\ UNCHANGED <<todo, max_fd, pending_requests, total_connections, ready, block, bits,
                   sigterm_flag, sighup_flag, backlog, arrivals>>

Work(f) == [mm |-> mm, n |-> net[f], open |-> open, r |-> req[f], ret |-> 1, src |-> src,
            used |-> used]

\* The request at hand has one of these statuses; its buffer is flushed first.
Running(statuses) ==
    /\ stage = "handle"
    /\ req[Head(todo)].status \in statuses
    /\ req[Head(todo)].buf # <<>> => statuses \subseteq {"DONE", "DEAD"}

Run(w) == (\E v \in {w} : Handled(Head(todo), v)) /\ UNCHANGED faults

\* One of the system calls that a handler makes fails, or none.
RunWith(H(_), Kinds) ==
    \E fault \in {"none"} \cup (Faults \cap Kinds) :
        /\ fault # "none" => faults < MaxFaults
        /\ faults' = IF fault = "none" THEN faults ELSE faults + 1
        /\ \E w \in {H(fault)} : Handled(Head(todo), w)

ReadHeader ==
    /\ Running(Headers)
    /\ LET f == Head(todo)
           H(fault) == read_header(Work(f), fault) IN
       RunWith(H, {"temp", "pipe", "fork", "mmap", "bus"})

ReadBody == Running({"BODY_READ"}) /\ Run(read_body(Work(Head(todo))))

WriteBody ==
    /\ Running({"BODY_WRITE"})
    /\ LET f == Head(todo)
           H(fault) == write_body(Work(f), fault) IN
       RunWith(H, {"disk", "pipe", "fork"})

ProcessGet ==
    /\ Running({"WRITE"})
    /\ LET f == Head(todo)
           H(fault) == process_get(Work(f), fault) IN
       RunWith(H, {"bus"})

ReadFromPipe == Running({"PIPE_READ"}) /\ Run(read_from_pipe(Work(Head(todo))))
WriteFromPipe == Running({"PIPE_WRITE"}) /\ Run(write_from_pipe(Work(Head(todo))))

\* What a handler has buffered goes out before the next one runs.
Flush ==
    /\ stage = "handle"
    /\ req[Head(todo)].buf # <<>> /\ req[Head(todo)].status \notin {"DONE", "DEAD"}
    /\ LET w == req_flush(Work(Head(todo))) IN
       Run(IF w.ret = -2 THEN [w EXCEPT !.r.status = "DEAD", !.ret = 0]
           ELSE IF w.ret >= 0 THEN [w EXCEPT !.ret = 1] ELSE w)

Done ==
    /\ Running({"DONE"})
    /\ LET w == req_flush(Work(Head(todo))) IN
       Run(IF w.ret = -2 THEN [w EXCEPT !.r.status = "DEAD", !.ret = 0]
           ELSE IF w.ret > 0 THEN [w EXCEPT !.ret = 1] ELSE w)

Dead ==
    /\ Running({"DEAD"})
    /\ Run([Work(Head(todo)) EXCEPT !.r = [SQUASH_KA(@) EXCEPT !.buf = <<>>, !.start = 0],
                                    !.ret = 0])

\* Between a handler and its disposal more connections are taken.
Accept ==
    /\ stage = "accept"
    /\ get_request
    /\ stage' = "dispose"
    /\ UNCHANGED <<todo, ret, max_fd, block, src, mm, used, bits, sigterm_flag, sighup_flag,
                   counters>>

\* free_request closes what the request holds; on a connection kept alive the
\* next request starts with what is left of the stream.
Kept(r) == r.keepalive = "active" /\ r.response_status < 500 /\ r.kacount > 0

\* Mutant: what the client has sent ahead is lost.
NextOn_Empty(r) == NewRequest(r.kacount - 1, <<>>)

NextOn(r) == NewRequest(r.kacount - 1, Drop(r.stream, r.parse_pos))

\* Mutant: the temporary file of a POST that fails stays open.
Released_Data(f) == {req[f].data_fd} \ {-1}

Released(f) == {req[f].data_fd, req[f].post_data_fd} \ {-1}

free_request(f) ==
    LET r == req[f]
        w == release_mmap(Work(f))
        gone == IF Kept(r) THEN Released(f) ELSE {f} \cup Released(f) IN
    /\ mm' = w.mm /\ used' = w.used
    /\ open' = [g \in AllFds |-> IF g \in gone THEN "free" ELSE open[g]]
    /\ src' = [g \in AllFds |-> IF g \in gone THEN NoSrc ELSE src[g]]
    /\ ready' = dequeue(ready, f)
    /\ \/ /\ Kept(r)
          /\ req' = [req EXCEPT ![f] = NextOn(r)]
          /\ block' = <<f>> \o block
          /\ bits' = bits \cup {<<"r", f>>}
          /\ max_fd' = IF f > max_fd THEN f ELSE max_fd
          /\ UNCHANGED <<net, total_connections>>
       \/ /\ ~Kept(r)
          /\ req' = [req EXCEPT ![f] = NoReq]
          /\ net' = [net EXCEPT ![f] = NoNet]
          /\ total_connections' = total_connections - 1
          /\ UNCHANGED <<block, bits, max_fd>>

\* What is done with a request that has been run.
Dispose ==
    /\ stage = "dispose"
    /\ LET f == Head(todo) IN
       \/ /\ ret = -1
          /\ block_request(f, req[f])
          /\ UNCHANGED <<data, total_connections>>
       \/ /\ ret = 0 /\ req[f].buf # <<>> /\ req[f].status # "DEAD"
          /\ req' = [req EXCEPT ![f].status = "DONE", ![f].age = 0]
          /\ UNCHANGED <<net, open, src, mm, used, ready, block, bits, max_fd, total_connections>>
       \/ /\ ret = 0 /\ (req[f].buf = <<>> \/ req[f].status = "DEAD")
          /\ free_request(f)
       \/ /\ ret > 0
          /\ req' = [req EXCEPT ![f].age = 0]
          /\ UNCHANGED <<net, open, src, mm, used, ready, block, bits, max_fd, total_connections>>
    /\ todo' = Tail(todo)
    /\ ret' = 1
    /\ stage' = Round
    /\ UNCHANGED <<pending_requests, sigterm_flag, sighup_flag, backlog, counters>>

-----------------------------------------------------------------------------
(* The world.  What a handler sees of its socket or pipe does not change   *)
(* what another one sees, so it changes only while the server is in select. *)

Live == {f \in Fds : open[f] = "socket"}

NetStep(f, n) ==
    /\ stage = "select"
    /\ net' = [net EXCEPT ![f] = n]
    /\ UNCHANGED <<server, ready, block, req, open, src, mm, used, bits, sigterm_flag,
                   sighup_flag, backlog, arrivals>>

\* A client connects, sends the next piece, reads all there is, has no more to
\* send, or goes away.
Connect ==
    /\ stage = "select" /\ arrivals # <<>> /\ open[server_s] = "listen"
    /\ backlog' = Append(backlog, Head(arrivals))
    /\ arrivals' = Tail(arrivals)
    /\ UNCHANGED <<server, ready, block, data, bits, sigterm_flag, sighup_flag, faults>>

Send(f) ==
    /\ net[f].more # <<>> /\ net[f].peer = "open"
    /\ NetStep(f, [net[f] EXCEPT !.inq = @ \o Head(net[f].more), !.more = Tail(@)])
    /\ UNCHANGED faults

Receive(f) ==
    /\ net[f].room < SndBuf /\ net[f].peer # "reset"
    /\ NetStep(f, [net[f] EXCEPT !.room = SndBuf])
    /\ UNCHANGED faults

Leave(f) ==
    /\ net[f].peer = "open" /\ faults < MaxFaults
    /\ \E how \in {"fin", "reset"} : NetStep(f, [net[f] EXCEPT !.peer = how, !.more = <<>>])
    /\ faults' = faults + 1

\* A CGI program, or the reader of a document, writes the next token, ends or
\* crashes.
Produce(f) ==
    /\ stage = "select" /\ open[f] = "pipe" /\ src[f].alive = "yes"
    /\ \/ /\ src[f].left # <<>>
          /\ src' = [src EXCEPT ![f].pipe = Append(@, Head(src[f].left)), ![f].left = Tail(@)]
          /\ UNCHANGED faults
       \/ /\ src[f].left = <<>>
          /\ src' = [src EXCEPT ![f].alive = "no"]
          /\ UNCHANGED faults
       \/ /\ src[f].left # <<>> /\ faults < MaxFaults /\ "crash" \in Faults
          /\ src' = [src EXCEPT ![f].alive = "no"]
          /\ faults' = faults + 1
    /\ UNCHANGED <<server, ready, block, req, net, open, mm, used, bits, sigterm_flag,
                   sighup_flag, backlog, arrivals>>

\* ka_timeout passes for a blocked request, then REQUEST_TIMEOUT.
Age(f) ==
    /\ stage = "select" /\ f \in ToSet(block) /\ req[f].age < 2
    /\ req' = [req EXCEPT ![f].age = @ + 1]
    /\ UNCHANGED <<server, ready, block, net, open, src, mm, used, bits, sigterm_flag,
                   sighup_flag, backlog, counters>>

\* A signal sets its flag (SIGTERM once); one that comes while the server sleeps in select
\* makes it return EINTR, with the sets untouched.
Signal ==
    /\ stage \in {"handle", "select"}
    /\ faults < MaxFaults /\ faults' = faults + 1
    /\ \/ sigterm_flag = 0 /\ sigterm_flag' = 1 /\ UNCHANGED sighup_flag
       \/ sighup_flag' = 1 /\ UNCHANGED sigterm_flag
    /\ \/ stage = "select" /\ stage' = "signals"
       \/ stage' = stage
    /\ UNCHANGED <<todo, ret, max_fd, pending_requests, total_connections, ready, block, data,
                   bits, backlog, arrivals>>

Server ==
    \/ Signals \/ fdset_update \/ First \/ Poll \/ Select \/ Accept \/ Dispose
    \/ ReadHeader \/ ReadBody \/ WriteBody \/ ProcessGet \/ ReadFromPipe \/ WriteFromPipe
    \/ Flush \/ Done \/ Dead

World ==
    \/ Connect
    \/ \E f \in Live : Send(f) \/ Receive(f) \/ Leave(f)
    \/ \E f \in AllFds : Produce(f)
    \/ Signal

Next == Server \/ World \/ (\E f \in Fds : Age(f))

Spec == Init /\ [][Next]_vars

\* The process is never suspended for ever: it gets back to select, and select
\* returns once something is ready or its timeout is over.  Time passes.  Clients
\* and CGI programs may stop for ever.
FairSpec ==
    /\ Spec
    /\ []<>(stage \in {"select", "exited"})
    /\ WF_vars(Select)
    /\ SF_vars(\E f \in Fds : Age(f))

-----------------------------------------------------------------------------
(* Properties *)

Requests == ToSet(ready) \cup ToSet(block)

HeldBy(r) == {r.data_fd, r.post_data_fd} \ {-1}

\* The lists hold every request once, and a request is an open socket and
\* counted in total_connections; every other open descriptor is the pipe, the
\* document or the temporary file of one request: whatever fails or times out,
\* free_request leaves nothing open and closes nothing twice (but for the file that is
\* "lost" at once, see StartPost).  An entry of the mmap
\* cache counts the requests that use its mapping, and the number of entries in use
\* is what the limit is compared with.
Accounted ==
    /\ Len(ready) + Len(block) = Cardinality(Requests)
    /\ total_connections = Cardinality(Requests)
    /\ {f \in AllFds : open[f] = "socket"} = Requests
    /\ {f \in AllFds : open[f] \in {"pipe", "file", "temp"}} = UNION {HeldBy(req[f]) : f \in Requests}
    /\ \A f, g \in Requests : f # g => HeldBy(req[f]) \cap HeldBy(req[g]) = {}
    /\ \A i \in DOMAIN mm :
          mm[i].count = Cardinality({f \in Requests : req[f].mmap = i})
    /\ used = Cardinality({i \in DOMAIN mm : mm[i].count > 0})

\* What keeps it so, in parts.  Descriptors and lists; the listening socket is closed
\* once, and its number may be used again.
Early == Headers \cup {"BODY_READ", "BODY_WRITE"}
Pipes == {"PIPE_READ", "PIPE_WRITE"}
Indices == 0..(MMAP_LIST_SIZE - 1)

\* The fields of a request that these facts are about.
HasFields(r) ==
    {"data_fd", "post_data_fd", "mmap", "method", "status", "uri", "stream", "parse_pos",
     "line", "clen", "filesize", "filepos", "data", "buf", "temp", "keepalive"} \subseteq DOMAIN r

TablesOK ==
    /\ open \in [AllFds -> {"listen", "free", "socket", "pipe", "file", "temp", "lost"}]
    /\ \A f \in Fds : open[f] # "listen"
    /\ open[server_s] # "socket"
    /\ sigterm_flag \in {0, 1} => open[server_s] = "listen"
    /\ DOMAIN req = Fds /\ (\A f \in Fds : HasFields(req[f]))
    /\ DOMAIN mm = Indices /\ (\A i \in Indices : DOMAIN mm[i] = {"count", "file"})

ListsOK ==
    /\ ready \in Seq(Fds) /\ block \in Seq(Fds) /\ todo \in Seq(Fds)
    /\ IsInjective(ready) /\ IsInjective(block) /\ IsInjective(todo)
    /\ ToSet(ready) \cap ToSet(block) = {}
    /\ ToSet(todo) \subseteq ToSet(ready)
    /\ stage \in {"handle", "accept", "dispose"} => todo # <<>>

\* A request holds its document or pipe in data_fd and its temporary file in
\* post_data_fd; as long as it is being read it has neither document nor mapping, and
\* while it is copied from a pipe it has one.
RequestOK(r, fds) ==
    /\ r.data_fd # -1 => r.data_fd \in AllFds /\ fds[r.data_fd] \in {"pipe", "file"}
    /\ r.post_data_fd # -1 => r.post_data_fd \in AllFds /\ fds[r.post_data_fd] = "temp"
    /\ r.mmap \in Indices \cup {-1}
    /\ r.status \in Early => r.data_fd = -1 /\ r.mmap = -1
    /\ r.status \in Pipes => r.data_fd # -1

\* What is read, parsed and saved is made of tokens.
RequestTyped(r) ==
    /\ r.stream \in Seq(Token) /\ r.parse_pos \in Nat /\ r.line \in Token /\ r.clen \in Int
    /\ r.status \in Early =>
          /\ r.filesize \in Int /\ r.filepos \in Int /\ r.filepos <= r.filesize
          /\ r.data \in Seq(Token)
NetTyped(n) ==
    DOMAIN n = DOMAIN NoNet /\ n.inq \in Seq(Token) /\ n.more \in Seq(Seq(Token))

InputsOK ==
    /\ backlog \in Seq(Seq(Seq(Token))) /\ arrivals \in Seq(Seq(Seq(Token)))
    /\ DOMAIN net = Fds /\ \A f \in Fds : NetTyped(net[f]) /\ RequestTyped(req[f])

BoaInv ==
    /\ TablesOK /\ ListsOK /\ InputsOK
    /\ \A f \in Requests : RequestOK(req[f], open)
    /\ Accounted

\* From the top of the loop's second half on, select is asked about what each sleeping
\* request waits for: the two sets and max_fd are shared, the bit of one request is
\* cleared when it wakes, SIGHUP empties the sets, and descriptors are used again.
SleepersWatched ==
    stage \in {"first", "handle", "accept", "dispose", "poll", "select"} =>
        \A f \in ToSet(block) : Awaits(f, req[f]) \in bits /\ Awaits(f, req[f])[2] <= max_fd

\* No handler returns -1 with a body yet to be saved: regular files are always ready.
Sleepy(r) == r.status = "BODY_WRITE" => r.buf # <<>>

WatchInv ==
    /\ max_fd \in Int
    /\ \A f \in ToSet(block) : Sleepy(req[f])
    /\ stage \in {"accept", "dispose"} /\ ret = -1 => Sleepy(req[Head(todo)])
    /\ SleepersWatched

\* Sizes and positions are integers, buffers are sequences.
Listed(s) == s \in Seq(ToSet(s))
SizedRequest(r) ==
    /\ {"buf", "cgi_status", "clen", "data", "data_fd", "filepos", "filesize", "got", "line", "off",
        "parse_pos", "start", "status", "stream"} \subseteq DOMAIN r
    /\ Listed(r.stream) /\ Listed(r.buf) /\ Listed(r.data)
    /\ r.parse_pos \in Int /\ r.start \in Int /\ r.off \in Int
    /\ r.filesize \in Int /\ r.filepos \in Int /\ r.clen \in Int /\ r.line.n \in Int
SizedNet(n) == {"inq", "room"} \subseteq DOMAIN n /\ Listed(n.inq) /\ n.room \in Nat
SizedSources(s) == DOMAIN s = AllFds /\ \A f \in AllFds : "pipe" \in DOMAIN s[f] /\ Listed(s[f].pipe)

\* What a handler leaves behind that returns -1: something to write, or a wish to read
\* and the space for it.
Stalled(r) ==
    \/ (r.buf # <<>> \/ r.status = "DONE") /\ r.start < Len(r.buf) /\ r.status # "DEAD"
    \/ /\ r.buf = <<>>
       /\ \/ r.status \in Headers /\ (r.parse_pos >= Len(r.stream) => Len(r.stream) < CLIENT_STREAM_SIZE)
          \/ r.status = "BODY_READ" /\ r.filepos # r.filesize /\ Len(r.data) # BUFFER_SIZE
          \/ r.status = "WRITE" /\ r.filepos < r.filesize
          \/ r.status = "PIPE_READ" /\ BUFFER_SIZE - (r.off + Len(r.data)) # 0
          \/ r.status = "PIPE_WRITE" /\ r.data # <<>>

IdleInv ==
    /\ \A f \in Fds : SizedRequest(req[f]) /\ SizedNet(net[f])
    /\ SizedSources(src)
    /\ \A f \in ToSet(block) : Stalled(req[f])
    /\ stage \in {"accept", "dispose"} /\ ret = -1 => Stalled(req[Head(todo)])

\* What the handler of a blocked request would do now.
Pending(f) ==
    LET w == Work(f) IN
    CASE req[f].buf # <<>> \/ req[f].status = "DONE" -> req_flush(w)
      [] req[f].buf = <<>> /\ req[f].status \in Headers -> read_header(w, "none")
      [] req[f].buf = <<>> /\ req[f].status = "BODY_READ" -> read_body(w)
      [] req[f].buf = <<>> /\ req[f].status = "WRITE" -> process_get(w, "none")
      [] req[f].buf = <<>> /\ req[f].status = "PIPE_READ" -> read_from_pipe(w)
      [] req[f].buf = <<>> /\ req[f].status = "PIPE_WRITE" -> write_from_pipe(w)
      [] OTHER -> w

\* What free_request has put to sleep on a connection kept alive with headers of the
\* next request in its stream, sent ahead and not yet looked at.
SentAhead(r) == r.buf = <<>> /\ r.status \in Headers /\ r.parse_pos < Len(r.stream)

\* The server does not sleep while a blocked request could go on, be it with its
\* headers, its body, its answer or its pipe: select is asked for what its handler
\* waits for, across the two fd_sets, max_fd, EINTR and SIGHUP.  (A request sent ahead
\* is the only exception: it is in the stream, and select is asked about the socket.)
SleepsOnlyIdle ==
    stage = "select" =>
        \A f \in ToSet(block) :
            Pending(f).ret # -1 /\ ~SentAhead(req[f])
                => \E b \in bits : Available(b) /\ b[2] <= max_fd

\* A CGI program that is started for a POST finds the whole body on its standard
\* input, in order, however the client and the handlers have cut it.
PostWhole ==
    \A f \in AllFds :
        src[f].clen > 0 => src[f].stdin = [k \in 1..src[f].clen |-> Tok("body", k)]

\* What has been written for a request, and what is buffered; what is yet to be
\* written from a pipe is part of the answer too.
Said(r) == r.got \o Drop(r.buf, r.start)
AnswerOf(r) ==
    Said(r) \o
    (IF r.status \in Pipes /\ r.cgi_status # "PARSE" /\ r.response_status < 400
     THEN r.data ELSE <<>>)

\* A status line and headers, and then the document from its first token on; a page
\* of Boa's own is never in front of a document.
Shaped(a, k) ==
    /\ k \in 0..Len(a)
    /\ \A i \in 1..k : a[i].t # "data"
    /\ \A i \in (k + 1)..Len(a) : a[i] = Tok("data", i - k)
    /\ k < Len(a) => \A i \in 1..k : a[i].t # "page"
OneStatus(a) == \A i \in 2..Len(a) : a[i].t \notin {"keep", "close"}

\* What a program writes is a header of its own and then its document, by the place of
\* each token.
ASSUME SiteAssumption ==
    \A u \in DOMAIN Site :
        LET out == Site[u].out IN
        /\ Len(out) \in Nat /\ out \in Seq(ToSet(out))
        /\ \E k \in 0..Len(out) : Shaped(out, k)
        /\ \A i \in 1..Len(out) : out[i].t \notin {"page", "keep", "close"}

\* The process that unpacks a document or lists a directory could not be forked: its
\* header is out, and a second one follows.
Forkless(r) == r.response_status = 500 /\ Site[r.uri].kind \in {"gz", "dir"}

\* An answer has at most one status line, in front, and then either a page of
\* Boa's own or the document from its start, nothing twice and nothing left out:
\* across partial writes, the buffer used from both ends, and errors after the
\* header has been made.
InOrder ==
    \A f \in Requests :
        LET a == AnswerOf(req[f]) IN
        /\ \E k \in 0..Len(a) : Shaped(a, k)
        /\ OneStatus(a) \/ Forkless(req[f])

\* What the client has sent and no request has consumed.
Rest(f) == Drop(req[f].stream, req[f].parse_pos) \o net[f].inq \o FlattenSeq(net[f].more)

\* A request on a connection that may be kept is given up without a word: at a header
\* line without a colon, or one too many for the environment; when its client has gone;
\* when its body's temporary file cannot be made.
Dropped(r, n) ==
    \/ r.status = "ONE_LF"
    \/ r.status \in Headers /\ n.peer # "open"
    \/ n.peer = "reset"
    \/ r.status = "BODY_READ" /\ r.method = "POST" /\ r.post_data_fd = -1

\* On a connection that carries several requests the next one is read when the answer
\* to the last is complete, with its header and every token of its document, or when the
\* last was given up without any answer for one of the reasons in Dropped, and for no
\* other; and none loses, or reads again, what the client has sent: free_request moves
\* the stream to the next request.  (So what is left of a dropped request is read as the
\* next one.  After a document that was cut short, too, free_request keeps the
\* connection, although get.c means to close it: such a request, DEAD, is excepted.)
ReuseAtBoundary ==
    [][\A f \in Fds :
         req[f].logline = "yes" /\ req'[f].logline = "no" /\ open'[f] = "socket"
           /\ req[f].status # "DEAD" =>
             /\ Rest(f)' = Rest(f)
             /\ LET a == req[f].got IN
                \/ a = <<>> /\ Dropped(req[f], net[f])
                \/ Len(a) = 1 + (IF req[f].method = "HEAD" THEN 0 ELSE req[f].filesize)]_vars

\* How many tokens of a document there are.
DataIn(s) == {i \in 1..Len(s) : s[i].t = "data"}
DataCount(s) == Cardinality(DataIn(s))

\* How much of its document, or of what its CGI program has written, a request
\* is to send.
Expected(f) ==
    LET fd == req[f].data_fd IN
    IF fd # -1 /\ open[fd] = "pipe"
    THEN DataCount(Site[req[f].uri].out) - DataCount(src[fd].left) ELSE req[f].filesize

\* A connection that is closed after an answer of 200 has got all of it, if no
\* write has failed: the end of the output, the buffer that is still full and the
\* socket that takes a part of it come in any order.  (An empty 200 after a pipe that
\* could not be made counts as whole: init_cgi then ends the request without an answer.)
WholeAnswer ==
    [][\A f \in Fds :
         open[f] = "socket" /\ open'[f] = "free" /\ req[f].response_status = 200
           /\ req[f].status # "DEAD" /\ net[f].peer # "reset" /\ req[f].method # "HEAD" =>
             DataCount(req[f].got) = Expected(f)]_vars

\* What keeps the answers so.  The fields of a request that these facts are about, and
\* the descriptors: fds and s are open and src, n is the request's socket.
Fields ==
    {"buf", "cgi_status", "data", "data_fd", "filepos", "filesize", "got", "is_cgi", "keepalive",
     "logline", "method", "off", "post_data_fd", "response_status", "simple", "start", "status", "uri"}
Spoken(r) ==
    /\ Fields \subseteq DOMAIN r
    /\ Listed(r.got) /\ Listed(r.buf) /\ r.start \in 0..Len(r.buf)
    /\ r.keepalive = "active" => r.logline = "yes" /\ (r.simple = "yes" => r.method = "POST")

\* Nothing is said while a request is read.
Silent(r) == r.got = <<>> /\ r.buf = <<>> /\ r.start = 0 /\ r.response_status = 0
Unread(r) ==
    /\ Silent(r)
    /\ r.simple = "yes" => r.method = "POST"
    /\ r.status \in Headers => r.filesize = 0 /\ r.filepos = 0
    /\ r.status \in {"BODY_READ", "BODY_WRITE"} => r.uri \in DOMAIN Site

\* All that a pipe has given and will give.
Coming(r, s) == Said(r) \o (r.data \o (s[r.data_fd].pipe \o s[r.data_fd].left))

Whole(r) == Len(Said(r)) = 1 + (IF r.method = "HEAD" THEN 0 ELSE r.filesize)

\* A document that is mapped goes out after its header, from filepos on.
Mapped(r) ==
    /\ OneStatus(Said(r)) /\ r.method # "HEAD" /\ r.data_fd = -1
    /\ r.filesize \in Nat /\ r.filepos \in 0..r.filesize
    /\ \E k \in 0..1 : /\ Shaped(Said(r), k) /\ Len(Said(r)) = k + r.filepos
                       /\ k = 1 => Said(r)[1].t # "page"
                       /\ r.keepalive = "active" => k = 1

\* A program's output comes through a pipe, from the first token to the last; its header
\* is looked at before anything is said.
Piped(r, s) ==
    /\ r.keepalive # "active" /\ DataCount(Coming(r, s)) = DataCount(Site[r.uri].out)
    /\ \E k \in 0..Len(Coming(r, s)) : Shaped(Coming(r, s), k)
    /\ r.cgi_status = "PARSE" =>
          /\ Silent(r)
          /\ \A i \in 1..Len(Coming(r, s)) : Coming(r, s)[i].t \notin {"keep", "close"}

\* So does a document that is too large to be mapped.
Filed(r, s) ==
    /\ r.method # "HEAD" /\ r.response_status = 200 /\ r.cgi_status # "PARSE"
    /\ r.filesize \in Nat
    /\ s[r.data_fd].left = <<>> /\ s[r.data_fd].alive = "no"
    /\ \E k \in 0..1 :
          /\ Shaped(Coming(r, s), k) /\ Len(Coming(r, s)) = k + r.filesize
          /\ r.keepalive = "active" => k = 1

\* What has been read of it is in the buffer, and nothing of it beyond.
Streamed(r, fds, s) ==
    /\ Listed(r.data) /\ r.off \in Nat /\ r.off + Len(r.data) <= BUFFER_SIZE
    /\ OneStatus(Coming(r, s))
    /\ r.status = "PIPE_WRITE" => r.cgi_status # "PARSE"
    /\ r.cgi_status = "DONE" => s[r.data_fd].pipe = <<>> /\ s[r.data_fd].alive # "yes"
    /\ \/ fds[r.data_fd] = "pipe" /\ Piped(r, s)
       \/ fds[r.data_fd] = "file" /\ Filed(r, s)

\* An answer that is complete, or has failed.
Over(r, n, fds, s) ==
    /\ \E k \in 0..Len(Said(r)) : Shaped(Said(r), k)
    /\ OneStatus(Said(r)) \/ Forkless(r)
    /\ r.status \in Pipes /\ r.cgi_status # "PARSE" /\ r.response_status < 400 => r.data = <<>>
    /\ r.keepalive = "active" /\ r.status # "DEAD" =>
          (r.got = <<>> /\ r.buf = <<>> /\ Dropped(r, n)) \/ Whole(r)
    /\ r.response_status = 200 /\ r.status # "DEAD" /\ r.method # "HEAD" /\ n.peer # "reset" =>
          IF r.data_fd = -1 THEN DataCount(Said(r)) = r.filesize
          ELSE /\ r.status \in Pipes /\ r.buf = <<>>
               /\ DataCount(Said(r)) =
                     IF fds[r.data_fd] = "pipe"
                     THEN DataCount(Site[r.uri].out) - DataCount(s[r.data_fd].left)
                     ELSE r.filesize

Going(r, n, fds, s) ==
    /\ r.status \in Early \cup Pipes \cup {"WRITE", "DONE", "DEAD"}
    /\ r.status \in Early => Unread(r)
    /\ r.status = "WRITE" => Mapped(r)
    /\ r.status \in Pipes => Streamed(r, fds, s)
    /\ r.status \in {"DONE", "DEAD"} => Over(r, n, fds, s)

SourcesListed(s) ==
    DOMAIN s = AllFds
    /\ \A f \in AllFds :
          /\ {"alive", "left", "pipe"} \subseteq DOMAIN s[f]
          /\ Listed(s[f].pipe) /\ Listed(s[f].left)

\* The request that has just been run, with a return value of 0, is over.
JustOver(f) == stage \in {"accept", "dispose"} /\ f = Head(todo) /\ ret = 0

AnswerInv ==
    /\ SourcesListed(src)
    /\ \A f \in Fds : Spoken(req[f])
    /\ \A f \in Requests :
          IF JustOver(f) THEN Over(req[f], net[f], open, src) ELSE Going(req[f], net[f], open, src)
    /\ \A f \in Fds \ Requests : req[f].logline = "no"

\* What keeps a POST whole.  The tokens of a body are numbered; s is what follows the
\* first p of m of them.
Bodies(m) == [k \in 1..m |-> Tok("body", k)]
BodyFrom(s, p, m) == \A k \in 1..Len(s) : p + k <= m => s[k] = Tok("body", p + k)

\* read_header's machine, started in a status, comes to the end of the headers with the
\* j-th token: a LF, and before it a LF with nothing in between but CRs.
Closes(status, s, j) ==
    /\ s[j].t = "LF"
    /\ \E i \in 0..(j - 1) :
          /\ IF i = 0 THEN status \in {"ONE_LF", "TWO_CR"} ELSE s[i].t = "LF"
          /\ \A k \in (i + 1)..(j - 1) : s[k].t = "CR"

\* A body of m tokens follows, as far as anything does; and so it is for every length
\* that a client announces.
Announces(status, s, m) ==
    \A j \in 1..Len(s) :
        Closes(status, s, j) /\ (\A i \in 1..(j - 1) : ~Closes(status, s, i))
            => BodyFrom(Drop(s, j), 0, m)
Announced(s) ==
    \A i \in 1..Len(s) : s[i].t = "LENGTH" => Announces("READ_HEADER", Drop(s, i), s[i].n)

\* A client that announces a length sends the tokens of a body after its headers.
ASSUME PostAssumption ==
    \A a \in Scenarios : \A i \in 1..Len(a) : Announced(FlattenSeq(a[i]))

\* What has been sent, or will be, and is not read; and what of the stream is not parsed.
Waiting(n) == n.inq \o FlattenSeq(n.more)
Ahead(r, n) == Drop(r.stream, r.parse_pos) \o Waiting(n)

\* While a request is read, what it has announced is to come; while its body is saved, the
\* temporary file, what has been read and what the client has yet to send are the body;
\* on a connection that may be kept, what follows is as the client has sent it.
Reading(r, n) ==
    /\ r.parse_pos <= Len(r.stream) /\ r.temp = <<>>
    /\ Announced(Ahead(r, n)) /\ Announces(r.status, Ahead(r, n), r.clen)
    /\ r.line.t = "LENGTH" => Announces(r.status, Ahead(r, n), r.line.n)
Saving(r, n) ==
    /\ r.filepos \in Nat /\ r.temp = Bodies(r.filepos)
    /\ BodyFrom(r.data \o Waiting(n), r.filepos, r.filesize)
Chained(r, n) == r.keepalive = "active" => Announced(Ahead(r, n))

Posted(r, n) ==
    /\ r.status \in Headers => Reading(r, n)
    /\ r.status \in {"BODY_READ", "BODY_WRITE"} => Saving(r, n)
    /\ r.status \notin Early \cup {"DEAD"} => Chained(r, n)

\* What a program finds on its standard input is the body of its request.
Fed(s) ==
    DOMAIN s = AllFds
    /\ \A f \in AllFds : {"clen", "stdin"} \subseteq DOMAIN s[f]
                         /\ (s[f].clen > 0 => s[f].stdin = Bodies(s[f].clen))

PostInv ==
    /\ Fed(src)
    /\ \A f \in Requests :
          IF JustOver(f) THEN Chained(req[f], net[f]) ELSE Posted(req[f], net[f])
    /\ \A i \in 1..Len(backlog) : Announced(FlattenSeq(backlog[i]))
    /\ \A i \in 1..Len(arrivals) : Announced(FlattenSeq(arrivals[i]))

\* No connection stays for ever, whatever its client and its CGI program do.
ConnectionEnds == \A f \in Fds : open[f] = "socket" ~> open[f] = "free"
=============================================================================
