# NC600 gateway: TLA+ specifications, model checking and proofs

The NC600 firmware (`nc600-2.0`) is a serial-to-network gateway with alarm
inputs. One process runs a dozen threads that share one configuration
structure, `g_conf_info`, and a handful of flags and descriptors, almost
without locks. It reports to an alarm server over TCP, carries serial data over
TCP or UDP, and is configured through a web interface: a Boa web server starts
CGI programs, which talk to the process over a local TCP port with the calls of
itslib. The hard part of this code is not any single
function: it is the order in which threads, clients, servers, timeouts and
reboots meet. That is what is modelled here.

`PROJECT.json` lists components, runs, the map from definitions to source
lines, hazards, findings and theorems.

## 1. Inventory

| Component | State | Operations | Meets |
|---|---|---|---|
| Alarm-server client (`client.c`) | `g_sockfd_client`, `g_reconnect_flag`, `heartbeat_s`, `heartbeat_timeout`, the status LED | one loop: count, sleep, reconnect if asked, poll, serve one command | the web thread (server settings and flag), serial threads (write to its socket), the server |
| Configuration store (`config.c`, `file.c`) | `g_conf_info`, `CONFIG_FILE` | load, make default, save, factory reset | four writing threads, reboots |
| Web command server (`web_net.c`) | `g_client_conn`, `m_max_i`, `m_max_sock`, `m_readfds` | accept, receive a command, answer | up to `MAX_TCP_CONN` CGI programs, all in one thread |
| Sessions (`mode.c`) | `md->fd`, `md->sfd[]`, the copy `tmp` | make a socket, serve it, start over on a change | the web thread, network clients, the serial thread |
| Serial ports (`com.c`, `system.c`) | `gcomfd`, `rs_type`, `rs485_mutex` | read and pass on, write | sessions, the client |
| Alarm inputs (`gpio.c`) | `alarm_init`, `alarm_update`, `alarm_off_count`, `g_alarm_in` | read all inputs, judge each | lines that move at any time |
| Configuration key (`gpio.c`) | none | held for three seconds: factory reset | the store |
| Report thread (`mode.c`) | a copy of `con_sys` | replace settings from the PC tool, reboot | the store |
| UART receive buffers (`client.c`) | two buffers, two counters, the shared `buf_send` | append, query, send by itself (int mode) | serial threads, the client |
| Alarm protocol commands (`client.c`) | `con_sensor`, `con_com`, outputs | get and set, with conversions | the client, the serial lines |
| Web commands and user table (`web_net.c`, `config.c`) | `g_conf_info`, `con_usr` | query and set of each member, add, delete, rename, log in | the store, CGI programs |
| CGI programs (`web/src`) | `/tmp/nc_<addr>`, the record in the form | query, fill in, set, query again | itslib, Boa |
| itslib (`itscmd.c`, `net.c`, `itsip.c`) | one connection per call | pack, connect, send, wait three seconds | the web command server |
| Boa (`boa-0.94.13`) | ready and blocked requests, `fd_set`s, mmap table | accept, read, run a handler, sleep | browsers, CGI programs, signals |
| cgic, utelnetd, update scripts | | | third-party code and scripts |

What is hard, in short: the reconnect flag is raised by one thread and cleared
by another; the configuration is saved by truncating its only copy, from four
threads, with reboots at any time; one thread serves every web client and waits
for each; a session thread compares its configuration with a copy taken after
the socket was made; a heartbeat counter, an alarm counter and two high-water
marks are each one off from being wrong for ever; five threads share an RS-485
line, a mutex that is held across a blocking send, and one variable that says
whether it is needed; a page of the
web interface changes a record by three calls, each of which may fail or be
carried out after its caller has given up; Boa keeps what it waits for in two
bit sets that outlive the request. `hazards` in `PROJECT.json`
gives each at its line.

What makes each correct: no descriptor is ever lost on a retry path; a server
that is gone is noticed, a server that is replaced is left; what was
acknowledged survives; the file is never left half-written; an alarm lasts
exactly its time; no client can hold up, or be hidden from, the server; a
change of a session's configuration reaches its socket; the RS-485 line has
one user besides those who were on it before it became one, and is given back; a line is programmed with, and reported as, what
was set; a call is carried out at most once and answered with what was there;
no page stores what it has not read; a request is answered whole and in order, or
dropped for a reason of which there are few, and ends.

## 2. Modules

| Module | Models | Proofs | TLC |
|---|---|---|---|
| `AlarmClient` | `client_process` and what it calls, `sys_server_set`, the server | `AlarmProofs` | `MCAlarmClient` |
| `ConfigStore` | `config_init`, `config_save`, `reconfig` and all writers | `ConfigStoreProofs` | `MCConfigStore` |
| `AlarmInput` | `alarm_proc`, `get_alarm` | `AlarmProofs` | `MCAlarmInput` |
| `WebServer` | `web_process`, `web_conn_recv`, `net_conn_send_pkt` | `WebServerProofs` | `MCWebServer` |
| `ModeSession` | `mode_proc` | `ModeSessionProofs` | `MCModeSession` |
| `SerialPort` | `com_proc`, `SendComDataToNet`, `writen_rs485`, the receive buffers, the client thread's commands, the web thread's `COM_SET` | `SerialPortProofs` | `MCSerialPort` |
| `AlarmCommands` | what the alarm server's commands compute; operators of `SerialPort` | | with it |
| `WebPages` | the CGI programs, itslib, and `web_svr_proc` serving them | `WebPagesProofs` | `MCWebPages` |
| `WebCommands` | itslib's requests, `web_cmd_proc` and the user table; operators of `WebPages` | | with it |
| `RemoteCalls` | the abstract specification that `WebPages` implements | | with it |
| `Boa` | `select_loop`, `process_requests`, `free_request`, the queues, signals | `BoaProofs`, `BoaAnswers` | `MCBoa` |
| `BoaHttp` | the handlers, from `read_header` to `write_from_pipe`; operators of `Boa` | | with it |

Every module keeps the program's names for its variables. A variable `pc` says
where a thread is; an action is the stretch of code between two points where
another thread, the network or a reboot can make a difference. Operators named
`X_Y` with the comment "Mutant" are deliberately wrong versions of `X`; they
are not part of any specification and show that a property can fail.

**AlarmClient.** A turn of the loop is `Tick` (count and compare, in the
arithmetic of a `u16`), `Wake` (after `sleep(1)`, into `client_reconnect` or
not), then `NoSocket`, `NothingRead` or `Serve`. A reconnect is `OpenSocket`,
`DnsStart` with `DnsAnswer` or `DnsFail`, `ReadAddress` and `ReadPort` (two
reads, between which the web thread may write), `ConnectOk` or `ConnectErr`,
`Backoff`, and `Linked`, which clears the flag. `WebCopyAddress`,
`WebCopyRest` and `WebRaiseFlag` are the three steps of `ITS_SERVER_SET`. `Serve`
takes a command; `UartWrite`, for `UART_SEND_DATA`, needs `rs485_mutex`, and `Write`
of the answer needs room in a blocking socket, so that both are disabled while
they block. The server sends, closes, resets or stops reading (`ServerStops`) as
it likes, and so does the peer behind which a com thread holds the mutex
(`BusStuck`). `since` and `grant` are history
variables: the turns since the last heartbeat, and what it granted. A write to
a connection that was reset may end the process (`SIGPIPE` is not ignored).

**ConfigStore.** `g_conf_info` is a function from the members of `CONFI_DATA`
to abstract values. `config_save` is `Open` (the file is empty from here on),
`Write` (the structure, smaller than a stdio buffer, is copied) and `Close`
(the buffer reaches the file). Each of `web`, `client`, `report` and `key` may
be inside it. `Reboot` may come between any two steps. `acked` records what the
last finished request left in each member; `torn` and `missed` record that a
reboot cut a save off, and that `fopen` failed. Requests that save more than
once before they answer (`SET_UART_ATTR`, `USER_MODIFY`) do so (`NextPart`).

**AlarmInput.** Its `InputSpec`, `input_pc` and the like carry the prefix because
`AlarmProofs` extends it and `AlarmClient`. `ReadOk` or `ReadFails` for one input after another, then
`Judge` for one after another. A reading that fails leaves `get_alarm`'s local
variable alone, so that the input takes the reading of its neighbour, or
garbage.

**WebServer.** `Select`, at most one `Accept`, then every slot up to
`m_max_i`: `ServeSlot` starts a header; `RecvBytes` takes what is there,
`RecvEmpty` counts an empty `select` towards `TIMEOUT_CNT`, `RecvGone`,
`RecvError` and `RecvSelectFails` are the ways it ends; `SendBytes`,
`SendWait`, `SendError` and `SendClosed` the same for answers. Bytes are
counted. Clients connect, send a byte, or end in one of three ways, between
any two steps.

**ModeSession.** `Choose` and `ReadTarget` read the configuration, `MakeOk`,
`MakeFails` and `UdpBindFails` are the outcomes of making the socket, `Copy`
takes the copy. Then `Teardown` or `Current`, `Switch` on the protocol as it is
by then, and the three loops. What is received goes to the serial port in a step
of its own (`Write`, `SrvWrite`), which waits while the port's mutex is held
(`BusStuck`). `raced` records that the configuration changed
between `Choose` and `Copy`.

**SerialPort.** Each com thread goes `ComTest`, `ComLock` when `rs_type` is
RS-485, `ComRead`, `ComSend` (which a stalled peer blocks), `ComUnlock`, and
with data for the alarm protocol `Count`, `Copy` and, in int mode, `IntMake`
and `IntWrite`. A writer (session thread or client) goes `Dispatch`,
`WriterLock`, then `WriteSome` or `WriteError`. The client thread takes a
command and answers; `SET_UART_ATTR` goes port by port (`UartBegin`,
`UartStore`, `UartComSet`, or `UartFail`). `WebStore` and `WebComSet` are the
page's. The two branches of `com_proc` and `SendNetDataToCom` are told apart by the
labels (`read232`, `write485`): a thread goes on in the branch it has chosen when
`rs_type` changes, and `late` are those who were in the RS-232 branch when it became
RS-485. The bytes of a port are numbered, so that a buffer shows which it
holds. A copy that does not fit its buffer (`CopyFits`, `RecvFits`,
`DeviceAttrSize`, `TMP_SIZE`) is undefined behaviour: the step sets `overrun`, after
which the model does nothing more and nothing is said of the program.
`rcvd`, `mixed`, `intmode`, `stray` and `late` are history variables.

**WebPages.** A page is a process: `Begin` (session file, page by page), then
up to four calls, each on its own connection: `Connect`, `SendBody`,
`RecvHead`, and `Answered`, `RecvData`, `RecvNoData` or `CallFails`. What the
page does with the result is `AfterCall`; `Resolve` is `its_dns`. The server
thread is `Serve`, `TakeBody` or `BodyLost`, `Execute`, `SendData`; `ServeRest`
and `ServeEnd` are what it makes of leftovers and ends. A record is told apart
by the members its form shows and the rest, each of which may be old, set,
blank or garbage. Faults: no slot, a body that comes too late, a server slower
than three seconds, a killed program, a server that dies. Users are managed by
itslib calls that no page of the repository makes; a program that makes them
stands for one.

**RemoteCalls.** A call begins, is carried out at most once in one step, reads
its data in another, and ends well or in failure. `WebPages` implements it
(`CallsKept`): the refinement mapping takes `store` and the history `call`
as they are, and `Perform` and `Look` from `WebCommands`. The store is the link
to `ConfigStore`, which says how it is saved, and the connections to
`WebServer`, which says how the server finds and closes them.

**Boa.** `select_loop` is `Signals`, `fdset_update`, `First` (accept), one
handler and `Dispose` per ready request, `Poll` and `Select`. `BoaHttp`'s
handlers are operators on a record of the request, its socket, the descriptors
and the mmap table. A token stands for a line, a piece of body or a status
line, and counts one towards buffer sizes. `Site` says what lies behind a uri.
Clients send their pieces, stop, close or reset; programs write or crash;
`Age` is the clock.

The modules share no state that their properties depend on: `ConfigStore` is
the place where the threads meet, and the other modules contain the one step of
another thread that matters to them (`WebCopy*`, `WebRaiseFlag`, `WebStore`,
`Write`).

## 3. Runs

| Run | Bounds | Shows |
|---|---|---|
| `alarm_client` (1,412,598 states) | 2 descriptors, a name, a literal and the empty name, granted periods 0 and 1, the default 2, counter modulo 4, 1 waiting command | no descriptor is lost, the counter stays within the period, the LED tells the truth, offline is declared in exactly the turn it is due, a silent, closed or reset server is dropped once the thread can write |
| `alarm_client_update` (violation) | as above, one period | an update during a connect is forgotten |
| `config_single` | web thread only, 2 values, 3 requests, 1 reboot | file and memory agree, acknowledged settings survive |
| `config_all` | 4 threads, 1 value, 2 requests, 1 reboot | the file is whole at rest |
| `config_race` (violation) | web and client, 2 requests | two saves at once lose a setting |
| `config_torn` (violation) | web, 2 requests, 1 reboot | a reboot in mid-save loses everything |
| `alarm_input` | 2 inputs, 3 rounds, counter modulo 5 | the alarm window is exact, no false or missed alarm |
| `web_server` | 2 slots, 3 connections, 2 bytes each, header, body and data of 1, 1 and 2 bytes, 2 empty selects | the table is exact, nobody idle is waited for, bytes are read, slots come back, the backlog is served |
| `mode_session` (1,235,216 states) | 2 slots, 3 descriptors, 2 addresses, 1 change, 3 network events | no socket is lost, sessions start clean, changes are followed and ends are closed once the thread can write |
| `serial` (631,803 states) | 2 ports, 1 session, receive buffers of 4, `buf_send` of 10, chunks of up to 4, counters modulo 5, 11 commands, 2 web settings, 3 events | the bus has one user besides latecomers and comes back, frames are whole in poll mode, port 1's bytes are kept, lines follow their settings |
| `web_pages` | 14 pairs of pages, 2 ports, 3 users, 1 mishap | calls do what `RemoteCalls` says, records stay whole, no accidental user, every request is served |
| `boa` (456,284 states) | 27 clients alone, 2 pairs and 3 at once, 4 descriptors besides the listening one, buffers of 4, 9 and 2 tokens, 1 failing call, departure or signal | nothing leaks, no sleep over work, answers whole and in order, a connection reused only after a whole answer or for a reason in `Dropped`, connections end |

Why the bounds are enough for the interesting cases. `alarm_client`: two
descriptors are what the client can hold (its socket and the query's), and
period and counter are as close as the real `u8` and `u16` may be, so that a
counter one bit too narrow wraps. `config_*`: two requests make two saves meet,
three let a third build on them. `alarm_input`: two inputs let one take the
other's reading, and the counter wraps within a few rounds. `web_server`: the
third connection finds the table full; the listening descriptor lies between
those of the clients, so that the high-water mark matters; a request is cut
between header and body, and data of two bytes can be sent in parts. `mode_session`: three events are two clients
and a third that finds no slot, or a client that sends and ends; as many
descriptors as the thread can hold means that closed ones come back. `serial`: three events are a command, data on a line and a setting
that meet; the counter reaches the buffer's size with one chunk of four, wraps
with a second one, and a query of three or more bytes no longer fits `buf_send`, as in the code,
where `buf_send` (1024) is smaller than the buffer and the frame around the bytes takes
eight; one session and the client are two writers beside the two readers. `web_pages`: the pairs are chosen so
that two pages want one record, one needs what the other sets, or one logs in
or manages users beside another; the second call of a page can meet any of
them; one mishap at any step. `boa`: the buffer is smaller than a header with a
document, one document is mapped, the next is too large for it, a body is
longer than what is left of the stream, the environment fills up, and the table
of mappings has two places and a limit of its own; `max_connections - 10` is
three, so that the listening socket is left out of the set with three connections;
three clients use up the descriptors.
The proofs of section 5 have no bounds.

`CHECK_DEADLOCK FALSE` is set where the bounds (requests, events) or a killed
process let the model stop; `WebServer` and `AlarmInput` are checked for
deadlock.

## 4. Fairness

Only threads of the program are fair, and each only in steps that do not
depend on another party; a call that blocks without a timeout is a step that is
disabled while it blocks.

- `AlarmClient`: `sleep`, `select`, `poll` and the DNS query all have timeouts, so
  the client's loop and the web handler go on. Two calls have none: `write` to the
  alarm server, whose socket is blocking (`client.c:1571`), and
  `pthread_mutex_lock(&rs485_mutex)` in `writen_rs485`, since `com_proc` holds the
  mutex across a blocking send (`com.c:345`). `Write` and `UartWrite` are disabled
  meanwhile, nothing is assumed of the server or of that peer, and a thread that
  is stopped there for good counts no timeout. So `LostServerDropped` (and
  `UpdatedServerTaken`) hold under the condition `<>[]CanWrite`: from some time on
  the server reads or has closed, and the mutex is not held for ever.
- `AlarmInput`: `usleep` and reading a file of `/sys` return; the lines owe nothing.
- `WebServer`: a pass goes on (every wait in it has a timeout) and a `select` with
  something to report returns; clients owe nothing.
- `ModeSession`: the thread goes on (`select` waits one second at most, `connect`
  gives up in the end) except in `Write` and `SrvWrite`, where it waits for
  `rs485_mutex`; the web thread finishes a `memcpy` it has begun. `ChangeFollowed`
  and `EndsAreClosed` are stated under `<>[]CanWrite`: without it a session thread
  waits behind a stalled peer of another session and sees neither.
- `SerialPort`: threads that use a port run until an overrun, and nothing is assumed
  of the order in which the mutex is handed over; `BusReleased` is stated under
  the condition that peers read in the end, and excepts executions with an overrun.
- `WebPages`: each program and the server's thread run (every wait in itslib, and in
  `web_conn_recv`, has a timeout).
- `Boa`: the process gets back to `select` again and again (each round runs each
  ready request once, and every descriptor is nonblocking), `select` returns when it
  may, and time passes for a request that sleeps; clients and CGI programs may stop
  for ever.

## 5. Proofs

TLAPS proves, for all values of the constants that satisfy the `ASSUME`s, the
theorems listed in `PROJECT.json`. Each module's theorems follow from one
inductive invariant, which is also an invariant of its run.

- **AlarmClient: `IInv`.** `FdsOwned` alone is not inductive: `OpenSocket`
  forgets the old descriptor unless `g_sockfd_client` is `NoFd` there, and
  `DnsClose` would close the wrong one unless the two differ (`FdInv`).
  `LedFresh` needs that, while the LED is lit, the program's counter and period
  are the history's `since` and `grant` except between a turn's timeout and its
  reconnect (`LedInv`). Assumed: the counter can hold one more than the longest
  period (`PeriodAssumption`), which is what "FIX BUG001" established.
  `OfflineExactlyWhenDue`, an action property, follows from the same invariant.
- **ConfigStore: `ConfInv`, `SoleInv`.** With any writers, an empty file means
  that some thread is between `fopen` and `fclose` (`EmptyWhileSaving`), which
  gives `FileWholeAtRest`. With the web thread as the only writer
  (`Writers = {"web"}`, a hypothesis of the theorems), `FileSole` follows one
  save from buffer to file, and `AckSole` says where the acknowledged values
  are in the meantime. That the hypothesis is needed is what `config_race`
  shows.
- **AlarmInput: `AlarmInv`.** While an input is in alarm its counter is the
  number of rounds since its last change (`WindowInv`), whatever the counter
  did before; for a line that never moved both arrays hold its level as far as
  they have been filled (`QuietInv`).
- **WebServer: `WebInv`.** The table is exact (`ConnsOwned`), the marks cover
  it (`AllWatched`), and what `select` reported stays readable until its own
  slot has been served, because only the server reads and `accept` never
  returns a descriptor that was reported (`ReadyKept`). `NoWaitForIdle` follows.
- **ModeSession: `ModeInv`.** Only a listening session has clients
  (`ServesOpen`): without it the early `goto AGAIN` of the TCP client loop,
  which closes `md->fd` only, would leave clients open. `ReadCurrent` says that
  what was read of the configuration is current until the copy is taken unless
  `raced` says otherwise, which gives `SocketMatchesCopy`.
- **SerialPort: `BusInv`, then `SerialInv` in parts.** A thread is between lock
  and unlock exactly when it owns the mutex, wherever it got there from:
  `rs_type` is looked at once before the lock and never again before the unlock.
  That is the first half of `BusExclusive`, and it does not make the line
  exclusive: a thread in the RS-232 branch of `com_proc` (`com.c:320`) or of
  `SendNetDataToCom` (`com.c:410`) when the type becomes RS-485 is on the line
  without the mutex. The second half says that nobody else is: of any two users one is
  such a latecomer. `LateInv` keeps it: every unlocked user of an RS-485 line was
  there before it was one. A step that writes behind a buffer ends the model
  (`overrun`), so what is proved holds up to it; the types (`TypeCorrect`) say nothing of
  sizes. On top of
  `TypeOK` and of `CmdOK`, the copies of `con_com` that a `SET_UART_ATTR` holds,
  stand three invariants. `FramesInv`: as long as nothing has been put into int
  mode, neither a port nor a copy on its way into `con_com` is in int mode, and
  the answer in `buf_send` is the client's (`FramesWhole`). `KeptInv`: the
  buffer of port 1 holds the bytes from the first up to what has been counted
  and copied, and the counter counts all that was received until it wraps; a frame
  of it is as long as `buf_send` at most (`Port1Kept`). `LineInv`: unless the line is stray, at most one of its two
  setters is between storing and programming, and the alarm server's copy has
  the stored parameters (`LineFollows`). `UartReadBack`, an action property,
  follows from the conversions of `AlarmCommands`, which are inverse on what
  the page offers: that the page sets nothing else is its hypothesis, and the
  bauds, parities and stop bits of `is_good_uart` are the ones of the page.
- **Boa: `BoaInv`.** `Accounted` says who owns each descriptor, connection and
  mapping. It is kept along with the shape of the tables (`TablesOK`) and lists
  (`ListsOK`), what a client can send (`InputsOK`), and what a request's status
  says of what it holds (`RequestOK`): while its headers or body are read it has
  neither document nor mapping, and what its fields name is open. The handlers are
  operators on a record, so each has a lemma of its own in terms of three relations:
  `Like` (opens and closes nothing), `Near` (the same, but sets the method) and
  `Sound` (what the other requests hold is untouched, and what is open besides is
  held by the request at hand). `HandledInv` carries `Sound` from
  a handler to the lists and counters. The two loops inside a step, the tokens
  of `read_header` and the requests that `fdset_update` wakes, are recursive
  functions; `Induct`, from the library's theorem that inclusion of finite sets
  is well-founded, replaces the induction scheme that the provers cannot
  instantiate. `WatchInv` stands on it: whenever the server is past
  `fdset_update`, `select` is asked about what each sleeping request awaits
  (`SleepersWatched`). It needs `Accounted`, since a request that wakes must not
  clear another one's bit, and that no handler sleeps with a body yet to be
  saved (`Sleepy`). `IdleInv` is the other half of `SleepsOnlyIdle`: a sleeping
  request still has the reason for which its handler returned -1 (`Stalled`: a buffer
  not written out, or a wish to read and the room for it). Again each handler has
  a lemma, that it answers or stalls (`Answered`, `Rested`), which needs that
  positions and sizes are integers and buffers sequences (`Sized`). `SleepsOnlyIdle`
  covers every status in which a request sleeps, POST bodies and pipes included;
  the one exception is `SentAhead`, a request whose status is one of the headers'
  and whose stream has not been parsed to its end.
  `AsleepWaits` then compares the handler's condition to wait with the kernel's
  condition to wake it, case by case, and `SleepersWatched` does the rest.
  Assumed: `BoaAssumption` (descriptors are naturals, the listening
  one is not a client's, sizes) and `ScenariosAssumption` (clients send tokens).
- **Boa: `AnswerInv`.** What an answer is made of lies in five places: what the
  client has got, the shared buffer, the buffer of the pipe, the pipe, and what
  the program or the file has left. `InOrder` speaks of the first three and is not
  inductive. `AnswerInv` says by a request's status what the five hold together
  (`Going`): nothing is said while a request is read (`Unread`); a mapped document
  is a header and its first `filepos` tokens (`Mapped`); of a pipe, what has been
  said, is held and is to come is one answer, in order and with every token of
  the document (`Streamed`, with `Piped` for a program and `Filed` for a file too
  large to map). A handler that returns 0 leaves an answer that is complete or
  has failed (`Over`); that is so only between the handler and `free_request`
  (`JustOver`). Each handler has a lemma that it keeps this, on top of lemmas
  about joining, cutting and counting sequences. Three theorems
  follow: `InOrder`;
  `WholeAnswer` and `ReuseAtBoundary`, action properties, since only
  `free_request` closes or reuses a connection, and only of a request that is
  `Over`. A request on a kept connection that is `Over` has its `Whole` answer, or
  none at all; and then it was `Dropped`: `Over` remembers the reason (a header line
  without a colon or one too many, a client that left during the headers, a reset,
  a temporary file that could not be made), so that no other handler may return 0
  without an answer. Assumed besides: `SiteAssumption`, that what a program writes is a
  header of its own and then its document.
- **Boa: `PostInv`.** `PostWhole` speaks of what a program has been given, which
  nothing before its start says anything about. `PostInv` follows a body from the
  client to the program. While a request is read, what is `Ahead` of it (the
  unparsed stream, the socket, what its client has yet to send) keeps what the
  client has announced: where the headers end, as many tokens of a body follow as
  the length says (`Announces`, for the length that has been read, for the one in
  the line being read, and for each that is still to come, `Announced`). `Closes`
  is what `read_header`'s states of CR and LF accept, and
  `MachineOn` shows that the remaining machine is the state after one more token.
  While the body is saved, the temporary file holds its first `filepos` tokens and
  the buffer and what is `Waiting` are the next ones (`Saving`): a body that comes
  with the headers is cut to the announced length, one that comes in pieces is read
  up to it. Once a request has been read, what follows is as it was sent
  as long as the connection may be kept (`Chained`), which the next request on it
  starts from. A client that leaves sends a part of what it would have sent, and
  all of this holds of every part from the front (`AnnouncesFront`). Each handler
  leaves this behind (`Settled`); that a status of `Early` has nothing in its buffer,
  from `AnswerInv`, keeps the flush out of it. Assumed: `PostAssumption`, that what
  a client sends behind headers with a length is, up to that length, what is called
  its body; a client that sends less, or leaves in between, is included.
- **WebPages: `PagesInv`.** The store holds whole records (`StoreOK`); a program
  makes its calls in the order of its page and goes on to set a record only with
  one it has received (`ProgramOK`); a call's place in the server and on its
  connection agrees with what has become of it (`CallOK`, `TalkOK`,
  `ServerOK`). The conjunct that carries `Whole`: the connection of a query has
  nothing on it but its header and stays open while its program waits, so that
  a program never takes the answer of a call that was not carried out for data.
  `CallsKept`, the refinement, is proved step by step from it: each step of a
  program, itslib or the server is one of `RemoteCalls` or a stutter.
  `UsersAsked` and `SuccessIsDone` (a program told of success can rely on it)
  follow from the refinement, since only `Take` changes the table and only an
  execution answers. Assumed: what visitors ask is well-formed
  (`ScenarioAssumption`, with `Packed` for what itslib packs) and the table's
  members (`UsersOK`).

The proofs changed the models in several places where they could not go through
for a reason. A full receive buffer of port 1 was copied from the wrong offset
after the counter had wrapped (`CopyAt`, `client.c:925`); the run was too small
to wrap, so it has smaller counters now. Two arms of the `CASE` in `Sent` (what a
query sends) overlapped for a port that does not exist. `Asked` grouped its
unions in a way that depended on the parser. In `Boa` the proof of `Accounted`
failed at the second temporary file of an HTTP/0.9 POST, which is a real loss (next
section), and at `accept` and `pipe`, which the model let succeed with no
descriptor left; `POST09` and a third client are in the run now.

Some theorems are about formulas that no run lists by name because they are
conjuncts of the inductive invariant that it checks (`TimeoutBelowPeriod`,
`AllWatched`, `CleanStart`) or follow from it (`FileTracksMemory`); `ConfInv`
is there for `FileWholeAtRest`, and `SleepersWatched` is the half of
`SleepsOnlyIdle` that is about the sets. `SerialInv`, `PagesInv`, `BoaInv`,
`WatchInv`, `IdleInv`, `AnswerInv` and `PostInv` were checked with TLC on the instances of
`serial`, `web_pages` and `boa` before they were proved; the runs list the
properties that follow from them.

Only model-checked, since they are outside what TLAPS can prove: all liveness
properties (`LostServerDropped`, `ChangeRaisesAlarm`, `BytesRead`,
`GoneIsFreed`, `BacklogServed`, `ChangeFollowed`, `EndsAreClosed`,
`BusReleased`, `RequestServed`, `ConnectionEnds`).

## 6. What the runs found

1. `alarm_client_update`: `client_process` clears `g_reconnect_flag` when a
   connect succeeds. An update that came during the connect is forgotten, and
   the client stays on the old server as long as that one sends heartbeats.
2. `config_race`: `config_save` has no lock; the older of two snapshots can be
   flushed last.
3. `config_torn`: `config_save` empties the only copy before it writes; a
   reboot in between loses all settings.

What the models show besides, each of which the property next to it excepts in
its comment:

- `reconfig` resets three members; its comment (`config.c:14`) says all except
  serial number and MAC. Ports, modes, limits and users stay.
- `uart1_cnt` and `uart2_cnt` are never cleared: `make_ack_query_uart_recv_data`
  ends in the comment `/*clear buf*/` (`client.c:904`) and nothing else, so a
  second query repeats the first. For port 2 the data is copied to the front of
  the buffer (line 925) and the answer has as many bytes as port 1 has received
  (line 895). `Port1Kept` is about the rest.
- `buf_send` has 1024 bytes (`client.c:37`). The counts are never cleared, so after
  more than 1016 bytes of port 1 every query, and in int mode every chunk, writes
  behind it (`client.c:889`); so does `GET_DEVICE_ATTR` with sensors that claim up to 255
  places. A sensor of 50 places overruns the `tmp[100]` of
  `make_ack_set_device_attr`, more outputs than there are the table of `set_io_out`,
  and a long chunk of port 2, or the one after a wrap, the receive buffer. Each ends
  the model in `overrun`; the properties of `SerialPort` hold up to there.
- In int mode a com thread and the client thread share `buf_send`
  (`FramesWhole` is about poll mode).
- A thread in the RS-232 branch when the type becomes RS-485 uses the line beside
  the owner of the mutex (`late` in `BusExclusive`).
- An alarm server that keeps the connection and stops reading stops the client
  thread in `write`, and a serial peer that does not read stops it, and every
  session that writes to a port, at `rs485_mutex`: no timeout is counted and no change
  seen until it reads (`CanWrite` in `LostServerDropped`, `ChangeFollowed`,
  `EndsAreClosed`).
- `COM_SET` for all ports programs only the one it names (`stray`).
- `SET_UART_ATTR` lets a port number of 0 through (`client.c:697`).
- `sys_usr_set` goes on when the body did not arrive (`whole` in `UsersAsked`).
- `session_save` does not truncate its file: a shorter name leaves the end of a
  longer one behind, and the next page is asked for by a user nobody knows
  (`Overwritten`).
- Boa: a POST without a version is taken for a simple request, whose headers end
  with its first line (`read.c:108`); if an empty line follows they end again, and
  `process_header_end` opens a second temporary file over the first, whose
  descriptor is lost until the server exits (`request.c:628`; `lost` in
  `StartPost`, which `Accounted` leaves out).
- Boa: the first header line of a simple POST is compared with the request line once
  more, since `read.c:116` returns before `header_line` is advanced (line 120); the
  request line has no colon, and the request is closed without an answer
  (`NoColon` in `Scan`). Request lines whose uri has a colon are left out.
- Boa: a request on a connection that may be kept is dropped without an answer at a
  header line without a colon (`request.c:665`), at one too many for the
  environment, when its temporary file cannot be made (`request.c:633`), or when its
  client has gone; the connection stays and the rest of the request is read as the
  next one (`Dropped` in `ReuseAtBoundary`, which allows this in these cases only).
- Boa: a document that is cut short keeps the connection that `get.c:258` means
  to close (`ReuseAtBoundary`); when `fork` fails after the header of an
  unpacked document there are two status lines (`InOrder`); a request sent
  ahead sleeps until the socket is readable again or `ka_timeout`
  (`SleepsOnlyIdle`); a shutdown may sleep in a `select` without timeout when
  the signal comes between the flag's test and the call.
- A session whose configuration changes while its socket is being made serves
  the old socket until the next change (`raced`), and a failed `accept` costs a
  slot until then.

## 7. Not modelled

- cgic and utelnetd: third-party code. The update scripts: shell scripts that
  unpack an image and reboot. upgrade and reboot, the two pages that call them.
- The byte layout and checksums of the protocols, the bytes of DNS messages,
  HTML, MIME types, the configuration and log files of Boa, header fields that
  do not steer a connection.
- Drivers, LEDs other than the server's, sensors; log lines and address
  formatting; `setsockopt` failing on a new socket, whose returns in
  `socket_cli_init` and `socket_init` would lose the descriptor.
- Hazards seen and not covered by a property: commands that arrive in one read
  of 100 bytes are served as one (`client.c:1655`; `Serve` does so, and no
  property promises more); `web_process` waits for ever when `web_svr_start`
  has failed (`web_net.c:32`; `StartFails`); a full disk makes the loop around
  `fwrite` endless (`file.c:72`); a descriptor that `mode_proc` closes may be
  another connection by the time the com thread writes to it (`mode.c:196`);
  the millisecond counter is the wall clock, and a clock set back extends the
  timeouts of `web_net.c` (`system.c:103`).

## 8. Plan

Done: `AlarmClient`, `ConfigStore`, `AlarmInput`, `WebServer`, `ModeSession`,
each with its proofs; `SerialPort` with `AlarmCommands` and the proof of the
bus, frames, buffers and lines; `WebPages` with `WebCommands`, its refinement of
`RemoteCalls` and their proofs; `Boa` with `BoaHttp` and the proofs of `Accounted`,
`SleepsOnlyIdle`, `InOrder`, `WholeAnswer`, `ReuseAtBoundary` and `PostWhole`. Every safety
property that a passing run checks has a theorem.

What a continuation could take up:

1. Lemmas about the conversions of `AlarmCommands` for every value.
2. An abstract link supervisor (online, offline, with a deadline) that
   `AlarmClient` implements under a refinement mapping; an atomic store that
   `ConfigStore` implements with a single writer.
3. The composition of `SerialPort` and `ModeSession` over reused descriptors.
