# ftp-proxy in TLA+

`ftp-proxy` (C, about 2800 lines) accepts FTP clients on port 21, opens a
connection to one of the configured FTP servers for each, and relays commands,
replies and active-mode (`PORT`) data connections between the two. One thread
runs an epoll loop that does everything; it is started as the single job of a
thread pool of ten. The repository has no tests.

This directory holds models of the event loop, of the bytes it relays, of the
`PORT` commands it rewrites, of the thread pool, and of the process from
start-up to exit with its configuration file and its linked lists; the TLC
configurations that check them; and machine-checked proofs about all of them.

## Inventory

| Component | State it keeps | Operations | Talks to |
|---|---|---|---|
| event loop and sessions (`session.c`, `main.c:20`) | `session_list`; the events of the last `epoll_wait` | `session_polling`, `add_session_to_list`, `get_session_from_list`, `session_read_packet`, `session_write_packet`, `session_buffer_write`, `session_remove_from_list` | calls every other component; finds sessions by descriptor number |
| client side (`client.c`) | `command_socket`, `data_socket` | create, free, connect to the client's data port, command and data received | session buffers, server side |
| server side (`server.c`) | `command_socket`, `data_socket` (a listener), `connection_socket`; the server list | create (connect), free, listen, accept, data closed, received, choose an address | epoll, session buffers |
| sockets (`socket.c`) | descriptor, buffer, address | create, connect, listen, register with epoll, free | kernel |
| packet I/O (`packet.c`) | none | `packet_read`, `packet_full_write` | kernel |
| PORT parsing (`utils.c`) | none | `is_port_command`, `get_address_from_port_command`, `generate_port_command` | client and server side |
| thread pool (`thread.c`) | `threads_keep_alive`, the semaphore `has_jobs`, job queue, two counters | create, add work, wait, free, `thread_do` | `main()`, `main_loop` |
| start-up and shutdown (`main.c`, `option.c`) | `option` | `option_create`, `option_free`, `main_free` | everything |
| configuration (`option.c:155-291`) | the server list | `get_options`, `get_option_from_file`, `server_insert_address` | server side |
| intrusive lists (`list.h`) | two pointers in every member | `LIST_INIT`, `LIST_ADD`, `LIST_DEL`, iteration | server list, session list |
| logging (`log.c`) | two files, a buffer | `log_init`, `log_free`, output | everywhere |

What is hard in it, and what must hold:

* **Descriptor numbers are identities.** Sessions are found by comparing
  numbers. Closing and reopening recycles them, within one batch of events
  too. A pointer must never outlive its socket, a number must never lead into
  another session, bytes must stay in theirs.
* **Errors in the middle of a handler.** A session can disappear between the
  read half and the write half of an event, a server side can fail half made,
  a `PORT` command can get one of its two sockets.
* **Order.** A rewritten `PORT` command waits in a buffer while the listener it
  names can be replaced; replies wait for a later `EPOLLOUT`; a read error
  abandons the rest of the batch.
* **Bytes.** The buffer is emptied whatever a write took, and the bounds check
  of `session_buffer_write` lets a copy run past the end. Bytes must still never
  be repeated, reordered or lost in any other way.
* **Text.** Each read is parsed alone, by two parsers that accept different
  texts, with a port assembled in a `short`; TCP may cut a command in two.
* **Half-made processes.** Start-up has eleven steps, each of which can fail;
  `option_free` has to undo any number of them.
* **Leaks and limits.** `server_free` forgets `connection_socket`, and a new
  `PORT` overwrites open sockets: descriptors run out.
* **Threads.** The pool is freed on an unlocked read of a counter that threads
  have not incremented yet; the semaphore's value is never initialised;
  `thread_pool_wait` tests two counters of which only one is under its mutex.

`PROJECT.json` lists each hazard at its line with the properties that cover it.

## Modules

| Module | What it is |
|---|---|
| `FtpProxy` | the event loop, the sockets of both sides, the kernel's descriptor table and epoll set, the peers |
| `MCFtpProxy` | the configured server list for TLC |
| `SessionPromise` | sessions that share nothing: the abstract specification `FtpProxy` implements |
| `FtpProxyProofs` | theorems about `FtpProxy`: its invariants |
| `SessionProofs` | theorems about its steps: why sessions end, and the refinement of `SessionPromise` |
| `ThreadPool` | `thread.c` and the steps of `main()` around it |
| `JobPromise` | what `main()` relies on: the abstract specification `ThreadPool` implements |
| `ThreadPoolProofs` | theorems about `ThreadPool`, the refinement included |
| `Relay` | the bytes of one direction of a session, and one socket's buffer |
| `RelayProofs` | theorems about `Relay` |
| `PortCommand` | `utils.c` and the handlers that call it, for one `PORT` command |
| `MCPortCommand` | the commands and ports TLC tries |
| `PortCommandProofs` | theorems about `PortCommand` |
| `IntrusiveList` | the macros of `list.h` as operators on a memory, and what a list is |
| `IntrusiveListProofs` | what the macros do to any list in any memory |
| `Lifetime` | `main()` from `log_init` to exit: start-up, `proxy.cfg`, the lists, `main_free`; it uses `IntrusiveList` |
| `LifetimeProofs` | theorems about `Lifetime`; uses `IntrusiveListProofs` |

The parts meet in few points. `main_loop` is the pool's job: `ThreadPool` sees
it as a step `JobReturns` that need not come, `FtpProxy` is what happens inside
it, and `Lifetime` is what `main()` does before and after. No other thread
touches a session, so these are not composed into one state space. `Relay` and
`PortCommand` open up what `FtpProxy` keeps closed: a chunk and its bytes, and
the question which texts are `PORT` commands (`"PORT"`, `"BADPORT"`) and what
address they name.

### FtpProxy

One action is the handling of one event, from the test in `session_polling` to
the end of its write half. An event with `EPOLLIN` is read, dispatched by the
pointer that holds its descriptor, buffered for the other side, and then, with
`EPOLLOUT`, the buffer of *its own* socket is written: `Forward`,
`send_packet_to_server` and `WriteOnly` do all of that in one step. The
outcomes of a handler are actions of their own (`server_accept` /
`ServerAcceptFails`, `ReadError` / `ReadClosed` / `server_data_closed`,
`PortConnectFails` / `PortCommand`, `AddSession` / `ServerCreateFails` /
`AcceptFails`). So are the failures in the middle of one: `PortRegisterFails` is
`client_connect` freeing the socket it has already stored, and
`ServerAcceptUnregistered` an accepted connection that nobody points to.

What a client uploads is addressed to the wrong socket: `client_data_received`
asks for `PORT_TYPE_DATA`, which on the server's side is the listener
(`client.c:114`, `server.c:249`), and the connection the server opened
(`server.c:253`) is never asked for. The model does the same, run `uploads_lost`
shows it against what the README of the program says, and no other property
counts the listener as the place uploads belong to: they only demand that
uploads stay with their own session's server side.

| Variable | In the code |
|---|---|
| `sock`, `epoll` | the kernel's descriptor table and epoll set (external) |
| `buf` | `socket->buffer`, as a sequence of chunks |
| `session`, `session_list` | the five socket pointers of every session; the list |
| `events` | what is left of the array `epoll_wait` filled |
| `arrived`, `accepted`, `traffic` | what the peers have done; `arrived` and `traffic` are bounded by `MaxClients`, `MaxTraffic` |
| `assigned` | `server->address` |
| `told` | listeners whose address a server has been sent |
| `running` | FALSE when a signal or a wild pointer has killed the process |

Abstractions. A chunk is what one `read` returned; it is a `PORT` command both
parsers accept (`"PORT"`), one only `is_port_command` accepts (`"BADPORT"`, e.g.
dotted), or anything else. Descriptors are handed out lowest first, as POSIX
requires. `session_list` is a set: `FdOwnership`, which is proved, says that at
most one listed session holds a number, so the order of the search cannot be
seen. `events` is a set because epoll promises no order. A socket holds one
unread chunk; a reset socket still gives it before it fails, as Linux does.
`accept` and `socket` fail when descriptors are exhausted and, with
`CallsMayFail`, the opening of outgoing and listening sockets fails at any
time. `SlowPeers` lets connections stop draining and writes stop short.

The code registers a server's command socket with epoll twice (`server.c:144`
and `:185`). On Linux the second call fails with `EEXIST`, no session is ever
created, and nothing else in the program can be reached: run `second_add`
shows that with `DuplicateAdd = "EEXIST"`. Every other run sets
`DuplicateAdd = "OK"`, that is, it describes the code behind that line. The
proofs hold for both values.

### SessionPromise

What the loop is for, without descriptors, events and epoll: a session has up
to five connections, what arrives on one waits in `incoming`, is carried to the
opposite connection of the same session, waits there in `pending` and is
flushed; connections are opened, opened again, hung up, and the session ends.
No step names two sessions. `FtpProxy` has one descriptor table, one search by
number and one batch of events for all of them; its refinement mapping looks
through the pointers of listed sessions: `Open` is the set of pointers that are
not `NULL`, `Incoming` what has arrived at the descriptors they hold, `Pending`
the kinds of the chunks buffered there; what is buffered for a listening socket
is pending for nobody. The opposite of the client's data connection is the
server's data connection, and `MayLose` allows uploads, and nothing else, not to
get there. That a step moves nothing else, and that a number which comes back
brings nothing along, is what has to be shown.

### ThreadPool

One step per critical section; unlocked reads are steps of their own. The last
critical section of `thread_do` is two steps (`Leave`, `Unlock`), because the
pool can be freed inside it. `InitialSem` is what `malloc` may have left in
`has_jobs->state_value`; `{0}`, what the argument of `binary_sem_create(0)`
asks for, is assumed only by the run `pool_use_after_free`, to show that flaw
apart from the other. Signals of the semaphore's condition variable need no state: a waiter
re-tests the value. The signal of `threads_all_idle` does, since main() is not
re-tested without it: that is `main = "blocked"`. `main()` pushes exactly one job.

### Relay

Each behaviour is about one of four directions: what the client commands, what
it uploads, what the server replies, what it lets the client download. The i-th
byte the source sends is the number i, so that order, repetition and loss can be
seen; a byte that the proxy wrote in place of a `PORT` command is 0. `buffer` is
what lies inside the allocated block, `buffer_used` what the code believes; an
overrun makes them differ.

| Variable | In the code |
|---|---|
| `direction` | which pointers lead to the source and to the target, and with them `buffer_size` and whether the end of the source ends the session |
| `target`, `buffer_used`, `buffer` | the target's pointer (`NULL` or not) and its `struct socket` |
| `sent`, `source`, `got` | what the peer sent, its end, what `packet_read` has returned; `"gone"` when no pointer leads to the source any more |
| `delivered` | what `write()` was able to give to the target |
| `batch` | the events of the two descriptors in the current round |
| `listed` | is the session in `session_list` |
| `errors`, `mishaps` | read errors elsewhere (bounded by `MaxErrors`); what has gone wrong: a late round, or one of the five ways to lose bytes |

The five ways are a short write, an overrun, a target that is `NULL`
(`session.c:465`), a read taken for a `PORT` command and replaced by the proxy's
own line (`server.c:263-276`, for uploads too, whose target that overwrites),
and a target whose pointer a new socket overwrote. A round offers any subset of
the two events, since `epoll_wait` takes at most 256, and a read error of another
session abandons what is left of it; the listening socket that uploads wait for
is never writable. An overrun writes past the block: the process may die of it
(`running`) or go on.

### PortCommand

A text is what one read holds: its first word, the fields between separators,
whether these are all commas, whether the line end was read, whether more
stands behind it, and how the numbers of the host are written. That is all the
two parsers tell apart: `is_port_command`
counts separators with a hexadecimal digit before each, and
`get_address_from_port_command` wants commas, numbers and nothing behind.
`Short` and `Ulong` are the widths of `port` and `val`. The client's command
comes whole or cut at any field, before a number, behind it, or before its last
digit. The FTP server (external) reads lines and does what RFC 959 says;
`LineEnds` says whether it takes the bare LF of the proxy's own lines for the
end of one. `notation` says how the numbers of the host are written: FTP reads
010 as 10, `inet_aton` (external, `utils.c:187`) as octal 8, refuses 08, and
accepts 0x, which FTP does not.

### Lifetime

`pc` is the next call of `main()` or `option_free`; `held` are the files,
descriptors and blocks acquired and not released, and `pointers` the pointers by
which `log_free` and `option_free` decide what to release: a release of something
not held is recorded as `"double_free"`. `links` maps every
`struct list` to its two pointers; the macros change it pointer by pointer.
`server_order` and `session_order` are histories: the sequences the lists are
meant to be, which no action reads except to choose a session. `item` and
`back` are the variables of `list_for_each_entry_safe`. A line is its key and
its address, `"bad"` for one that `inet_addr` refuses or that has no port.
`epoll_fd` starts as `"stdin"`, because `memset` leaves 0 in it.

## Runs

| Run | Instance | Shows |
|---|---|---|
| `one_session` | 1 client, 5 descriptors, 3 chunks or data dials | ownership, routing, `PORT` and teardown through whole transfers |
| `two_sessions` | 2 clients, 4 descriptors, 1 chunk, slow peers, failing calls | ownership, registration, routing, what ends sessions and the refinement of `SessionPromise`, when numbers move between sessions and error paths run in between |
| `flushed_and_torn_down` | 1 client, 4 descriptors, 2 chunks, failing calls, fair | replies flushed, broken sessions removed; the refinement through transfers, where `s_conn` is opened |
| `stale_event` | 2 clients, 5 descriptors | *violation*: EAGAIN on a recycled number tears down a healthy session |
| `second_add` | 1 client, fair, `EEXIST` | *violation*: nobody is served |
| `uploads_lost` | 1 client, 5 descriptors, 3 chunks | *violation*: uploads are buffered for the listening socket |
| `pool` | 3 threads, semaphore 0 or 1, fair | promise to `main()`, queue not freed under users, no lost wake-up, shutdown ends |
| `pool_uninitialised_pull` | 2 threads, semaphore 0 or 1 | *violation*: `NULL` job pulled |
| `pool_use_after_free` | 2 threads, semaphore 0 | *violation*: pool freed under a thread |
| `relay` | 4 directions, reads of 2, data buffer of 4, 5 bytes, 1 error elsewhere, fair | what is delivered, what may be lost, when a buffer fits, that it drains |
| `port` | 1004 commands, every cut, 5 listening ports, fair | where the proxy connects and where the server dials |
| `lifetime` | files of up to 2 lines, 2 server cells, 3 sessions, fair | lists, start-up failures, what is given back |

Why these bounds. A session needs two descriptors for its commands and three
for a transfer, so with five descriptors one transfer completes and a second
`PORT` meets the limit; three units of traffic are a `PORT` command, the
server's dial, and bytes either way (or a second `PORT`). With four descriptors
two sessions fill the table, so every teardown hands its numbers to the other
one; they do not leave room for both to transfer data at once, which only the
proofs cover. One chunk of traffic there is a command, a reply or a `PORT`
command, never a whole transfer: transfers are in `one_session` and
`flushed_and_torn_down`, and for several sessions in the proofs. The latter run
has one client: that an accept, a flush or a teardown comes in a later round when
another session's read error has abandoned the batch it was due in is not
checked. Three threads give one that works, one that starts late and one that
waits; every property of the pool is about at most two of them and `main()`.
In `relay` a read of two bytes can be short, the data buffer holds exactly the
two reads the program relies on, and five bytes are enough for a third read to
overrun it. In `port` the numbers are 0, one digit, the sign bits, 255, 256 and
one that wraps, and letters of both kinds, in both port fields (and the hosts
at their limits); `Ulong` is 2^16 there so that a number can wrap. In
`lifetime` three sessions give a removal from the middle, two lines a first and
a last server; a third line would add only its length. The proofs remove the
bounds for the safety properties.

`CHECK_DEADLOCK FALSE` everywhere: `epoll_wait` blocks for ever when every peer
has stopped, a `PORT` command is over when it is answered, and the process ends.

### Properties

* `FdOwnership`: a pointer of a listed session is an open descriptor that faces
  that party of that session.
* `PolledWhileOwned`: and it is registered with epoll.
* `NoCommandOrphan`: no command connection stays open outside a session. Data
  connections do (`server_free`), which the model contains.
* `RelayStaysInSession`: bytes are buffered only for the opposite end of the
  connection they came from, uploads at least for the server side of their own
  session. `UploadsReachServer`, that uploads are buffered for the server's data
  connection, is false (`uploads_lost`).
* `PortNamesListener`: a rewritten `PORT` that still waits names a live
  listener. One that a second `PORT` replaced is still live, though nobody
  accepts on it; the property does not say more.
* `TeardownJustified`: a session goes only after a close or a reset of one of
  its connections, or when its client's `PORT` command meets a shortage.
  It holds with one client, fails with two (`stale_event`).
* `TeardownsExplained`: how far it fails. With any number of clients an event
  goes stale only in a step that removes a session, and a session goes without
  a cause of its own only while the batch holds a stale event.
* `SessionsKeptApart`: `FtpProxy` implements `SessionPromise`; uploads may get
  lost, nothing else may.
* `ClientServed`: every client that dials gets a session with a server; false on
  Linux (`second_add`).
* `CommandFlushed`, `TeardownCompletes`: liveness, "or the process has died" because `SIGPIPE` is not ignored. The first says that the
  buffer is emptied, not that the peer got the bytes: short writes lose the rest.
* `PromiseKept`: `ThreadPool` implements `JobPromise`.
* `QueueOutlivesUsers`, `PullFindsJob`, `PoolOutlivesThreads`: memory of the
  pool and its one job.
* `NoLostWakeUp`: a queued job is posted or about to be pulled, and a blocked
  `main()` has a queued job or a thread at work, which will signal it.
* `JobTaken`, `MainResumes`, `Shutdown`: and the wake-ups come. `JobTaken` and
  `MainResumes` say "or the process has died", which it does of a semaphore
  that starts at 1.
* `InOrder`: the target never gets a byte twice, out of order or unread.
* `Lossless`: while the session lives, bytes are lost in the five ways above and
  in no other; a late or abandoned round loses none.
* `DataBufferFits`: a data buffer is overrun only after a round that did not
  bring the target's `EPOLLOUT` to its handler.
* `TeardownLosesOneRead`: what the end of the session costs a draining target,
  unless a `PORT` command that could not be served ended it.
* `Drained`: buffered bytes do not stay, except uploads, which do.
* `ConnectsWhereMeant`: a command in one read is connected to where it says.
  Numbers that wrap `unsigned long`, a missing last number, 0x, and numbers above
  7 with a leading zero are excepted: they are accepted and connect elsewhere, or
  refused. So are cut commands: of two reads neither is taken for a command, or,
  cut inside the last number, the first is, with another port.
* `ServerDialsListener`: the server dials the proxy's listener if one was
  opened, also when the command was cut.
* `ProperCommandConnects`: no command in capitals, alone in its read and with a
  host both read alike, slips through without a connection to the client. FTP
  asks for none of that: "port" in small letters and a command with another
  behind it are forwarded and nobody connects.
* `ServerGetsALine`: when the reads of a command that means an address have
  been handled, the server has a whole line that means one.
* `CommandAnswered`: every command that means an address makes the server dial.
  Both hold of a server that takes a bare LF; one that wants CRLF, as RFC 959
  says, waits for the rest of the proxy's line (`utils.c:127`).
* `ListsAgree`: both lists are their sequences, forwards and backwards.
* `HeadServes`: sessions get the server of the last good line. All of them: the
  program's README promises to spread the load over the servers, and
  `server_get_available_address` (`server.c:383`) does not.
* `ServingIsWhole`: what a serving program holds and has read.
* `OrderlyExit`: a program that has served releases nothing twice and nothing it
  does not hold, and exits with nothing held but the memory of its sessions:
  `session_remove_from_list` never frees a `struct session`, the model keeps it in
  `live`, and the property excepts it openly. Nothing is said of a program that
  failed to start: it may close descriptor 0 or free a socket twice, and the model
  contains both.
* `NoUseAfterFree`, `FreeTerminates`: the two walks of `option_free`.

### Fairness

`WF_vars(session_polling)`: `main_loop` is `while (TRUE)` around a blocking
`epoll_wait`, so an event that is ready is taken in some round and every event
of a round is handled or abandoned by the code itself. `ConnectSettles` is fair
because TCP ends every `connect()`. Nothing is assumed of clients and servers.
For the pool, every thread and `main()` are weakly fair (the scheduler), but
`JobReturns` is not: `main_loop` returns only if `epoll_wait` fails.

In `Relay` the handling of a round is weakly fair for the same reason as
`session_polling`. That rounds with the target's `EPOLLOUT` come again and again
is strongly fair: the kernel's ready list is a queue, so a descriptor that
stays ready is offered however many compete for the 256 places. It presupposes
a target that drains; `Drained` says nothing about one that never does, and of
the listening socket uploads wait for nothing is assumed: no round offers it. In
`PortCommand` reads are polled and the server acts on lines it has. In
`Lifetime` only `main_free` is fair: `main()` runs, but nothing ends the main
loop.

## Proofs

`FtpProxyProofs`, for every number of descriptors and clients, both values of
every switch and every server list:

* `TypeCorrect`, `PointersOwnTheirDescriptors`, `LiveSocketsArePolled`,
  `CommandConnectionsNeverLeak`, `BytesStayInSession` (which lets uploads wait on
  the listener, where the code puts them), `PortCommandsNameListeners`.

The inductive invariant is `TypeOK /\ Owned /\ Relayed`. `FdOwnership` is not
inductive alone: removing a session closes what its pointers name, so another
session must not share them. That follows from the `end` every socket records
(a ghost of who is at the other side), and `Paired` and `Admitted` add that a
listed session has both command sockets and that no socket faces a client not
accepted yet, so that `AddSession` makes the only one. `Relayed` needs
`FreeIsEmpty`: a recycled number starts with an empty buffer. The argument goes
by the shape of steps: a step leaves sockets alone, opens one for one session,
removes a session, or closes one data connection; each shape is proved once
and each action is shown to have one.

`SessionProofs`, under the same assumptions, that is none:

* `TeardownsAreExplained`. It adds `Sound` to the invariant: the batch has one
  event for each descriptor (so the handler of an event takes the only one that
  its read could falsify), and only the listener of a session listens (so that
  nobody is read where `accept` is due). Removing a session is the only step
  that closes descriptors other events of the batch may be about:
  `server_data_closed` closes the one its own event is about.
* `OneClientTornDownForCause`: with `MaxClients <= 1`, `TeardownJustified`. The
  assumption is the theorem's own: with two it is false. The invariant
  (`Punctual`) is that no event of the batch is stale until the session goes.
* `SessionsImplementPromise`. One lemma for each action of `SessionPromise`
  (`BeginMaps`, `CarryMaps`, `FlushMaps`, ...) shows that the actions of
  `FtpProxy` mapped to it change the three mapped functions in one place:
  `HeldApart` (from `FdOwnership`: no two pointers name one descriptor) says
  that a step on one descriptor is seen by one connection of one session,
  `FreeIsEmpty` that an opened one starts empty, and `CarryMaps` covers the
  `PORT` command with up to two sockets opened in the same step. Polling,
  unknown descriptors and settled connects are stuttering steps.

`ThreadPoolProofs`, for any finite set of threads:

* `TypeCorrect`, `QueueNeverFreedUnderUser`, `WakeUpsAreNotLost` and
  `PoolKeepsPromise`, whatever the semaphore starts with;
* `AtMostOnePullInVain`, whatever the semaphore starts with: `PullFindsJob` is
  false (`pool_uninitialised_pull`), but no two threads ever both pull in vain;
* `OnlyTheLastUnlockRaces`, under the assumption that every thread has counted
  itself before the pool is told to stop: a freed pool is then touched by one
  thread at most, the last, which still has to unlock its mutex. It says how far
  the flaw `pool_use_after_free` shows reaches: of its two races, a thread that
  was never waited for and this unlock, only the second is left. Its own
  invariants are `Departed` (once `drain` is over every thread has counted
  itself out) and `OneUnlocks` (the thread about to unlock holds the mutex).

The invariant `Inv` adds to the types what the counters count (`Counting`: they
are cardinalities of sets of threads), what `main()` has told the threads
(`Stopping`) and where the job is (`JobPlace`). The counters' bounds,
`thread_pool_free`'s reading "0 means nobody is inside", and that the last
thread to finish knows it is the last and signals `main()`, rest on `Counting`;
that late starters do no harm to the queue rests on `Stopping`: they see
`threads_keep_alive` FALSE. `Tokens` says that the value of the semaphore plus
the threads it let through never exceed the jobs by more than one, as long as
the pool is kept, and `Vain` that the threads nothing keeps from pulling never
do, even then.

`RelayProofs`, for any sizes with `DataSize >= 2 * ReadSize`: all five
invariants. They follow from one about positions: what is delivered and what is
buffered, put together, ascends and ends at or before `got`; without a mishap it
is exactly `1 .. got`; the bytes of the proxy's own lines are passed over.
`DataBufferFits` needs that between two flushes at most
two reads happen, which the set `batch` bounds.

`PortCommandProofs`, for any commands, hosts and listening ports: the five
invariants, and `WrittenReadsBack`, that `get_address_from_port_command` undoes
`generate_port_command` for every address. The arithmetic of the shifted
`short` is a chain of lemmas about `% 65536`; `inet_aton` is shown to give
back a host that is written plainly; what is glued together from two
reads is shown to mean what the whole command means.

`IntrusiveListProofs`: `AddPutsFirst` and `DelTakesOut`, for any memory. They
rest on what each macro does pointer by pointer (`AddEffect`, `DelEffect`), on
the ring passing no node twice, and on a frame lemma: a list does not notice
what happens outside the nodes it passes.

`LifetimeProofs`, for any file, servers, cells and sessions: the six
invariants. `Inv` is inductive because it adds to them what is held at every
step of an undisturbed life (`Holding`, `Releasing`), which memory is allocated
(`Allocation`: only members of a list are, so that a new node is in none), where
the cursors are (`Walk`), which pointers are set (`Pointing`: those to what is
held, so that no release is a second one), and what the lines read so far have
left (`Reading`).
`ListsAgree` needs `Allocation` for `LIST_ADD` and the separation of the two
rings for the frame; `NoUseAfterFree` needs `Walk`: the look-ahead pointer names
a cell that is still allocated, or the head.

Proved with TLAPS are thus all invariants of the passing runs, both refinements
and both action properties (`TeardownJustified` for one client, where it holds).
The liveness properties (`CommandFlushed`, `TeardownCompletes`,
`JobTaken`, `MainResumes`, `Shutdown`, `Drained`, `CommandAnswered`,
`FreeTerminates`) are model-checked: liveness under fairness is out of the
prover's reach. What of them is safety is proved beside them: `NoLostWakeUp`
for `JobTaken` and `MainResumes`, `ServerGetsALine` for `CommandAnswered`.

## Not modelled

* Failures of `malloc` and `fcntl` outside start-up, of `setsockopt`,
  `getsockname` and `pthread_create`; `EINTR`.
* What a socket's second half does inside `FtpProxy`: its buffers are chunks,
  and `Relay` has one direction. An overrun there destroys the heap in a way
  that is modelled only as "the process may die".
* What the commands pipelined behind a `PORT` command are: `Relay` loses their
  bytes with the rewritten read, `PortCommand` only knows that there was more.
* Lengths: keys of more than 31 characters, hosts of more than 31, lines of more
  than 4095; ports in `proxy.cfg` (`atoi`).
* The end of a transfer leaves the listening socket open (`server.c:403` frees
  `connection_socket` twice over instead of `data_socket`): `FtpProxy` has it,
  and no property states the contrary.
* Output: `proxy_error`; and what is never called: `server_data_received`,
  `packet_full_read`, `log_write`, `create_option_file`, the other macros of
  `list.h`.
