------------------------------ MODULE FtpProxy ------------------------------
(***************************************************************************)
(* The event loop of the proxy: main_loop polls one epoll descriptor and   *)
(* handles one event at a time (session.c), creating and freeing the       *)
(* sockets of the client side (client.c) and of the server side (server.c) *)
(* of every session.                                                       *)
(*                                                                         *)
(* Descriptors are the numbers 1..MaxFd and the kernel hands out the       *)
(* lowest free one, so a closed number comes back.  A socket structure     *)
(* owns exactly one descriptor, so a socket pointer is the number of its   *)
(* descriptor, NULL when the pointer is NULL.                              *)
(***************************************************************************)
EXTENDS Integers, Sequences, FiniteSets

CONSTANTS
    MaxFd,            (* descriptors the process may hold besides its own    *)
    MaxClients,       (* clients that ever dial the proxy (bound)            *)
    MaxTraffic,       (* chunks sent and data ports dialled (bound)          *)
    SlowPeers,        (* may a peer stop draining its connection?            *)
    CallsMayFail,     (* may socket/connect/bind/listen/epoll_ctl fail?      *)
    DuplicateAdd,     (* "EEXIST" (Linux) or "OK": a second EPOLL_CTL_ADD    *)
    ServerAddresses   (* the server_address lines of proxy.cfg, in order     *)

ASSUME ConstantsAssumption ==
    /\ MaxFd \in Nat /\ MaxClients \in Nat /\ MaxTraffic \in Nat
    /\ SlowPeers \in BOOLEAN /\ CallsMayFail \in BOOLEAN
    /\ DuplicateAdd \in {"EEXIST", "OK"}
    /\ ServerAddresses # <<>>

NULL == -1
ProxySocket == 0
Fds == 1 .. MaxFd
Sessions == 1 .. MaxClients

(* The five socket pointers of a session, in struct client and struct      *)
(* server: command_socket and data_socket of the client; command_socket,   *)
(* data_socket (a listening socket) and connection_socket of the server.   *)
Roles == {"c_cmd", "c_data", "s_cmd", "s_data", "s_conn"}
NoSockets == [r \in Roles |-> NULL]

(* What one read() of a peer's bytes can return, as is_port_command and    *)
(* get_address_from_port_command tell it apart: a PORT command they both   *)
(* accept, one that only the first accepts, anything else.                 *)
Kinds == {"PORT", "BADPORT", "OTHER"}

(* A chunk in a socket's buffer: who sent it, and for a rewritten PORT     *)
(* command the listening descriptor it names.                              *)
Chunks == [from : Sessions \X Roles, kind : Kinds, names : Fds \cup {NULL}]

Events == [fd : Fds \cup {ProxySocket}, in : BOOLEAN, out : BOOLEAN]
ListenEvent == [fd |-> ProxySocket, in |-> TRUE, out |-> FALSE]

VARIABLES
    sock,          (* kernel: descriptor -> socket                           *)
    epoll,         (* kernel: descriptors registered with epoll_fd           *)
    buf,           (* socket->buffer of the descriptor's socket structure    *)
    session,       (* session -> its five socket pointers                    *)
    session_list,  (* option->session_list                                   *)
    events,        (* the events of the last epoll_wait not handled yet      *)
    arrived,       (* clients that have dialled the proxy                    *)
    accepted,      (* clients accept() has returned                          *)
    assigned,      (* session -> address its server side was given           *)
    told,          (* listening descriptors whose address a server was sent  *)
    traffic,       (* chunks sent and ports dialled so far                   *)
    running        (* FALSE once the process has died                        *)

kernel == <<sock, epoll>>
peers == <<arrived, traffic>>
vars == <<sock, epoll, buf, session, session_list, events,
          arrived, accepted, assigned, told, traffic, running>>

NoEnd == <<0, "none">>
FreeSocket == [st |-> "free", end |-> NoEnd, rx |-> "none",
               fin |-> FALSE, queue |-> 0]

Init ==
    /\ sock = [f \in Fds |-> FreeSocket]
    /\ epoll = {}
    /\ buf = [f \in Fds |-> <<>>]
    /\ session = [s \in Sessions |-> NoSockets]
    /\ session_list = {}
    /\ events = {}
    /\ arrived = 0
    /\ accepted = 0
    /\ assigned = [s \in Sessions |-> "none"]
    /\ told = {}
    /\ traffic = 0
    /\ running = TRUE

-----------------------------------------------------------------------------
(* The kernel.                                                             *)

(* The socket at descriptor f faces the party <<s, r>>: the client of      *)
(* session s on its command or data connection, its server on its command  *)
(* or data connection; a listening socket waits for the server's data      *)
(* connection.                                                             *)
NewSocket(s, r, st) ==
    [st |-> st, end |-> <<s, r>>, rx |-> "none", fin |-> FALSE, queue |-> 0]

Lowest(n, sk) ==
    /\ n \in Fds
    /\ sk[n].st = "free"
    /\ \A k \in Fds : k < n => sk[k].st # "free"

Exhausted(sk) == \A n \in Fds : sk[n].st # "free"

(* socket_free: shutdown and close, which also leaves the epoll set.       *)
SockClosed(C) == [f \in Fds |-> IF f \in C THEN FreeSocket ELSE sock[f]]
MutantBufKept(C) == buf

BufFreed(C) == [f \in Fds |-> IF f \in C THEN <<>> ELSE buf[f]]

MutantNotRegistered(ep, f) == ep

(* socket_add_to_epoll *)
Registered(ep, f) == ep \cup {f}

InReady(f) ==
    \/ sock[f].st = "listening" /\ sock[f].queue > 0
    \/ sock[f].st = "up" /\ (sock[f].rx # "none" \/ sock[f].fin)
    \/ sock[f].st = "reset"

OutReady(f, stalled) ==
    \/ sock[f].st = "up" /\ f \notin stalled
    \/ sock[f].st = "reset"

EventOf(f, stalled) ==
    [fd |-> f, in |-> InReady(f), out |-> OutReady(f, stalled)]

(* The proxy's listening socket has a connection to accept. *)
DialPending == arrived > accepted

(* epoll_wait, level triggered: every registered descriptor that is ready, *)
(* and EPOLLOUT on every connection whose peer is draining it.  The events *)
(* are a set: handlers take them in any order.                             *)
Poll ==
    /\ running /\ events = {}
    /\ \E stalled \in IF SlowPeers THEN SUBSET Fds ELSE {{}} :
         events' = {EventOf(f, stalled) : f \in {g \in epoll :
                       InReady(g) \/ OutReady(g, stalled)}}
                   \cup (IF DialPending THEN {ListenEvent} ELSE {})
    /\ events' # {}
    /\ UNCHANGED <<kernel, buf, session, session_list, accepted, assigned,
                   told, peers, running>>

-----------------------------------------------------------------------------
(* Accepting a client.                                                     *)

(* server_insert_address puts every configured address at the head, and    *)
(* server_get_available_address returns the head.                          *)
server_get_available_address == ServerAddresses[Len(ServerAddresses)]

(* accept() finds no free descriptor. *)
AcceptFails ==
    /\ running /\ ListenEvent \in events
    /\ Exhausted(sock)
    /\ events' = events \ {ListenEvent}
    /\ UNCHANGED <<kernel, buf, session, session_list, accepted, assigned,
                   told, peers, running>>

(* server_create gets no socket, connect() fails at once, or the second    *)
(* registration of the connected socket is refused; the client is closed.  *)
(* server_free then frees pointers server_create has not set yet: the      *)
(* process may survive that or not.                                        *)
ServerCreateFails ==
    /\ running /\ ListenEvent \in events
    /\ \E n \in Fds :
         /\ Lowest(n, sock)
         /\ \/ Exhausted([sock EXCEPT ![n] = NewSocket(accepted + 1, "c_cmd", "up")])
            \/ CallsMayFail
            \/ DuplicateAdd = "EEXIST"
    /\ accepted' = accepted + 1
    /\ events' = events \ {ListenEvent}
    /\ running' \in BOOLEAN
    /\ UNCHANGED <<kernel, buf, session, session_list, assigned, told, peers>>

MutantAcceptsAgain ==
    /\ running /\ ListenEvent \in events
    /\ DuplicateAdd = "OK"
    /\ LET s == accepted + 1
       IN  \E n, m \in Fds :
             LET sk == [sock EXCEPT ![n] = NewSocket(s, "c_cmd", "up")]
             IN  /\ Lowest(n, sock)
                 /\ Lowest(m, sk)
                 /\ sock' = [sk EXCEPT ![m] = NewSocket(s, "s_cmd", "connecting")]
                 /\ epoll' = Registered(Registered(epoll, n), m)
                 /\ session' = [session EXCEPT
                      ![s] = [NoSockets EXCEPT !["c_cmd"] = n, !["s_cmd"] = m]]
                 /\ session_list' = session_list \cup {s}
                 /\ assigned' = [assigned EXCEPT
                                   ![s] = server_get_available_address]
    /\ accepted' = accepted + 1
    /\ UNCHANGED <<events, buf, told, peers, running>>

(* add_session_to_list: the client's descriptor n, the server's m. *)
AddSession ==
    /\ running /\ ListenEvent \in events
    /\ DuplicateAdd = "OK"
    /\ LET s == accepted + 1
       IN  \E n, m \in Fds :
             LET sk == [sock EXCEPT ![n] = NewSocket(s, "c_cmd", "up")]
             IN  /\ Lowest(n, sock)
                 /\ Lowest(m, sk)
                 /\ sock' = [sk EXCEPT ![m] = NewSocket(s, "s_cmd", "connecting")]
                 /\ epoll' = Registered(Registered(epoll, n), m)
                 /\ session' = [session EXCEPT
                      ![s] = [NoSockets EXCEPT !["c_cmd"] = n, !["s_cmd"] = m]]
                 /\ session_list' = session_list \cup {s}
                 /\ assigned' = [assigned EXCEPT
                                   ![s] = server_get_available_address]
    /\ accepted' = accepted + 1
    /\ events' = events \ {ListenEvent}
    /\ UNCHANGED <<buf, told, peers, running>>

-----------------------------------------------------------------------------
(* Finding the session of an event, and freeing one.                       *)

(* is_socket_in_session *)
Owns(s, f) == \E r \in Roles : session[s][r] = f

(* The event e is handled for session s: get_session_from_list. *)
Handles(e, s) ==
    /\ running /\ e \in events
    /\ s \in session_list /\ Owns(s, e.fd)

(* "Unknown socket fd" *)
UnknownSocket(e) ==
    /\ running /\ e \in events
    /\ \A s \in session_list : ~Owns(s, e.fd)
    /\ events' = events \ {e}
    /\ UNCHANGED <<kernel, buf, session, session_list, accepted, assigned,
                   told, peers, running>>

MutantClientKept(s) ==
    {session[s][r] : r \in {"c_data", "s_cmd", "s_data"}} \ {NULL}

(* What client_free and server_free close: connection_socket is not among  *)
(* them.                                                                   *)
SocketsFreed(s) ==
    {session[s][r] : r \in {"c_cmd", "c_data", "s_cmd", "s_data"}} \ {NULL}

MutantStaysListed(s, C, gone) ==
    /\ sock' = SockClosed(C)
    /\ buf' = BufFreed(C)
    /\ epoll' = epoll \ (C \cup gone)
    /\ told' = told \ C
    /\ session' = [session EXCEPT ![s] = NoSockets]
    /\ UNCHANGED session_list

MutantNotUnlinked(s, C, gone) ==
    /\ sock' = SockClosed(C)
    /\ buf' = BufFreed(C)
    /\ epoll' = epoll \ (C \cup gone)
    /\ told' = told \ C
    /\ UNCHANGED <<session, session_list>>

(* session_remove_from_list: client_free and server_free close the         *)
(* descriptors C; gone is what left the epoll set before.                  *)
session_remove_from_list(s, C, gone) ==
    /\ sock' = SockClosed(C)
    /\ buf' = BufFreed(C)
    /\ epoll' = epoll \ (C \cup gone)
    /\ told' = told \ C
    /\ session' = [session EXCEPT ![s] = NoSockets]
    /\ session_list' = session_list \ {s}

-----------------------------------------------------------------------------
(* The write half of an event: session_write_packet.                       *)

Names(b) == {b[i].names : i \in DOMAIN b} \ {NULL}

(* How many of the buffered chunks the peer gets: packet_full_write stops  *)
(* at the first error, and the buffer is emptied whatever it returned.     *)
Written(f, b) ==
    IF sock[f].st # "up" THEN {0}
    ELSE IF SlowPeers THEN 0 .. Len(b[f]) ELSE {Len(b[f])}

(* The write() raises SIGPIPE, which nothing ignores: always on a listening *)
(* socket, on a reset one when the reset has been reported before.         *)
Survives(f, b) ==
    IF b[f] = <<>> THEN {TRUE}
    ELSE CASE sock[f].st = "listening" -> {FALSE}
           [] sock[f].st = "reset"     -> BOOLEAN
           [] OTHER                    -> {TRUE}

MutantKeepsBuffer(e, b) ==
    IF e.out
    THEN /\ buf' = b
         /\ \E n \in Written(e.fd, b) :
              told' = told \cup Names(SubSeq(b[e.fd], 1, n))
         /\ running' \in Survives(e.fd, b)
    ELSE /\ buf' = b
         /\ UNCHANGED <<told, running>>

(* b is the buffers after the read half. *)
session_write_packet(e, b) ==
    IF e.out
    THEN /\ buf' = [b EXCEPT ![e.fd] = <<>>]
         /\ \E n \in Written(e.fd, b) :
              told' = told \cup Names(SubSeq(b[e.fd], 1, n))
         /\ running' \in Survives(e.fd, b)
    ELSE /\ buf' = b
         /\ UNCHANGED <<told, running>>

WriteOnly(e, s) ==
    /\ Handles(e, s)
    /\ ~e.in
    /\ session_write_packet(e, buf)
    /\ events' = events \ {e}
    /\ UNCHANGED <<kernel, session, session_list, accepted, assigned, peers>>

-----------------------------------------------------------------------------
(* The read half of an event.                                              *)

(* server_accept: the server's data connection n; an earlier one is        *)
(* overwritten, not closed.                                                *)
server_accept(e, s) ==
    /\ Handles(e, s)
    /\ e.in /\ e.fd = session[s]["s_data"]
    /\ sock[e.fd].queue > 0
    /\ \E n \in Fds :
         /\ Lowest(n, sock)
         /\ sock' = [sock EXCEPT ![e.fd].queue = @ - 1,
                                 ![n] = NewSocket(s, "s_conn", "up")]
         /\ epoll' = Registered(epoll, n)
         /\ session' = [session EXCEPT ![s]["s_conn"] = n]
    /\ events' = events \ {e}
    /\ UNCHANGED <<buf, session_list, accepted, assigned, told, peers, running>>

(* The accepted socket cannot be registered: nothing points to it, nothing *)
(* frees it, and epoll never reports it.                                   *)
ServerAcceptUnregistered(e, s) ==
    /\ Handles(e, s)
    /\ e.in /\ e.fd = session[s]["s_data"]
    /\ CallsMayFail /\ sock[e.fd].queue > 0
    /\ \E n \in Fds :
         /\ Lowest(n, sock)
         /\ sock' = [sock EXCEPT ![e.fd].queue = @ - 1,
                                 ![n] = NewSocket(s, "s_conn", "up")]
    /\ events' = events \ {e}
    /\ UNCHANGED <<epoll, buf, session, session_list, accepted, assigned,
                   told, peers, running>>

ServerAcceptFails(e, s) ==
    /\ Handles(e, s)
    /\ e.in /\ e.fd = session[s]["s_data"]
    /\ sock[e.fd].queue = 0 \/ Exhausted(sock)
    /\ events' = events \ {e}
    /\ UNCHANGED <<kernel, buf, session, session_list, accepted, assigned,
                   told, peers, running>>

MutantReadsOnWrite(e, s) == Handles(e, s) /\ e.fd # session[s]["s_data"]

Reads(e, s) == Handles(e, s) /\ e.in /\ e.fd # session[s]["s_data"]

(* What packet_read returns: some bytes, 0, or -1 (also when there is      *)
(* nothing to read: the descriptor does not block).                        *)
ReadResult(f) ==
    IF sock[f].rx # "none" THEN "bytes"
    ELSE IF sock[f].st = "up" /\ sock[f].fin THEN "closed"
    ELSE "error"

(* A read error removes the session and abandons the rest of the events. *)
ReadError(e, s) ==
    /\ Reads(e, s)
    /\ ReadResult(e.fd) = "error"
    /\ session_remove_from_list(s, SocketsFreed(s), {e.fd})
    /\ events' = {}
    /\ UNCHANGED <<accepted, assigned, peers, running>>

(* End of file on a command connection or on the client's data connection. *)
ReadClosed(e, s) ==
    /\ Reads(e, s)
    /\ ReadResult(e.fd) = "closed"
    /\ e.fd # session[s]["s_conn"]
    /\ session_remove_from_list(s, SocketsFreed(s), {e.fd})
    /\ events' = events \ {e}
    /\ UNCHANGED <<accepted, assigned, peers, running>>

MutantPointerKept(p) == p

MutantListenerForgotten(p) == [p EXCEPT !["s_conn"] = NULL, !["s_data"] = NULL]

(* The pointers server_data_closed leaves: it frees the server's data      *)
(* connection; the listening socket and the client's data socket stay.     *)
DataClosedPointers(p) == [p EXCEPT !["s_conn"] = NULL]

server_data_closed(e, s) ==
    /\ Reads(e, s)
    /\ ReadResult(e.fd) = "closed"
    /\ e.fd = session[s]["s_conn"]
    /\ sock' = SockClosed({e.fd})
    /\ buf' = BufFreed({e.fd})
    /\ epoll' = epoll \ {e.fd}
    /\ session' = [session EXCEPT ![s] = DataClosedPointers(@)]
    /\ events' = events \ {e}
    /\ UNCHANGED <<session_list, accepted, assigned, told, peers, running>>

Received(sk, f) == [sk EXCEPT ![f].rx = "none"]

(* session_buffer_write: without a target socket the chunk is dropped. *)
session_buffer_write(target, c) ==
    IF target = NULL THEN buf ELSE [buf EXCEPT ![target] = Append(@, c)]

Chunk(s, r, kind, names) == [from |-> <<s, r>>, kind |-> kind, names |-> names]

(* The bytes of role r that are neither a client's PORT command nor        *)
(* client data go to the socket `to` of the same session.                  *)
Forward(e, s, r, to) ==
    /\ Reads(e, s)
    /\ ReadResult(e.fd) = "bytes"
    /\ e.fd = session[s][r]
    /\ session_write_packet(e, session_buffer_write(session[s][to],
                                 Chunk(s, r, sock[e.fd].rx, NULL)))
    /\ sock' = Received(sock, e.fd)
    /\ events' = events \ {e}
    /\ UNCHANGED <<epoll, session, session_list, accepted, assigned, peers>>

server_command_received(e, s) == Forward(e, s, "s_cmd", "c_cmd")

MutantCrossRoute(e, s) == Forward(e, s, "s_conn", "c_cmd")

server_data_connection_received(e, s) == Forward(e, s, "s_conn", "c_data")

client_command_received(e, s) ==
    sock[e.fd].rx = "OTHER" /\ Forward(e, s, "c_cmd", "s_cmd")

client_data_received(e, s) ==
    sock[e.fd].rx = "OTHER" /\ Forward(e, s, "c_data", "s_data")

(* client_connect gets no socket or no connection: the session is removed, *)
(* the events go on.                                                       *)
PortConnectFails(e, s) ==
    /\ Reads(e, s)
    /\ sock[e.fd].rx = "PORT"
    /\ e.fd = session[s]["c_cmd"]
    /\ Exhausted(sock) \/ CallsMayFail
    /\ session_remove_from_list(s, SocketsFreed(s), {})
    /\ events' = events \ {e}
    /\ UNCHANGED <<accepted, assigned, peers, running>>

(* client_connect cannot register the socket it connected: it frees it but *)
(* leaves data_socket pointing to it, so client_free frees it again - the  *)
(* process may survive that or not - and the socket of an earlier PORT     *)
(* command, which the pointer no longer names, stays open.                 *)
PortRegisterFails(e, s) ==
    /\ Reads(e, s)
    /\ sock[e.fd].rx = "PORT"
    /\ e.fd = session[s]["c_cmd"]
    /\ CallsMayFail /\ ~Exhausted(sock)
    /\ session_remove_from_list(s, SocketsFreed(s) \ {session[s]["c_data"]}, {})
    /\ events' = events \ {e}
    /\ running' \in BOOLEAN
    /\ UNCHANGED <<accepted, assigned, peers>>

(* The descriptor server_listen leaves open over sk; NULL when a call      *)
(* failed, the registration included: then the new socket was freed.       *)
Opens(n, sk) == \/ Lowest(n, sk)
                \/ n = NULL /\ (Exhausted(sk) \/ CallsMayFail)

Opened(sk, n, new) == IF n = NULL THEN sk ELSE [sk EXCEPT ![n] = new]
Pointer(p, r, n) == IF n = NULL THEN p ELSE [p EXCEPT ![r] = n]

MutantNamesClientSide(n, m) == n

(* The address generate_port_command writes: the new listening socket m's; *)
(* n is the client's new data socket.                                      *)
PortAddress(n, m) == m

(* is_port_command holds of what arrived on role r: a command of the       *)
(* client, or data that looks like one.  A client's PORT command first     *)
(* connects to the client (n); send_packet_to_server then listens for the  *)
(* server (m), rewrites the bytes when it could, and buffers them for the  *)
(* socket `to` it had looked up before.  Earlier sockets are overwritten,  *)
(* not closed.                                                             *)
send_packet_to_server(e, s, r, to) ==
    /\ Reads(e, s)
    /\ sock[e.fd].rx \in {"PORT", "BADPORT"}
    /\ e.fd = session[s][r]
    /\ \E n, m \in Fds \cup {NULL} :
         LET connected == Opened(sock, n, NewSocket(s, "c_data", "connecting"))
             listening == Opened(connected, m, NewSocket(s, "s_data", "listening"))
         IN  /\ IF r = "c_cmd" /\ sock[e.fd].rx = "PORT"
                THEN Lowest(n, sock) ELSE n = NULL
             /\ Opens(m, connected)
             /\ sock' = Received(listening, e.fd)
             /\ epoll' = Registered(Registered(epoll, n), m) \ {NULL}
             /\ session' = [session EXCEPT
                  ![s] = Pointer(Pointer(@, "c_data", n), "s_data", m)]
             /\ session_write_packet(e, session_buffer_write(session[s][to],
                  Chunk(s, r, sock[e.fd].rx, PortAddress(n, m))))
    /\ events' = events \ {e}
    /\ UNCHANGED <<session_list, accepted, assigned, peers>>

PortCommand(e, s) == send_packet_to_server(e, s, "c_cmd", "s_cmd")
PortLikeData(e, s) == send_packet_to_server(e, s, "c_data", "s_data")

-----------------------------------------------------------------------------
(* The peers: FTP clients and FTP servers.                                 *)

ClientDials ==
    /\ running
    /\ arrived < MaxClients
    /\ arrived' = arrived + 1
    /\ UNCHANGED <<kernel, buf, session, session_list, events, accepted,
                   assigned, told, traffic, running>>

ConnectSettles(f) ==
    /\ running
    /\ sock[f].st = "connecting"
    /\ \E st \in {"up", "reset"} : sock' = [sock EXCEPT ![f].st = st]
    /\ UNCHANGED <<epoll, buf, session, session_list, events, accepted,
                   assigned, told, peers, running>>

KindsFrom(r) ==
    CASE r = "c_cmd"  -> Kinds
      [] r = "c_data" -> {"PORT", "OTHER"}
      [] OTHER        -> {"OTHER"}

PeerSends(f) ==
    /\ running
    /\ traffic < MaxTraffic
    /\ sock[f].st = "up" /\ ~sock[f].fin /\ sock[f].rx = "none"
    /\ \E k \in KindsFrom(sock[f].end[2]) : sock' = [sock EXCEPT ![f].rx = k]
    /\ traffic' = traffic + 1
    /\ UNCHANGED <<epoll, buf, session, session_list, events, arrived,
                   accepted, assigned, told, running>>

PeerCloses(f) ==
    /\ running
    /\ sock[f].st = "up" /\ ~sock[f].fin
    /\ sock' = [sock EXCEPT ![f].fin = TRUE]
    /\ UNCHANGED <<epoll, buf, session, session_list, events, accepted,
                   assigned, told, peers, running>>

PeerResets(f) ==
    /\ running
    /\ sock[f].st = "up"
    /\ sock' = [sock EXCEPT ![f].st = "reset"]
    /\ UNCHANGED <<epoll, buf, session, session_list, events, accepted,
                   assigned, told, peers, running>>

(* A server dials an address it was sent in a PORT command. *)
ServerDials(f) ==
    /\ running
    /\ traffic < MaxTraffic
    /\ f \in told /\ sock[f].queue = 0
    /\ sock' = [sock EXCEPT ![f].queue = 1]
    /\ traffic' = traffic + 1
    /\ UNCHANGED <<epoll, buf, session, session_list, events, arrived,
                   accepted, assigned, told, running>>

-----------------------------------------------------------------------------
Handle(e, s) ==
    \/ WriteOnly(e, s)
    \/ server_accept(e, s)
    \/ ServerAcceptUnregistered(e, s)
    \/ ServerAcceptFails(e, s)
    \/ ReadError(e, s)
    \/ ReadClosed(e, s)
    \/ server_data_closed(e, s)
    \/ server_command_received(e, s)
    \/ server_data_connection_received(e, s)
    \/ client_command_received(e, s)
    \/ client_data_received(e, s)
    \/ PortConnectFails(e, s)
    \/ PortRegisterFails(e, s)
    \/ PortCommand(e, s)
    \/ PortLikeData(e, s)

session_polling ==
    \/ Poll
    \/ AcceptFails
    \/ ServerCreateFails
    \/ AddSession
    \/ \E e \in events \ {ListenEvent} :
          UnknownSocket(e) \/ \E s \in Sessions : Handle(e, s)

Peers ==
    \/ ClientDials
    \/ \E f \in Fds : \/ ConnectSettles(f)
                      \/ PeerSends(f)
                      \/ PeerCloses(f)
                      \/ PeerResets(f)
                      \/ ServerDials(f)

Next == session_polling \/ Peers

(* The loop never stops by itself, and TCP settles every connect().  No    *)
(* peer owes the proxy anything else.                                      *)
Fairness ==
    /\ WF_vars(session_polling)
    /\ \A f \in Fds : WF_vars(ConnectSettles(f))

Spec == Init /\ [][Next]_vars
FairSpec == Spec /\ Fairness

-----------------------------------------------------------------------------
(* Types: descriptors in tables of descriptors, chunks in buffers, sessions *)
(* in the list; a pending accept means a client that waits for it.         *)
Sockets == [st : {"free", "connecting", "up", "reset", "listening"},
            end : (Sessions \X Roles) \cup {NoEnd},
            rx : Kinds \cup {"none"}, fin : BOOLEAN, queue : Nat]

TypeOK ==
    /\ sock \in [Fds -> Sockets]
    /\ epoll \subseteq Fds
    /\ buf \in [Fds -> Seq(Chunks)]
    /\ session \in [Sessions -> [Roles -> Fds \cup {NULL}]]
    /\ session_list \subseteq Sessions
    /\ events \subseteq Events
    /\ arrived \in 0 .. MaxClients /\ accepted \in 0 .. arrived
    /\ ListenEvent \in events => accepted < arrived
    /\ told \subseteq Fds
    /\ traffic \in 0 .. MaxTraffic
    /\ running \in BOOLEAN

(* A socket pointer of a listed session is an open descriptor that faces   *)
(* exactly that party of that session: no pointer outlives its socket, and *)
(* no recycled descriptor is reached through an old pointer, so that       *)
(* get_session_from_list finds the one session an event belongs to         *)
(* (session.c:279, server.c:388, client.c:154).                            *)
FdOwnership ==
    \A s \in session_list : \A r \in Roles :
        session[s][r] # NULL => /\ sock[session[s][r]].st # "free"
                                /\ sock[session[s][r]].end = <<s, r>>

(* Every socket a listed session holds is registered with epoll, across    *)
(* the epoll_ctl of a failed read and the reuse of descriptors: no         *)
(* connection of a live session goes deaf (session.c:131, socket.c:262).   *)
PolledWhileOwned ==
    \A s \in session_list : \A r \in Roles :
        session[s][r] # NULL => session[s][r] \in epoll

(* A command connection is never left open outside a listed session: the   *)
(* teardown paths may leak data sockets (server_free forgets               *)
(* connection_socket) but never a client or a server command connection.   *)
NoCommandOrphan ==
    \A f \in Fds : \A s \in Sessions : \A r \in {"c_cmd", "s_cmd"} :
        sock[f].st # "free" /\ sock[f].end = <<s, r>>
            => s \in session_list /\ session[s][r] = f

(* Where bytes of one connection are to come out, in the same session.     *)
Opposite == [c_cmd |-> "s_cmd", s_cmd |-> "c_cmd",
             s_conn |-> "c_data", c_data |-> "s_conn", s_data |-> "none"]

(* Where bytes of the party <<t, q>> may wait: at the opposite end; what    *)
(* the client uploads at least on the data side of its own server, be it    *)
(* the connection or the listening socket (UploadsReachServer tells them    *)
(* apart).                                                                  *)
MayWaitFor(from) ==
    {<<from[1], Opposite[from[2]]>>}
    \cup (IF from[2] = "c_data" THEN {<<from[1], "s_data">>} ELSE {})

(* Bytes are only ever buffered in the session they came from and on the   *)
(* side they are meant for, even when descriptors are reused between two   *)
(* sessions: no client sees another client's transfer, no server another   *)
(* session's commands.                                                     *)
RelayStaysInSession ==
    \A f \in Fds : \A i \in DOMAIN buf[f] :
        sock[f].end \in MayWaitFor(buf[f][i].from)

(* What the client uploads waits for the server's data connection, as what *)
(* the server sends waits for the client's (README.md:6: it does what      *)
(* HA-PROXY does).  client_data_received names the listening socket        *)
(* instead (client.c:114).                                                 *)
UploadsReachServer ==
    \A f \in Fds : \A i \in DOMAIN buf[f] :
        buf[f][i].from[2] = "c_data" => sock[f].end[2] = "s_conn"

(* The address a rewritten PORT command in a server's command buffer names *)
(* is a socket that is still listening, for that very session: the server  *)
(* can always dial what it is about to be told (server.c:262-276).         *)
PortNamesListener ==
    \A s \in session_list :
        LET b == buf[session[s]["s_cmd"]]
        IN  \A i \in DOMAIN b :
              b[i].names # NULL =>
                 /\ sock[b[i].names].st = "listening"
                 /\ sock[b[i].names].end = <<s, "s_data">>

(* A session is removed only when one of its connections was closed or     *)
(* reset by its peer, or when its client sent a PORT command and there was *)
(* no socket to be had for it: what session_read_packet calls a "Socket    *)
(* error" really is one (session.c:408).                                   *)
Broken(f) == f # NULL /\ (sock[f].fin \/ sock[f].st = "reset")

Justified(s) ==
    \/ \E r \in Roles : Broken(session[s][r])
    \/ /\ sock[session[s]["c_cmd"]].rx = "PORT"
       /\ Exhausted(sock) \/ CallsMayFail

TeardownJustified == [][\A s \in session_list \ session_list' : Justified(s)]_vars

(* What an event of the batch says is still so.                            *)
StillTrue(e) == sock[e.fd].st # "free" /\ (e.in => InReady(e.fd))
Batch == events \ {ListenEvent}

(* The exception to TeardownJustified needs a teardown before it: an event *)
(* goes stale only in a step that removes a session, whatever else is      *)
(* accepted, opened, closed or reset while the batch is handled, and a     *)
(* session is removed without a cause of its own only while the batch      *)
(* holds a stale event (session.c:333, session.c:370).                     *)
TeardownsExplained ==
    [][/\ \A e \in Batch' :
            ~StillTrue(e)' => \/ e \in Batch /\ ~StillTrue(e)
                             \/ session_list \ session_list' # {}
       /\ \A s \in session_list \ session_list' :
            Justified(s) \/ \E e \in Batch : ~StillTrue(e)]_vars

(* What a session looks like to its client and its server: the sockets it  *)
(* holds, what has arrived on each and what waits to be written to it.     *)
(* What waits on a listening socket waits for nobody.                      *)
Held(s, r) == s \in session_list /\ session[s][r] # NULL
KindsOf(b) == [i \in DOMAIN b |-> b[i].kind]

Open == [s \in Sessions |-> {r \in Roles : Held(s, r)}]
Incoming == [s \in Sessions |-> [r \in Roles |->
    IF Held(s, r) THEN sock[session[s][r]].rx ELSE "none"]]
Pending == [s \in Sessions |-> [r \in Roles |->
    IF Held(s, r) /\ r # "s_data" THEN KindsOf(buf[session[s][r]]) ELSE <<>>]]

Promise == INSTANCE SessionPromise WITH
    admitted <- accepted, live <- session_list,
    open <- Open, incoming <- Incoming, pending <- Pending

(* Sessions that share descriptors, epoll and the batch of events behave   *)
(* like sessions that share nothing: bytes other than uploads are carried  *)
(* to the opposite connection of their own session, nothing is carried     *)
(* anywhere else, a step touches one session, and a connection opened      *)
(* again starts afresh (session.c:279, session.c:461).                     *)
SessionsKeptApart == Promise!Spec

(* Everything buffered for a command connection is written or dropped: the *)
(* loop always comes back to a command socket with pending bytes.          *)
CommandFlushed ==
    \A f \in Fds :
        (running /\ buf[f] # <<>> /\ sock[f].end[2] \in {"c_cmd", "s_cmd"})
            ~> (buf[f] = <<>> \/ ~running)

(* A client that dials the proxy gets a session with a server              *)
(* (README.md:26: "connect by FTP to port 21 of the server running the     *)
(* proxy").  False where the kernel refuses the second registration of the *)
(* server's command socket (server.c:144, :185).                           *)
ClientServed ==
    \A s \in Sessions : (arrived >= s) ~> (assigned[s] # "none" \/ ~running)

(* When either command connection is closed or reset by its peer, the      *)
(* session is torn down, whatever else its connections carry.              *)
TeardownCompletes ==
    \A s \in Sessions :
        (s \in session_list /\ (\/ Broken(session[s]["c_cmd"])
                                \/ Broken(session[s]["s_cmd"])))
            ~> (s \notin session_list \/ ~running)
=============================================================================
