-------------------------- MODULE FtpProxyProofs --------------------------
(* Theorems about the event loop, for every number of descriptors and of   *)
(* clients.                                                                 *)
EXTENDS FtpProxy, TLAPS

LEMMA FdFacts ==
    ASSUME TypeOK, NEW e \in events, NEW s \in Sessions, Owns(s, e.fd)
    PROVE  e.fd \in Fds /\ e \in Events /\ e # ListenEvent
BY ConstantsAssumption DEF TypeOK, Owns, Events, ListenEvent, Fds, NULL, ProxySocket, Roles

LEMMA NewSocketType ==
    ASSUME NEW s \in Sessions, NEW r \in Roles,
           NEW st \in {"connecting", "up", "listening"}
    PROVE  NewSocket(s, r, st) \in Sockets
BY DEF NewSocket, Sockets

LEMMA TypeInit == Init => TypeOK
BY ConstantsAssumption DEF Init, TypeOK, FreeSocket, Sockets, NoSockets, Sessions, NoEnd, Events

LEMMA PollType == TypeOK /\ Poll => TypeOK'
  <1> SUFFICES ASSUME TypeOK, Poll PROVE TypeOK'
    OBVIOUS
  <1> USE DEF TypeOK, kernel, peers
  <1>1. events' \subseteq Events
    <2>1. ListenEvent \in Events
      BY DEF ListenEvent, Events
    <2>2. ASSUME NEW f \in epoll, NEW stalled
          PROVE  EventOf(f, stalled) \in Events
      BY DEF EventOf, Events, InReady, OutReady
    <2> QED  BY <2>1, <2>2 DEF Poll
  <1>2. ListenEvent \in events' => accepted' < arrived'
    <2>1. ASSUME NEW f \in epoll, NEW stalled
          PROVE  EventOf(f, stalled) # ListenEvent
      BY DEF EventOf, ListenEvent, Fds, ProxySocket
    <2>2. ListenEvent \in events' => DialPending
      BY <2>1 DEF Poll
    <2> QED  BY <2>2, ConstantsAssumption DEF Poll, DialPending
  <1> QED  BY <1>1, <1>2 DEF Poll

LEMMA SessionType ==
    ASSUME TypeOK, AcceptFails \/ ServerCreateFails \/ AddSession
                   \/ (\E e \in events \ {ListenEvent} : UnknownSocket(e))
    PROVE  TypeOK'
  <1> USE DEF TypeOK, kernel, peers
  <1>1. CASE AcceptFails BY <1>1 DEF AcceptFails
  <1>2. CASE ServerCreateFails BY <1>2 DEF ServerCreateFails
  <1>3. CASE AddSession
    <2> USE <1>3 DEF AddSession
    <2> DEFINE t == accepted + 1
    <2>1. t \in Sessions /\ accepted' \in 0 .. arrived'
      BY ConstantsAssumption DEF Sessions
    <2>2. sock' \in [Fds -> Sockets]
      BY <2>1, NewSocketType DEF Lowest, Roles
    <2>3. session' \in [Sessions -> [Roles -> Fds \cup {NULL}]]
      BY <2>1 DEF NoSockets, Roles, Lowest
    <2> QED  BY <2>1, <2>2, <2>3 DEF Lowest, Registered
  <1>4. CASE \E e \in events \ {ListenEvent} : UnknownSocket(e)
    BY <1>4 DEF UnknownSocket
  <1> QED  BY <1>1, <1>2, <1>3, <1>4

LEMMA WriteType ==
    ASSUME TypeOK, NEW e \in events, e.fd \in Fds,
           NEW b \in [Fds -> Seq(Chunks)], session_write_packet(e, b)
    PROVE  /\ buf' \in [Fds -> Seq(Chunks)]
           /\ told' \subseteq Fds
           /\ running' \in BOOLEAN
  <1>1. CASE e.out
    <2>1. PICK n \in Written(e.fd, b) :
             told' = told \cup Names(SubSeq(b[e.fd], 1, n))
      BY <1>1 DEF session_write_packet
    <2>2. n \in 0 .. Len(b[e.fd])
      BY DEF Written
    <2>3. SubSeq(b[e.fd], 1, n) \in Seq(Chunks)
      BY <2>2
    <2>4. Names(SubSeq(b[e.fd], 1, n)) \subseteq Fds
      BY <2>3 DEF Names, Chunks
    <2>5. running' \in BOOLEAN
      BY <1>1 DEF session_write_packet, Survives
    <2>6. buf' \in [Fds -> Seq(Chunks)]
      <3>1. <<>> \in Seq(Chunks)
        OBVIOUS
      <3> QED  BY <1>1, <3>1 DEF session_write_packet
    <2>7. told' \subseteq Fds
      BY <2>1, <2>4 DEF TypeOK
    <2> QED  BY <2>5, <2>6, <2>7
  <1>2. CASE ~e.out
    BY <1>2 DEF session_write_packet, TypeOK
  <1> QED  BY <1>1, <1>2

LEMMA BufferWriteType ==
    ASSUME TypeOK, NEW f \in Fds \cup {NULL}, NEW c \in Chunks
    PROVE  session_buffer_write(f, c) \in [Fds -> Seq(Chunks)]
BY DEF session_buffer_write, TypeOK

LEMMA ChunkType ==
    ASSUME NEW s \in Sessions, NEW r \in Roles, NEW k \in Kinds,
           NEW n \in Fds \cup {NULL}
    PROVE  Chunk(s, r, k, n) \in Chunks
BY DEF Chunk, Chunks

LEMMA ClosedType ==
    ASSUME TypeOK, NEW C
    PROVE  SockClosed(C) \in [Fds -> Sockets] /\ BufFreed(C) \in [Fds -> Seq(Chunks)]
BY DEF TypeOK, SockClosed, BufFreed, FreeSocket, Sockets

LEMMA ReceivedType ==
    ASSUME NEW sk \in [Fds -> Sockets], NEW f \in Fds
    PROVE  Received(sk, f) \in [Fds -> Sockets]
BY DEF Received, Sockets

LEMMA RemoveType ==
    ASSUME TypeOK, NEW s \in Sessions, NEW C, NEW gone,
           session_remove_from_list(s, C, gone)
    PROVE  /\ sock' \in [Fds -> Sockets]
           /\ epoll' \subseteq Fds
           /\ buf' \in [Fds -> Seq(Chunks)]
           /\ session' \in [Sessions -> [Roles -> Fds \cup {NULL}]]
           /\ session_list' \subseteq Sessions
           /\ told' \subseteq Fds
BY ClosedType DEF session_remove_from_list, TypeOK, NoSockets

LEMMA ForwardType ==
    ASSUME TypeOK, NEW e \in events, NEW s \in Sessions,
           NEW r \in Roles, NEW to \in Roles, Forward(e, s, r, to)
    PROVE  TypeOK'
  <1> USE DEF Forward
  <1>1. e.fd \in Fds
    BY FdFacts DEF Reads, Handles
  <1>2. sock[e.fd].rx \in Kinds
    BY <1>1 DEF ReadResult, TypeOK, Sockets
  <1>3. session[s][to] \in Fds \cup {NULL}
    BY DEF TypeOK
  <1>4. session_buffer_write(session[s][to], Chunk(s, r, sock[e.fd].rx, NULL))
           \in [Fds -> Seq(Chunks)]
    BY <1>2, <1>3, ChunkType, BufferWriteType
  <1>5. /\ buf' \in [Fds -> Seq(Chunks)]
        /\ told' \subseteq Fds
        /\ running' \in BOOLEAN
    BY <1>1, <1>4, WriteType
  <1>6. sock' \in [Fds -> Sockets]
    BY <1>1, ReceivedType DEF TypeOK
  <1> QED  BY <1>5, <1>6 DEF TypeOK, peers

LEMMA PortType ==
    ASSUME TypeOK, NEW e \in events, NEW s \in Sessions,
           NEW r \in Roles, NEW to \in Roles, send_packet_to_server(e, s, r, to)
    PROVE  TypeOK'
  <1> USE DEF send_packet_to_server
  <1>1. e.fd \in Fds
    BY FdFacts DEF Reads, Handles
  <1>2. sock[e.fd].rx \in Kinds
    BY <1>1 DEF TypeOK, Sockets
  <1> DEFINE conn(n) == Opened(sock, n, NewSocket(s, "c_data", "connecting"))
             lstn(n, m) == Opened(conn(n), m, NewSocket(s, "s_data", "listening"))
  <1>3. PICK n, m \in Fds \cup {NULL} :
           /\ sock' = Received(lstn(n, m), e.fd)
           /\ epoll' = Registered(Registered(epoll, n), m) \ {NULL}
           /\ session' = [session EXCEPT
                ![s] = Pointer(Pointer(@, "c_data", n), "s_data", m)]
           /\ session_write_packet(e, session_buffer_write(session[s][to],
                Chunk(s, r, sock[e.fd].rx, PortAddress(n, m))))
    BY Zenon
  <1>4. conn(n) \in [Fds -> Sockets]
    BY NewSocketType DEF Opened, TypeOK, Roles
  <1>5. lstn(n, m) \in [Fds -> Sockets]
    <2> HIDE DEF conn
    <2> QED  BY <1>4, NewSocketType DEF Opened, Roles
  <1>6. sock' \in [Fds -> Sockets]
    <2> HIDE DEF lstn
    <2> QED  BY <1>1, <1>3, <1>5, ReceivedType
  <1>7. session' \in [Sessions -> [Roles -> Fds \cup {NULL}]]
    BY <1>3 DEF Pointer, TypeOK
  <1>8. epoll' \subseteq Fds
    BY <1>3 DEF Registered, TypeOK
  <1>9. session_buffer_write(session[s][to],
           Chunk(s, r, sock[e.fd].rx, PortAddress(n, m))) \in [Fds -> Seq(Chunks)]
    <2>1. PortAddress(n, m) \in Fds \cup {NULL}
      BY DEF PortAddress
    <2>2. session[s][to] \in Fds \cup {NULL}
      BY DEF TypeOK
    <2> QED  BY <1>2, <2>1, <2>2, ChunkType, BufferWriteType
  <1>10. /\ buf' \in [Fds -> Seq(Chunks)]
         /\ told' \subseteq Fds
         /\ running' \in BOOLEAN
    BY <1>1, <1>3, <1>9, WriteType
  <1> QED  BY <1>6, <1>7, <1>8, <1>10 DEF TypeOK, peers

LEMMA HandleType ==
    ASSUME TypeOK, NEW e \in events, NEW s \in Sessions, Handle(e, s)
    PROVE  TypeOK'
  <1>1. CASE WriteOnly(e, s)
    <2>1. e.fd \in Fds
      BY <1>1, FdFacts DEF WriteOnly, Handles
    <2>2. buf \in [Fds -> Seq(Chunks)]
      BY DEF TypeOK
    <2>3. /\ buf' \in [Fds -> Seq(Chunks)]
          /\ told' \subseteq Fds
          /\ running' \in BOOLEAN
      BY <1>1, <2>1, <2>2, WriteType DEF WriteOnly
    <2> QED  BY <1>1, <2>3 DEF WriteOnly, TypeOK, kernel, peers
  <1>2. CASE server_accept(e, s)
    <2> USE <1>2 DEF server_accept
    <2>1. e.fd \in Fds
      BY FdFacts DEF Handles
    <2>2. PICK n \in Fds :
             /\ sock' = [sock EXCEPT ![e.fd].queue = @ - 1,
                                     ![n] = NewSocket(s, "s_conn", "up")]
             /\ epoll' = Registered(epoll, n)
             /\ session' = [session EXCEPT ![s]["s_conn"] = n]
      BY Zenon
    <2>3. [sock[e.fd] EXCEPT !.queue = @ - 1] \in Sockets
      <3>1. sock[e.fd] \in Sockets /\ sock[e.fd].queue > 0
        BY <2>1 DEF TypeOK
      <3> QED  BY <3>1 DEF Sockets
    <2>4. sock' \in [Fds -> Sockets]
      <3>1. NewSocket(s, "s_conn", "up") \in Sockets
        BY NewSocketType DEF Roles
      <3> QED  BY <2>1, <2>2, <2>3, <3>1 DEF TypeOK
    <2>5. session' \in [Sessions -> [Roles -> Fds \cup {NULL}]]
      BY <2>2 DEF TypeOK
    <2> QED  BY <2>2, <2>4, <2>5 DEF TypeOK, Registered, peers
  <1>3. CASE ServerAcceptFails(e, s)
    BY <1>3 DEF ServerAcceptFails, TypeOK, kernel, peers
  <1>3a. CASE ServerAcceptUnregistered(e, s)
    <2> USE <1>3a DEF ServerAcceptUnregistered
    <2>1. e.fd \in Fds
      BY FdFacts DEF Handles
    <2>2. PICK n \in Fds : sock' = [sock EXCEPT ![e.fd].queue = @ - 1,
                                               ![n] = NewSocket(s, "s_conn", "up")]
      BY Zenon
    <2>3. [sock[e.fd] EXCEPT !.queue = @ - 1] \in Sockets
      <3>1. sock[e.fd] \in Sockets /\ sock[e.fd].queue > 0
        BY <2>1 DEF TypeOK
      <3> QED  BY <3>1 DEF Sockets
    <2>4. sock' \in [Fds -> Sockets]
      <3>1. NewSocket(s, "s_conn", "up") \in Sockets
        BY NewSocketType DEF Roles
      <3> QED  BY <2>1, <2>2, <2>3, <3>1 DEF TypeOK
    <2> QED  BY <2>4 DEF TypeOK, peers
  <1>4. CASE \/ ReadError(e, s) \/ ReadClosed(e, s)
             \/ PortConnectFails(e, s) \/ PortRegisterFails(e, s)
    BY <1>4, RemoveType DEF ReadError, ReadClosed, PortConnectFails, PortRegisterFails,
       TypeOK, peers
  <1>5. CASE server_data_closed(e, s)
    <2> USE <1>5 DEF server_data_closed
    <2>1. sock' \in [Fds -> Sockets] /\ buf' \in [Fds -> Seq(Chunks)]
      BY ClosedType
    <2>2. session' \in [Sessions -> [Roles -> Fds \cup {NULL}]]
      BY DEF TypeOK, DataClosedPointers
    <2> QED  BY <2>1, <2>2 DEF TypeOK, peers
  <1>6. CASE \/ server_command_received(e, s)
             \/ server_data_connection_received(e, s)
             \/ client_command_received(e, s)
             \/ client_data_received(e, s)
    BY <1>6, ForwardType DEF server_command_received, client_data_received,
       server_data_connection_received, client_command_received, Roles
  <1>7. CASE PortCommand(e, s) \/ PortLikeData(e, s)
    BY <1>7, PortType DEF PortCommand, PortLikeData, Roles
  <1> QED  BY <1>1, <1>2, <1>3, <1>3a, <1>4, <1>5, <1>6, <1>7 DEF Handle

(* What a peer does changes one field of one socket. *)
LEMMA FieldsChange ==
    ASSUME TypeOK, NEW f \in Fds
    PROVE  /\ \A st \in {"up", "reset"} : [sock[f] EXCEPT !.st = st] \in Sockets
           /\ \A k \in Kinds : [sock[f] EXCEPT !.rx = k] \in Sockets
           /\ [sock[f] EXCEPT !.fin = TRUE] \in Sockets
           /\ [sock[f] EXCEPT !.queue = 1] \in Sockets
  <1>1. sock[f] \in Sockets
    BY DEF TypeOK
  <1>2. \A st \in {"up", "reset"} : [sock[f] EXCEPT !.st = st] \in Sockets
    BY <1>1 DEF Sockets
  <1>3. \A k \in Kinds : [sock[f] EXCEPT !.rx = k] \in Sockets
    BY <1>1 DEF Sockets
  <1>4. [sock[f] EXCEPT !.fin = TRUE] \in Sockets
    BY <1>1 DEF Sockets
  <1>5. [sock[f] EXCEPT !.queue = 1] \in Sockets
    BY <1>1 DEF Sockets
  <1> QED  BY <1>2, <1>3, <1>4, <1>5

LEMMA PeersType == TypeOK /\ Peers => TypeOK'
  <1> SUFFICES ASSUME TypeOK, Peers PROVE TypeOK'
    OBVIOUS
  <1> USE ConstantsAssumption DEF TypeOK, kernel
  <1>1. CASE ClientDials
    BY <1>1 DEF ClientDials
  <1>2. ASSUME NEW f \in Fds, ConnectSettles(f) PROVE TypeOK'
    <2>1. PICK st \in {"up", "reset"} : sock' = [sock EXCEPT ![f].st = st]
      BY <1>2 DEF ConnectSettles
    <2>2. sock' \in [Fds -> Sockets]
      <3>1. [sock[f] EXCEPT !.st = st] \in Sockets
        BY FieldsChange
      <3> QED  BY <2>1, <3>1
    <2> QED  BY <1>2, <2>2 DEF ConnectSettles, peers
  <1>3. ASSUME NEW f \in Fds, PeerSends(f) PROVE TypeOK'
    <2>1. PICK k \in Kinds : sock' = [sock EXCEPT ![f].rx = k]
      BY <1>3 DEF PeerSends, KindsFrom, Kinds
    <2>2. sock' \in [Fds -> Sockets]
      <3>1. [sock[f] EXCEPT !.rx = k] \in Sockets
        BY FieldsChange
      <3> QED  BY <2>1, <3>1
    <2> QED  BY <1>3, <2>2 DEF PeerSends
  <1>4. ASSUME NEW f \in Fds, PeerCloses(f) PROVE TypeOK'
    <2>1. [sock[f] EXCEPT !.fin = TRUE] \in Sockets
      BY FieldsChange
    <2>2. sock' \in [Fds -> Sockets]
      BY <1>4, <2>1 DEF PeerCloses
    <2> QED  BY <1>4, <2>2 DEF PeerCloses, peers
  <1>5. ASSUME NEW f \in Fds, PeerResets(f) PROVE TypeOK'
    <2>1. [sock[f] EXCEPT !.st = "reset"] \in Sockets
      BY FieldsChange
    <2>2. sock' \in [Fds -> Sockets]
      BY <1>5, <2>1 DEF PeerResets
    <2> QED  BY <1>5, <2>2 DEF PeerResets, peers
  <1>6. ASSUME NEW f \in Fds, ServerDials(f) PROVE TypeOK'
    <2>1. sock' \in [Fds -> Sockets]
      <3>1. [sock[f] EXCEPT !.queue = 1] \in Sockets
        BY FieldsChange
      <3> QED  BY <1>6, <3>1 DEF ServerDials
    <2> QED  BY <1>6, <2>1 DEF ServerDials
  <1> QED  BY <1>1, <1>2, <1>3, <1>4, <1>5, <1>6 DEF Peers

LEMMA TypeStep == TypeOK /\ [Next]_vars => TypeOK'
  <1> SUFFICES ASSUME TypeOK, [Next]_vars PROVE TypeOK'
    OBVIOUS
  <1>1. CASE session_polling
    <2>1. CASE Poll
      BY <2>1, PollType
    <2>2. CASE \/ AcceptFails \/ ServerCreateFails \/ AddSession
               \/ \E e \in events \ {ListenEvent} : UnknownSocket(e)
      BY <2>2, SessionType
    <2>3. ASSUME NEW e \in events, NEW s \in Sessions, Handle(e, s)
          PROVE  TypeOK'
      BY <2>3, HandleType
    <2> QED  BY <1>1, <2>1, <2>2, <2>3 DEF session_polling
  <1>2. CASE Peers
    BY <1>2, PeersType
  <1>3. CASE UNCHANGED vars
    BY <1>3 DEF vars, TypeOK
  <1> QED  BY <1>1, <1>2, <1>3 DEF Next

(* Descriptor numbers, buffers, session pointers and pending events keep   *)
(* their types in every reachable state, and accept() is only announced    *)
(* for a client that waits.                                                *)
THEOREM TypeCorrect == Spec => []TypeOK
  <1> QED  BY TypeInit, TypeStep, PTL DEF Spec

-----------------------------------------------------------------------------
(* Ownership.  The invariant that makes the ownership of descriptors       *)
(* inductive: listed sessions were accepted and hold both their command    *)
(* sockets, and the descriptors the kernel would hand out are clean.       *)
Admitted == session_list \subseteq 1 .. accepted

Paired == \A s \in session_list : /\ session[s]["c_cmd"] # NULL
                                  /\ session[s]["s_cmd"] # NULL

FreeIsEmpty == \A f \in Fds : sock[f].st = "free" => buf[f] = <<>>

Owned == Admitted /\ Paired /\ FdOwnership /\ PolledWhileOwned /\ NoCommandOrphan

Relayed == FreeIsEmpty /\ RelayStaysInSession /\ PortNamesListener

(* Two socket pointers of listed sessions are never the same descriptor. *)
LEMMA OneOwner ==
    ASSUME TypeOK, FdOwnership,
           NEW s \in session_list, NEW t \in session_list,
           NEW r \in Roles, NEW q \in Roles,
           session[s][r] # NULL, session[s][r] = session[t][q]
    PROVE  s = t /\ r = q
  <1>1. sock[session[s][r]].end = <<s, r>> /\ sock[session[t][q]].end = <<t, q>>
    BY DEF FdOwnership
  <1> QED  BY <1>1

LEMMA OwnedInit == Init => Owned /\ Relayed
BY DEF Init, Owned, Relayed, Admitted, Paired, FdOwnership, PolledWhileOwned,
       NoCommandOrphan, FreeIsEmpty, RelayStaysInSession, PortNamesListener, FreeSocket

(* A step that neither opens nor closes a descriptor. *)
SameSockets ==
    \A f \in Fds : /\ sock'[f].st = "free" <=> sock[f].st = "free"
                   /\ sock'[f].end = sock[f].end
                   /\ sock[f].st = "listening" => sock'[f].st = "listening"

LEMMA OwnedFrame ==
    ASSUME TypeOK, TypeOK', Owned, SameSockets,
           UNCHANGED <<epoll, session, session_list>>, accepted' >= accepted
    PROVE  Owned'
  <1> USE DEF Owned, SameSockets, TypeOK
  <1>1. Admitted'
    BY DEF Admitted
  <1>2. Paired'
    BY DEF Paired
  <1>3. FdOwnership'
    <2> SUFFICES ASSUME NEW s \in session_list, NEW r \in Roles, session[s][r] # NULL
                 PROVE  /\ sock'[session[s][r]].st # "free"
                        /\ sock'[session[s][r]].end = <<s, r>>
      BY DEF FdOwnership
    <2>1. session[s][r] \in Fds
      OBVIOUS
    <2>2. sock[session[s][r]].st # "free" /\ sock[session[s][r]].end = <<s, r>>
      BY DEF FdOwnership
    <2> QED  BY <2>1, <2>2
  <1>4. PolledWhileOwned'
    BY DEF PolledWhileOwned
  <1>5. NoCommandOrphan'
    <2> SUFFICES ASSUME NEW f \in Fds, NEW s \in Sessions, NEW r \in {"c_cmd", "s_cmd"},
                        sock'[f].st # "free", sock'[f].end = <<s, r>>
                 PROVE  s \in session_list /\ session[s][r] = f
      BY DEF NoCommandOrphan
    <2>1. sock[f].st # "free" /\ sock[f].end = <<s, r>>
      OBVIOUS
    <2> QED  BY <2>1 DEF NoCommandOrphan
  <1> QED  BY <1>1, <1>2, <1>3, <1>4, <1>5

LEMMA RelayedFrame ==
    ASSUME TypeOK, TypeOK', Owned, Relayed, SameSockets,
           UNCHANGED <<buf, session, session_list>>
    PROVE  Relayed'
  <1> USE DEF Relayed, SameSockets, TypeOK
  <1>1. FreeIsEmpty'
    BY DEF FreeIsEmpty
  <1>2. RelayStaysInSession'
    BY DEF RelayStaysInSession
  <1>3. PortNamesListener'
    <2> SUFFICES ASSUME NEW s \in session_list', NEW i \in DOMAIN buf'[session'[s]["s_cmd"]],
                        buf'[session'[s]["s_cmd"]][i].names # NULL
                 PROVE  /\ sock'[buf'[session'[s]["s_cmd"]][i].names].st = "listening"
                        /\ sock'[buf'[session'[s]["s_cmd"]][i].names].end = <<s, "s_data">>
      BY DEF PortNamesListener
    <2>1. session[s]["s_cmd"] \in Fds
      BY DEF Owned, Paired, Roles
    <2>2. buf[session[s]["s_cmd"]][i] \in Chunks
      BY <2>1
    <2>3. buf[session[s]["s_cmd"]][i].names \in Fds
      BY <2>2 DEF Chunks
    <2> QED  BY <2>3 DEF PortNamesListener
  <1> QED  BY <1>1, <1>2, <1>3

(* One chunk c is appended to the buffer of t, and the buffer of the       *)
(* event's descriptor may be emptied.                                      *)
LEMMA BufferStep ==
    ASSUME TypeOK, NEW e \in events, e.fd \in Fds,
           NEW t \in Fds \cup {NULL}, NEW c \in Chunks,
           session_write_packet(e, session_buffer_write(t, c)),
           NEW f \in Fds, NEW i \in DOMAIN buf'[f]
    PROVE  \/ i \in DOMAIN buf[f] /\ buf'[f][i] = buf[f][i]
           \/ f = t /\ buf'[f][i] = c
  <1> DEFINE b == session_buffer_write(t, c)
  <1>1. b \in [Fds -> Seq(Chunks)]
    BY BufferWriteType
  <1>2. buf'[f] = b[f] \/ buf'[f] = <<>>
    <2>1. session_write_packet(e, b)
      OBVIOUS
    <2> HIDE DEF b
    <2> QED  BY <1>1, <2>1 DEF session_write_packet
  <1>3. buf'[f] = b[f]
    BY <1>2
  <1>4. b[f] = buf[f] \/ (f = t /\ b[f] = Append(buf[f], c))
    BY DEF session_buffer_write, TypeOK
  <1>5. buf[f] \in Seq(Chunks)
    BY DEF TypeOK
  <1> QED  BY <1>3, <1>4, <1>5

LEMMA NamedIsListening ==
    ASSUME TypeOK, Owned, Relayed, NEW s \in session_list,
           NEW i \in DOMAIN buf[session[s]["s_cmd"]],
           buf[session[s]["s_cmd"]][i].names # NULL
    PROVE  /\ buf[session[s]["s_cmd"]][i].names \in Fds
           /\ sock[buf[session[s]["s_cmd"]][i].names].st = "listening"
           /\ sock[buf[session[s]["s_cmd"]][i].names].end = <<s, "s_data">>
  <1>1. session[s]["s_cmd"] \in Fds
    BY DEF Owned, Paired, TypeOK, Roles
  <1>2. buf[session[s]["s_cmd"]][i] \in Chunks
    BY <1>1 DEF TypeOK
  <1>3. buf[session[s]["s_cmd"]][i].names \in Fds
    BY <1>2 DEF Chunks
  <1> QED  BY <1>3 DEF Relayed, PortNamesListener

(* Freeing a session closes nothing another session owns. *)
LEMMA OthersKept ==
    ASSUME TypeOK, Owned, NEW s \in session_list, NEW t \in session_list, t # s,
           NEW r \in Roles, session[t][r] # NULL
    PROVE  /\ session[t][r] \notin SocketsFreed(s)
           /\ \A f : Owns(s, f) => session[t][r] # f
BY OneOwner DEF Owned, SocketsFreed, Owns, Roles

(* What the end of a session closes: its own sockets, and both its command *)
(* connections.                                                            *)
Closing(s, C) ==
    /\ C \subseteq SocketsFreed(s)
    /\ session[s]["c_cmd"] \in C /\ session[s]["s_cmd"] \in C

LEMMA ClosingFreed ==
    ASSUME TypeOK, Owned, NEW s \in session_list
    PROVE  /\ Closing(s, SocketsFreed(s))
           /\ Closing(s, SocketsFreed(s) \ {session[s]["c_data"]})
  <1>1. /\ session[s]["c_cmd"] \in SocketsFreed(s)
        /\ session[s]["s_cmd"] \in SocketsFreed(s)
    BY DEF SocketsFreed, Owned, Paired
  <1>2. /\ session[s]["c_cmd"] # session[s]["c_data"]
        /\ session[s]["s_cmd"] # session[s]["c_data"]
    BY OneOwner DEF Owned, Paired, Roles
  <1> QED  BY <1>1, <1>2 DEF Closing

LEMMA RemoveOwned ==
    ASSUME TypeOK, TypeOK', Owned, NEW s \in session_list, NEW C, Closing(s, C),
           NEW gone, \A f \in gone : Owns(s, f),
           session_remove_from_list(s, C, gone), accepted' = accepted
    PROVE  Owned'
  <1> USE DEF session_remove_from_list
  <1>1. Admitted'
    BY DEF Owned, Admitted
  <1>2. ASSUME NEW t \in session_list'
        PROVE  t \in session_list /\ t # s /\ session'[t] = session[t]
    BY DEF TypeOK
  <1>3. Paired'
    BY <1>2 DEF Owned, Paired
  <1>4. ASSUME NEW t \in session_list', NEW r \in Roles, session'[t][r] # NULL
        PROVE  /\ sock'[session'[t][r]].st # "free"
               /\ sock'[session'[t][r]].end = <<t, r>>
               /\ session'[t][r] \in epoll'
    <2> DEFINE f == session[t][r]
    <2>1. session'[t][r] = f /\ t \in session_list /\ t # s /\ f # NULL
      BY <1>2, <1>4
    <2>2. f \notin C /\ f \notin gone
      BY <2>1, OthersKept DEF Closing
    <2>3. f \in Fds /\ sock[f].st # "free" /\ sock[f].end = <<t, r>> /\ f \in epoll
      BY <2>1 DEF Owned, FdOwnership, PolledWhileOwned, TypeOK
    <2>4. sock'[f] = sock[f]
      BY <2>2, <2>3 DEF SockClosed
    <2>5. f \in epoll'
      BY <2>2, <2>3
    <2> QED  BY <2>1, <2>3, <2>4, <2>5
  <1>5. NoCommandOrphan'
    <2> SUFFICES ASSUME NEW f \in Fds, NEW t \in Sessions, NEW r \in {"c_cmd", "s_cmd"},
                        sock'[f].st # "free", sock'[f].end = <<t, r>>
                 PROVE  t \in session_list' /\ session'[t][r] = f
      BY DEF NoCommandOrphan
    <2>1. f \notin C /\ sock'[f] = sock[f]
      BY DEF SockClosed, FreeSocket
    <2>2. t \in session_list /\ session[t][r] = f
      BY <2>1 DEF Owned, NoCommandOrphan
    <2>3. t # s
      BY <2>1, <2>2 DEF Closing
    <2> QED  BY <2>2, <2>3 DEF TypeOK
  <1>6. FdOwnership' /\ PolledWhileOwned'
    BY <1>4 DEF FdOwnership, PolledWhileOwned
  <1> QED  BY <1>1, <1>3, <1>5, <1>6 DEF Owned

LEMMA RemoveRelayed ==
    ASSUME TypeOK, TypeOK', Owned, Relayed, NEW s \in session_list,
           NEW C, Closing(s, C), NEW gone, session_remove_from_list(s, C, gone)
    PROVE  Relayed'
  <1> USE DEF session_remove_from_list
  <1>1. \A f \in Fds : IF f \in C THEN sock'[f] = FreeSocket /\ buf'[f] = <<>>
                       ELSE sock'[f] = sock[f] /\ buf'[f] = buf[f]
    BY DEF SockClosed, BufFreed
  <1>2. FreeIsEmpty'
    BY <1>1 DEF Relayed, FreeIsEmpty
  <1>3. RelayStaysInSession'
    <2> SUFFICES ASSUME NEW f \in Fds, NEW i \in DOMAIN buf'[f]
                 PROVE  sock'[f].end \in MayWaitFor(buf'[f][i].from)
      BY DEF RelayStaysInSession
    <2>1. f \notin C
      BY <1>1
    <2> QED  BY <1>1, <2>1 DEF Relayed, RelayStaysInSession
  <1>4. PortNamesListener'
    <2> SUFFICES ASSUME NEW t \in session_list',
                        NEW i \in DOMAIN buf'[session'[t]["s_cmd"]],
                        buf'[session'[t]["s_cmd"]][i].names # NULL
                 PROVE  /\ sock'[buf'[session'[t]["s_cmd"]][i].names].st = "listening"
                        /\ sock'[buf'[session'[t]["s_cmd"]][i].names].end = <<t, "s_data">>
      BY DEF PortNamesListener
    <2> DEFINE f == session[t]["s_cmd"]
               n == buf[f][i].names
    <2>1. t \in session_list /\ t # s /\ session'[t]["s_cmd"] = f
      BY DEF TypeOK
    <2>2. f \in Fds /\ f \notin C
      BY <2>1, OthersKept DEF Owned, Paired, TypeOK, Roles, Closing
    <2>3. buf'[f] = buf[f]
      BY <1>1, <2>2
    <2>4. n \in Fds /\ sock[n].st = "listening" /\ sock[n].end = <<t, "s_data">>
      BY <2>1, <2>3, NamedIsListening
    <2> HIDE DEF n
    <2>5. n \notin C
      <3> SUFFICES ASSUME n \in C PROVE FALSE
        OBVIOUS
      <3>1. PICK r \in Roles : n = session[s][r] /\ n # NULL
        BY DEF Closing, SocketsFreed, Roles
      <3>2. sock[n].end = <<s, r>>
        BY <3>1 DEF Owned, FdOwnership
      <3> QED  BY <2>1, <2>4, <3>2
    <2>6. sock'[n] = sock[n]
      BY <1>1, <2>4, <2>5
    <2>7. buf'[session'[t]["s_cmd"]][i].names = n
      BY <2>1, <2>3 DEF n
    <2> QED  BY <2>4, <2>6, <2>7
  <1> QED  BY <1>2, <1>3, <1>4 DEF Relayed

(* What server_data_closed does to the tables, for descriptor d. *)
ConnectionFreed(s, d) ==
    /\ sock' = SockClosed({d})
    /\ buf' = BufFreed({d})
    /\ epoll' = epoll \ {d}
    /\ session' = [session EXCEPT ![s] = DataClosedPointers(@)]
    /\ UNCHANGED <<session_list, accepted>>

(* One of session s's pointers is cleared and its descriptor closed. *)
LEMMA DataClosedKeeps ==
    ASSUME TypeOK, TypeOK', Owned, Relayed, NEW s \in session_list,
           NEW d \in Fds, session[s]["s_conn"] = d, ConnectionFreed(s, d)
    PROVE  Owned' /\ Relayed'
  <1>1. d # NULL
    BY ConstantsAssumption DEF Fds, NULL
  <1>2. /\ session'[s]["s_conn"] = NULL
        /\ \A t \in session_list, r \in Roles :
              ~(t = s /\ r = "s_conn") => session'[t][r] = session[t][r]
    BY DEF ConnectionFreed, DataClosedPointers, TypeOK, Roles
  <1>3. /\ sock'[d] = FreeSocket /\ buf'[d] = <<>>
        /\ \A f \in Fds : f # d => sock'[f] = sock[f] /\ buf'[f] = buf[f]
    BY DEF ConnectionFreed, SockClosed, BufFreed
  <1>4. ASSUME NEW t \in session_list, NEW r \in Roles, session'[t][r] # NULL
        PROVE  session'[t][r] = session[t][r] /\ session[t][r] # d
                /\ session[t][r] \in Fds
    <2>1. /\ session'[t][r] = session[t][r] /\ session[t][r] # NULL
          /\ ~(t = s /\ r = "s_conn")
      BY <1>2, <1>4
    <2>2. session[t][r] # d
      BY <1>1, <2>1, OneOwner DEF Owned, Roles
    <2> QED  BY <2>1, <2>2 DEF TypeOK
  <1>5. sock[d].end = <<s, "s_conn">>
    BY <1>1 DEF Owned, FdOwnership, Roles
  <1>6. Admitted' /\ Paired'
    BY <1>2 DEF ConnectionFreed, Owned, Admitted, Paired, Roles
  <1>7. FdOwnership' /\ PolledWhileOwned'
    <2> SUFFICES ASSUME NEW t \in session_list', NEW r \in Roles, session'[t][r] # NULL
                 PROVE  /\ sock'[session'[t][r]].st # "free"
                        /\ sock'[session'[t][r]].end = <<t, r>>
                        /\ session'[t][r] \in epoll'
      BY DEF FdOwnership, PolledWhileOwned
    <2> DEFINE f == session[t][r]
    <2>1. t \in session_list /\ epoll' = epoll \ {d}
      BY DEF ConnectionFreed
    <2>2. session'[t][r] = f /\ f # d /\ f \in Fds /\ f # NULL
      BY <1>4, <2>1
    <2>3. sock[f].st # "free" /\ sock[f].end = <<t, r>> /\ f \in epoll
      BY <2>1, <2>2 DEF Owned, FdOwnership, PolledWhileOwned
    <2>4. sock'[f] = sock[f]
      BY <1>3, <2>2
    <2> QED  BY <2>1, <2>2, <2>3, <2>4
  <1>8. NoCommandOrphan'
    <2> SUFFICES ASSUME NEW f \in Fds, NEW t \in Sessions, NEW r \in {"c_cmd", "s_cmd"},
                        sock'[f].st # "free", sock'[f].end = <<t, r>>
                 PROVE  t \in session_list' /\ session'[t][r] = f
      BY DEF NoCommandOrphan
    <2>1. sock'[f] = sock[f]
      <3>1. sock'[d].st = "free"
        BY <1>3 DEF FreeSocket, NoEnd
      <3>1a. f # d
        BY <3>1
      <3> QED  BY <1>3, <3>1
    <2>2. t \in session_list /\ session[t][r] = f
      BY <2>1 DEF Owned, NoCommandOrphan
    <2> QED  BY <1>2, <2>2 DEF ConnectionFreed, Roles
  <1>9. FreeIsEmpty'
    BY <1>3 DEF Relayed, FreeIsEmpty
  <1>10. RelayStaysInSession'
    <2> SUFFICES ASSUME NEW f \in Fds, NEW i \in DOMAIN buf'[f]
                 PROVE  sock'[f].end \in MayWaitFor(buf'[f][i].from)
      BY DEF RelayStaysInSession
    <2>0. DOMAIN buf'[d] = {}
      BY <1>3
    <2>1. f # d
      BY <2>0
    <2> QED  BY <1>3, <2>1 DEF Relayed, RelayStaysInSession
  <1>11. PortNamesListener'
    <2> SUFFICES ASSUME NEW t \in session_list',
                        NEW i \in DOMAIN buf'[session'[t]["s_cmd"]],
                        buf'[session'[t]["s_cmd"]][i].names # NULL
                 PROVE  /\ sock'[buf'[session'[t]["s_cmd"]][i].names].st = "listening"
                        /\ sock'[buf'[session'[t]["s_cmd"]][i].names].end = <<t, "s_data">>
      BY DEF PortNamesListener
    <2> DEFINE f == session[t]["s_cmd"]
               n == buf[f][i].names
    <2>1. t \in session_list /\ session'[t]["s_cmd"] = f /\ buf'[f] = buf[f]
      <3>0. t \in session_list
        BY DEF ConnectionFreed
      <3>1. session'[t]["s_cmd"] = f /\ f # NULL
        BY <1>2, <3>0 DEF Owned, Paired, Roles
      <3>2. f # d /\ f \in Fds
        BY <1>4, <3>0, <3>1 DEF Roles
      <3> QED  BY <1>3, <3>0, <3>1, <3>2
    <2>2. n \in Fds /\ sock[n].st = "listening" /\ sock[n].end = <<t, "s_data">>
      BY <2>1, NamedIsListening
    <2>3. n # d
      <3>1. sock[d].end = <<s, "s_conn">>
        BY <1>5
      <3>2. <<t, "s_data">> # <<s, "s_conn">>
        OBVIOUS
      <3> QED  BY <2>2, <3>1, <3>2
    <2> QED  BY <1>3, <2>1, <2>2, <2>3
  <1> QED  BY <1>6, <1>7, <1>8, <1>9, <1>10, <1>11 DEF Owned, Relayed

(* A step that may open the descriptors N for session s and appends only   *)
(* chunks that belong where they go.                                       *)
CommandRoles == {"c_cmd", "s_cmd"}

Opening(s, N) ==
    /\ \A f \in N : f \in Fds /\ sock[f].st = "free"
    /\ \A f \in Fds : f \notin N =>
          /\ sock'[f].st = "free" <=> sock[f].st = "free"
          /\ sock'[f].end = sock[f].end
          /\ sock[f].st = "listening" => sock'[f].st = "listening"
    /\ session_list' = session_list \cup {s}
    /\ accepted' >= accepted /\ s <= accepted'
    /\ \A t \in session_list : t # s => session'[t] = session[t]
    /\ \A r \in Roles : session'[s][r] # NULL =>
          \/ /\ session'[s][r] \in N
             /\ sock'[session'[s][r]].st # "free"
             /\ sock'[session'[s][r]].end = <<s, r>>
          \/ s \in session_list /\ session'[s][r] = session[s][r]
    /\ \A r \in CommandRoles :
          /\ session'[s][r] # NULL
          /\ s \in session_list => session'[s][r] = session[s][r]
    /\ \A f \in N : \A t \in Sessions : \A r \in CommandRoles :
          sock'[f].end = <<t, r>> => t = s /\ session'[s][r] = f
    /\ epoll \subseteq epoll'
    /\ \A r \in Roles : session'[s][r] \in N => session'[s][r] \in epoll'

Belongs(s, N, f, c) ==
    /\ sock[f].st # "free"
    /\ sock[f].end \in MayWaitFor(c.from)
    /\ c.names # NULL =>
          /\ sock[f].end[1] = s
          /\ c.names \in N
          /\ sock'[c.names].st = "listening"
          /\ sock'[c.names].end = <<s, "s_data">>

Appending(s, N) ==
    \A f \in Fds : \A i \in DOMAIN buf'[f] :
        \/ i \in DOMAIN buf[f] /\ buf'[f][i] = buf[f][i]
        \/ Belongs(s, N, f, buf'[f][i])

LEMMA OpeningOwned ==
    ASSUME TypeOK, TypeOK', Owned, NEW s \in Sessions, NEW N, Opening(s, N)
    PROVE  Owned'
  <1>1. Admitted'
    <2>1. \A t \in session_list' : t \in Sessions /\ (t \in session_list \/ t = s)
      BY DEF Opening, TypeOK
    <2>2. accepted' >= accepted /\ s <= accepted' /\ accepted \in Nat /\ accepted' \in Nat
      BY ConstantsAssumption DEF Opening, TypeOK
    <2>3. \A t \in session_list : t \in 1 .. accepted
      BY DEF Owned, Admitted
    <2> QED  BY <2>1, <2>2, <2>3, ConstantsAssumption DEF Admitted, Sessions
  <1>2. Paired'
    BY DEF Opening, Owned, Paired, CommandRoles
  <1>3. ASSUME NEW t \in session_list', NEW r \in Roles, session'[t][r] # NULL
        PROVE  /\ sock'[session'[t][r]].st # "free"
               /\ sock'[session'[t][r]].end = <<t, r>>
               /\ session'[t][r] \in epoll'
    <2> DEFINE f == session'[t][r]
    <2>1. CASE t = s /\ f \in N /\ sock'[f].st # "free" /\ sock'[f].end = <<t, r>>
      BY <2>1 DEF Opening
    <2>2. CASE t \in session_list /\ f = session[t][r]
      <3>1. f \in Fds /\ sock[f].st # "free" /\ sock[f].end = <<t, r>> /\ f \in epoll
        BY <1>3, <2>2 DEF Owned, FdOwnership, PolledWhileOwned, TypeOK
      <3>2. f \notin N
        BY <3>1 DEF Opening
      <3> HIDE DEF f
      <3>3. sock'[f].st # "free" /\ sock'[f].end = <<t, r>> /\ f \in epoll'
        BY <3>1, <3>2 DEF Opening
      <3> QED  BY <3>3 DEF f
    <2> QED  BY <1>3, <2>1, <2>2 DEF Opening
  <1>4. FdOwnership' /\ PolledWhileOwned'
    BY <1>3 DEF FdOwnership, PolledWhileOwned
  <1>5. NoCommandOrphan'
    <2> SUFFICES ASSUME NEW f \in Fds, NEW t \in Sessions, NEW r \in {"c_cmd", "s_cmd"},
                        sock'[f].st # "free", sock'[f].end = <<t, r>>
                 PROVE  t \in session_list' /\ session'[t][r] = f
      BY DEF NoCommandOrphan
    <2>1. CASE f \in N
      BY <2>1 DEF Opening, CommandRoles
    <2>2. CASE f \notin N
      <3>1. sock[f].st # "free" /\ sock[f].end = <<t, r>>
        BY <2>2 DEF Opening
      <3>2. t \in session_list /\ session[t][r] = f
        BY <3>1 DEF Owned, NoCommandOrphan
      <3> QED  BY <3>2 DEF Opening, CommandRoles
    <2> QED  BY <2>1, <2>2
  <1> QED  BY <1>1, <1>2, <1>4, <1>5 DEF Owned

LEMMA OpeningRelayed ==
    ASSUME TypeOK, TypeOK', Owned, Owned', Relayed, NEW s \in Sessions, NEW N,
           Opening(s, N), Appending(s, N)
    PROVE  Relayed'
  <1>1. ASSUME NEW f \in Fds, sock[f].st = "free" PROVE buf'[f] = <<>>
    <2>1. buf[f] = <<>> /\ buf'[f] \in Seq(Chunks)
      BY <1>1 DEF Relayed, FreeIsEmpty, TypeOK
    <2>2. DOMAIN buf'[f] = {}
      BY <1>1, <2>1 DEF Appending, Belongs
    <2> DEFINE q == buf'[f]
    <2>3. q \in Seq(Chunks) /\ DOMAIN q = {}
      BY <2>1, <2>2
    <2> HIDE DEF q
    <2>4. Len(q) = 0
      BY <2>3
    <2>5. q = <<>>
      BY <2>3, <2>4
    <2> QED  BY <2>5 DEF q
  <1>2. FreeIsEmpty'
    BY <1>1 DEF FreeIsEmpty, Opening
  <1>3. RelayStaysInSession'
    <2> SUFFICES ASSUME NEW f \in Fds, NEW i \in DOMAIN buf'[f]
                 PROVE  sock'[f].end \in MayWaitFor(buf'[f][i].from)
      BY DEF RelayStaysInSession
    <2>1. sock[f].end \in MayWaitFor(buf'[f][i].from)
      BY DEF Appending, Belongs, Relayed, RelayStaysInSession
    <2>2. sock[f].st # "free"
      BY <1>1
    <2>3. sock'[f].end = sock[f].end
      BY <2>2 DEF Opening
    <2> QED  BY <2>1, <2>3
  <1>4. PortNamesListener'
    <2> SUFFICES ASSUME NEW t \in session_list',
                        NEW i \in DOMAIN buf'[session'[t]["s_cmd"]],
                        buf'[session'[t]["s_cmd"]][i].names # NULL
                 PROVE  /\ sock'[buf'[session'[t]["s_cmd"]][i].names].st = "listening"
                        /\ sock'[buf'[session'[t]["s_cmd"]][i].names].end = <<t, "s_data">>
      BY DEF PortNamesListener
    <2> DEFINE f == session'[t]["s_cmd"]
               c == buf'[f][i]
    <2>1. f \in Fds /\ f # NULL /\ sock'[f].st # "free" /\ sock'[f].end = <<t, "s_cmd">>
      <3>1. f # NULL
        BY DEF Owned, Paired
      <3>2. f \in Fds
        BY <3>1 DEF TypeOK, Roles
      <3> QED  BY <3>1, <3>2 DEF Owned, FdOwnership, Roles
    <2>2. sock[f].st # "free"
      BY <1>1, <2>1
    <2>3. sock[f].end = <<t, "s_cmd">>
      BY <2>1, <2>2 DEF Opening
    <2>4. t \in session_list /\ session[t]["s_cmd"] = f
      <3>1. t \in Sessions
        BY DEF Opening, TypeOK
      <3> QED  BY <2>1, <2>2, <2>3, <3>1 DEF Owned, NoCommandOrphan
    <2>5. CASE i \in DOMAIN buf[f] /\ c = buf[f][i]
      <3> DEFINE n == buf[f][i].names
      <3>1. n \in Fds /\ sock[n].st = "listening" /\ sock[n].end = <<t, "s_data">>
        BY <2>4, <2>5, NamedIsListening
      <3>2. c.names = n
        BY <2>5
      <3> HIDE DEF n, c
      <3>3. n \notin N
        BY <3>1 DEF Opening
      <3>4. sock'[n].st = "listening" /\ sock'[n].end = <<t, "s_data">>
        BY <3>1, <3>3 DEF Opening
      <3> QED  BY <3>2, <3>4 DEF c
    <2>6. CASE Belongs(s, N, f, c)
      <3>1. c.names # NULL
        OBVIOUS
      <3> HIDE DEF c, f
      <3>2. /\ sock[f].end[1] = s
            /\ sock'[c.names].st = "listening"
            /\ sock'[c.names].end = <<s, "s_data">>
        BY <2>6, <3>1 DEF Belongs
      <3>3. t = s
        BY <2>3, <3>2
      <3>4. /\ sock'[c.names].st = "listening"
            /\ sock'[c.names].end = <<t, "s_data">>
        BY <3>2, <3>3
      <3> QED  BY <3>4 DEF c, f
    <2> QED  BY <2>1, <2>5, <2>6 DEF Appending
  <1> QED  BY <1>2, <1>3, <1>4 DEF Relayed

LEMMA AddSessionKeeps ==
    ASSUME TypeOK, TypeOK', Owned, Relayed, AddSession
    PROVE  Owned' /\ Relayed'
  <1> DEFINE s == accepted + 1
             sk(n) == [sock EXCEPT ![n] = NewSocket(s, "c_cmd", "up")]
  <1>1. PICK n, m \in Fds :
          /\ Lowest(n, sock) /\ Lowest(m, sk(n))
          /\ sock' = [sk(n) EXCEPT ![m] = NewSocket(s, "s_cmd", "connecting")]
          /\ epoll' = Registered(Registered(epoll, n), m)
          /\ session' = [session EXCEPT
               ![s] = [NoSockets EXCEPT !["c_cmd"] = n, !["s_cmd"] = m]]
    BY DEF AddSession
  <1>2. s \in Sessions /\ s \notin session_list /\ s = accepted' /\ accepted' >= accepted
        /\ session_list' = session_list \cup {s}
    <2>1. accepted \in Nat /\ accepted < arrived /\ arrived \in 0 .. MaxClients
      BY ConstantsAssumption DEF AddSession, TypeOK
    <2>2. session_list \subseteq 1 .. accepted
      BY DEF Owned, Admitted
    <2> QED  BY <2>1, <2>2, ConstantsAssumption DEF AddSession, Sessions
  <1> HIDE DEF s
  <1>3. n # m /\ sock[n].st = "free" /\ sock[m].st = "free"
    <2>1. sk(n)[n].st = "up"
      BY DEF TypeOK, NewSocket
    <2>2. n # m
      BY <1>1, <2>1 DEF Lowest
    <2> QED  BY <1>1, <2>2 DEF Lowest, TypeOK
  <1>4. /\ sock'[n] = NewSocket(s, "c_cmd", "up")
        /\ sock'[m] = NewSocket(s, "s_cmd", "connecting")
        /\ \A f \in Fds : f \notin {n, m} => sock'[f] = sock[f]
    BY <1>1, <1>3 DEF TypeOK
  <1>5. /\ session'[s]["c_cmd"] = n /\ session'[s]["s_cmd"] = m
        /\ \A r \in Roles : r \notin {"c_cmd", "s_cmd"} => session'[s][r] = NULL
        /\ \A t \in session_list : session'[t] = session[t]
    BY <1>1, <1>2 DEF TypeOK, NoSockets, Roles
  <1>6. Opening(s, {n, m})
    <2>1. n # NULL /\ m # NULL
      BY ConstantsAssumption DEF Fds, NULL
    <2>2. \A r \in Roles : session'[s][r] # NULL =>
             /\ session'[s][r] \in {n, m}
             /\ sock'[session'[s][r]].st # "free"
             /\ sock'[session'[s][r]].end = <<s, r>>
      BY <1>4, <1>5 DEF NewSocket, Roles
    <2>3. \A f \in {n, m} : \A t \in Sessions : \A r \in CommandRoles :
             sock'[f].end = <<t, r>> => t = s /\ session'[s][r] = f
      BY <1>4, <1>5 DEF NewSocket, CommandRoles
    <2>4. epoll \subseteq epoll' /\ {n, m} \subseteq epoll'
      BY <1>1 DEF Registered
    <2> QED  BY <1>2, <1>3, <1>4, <1>5, <2>1, <2>2, <2>3, <2>4 DEF Opening, CommandRoles, TypeOK, Sessions
  <1>7. Appending(s, {n, m})
    BY DEF AddSession, Appending
  <1> QED  BY <1>2, <1>6, <1>7, OpeningOwned, OpeningRelayed

LEMMA AcceptKeeps ==
    ASSUME TypeOK, TypeOK', Owned, Relayed, NEW e \in events, NEW s \in Sessions,
           server_accept(e, s)
    PROVE  Owned' /\ Relayed'
  <1>1. e.fd \in Fds /\ s \in session_list /\ e.fd = session[s]["s_data"]
    BY FdFacts DEF Handles, server_accept
  <1> DEFINE d == e.fd
  <1>2. PICK n \in Fds :
           /\ Lowest(n, sock)
           /\ sock' = [sock EXCEPT ![d].queue = @ - 1,
                                   ![n] = NewSocket(s, "s_conn", "up")]
           /\ epoll' = Registered(epoll, n)
           /\ session' = [session EXCEPT ![s]["s_conn"] = n]
    BY Zenon DEF server_accept
  <1>2a. UNCHANGED <<session_list, accepted, buf>>
    BY DEF server_accept
  <1>3. d \in Fds
    BY <1>1
  <1> HIDE DEF d
  <1>4. /\ sock[n].st = "free"
        /\ sock'[n] = NewSocket(s, "s_conn", "up")
        /\ \A f \in Fds : f # n => /\ sock'[f].st = sock[f].st
                                   /\ sock'[f].end = sock[f].end
    <2>1. sock[n].st = "free" /\ sock \in [Fds -> Sockets]
      BY <1>2 DEF Lowest, TypeOK
    <2>2. sock'[n] = NewSocket(s, "s_conn", "up")
      BY <1>2, <1>3, <2>1
    <2>3. \A f \in Fds : f # n /\ f # d => sock'[f] = sock[f]
      BY <1>2, <1>3, <2>1
    <2>4. n # d => sock'[d] = [sock[d] EXCEPT !.queue = @ - 1]
      BY <1>2, <1>3, <2>1
    <2>5. n # d => sock'[d].st = sock[d].st /\ sock'[d].end = sock[d].end
      <3>1. sock[d] \in Sockets
        BY <1>3, <2>1
      <3> QED  BY <2>4, <3>1 DEF Sockets
    <2> QED  BY <2>1, <2>2, <2>3, <2>5
  <1>4a. sock'[n].st # "free" /\ sock'[n].end = <<s, "s_conn">>
    BY <1>4 DEF NewSocket
  <1>5. /\ session'[s]["s_conn"] = n
        /\ \A r \in Roles : r # "s_conn" => session'[s][r] = session[s][r]
        /\ \A t \in session_list : t # s => session'[t] = session[t]
    BY <1>2 DEF TypeOK, Roles
  <1>6. Opening(s, {n})
    <2>1. \A f \in {n} : \A t \in Sessions : \A r \in CommandRoles :
             sock'[f].end # <<t, r>>
      BY <1>4a DEF CommandRoles
    <2>2. accepted' >= accepted /\ s <= accepted' /\ session_list' = session_list \cup {s}
      BY <1>1, <1>2a, ConstantsAssumption DEF Owned, Admitted, TypeOK
    <2>3. \A r \in CommandRoles : session'[s][r] # NULL /\ session'[s][r] = session[s][r]
      BY <1>1, <1>5 DEF CommandRoles, Roles, Owned, Paired
    <2>4. \A r \in Roles : session'[s][r] # NULL =>
             \/ /\ session'[s][r] \in {n}
                /\ sock'[session'[s][r]].st # "free"
                /\ sock'[session'[s][r]].end = <<s, r>>
             \/ s \in session_list /\ session'[s][r] = session[s][r]
      BY <1>1, <1>4a, <1>5
    <2>5. epoll \subseteq epoll' /\ {n} \subseteq epoll'
      BY <1>2 DEF Registered
    <2> QED  BY <1>4, <1>4a, <1>5, <2>1, <2>2, <2>3, <2>4, <2>5 DEF Opening
  <1>7. Appending(s, {n})
    BY <1>2a DEF Appending
  <1> QED  BY <1>6, <1>7, OpeningOwned, OpeningRelayed

(* The socket server_accept could not register is nobody's.                *)
LEMMA UnregisteredKeeps ==
    ASSUME TypeOK, TypeOK', Owned, Relayed, NEW e \in events, NEW s \in Sessions,
           ServerAcceptUnregistered(e, s)
    PROVE  Owned' /\ Relayed'
  <1> DEFINE d == e.fd
  <1>1. d \in Fds /\ s \in session_list
    BY FdFacts DEF Handles, ServerAcceptUnregistered
  <1>2. PICK n \in Fds :
           /\ Lowest(n, sock)
           /\ sock' = [sock EXCEPT ![d].queue = @ - 1,
                                   ![n] = NewSocket(s, "s_conn", "up")]
    BY Zenon DEF ServerAcceptUnregistered
  <1>3. UNCHANGED <<session, session_list, accepted, buf, epoll>>
    BY DEF ServerAcceptUnregistered
  <1> HIDE DEF d
  <1>4. sock[n].st = "free" /\ sock \in [Fds -> Sockets]
    BY <1>2 DEF Lowest, TypeOK
  <1>5. sock'[n].st # "free" /\ sock'[n].end = <<s, "s_conn">>
    BY <1>1, <1>2, <1>4 DEF NewSocket
  <1>6. \A f \in Fds : f # n => sock'[f].st = sock[f].st /\ sock'[f].end = sock[f].end
    <2>1. \A f \in Fds : f # n /\ f # d => sock'[f] = sock[f]
      BY <1>1, <1>2, <1>4
    <2>2. n # d => sock'[d] = [sock[d] EXCEPT !.queue = @ - 1]
      BY <1>1, <1>2, <1>4
    <2>3. sock[d] \in Sockets
      BY <1>1, <1>4
    <2> QED  BY <2>1, <2>2, <2>3 DEF Sockets
  <1>7. Opening(s, {n})
    <2>1. \A r \in Roles : session[s][r] # n
      BY <1>1, <1>4, ConstantsAssumption DEF Owned, FdOwnership, Fds, NULL
    <2>2. \A r \in CommandRoles : session[s][r] # NULL
      BY <1>1 DEF CommandRoles, Owned, Paired
    <2>3. accepted' >= accepted /\ s <= accepted' /\ session_list' = session_list \cup {s}
      BY <1>1, <1>3, ConstantsAssumption DEF Owned, Admitted, TypeOK
    <2>4. \A f \in {n} : \A t \in Sessions : \A r \in CommandRoles : sock'[f].end # <<t, r>>
      BY <1>5 DEF CommandRoles
    <2> QED  BY <1>1, <1>3, <1>4, <1>5, <1>6, <2>1, <2>2, <2>3, <2>4 DEF Opening
  <1>8. Appending(s, {n})
    BY <1>3 DEF Appending
  <1> QED  BY <1>7, <1>8, OpeningOwned, OpeningRelayed

(* Bytes of role r may wait for role `to` of the same session.             *)
Feeds(r, to) == Opposite[r] = to \/ (r = "c_data" /\ to = "s_data")

(* Buffering for the socket a session holds where the bytes of r may wait  *)
(* is buffering where the chunk belongs.                                   *)
LEMMA BufferKeeps ==
    ASSUME TypeOK, Owned, NEW e \in events, e.fd \in Fds, NEW s \in session_list,
           NEW r \in Roles, NEW to \in Roles, Feeds(r, to),
           NEW k \in Kinds, NEW n \in Fds \cup {NULL}, NEW N,
           n # NULL => /\ n \in N /\ sock'[n].st = "listening"
                       /\ sock'[n].end = <<s, "s_data">>,
           session_write_packet(e, session_buffer_write(session[s][to], Chunk(s, r, k, n)))
    PROVE  Appending(s, N)
  <1> DEFINE t == session[s][to]
             c == Chunk(s, r, k, n)
  <1>1. s \in Sessions /\ t \in Fds \cup {NULL}
    BY DEF TypeOK
  <1>2. c \in Chunks
    BY <1>1, ChunkType
  <1>3. c.from = <<s, r>> /\ c.names = n
    BY DEF Chunk
  <1>4. session_write_packet(e, session_buffer_write(t, c))
    OBVIOUS
  <1> HIDE DEF c
  <1>5. t \in Fds => Belongs(s, N, t, c)
    <2> SUFFICES ASSUME t \in Fds PROVE Belongs(s, N, t, c)
      OBVIOUS
    <2>1. t # NULL
      BY ConstantsAssumption DEF Fds, NULL
    <2>2. sock[t].st # "free" /\ sock[t].end = <<s, to>>
      BY <2>1 DEF Owned, FdOwnership
    <2>3. <<s, to>> \in MayWaitFor(<<s, r>>)
      BY DEF Feeds, MayWaitFor
    <2> QED  BY <1>3, <2>2, <2>3 DEF Belongs
  <1> HIDE DEF t
  <1> QED  BY <1>1, <1>2, <1>4, <1>5, BufferStep DEF Appending

LEMMA StillOpening ==
    ASSUME TypeOK, Owned, NEW s \in session_list, SameSockets,
           UNCHANGED <<epoll, session, session_list, accepted>>
    PROVE  Opening(s, {})
  <1>1. accepted \in Nat /\ s \in 1 .. accepted
    BY ConstantsAssumption DEF Owned, Admitted, TypeOK
  <1>2. \A r \in CommandRoles : session[s][r] # NULL
    BY DEF Owned, Paired, CommandRoles
  <1> QED  BY <1>1, <1>2 DEF Opening, SameSockets

LEMMA ReceivedSame ==
    ASSUME TypeOK, NEW f \in Fds, sock' = Received(sock, f)
    PROVE  SameSockets
  <1>1. sock \in [Fds -> Sockets]
    BY DEF TypeOK
  <1>2. \A g \in Fds : sock'[g].st = sock[g].st /\ sock'[g].end = sock[g].end
    BY <1>1 DEF Received, Sockets
  <1> QED  BY <1>2 DEF SameSockets

LEMMA ForwardKeeps ==
    ASSUME TypeOK, TypeOK', Owned, Relayed, NEW e \in events, NEW s \in Sessions,
           NEW r \in Roles, NEW to \in Roles, Feeds(r, to), Forward(e, s, r, to)
    PROVE  Owned' /\ Relayed'
  <1>1. e.fd \in Fds /\ s \in session_list
    BY FdFacts DEF Forward, Reads, Handles
  <1>2. sock[e.fd].rx \in Kinds
    BY <1>1 DEF Forward, ReadResult, TypeOK, Sockets
  <1>3. Opening(s, {})
    <2>1. sock' = Received(sock, e.fd)
      BY DEF Forward
    <2>2. SameSockets
      BY <1>1, <2>1, ReceivedSame
    <2> QED  BY <1>1, <2>2, StillOpening DEF Forward
  <1>4. session_write_packet(e, session_buffer_write(session[s][to],
                               Chunk(s, r, sock[e.fd].rx, NULL)))
    BY DEF Forward
  <1>5. Appending(s, {})
    <2>1. NULL \in Fds \cup {NULL}
      OBVIOUS
    <2> QED  BY <1>1, <1>2, <1>4, <2>1, BufferKeeps
  <1> QED  BY <1>1, <1>3, <1>5, OpeningOwned, OpeningRelayed

LEMMA PortKeeps ==
    ASSUME TypeOK, TypeOK', Owned, Relayed, NEW e \in events, NEW s \in Sessions,
           NEW r \in Roles, NEW to \in Roles, Feeds(r, to),
           send_packet_to_server(e, s, r, to)
    PROVE  Owned' /\ Relayed'
  <1> DEFINE d == e.fd
             cs == NewSocket(s, "c_data", "connecting")
             ls == NewSocket(s, "s_data", "listening")
             conn(n) == Opened(sock, n, cs)
             lstn(n, m) == Opened(conn(n), m, ls)
  <1>1. d \in Fds /\ s \in session_list /\ d = session[s][r]
    BY FdFacts DEF send_packet_to_server, Reads, Handles
  <1>2. sock[d].rx \in Kinds
    BY <1>1 DEF send_packet_to_server, Kinds
  <1>3. PICK n, m \in Fds \cup {NULL} :
           /\ IF r = "c_cmd" /\ sock[d].rx = "PORT" THEN Lowest(n, sock) ELSE n = NULL
           /\ Opens(m, conn(n))
           /\ sock' = Received(lstn(n, m), d)
           /\ epoll' = Registered(Registered(epoll, n), m) \ {NULL}
           /\ session' = [session EXCEPT
                ![s] = Pointer(Pointer(@, "c_data", n), "s_data", m)]
           /\ session_write_packet(e, session_buffer_write(session[s][to],
                Chunk(s, r, sock[d].rx, PortAddress(n, m))))
    BY Zenon DEF send_packet_to_server
  <1>4. UNCHANGED <<session_list, accepted>>
    BY DEF send_packet_to_server
  <1>5. \A f \in Fds : f # NULL
    BY ConstantsAssumption DEF Fds, NULL
  <1>6. sock[d].st # "free"
    BY <1>1, <1>5 DEF Owned, FdOwnership
  <1>7. sock \in [Fds -> Sockets] /\ cs \in Sockets /\ ls \in Sockets
    BY NewSocketType DEF TypeOK, Roles
  <1>8. /\ cs.st = "connecting" /\ cs.end = <<s, "c_data">>
        /\ ls.st = "listening" /\ ls.end = <<s, "s_data">>
    BY DEF NewSocket
  <1> HIDE DEF d, cs, ls
  <1>9. n # NULL => sock[n].st = "free"
    BY <1>3 DEF Lowest
  <1>10. /\ conn(n) \in [Fds -> Sockets]
         /\ n # NULL => conn(n)[n] = cs
         /\ \A f \in Fds : f # n => conn(n)[f] = sock[f]
    BY <1>7 DEF Opened
  <1>11. m # NULL => m # n /\ sock[m].st = "free"
    <2>1. m # NULL => conn(n)[m].st = "free"
      BY <1>3 DEF Opens, Lowest
    <2> HIDE DEF conn
    <2> QED  BY <1>8, <1>10, <2>1
  <1> HIDE DEF conn
  <1>12. /\ lstn(n, m) \in [Fds -> Sockets]
         /\ m # NULL => lstn(n, m)[m] = ls
         /\ \A f \in Fds : f # m => lstn(n, m)[f] = conn(n)[f]
    BY <1>7, <1>10 DEF Opened
  <1> HIDE DEF lstn
  <1>13. \A f \in Fds : sock'[f].st = lstn(n, m)[f].st /\ sock'[f].end = lstn(n, m)[f].end
    BY <1>1, <1>3, <1>12 DEF Received, Sockets
  <1>14. n # NULL => sock'[n].st = "connecting" /\ sock'[n].end = <<s, "c_data">>
    <2>1. n # NULL => n \in Fds /\ n # m
      BY <1>11
    <2> QED  BY <1>8, <1>10, <1>12, <1>13, <2>1
  <1>15. m # NULL => sock'[m].st = "listening" /\ sock'[m].end = <<s, "s_data">>
    BY <1>8, <1>12, <1>13
  <1>16. \A f \in Fds : f # n /\ f # m => sock'[f].st = sock[f].st /\ sock'[f].end = sock[f].end
    BY <1>10, <1>12, <1>13
  <1>17. /\ session'[s]["c_data"] = IF n = NULL THEN session[s]["c_data"] ELSE n
         /\ session'[s]["s_data"] = IF m = NULL THEN session[s]["s_data"] ELSE m
         /\ \A q \in Roles : q # "c_data" /\ q # "s_data" => session'[s][q] = session[s][q]
         /\ \A t \in session_list : t # s => session'[t] = session[t]
    BY <1>3 DEF TypeOK, Pointer, Roles
  <1> DEFINE N == {n, m} \ {NULL}
  <1>18. Opening(s, N)
    <2>1. \A f \in N : f \in Fds /\ sock[f].st = "free" /\ sock'[f].st # "free"
      BY <1>9, <1>11, <1>14, <1>15
    <2>2. \A f \in N : \A t \in Sessions : \A q \in CommandRoles : sock'[f].end # <<t, q>>
      BY <1>14, <1>15 DEF CommandRoles
    <2>3. accepted' >= accepted /\ s <= accepted' /\ session_list' = session_list \cup {s}
      BY <1>1, <1>4, ConstantsAssumption DEF Owned, Admitted, TypeOK
    <2>4. \A q \in CommandRoles : session'[s][q] # NULL /\ session'[s][q] = session[s][q]
      BY <1>1, <1>17 DEF CommandRoles, Roles, Owned, Paired
    <2>5. \A q \in Roles : session'[s][q] # NULL =>
             \/ /\ session'[s][q] \in N
                /\ sock'[session'[s][q]].st # "free"
                /\ sock'[session'[s][q]].end = <<s, q>>
             \/ s \in session_list /\ session'[s][q] = session[s][q]
      <3> TAKE q \in Roles
      <3>1. CASE q = "c_data"
        BY <1>1, <1>14, <1>17, <3>1
      <3>2. CASE q = "s_data"
        BY <1>1, <1>15, <1>17, <3>2
      <3>3. CASE q # "c_data" /\ q # "s_data"
        BY <1>1, <1>17, <3>3
      <3> QED  BY <3>1, <3>2, <3>3
    <2>6. epoll \subseteq epoll' /\ N \subseteq epoll'
      BY <1>3, <1>5 DEF Registered, TypeOK
    <2>7. \A f \in Fds : f \notin N => sock'[f].st = sock[f].st /\ sock'[f].end = sock[f].end
      BY <1>5, <1>16
    <2> HIDE DEF N
    <2> QED  BY <1>17, <2>1, <2>2, <2>3, <2>4, <2>5, <2>6, <2>7 DEF Opening
  <1>19. Appending(s, N)
    <2>1. PortAddress(n, m) = m
      BY DEF PortAddress
    <2>2. m # NULL => m \in N /\ sock'[m].st = "listening" /\ sock'[m].end = <<s, "s_data">>
      BY <1>15
    <2>3. session_write_packet(e, session_buffer_write(session[s][to],
                Chunk(s, r, sock[d].rx, m)))
      BY <1>3, <2>1
    <2>4. e.fd \in Fds
      BY <1>1 DEF d
    <2> HIDE DEF N
    <2> QED  BY <1>1, <1>2, <2>2, <2>3, <2>4, BufferKeeps
  <1> QED  BY <1>18, <1>19, OpeningOwned, OpeningRelayed

LEMMA HandleKeeps ==
    ASSUME TypeOK, TypeOK', Owned, Relayed, NEW e \in events, NEW s \in Sessions,
           Handle(e, s)
    PROVE  Owned' /\ Relayed'
  <1>1. e.fd \in Fds /\ s \in session_list /\ Owns(s, e.fd)
    <2>1. Handles(e, s)
      BY DEF Handle, WriteOnly, server_accept, ServerAcceptFails, ReadError, ReadClosed,
             server_data_closed, server_command_received, server_data_connection_received,
             client_command_received, client_data_received, PortConnectFails, PortRegisterFails,
             ServerAcceptUnregistered, PortCommand, PortLikeData, send_packet_to_server, Forward, Reads
    <2> QED  BY <2>1, FdFacts DEF Handles
  <1>2. CASE WriteOnly(e, s)
    <2>1. Opening(s, {})
      <3>1. SameSockets
        BY <1>2 DEF WriteOnly, kernel, SameSockets
      <3> QED  BY <1>1, <1>2, <3>1, StillOpening DEF WriteOnly, kernel
    <2>2. \A f \in Fds : buf'[f] = buf[f] \/ buf'[f] = <<>>
      BY <1>1, <1>2 DEF WriteOnly, session_write_packet, TypeOK
    <2>3. Appending(s, {})
      BY <2>2 DEF Appending
    <2> QED  BY <2>1, <2>3, OpeningOwned, OpeningRelayed
  <1>3. CASE server_accept(e, s)
    BY <1>3, AcceptKeeps
  <1>4. CASE ServerAcceptFails(e, s)
    <2>1. SameSockets /\ UNCHANGED <<buf, epoll, session, session_list, accepted>>
      BY <1>4 DEF ServerAcceptFails, kernel, SameSockets
    <2>2. accepted' >= accepted
      BY <2>1, ConstantsAssumption DEF TypeOK
    <2> QED  BY <2>1, <2>2, OwnedFrame, RelayedFrame
  <1>4a. CASE ServerAcceptUnregistered(e, s)
    BY <1>4a, UnregisteredKeeps
  <1>5. CASE \/ ReadError(e, s) \/ ReadClosed(e, s)
             \/ PortConnectFails(e, s) \/ PortRegisterFails(e, s)
    <2>1. PICK C, gone : /\ Closing(s, C) /\ \A f \in gone : Owns(s, f)
                         /\ session_remove_from_list(s, C, gone)
      <3>1. CASE ReadError(e, s) \/ ReadClosed(e, s)
        BY <1>1, <3>1, ClosingFreed DEF ReadError, ReadClosed
      <3>2. CASE PortConnectFails(e, s)
        BY <1>1, <3>2, ClosingFreed DEF PortConnectFails
      <3>3. CASE PortRegisterFails(e, s)
        BY <1>1, <3>3, ClosingFreed DEF PortRegisterFails
      <3> QED  BY <1>5, <3>1, <3>2, <3>3
    <2>2. accepted' = accepted
      BY <1>5 DEF ReadError, ReadClosed, PortConnectFails, PortRegisterFails
    <2> QED  BY <1>1, <2>1, <2>2, RemoveOwned, RemoveRelayed
  <1>6. CASE server_data_closed(e, s)
    <2>1. session[s]["s_conn"] = e.fd /\ ConnectionFreed(s, e.fd)
      BY <1>6 DEF server_data_closed, ConnectionFreed
    <2> QED  BY <1>1, <2>1, DataClosedKeeps
  <1>7. CASE \/ server_command_received(e, s)
             \/ server_data_connection_received(e, s)
             \/ client_command_received(e, s)
             \/ client_data_received(e, s)
    BY <1>7, ForwardKeeps DEF server_command_received, client_data_received, Opposite, Feeds,
       server_data_connection_received, client_command_received, Roles
  <1>8. CASE PortCommand(e, s) \/ PortLikeData(e, s)
    BY <1>8, PortKeeps DEF PortCommand, PortLikeData, Opposite, Feeds, Roles
  <1> QED  BY <1>2, <1>3, <1>4, <1>4a, <1>5, <1>6, <1>7, <1>8 DEF Handle

LEMMA PeersSame == TypeOK /\ Peers => SameSockets
  <1> SUFFICES ASSUME TypeOK, Peers PROVE SameSockets
    OBVIOUS
  <1>1. sock \in [Fds -> Sockets]
    BY DEF TypeOK
  <1>2. CASE ClientDials
    BY <1>2 DEF ClientDials, kernel, SameSockets
  <1>3. ASSUME NEW f \in Fds, NEW st \in {"up", "reset"},
               sock[f].st \in {"connecting", "up"}, sock' = [sock EXCEPT ![f].st = st]
        PROVE  SameSockets
    BY <1>1, <1>3 DEF SameSockets, Sockets
  <1>4. ASSUME NEW f \in Fds,
               \/ ServerDials(f) \/ PeerCloses(f)
               \/ \E k \in Kinds : sock' = [sock EXCEPT ![f].rx = k]
        PROVE  SameSockets
    <2>1. \A g \in Fds : sock'[g].st = sock[g].st /\ sock'[g].end = sock[g].end
      BY <1>1, <1>4 DEF ServerDials, PeerCloses, Sockets
    <2> QED  BY <2>1 DEF SameSockets
  <1>5. ASSUME NEW f \in Fds, PeerSends(f) PROVE \E k \in Kinds : sock' = [sock EXCEPT ![f].rx = k]
    BY <1>5 DEF PeerSends, KindsFrom, Kinds
  <1> QED  BY <1>2, <1>3, <1>4, <1>5 DEF Peers, ConnectSettles, PeerResets

LEMMA OwnedStep == TypeOK /\ Owned /\ Relayed /\ [Next]_vars /\ TypeOK' => Owned' /\ Relayed'
  <1> SUFFICES ASSUME TypeOK, Owned, Relayed, [Next]_vars, TypeOK'
               PROVE  Owned' /\ Relayed'
    OBVIOUS
  <1>1. CASE SameSockets /\ UNCHANGED <<buf, epoll, session, session_list>> /\ accepted' >= accepted
    BY <1>1, OwnedFrame, RelayedFrame
  <1>2. accepted \in Nat
    BY ConstantsAssumption DEF TypeOK
  <1>3. CASE \/ Poll \/ AcceptFails \/ ServerCreateFails
             \/ \E e \in events \ {ListenEvent} : UnknownSocket(e)
    BY <1>1, <1>2, <1>3 DEF Poll, AcceptFails, ServerCreateFails, UnknownSocket, kernel, SameSockets
  <1>4. CASE AddSession
    BY <1>4, AddSessionKeeps
  <1>5. ASSUME NEW e \in events, NEW s \in Sessions, Handle(e, s)
        PROVE  Owned' /\ Relayed'
    BY <1>5, HandleKeeps
  <1>6. CASE Peers
    <2>1. UNCHANGED <<buf, epoll, session, session_list, accepted>>
      BY <1>6 DEF Peers, ClientDials, ConnectSettles, PeerSends, PeerCloses, PeerResets,
                  ServerDials, kernel
    <2> QED  BY <1>1, <1>2, <1>6, <2>1, PeersSame
  <1>7. CASE UNCHANGED vars
    BY <1>1, <1>2, <1>7 DEF vars, SameSockets
  <1> QED  BY <1>3, <1>4, <1>5, <1>6, <1>7 DEF Next, session_polling

LEMMA Invariant == Spec => [](TypeOK /\ Owned /\ Relayed)
  <1>1. Init => TypeOK /\ Owned /\ Relayed
    BY TypeInit, OwnedInit
  <1>2. TypeOK /\ Owned /\ Relayed /\ [Next]_vars => TypeOK' /\ Owned' /\ Relayed'
    BY TypeStep, OwnedStep
  <1> QED  BY <1>1, <1>2, PTL DEF Spec

(* No socket pointer of a listed session outlives its descriptor or        *)
(* reaches a descriptor of another session, however descriptors are        *)
(* reused: an event is never handled for the wrong session.                *)
THEOREM PointersOwnTheirDescriptors == Spec => []FdOwnership
  <1>1. Owned => FdOwnership
    BY DEF Owned
  <1> QED  BY <1>1, Invariant, PTL

(* Every socket of a listed session stays registered with epoll. *)
THEOREM LiveSocketsArePolled == Spec => []PolledWhileOwned
  <1>1. Owned => PolledWhileOwned
    BY DEF Owned
  <1> QED  BY <1>1, Invariant, PTL

(* A command connection never survives the session it belongs to. *)
THEOREM CommandConnectionsNeverLeak == Spec => []NoCommandOrphan
  <1>1. Owned => NoCommandOrphan
    BY DEF Owned
  <1> QED  BY <1>1, Invariant, PTL

(* What is buffered for a connection came from the other side of the same  *)
(* session, from the end it answers to (an upload at least from its        *)
(* client): bytes never cross from one session to another.                 *)
THEOREM BytesStayInSession == Spec => []RelayStaysInSession
  <1>1. Relayed => RelayStaysInSession
    BY DEF Relayed
  <1> QED  BY <1>1, Invariant, PTL

(* A server is only told the address of a socket that listens for its own  *)
(* session.                                                                *)
THEOREM PortCommandsNameListeners == Spec => []PortNamesListener
  <1>1. Relayed => PortNamesListener
    BY DEF Relayed
  <1> QED  BY <1>1, Invariant, PTL
=============================================================================
