--------------------------- MODULE SessionProofs ---------------------------
(* What a step of the event loop may do to the batch of events and to the  *)
(* sessions, for every number of descriptors and of clients: events go     *)
(* stale only by teardowns, teardowns have causes, and sessions that share *)
(* descriptors implement sessions that share nothing.                      *)
EXTENDS FtpProxyProofs

-----------------------------------------------------------------------------
(* The batch: every event in it is about a descriptor of its own, and only *)
(* the sockets that listen for a server are listening.                     *)
OneEventEach == \A e, f \in events : e.fd = f.fd => e = f
BatchInTable == \A e \in Batch : e.fd \in Fds
ListenersServe == \A f \in Fds : sock[f].st = "listening" => sock[f].end[2] = "s_data"

Sound == OneEventEach /\ BatchInTable /\ ListenersServe

LEMMA SoundInit == Init => Sound
BY DEF Init, Sound, OneEventEach, BatchInTable, ListenersServe, Batch, FreeSocket

LEMMA PollSound == TypeOK /\ Sound /\ Poll => Sound' /\ \A e \in Batch' : StillTrue(e)'
  <1> SUFFICES ASSUME TypeOK, Sound, Poll
               PROVE  Sound' /\ \A e \in Batch' : StillTrue(e)'
    OBVIOUS
  <1>1. PICK stalled :
           events' = {EventOf(f, stalled) : f \in {g \in epoll :
                         InReady(g) \/ OutReady(g, stalled)}}
                     \cup (IF DialPending THEN {ListenEvent} ELSE {})
    BY DEF Poll
  <1>2. epoll \subseteq Fds /\ sock' = sock
    BY DEF Poll, kernel, TypeOK
  <1>3. ASSUME NEW e \in events', e # ListenEvent
        PROVE  \E f \in Fds : e = EventOf(f, stalled) /\ (InReady(f) \/ OutReady(f, stalled))
    BY <1>1, <1>2, <1>3
  <1>4. ASSUME NEW f \in Fds PROVE EventOf(f, stalled).fd = f /\ f # ListenEvent.fd
    BY ConstantsAssumption DEF EventOf, ListenEvent, Fds, ProxySocket
  <1>5. OneEventEach'
    BY <1>3, <1>4 DEF OneEventEach
  <1>6. BatchInTable'
    BY <1>3, <1>4 DEF BatchInTable, Batch
  <1>7. ListenersServe'
    BY <1>2 DEF Sound, ListenersServe
  <1>8. ASSUME NEW e \in Batch' PROVE StillTrue(e)'
    <2>1. PICK f \in Fds : e = EventOf(f, stalled) /\ (InReady(f) \/ OutReady(f, stalled))
      BY <1>3 DEF Batch
    <2>2. sock[f].st # "free"
      BY <2>1 DEF InReady, OutReady
    <2> QED  BY <1>2, <2>1, <2>2 DEF StillTrue, EventOf, InReady
  <1> QED  BY <1>5, <1>6, <1>7, <1>8 DEF Sound

(* A step that takes events out of the batch leaves the rest of it sound.  *)
LEMMA BatchShrinks ==
    ASSUME Sound, events' \subseteq events
    PROVE  OneEventEach' /\ BatchInTable' /\ Batch' \subseteq Batch
BY DEF Sound, OneEventEach, BatchInTable, Batch

-----------------------------------------------------------------------------
(* What handling e does to the descriptors of others: nothing, unless it   *)
(* removes a session.                                                      *)
Removes(e, s) == \/ ReadError(e, s) \/ ReadClosed(e, s)
                 \/ PortConnectFails(e, s) \/ PortRegisterFails(e, s)

OthersSame(d) ==
    \A g \in Fds : g # d /\ sock[g].st # "free" => sock'[g] = sock[g]

OnlyServersListen ==
    \A g \in Fds : sock'[g].st = "listening" =>
        \/ sock[g].st = "listening" /\ sock'[g].end = sock[g].end
        \/ sock'[g].end[2] = "s_data"

LEMMA ReceivedOthers ==
    ASSUME NEW sk \in [Fds -> Sockets], NEW f \in Fds
    PROVE  /\ \A g \in Fds : g # f => Received(sk, f)[g] = sk[g]
           /\ \A g \in Fds : /\ Received(sk, f)[g].st = sk[g].st
                             /\ Received(sk, f)[g].end = sk[g].end
BY DEF Received, Sockets

LEMMA PortOthers ==
    ASSUME TypeOK, Owned, NEW e \in events, NEW s \in Sessions, NEW r \in Roles, NEW to \in Roles,
           send_packet_to_server(e, s, r, to)
    PROVE  OthersSame(e.fd) /\ OnlyServersListen
  <1> DEFINE d == e.fd
             cs == NewSocket(s, "c_data", "connecting")
             ls == NewSocket(s, "s_data", "listening")
             conn(n) == Opened(sock, n, cs)
             lstn(n, m) == Opened(conn(n), m, ls)
  <1>1. d \in Fds
    BY FdFacts DEF send_packet_to_server, Reads, Handles
  <1>2. PICK n, m \in Fds \cup {NULL} :
           /\ IF r = "c_cmd" /\ sock[d].rx = "PORT" THEN Lowest(n, sock) ELSE n = NULL
           /\ Opens(m, conn(n))
           /\ sock' = Received(lstn(n, m), d)
    BY Zenon DEF send_packet_to_server
  <1>3. sock \in [Fds -> Sockets] /\ cs \in Sockets /\ ls \in Sockets
    BY NewSocketType DEF TypeOK, Roles
  <1>4. cs.st = "connecting" /\ ls.end[2] = "s_data"
    BY DEF NewSocket
  <1> HIDE DEF d, cs, ls
  <1>5. \A f \in Fds : f # NULL
    BY ConstantsAssumption DEF Fds, NULL
  <1>6. n # NULL => sock[n].st = "free"
    BY <1>2 DEF Lowest
  <1>7. conn(n) \in [Fds -> Sockets] /\ \A f \in Fds : conn(n)[f] = IF f = n THEN cs ELSE sock[f]
    BY <1>3, <1>5 DEF Opened
  <1>8. m # NULL => conn(n)[m].st = "free"
    BY <1>2 DEF Opens, Lowest
  <1> HIDE DEF conn
  <1>9. lstn(n, m) \in [Fds -> Sockets] /\ \A f \in Fds : lstn(n, m)[f] = IF f = m THEN ls ELSE conn(n)[f]
    BY <1>3, <1>5, <1>7 DEF Opened
  <1> HIDE DEF lstn
  <1>10. /\ \A f \in Fds : f # d => sock'[f] = lstn(n, m)[f]
         /\ \A f \in Fds : sock'[f].st = lstn(n, m)[f].st /\ sock'[f].end = lstn(n, m)[f].end
    BY <1>1, <1>2, <1>9, ReceivedOthers
  <1>11. OthersSame(d)
    BY <1>4, <1>5, <1>6, <1>7, <1>8, <1>9, <1>10 DEF OthersSame
  <1>12. OnlyServersListen
    BY <1>4, <1>7, <1>9, <1>10 DEF OnlyServersListen
  <1> QED  BY <1>11, <1>12 DEF d

LEMMA HandleOthers ==
    ASSUME TypeOK, Owned, NEW e \in events, NEW s \in Sessions,
           Handle(e, s), ~Removes(e, s)
    PROVE  OthersSame(e.fd) /\ OnlyServersListen
  <1> USE DEF TypeOK
  <1>1. CASE WriteOnly(e, s) \/ ServerAcceptFails(e, s)
    BY <1>1 DEF WriteOnly, ServerAcceptFails, kernel, OthersSame, OnlyServersListen
  <1>2. CASE server_accept(e, s) \/ ServerAcceptUnregistered(e, s)
    <2>1. e.fd \in Fds
      BY <1>2, FdFacts DEF server_accept, ServerAcceptUnregistered, Handles
    <2>2. PICK n \in Fds :
             /\ Lowest(n, sock)
             /\ sock' = [sock EXCEPT ![e.fd].queue = @ - 1,
                                     ![n] = NewSocket(s, "s_conn", "up")]
      BY <1>2, Zenon DEF server_accept, ServerAcceptUnregistered
    <2>3. OthersSame(e.fd)
      BY <2>1, <2>2 DEF OthersSame, Lowest
    <2>4. OnlyServersListen
      <3>1. sock[e.fd] \in Sockets
        BY <2>1
      <3>2. /\ [sock[e.fd] EXCEPT !.queue = @ - 1].st = sock[e.fd].st
            /\ [sock[e.fd] EXCEPT !.queue = @ - 1].end = sock[e.fd].end
        BY <3>1 DEF Sockets
      <3>3. \A g \in Fds : sock'[g] = IF g = n THEN NewSocket(s, "s_conn", "up")
                                      ELSE IF g = e.fd THEN [sock[e.fd] EXCEPT !.queue = @ - 1]
                                      ELSE sock[g]
        BY <2>1, <2>2
      <3>4. NewSocket(s, "s_conn", "up").st = "up"
        BY DEF NewSocket
      <3> QED  BY <3>2, <3>3, <3>4 DEF OnlyServersListen
    <2> QED  BY <2>3, <2>4
  <1>3. CASE server_data_closed(e, s)
    BY <1>3 DEF server_data_closed, SockClosed, FreeSocket, OthersSame, OnlyServersListen
  <1>4. ASSUME NEW r \in Roles, NEW to \in Roles, Forward(e, s, r, to)
        PROVE  OthersSame(e.fd) /\ OnlyServersListen
    <2>1. e.fd \in Fds /\ sock' = Received(sock, e.fd)
      BY <1>4, FdFacts DEF Forward, Reads, Handles
    <2> QED  BY <2>1, ReceivedOthers DEF OthersSame, OnlyServersListen
  <1>5. CASE \/ server_command_received(e, s)
             \/ server_data_connection_received(e, s)
             \/ client_command_received(e, s)
             \/ client_data_received(e, s)
    BY <1>4, <1>5 DEF server_command_received, client_data_received,
       server_data_connection_received, client_command_received, Roles
  <1>6. CASE PortCommand(e, s) \/ PortLikeData(e, s)
    BY <1>6, PortOthers DEF PortCommand, PortLikeData, Roles
  <1> QED  BY <1>1, <1>2, <1>3, <1>5, <1>6 DEF Handle, Removes

(* A socket stays open, and ready if it was ready.                         *)
StaysReady(g) ==
    sock[g].st # "free" => sock'[g].st # "free" /\ (InReady(g) => InReady(g)')

LEMMA PeersReady ==
    ASSUME TypeOK, Sound, Peers
    PROVE  (\A g \in Fds : StaysReady(g)) /\ OnlyServersListen
  <1>1. sock \in [Fds -> Sockets]
    BY DEF TypeOK
  <1>2. CASE ClientDials
    BY <1>2 DEF ClientDials, kernel, StaysReady, OnlyServersListen, InReady
  <1>3. ASSUME NEW f \in Fds,
               \/ ConnectSettles(f) \/ PeerSends(f) \/ PeerCloses(f)
               \/ PeerResets(f) \/ ServerDials(f)
        PROVE  (\A g \in Fds : StaysReady(g)) /\ OnlyServersListen
    <2>1. \A g \in Fds : g # f => sock'[g] = sock[g]
      BY <1>1, <1>3 DEF ConnectSettles, PeerSends, PeerCloses, PeerResets, ServerDials
    <2>2. sock[f] \in Sockets
      BY <1>1
    <2>3. CASE ConnectSettles(f)
      <3>1. PICK st \in {"up", "reset"} : sock'[f] = [sock[f] EXCEPT !.st = st]
        BY <1>1, <2>3 DEF ConnectSettles
      <3> QED  BY <2>1, <2>2, <2>3, <3>1 DEF ConnectSettles, Sockets, StaysReady, OnlyServersListen, InReady
    <2>4. CASE PeerSends(f)
      <3>1. PICK k \in Kinds : sock'[f] = [sock[f] EXCEPT !.rx = k]
        BY <1>1, <2>4 DEF PeerSends, KindsFrom, Kinds
      <3> QED  BY <2>1, <2>2, <3>1 DEF Sockets, Kinds, StaysReady, OnlyServersListen, InReady
    <2>5. CASE PeerCloses(f)
      <3>1. sock'[f] = [sock[f] EXCEPT !.fin = TRUE]
        BY <1>1, <2>5 DEF PeerCloses
      <3> QED  BY <2>1, <2>2, <3>1 DEF Sockets, StaysReady, OnlyServersListen, InReady
    <2>6. CASE PeerResets(f)
      <3>1. sock'[f] = [sock[f] EXCEPT !.st = "reset"]
        BY <1>1, <2>6 DEF PeerResets
      <3> QED  BY <2>1, <2>2, <2>6, <3>1 DEF PeerResets, Sockets, StaysReady, OnlyServersListen, InReady
    <2>7. CASE ServerDials(f)
      <3>1. sock'[f] = [sock[f] EXCEPT !.queue = 1]
        BY <1>1, <2>7 DEF ServerDials
      <3> QED  BY <2>1, <2>2, <3>1 DEF Sockets, StaysReady, OnlyServersListen, InReady
    <2> QED  BY <1>3, <2>3, <2>4, <2>5, <2>6, <2>7
  <1> QED  BY <1>2, <1>3 DEF Peers

LEMMA AddSessionReady ==
    ASSUME TypeOK, AddSession
    PROVE  (\A g \in Fds : StaysReady(g)) /\ OnlyServersListen
  <1> DEFINE t == accepted + 1
             cs == NewSocket(t, "c_cmd", "up")
             ss == NewSocket(t, "s_cmd", "connecting")
  <1>1. PICK n, m \in Fds :
           /\ Lowest(n, sock) /\ Lowest(m, [sock EXCEPT ![n] = cs])
           /\ sock' = [[sock EXCEPT ![n] = cs] EXCEPT ![m] = ss]
    BY Zenon DEF AddSession
  <1>2. cs.st = "up" /\ ss.st = "connecting"
    BY DEF NewSocket
  <1> HIDE DEF cs, ss
  <1>3. sock[n].st = "free" /\ sock[m].st = "free"
    BY <1>1, <1>2 DEF Lowest, TypeOK
  <1>4. \A g \in Fds : \/ sock'[g] = sock[g] /\ g # n /\ g # m
                       \/ sock[g].st = "free" /\ sock'[g].st \in {"up", "connecting"}
    BY <1>1, <1>2, <1>3 DEF TypeOK
  <1> QED  BY <1>4 DEF StaysReady, OnlyServersListen, InReady

(* Removing a session closes sockets and opens none.                       *)
LEMMA RemovalListens ==
    ASSUME NEW s, NEW C, NEW gone, session_remove_from_list(s, C, gone)
    PROVE  OnlyServersListen
BY DEF session_remove_from_list, SockClosed, FreeSocket, OnlyServersListen

LEMMA HandledEvent ==
    ASSUME TypeOK, NEW e \in events, NEW s \in Sessions, Handle(e, s)
    PROVE  /\ e.fd \in Fds /\ s \in session_list /\ Owns(s, e.fd)
           /\ events' \subseteq events \ {e}
  <1>1. Handles(e, s) /\ events' \subseteq events \ {e}
    BY DEF Handle, WriteOnly, server_accept, ServerAcceptUnregistered, ServerAcceptFails,
           ReadError, ReadClosed, server_data_closed, server_command_received,
           server_data_connection_received, client_command_received, client_data_received,
           PortConnectFails, PortRegisterFails, PortCommand, PortLikeData,
           send_packet_to_server, Forward, Reads
  <1> QED  BY <1>1, FdFacts DEF Handles

LEMMA RemovalFacts ==
    ASSUME NEW e \in events, NEW s \in Sessions, Handle(e, s)
    PROVE  IF Removes(e, s)
           THEN \E C \in SUBSET SocketsFreed(s), gone \in {{}, {e.fd}} :
                   session_remove_from_list(s, C, gone)
           ELSE session_list' = session_list
  <1>1. CASE Removes(e, s)
    <2>1. SocketsFreed(s) \in SUBSET SocketsFreed(s)
          /\ SocketsFreed(s) \ {session[s]["c_data"]} \in SUBSET SocketsFreed(s)
      OBVIOUS
    <2>2. CASE ReadError(e, s) \/ ReadClosed(e, s)
      BY <1>1, <2>1, <2>2, Zenon DEF ReadError, ReadClosed
    <2>3. CASE PortConnectFails(e, s)
      BY <1>1, <2>1, <2>3, Zenon DEF PortConnectFails
    <2>4. CASE PortRegisterFails(e, s)
      BY <1>1, <2>1, <2>4, Zenon DEF PortRegisterFails
    <2> QED  BY <1>1, <2>2, <2>3, <2>4 DEF Removes
  <1>2. CASE ~Removes(e, s)
    BY <1>2 DEF Removes, Handle, WriteOnly, server_accept, ServerAcceptUnregistered,
       ServerAcceptFails, server_data_closed, server_command_received,
       server_data_connection_received, client_command_received, client_data_received,
       PortCommand, PortLikeData, send_packet_to_server, Forward
  <1> QED  BY <1>1, <1>2

(* No step makes an event of the batch stale unless it removes a session.  *)
LEMMA StaleStep ==
    ASSUME TypeOK, Owned, Sound, [Next]_vars
    PROVE  /\ Sound'
           /\ \A e \in Batch' :
                 ~StillTrue(e)' => \/ e \in Batch /\ ~StillTrue(e)
                                  \/ session_list \ session_list' # {}
  <1> DEFINE Fresh == \A e \in Batch' : ~StillTrue(e)' => e \in Batch /\ ~StillTrue(e)
  <1>1. ASSUME OnlyServersListen PROVE ListenersServe'
    BY <1>1 DEF OnlyServersListen, Sound, ListenersServe
  <1>2. ASSUME NEW e \in Batch, StaysReady(e.fd), StillTrue(e) PROVE StillTrue(e)'
    BY <1>2 DEF StaysReady, StillTrue
  <1>3. ASSUME events' \subseteq events, OnlyServersListen, \A g \in Fds : StaysReady(g)
        PROVE  Sound' /\ Fresh
    <2>1. OneEventEach' /\ BatchInTable' /\ Batch' \subseteq Batch
      BY <1>3, BatchShrinks
    <2>2. Fresh
      BY <1>2, <1>3, <2>1 DEF Sound, BatchInTable
    <2> QED  BY <1>1, <1>3, <2>1, <2>2 DEF Sound
  <1>4. CASE Poll
    BY <1>4, PollSound
  <1>5. CASE \/ AcceptFails \/ ServerCreateFails
             \/ \E e \in events \ {ListenEvent} : UnknownSocket(e)
    <2>1. sock' = sock /\ events' \subseteq events
      BY <1>5 DEF AcceptFails, ServerCreateFails, UnknownSocket, kernel
    <2>2. OnlyServersListen /\ \A g \in Fds : StaysReady(g)
      BY <2>1 DEF OnlyServersListen, StaysReady, InReady
    <2> QED  BY <1>3, <2>1, <2>2
  <1>6. CASE AddSession
    <2>1. events' \subseteq events
      BY <1>6 DEF AddSession
    <2> QED  BY <1>3, <1>6, <2>1, AddSessionReady
  <1>7. ASSUME NEW e \in events, NEW s \in Sessions, Handle(e, s)
        PROVE  Sound' /\ (Fresh \/ session_list \ session_list' # {})
    <2>1. e.fd \in Fds /\ s \in session_list /\ events' \subseteq events \ {e}
      BY <1>7, HandledEvent
    <2>2. OneEventEach' /\ BatchInTable' /\ Batch' \subseteq Batch
      BY <2>1, BatchShrinks
    <2>3. CASE Removes(e, s)
      <3>1. PICK C, gone : session_remove_from_list(s, C, gone)
        BY <1>7, <2>3, RemovalFacts
      <3>2. s \in session_list \ session_list'
        BY <2>1, <3>1 DEF session_remove_from_list
      <3> QED  BY <1>1, <2>2, <3>1, <3>2, RemovalListens DEF Sound
    <2>4. CASE ~Removes(e, s)
      <3>1. OthersSame(e.fd) /\ OnlyServersListen
        BY <1>7, <2>4, HandleOthers
      <3>2. ASSUME NEW f \in Batch' PROVE f \in Batch /\ StaysReady(f.fd)
        <4>1. f \in Batch /\ f # e /\ f \in events /\ f.fd \in Fds
          BY <2>1, <2>2 DEF Batch, Sound, BatchInTable
        <4>2. f.fd # e.fd
          BY <4>1 DEF Sound, OneEventEach
        <4> QED  BY <3>1, <4>1, <4>2 DEF OthersSame, StaysReady, InReady
      <3> QED  BY <1>1, <1>2, <2>2, <3>1, <3>2 DEF Sound
    <2> QED  BY <2>3, <2>4
  <1>8. CASE Peers
    <2>1. events' = events
      BY <1>8 DEF Peers, ClientDials, ConnectSettles, PeerSends, PeerCloses, PeerResets, ServerDials
    <2> QED  BY <1>3, <1>8, <2>1, PeersReady
  <1>9. CASE UNCHANGED vars
    BY <1>3, <1>9 DEF vars, OnlyServersListen, StaysReady, InReady
  <1> QED  BY <1>4, <1>5, <1>6, <1>7, <1>8, <1>9 DEF Next, session_polling

-----------------------------------------------------------------------------
(* A session is removed for a cause, or by an event that was stale.        *)
LEMMA CauseStep ==
    ASSUME TypeOK, Owned, Sound, [Next]_vars, NEW s \in session_list, s \notin session_list'
    PROVE  /\ Justified(s) \/ \E e \in Batch : ~StillTrue(e)
           /\ accepted' = accepted
           /\ session_list' = session_list \ {s}
  <1>1. CASE session_polling
    <2>1. CASE Poll \/ AcceptFails \/ ServerCreateFails \/ AddSession
      BY <2>1 DEF Poll, AcceptFails, ServerCreateFails, AddSession
    <2>2. ASSUME NEW e \in events \ {ListenEvent}, UnknownSocket(e)
          PROVE FALSE
      BY <2>2 DEF UnknownSocket
    <2>3. ASSUME NEW e \in events \ {ListenEvent}, NEW t \in Sessions, Handle(e, t)
          PROVE  /\ Justified(s) \/ \E f \in Batch : ~StillTrue(f)
                 /\ accepted' = accepted
                 /\ session_list' = session_list \ {s}
      <3>1. Removes(e, t)
        BY <2>3, RemovalFacts
      <3>2. session_list' = session_list \ {t}
        BY <2>3, <3>1, RemovalFacts DEF session_remove_from_list
      <3>3. t = s
        BY <3>2
      <3>4. accepted' = accepted
        BY <3>1 DEF Removes, ReadError, ReadClosed, PortConnectFails, PortRegisterFails
      <3>5. PICK r \in Roles : session[s][r] = e.fd
        BY <2>3, <3>3, HandledEvent DEF Owns
      <3>6. e.fd \in Fds /\ e.fd # NULL /\ e \in Batch
        BY <2>3, HandledEvent, ConstantsAssumption DEF Fds, NULL, Batch
      <3>7. CASE ReadError(e, s)
        <4>1. e.in /\ ReadResult(e.fd) = "error" /\ e.fd # session[s]["s_data"]
          BY <3>7 DEF ReadError, Reads
        <4>2. sock[e.fd].st # "listening"
          BY <3>5, <3>6, <4>1 DEF Sound, ListenersServe, Owned, FdOwnership
        <4>3. CASE sock[e.fd].st = "reset"
          BY <3>2, <3>3, <3>4, <3>5, <3>6, <4>3 DEF Justified, Broken
        <4>4. CASE sock[e.fd].st # "reset"
          <5>1. ~InReady(e.fd)
            BY <4>1, <4>2, <4>4 DEF ReadResult, InReady
          <5> QED  BY <3>2, <3>3, <3>4, <3>6, <4>1, <5>1 DEF StillTrue
        <4> QED  BY <3>2, <3>3, <3>4, <4>3, <4>4
      <3>8. CASE ReadClosed(e, s)
        <4>1. sock[e.fd].fin
          BY <3>8 DEF ReadClosed, ReadResult
        <4> QED  BY <3>2, <3>3, <3>4, <3>5, <3>6, <4>1 DEF Justified, Broken
      <3>9. CASE PortConnectFails(e, s) \/ PortRegisterFails(e, s)
        BY <3>2, <3>3, <3>4, <3>9 DEF PortConnectFails, PortRegisterFails, Justified
      <3> QED  BY <3>1, <3>3, <3>7, <3>8, <3>9 DEF Removes
    <2> QED  BY <1>1, <2>1, <2>2, <2>3 DEF session_polling
  <1>2. CASE Peers \/ UNCHANGED vars
    BY <1>2 DEF Peers, ClientDials, ConnectSettles, PeerSends, PeerCloses, PeerResets,
                ServerDials, vars
  <1> QED  BY <1>1, <1>2 DEF Next

LEMMA SoundInvariant == Spec => [](TypeOK /\ Owned /\ Sound)
  <1>1. TypeOK /\ Owned /\ Sound /\ [Next]_vars => Sound'
    BY StaleStep
  <1>2. TypeOK /\ Owned /\ Relayed => TypeOK /\ Owned
    OBVIOUS
  <1> QED  BY <1>1, <1>2, SoundInit, Invariant, PTL DEF Spec

(* However many sessions share the loop, an event goes stale only by the   *)
(* removal of a session, and a session is removed without a cause of its   *)
(* own only by a stale event: the run stale_event shows that two teardowns *)
(* in a row do it, this that nothing less does.                            *)
THEOREM TeardownsAreExplained == Spec => TeardownsExplained
  <1> DEFINE Step ==
        /\ \A e \in Batch' :
              ~StillTrue(e)' => \/ e \in Batch /\ ~StillTrue(e)
                               \/ session_list \ session_list' # {}
        /\ \A s \in session_list \ session_list' :
              Justified(s) \/ \E e \in Batch : ~StillTrue(e)
  <1>1. TypeOK /\ Owned /\ Sound /\ [Next]_vars => [Step]_vars
    BY StaleStep, CauseStep
  <1> QED  BY <1>1, SoundInvariant, PTL DEF Spec, TeardownsExplained

-----------------------------------------------------------------------------
(* One client.  While its session is listed, and before it, every event of *)
(* the batch is true: nothing was removed that could have made one stale.  *)
Punctual ==
    session_list # {} \/ accepted = 0 => \A e \in Batch : StillTrue(e)

LEMMA ListStep ==
    ASSUME TypeOK, [Next]_vars, ~AddSession
    PROVE  accepted' >= accepted /\ session_list' \subseteq session_list
  <1>0. accepted \in Nat
    BY ConstantsAssumption DEF TypeOK
  <1>1. ASSUME NEW e \in events, NEW s \in Sessions, Handle(e, s)
        PROVE  accepted' = accepted /\ session_list' \subseteq session_list
    <2>1. session_list' \subseteq session_list
      BY <1>1, RemovalFacts DEF session_remove_from_list
    <2>2. accepted' = accepted
      BY <1>1 DEF Handle, WriteOnly, server_accept, ServerAcceptUnregistered,
             ServerAcceptFails, ReadError, ReadClosed, server_data_closed,
             server_command_received, server_data_connection_received,
             client_command_received, client_data_received, PortConnectFails,
             PortRegisterFails, PortCommand, PortLikeData, send_packet_to_server, Forward
    <2> QED  BY <2>1, <2>2
  <1>2. CASE \/ Poll \/ AcceptFails \/ ServerCreateFails \/ Peers \/ UNCHANGED vars
             \/ \E e \in events \ {ListenEvent} : UnknownSocket(e)
    BY <1>0, <1>2 DEF Poll, AcceptFails, ServerCreateFails, UnknownSocket, Peers, ClientDials,
       ConnectSettles, PeerSends, PeerCloses, PeerResets, ServerDials, vars
  <1> QED  BY <1>0, <1>1, <1>2 DEF Next, session_polling

LEMMA PunctualStep ==
    ASSUME MaxClients <= 1, TypeOK, Owned, Sound, Punctual, [Next]_vars
    PROVE  Punctual'
  <1> SUFFICES ASSUME session_list' # {} \/ accepted' = 0, NEW e \in Batch', ~StillTrue(e)'
               PROVE  FALSE
    BY DEF Punctual
  <1>1. accepted \in 0 .. 1 /\ arrived \in 0 .. 1
    BY ConstantsAssumption DEF TypeOK
  <1>2. \A s \in session_list : s = 1 /\ accepted = 1
    BY <1>1 DEF Owned, Admitted
  <1>3. CASE \E s \in session_list : s \notin session_list'
    <2>1. session_list' = {} /\ accepted' = accepted /\ accepted = 1
      BY <1>2, <1>3, CauseStep
    <2> QED  BY <2>1
  <1>4. CASE session_list \subseteq session_list'
    <2>1. e \in Batch /\ ~StillTrue(e)
      BY <1>4, StaleStep
    <2>2. session_list = {} /\ accepted = 1
      BY <1>1, <2>1 DEF Punctual
    <2>3. ~AddSession
      BY <1>1, <2>2 DEF AddSession, TypeOK
    <2> QED  BY <2>2, <2>3, ListStep
  <1> QED  BY <1>3, <1>4

(* With one client no session is ever removed without a cause of its own:  *)
(* no read error is invented, whatever the order of its events, closes,    *)
(* resets, transfers and failing calls.                                    *)
THEOREM OneClientTornDownForCause ==
    ASSUME MaxClients <= 1
    PROVE  Spec => TeardownJustified
  <1> DEFINE Inv == TypeOK /\ Owned /\ Sound /\ Punctual
             Step == \A s \in session_list \ session_list' : Justified(s)
  <1>1. Init => Punctual
    BY DEF Init, Punctual, Batch
  <1>2. TypeOK /\ Owned /\ Sound /\ Punctual /\ [Next]_vars => Punctual'
    BY PunctualStep
  <1>3. TypeOK /\ Owned /\ Sound /\ Punctual /\ [Next]_vars => [Step]_vars
    <2> SUFFICES ASSUME TypeOK, Owned, Sound, Punctual, [Next]_vars,
                        NEW s \in session_list, s \notin session_list'
                 PROVE  Justified(s)
      OBVIOUS
    <2>1. \A e \in Batch : StillTrue(e)
      BY DEF Punctual
    <2> QED  BY <2>1, CauseStep
  <1> QED  BY <1>1, <1>2, <1>3, SoundInvariant, PTL DEF Spec, TeardownJustified

-----------------------------------------------------------------------------
(* Implementing SessionPromise.  First what the refinement mapping is at   *)
(* one connection of one session.                                          *)
LEMMA KindsOfEmpty == KindsOf(<<>>) = <<>>
BY DEF KindsOf

LEMMA KindsOfType ==
    ASSUME NEW b \in Seq(Chunks)
    PROVE  KindsOf(b) \in Seq(Kinds) /\ Len(KindsOf(b)) = Len(b)
  <1>1. \A i \in 1 .. Len(b) : b[i].kind \in Kinds
    <2>1. \A i \in 1 .. Len(b) : b[i] \in Chunks
      OBVIOUS
    <2> QED  BY <2>1 DEF Chunks
  <1>2. KindsOf(b) \in [1 .. Len(b) -> Kinds]
    BY <1>1 DEF KindsOf
  <1> QED  BY <1>2

LEMMA KindsOfAppend ==
    ASSUME NEW b \in Seq(Chunks), NEW c \in Chunks
    PROVE  KindsOf(Append(b, c)) = Append(KindsOf(b), c.kind)
  <1>2. KindsOf(b) \in Seq(Kinds) /\ Len(KindsOf(b)) = Len(b)
    BY KindsOfType
  <1>3. c.kind \in Kinds
    BY DEF Chunks
  <1> DEFINE x == KindsOf(Append(b, c))
             y == Append(KindsOf(b), c.kind)
  <1>4. x = [i \in 1 .. Len(b) + 1 |-> Append(b, c)[i].kind]
    BY DEF KindsOf
  <1>5. y = [i \in 1 .. Len(b) + 1 |-> IF i = Len(b) + 1 THEN c.kind ELSE KindsOf(b)[i]]
    BY <1>2, <1>3
  <1>6. \A i \in 1 .. Len(b) + 1 :
           Append(b, c)[i].kind = IF i = Len(b) + 1 THEN c.kind ELSE KindsOf(b)[i]
    BY DEF KindsOf
  <1> QED  BY <1>2, <1>4, <1>5, <1>6

LEMMA MappedAt ==
    ASSUME NEW t \in Sessions, NEW q \in Roles
    PROVE  /\ q \in Open[t] <=> Held(t, q)
           /\ Incoming[t][q] = IF Held(t, q) THEN sock[session[t][q]].rx ELSE "none"
           /\ Pending[t][q] = IF Held(t, q) /\ q # "s_data"
                               THEN KindsOf(buf[session[t][q]]) ELSE <<>>
BY DEF Open, Incoming, Pending

MappedOK ==
    /\ Open \in [Sessions -> SUBSET Roles]
    /\ Incoming \in [Sessions -> [Roles -> Kinds \cup {"none"}]]
    /\ Pending \in [Sessions -> [Roles -> Seq(Kinds)]]

LEMMA MappedTypes == TypeOK => MappedOK
  <1> SUFFICES ASSUME TypeOK PROVE MappedOK
    OBVIOUS
  <1>1. ASSUME NEW t \in Sessions, NEW q \in Roles, Held(t, q)
        PROVE  /\ sock[session[t][q]].rx \in Kinds \cup {"none"}
               /\ KindsOf(buf[session[t][q]]) \in Seq(Kinds)
    <2>1. session[t][q] \in Fds
      BY <1>1 DEF Held, TypeOK
    <2>2. sock[session[t][q]] \in Sockets /\ buf[session[t][q]] \in Seq(Chunks)
      BY <2>1 DEF TypeOK
    <2>3. sock[session[t][q]].rx \in Kinds \cup {"none"}
      BY <2>2 DEF Sockets
    <2>4. KindsOf(buf[session[t][q]]) \in Seq(Kinds)
      BY <2>2, KindsOfType
    <2> QED  BY <2>3, <2>4
  <1>2. <<>> \in Seq(Kinds)
    OBVIOUS
  <1> QED  BY <1>1, <1>2 DEF MappedOK, Open, Incoming, Pending

(* The connection of session t for role q looks the same after the step.   *)
Same(t, q) ==
    /\ q \in Open'[t] <=> q \in Open[t]
    /\ Incoming'[t][q] = Incoming[t][q]
    /\ Pending'[t][q] = Pending[t][q]

LEMMA SameIf ==
    ASSUME NEW t \in Sessions, NEW q \in Roles,
           t \in session_list' <=> t \in session_list,
           session'[t][q] = session[t][q],
           Held(t, q) => /\ sock'[session[t][q]].rx = sock[session[t][q]].rx
                         /\ buf'[session[t][q]] = buf[session[t][q]]
    PROVE  Same(t, q)
BY MappedAt DEF Same, Held, Open, Incoming, Pending

(* A step that only touches session s.                                     *)
OneSession(s) == \A t \in Sessions, q \in Roles : t # s => Same(t, q)

LEMMA Updated ==
    ASSUME TypeOK, TypeOK', NEW s \in Sessions, OneSession(s)
    PROVE  /\ Open' = [Open EXCEPT ![s] = Open'[s]]
           /\ Incoming' = [Incoming EXCEPT ![s] = Incoming'[s]]
           /\ Pending' = [Pending EXCEPT ![s] = Pending'[s]]
           /\ Open[s] \subseteq Roles /\ Open'[s] \subseteq Roles
           /\ Incoming[s] \in [Roles -> Kinds \cup {"none"}]
           /\ Incoming'[s] \in [Roles -> Kinds \cup {"none"}]
           /\ Pending[s] \in [Roles -> Seq(Kinds)]
           /\ Pending'[s] \in [Roles -> Seq(Kinds)]
  <1>1. MappedOK /\ MappedOK'
    BY MappedTypes, PTL
  <1>2. ASSUME NEW t \in Sessions, t # s
        PROVE  Open'[t] = Open[t] /\ Incoming'[t] = Incoming[t] /\ Pending'[t] = Pending[t]
    <2>1. \A q \in Roles : Same(t, q)
      BY <1>2 DEF OneSession
    <2>2. Open[t] \subseteq Roles /\ Open'[t] \subseteq Roles
      BY <1>1 DEF MappedOK
    <2>3. Open'[t] = Open[t]
      BY <2>1, <2>2 DEF Same
    <2>4. Incoming'[t] = Incoming[t]
      BY <1>1, <2>1 DEF MappedOK, Same
    <2>5. Pending'[t] = Pending[t]
      BY <1>1, <2>1 DEF MappedOK, Same
    <2> QED  BY <2>3, <2>4, <2>5
  <1>3. Open' = [Open EXCEPT ![s] = Open'[s]]
    BY <1>1, <1>2 DEF MappedOK
  <1>4. Incoming' = [Incoming EXCEPT ![s] = Incoming'[s]]
    BY <1>1, <1>2 DEF MappedOK
  <1>5. Pending' = [Pending EXCEPT ![s] = Pending'[s]]
    BY <1>1, <1>2 DEF MappedOK
  <1> QED  BY <1>1, <1>3, <1>4, <1>5 DEF MappedOK

(* A socket another connection holds is not the event's, and is open.      *)
LEMMA HeldApart ==
    ASSUME TypeOK, Owned, NEW t \in Sessions, NEW q \in Roles, Held(t, q)
    PROVE  /\ session[t][q] \in Fds /\ sock[session[t][q]].st # "free"
           /\ \A s \in session_list, r \in Roles :
                 session[t][q] = session[s][r] => t = s /\ q = r
  <1>1. t \in session_list /\ session[t][q] # NULL
    BY DEF Held
  <1>2. session[t][q] \in Fds /\ sock[session[t][q]].st # "free"
    BY <1>1 DEF TypeOK, Owned, FdOwnership
  <1> QED  BY <1>1, <1>2, OneOwner DEF Owned

(* Bytes of role c of session s are carried; for the roles in new a socket *)
(* is opened on that occasion.                                             *)
Carries(e, s, c, new) ==
    /\ e.fd = session[s][c] /\ sock[e.fd].rx # "none"
    /\ OthersSame(e.fd) /\ sock'[e.fd].rx = "none"
    /\ UNCHANGED <<session_list, accepted>>
    /\ \A t \in Sessions : t # s => session'[t] = session[t]
    /\ \A q \in Roles :
          IF q \in new THEN /\ session'[s][q] \in Fds /\ sock[session'[s][q]].st = "free"
                            /\ sock'[session'[s][q]].rx = "none"
                       ELSE session'[s][q] = session[s][q]

LEMMA CarryMaps ==
    ASSUME TypeOK, TypeOK', Owned, Relayed, NEW e \in events, e.fd \in Fds,
           NEW s \in session_list, NEW c \in Roles, NEW to \in Roles, Feeds(c, to),
           NEW new \in Promise!Opens(c, sock[e.fd].rx), Carries(e, s, c, new),
           NEW k \in Chunks, k.kind = sock[e.fd].rx,
           session_write_packet(e, session_buffer_write(session[s][to], k))
    PROVE  Promise!Next
  <1> DEFINE d == e.fd
             b == session_buffer_write(session[s][to], k)
             flushed == IF e.out THEN {c} ELSE {}
             lost == to = "s_data"
  <1>0. /\ to # c /\ c # "s_data"
        /\ ~lost => Promise!Opposite[c] = to
        /\ lost => c = "c_data" /\ Promise!Opposite[c] # to
    BY DEF Feeds, Opposite, Promise!Opposite, Roles
  <1>1. s \in Sessions /\ d # NULL /\ \A f \in Fds : f # NULL
    BY ConstantsAssumption DEF TypeOK, Fds, NULL
  <1>2. new \subseteq {"c_data", "s_data"} /\ c \notin new
    BY DEF Promise!Opens
  <1>3. Held(s, c) /\ sock[d].st # "free"
    BY <1>1, HeldApart DEF Held, Carries
  <1>4. session[s][to] \in Fds \cup {NULL} /\ b \in [Fds -> Seq(Chunks)]
    BY <1>1, BufferWriteType DEF TypeOK
  <1>5. \A g \in Fds : b[g] = IF g = session[s][to] THEN Append(buf[g], k) ELSE buf[g]
    BY <1>1, <1>4 DEF session_buffer_write, TypeOK
  <1>6. \A g \in Fds : buf'[g] = IF g = d /\ e.out THEN <<>> ELSE b[g]
    <2>1. session_write_packet(e, b)
      OBVIOUS
    <2> HIDE DEF b
    <2> QED  BY <1>4, <2>1 DEF session_write_packet
  <1> HIDE DEF b
  <1>7. ASSUME NEW t \in Sessions, NEW q \in Roles, Held(t, q), ~(t = s /\ q = c)
        PROVE  /\ sock'[session[t][q]] = sock[session[t][q]]
               /\ ~(t = s /\ q = to) => buf'[session[t][q]] = buf[session[t][q]]
               /\ t = s /\ q = to => buf'[session[t][q]] = Append(buf[session[t][q]], k)
    <2>1. /\ session[t][q] \in Fds /\ sock[session[t][q]].st # "free" /\ session[t][q] # d
          /\ session[t][q] = session[s][to] => t = s /\ q = to
      BY <1>7, HeldApart DEF Carries
    <2>2. sock'[session[t][q]] = sock[session[t][q]]
      BY <2>1 DEF Carries, OthersSame
    <2>3. buf'[session[t][q]] = b[session[t][q]]
      BY <1>6, <2>1
    <2>4. ~(t = s /\ q = to) => b[session[t][q]] = buf[session[t][q]]
      BY <1>5, <2>1
    <2>5. t = s /\ q = to => b[session[t][q]] = Append(buf[session[t][q]], k)
      BY <1>5, <2>1
    <2> QED  BY <2>2, <2>3, <2>4, <2>5
  <1>8. OneSession(s)
    <2> SUFFICES ASSUME NEW t \in Sessions, NEW q \in Roles, t # s PROVE Same(t, q)
      BY DEF OneSession
    <2> QED  BY <1>7, SameIf DEF Carries
  <1>9. ASSUME NEW q \in new
        PROVE  q \in Open'[s] /\ Incoming'[s][q] = "none" /\ Pending'[s][q] = <<>>
    <2> DEFINE n == session'[s][q]
    <2>1. q \in Roles /\ n \in Fds /\ n # NULL /\ sock[n].st = "free" /\ sock'[n].rx = "none"
      BY <1>1, <1>2 DEF Carries, Roles
    <2>2. n # d /\ n # session[s][to]
      BY <1>1, <1>3, <2>1 DEF Owned, FdOwnership
    <2> HIDE DEF n
    <2>3. buf'[n] = <<>>
      BY <1>5, <1>6, <2>1, <2>2 DEF Relayed, FreeIsEmpty
    <2>4. Held(s, q)'
      BY <2>1 DEF Held, Carries, n
    <2> QED  BY <1>1, <2>1, <2>3, <2>4, KindsOfEmpty DEF Open, Incoming, Pending, n
  <1>10. Open'[s] = Open[s] \cup new
    <2>1. ASSUME NEW q \in Roles, q \notin new PROVE q \in Open'[s] <=> q \in Open[s]
      BY <1>1, <2>1 DEF Open, Held, Carries
    <2>2. Open[s] \subseteq Roles /\ Open'[s] \subseteq Roles /\ new \subseteq Roles
      BY <1>1, <1>2 DEF Open, Roles
    <2> QED  BY <1>9, <2>1, <2>2
  <1>11. ASSUME NEW q \in Roles
         PROVE  Incoming'[s][q] = IF q \in new \cup {c} THEN "none" ELSE Incoming[s][q]
    <2>1. CASE q \in new
      BY <1>9, <2>1
    <2>2. CASE q = c
      BY <1>1, <1>2, <2>2 DEF Incoming, Held, Carries
    <2>3. CASE q \notin new /\ q # c
      BY <1>1, <1>7, <2>3 DEF Incoming, Held, Carries
    <2> QED  BY <2>1, <2>2, <2>3
  <1>12. ASSUME NEW q \in Roles
         PROVE  Pending'[s][q] = IF q \in new \cup flushed THEN <<>>
                                 ELSE IF q = to /\ ~lost /\ q \in Open[s]
                                      THEN Append(Pending[s][q], sock[d].rx) ELSE Pending[s][q]
    <2>0. CASE q = "s_data"
      BY <1>1, <2>0 DEF Pending
    <2>1. CASE q \in new
      BY <1>9, <2>1
    <2>2. CASE q = c /\ q # "s_data"
      <3>1. buf'[d] = IF e.out THEN <<>> ELSE buf[d]
        <4>1. d # session[s][to]
          BY <1>0, <1>1, <1>3, HeldApart DEF Carries
        <4> QED  BY <1>5, <1>6, <4>1
      <3>2. Held(s, q)' /\ session'[s][q] = d /\ Held(s, q) /\ session[s][q] = d
        BY <1>1, <1>2, <1>3, <2>2 DEF Held, Carries
      <3> QED  BY <1>0, <1>1, <1>2, <2>2, <3>1, <3>2, KindsOfEmpty DEF Pending
    <2>3. CASE q \notin new /\ q # c /\ q # "s_data"
      <3>1. session'[s][q] = session[s][q] /\ (Held(s, q)' <=> Held(s, q))
        BY <2>3 DEF Held, Carries
      <3>2. CASE ~Held(s, q)
        BY <1>1, <2>3, <3>1, <3>2 DEF Pending, Open
      <3>3. CASE Held(s, q)
        <4>1. buf[session[s][q]] \in Seq(Chunks)
          BY <1>1, <3>3, HeldApart DEF TypeOK
        <4>2. KindsOf(Append(buf[session[s][q]], k)) = Append(KindsOf(buf[session[s][q]]), sock[d].rx)
          BY <4>1, KindsOfAppend
        <4>3. q \in Open[s]
          BY <1>1, <3>3 DEF Open
        <4>4. /\ Pending'[s][q] = KindsOf(buf'[session[s][q]])
              /\ Pending[s][q] = KindsOf(buf[session[s][q]])
          BY <1>1, <2>3, <3>1, <3>3 DEF Pending
        <4> QED  BY <1>1, <1>7, <2>3, <3>3, <4>2, <4>3, <4>4
      <3> QED  BY <3>2, <3>3
    <2> QED  BY <2>0, <2>1, <2>2, <2>3
  <1>13. Incoming[s][c] = sock[d].rx /\ c \in Open[s]
    BY <1>1, <1>3 DEF Incoming, Open, Carries
  <1>14. Promise!Carry(s, c)
    <2>0. lost \in BOOLEAN
      OBVIOUS
    <2> HIDE DEF flushed, lost
    <2>1. Promise!Connections = Roles /\ lost \in {FALSE, Promise!MayLose(c)}
      <3>1. CASE lost
        <4>1. Promise!MayLose(c) = lost
          BY <1>0, <2>0, <3>1, Zenon DEF Promise!MayLose
        <4> QED  BY <4>1 DEF Promise!Connections, Roles
      <3>2. CASE lost = FALSE
        BY <3>2 DEF Promise!Connections, Roles
      <3> QED  BY <2>0, <3>1, <3>2
    <2>2. flushed \in SUBSET {c}
      BY DEF flushed
    <2>3. Open' = [Open EXCEPT ![s] = @ \cup new]
      BY <1>1, <1>8, <1>10, Updated DEF Open
    <2>4. Incoming' = [Incoming EXCEPT ![s] =
             [q \in Roles |-> IF q \in new \cup {c} THEN "none" ELSE @[q]]]
      BY <1>1, <1>8, <1>11, Updated
    <2>5. Pending' = [Pending EXCEPT ![s] =
             [q \in Roles |-> IF q \in new \cup flushed THEN <<>>
                              ELSE IF q = Promise!Opposite[c] /\ q \in Open[s] /\ ~lost
                                   THEN Append(@[q], sock[d].rx) ELSE @[q]]]
      <3> DEFINE f == [q \in Roles |-> IF q \in new \cup flushed THEN <<>>
                                     ELSE IF q = Promise!Opposite[c] /\ q \in Open[s] /\ ~lost
                                          THEN Append(Pending[s][q], sock[d].rx)
                                          ELSE Pending[s][q]]
      <3>1. \A q \in Roles : Pending'[s][q] = f[q]
        BY <1>0, <1>12
      <3>2. Pending'[s] \in [Roles -> Seq(Kinds)]
        BY <1>1, <1>8, Updated
      <3>3. Pending'[s] = [q \in Roles |-> Pending'[s][q]]
        BY <3>2
      <3>4. Pending'[s] = f
        BY <3>1, <3>3
      <3>5. Pending' = [Pending EXCEPT ![s] = f]
        <4> HIDE DEF f
        <4> QED  BY <1>1, <1>8, <3>4, Updated
      <3>6. Pending \in [Sessions -> [Roles -> Seq(Kinds)]]
        BY MappedTypes DEF MappedOK
      <3> QED  BY <1>1, <3>5, <3>6
    <2>6. UNCHANGED <<accepted, session_list>>
      BY DEF Carries
    <2>7. Incoming[s][c] # "none" /\ new \in Promise!Opens(c, Incoming[s][c])
      BY <1>13 DEF Carries
    <2> QED  BY <1>0, <1>13, <2>1, <2>2, <2>3, <2>4, <2>5, <2>6, <2>7 DEF Promise!Carry
  <1> QED  BY <1>13, <1>14 DEF Promise!Next, Promise!Step

LEMMA ForwardMaps ==
    ASSUME TypeOK, TypeOK', Owned, Relayed, NEW e \in events, NEW s \in Sessions,
           NEW r \in Roles, NEW to \in Roles, Feeds(r, to), Forward(e, s, r, to),
           r \in {"s_cmd", "s_conn"} \/ sock[e.fd].rx = "OTHER"
    PROVE  Promise!Next
  <1> DEFINE k == Chunk(s, r, sock[e.fd].rx, NULL)
  <1>1. e.fd \in Fds /\ s \in session_list /\ e.fd = session[s][r]
    BY FdFacts DEF Forward, Reads, Handles
  <1>2. sock[e.fd].rx \in Kinds
    BY <1>1 DEF Forward, ReadResult, TypeOK, Sockets
  <1>3. k \in Chunks /\ k.kind = sock[e.fd].rx
    BY <1>2, ChunkType DEF Chunk
  <1>4. {} \in Promise!Opens(r, sock[e.fd].rx)
    BY DEF Promise!Opens
  <1>5. Carries(e, s, r, {})
    <2>1. sock' = Received(sock, e.fd) /\ sock \in [Fds -> Sockets]
      BY DEF Forward, TypeOK
    <2>2. OthersSame(e.fd) /\ sock'[e.fd].rx = "none"
      <3>1. sock'[e.fd].rx = "none"
        BY <1>1, <2>1 DEF Received, Sockets
      <3> QED  BY <1>1, <2>1, <3>1, ReceivedOthers DEF OthersSame
    <2> QED  BY <1>1, <1>2, <2>2 DEF Carries, Forward, Kinds
  <1>6. session_write_packet(e, session_buffer_write(session[s][to], k))
    BY DEF Forward
  <1> HIDE DEF k
  <1> QED  BY <1>1, <1>3, <1>4, <1>5, <1>6, CarryMaps

LEMMA PortMaps ==
    ASSUME TypeOK, TypeOK', Owned, Relayed, NEW e \in events, NEW s \in Sessions,
           NEW r \in {"c_cmd", "c_data"}, NEW to \in Roles, Feeds(r, to),
           send_packet_to_server(e, s, r, to)
    PROVE  Promise!Next
  <1> DEFINE d == e.fd
             cs == NewSocket(s, "c_data", "connecting")
             ls == NewSocket(s, "s_data", "listening")
             conn(n) == Opened(sock, n, cs)
             lstn(n, m) == Opened(conn(n), m, ls)
  <1>1. d \in Fds /\ s \in session_list /\ d = session[s][r] /\ r \in Roles
    BY FdFacts DEF send_packet_to_server, Reads, Handles, Roles
  <1>2. sock[d].rx \in {"PORT", "BADPORT"} /\ UNCHANGED <<session_list, accepted>>
    BY DEF send_packet_to_server
  <1>3. PICK n, m \in Fds \cup {NULL} :
           /\ IF r = "c_cmd" /\ sock[d].rx = "PORT" THEN Lowest(n, sock) ELSE n = NULL
           /\ Opens(m, conn(n))
           /\ sock' = Received(lstn(n, m), d)
           /\ session' = [session EXCEPT
                ![s] = Pointer(Pointer(@, "c_data", n), "s_data", m)]
           /\ session_write_packet(e, session_buffer_write(session[s][to],
                Chunk(s, r, sock[d].rx, PortAddress(n, m))))
    BY Zenon DEF send_packet_to_server
  <1> DEFINE k == Chunk(s, r, sock[d].rx, PortAddress(n, m))
             new == {q \in {"c_data", "s_data"} :
                       \/ q = "c_data" /\ n # NULL
                       \/ q = "s_data" /\ m # NULL}
  <1>4. \A f \in Fds : f # NULL
    BY ConstantsAssumption DEF Fds, NULL
  <1>5. k \in Chunks /\ k.kind = sock[d].rx
    <2>1. PortAddress(n, m) \in Fds \cup {NULL} /\ sock[d].rx \in Kinds
      BY <1>2 DEF PortAddress, Kinds
    <2> QED  BY <1>1, <2>1, ChunkType DEF Chunk
  <1>6. new \in Promise!Opens(r, sock[d].rx)
    BY <1>2, <1>3, <1>4 DEF Promise!Opens, Lowest
  <1>7. sock \in [Fds -> Sockets] /\ cs \in Sockets /\ ls \in Sockets
    BY NewSocketType DEF TypeOK, Roles
  <1>8. cs.st = "connecting" /\ cs.rx = "none" /\ ls.rx = "none"
    BY DEF NewSocket
  <1>9. OthersSame(d)
    BY <1>1, PortOthers
  <1> HIDE DEF cs, ls
  <1>10. conn(n) \in [Fds -> Sockets] /\ \A f \in Fds : conn(n)[f] = IF f = n THEN cs ELSE sock[f]
    BY <1>4, <1>7 DEF Opened
  <1>11. m # NULL => conn(n)[m].st = "free"
    BY <1>3 DEF Opens, Lowest
  <1> HIDE DEF conn
  <1>12. lstn(n, m) \in [Fds -> Sockets] /\ \A f \in Fds : lstn(n, m)[f] = IF f = m THEN ls ELSE conn(n)[f]
    BY <1>4, <1>7, <1>10 DEF Opened
  <1> HIDE DEF lstn
  <1>13. sock'[d].rx = "none" /\ \A f \in Fds : f # d => sock'[f] = lstn(n, m)[f]
    <2>1. sock'[d].rx = "none"
      BY <1>1, <1>3, <1>12 DEF Received, Sockets
    <2> QED  BY <1>1, <1>3, <1>12, <2>1, ReceivedOthers
  <1>14. sock[d].st # "free"
    BY <1>1, <1>4 DEF Owned, FdOwnership
  <1>15. n # NULL => n \in Fds /\ n # m /\ sock[n].st = "free" /\ sock'[n].rx = "none"
    <2> SUFFICES ASSUME n # NULL
                 PROVE  n \in Fds /\ n # m /\ sock[n].st = "free" /\ sock'[n].rx = "none"
      OBVIOUS
    <2>1. n \in Fds /\ sock[n].st = "free" /\ n # d
      BY <1>3, <1>14 DEF Lowest
    <2>2. n # m
      BY <1>8, <1>10, <1>11, <2>1
    <2> QED  BY <1>8, <1>10, <1>12, <1>13, <2>1, <2>2
  <1>16. m # NULL => m \in Fds /\ sock[m].st = "free" /\ sock'[m].rx = "none"
    <2> SUFFICES ASSUME m # NULL
                 PROVE  m \in Fds /\ sock[m].st = "free" /\ sock'[m].rx = "none"
      OBVIOUS
    <2>1. m \in Fds /\ sock[m].st = "free"
      BY <1>10, <1>11, <1>15
    <2>2. m # d
      BY <1>14, <2>1
    <2> QED  BY <1>8, <1>12, <1>13, <2>1, <2>2
  <1>17. /\ session'[s]["c_data"] = IF n = NULL THEN session[s]["c_data"] ELSE n
         /\ session'[s]["s_data"] = IF m = NULL THEN session[s]["s_data"] ELSE m
         /\ \A q \in Roles : q # "c_data" /\ q # "s_data" => session'[s][q] = session[s][q]
         /\ \A t \in Sessions : t # s => session'[t] = session[t]
    BY <1>1, <1>3 DEF TypeOK, Pointer, Roles
  <1>18. Carries(e, s, r, new)
    <2>1. ASSUME NEW q \in Roles
          PROVE  IF q \in new THEN /\ session'[s][q] \in Fds /\ sock[session'[s][q]].st = "free"
                                   /\ sock'[session'[s][q]].rx = "none"
                              ELSE session'[s][q] = session[s][q]
      <3>1. CASE q = "c_data"
        BY <1>15, <1>17, <3>1
      <3>2. CASE q = "s_data"
        BY <1>16, <1>17, <3>2
      <3>3. CASE q # "c_data" /\ q # "s_data"
        BY <1>17, <3>3
      <3> QED  BY <3>1, <3>2, <3>3
    <2> HIDE DEF new
    <2> QED  BY <1>1, <1>2, <1>9, <1>13, <1>17, <2>1 DEF Carries
  <1>19. session_write_packet(e, session_buffer_write(session[s][to], k))
    BY <1>3
  <1> HIDE DEF k, new
  <1> QED  BY <1>1, <1>5, <1>6, <1>18, <1>19, CarryMaps DEF d

LEMMA FlushMaps ==
    ASSUME TypeOK, TypeOK', Owned, NEW e \in events, NEW s \in Sessions, WriteOnly(e, s)
    PROVE  Promise!Next \/ UNCHANGED Promise!vars
  <1>1. e.fd \in Fds /\ s \in session_list
    BY FdFacts DEF WriteOnly, Handles
  <1>2. PICK r \in Roles : session[s][r] = e.fd
    BY DEF WriteOnly, Handles, Owns
  <1>3. UNCHANGED <<sock, session, session_list, accepted>> /\ session_write_packet(e, buf)
    BY DEF WriteOnly, kernel
  <1>4. Held(s, r)
    BY <1>1, <1>2, ConstantsAssumption DEF Held, Fds, NULL
  <1>5. \A g \in Fds : buf'[g] = IF g = e.fd /\ e.out THEN <<>> ELSE buf[g]
    BY <1>1, <1>3 DEF session_write_packet, TypeOK
  <1>6. ASSUME NEW t \in Sessions, NEW q \in Roles, ~(t = s /\ q = r)
        PROVE  Same(t, q)
    <2>1. Held(t, q) => session[t][q] \in Fds /\ session[t][q] # e.fd
      BY <1>1, <1>2, <1>6, HeldApart
    <2> QED  BY <1>3, <1>5, <2>1, SameIf
  <1>7. CASE e.out
    <2>1. Pending'[s][r] = <<>>
      <3>1. Held(s, r)' /\ session'[s][r] = e.fd /\ buf'[e.fd] = <<>>
        BY <1>1, <1>2, <1>3, <1>4, <1>5, <1>7 DEF Held
      <3> QED  BY <3>1, KindsOfEmpty DEF Pending
    <2>2. Open' = Open /\ Incoming' = Incoming
      BY <1>3 DEF Open, Incoming, Held
    <2>3. OneSession(s)
      BY <1>6 DEF OneSession
    <2>4. \A q \in Roles : q # r => Pending'[s][q] = Pending[s][q]
      BY <1>6 DEF Same
    <2>5. Pending' = [Pending EXCEPT ![s][r] = <<>>]
      <3>1. Pending'[s] = [Pending[s] EXCEPT ![r] = <<>>]
        BY <2>1, <2>3, <2>4, Updated
      <3> QED  BY <2>3, <3>1, Updated
    <2>6. r \in Open[s]
      BY <1>4, MappedAt
    <2> QED  BY <1>1, <1>3, <2>2, <2>5, <2>6 DEF Promise!Next, Promise!Step, Promise!Flush
  <1>8. CASE ~e.out
    <2>1. buf' = buf
      BY <1>3, <1>8 DEF session_write_packet
    <2> QED  BY <1>3, <2>1 DEF Promise!vars, Open, Incoming, Pending, Held
  <1> QED  BY <1>7, <1>8

LEMMA AcceptMaps ==
    ASSUME TypeOK, TypeOK', Owned, Relayed, NEW e \in events, NEW s \in Sessions,
           server_accept(e, s)
    PROVE  Promise!Next
  <1> DEFINE d == e.fd
             new == NewSocket(s, "s_conn", "up")
  <1>1. d \in Fds /\ s \in session_list /\ d = session[s]["s_data"] /\ d # NULL
    BY FdFacts, ConstantsAssumption DEF Handles, server_accept, Fds, NULL
  <1>2. PICK n \in Fds :
           /\ Lowest(n, sock)
           /\ sock' = [sock EXCEPT ![d].queue = @ - 1, ![n] = new]
           /\ session' = [session EXCEPT ![s]["s_conn"] = n]
    BY Zenon DEF server_accept
  <1>3. UNCHANGED <<session_list, accepted, buf>>
    BY DEF server_accept
  <1>4. new.rx = "none"
    BY DEF NewSocket
  <1> HIDE DEF d, new
  <1>5. sock[n].st = "free" /\ n # NULL /\ buf[n] = <<>>
    BY <1>2, ConstantsAssumption DEF Lowest, Fds, NULL, Relayed, FreeIsEmpty
  <1>6. sock'[n] = new /\ \A g \in Fds : g # n => sock'[g].rx = sock[g].rx
    <2>1. sock[d] \in Sockets /\ sock \in [Fds -> Sockets]
      BY <1>1 DEF TypeOK
    <2>2. [sock[d] EXCEPT !.queue = @ - 1].rx = sock[d].rx
      BY <2>1 DEF Sockets
    <2> QED  BY <1>1, <1>2, <2>1, <2>2
  <1>7. ASSUME NEW t \in Sessions, NEW q \in Roles, ~(t = s /\ q = "s_conn")
        PROVE  Same(t, q)
    <2>1. session'[t][q] = session[t][q]
      BY <1>2, <1>7 DEF TypeOK
    <2>2. Held(t, q) => session[t][q] \in Fds /\ session[t][q] # n
      BY <1>5, HeldApart
    <2> QED  BY <1>3, <1>6, <2>1, <2>2, SameIf
  <1>8. OneSession(s)
    BY <1>7 DEF OneSession
  <1>9. "s_conn" \in Open'[s] /\ Incoming'[s]["s_conn"] = "none" /\ Pending'[s]["s_conn"] = <<>>
    <2>1. session'[s]["s_conn"] = n
      BY <1>2 DEF TypeOK, Roles
    <2>2. Held(s, "s_conn")'
      BY <1>1, <1>3, <1>5, <2>1 DEF Held
    <2> QED  BY <1>3, <1>4, <1>5, <1>6, <2>1, <2>2, KindsOfEmpty DEF Open, Incoming, Pending, Roles
  <1>10. Open' = [Open EXCEPT ![s] = @ \cup {"s_conn"}]
    <2>1. \A q \in Roles : q # "s_conn" => (q \in Open'[s] <=> q \in Open[s])
      BY <1>7 DEF Same
    <2>2. Open'[s] = Open[s] \cup {"s_conn"}
      <3>1. Open[s] \subseteq Roles /\ Open'[s] \subseteq Roles
        BY <1>1, <1>8, Updated
      <3> QED  BY <1>9, <2>1, <3>1
    <2> QED  BY <1>8, <2>2, Updated DEF Open
  <1>11. Incoming' = [Incoming EXCEPT ![s]["s_conn"] = "none"]
    <2>1. \A q \in Roles : q # "s_conn" => Incoming'[s][q] = Incoming[s][q]
      BY <1>7 DEF Same
    <2>2. Incoming'[s] = [Incoming[s] EXCEPT !["s_conn"] = "none"]
      BY <1>8, <1>9, <2>1, Updated
    <2> QED  BY <1>8, <2>2, Updated
  <1>12. Pending' = [Pending EXCEPT ![s]["s_conn"] = <<>>]
    <2>1. \A q \in Roles : q # "s_conn" => Pending'[s][q] = Pending[s][q]
      BY <1>7 DEF Same
    <2>2. Pending'[s] = [Pending[s] EXCEPT !["s_conn"] = <<>>]
      BY <1>8, <1>9, <2>1, Updated
    <2> QED  BY <1>8, <2>2, Updated
  <1>13. "s_data" \in Open[s]
    BY <1>1, MappedAt DEF Held, Roles
  <1> QED  BY <1>1, <1>3, <1>10, <1>11, <1>12, <1>13 DEF Promise!Next, Promise!Step, Promise!Accept

LEMMA HangUpMaps ==
    ASSUME TypeOK, TypeOK', Owned, NEW e \in events, NEW s \in Sessions,
           server_data_closed(e, s)
    PROVE  Promise!Next
  <1> DEFINE d == e.fd
  <1>1. d \in Fds /\ s \in session_list /\ d = session[s]["s_conn"] /\ d # NULL
    BY FdFacts, ConstantsAssumption DEF Reads, Handles, server_data_closed, Fds, NULL
  <1>2. /\ \A g \in Fds : g # d => sock'[g] = sock[g] /\ buf'[g] = buf[g]
        /\ UNCHANGED <<session_list, accepted>>
        /\ session' = [session EXCEPT ![s] = DataClosedPointers(@)]
        /\ sock[d].rx = "none"
    BY DEF server_data_closed, SockClosed, BufFreed, ReadResult
  <1> HIDE DEF d
  <1>3. /\ session'[s]["s_conn"] = NULL
        /\ \A t \in Sessions, q \in Roles :
              ~(t = s /\ q = "s_conn") => session'[t][q] = session[t][q]
    BY <1>1, <1>2 DEF DataClosedPointers, TypeOK, Roles
  <1>4. ASSUME NEW t \in Sessions, NEW q \in Roles, ~(t = s /\ q = "s_conn")
        PROVE  Same(t, q)
    <2>1. Held(t, q) => session[t][q] \in Fds /\ session[t][q] # d
      BY <1>1, <1>4, HeldApart DEF Roles
    <2> QED  BY <1>2, <1>3, <1>4, <2>1, SameIf
  <1>5. OneSession(s)
    BY <1>4 DEF OneSession
  <1>6. ~Held(s, "s_conn")' /\ Held(s, "s_conn") /\ "s_conn" \in Roles
    BY <1>1, <1>3 DEF Held, Roles
  <1>7. "s_conn" \notin Open'[s] /\ Incoming'[s]["s_conn"] = "none" /\ Pending'[s]["s_conn"] = <<>>
    BY <1>6 DEF Open, Incoming, Pending
  <1>8. "s_conn" \in Open[s] /\ Incoming[s]["s_conn"] = "none"
    BY <1>1, <1>2, <1>6, MappedAt
  <1>9. Open' = [Open EXCEPT ![s] = @ \ {"s_conn"}]
    <2>1. \A q \in Roles : q # "s_conn" => (q \in Open'[s] <=> q \in Open[s])
      BY <1>4 DEF Same
    <2>2. Open'[s] = Open[s] \ {"s_conn"}
      <3>1. Open[s] \subseteq Roles /\ Open'[s] \subseteq Roles
        BY <1>1, <1>5, Updated
      <3> QED  BY <1>7, <2>1, <3>1
    <2> QED  BY <1>5, <2>2, Updated DEF Open
  <1>10. Incoming' = Incoming
    <2>1. \A q \in Roles : Incoming'[s][q] = Incoming[s][q]
      BY <1>4, <1>7, <1>8 DEF Same
    <2>2. Incoming'[s] = Incoming[s]
      BY <1>5, <2>1, Updated
    <2> QED  BY <1>5, <2>2, Updated, MappedTypes DEF MappedOK
  <1>11. Pending' = [Pending EXCEPT ![s]["s_conn"] = <<>>]
    <2>1. \A q \in Roles : q # "s_conn" => Pending'[s][q] = Pending[s][q]
      BY <1>4 DEF Same
    <2>2. Pending'[s] = [Pending[s] EXCEPT !["s_conn"] = <<>>]
      BY <1>5, <1>7, <2>1, Updated
    <2> QED  BY <1>5, <2>2, Updated
  <1> QED  BY <1>1, <1>2, <1>8, <1>9, <1>10, <1>11 DEF Promise!Next, Promise!Step, Promise!HangUp

LEMMA EndMaps ==
    ASSUME TypeOK, TypeOK', Owned, NEW s \in session_list, NEW gone,
           NEW C, C \subseteq SocketsFreed(s),
           session_remove_from_list(s, C, gone), accepted' = accepted
    PROVE  Promise!Next
  <1>1. s \in Sessions /\ session_list' = session_list \ {s}
    BY DEF TypeOK, session_remove_from_list
  <1>2. ASSUME NEW t \in Sessions, NEW q \in Roles, t # s
        PROVE  Same(t, q)
    <2>1. session'[t][q] = session[t][q]
      BY <1>2 DEF session_remove_from_list, TypeOK
    <2>2. Held(t, q) => /\ sock'[session[t][q]] = sock[session[t][q]]
                        /\ buf'[session[t][q]] = buf[session[t][q]]
      <3> SUFFICES ASSUME Held(t, q)
                   PROVE  /\ sock'[session[t][q]] = sock[session[t][q]]
                          /\ buf'[session[t][q]] = buf[session[t][q]]
        OBVIOUS
      <3>1. session[t][q] \in Fds /\ session[t][q] \notin C
        BY <1>2, HeldApart, OthersKept DEF Held
      <3> QED  BY <3>1 DEF session_remove_from_list, SockClosed, BufFreed
    <2> QED  BY <1>1, <1>2, <2>1, <2>2, SameIf
  <1>3. OneSession(s)
    BY <1>2 DEF OneSession
  <1>4. \A q \in Roles : ~Held(s, q)'
    BY <1>1 DEF Held
  <1>5. Open'[s] = {} /\ \A q \in Roles : Incoming'[s][q] = "none" /\ Pending'[s][q] = <<>>
    BY <1>1, <1>4 DEF Open, Incoming, Pending
  <1>6. Promise!Connections = Roles
    BY DEF Promise!Connections, Roles
  <1>7. Incoming'[s] = Promise!Silent
    BY <1>1, <1>3, <1>5, <1>6, Updated DEF Promise!Silent
  <1>8. Pending'[s] = Promise!Empty
    BY <1>1, <1>3, <1>5, <1>6, Updated DEF Promise!Empty
  <1>9. Promise!End(s)
    BY <1>1, <1>3, <1>5, <1>7, <1>8, Updated DEF Promise!End
  <1> QED  BY <1>9 DEF Promise!Next, Promise!Step

LEMMA BeginMaps ==
    ASSUME TypeOK, TypeOK', Owned, Relayed, AddSession
    PROVE  Promise!Next
  <1>0. PICK s \in Sessions : s = accepted + 1
    <2>1. accepted \in Nat /\ accepted < arrived /\ arrived \in 0 .. MaxClients
      BY ConstantsAssumption DEF AddSession, TypeOK
    <2> QED  BY <2>1, ConstantsAssumption DEF Sessions
  <1> DEFINE cs == NewSocket(s, "c_cmd", "up")
             ss == NewSocket(s, "s_cmd", "connecting")
             sk(n) == [sock EXCEPT ![n] = cs]
  <1>1. PICK n, m \in Fds :
          /\ Lowest(n, sock) /\ Lowest(m, sk(n))
          /\ sock' = [sk(n) EXCEPT ![m] = ss]
          /\ session' = [session EXCEPT
               ![s] = [NoSockets EXCEPT !["c_cmd"] = n, !["s_cmd"] = m]]
    BY <1>0 DEF AddSession
  <1>2. /\ s \notin session_list /\ accepted < MaxClients
        /\ session_list' = session_list \cup {s} /\ accepted' = s /\ buf' = buf
    <2>1. accepted \in Nat /\ accepted < arrived /\ arrived \in 0 .. MaxClients
      BY ConstantsAssumption DEF AddSession, TypeOK
    <2>2. session_list \subseteq 1 .. accepted
      BY DEF Owned, Admitted
    <2> QED  BY <1>0, <2>1, <2>2, ConstantsAssumption DEF AddSession
  <1>3. cs.st = "up" /\ cs.rx = "none" /\ ss.rx = "none"
    BY DEF NewSocket
  <1> HIDE DEF cs, ss
  <1>4. n # m /\ sock[n].st = "free" /\ sock[m].st = "free"
    <2>1. sk(n)[n].st = "up"
      BY <1>3 DEF TypeOK
    <2>2. n # m
      BY <1>1, <2>1 DEF Lowest
    <2> QED  BY <1>1, <2>2 DEF Lowest, TypeOK
  <1>5. /\ sock'[n] = cs /\ sock'[m] = ss
        /\ \A f \in Fds : f \notin {n, m} => sock'[f] = sock[f]
    BY <1>1, <1>4 DEF TypeOK
  <1>6. /\ session'[s]["c_cmd"] = n /\ session'[s]["s_cmd"] = m
        /\ \A r \in Roles : r \notin {"c_cmd", "s_cmd"} => session'[s][r] = NULL
        /\ \A t \in Sessions : t # s => session'[t] = session[t]
    BY <1>1, <1>2 DEF TypeOK, NoSockets, Roles
  <1>7. n # NULL /\ m # NULL
    BY ConstantsAssumption DEF Fds, NULL
  <1>8. OneSession(s)
    <2> SUFFICES ASSUME NEW t \in Sessions, NEW q \in Roles, t # s PROVE Same(t, q)
      BY DEF OneSession
    <2>1. Held(t, q) => session[t][q] \in Fds /\ session[t][q] \notin {n, m}
      BY <1>4, HeldApart
    <2> QED  BY <1>2, <1>5, <1>6, <2>1, SameIf
  <1>9. \A q \in Roles : Held(s, q)' <=> q \in {"c_cmd", "s_cmd"}
    BY <1>2, <1>6, <1>7 DEF Held
  <1>10. Open' = [Open EXCEPT ![s] = {"c_cmd", "s_cmd"}]
    <2>1. Open'[s] = {"c_cmd", "s_cmd"}
      <3>1. Open'[s] \subseteq Roles /\ {"c_cmd", "s_cmd"} \subseteq Roles
        BY <1>2, <1>8, Updated DEF Roles
      <3>2. \A q \in Roles : q \in Open'[s] <=> q \in {"c_cmd", "s_cmd"}
        BY <1>2, <1>9 DEF Open
      <3> QED  BY <3>1, <3>2
    <2> QED  BY <1>2, <1>8, <2>1, Updated
  <1>11. \A q \in Roles : Incoming'[s][q] = Incoming[s][q] /\ Pending'[s][q] = Pending[s][q]
    <2> TAKE q \in Roles
    <2>1. Incoming[s][q] = "none" /\ Pending[s][q] = <<>>
      BY <1>2, MappedAt DEF Held
    <2>2. buf'[n] = <<>> /\ buf'[m] = <<>>
      BY <1>2, <1>4 DEF Relayed, FreeIsEmpty
    <2>3. Incoming'[s][q] = "none"
      BY <1>2, <1>3, <1>5, <1>6, <1>9 DEF Incoming
    <2>4. Pending'[s][q] = <<>>
      BY <1>2, <1>6, <1>9, <2>2, KindsOfEmpty DEF Pending
    <2> QED  BY <2>1, <2>3, <2>4
  <1>12. Incoming' = Incoming
    <2>1. Incoming'[s] = Incoming[s]
      BY <1>2, <1>8, <1>11, Updated
    <2> QED  BY <1>2, <1>8, <2>1, Updated, MappedTypes DEF MappedOK
  <1>13. Pending' = Pending
    <2>1. Pending'[s] = Pending[s]
      BY <1>2, <1>8, <1>11, Updated
    <2> QED  BY <1>2, <1>8, <2>1, Updated, MappedTypes DEF MappedOK
  <1>14. Promise!Begin
    BY <1>0, <1>2, <1>10, <1>12, <1>13 DEF Promise!Begin
  <1> QED  BY <1>14 DEF Promise!Next

(* What does not change what has arrived, is buffered or is held stutters. *)
LEMMA HeldStutters ==
    ASSUME TypeOK, UNCHANGED <<buf, session, session_list, accepted>>,
           \A t \in Sessions, q \in Roles :
              Held(t, q) => sock'[session[t][q]].rx = sock[session[t][q]].rx
    PROVE  UNCHANGED Promise!vars
  <1>1. Incoming' = Incoming
    BY DEF Incoming, Held
  <1>2. Open' = Open /\ Pending' = Pending
    BY DEF Open, Pending, Held
  <1> QED  BY <1>1, <1>2 DEF Promise!vars

LEMMA Stutters ==
    ASSUME TypeOK, UNCHANGED <<buf, session, session_list, accepted>>,
           \A f \in Fds : sock'[f].rx = sock[f].rx
    PROVE  UNCHANGED Promise!vars
  <1>1. \A t \in Sessions, q \in Roles : Held(t, q) => session[t][q] \in Fds
    BY DEF Held, TypeOK
  <1> QED  BY <1>1, HeldStutters

(* A socket nothing points to is none of the sessions' business.           *)
LEMMA UnregisteredStutters ==
    ASSUME TypeOK, Owned, NEW e \in events, NEW s \in Sessions,
           ServerAcceptUnregistered(e, s)
    PROVE  UNCHANGED Promise!vars
  <1>1. e.fd \in Fds /\ sock \in [Fds -> Sockets]
    BY FdFacts DEF Handles, ServerAcceptUnregistered, TypeOK
  <1>2. PICK n \in Fds :
           /\ Lowest(n, sock)
           /\ sock' = [sock EXCEPT ![e.fd].queue = @ - 1,
                                   ![n] = NewSocket(s, "s_conn", "up")]
    BY Zenon DEF ServerAcceptUnregistered
  <1>3. \A g \in Fds : g # n => sock'[g].rx = sock[g].rx
    <2>1. [sock[e.fd] EXCEPT !.queue = @ - 1].rx = sock[e.fd].rx
      BY <1>1 DEF Sockets
    <2> QED  BY <1>1, <1>2, <2>1
  <1>4. ASSUME NEW t \in Sessions, NEW q \in Roles, Held(t, q)
        PROVE  sock'[session[t][q]].rx = sock[session[t][q]].rx
    <2>1. session[t][q] \in Fds /\ session[t][q] # n
      BY <1>2, <1>4, HeldApart DEF Lowest
    <2> QED  BY <1>3, <2>1
  <1> QED  BY <1>4, HeldStutters DEF ServerAcceptUnregistered

LEMMA SendMaps ==
    ASSUME TypeOK, TypeOK', Owned, NEW f \in Fds, PeerSends(f)
    PROVE  Promise!Next \/ UNCHANGED Promise!vars
  <1>1. PICK k \in Kinds : sock' = [sock EXCEPT ![f].rx = k]
    BY DEF PeerSends, KindsFrom, Kinds
  <1>2. UNCHANGED <<buf, session, session_list, accepted>> /\ sock[f].rx = "none"
    BY DEF PeerSends
  <1>3. sock'[f].rx = k /\ \A g \in Fds : g # f => sock'[g] = sock[g]
    BY <1>1 DEF TypeOK, Sockets
  <1>4. CASE \E t \in Sessions, q \in Roles : Held(t, q) /\ session[t][q] = f
    <2>1. PICK t \in Sessions, q \in Roles : Held(t, q) /\ session[t][q] = f
      BY <1>4
    <2>2. t \in session_list
      BY <2>1 DEF Held
    <2>3. ASSUME NEW u \in Sessions, NEW p \in Roles, ~(u = t /\ p = q)
          PROVE  Same(u, p)
      <3>1. Held(u, p) => session[u][p] \in Fds /\ session[u][p] # f
        BY <2>1, <2>2, <2>3, HeldApart
      <3> QED  BY <1>2, <1>3, <3>1, SameIf
    <2>4. OneSession(t)
      BY <2>3 DEF OneSession
    <2>5. Open' = Open /\ Pending' = Pending
      BY <1>2 DEF Open, Pending, Held
    <2>6. Incoming[t][q] = "none" /\ q \in Open[t]
      BY <1>2, <2>1, MappedAt
    <2>7. Incoming'[t][q] = k
      BY <1>2, <1>3, <2>1 DEF Incoming, Held
    <2>8. Incoming' = [Incoming EXCEPT ![t][q] = k]
      <3>1. \A p \in Roles : p # q => Incoming'[t][p] = Incoming[t][p]
        BY <2>3 DEF Same
      <3>2. Incoming'[t] = [Incoming[t] EXCEPT ![q] = k]
        BY <2>4, <2>7, <3>1, Updated
      <3> QED  BY <2>4, <3>2, Updated
    <2>9. k \in Promise!Kinds
      BY DEF Promise!Kinds, Kinds
    <2> QED  BY <1>2, <2>2, <2>5, <2>6, <2>8, <2>9 DEF Promise!Next, Promise!Step, Promise!Arrives
  <1>5. CASE ~\E t \in Sessions, q \in Roles : Held(t, q) /\ session[t][q] = f
    <2>1. ASSUME NEW t \in Sessions, NEW q \in Roles, Held(t, q)
          PROVE  sock'[session[t][q]].rx = sock[session[t][q]].rx
      <3>1. session[t][q] \in Fds /\ session[t][q] # f
        BY <1>5, <2>1, HeldApart
      <3> QED  BY <1>3, <3>1
    <2>2. Incoming' = Incoming
      BY <1>2, <2>1 DEF Incoming, Held
    <2> QED  BY <1>2, <2>2 DEF Promise!vars, Open, Pending, Held
  <1> QED  BY <1>4, <1>5

LEMMA PeersMap ==
    ASSUME TypeOK, TypeOK', Owned, Peers
    PROVE  Promise!Next \/ UNCHANGED Promise!vars
  <1>1. sock \in [Fds -> Sockets]
    BY DEF TypeOK
  <1>2. CASE ClientDials
    BY <1>2, Stutters DEF ClientDials, kernel
  <1>3. ASSUME NEW f \in Fds, PeerSends(f)
        PROVE  Promise!Next \/ UNCHANGED Promise!vars
    BY <1>3, SendMaps
  <1>4. ASSUME NEW f \in Fds,
               ConnectSettles(f) \/ PeerCloses(f) \/ PeerResets(f) \/ ServerDials(f)
        PROVE  UNCHANGED Promise!vars
    <2>1. UNCHANGED <<buf, session, session_list, accepted>>
      BY <1>4 DEF ConnectSettles, PeerCloses, PeerResets, ServerDials
    <2>2. \A g \in Fds : g # f => sock'[g] = sock[g]
      BY <1>1, <1>4 DEF ConnectSettles, PeerCloses, PeerResets, ServerDials
    <2>3. sock'[f].rx = sock[f].rx
      <3>1. sock[f] \in Sockets
        BY <1>1
      <3>2. \/ \E st \in {"up", "reset"} : sock'[f] = [sock[f] EXCEPT !.st = st]
            \/ sock'[f] = [sock[f] EXCEPT !.fin = TRUE]
            \/ sock'[f] = [sock[f] EXCEPT !.queue = 1]
        BY <1>1, <1>4 DEF ConnectSettles, PeerCloses, PeerResets, ServerDials
      <3> QED  BY <3>1, <3>2 DEF Sockets
    <2>4. \A g \in Fds : sock'[g].rx = sock[g].rx
      BY <2>2, <2>3
    <2> QED  BY <2>1, <2>4, Stutters
  <1> QED  BY <1>2, <1>3, <1>4 DEF Peers

(* What one event does is one step of one session, or none.                *)
LEMMA HandleMaps ==
    ASSUME TypeOK, TypeOK', Owned, Relayed, NEW e \in events, NEW s \in Sessions,
           Handle(e, s)
    PROVE  Promise!Next \/ UNCHANGED Promise!vars
  <1>1. CASE Removes(e, s)
    <2>1. PICK C \in SUBSET SocketsFreed(s), gone \in {{}, {e.fd}} :
            session_remove_from_list(s, C, gone)
      BY <1>1, RemovalFacts
    <2>2. s \in session_list
      BY HandledEvent
    <2>3. accepted' = accepted
      BY <1>1 DEF Removes, ReadError, ReadClosed, PortConnectFails, PortRegisterFails
    <2> QED  BY <2>1, <2>2, <2>3, EndMaps
  <1>2. CASE WriteOnly(e, s)
    BY <1>2, FlushMaps
  <1>3. CASE server_accept(e, s)
    BY <1>3, AcceptMaps
  <1>4. CASE ServerAcceptFails(e, s)
    BY <1>4, Stutters DEF ServerAcceptFails, kernel
  <1>12. CASE ServerAcceptUnregistered(e, s)
    BY <1>12, UnregisteredStutters
  <1>5. CASE server_data_closed(e, s)
    BY <1>5, HangUpMaps
  <1>6. CASE server_command_received(e, s)
    BY <1>6, ForwardMaps DEF server_command_received, Feeds, Opposite, Roles
  <1>7. CASE server_data_connection_received(e, s)
    BY <1>7, ForwardMaps DEF server_data_connection_received, Feeds, Opposite, Roles
  <1>8. CASE client_command_received(e, s)
    BY <1>8, ForwardMaps DEF client_command_received, Feeds, Opposite, Roles
  <1>9. CASE client_data_received(e, s)
    BY <1>9, ForwardMaps DEF client_data_received, Feeds, Opposite, Roles
  <1>10. CASE PortCommand(e, s)
    BY <1>10, PortMaps DEF PortCommand, Feeds, Opposite, Roles
  <1>11. CASE PortLikeData(e, s)
    BY <1>11, PortMaps DEF PortLikeData, Feeds, Opposite, Roles
  <1> QED
    BY <1>1, <1>2, <1>3, <1>4, <1>5, <1>6, <1>7, <1>8, <1>9, <1>10, <1>11, <1>12
       DEF Handle, Removes

LEMMA RefuseMaps ==
    ASSUME TypeOK, ServerCreateFails
    PROVE  Promise!Next
  <1>1. UNCHANGED <<kernel, buf, session, session_list>> /\ accepted' = accepted + 1
    BY DEF ServerCreateFails
  <1>2. accepted < MaxClients
    <2>1. accepted \in Nat /\ accepted < arrived /\ arrived \in 0 .. MaxClients
      BY ConstantsAssumption DEF ServerCreateFails, TypeOK
    <2> QED  BY <2>1, ConstantsAssumption
  <1>3. UNCHANGED <<Open, Incoming, Pending>>
    BY <1>1 DEF kernel, Open, Incoming, Pending, Held
  <1> QED  BY <1>1, <1>2, <1>3 DEF Promise!Next, Promise!Refuse

LEMMA PromiseInit == Init => Promise!Init
  <1> SUFFICES ASSUME Init PROVE Promise!Init
    OBVIOUS
  <1>1. session_list = {} /\ accepted = 0
    BY DEF Init
  <1>2. \A t \in Sessions, q \in Roles : ~Held(t, q)
    BY <1>1 DEF Held
  <1>3. Promise!Connections = Roles /\ Promise!Sessions = Sessions
    BY DEF Promise!Connections, Promise!Sessions, Roles, Sessions
  <1>4. Open = [t \in Sessions |-> {}]
    BY <1>2 DEF Open
  <1>5. Incoming = [t \in Sessions |-> [q \in Roles |-> "none"]]
    BY <1>2 DEF Incoming
  <1>6. Pending = [t \in Sessions |-> [q \in Roles |-> <<>>]]
    BY <1>2 DEF Pending
  <1> QED  BY <1>1, <1>3, <1>4, <1>5, <1>6 DEF Promise!Init, Promise!Silent, Promise!Empty

LEMMA PromiseStep ==
    ASSUME TypeOK, TypeOK', Owned, Relayed, [Next]_vars
    PROVE  [Promise!Next]_(Promise!vars)
  <1>1. CASE Poll \/ AcceptFails \/ \E e \in events \ {ListenEvent} : UnknownSocket(e)
    BY <1>1, Stutters DEF Poll, AcceptFails, UnknownSocket, kernel
  <1>2. CASE ServerCreateFails
    BY <1>2, RefuseMaps
  <1>3. CASE AddSession
    BY <1>3, BeginMaps
  <1>4. ASSUME NEW e \in events \ {ListenEvent}, NEW s \in Sessions, Handle(e, s)
        PROVE  Promise!Next \/ UNCHANGED Promise!vars
    BY <1>4, HandleMaps
  <1>5. CASE Peers
    BY <1>5, PeersMap
  <1>6. CASE UNCHANGED vars
    BY <1>6, Stutters DEF vars
  <1> QED  BY <1>1, <1>2, <1>3, <1>4, <1>5, <1>6 DEF Next, session_polling

(* However many sessions there are and however few descriptors, whatever   *)
(* the peers do and in whatever order the events are handled, the proxy    *)
(* behaves like sessions that share nothing.  What a client uploads is     *)
(* theirs to lose: MayLose (client.c:114).                                 *)
THEOREM SessionsImplementPromise == Spec => SessionsKeptApart
  <1>1. Init => Promise!Init
    BY PromiseInit
  <1>2. (TypeOK /\ Owned /\ Relayed) /\ (TypeOK /\ Owned /\ Relayed)' /\ [Next]_vars
           => [Promise!Next]_(Promise!vars)
    BY PromiseStep
  <1> QED  BY <1>1, <1>2, Invariant, PTL DEF Spec, SessionsKeptApart, Promise!Spec
=============================================================================
