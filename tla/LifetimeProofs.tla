--------------------------- MODULE LifetimeProofs ---------------------------
(***************************************************************************)
(* Proofs about Lifetime, for every configuration file, every set of       *)
(* servers and any amount of memory.                                       *)
(***************************************************************************)
EXTENDS Lifetime, IntrusiveListProofs, FiniteSetTheorems

StartSteps == {"log_init", "option_create", "thread_pool_create",
               "socket_create", "socket_listen", "epoll_create", "epoll_ctl",
               "arguments", "config", "thread_pool_add_work"}
AfterServers == {"sessions", "epoll_close", "socket_free", "option_free", "exit"}
AfterSessions == {"epoll_close", "socket_free", "option_free", "exit"}
NoOptionYet == {"log_init", "option_create"}
BeforeFile == StartSteps \ {"config", "thread_pool_add_work"}

-----------------------------------------------------------------------------
(* The inductive invariant.                                                *)

Typed == TypeOK /\ file \in Seq(Lines)

(* Whether there is an option, and what is held by a program that starts   *)
(* without a failure, that serves, and that stops after it has served.     *)
OptionHeld ==
    /\ pc \in NoOptionYet => "option" \notin held
    /\ pc \notin NoOptionYet \cup {"exit"} => "option" \in held
    /\ pc = "exit" => "option" \notin held

(* A pointer is not NULL exactly while what it points to is held. *)
Pointing == pointers = held \cap PointedTo

Exactly(step, rs) == pc = step => held = rs

Holding ==
    /\ Exactly("log_init", {"stdin"})
    /\ Exactly("option_create", {"stdin"} \cup LogFiles)
    /\ Exactly("thread_pool_create", {"stdin", "option"} \cup LogFiles)
    /\ Exactly("socket_create", {"stdin", "option", "thread_pool"} \cup LogFiles)
    /\ Exactly("socket_listen", {"stdin", "option", "thread_pool",
                                 "proxy_socket"} \cup LogFiles)
    /\ Exactly("epoll_create", {"stdin", "option", "thread_pool", "proxy_socket",
                                "listening"} \cup LogFiles)
    /\ Exactly("epoll_ctl", {"stdin", "option", "thread_pool", "proxy_socket",
                             "listening", "epoll"} \cup LogFiles)
    /\ Exactly("arguments", Serving)
    /\ Exactly("config", Serving \cup {"config_file"})
    /\ Exactly("thread_pool_add_work", Serving)
    /\ Exactly("wait", Serving)
    /\ Exactly("log_free", Serving)

Releasing ==
    served => /\ pc \notin StartSteps
              /\ Exactly("thread_pool_free", Serving \ LogFiles)
              /\ pc \in {"servers", "sessions", "epoll_close"}
                   => held = Serving \ (LogFiles \cup {"thread_pool"})
              /\ Exactly("socket_free",
                         {"stdin", "option", "proxy_socket", "listening"})
              /\ Exactly("option_free", {"stdin", "option"})
              /\ Exactly("exit", {"stdin"})

Unharmed ==
    /\ pc \in StartSteps \cup {"wait", "log_free"} => mishaps = {}
    /\ served => mishaps = {}
    /\ "use_after_free" \notin mishaps

(* Which memory is allocated.                                              *)
CellsFrom(k) == {server_order[i] : i \in k .. Len(server_order)}

Allocation ==
    /\ pc \notin {"servers"} \cup AfterServers => live \cap Cells = CellsFrom(1)
    /\ pc \in AfterServers => live \cap Cells = {}
    /\ \A i \in 1 .. Len(session_order) : session_order[i] \in live
    /\ pc \in NoOptionYet \cup AfterSessions => session_order = <<>>

(* Where the two walks of option_free are.                                 *)
Walk ==
    /\ pc = "servers" =>
         \E k \in 1 .. Len(server_order) + 1 :
           /\ item = RingNode(ServerHead, server_order, k)
           /\ k <= Len(server_order)
                => back = RingNode(ServerHead, server_order, k + 1)
           /\ live \cap Cells = CellsFrom(k)
    /\ pc = "sessions" =>
         item = links[SessionHead].n /\ back = links[item].n

(* What the lines read so far have left.                                   *)
FrontIsLast ==
    Good(line_no) # {} =>
        \E i \in Good(line_no) :
          /\ \A j \in Good(line_no) : j <= i
          /\ server_order # <<>>
          /\ address[server_order[1]] = file[i].address

Reading ==
    /\ pc \in BeforeFile => line_no = 0 /\ server_order = <<>>
    /\ pc \in StartSteps => assigned = NoAddress
    /\ \A i \in 1 .. line_no : keycmp(file[i].key)
    /\ pc \in {"thread_pool_add_work", "wait"} => line_no = Len(file)
    /\ Len(server_order) = Cardinality(Good(line_no))
    /\ FrontIsLast

Inv ==
    /\ Typed /\ OptionHeld /\ Pointing /\ Holding /\ Releasing /\ Unharmed
    /\ ListsAgree /\ Allocation /\ Walk /\ Reading /\ HeadServes

-----------------------------------------------------------------------------
(* The two lists pass different nodes.                                     *)
LEMMA RingsApart ==
    ASSUME server_order \in Seq(Cells), session_order \in Seq(SessionNodes)
    PROVE  /\ Ring(ServerHead, server_order) \subseteq {ServerHead} \cup Cells
           /\ Ring(SessionHead, session_order) \subseteq {SessionHead} \cup SessionNodes
           /\ ({ServerHead} \cup Cells) \cap ({SessionHead} \cup SessionNodes) = {}
<1>1. ServerHead # SessionHead
  BY DEF ServerHead, SessionHead
<1>2. /\ ServerHead \notin SessionNodes /\ SessionHead \notin Cells
      /\ Cells \cap SessionNodes = {}
  BY MemoryAssumption DEF Heads
<1> QED  BY <1>1, <1>2 DEF Ring

LEMMA NodesOrders ==
    /\ Seq(Cells) \subseteq Seq(Nodes) /\ Seq(SessionNodes) \subseteq Seq(Nodes)
    /\ ServerHead \in Nodes /\ SessionHead \in Nodes
    /\ Cells \subseteq Nodes /\ SessionNodes \subseteq Nodes
<1>1. Cells \subseteq Nodes /\ SessionNodes \subseteq Nodes
  BY DEF Nodes
<1> QED  BY <1>1 DEF Nodes, Heads

(* LIST_INIT of a node that is in no list.                                 *)
LEMMA InitFrame ==
    ASSUME NEW m, NEW lh, NEW order, Len(order) \in Nat, NEW el,
           m \in Memory(Nodes), el \in Nodes, el \notin Ring(lh, order),
           Represents(m, lh, order)
    PROVE  Represents(LIST_INIT(m, el), lh, order)
<1>1. \A x \in Ring(lh, order) : LIST_INIT(m, el)[x] = m[x]
  BY DEF LIST_INIT, Memory
<1> QED  BY <1>1, Frame

LEMMA InitMemory ==
    ASSUME NEW m \in Memory(Nodes), NEW el \in Nodes
    PROVE  /\ LIST_INIT(m, el) \in Memory(Nodes)
           /\ LIST_INIT(m, el)[el] = Link(el, el)
           /\ \A x \in Nodes \ {el} : LIST_INIT(m, el)[x] = m[x]
BY DEF LIST_INIT, Memory, Link

(* An empty list is a head that points to itself.                          *)
LEMMA InitEmpty ==
    ASSUME NEW m \in Memory(Nodes), NEW lh \in Nodes, m[lh] = Link(lh, lh)
    PROVE  Represents(m, lh, <<>>)
<1>1. \A i \in 0 .. 1 : RingNode(lh, <<>>, i) = lh
  BY DEF RingNode
<1>2. m[lh].n = lh /\ m[lh].p = lh
  BY LinkFields
<1> QED  BY <1>1, <1>2 DEF Represents

(* A new node enters one list, and the other does not notice.              *)
LEMMA AddedToOne ==
    ASSUME NEW m \in Memory(Nodes), NEW lh \in Nodes, NEW order \in Seq(Nodes),
           NEW lh2 \in Nodes, NEW order2 \in Seq(Nodes), NEW el \in Nodes,
           Represents(m, lh, order), Represents(m, lh2, order2),
           Ring(lh, order) \cap Ring(lh2, order2) = {},
           el \notin Ring(lh, order), el \notin Ring(lh2, order2)
    PROVE  LET q == LIST_ADD(LIST_INIT(m, el), lh, el)
           IN  /\ q \in Memory(Nodes)
               /\ Represents(q, lh, <<el>> \o order)
               /\ Represents(q, lh2, order2)
<1> DEFINE m1 == LIST_INIT(m, el)
           q == LIST_ADD(m1, lh, el)
<1>1. /\ m1 \in Memory(Nodes)
      /\ Represents(m1, lh, order) /\ Represents(m1, lh2, order2)
  <2>1. Len(order) \in Nat /\ Len(order2) \in Nat
    OBVIOUS
  <2> QED  BY <2>1, InitMemory, InitFrame
<1>2. m1[lh].n \in Ring(lh, order)
  <2>1. m1[lh].n = RingNode(lh, order, 1)
    BY <1>1, RingPointers
  <2> QED  BY <2>1 DEF RingNode, Ring
<1>3. el # lh /\ el # m1[lh].n /\ lh \in Ring(lh, order)
  BY <1>2 DEF Ring
<1> HIDE DEF m1
<1>4. /\ q \in Memory(Nodes)
      /\ \A x \in Nodes : x \notin {lh, el, m1[lh].n} => q[x] = m1[x]
  BY <1>1, <1>3, AddEffect
<1>5. Represents(q, lh, <<el>> \o order)
  BY <1>1, AddPutsFirst
<1>6. Ring(lh2, order2) \subseteq Nodes
  BY DEF Ring
<1>7. \A x \in Ring(lh2, order2) : q[x] = m1[x]
  BY <1>2, <1>3, <1>4, <1>6
<1>8. Represents(q, lh2, order2)
  BY <1>1, <1>7, Frame
<1> QED  BY <1>4, <1>5, <1>8 DEF m1

(* A member leaves one list, and the other does not notice.                *)
LEMMA TakenFromOne ==
    ASSUME NEW m \in Memory(Nodes), NEW lh \in Nodes, NEW order \in Seq(Nodes),
           NEW lh2 \in Nodes, NEW order2 \in Seq(Nodes),
           NEW k \in 1 .. Len(order),
           Represents(m, lh, order), Represents(m, lh2, order2),
           Ring(lh, order) \cap Ring(lh2, order2) = {}
    PROVE  /\ Unlinked(m, order[k]) = LIST_DEL(m, order[k])
           /\ Unlinked(m, order[k]) \in Memory(Nodes)
           /\ Represents(Unlinked(m, order[k]), lh, WithoutNth(order, k))
           /\ Represents(Unlinked(m, order[k]), lh2, order2)
           /\ k = 1 => Unlinked(m, order[k])[lh].n = m[order[k]].n
<1> DEFINE el == order[k]
           q == LIST_DEL(m, el)
<1>1. /\ m[el].n = RingNode(lh, order, k + 1)
      /\ m[el].p = RingNode(lh, order, k - 1)
      /\ el # m[el].n /\ el # m[el].p
  BY RingPointers
<1>2. Unlinked(m, el) = q
  BY <1>1 DEF Unlinked, LIST_ISEMPTY
<1>3. el \in Nodes
  OBVIOUS
<1>4. /\ m[el].n \in Ring(lh, order) /\ m[el].p \in Ring(lh, order)
      /\ k = 1 => m[el].p = lh
  BY <1>1 DEF RingNode, Ring
<1>5. /\ q \in Memory(Nodes)
      /\ \A x \in Nodes :
           /\ q[x].n = IF x = m[el].p THEN m[el].n ELSE m[x].n
           /\ x \notin {m[el].n, m[el].p} => q[x] = m[x]
  <2> HIDE DEF el
  <2> QED  BY <1>1, <1>3, DelEffect
<1>6. Represents(q, lh, WithoutNth(order, k))
  BY DelTakesOut
<1>7. Ring(lh2, order2) \subseteq Nodes
  BY DEF Ring
<1>8. \A x \in Ring(lh2, order2) : q[x] = m[x]
  BY <1>4, <1>5, <1>7
<1>9. Represents(q, lh2, order2)
  BY <1>8, Frame
<1> QED  BY <1>2, <1>4, <1>5, <1>6, <1>9

(* Which member it is, its pointers say.                                   *)
LEMMA WithoutMember ==
    ASSUME NEW m, NEW lh, NEW order, Represents(m, lh, order),
           NEW k \in 1 .. Len(order)
    PROVE  Without(order, order[k]) = WithoutNth(order, k)
<1>1. \A j \in 1 .. Len(order) : order[j] = order[k] => j = k
  BY DEF Represents
<1>2. (CHOOSE j \in 1 .. Len(order) : order[j] = order[k]) = k
  BY <1>1
<1> QED  BY <1>2 DEF Without

LEMMA FirstSession ==
    ASSUME Typed, OptionHeld, ListsAgree, Walk, pc = "sessions",
           item # SessionHead
    PROVE  /\ 1 \in 1 .. Len(session_order) /\ item = session_order[1]
           /\ Without(session_order, item) = WithoutNth(session_order, 1)
           /\ back = RingNode(SessionHead, session_order, 2)
           /\ links[item].n = back /\ links[item].p = SessionHead
<1>1. Represents(links, SessionHead, session_order) /\ Len(session_order) \in Nat
  BY DEF OptionHeld, ListsAgree, NoOptionYet, Typed, TypeOK
<1>2. item = RingNode(SessionHead, session_order, 1) /\ back = links[item].n
  BY <1>1, RingPointers DEF Walk
<1>3. 1 \in 1 .. Len(session_order) /\ item = session_order[1]
  BY <1>1, <1>2 DEF RingNode
<1>4. /\ links[item].n = RingNode(SessionHead, session_order, 1 + 1)
      /\ links[item].p = RingNode(SessionHead, session_order, 1 - 1)
  BY <1>1, <1>3, RingPointers
<1>5. RingNode(SessionHead, session_order, 1 - 1) = SessionHead
  BY DEF RingNode
<1>6. Without(session_order, session_order[1]) = WithoutNth(session_order, 1)
  BY <1>1, <1>3, WithoutMember
<1> QED  BY <1>2, <1>3, <1>4, <1>5, <1>6

(* The steps that touch no list.                                           *)
ListsAlone == /\ UNCHANGED <<links, server_order, session_order>>
              /\ "option" \in held' => "option" \in held

LEMMA MostLeaveListsAlone ==
    ASSUME Next
    PROVE  \/ ListsAlone \/ OptionAllocated \/ LineRead \/ add_session_to_list
           \/ AddSessionFails \/ SessionEnds \/ SessionFreed
<1> USE DEF ListsAlone, config, cursors, memory, history, holding, Acquires, Releases
<1>1. CASE log_init
  BY <1>1 DEF log_init, LogFiles
<1>2. CASE OptionFails
  BY <1>2 DEF OptionFails
<1>3. CASE StartUpSucceeds
  BY <1>3 DEF StartUpSucceeds, Acquisition
<1>4. CASE StartUpFails \/ SocketInitFails
  BY <1>4 DEF StartUpFails, SocketInitFails
<1>5. CASE get_option_from_argument \/ FileOpened \/ FileMissing
  BY <1>5 DEF get_option_from_argument, FileOpened, FileMissing
<1>6. CASE UnknownKey \/ FileRead \/ thread_pool_add_work \/ MainLoopEnds
  BY <1>6 DEF UnknownKey, FileRead, thread_pool_add_work, MainLoopEnds
<1>7. CASE log_free \/ thread_pool_free \/ ServerFreed \/ ServersFreed
  BY <1>7 DEF log_free, thread_pool_free, ServerFreed, ServersFreed
<1>8. CASE SessionsFreed \/ EpollClosed \/ socket_free \/ OptionFreed
  BY <1>8 DEF SessionsFreed, EpollClosed, socket_free, OptionFreed
<1> QED  BY <1>1, <1>2, <1>3, <1>4, <1>5, <1>6, <1>7, <1>8
            DEF Next, StartUp, ServingStep, main_free

(* Everything the two lists are after a step, when they were lists before. *)
LEMMA ListsKept ==
    ASSUME Inv, Next
    PROVE  ListsAgree'
<1> DEFINE Both(m, o1, o2) == /\ Represents(m, ServerHead, o1)
                              /\ Represents(m, SessionHead, o2)
<1> USE DEF config, cursors, memory, history, holding
<1>1. /\ server_order \in Seq(Cells) /\ session_order \in Seq(SessionNodes)
      /\ server_order \in Seq(Nodes) /\ session_order \in Seq(Nodes)
      /\ links \in Memory(Nodes)
      /\ ServerHead \in Nodes /\ SessionHead \in Nodes
  BY NodesOrders DEF Inv, Typed, TypeOK, Memory
<1>2. /\ Ring(ServerHead, server_order) \cap Ring(SessionHead, session_order) = {}
      /\ Ring(ServerHead, server_order) \cap SessionNodes = {}
      /\ Ring(SessionHead, session_order) \cap Cells = {}
  BY <1>1, RingsApart
<1>3. pc \in {"config", "wait", "sessions"}
        => Both(links, server_order, session_order)
  BY DEF Inv, OptionHeld, ListsAgree, NoOptionYet
<1>4. CASE ListsAlone
  BY <1>4 DEF Inv, ListsAgree, ListsAlone
<1>5. CASE OptionAllocated
  <2>1. server_order = <<>> /\ session_order = <<>>
    BY <1>5 DEF OptionAllocated, At, Inv, Reading, Allocation, BeforeFile,
                StartSteps, NoOptionYet
  <2>2. /\ links' = LIST_INIT(LIST_INIT(links, ServerHead), SessionHead)
        /\ server_order' = server_order /\ session_order' = session_order
    BY <1>5 DEF OptionAllocated
  <2>3. ServerHead # SessionHead
    BY DEF ServerHead, SessionHead
  <2>4. /\ links' \in Memory(Nodes)
        /\ links'[ServerHead] = Link(ServerHead, ServerHead)
        /\ links'[SessionHead] = Link(SessionHead, SessionHead)
    <3> DEFINE m1 == LIST_INIT(links, ServerHead)
    <3>1. m1 \in Memory(Nodes) /\ m1[ServerHead] = Link(ServerHead, ServerHead)
      BY <1>1, InitMemory
    <3> HIDE DEF m1
    <3>2. /\ LIST_INIT(m1, SessionHead) \in Memory(Nodes)
          /\ LIST_INIT(m1, SessionHead)[SessionHead] = Link(SessionHead, SessionHead)
          /\ LIST_INIT(m1, SessionHead)[ServerHead] = m1[ServerHead]
      BY <1>1, <2>3, <3>1, InitMemory
    <3>3. links' = LIST_INIT(m1, SessionHead)
      BY <2>2 DEF m1
    <3> QED  BY <3>1, <3>2, <3>3
  <2> QED  BY <1>1, <2>1, <2>2, <2>4, InitEmpty DEF ListsAgree
<1>6. CASE LineRead
  <2>1. Both(links, server_order, session_order)
    BY <1>3, <1>6 DEF LineRead, At
  <2>2. session_order' = session_order
    BY <1>6 DEF LineRead
  <2>3. CASE UNCHANGED <<memory, address, server_order>>
    BY <2>1, <2>2, <2>3 DEF ListsAgree
  <2>4. CASE \E c \in Cells \ live :
               /\ links' = LIST_ADD(LIST_INIT(links, c), ServerHead, c)
               /\ server_order' = <<c>> \o server_order
    <3>1. PICK c \in Cells \ live :
               /\ links' = LIST_ADD(LIST_INIT(links, c), ServerHead, c)
               /\ server_order' = <<c>> \o server_order
      BY <2>4
    <3>2. \A i \in 1 .. Len(server_order) : server_order[i] \in live
      BY <1>6 DEF LineRead, At, Inv, Allocation, CellsFrom, AfterServers
    <3>3. /\ c \in Nodes
          /\ c \notin Ring(SessionHead, session_order)
          /\ c \notin Ring(ServerHead, server_order)
      <4>1. c # ServerHead
        BY MemoryAssumption DEF Heads
      <4> QED  BY <1>2, <3>2, <4>1, NodesOrders DEF Ring
    <3> QED  BY <1>1, <1>2, <2>1, <2>2, <3>1, <3>3, AddedToOne DEF ListsAgree
  <2> QED  BY <1>6, <2>3, <2>4 DEF LineRead, server_insert_address
<1>7. ASSUME NEW s \in SessionNodes \ live
      PROVE  /\ s \in Nodes
             /\ s \notin Ring(SessionHead, session_order)
             /\ s \notin Ring(ServerHead, server_order)
  <2>1. s # SessionHead
    BY MemoryAssumption DEF Heads
  <2>2. \A i \in 1 .. Len(session_order) : session_order[i] \in live
    BY DEF Inv, Allocation
  <2> QED  BY <1>2, <2>1, <2>2, NodesOrders DEF Ring
<1>8. CASE add_session_to_list
  <2>1. Both(links, server_order, session_order)
    BY <1>3, <1>8 DEF add_session_to_list, At
  <2>2. PICK s \in SessionNodes \ live :
          /\ links' = LIST_ADD(LIST_INIT(links, s), SessionHead, s)
          /\ session_order' = <<s>> \o session_order
    BY <1>8 DEF add_session_to_list
  <2>3. server_order' = server_order
    BY <1>8 DEF add_session_to_list
  <2> QED  BY <1>1, <1>2, <1>7, <2>1, <2>2, <2>3, AddedToOne DEF ListsAgree
<1>9. CASE AddSessionFails
  <2>1. Both(links, server_order, session_order)
    BY <1>3, <1>9 DEF AddSessionFails, At
  <2>2. PICK s \in SessionNodes \ live : links' = Unlinked(LIST_INIT(links, s), s)
    BY <1>9 DEF AddSessionFails
  <2>3. /\ server_order' = server_order /\ session_order' = session_order
    BY <1>9 DEF AddSessionFails
  <2>4. links' = LIST_INIT(links, s)
    BY <1>1, <1>7, <2>2, InitMemory, LinkFields DEF Unlinked, LIST_ISEMPTY
  <2>5. Len(server_order) \in Nat /\ Len(session_order) \in Nat
    BY <1>1
  <2> QED  BY <1>1, <1>7, <2>1, <2>3, <2>4, <2>5, InitFrame DEF ListsAgree
<1>10. CASE SessionEnds
  <2>1. Both(links, server_order, session_order)
    BY <1>3, <1>10 DEF SessionEnds, At
  <2>2. PICK k \in 1 .. Len(session_order) :
          /\ links' = Unlinked(links, session_order[k])
          /\ session_order' = Without(session_order, session_order[k])
    BY <1>10 DEF SessionEnds
  <2>3. server_order' = server_order
    BY <1>10 DEF SessionEnds
  <2>4. session_order' = WithoutNth(session_order, k)
    BY <2>1, <2>2, WithoutMember
  <2> QED  BY <1>1, <1>2, <2>1, <2>2, <2>3, <2>4, TakenFromOne DEF ListsAgree
<1>11. CASE SessionFreed
  <2>1. Both(links, server_order, session_order)
    BY <1>3, <1>11 DEF SessionFreed, At
  <2>2. /\ 1 \in 1 .. Len(session_order) /\ item = session_order[1]
        /\ session_order' = WithoutNth(session_order, 1)
        /\ links' = Unlinked(links, session_order[1])
        /\ server_order' = server_order
    BY <1>11, FirstSession DEF SessionFreed, At, Inv
  <2> QED  BY <1>1, <1>2, <2>1, <2>2, TakenFromOne DEF ListsAgree
<1> QED  BY <1>4, <1>5, <1>6, <1>8, <1>9, <1>10, <1>11, MostLeaveListsAlone

-----------------------------------------------------------------------------
(* What is held, step by step.                                             *)
LEMMA HeldKept ==
    ASSUME Inv, Next
    PROVE  OptionHeld' /\ Holding' /\ Releasing'
<1> USE DEF At, Goes, Acquires, Releases, Pointing, PointedTo, NoOptionYet,
            StartSteps, LogFiles, Serving, config, cursors, memory, history, holding
<1>1. /\ OptionHeld /\ Holding /\ Releasing /\ Pointing
      /\ epoll_fd = "epoll" <=> "epoll" \in held
      /\ epoll_fd \in {"stdin", "epoll", "none"}
      /\ pc \in Steps
  BY DEF Inv, Typed, TypeOK
<1>2. CASE log_init
  BY <1>1, <1>2 DEF log_init, OptionHeld, Holding, Releasing, Exactly
<1>3. CASE OptionAllocated \/ OptionFails
  BY <1>1, <1>3 DEF OptionAllocated, OptionFails, OptionHeld, Holding, Releasing, Exactly
<1>4. CASE StartUpSucceeds
  BY <1>1, <1>4 DEF StartUpSucceeds, Acquisition, OptionHeld, Holding, Releasing, Exactly
<1>5. CASE StartUpFails \/ SocketInitFails
  BY <1>1, <1>5 DEF StartUpFails, SocketInitFails, OptionHeld, Holding, Releasing, Exactly
<1>6. CASE get_option_from_argument \/ FileOpened \/ FileMissing
  BY <1>1, <1>6 DEF get_option_from_argument, FileOpened, FileMissing,
                    OptionHeld, Holding, Releasing, Exactly
<1>7. CASE UnknownKey \/ FileRead \/ thread_pool_add_work
  BY <1>1, <1>7 DEF UnknownKey, FileRead, thread_pool_add_work,
                    OptionHeld, Holding, Releasing, Exactly
<1>8. CASE LineRead \/ add_session_to_list \/ AddSessionFails \/ SessionEnds
  BY <1>1, <1>8 DEF LineRead, add_session_to_list, AddSessionFails, SessionEnds,
                    OptionHeld, Holding, Releasing, Exactly
<1>9. CASE MainLoopEnds \/ log_free
  BY <1>1, <1>9 DEF MainLoopEnds, log_free, OptionHeld, Holding, Releasing, Exactly
<1>10. CASE thread_pool_free
  BY <1>1, <1>10 DEF thread_pool_free, OptionHeld, Holding, Releasing, Exactly
<1>11. CASE ServerFreed \/ ServersFreed \/ SessionFreed \/ SessionsFreed
  BY <1>1, <1>11 DEF ServerFreed, ServersFreed, SessionFreed, SessionsFreed,
                     OptionHeld, Holding, Releasing, Exactly
<1>12. CASE EpollClosed
  BY <1>1, <1>12 DEF EpollClosed, OptionHeld, Holding, Releasing, Exactly
<1>13. CASE socket_free \/ OptionFreed
  BY <1>1, <1>13 DEF socket_free, OptionFreed, OptionHeld, Holding, Releasing, Exactly
<1> QED  BY <1>2, <1>3, <1>4, <1>5, <1>6, <1>7, <1>8, <1>9, <1>10, <1>11,
            <1>12, <1>13 DEF Next, StartUp, ServingStep, main_free

(* What a pointer points to is held, step by step.                         *)
LEMMA PointingKept ==
    ASSUME Inv, Next
    PROVE  Pointing'
<1> USE DEF Pointing, PointedTo, LogFiles, Acquires, Releases,
            config, cursors, memory, history, holding
<1>1. Pointing
  BY DEF Inv
<1>2. CASE log_init \/ OptionAllocated \/ OptionFails
  BY <1>1, <1>2 DEF log_init, OptionAllocated, OptionFails
<1>3. CASE StartUpSucceeds \/ StartUpFails \/ SocketInitFails
  BY <1>1, <1>3 DEF StartUpSucceeds, Acquisition, StartUpFails, SocketInitFails
<1>4. CASE get_option_from_argument \/ FileOpened \/ FileMissing
  BY <1>1, <1>4 DEF get_option_from_argument, FileOpened, FileMissing
<1>5. CASE LineRead \/ UnknownKey \/ FileRead \/ thread_pool_add_work
  BY <1>1, <1>5 DEF LineRead, UnknownKey, FileRead, thread_pool_add_work
<1>6. CASE add_session_to_list \/ AddSessionFails \/ SessionEnds \/ MainLoopEnds
  BY <1>1, <1>6 DEF add_session_to_list, AddSessionFails, SessionEnds, MainLoopEnds
<1>7. CASE log_free \/ thread_pool_free
  BY <1>1, <1>7 DEF log_free, thread_pool_free
<1>8. CASE ServerFreed \/ ServersFreed \/ SessionFreed \/ SessionsFreed
  BY <1>1, <1>8 DEF ServerFreed, ServersFreed, SessionFreed, SessionsFreed
<1>9. CASE EpollClosed
  <2>1. epoll_fd \in {"stdin", "epoll", "none"}
    BY DEF Inv, Typed, TypeOK
  <2> QED  BY <1>1, <1>9, <2>1 DEF EpollClosed
<1>10. CASE socket_free \/ OptionFreed
  BY <1>1, <1>10 DEF socket_free, OptionFreed
<1> QED  BY <1>2, <1>3, <1>4, <1>5, <1>6, <1>7, <1>8, <1>9, <1>10
            DEF Next, StartUp, ServingStep, main_free

(* Where the walk over the servers is before it frees one.                 *)
LEMMA ServerFreedNext ==
    ASSUME Inv, ServerFreed
    PROVE  \E k \in 1 .. Len(server_order) :
             /\ item = server_order[k] /\ item \in Cells /\ item \in live
             /\ back = RingNode(ServerHead, server_order, k + 1)
             /\ live' \cap Cells = CellsFrom(k + 1)
             /\ back \in live' \cup Heads
             /\ k + 1 <= Len(server_order)
                  => back' = RingNode(ServerHead, server_order, (k + 1) + 1)
<1>1. /\ server_order \in Seq(Cells) /\ Len(server_order) \in Nat
      /\ Represents(links, ServerHead, server_order)
      /\ pc = "servers" /\ item # ServerHead
      /\ live' = live \ {item} /\ back' = links[back].n
  BY DEF Inv, Typed, TypeOK, OptionHeld, NoOptionYet, ListsAgree, ServerFreed, At
<1>2. PICK k \in 1 .. Len(server_order) + 1 :
        /\ item = RingNode(ServerHead, server_order, k)
        /\ k <= Len(server_order)
             => back = RingNode(ServerHead, server_order, k + 1)
        /\ live \cap Cells = CellsFrom(k)
  BY <1>1 DEF Inv, Walk
<1>3. k \in 1 .. Len(server_order) /\ item = server_order[k]
  BY <1>1, <1>2 DEF RingNode
<1>4. \A i, j \in 1 .. Len(server_order) : server_order[i] = server_order[j] => i = j
  BY <1>1 DEF Represents
<1>9. item \in live
  BY <1>1, <1>2, <1>3 DEF CellsFrom
<1>5. live' \cap Cells = CellsFrom(k + 1)
  <2>1. CellsFrom(k) \ {item} = CellsFrom(k + 1)
    BY <1>1, <1>3, <1>4 DEF CellsFrom
  <2> QED  BY <1>1, <1>2, <2>1
<1>6. back = RingNode(ServerHead, server_order, k + 1)
  BY <1>1, <1>2, <1>3
<1>7. CASE k = Len(server_order)
  <2>1. back = ServerHead
    BY <1>6, <1>7 DEF RingNode
  <2> QED  BY <1>1, <1>3, <1>5, <1>6, <1>7, <1>9, <2>1 DEF Heads
<1>8. CASE k # Len(server_order)
  <2>1. k + 1 \in 1 .. Len(server_order) /\ back = server_order[k + 1]
    BY <1>1, <1>3, <1>6, <1>8 DEF RingNode
  <2>2. back \in live'
    BY <1>5, <2>1 DEF CellsFrom
  <2>3. links[back].n = RingNode(ServerHead, server_order, (k + 1) + 1)
    BY <1>1, <2>1, RingPointers
  <2> QED  BY <1>1, <1>3, <1>5, <1>6, <1>9, <2>2, <2>3
<1> QED  BY <1>7, <1>8

LEMMA SessionFreedTouches ==
    ASSUME Inv, SessionFreed
    PROVE  {item, links[item].n, links[item].p, back} \subseteq live \cup Heads
<1>1. /\ 1 \in 1 .. Len(session_order) /\ item = session_order[1]
      /\ back = RingNode(SessionHead, session_order, 2)
      /\ links[item].n = back /\ links[item].p = SessionHead
  BY FirstSession DEF Inv, SessionFreed, At
<1>2. \A i \in 1 .. Len(session_order) : session_order[i] \in live
  BY DEF Inv, Allocation
<1>3. Len(session_order) \in Nat
  BY DEF Inv, Typed, TypeOK
<1>4. back \in live \cup Heads
  BY <1>1, <1>2, <1>3 DEF RingNode, Heads
<1> QED  BY <1>1, <1>2, <1>4 DEF Heads

(* A program that has served does nothing wrong, and nobody touches freed  *)
(* memory.                                                                 *)
LEMMA UnharmedKept ==
    ASSUME Inv, Next
    PROVE  Unharmed'
<1> USE DEF At, Goes, StartSteps, config, cursors, memory, history, holding
<1>1. /\ Unharmed /\ Releasing /\ Holding
      /\ epoll_fd = "epoll" <=> "epoll" \in held
  BY DEF Inv, Typed, TypeOK
<1>14. \A rs : rs \subseteq held => Twice(rs) = {}
  BY DEF Twice
<1>15. \A rs : pointers \cap rs \subseteq held
  BY DEF Inv, Pointing
<1>16. \A rs : "use_after_free" \notin Twice(rs)
  BY DEF Twice
<1>2. CASE log_init \/ OptionAllocated \/ OptionFails
  BY <1>1, <1>2 DEF log_init, OptionAllocated, OptionFails, Unharmed
<1>3. CASE StartUpSucceeds \/ StartUpFails
  BY <1>1, <1>3 DEF StartUpSucceeds, Acquisition, StartUpFails, Unharmed
<1>4. CASE SocketInitFails
  BY <1>1, <1>4 DEF SocketInitFails, Unharmed, Releasing
<1>5. CASE get_option_from_argument \/ FileOpened \/ FileMissing
  BY <1>1, <1>5 DEF get_option_from_argument, FileOpened, FileMissing, Unharmed
<1>6. CASE LineRead \/ thread_pool_add_work
  BY <1>1, <1>6 DEF LineRead, thread_pool_add_work, Unharmed
<1>17. CASE UnknownKey \/ FileRead
  <2>1. {"config_file"} \subseteq held
    BY <1>1, <1>17 DEF UnknownKey, FileRead, Holding, Exactly
  <2>2. mishaps' = mishaps
    BY <1>14, <1>17, <2>1 DEF UnknownKey, FileRead, Releases
  <2> QED  BY <1>1, <1>17, <2>2 DEF UnknownKey, FileRead, Unharmed
<1>7. CASE add_session_to_list \/ AddSessionFails \/ SessionEnds \/ MainLoopEnds
  BY <1>1, <1>7 DEF add_session_to_list, AddSessionFails, SessionEnds,
                    MainLoopEnds, Unharmed
<1>8. CASE log_free \/ thread_pool_free
  <2>1. mishaps' = mishaps
    BY <1>8, <1>14, <1>15 DEF log_free, thread_pool_free, Releases
  <2> QED  BY <1>1, <1>8, <2>1 DEF log_free, thread_pool_free, Unharmed
<1>9. CASE ServerFreed
  <2>1. {back} \subseteq live' \cup Heads /\ item \in live
    BY <1>9, ServerFreedNext
  <2>2. mishaps' = mishaps
    BY <1>9, <2>1 DEF ServerFreed, Touches, TwiceCell
  <2> QED  BY <1>1, <1>9, <2>2 DEF ServerFreed, Unharmed
<1>10. CASE SessionFreed
  <2>1. {item, links[item].n, links[item].p, back} \subseteq live \cup Heads
    BY <1>10, SessionFreedTouches
  <2>2. mishaps' = mishaps
    BY <1>10, <2>1 DEF SessionFreed, Touches
  <2> QED  BY <1>1, <1>10, <2>2 DEF SessionFreed, Unharmed
<1>11. CASE ServersFreed \/ SessionsFreed
  BY <1>1, <1>11 DEF ServersFreed, SessionsFreed, Unharmed
<1>12. CASE EpollClosed
  <2>1. served => epoll_fd = "epoll"
    BY <1>1, <1>12 DEF EpollClosed, Releasing, Serving, LogFiles
  <2>2. served => mishaps' = mishaps
    BY <1>1, <1>12, <1>14, <2>1 DEF EpollClosed, ClosesStdin
  <2>3. "use_after_free" \notin mishaps'
    BY <1>1, <1>12, <1>16 DEF EpollClosed, ClosesStdin, Unharmed
  <2> QED  BY <1>1, <1>12, <2>2, <2>3 DEF EpollClosed, Unharmed
<1>13. CASE socket_free \/ OptionFreed
  <2>1. OptionFreed => {"option"} \subseteq held
    BY DEF OptionFreed, Inv, OptionHeld, NoOptionYet
  <2>2. mishaps' = mishaps
    BY <1>13, <1>14, <1>15, <2>1 DEF socket_free, OptionFreed, Releases
  <2> QED  BY <1>1, <1>13, <2>2 DEF socket_free, OptionFreed, Unharmed
<1> QED  BY <1>2, <1>3, <1>4, <1>5, <1>6, <1>7, <1>8, <1>9, <1>10, <1>11,
            <1>12, <1>13, <1>17 DEF Next, StartUp, ServingStep, main_free

-----------------------------------------------------------------------------
(* What is allocated, step by step.                                        *)
LEMMA WithoutMembers ==
    ASSUME NEW S, NEW order \in Seq(S), NEW k \in 1 .. Len(order)
    PROVE  \A i \in 1 .. Len(WithoutNth(order, k)) :
             \E j \in 1 .. Len(order) : WithoutNth(order, k)[i] = order[j]
<1>1. /\ Len(WithoutNth(order, k)) = Len(order) - 1
      /\ \A i \in 1 .. Len(order) - 1 :
           WithoutNth(order, k)[i] = IF i < k THEN order[i] ELSE order[i + 1]
  BY WithoutFacts
<1> SUFFICES ASSUME NEW i \in 1 .. Len(order) - 1
             PROVE  \E j \in 1 .. Len(order) : WithoutNth(order, k)[i] = order[j]
  BY <1>1
<1>2. i \in 1 .. Len(order) /\ i + 1 \in 1 .. Len(order)
  OBVIOUS
<1> QED  BY <1>1, <1>2

LEMMA AllocationKept ==
    ASSUME Inv, Next
    PROVE  Allocation'
<1> USE DEF At, Goes, NoOptionYet, AfterServers, AfterSessions,
            config, cursors, memory, history, holding
<1>1. /\ Allocation /\ Walk
      /\ server_order \in Seq(Cells) /\ session_order \in Seq(SessionNodes)
      /\ Len(server_order) \in Nat /\ Len(session_order) \in Nat
      /\ Cells \cap SessionNodes = {}
  BY MemoryAssumption DEF Inv, Typed, TypeOK
<1>2. UNCHANGED server_order => \A k \in Int : CellsFrom(k)' = CellsFrom(k)
  BY DEF CellsFrom
<1>3. CASE log_init \/ OptionFails
  <2>1. CellsFrom(1) = {}
    BY <1>3 DEF log_init, OptionFails, Inv, Reading, BeforeFile, StartSteps, CellsFrom
  <2> QED  BY <1>1, <1>2, <1>3, <2>1 DEF log_init, OptionFails, Allocation
<1>4. CASE OptionAllocated
  BY <1>1, <1>2, <1>4 DEF OptionAllocated, Allocation
<1>5. CASE StartUpSucceeds \/ StartUpFails \/ SocketInitFails
  BY <1>1, <1>2, <1>5 DEF StartUpSucceeds, Acquisition, StartUpFails, SocketInitFails,
                          Allocation
<1>6. CASE get_option_from_argument \/ FileOpened \/ FileMissing
  BY <1>1, <1>2, <1>6 DEF get_option_from_argument, FileOpened, FileMissing, Allocation
<1>7. CASE UnknownKey \/ FileRead \/ thread_pool_add_work \/ MainLoopEnds
  BY <1>1, <1>2, <1>7 DEF UnknownKey, FileRead, thread_pool_add_work, MainLoopEnds,
                          Allocation
<1>8. CASE log_free \/ thread_pool_free
  BY <1>1, <1>2, <1>8 DEF log_free, thread_pool_free, Allocation
<1>9. CASE LineRead
  <2>1. pc = "config" /\ pc' = "config" /\ UNCHANGED session_order
    BY <1>9 DEF LineRead
  <2>2. CASE UNCHANGED <<memory, address, server_order>>
    BY <1>1, <1>2, <2>1, <2>2 DEF Allocation
  <2>3. CASE \E c \in Cells \ live : /\ live' = live \cup {c}
                                     /\ server_order' = <<c>> \o server_order
    <3>1. PICK c \in Cells \ live : /\ live' = live \cup {c}
                                    /\ server_order' = <<c>> \o server_order
      BY <2>3
    <3>2. /\ Len(server_order') = Len(server_order) + 1
          /\ server_order'[1] = c
          /\ \A i \in 1 .. Len(server_order) : server_order'[i + 1] = server_order[i]
      BY <1>1, <3>1, PrependFacts
    <3>3. CellsFrom(1)' = CellsFrom(1) \cup {c}
      <4>1. ASSUME NEW i \in 1 .. Len(server_order')
            PROVE  server_order'[i] \in CellsFrom(1) \cup {c}
        <5>1. CASE i = 1
          BY <3>2, <5>1
        <5>2. CASE i # 1
          <6>1. i - 1 \in 1 .. Len(server_order) /\ (i - 1) + 1 = i
            BY <1>1, <3>2, <5>2
          <6> QED  BY <3>2, <6>1 DEF CellsFrom
        <5> QED  BY <5>1, <5>2
      <4>2. ASSUME NEW i \in 1 .. Len(server_order)
            PROVE  server_order[i] \in CellsFrom(1)'
        <5>1. i + 1 \in 1 .. Len(server_order')
          BY <1>1, <3>2
        <5> QED  BY <3>2, <5>1 DEF CellsFrom
      <4>3. c \in CellsFrom(1)'
        <5>1. 1 \in 1 .. Len(server_order')
          BY <1>1, <3>2
        <5> QED  BY <3>2, <5>1 DEF CellsFrom
      <4> QED  BY <4>1, <4>2, <4>3 DEF CellsFrom
    <3> QED  BY <1>1, <2>1, <3>1, <3>3 DEF Allocation
  <2> QED  BY <1>9, <2>2, <2>3 DEF LineRead, server_insert_address
<1>10. CASE add_session_to_list
  <2>1. PICK s \in SessionNodes \ live :
          live' = live \cup {s} /\ session_order' = <<s>> \o session_order
    BY <1>10 DEF add_session_to_list
  <2>2. /\ Len(session_order') = Len(session_order) + 1
        /\ session_order'[1] = s
        /\ \A i \in 1 .. Len(session_order) : session_order'[i + 1] = session_order[i]
    BY <1>1, <2>1, PrependFacts
  <2>3. ASSUME NEW i \in 1 .. Len(session_order')
        PROVE  session_order'[i] \in live'
    <3>1. CASE i = 1
      BY <2>1, <2>2, <3>1
    <3>2. CASE i # 1
      <4>1. i - 1 \in 1 .. Len(session_order) /\ (i - 1) + 1 = i
        BY <1>1, <2>2, <3>2
      <4> QED  BY <1>1, <2>1, <2>2, <4>1 DEF Allocation
    <3> QED  BY <3>1, <3>2
  <2>4. /\ pc = "wait" /\ pc' = "wait" /\ UNCHANGED server_order
        /\ live' \cap Cells = live \cap Cells
    BY <1>1, <1>10, <2>1 DEF add_session_to_list
  <2> QED  BY <1>1, <1>2, <2>3, <2>4 DEF Allocation
<1>11. CASE AddSessionFails
  <2>1. /\ pc = "wait" /\ pc' = "wait" /\ UNCHANGED <<server_order, session_order>>
        /\ live' \cap Cells = live \cap Cells /\ live \subseteq live'
    BY <1>1, <1>11 DEF AddSessionFails
  <2> QED  BY <1>1, <1>2, <2>1 DEF Allocation
<1>12. CASE SessionEnds
  <2>1. PICK k \in 1 .. Len(session_order) :
          session_order' = Without(session_order, session_order[k])
    BY <1>12 DEF SessionEnds
  <2>2. Represents(links, SessionHead, session_order)
    BY <1>12 DEF SessionEnds, Inv, OptionHeld, ListsAgree
  <2>3. session_order' = WithoutNth(session_order, k)
    BY <2>1, <2>2, WithoutMember
  <2>4. \A i \in 1 .. Len(session_order') : session_order'[i] \in live
    BY <1>1, <2>3, WithoutMembers DEF Allocation
  <2>5. pc = "wait" /\ pc' = "wait" /\ UNCHANGED <<server_order, live>>
    BY <1>12 DEF SessionEnds
  <2> QED  BY <1>1, <1>2, <2>4, <2>5 DEF Allocation
<1>13. CASE ServerFreed
  <2>1. item \in Cells
    BY <1>13, ServerFreedNext
  <2>2. /\ pc = "servers" /\ pc' = "servers" /\ UNCHANGED <<server_order, session_order>>
        /\ live' = live \ {item}
    BY <1>13 DEF ServerFreed
  <2>3. \A i \in 1 .. Len(session_order) : session_order[i] \in SessionNodes
    BY <1>1
  <2> QED  BY <1>1, <2>1, <2>2, <2>3 DEF Allocation
<1>14. CASE ServersFreed
  <2>1. Represents(links, ServerHead, server_order)
    BY <1>14 DEF ServersFreed, Inv, OptionHeld, ListsAgree
  <2>2. \A i \in 1 .. Len(server_order) : server_order[i] # ServerHead
    BY <2>1 DEF Represents
  <2>3. PICK k \in 1 .. Len(server_order) + 1 :
          /\ item = RingNode(ServerHead, server_order, k)
          /\ live \cap Cells = CellsFrom(k)
    BY <1>1, <1>14 DEF ServersFreed, Walk
  <2>4. k = Len(server_order) + 1
    BY <1>1, <1>14, <2>2, <2>3 DEF ServersFreed, RingNode
  <2>5. CellsFrom(k) = {}
    BY <1>1, <2>4 DEF CellsFrom
  <2> QED  BY <1>1, <1>14, <2>3, <2>5 DEF ServersFreed, Allocation
<1>15. CASE SessionFreed
  <2>1. 1 \in 1 .. Len(session_order) /\ session_order' = WithoutNth(session_order, 1)
    BY <1>15, FirstSession DEF SessionFreed, Inv
  <2>2. \A i \in 1 .. Len(session_order') : session_order'[i] \in live
    BY <1>1, <2>1, WithoutMembers DEF Allocation
  <2>3. pc = "sessions" /\ pc' = "sessions" /\ UNCHANGED <<server_order, live>>
    BY <1>15 DEF SessionFreed
  <2> QED  BY <1>1, <2>2, <2>3 DEF Allocation
<1>16. CASE SessionsFreed
  <2>1. Represents(links, SessionHead, session_order)
    BY <1>16 DEF SessionsFreed, Inv, OptionHeld, ListsAgree
  <2>2. RingNode(SessionHead, session_order, 1) = SessionHead
    BY <1>1, <1>16, <2>1, RingPointers DEF SessionsFreed, Walk
  <2>3. \A i \in 1 .. Len(session_order) : session_order[i] # SessionHead
    BY <2>1 DEF Represents
  <2>4. Len(session_order) = 0
    BY <1>1, <2>2, <2>3 DEF RingNode
  <2>5. session_order = <<>>
    BY <1>1, <2>4
  <2> QED  BY <1>1, <1>16, <2>5 DEF SessionsFreed, Allocation
<1>17. CASE EpollClosed \/ socket_free \/ OptionFreed
  BY <1>1, <1>17 DEF EpollClosed, socket_free, OptionFreed, Allocation
<1> QED  BY <1>3, <1>4, <1>5, <1>6, <1>7, <1>8, <1>9, <1>10, <1>11, <1>12,
            <1>13, <1>14, <1>15, <1>16, <1>17
            DEF Next, StartUp, ServingStep, main_free

(* The cursors of both walks, step by step.                                *)
LEMMA WalkKept ==
    ASSUME Inv, Next
    PROVE  Walk'
<1> USE DEF At, Goes, config, cursors, memory, history, holding
<1>1. /\ server_order \in Seq(Cells) /\ session_order \in Seq(SessionNodes)
      /\ Len(server_order) \in Nat /\ Len(session_order) \in Nat
      /\ server_order \in Seq(Nodes) /\ session_order \in Seq(Nodes)
      /\ links \in Memory(Nodes)
      /\ ServerHead \in Nodes /\ SessionHead \in Nodes
  BY NodesOrders DEF Inv, Typed, TypeOK, Memory
<1>2. CASE pc' \notin {"servers", "sessions"}
  BY <1>2 DEF Walk
<1>3. CASE thread_pool_free
  <2>1. /\ Represents(links, ServerHead, server_order)
        /\ live \cap Cells = CellsFrom(1)
    BY <1>3 DEF thread_pool_free, Inv, OptionHeld, NoOptionYet, ListsAgree,
                Allocation, AfterServers
  <2>2. /\ item' = links[ServerHead].n /\ back' = links[links[ServerHead].n].n
        /\ pc' = "servers" /\ UNCHANGED <<live, server_order>>
    BY <1>3 DEF thread_pool_free, Iterates
  <2>3. links[ServerHead].n = RingNode(ServerHead, server_order, 1)
    BY <1>1, <2>1, RingPointers
  <2>4. ASSUME 1 <= Len(server_order)
        PROVE  back' = RingNode(ServerHead, server_order, 1 + 1)
    <3>1. 1 \in 1 .. Len(server_order)
      BY <1>1, <2>4
    <3>2. RingNode(ServerHead, server_order, 1) = server_order[1]
      BY <1>1, <3>1 DEF RingNode
    <3> QED  BY <1>1, <2>1, <2>2, <2>3, <3>1, <3>2, RingPointers
  <2>5. CellsFrom(1)' = CellsFrom(1)
    BY <2>2 DEF CellsFrom
  <2>6. 1 \in 1 .. Len(server_order) + 1
    BY <1>1
  <2> QED  BY <2>1, <2>2, <2>3, <2>4, <2>5, <2>6 DEF Walk
<1>4. CASE ServerFreed
  <2>1. PICK k \in 1 .. Len(server_order) :
             /\ back = RingNode(ServerHead, server_order, k + 1)
             /\ live' \cap Cells = CellsFrom(k + 1)
             /\ k + 1 <= Len(server_order)
                  => back' = RingNode(ServerHead, server_order, (k + 1) + 1)
    BY <1>4, ServerFreedNext
  <2>2. item' = back /\ pc' = "servers" /\ UNCHANGED server_order
    BY <1>4 DEF ServerFreed
  <2>3. CellsFrom(k + 1)' = CellsFrom(k + 1)
    BY <2>2 DEF CellsFrom
  <2>4. k + 1 \in 1 .. Len(server_order) + 1
    BY <1>1
  <2> QED  BY <2>1, <2>2, <2>3, <2>4 DEF Walk
<1>5. CASE ServersFreed
  BY <1>5 DEF ServersFreed, Iterates, Walk
<1>6. CASE SessionFreed
  <2>1. /\ Represents(links, ServerHead, server_order)
        /\ Represents(links, SessionHead, session_order)
        /\ Ring(ServerHead, server_order) \cap Ring(SessionHead, session_order) = {}
    BY <1>1, <1>6, RingsApart DEF SessionFreed, Inv, OptionHeld, NoOptionYet, ListsAgree
  <2>2. /\ 1 \in 1 .. Len(session_order) /\ item = session_order[1]
        /\ links[item].n = back
        /\ links' = Unlinked(links, session_order[1])
    BY <1>6, FirstSession DEF SessionFreed, Inv
  <2>3. links'[SessionHead].n = back
    BY <1>1, <2>1, <2>2, TakenFromOne
  <2>4. item' = back /\ back' = links'[back].n /\ pc' = "sessions"
    BY <1>6 DEF SessionFreed
  <2> QED  BY <2>3, <2>4 DEF Walk
<1>7. CASE StartUp \/ ServingStep
  <2>1. pc' \notin {"servers", "sessions"}
    BY <1>7 DEF StartUp, log_init, OptionAllocated, OptionFails, StartUpSucceeds,
         Acquisition, StartUpFails, SocketInitFails, get_option_from_argument,
         FileOpened, FileMissing, LineRead, UnknownKey, FileRead,
         thread_pool_add_work, ServingStep, add_session_to_list,
         AddSessionFails, SessionEnds, MainLoopEnds
  <2> QED  BY <1>2, <2>1
<1>8. CASE log_free \/ SessionsFreed \/ EpollClosed \/ socket_free \/ OptionFreed
  <2>1. pc' \notin {"servers", "sessions"}
    BY <1>8 DEF log_free, SessionsFreed, EpollClosed, socket_free, OptionFreed
  <2> QED  BY <1>2, <2>1
<1> QED  BY <1>3, <1>4, <1>5, <1>6, <1>7, <1>8 DEF Next, main_free

-----------------------------------------------------------------------------
(* What the lines read so far have left, step by step.                     *)
LEMMA GoodFinite ==
    ASSUME NEW n \in Nat
    PROVE  IsFiniteSet(Good(n))
<1>1. IsFiniteSet(1 .. n)
  BY FS_Interval
<1> QED  BY <1>1, FS_Subset DEF Good

LEMMA GoodNext ==
    ASSUME NEW n \in Nat
    PROVE  /\ file[n + 1].address = BadAddress => Good(n + 1) = Good(n)
           /\ file[n + 1].address # BadAddress
                => /\ Good(n + 1) = Good(n) \cup {n + 1}
                   /\ Cardinality(Good(n + 1)) = Cardinality(Good(n)) + 1
           /\ \A j \in Good(n) : j < n + 1
<1>1. 1 .. n + 1 = (1 .. n) \cup {n + 1}
  OBVIOUS
<1>2. \A j \in Good(n) : j < n + 1
  BY DEF Good
<1>3. ASSUME file[n + 1].address # BadAddress
      PROVE  /\ Good(n + 1) = Good(n) \cup {n + 1}
             /\ Cardinality(Good(n + 1)) = Cardinality(Good(n)) + 1
  <2>1. Good(n + 1) = Good(n) \cup {n + 1}
    BY <1>1, <1>3 DEF Good
  <2>2. n + 1 \notin Good(n)
    BY DEF Good
  <2> QED  BY <2>1, <2>2, GoodFinite, FS_AddElement
<1>4. file[n + 1].address = BadAddress => Good(n + 1) = Good(n)
  BY <1>1 DEF Good
<1> QED  BY <1>2, <1>3, <1>4

(* The steps that read no line.                                            *)
NothingRead == UNCHANGED <<file, line_no, server_order, address>>

LEMMA NothingReadKeeps ==
    ASSUME Reading, NothingRead
    PROVE  /\ (\A i \in 1 .. line_no : keycmp(file[i].key))'
           /\ (Len(server_order) = Cardinality(Good(line_no)))'
           /\ FrontIsLast'
           /\ Good(line_no)' = Good(line_no)
<1>1. Good(line_no)' = Good(line_no)
  BY DEF NothingRead, Good
<1> QED  BY <1>1 DEF Reading, NothingRead, FrontIsLast, keycmp

LEMMA ReadingKept ==
    ASSUME Inv, Next
    PROVE  Reading'
<1> USE DEF At, Goes, BeforeFile, StartSteps, config, cursors, memory, history, holding
<1>1. /\ Reading
      /\ server_order \in Seq(Cells) /\ file \in Seq(Lines)
      /\ line_no \in 0 .. Len(file) /\ Len(file) \in Nat
      /\ address \in [Cells -> Servers \cup {NoAddress}]
  BY DEF Inv, Typed, TypeOK
<1>2. ASSUME NothingRead, pc' \in BeforeFile => pc \in BeforeFile,
             pc' \in StartSteps => pc \in StartSteps /\ UNCHANGED assigned,
             pc' \in {"thread_pool_add_work", "wait"} =>
               pc \in {"thread_pool_add_work", "wait"} \/ line_no = Len(file)
      PROVE  Reading'
  BY <1>1, <1>2, NothingReadKeeps DEF Reading, NothingRead
<1>3. CASE log_init \/ OptionAllocated \/ OptionFails
  BY <1>2, <1>3 DEF log_init, OptionAllocated, OptionFails, NothingRead
<1>4. CASE StartUpSucceeds \/ StartUpFails \/ SocketInitFails
  BY <1>2, <1>4 DEF StartUpSucceeds, Acquisition, StartUpFails, SocketInitFails,
                    NothingRead
<1>5. CASE get_option_from_argument \/ FileOpened \/ FileMissing
  BY <1>2, <1>5 DEF get_option_from_argument, FileOpened, FileMissing, NothingRead
<1>6. CASE UnknownKey \/ FileRead \/ thread_pool_add_work \/ MainLoopEnds
  BY <1>2, <1>6 DEF UnknownKey, FileRead, thread_pool_add_work, MainLoopEnds,
                    NothingRead
<1>7. CASE add_session_to_list \/ AddSessionFails \/ SessionEnds
  BY <1>2, <1>7 DEF add_session_to_list, AddSessionFails, SessionEnds, NothingRead
<1>8. CASE log_free \/ thread_pool_free \/ ServerFreed \/ ServersFreed
  BY <1>2, <1>8 DEF log_free, thread_pool_free, ServerFreed, ServersFreed, NothingRead
<1>9. CASE SessionFreed \/ SessionsFreed \/ EpollClosed \/ socket_free \/ OptionFreed
  BY <1>2, <1>9 DEF SessionFreed, SessionsFreed, EpollClosed, socket_free,
                    OptionFreed, NothingRead
<1>10. CASE LineRead
  <2> DEFINE n == line_no
  <2>1. /\ n \in Nat /\ n' = n + 1 /\ n < Len(file)
        /\ pc = "config" /\ pc' = "config" /\ UNCHANGED <<file, assigned>>
        /\ keycmp(file[n + 1].key)
        /\ server_insert_address(file[n + 1].address)
    BY <1>1, <1>10 DEF LineRead
  <2>2. (\A i \in 1 .. line_no : keycmp(file[i].key))'
    <3>1. \A i \in 1 .. n + 1 : i \in 1 .. n \/ i = n + 1
      BY <2>1
    <3>2. \A i \in 1 .. n + 1 : keycmp(file[i].key)
      BY <1>1, <2>1, <3>1 DEF Reading
    <3> QED  BY <2>1, <3>2 DEF keycmp
  <2>3. Good(line_no)' = Good(n + 1)
    BY <2>1 DEF Good
  <2>4. CASE file[n + 1].address = BadAddress
    <3>1. UNCHANGED <<memory, address, server_order>>
      BY <2>1, <2>4 DEF server_insert_address
    <3>2. Good(line_no)' = Good(line_no)
      BY <2>1, <2>3, <2>4, GoodNext
    <3> QED  BY <1>1, <2>1, <2>2, <3>1, <3>2 DEF Reading, FrontIsLast
  <2>5. CASE file[n + 1].address # BadAddress
    <3>1. PICK c \in Cells \ live :
            /\ address' = [address EXCEPT ![c] = file[n + 1].address]
            /\ server_order' = <<c>> \o server_order
      BY <2>1, <2>5 DEF server_insert_address
    <3>2. /\ Len(server_order') = Len(server_order) + 1 /\ server_order'[1] = c
          /\ server_order' \in Seq(Cells)
      BY <1>1, <3>1, PrependFacts
    <3>3. /\ Good(line_no)' = Good(n) \cup {n + 1}
          /\ Cardinality(Good(line_no)') = Cardinality(Good(n)) + 1
          /\ \A j \in Good(n) : j < n + 1
      BY <2>1, <2>3, <2>5, GoodNext
    <3>4. address'[server_order'[1]] = file'[n + 1].address
      BY <1>1, <2>1, <3>1, <3>2
    <3>5. FrontIsLast'
      <4>1. server_order' # <<>>
        BY <1>1, <3>2
      <4>2. n + 1 \in Good(line_no)' /\ \A j \in Good(line_no)' : j <= n + 1
        <5>1. \A j \in Good(n) : j \in Int
          BY DEF Good
        <5> QED  BY <2>1, <3>3, <5>1
      <4> QED  BY <3>4, <4>1, <4>2 DEF FrontIsLast
    <3> QED  BY <1>1, <2>1, <2>2, <3>2, <3>3, <3>5 DEF Reading
  <2> QED  BY <2>4, <2>5
<1> QED  BY <1>3, <1>4, <1>5, <1>6, <1>7, <1>8, <1>9, <1>10
            DEF Next, StartUp, ServingStep, main_free

(* What server_get_available_address returns to a serving program.         *)
LEMMA HeadIsLastGood ==
    ASSUME Inv, pc = "wait"
    PROVE  /\ server_get_available_address \in Servers \cup {NoAddress, AnyAddress}
           /\ IF Good(line_no) = {} THEN server_get_available_address = AnyAddress
              ELSE \E i \in Good(line_no) :
                     /\ server_get_available_address = file[i].address
                     /\ \A j \in Good(line_no) : j <= i
<1>1. /\ Represents(links, ServerHead, server_order) /\ Reading
      /\ server_order \in Seq(Cells) /\ Len(server_order) \in Nat
      /\ address \in [Cells -> Servers \cup {NoAddress}]
  BY DEF Inv, Typed, TypeOK, OptionHeld, NoOptionYet, ListsAgree
<1>2. links[ServerHead].n = RingNode(ServerHead, server_order, 1)
  BY <1>1, RingPointers
<1>3. CASE Good(line_no) = {}
  <2>1. Len(server_order) = 0
    BY <1>1, <1>3, FS_EmptySet DEF Reading
  <2>2. links[ServerHead].n = ServerHead
    BY <1>2, <2>1 DEF RingNode
  <2> QED  BY <1>3, <2>2 DEF server_get_available_address, LIST_ISEMPTY
<1>4. CASE Good(line_no) # {}
  <2>1. PICK i \in Good(line_no) :
          /\ \A j \in Good(line_no) : j <= i
          /\ server_order # <<>>
          /\ address[server_order[1]] = file[i].address
    BY <1>1, <1>4 DEF Reading, FrontIsLast
  <2>2. 1 \in 1 .. Len(server_order)
    BY <1>1, <2>1
  <2>3. /\ links[ServerHead].n = server_order[1] /\ server_order[1] # ServerHead
        /\ server_order[1] \in Cells
    BY <1>1, <1>2, <2>2 DEF RingNode, Represents
  <2>4. server_get_available_address = address[server_order[1]]
    BY <2>3 DEF server_get_available_address, LIST_ISEMPTY
  <2> QED  BY <1>1, <1>4, <2>1, <2>3, <2>4
<1> QED  BY <1>3, <1>4

LEMMA HeadKept ==
    ASSUME Inv, Next
    PROVE  HeadServes'
<1> USE DEF At, Goes, config, cursors, memory, history, holding
<1>1. CASE UNCHANGED <<file, line_no, assigned>>
  <2>1. Good(line_no)' = Good(line_no)
    BY <1>1 DEF Good
  <2> QED  BY <1>1, <2>1 DEF Inv, HeadServes
<1>2. CASE LineRead
  <2>1. assigned' = NoAddress
    BY <1>2 DEF LineRead, Inv, Reading, StartSteps
  <2> QED  BY <2>1 DEF HeadServes
<1>3. CASE add_session_to_list
  <2>1. pc = "wait" /\ assigned' = server_get_available_address
        /\ UNCHANGED <<file, line_no>>
    BY <1>3 DEF add_session_to_list
  <2>2. Good(line_no)' = Good(line_no)
    BY <2>1 DEF Good
  <2> QED  BY <2>1, <2>2, HeadIsLastGood DEF HeadServes
<1>4. CASE log_init \/ OptionAllocated \/ OptionFails \/ StartUpSucceeds
  BY <1>1, <1>4 DEF log_init, OptionAllocated, OptionFails, StartUpSucceeds, Acquisition
<1>5. CASE StartUpFails \/ SocketInitFails \/ get_option_from_argument
           \/ FileOpened \/ FileMissing
  BY <1>1, <1>5 DEF StartUpFails, SocketInitFails, get_option_from_argument,
                    FileOpened, FileMissing
<1>6. CASE UnknownKey \/ FileRead \/ thread_pool_add_work \/ MainLoopEnds
  BY <1>1, <1>6 DEF UnknownKey, FileRead, thread_pool_add_work, MainLoopEnds
<1>7. CASE AddSessionFails \/ SessionEnds \/ log_free \/ thread_pool_free
  BY <1>1, <1>7 DEF AddSessionFails, SessionEnds, log_free, thread_pool_free
<1>8. CASE ServerFreed \/ ServersFreed \/ SessionFreed \/ SessionsFreed
  BY <1>1, <1>8 DEF ServerFreed, ServersFreed, SessionFreed, SessionsFreed
<1>9. CASE EpollClosed \/ socket_free \/ OptionFreed
  BY <1>1, <1>9 DEF EpollClosed, socket_free, OptionFreed
<1> QED  BY <1>2, <1>3, <1>4, <1>5, <1>6, <1>7, <1>8, <1>9
            DEF Next, StartUp, ServingStep, main_free

-----------------------------------------------------------------------------
(* The types, step by step.                                                *)
OtherTypes ==
    /\ pc \in Steps
    /\ held \subseteq Resources /\ pointers \subseteq PointedTo
    /\ epoll_fd \in {"stdin", "epoll", "none"}
    /\ epoll_fd = "epoll" <=> "epoll" \in held
    /\ served \in BOOLEAN /\ running \in BOOLEAN
    /\ mishaps \subseteq Mishaps

MemoryTypes ==
    /\ Len(file) <= MaxLines /\ line_no \in 0 .. Len(file)
    /\ file \in Seq(Lines)
    /\ links \in Memory(Nodes)
    /\ live \subseteq Cells \cup SessionNodes
    /\ address \in [Cells -> Servers \cup {NoAddress}]
    /\ server_order \in Seq(Cells) /\ session_order \in Seq(SessionNodes)
    /\ item \in Nodes /\ back \in Nodes
    /\ assigned \in Servers \cup {NoAddress, AnyAddress}

LEMMA TypesSplit == Typed <=> OtherTypes /\ MemoryTypes
BY DEF Typed, TypeOK, OtherTypes, MemoryTypes, Memory

LEMMA OtherTypesKept ==
    ASSUME Inv, Next
    PROVE  OtherTypes'
<1> USE DEF At, Goes, Acquires, Releases, Twice, Steps, Resources, PointedTo,
            LogFiles, Mishaps, OtherTypes, config, cursors, memory, history, holding
<1>1. OtherTypes
  BY TypesSplit DEF Inv
<1>2. CASE log_init
  BY <1>1, <1>2 DEF log_init
<1>3. CASE OptionAllocated
  <2>1. "epoll" \notin held
    BY <1>3 DEF OptionAllocated, Inv, Holding, Exactly, LogFiles
  <2> QED  BY <1>1, <1>3, <2>1 DEF OptionAllocated
<1>4. CASE OptionFails \/ StartUpFails \/ SocketInitFails
  BY <1>1, <1>4 DEF OptionFails, StartUpFails, SocketInitFails
<1>5. CASE StartUpSucceeds
  BY <1>1, <1>5 DEF StartUpSucceeds, Acquisition
<1>6. CASE get_option_from_argument \/ FileOpened \/ FileMissing
  BY <1>1, <1>6 DEF get_option_from_argument, FileOpened, FileMissing
<1>7. CASE LineRead \/ UnknownKey \/ FileRead \/ thread_pool_add_work
  BY <1>1, <1>7 DEF LineRead, UnknownKey, FileRead, thread_pool_add_work
<1>8. CASE add_session_to_list \/ AddSessionFails \/ SessionEnds \/ MainLoopEnds
  BY <1>1, <1>8 DEF add_session_to_list, AddSessionFails, SessionEnds, MainLoopEnds
<1>9. CASE log_free \/ thread_pool_free
  BY <1>1, <1>9 DEF log_free, thread_pool_free
<1>10. CASE ServerFreed \/ ServersFreed \/ SessionFreed \/ SessionsFreed
  BY <1>1, <1>10 DEF ServerFreed, ServersFreed, SessionFreed, SessionsFreed, Touches, TwiceCell
<1>11. CASE EpollClosed
  BY <1>1, <1>11 DEF EpollClosed, ClosesStdin
<1>12. CASE socket_free \/ OptionFreed
  BY <1>1, <1>12 DEF socket_free, OptionFreed
<1> QED  BY <1>2, <1>3, <1>4, <1>5, <1>6, <1>7, <1>8, <1>9, <1>10, <1>11, <1>12
            DEF Next, StartUp, ServingStep, main_free

(* The memory stays one when a fresh node enters a list.                   *)
LEMMA NewNode ==
    ASSUME NEW lh \in Nodes, NEW order \in Seq(Nodes), NEW el \in Nodes,
           links \in Memory(Nodes), Represents(links, lh, order),
           el \notin Ring(lh, order)
    PROVE  LIST_ADD(LIST_INIT(links, el), lh, el) \in Memory(Nodes)
<1> DEFINE m1 == LIST_INIT(links, el)
<1>1. m1 \in Memory(Nodes) /\ Represents(m1, lh, order)
  <2>1. Len(order) \in Nat
    OBVIOUS
  <2> QED  BY <2>1, InitMemory, InitFrame
<1>2. m1[lh].n = RingNode(lh, order, 1)
  BY <1>1, RingPointers
<1>3. el # lh /\ el # m1[lh].n
  BY <1>2 DEF RingNode, Ring
<1> HIDE DEF m1
<1>4. LIST_ADD(m1, lh, el) \in Memory(Nodes)
  BY <1>1, <1>3, AddEffect
<1> QED  BY <1>4 DEF m1

LEMMA NewServerNode ==
    ASSUME Inv, pc = "config", NEW c \in Cells \ live
    PROVE  LIST_ADD(LIST_INIT(links, c), ServerHead, c) \in Memory(Nodes)
<1>1. /\ server_order \in Seq(Nodes) /\ ServerHead \in Nodes /\ c \in Nodes
      /\ links \in Memory(Nodes) /\ Represents(links, ServerHead, server_order)
  BY NodesOrders, TypesSplit DEF Inv, MemoryTypes, OptionHeld, NoOptionYet, ListsAgree
<1>2. c \notin Ring(ServerHead, server_order)
  <2>1. c # ServerHead
    BY MemoryAssumption DEF Heads
  <2>2. \A i \in 1 .. Len(server_order) : server_order[i] \in live
    BY DEF Inv, Allocation, CellsFrom, AfterServers
  <2> QED  BY <2>1, <2>2 DEF Ring
<1> QED  BY <1>1, <1>2, NewNode

LEMMA NewSessionNode ==
    ASSUME Inv, pc = "wait", NEW s \in SessionNodes \ live
    PROVE  LIST_ADD(LIST_INIT(links, s), SessionHead, s) \in Memory(Nodes)
<1>1. /\ session_order \in Seq(Nodes) /\ SessionHead \in Nodes /\ s \in Nodes
      /\ links \in Memory(Nodes) /\ Represents(links, SessionHead, session_order)
  BY NodesOrders, TypesSplit DEF Inv, MemoryTypes, OptionHeld, NoOptionYet, ListsAgree
<1>2. s \notin Ring(SessionHead, session_order)
  <2>1. s # SessionHead
    BY MemoryAssumption DEF Heads
  <2> QED  BY <2>1 DEF Inv, Allocation, Ring
<1> QED  BY <1>1, <1>2, NewNode

LEMMA MemoryTypesKept ==
    ASSUME Inv, Next
    PROVE  MemoryTypes'
<1> USE DEF At, Goes, config, cursors, memory, history, holding
<1>1. /\ MemoryTypes
      /\ ServerHead \in Nodes /\ SessionHead \in Nodes
      /\ Cells \subseteq Nodes /\ SessionNodes \subseteq Nodes
      /\ server_order \in Seq(Nodes) /\ session_order \in Seq(Nodes)
  BY TypesSplit, NodesOrders DEF Inv, MemoryTypes
<1>2. \A x \in Nodes : links[x].n \in Nodes
  BY <1>1 DEF MemoryTypes, Memory
<1>3. ASSUME UNCHANGED <<config, links, live, session_order, item, back, assigned>>
      PROVE  MemoryTypes'
  BY <1>1, <1>3 DEF MemoryTypes
<1>4. CASE log_init \/ OptionFails \/ StartUpSucceeds \/ StartUpFails
           \/ SocketInitFails
  BY <1>3, <1>4 DEF log_init, OptionFails, StartUpSucceeds, Acquisition,
                    StartUpFails, SocketInitFails
<1>5. CASE get_option_from_argument \/ FileOpened \/ FileMissing \/ UnknownKey
           \/ FileRead
  BY <1>3, <1>5 DEF get_option_from_argument, FileOpened, FileMissing, UnknownKey,
                    FileRead
<1>6. CASE thread_pool_add_work \/ MainLoopEnds \/ log_free \/ SessionsFreed
           \/ EpollClosed \/ socket_free \/ OptionFreed
  BY <1>3, <1>6 DEF thread_pool_add_work, MainLoopEnds, log_free, SessionsFreed,
                    EpollClosed, socket_free, OptionFreed
<1>7. CASE OptionAllocated
  <2>1. links' \in Memory(Nodes)
    BY <1>1, <1>7, InitMemory DEF OptionAllocated, MemoryTypes
  <2> QED  BY <1>1, <1>7, <2>1 DEF OptionAllocated, MemoryTypes
<1>8. CASE LineRead
  <2>1. /\ line_no' \in 0 .. Len(file) /\ file[line_no + 1] \in Lines
        /\ UNCHANGED <<file, session_order, item, back, assigned>>
        /\ server_insert_address(file[line_no + 1].address)
    BY <1>1, <1>8 DEF LineRead, MemoryTypes
  <2>2. CASE UNCHANGED <<memory, address, server_order>>
    BY <1>1, <2>1, <2>2 DEF MemoryTypes
  <2>3. CASE file[line_no + 1].address # BadAddress
    <3>1. PICK c \in Cells \ live :
            /\ links' = LIST_ADD(LIST_INIT(links, c), ServerHead, c)
            /\ live' = live \cup {c}
            /\ address' = [address EXCEPT ![c] = file[line_no + 1].address]
            /\ server_order' = <<c>> \o server_order
      BY <2>1, <2>3 DEF server_insert_address
    <3>2. file[line_no + 1].address \in Servers
      BY <2>1, <2>3 DEF Lines
    <3>3. server_order' \in Seq(Cells)
      BY <1>1, <3>1, PrependFacts DEF MemoryTypes
    <3>4. address' \in [Cells -> Servers \cup {NoAddress}]
      BY <1>1, <3>1, <3>2 DEF MemoryTypes
    <3>5. links' \in Memory(Nodes)
      BY <1>8, <3>1, NewServerNode DEF LineRead
    <3> QED  BY <1>1, <2>1, <3>1, <3>3, <3>4, <3>5 DEF MemoryTypes
  <2> QED  BY <2>1, <2>2, <2>3 DEF server_insert_address
<1>9. CASE add_session_to_list
  <2>1. PICK s \in SessionNodes \ live :
          /\ links' = LIST_ADD(LIST_INIT(links, s), SessionHead, s)
          /\ live' = live \cup {s}
          /\ session_order' = <<s>> \o session_order
    BY <1>9 DEF add_session_to_list
  <2>2. session_order' \in Seq(SessionNodes)
    BY <1>1, <2>1, PrependFacts DEF MemoryTypes
  <2>3. links' \in Memory(Nodes)
    BY <1>9, <2>1, NewSessionNode DEF add_session_to_list
  <2>4. assigned' \in Servers \cup {NoAddress, AnyAddress}
    BY <1>9, HeadIsLastGood DEF add_session_to_list
  <2> QED  BY <1>1, <1>9, <2>1, <2>2, <2>3, <2>4 DEF add_session_to_list, MemoryTypes
<1>10. CASE AddSessionFails
  <2>1. PICK s \in SessionNodes \ live :
          links' = Unlinked(LIST_INIT(links, s), s) /\ live' = live \cup {s}
    BY <1>10 DEF AddSessionFails
  <2>2. LIST_INIT(links, s)[s].n = s /\ LIST_INIT(links, s) \in Memory(Nodes)
    <3>1. links \in Memory(Nodes) /\ s \in Nodes
      BY <1>1 DEF MemoryTypes
    <3>2. LIST_INIT(links, s)[s] = Link(s, s) /\ LIST_INIT(links, s) \in Memory(Nodes)
      BY <3>1, InitMemory
    <3> QED  BY <3>2, LinkFields
  <2>3. links' \in Memory(Nodes)
    BY <2>1, <2>2 DEF Unlinked, LIST_ISEMPTY
  <2> QED  BY <1>1, <1>10, <2>1, <2>3 DEF AddSessionFails, MemoryTypes
<1>11. ASSUME NEW k \in 1 .. Len(session_order), pc \in {"wait", "sessions"}
       PROVE  /\ Unlinked(links, session_order[k]) \in Memory(Nodes)
              /\ Without(session_order, session_order[k]) \in Seq(SessionNodes)
  <2>1. /\ Represents(links, ServerHead, server_order)
        /\ Represents(links, SessionHead, session_order)
        /\ Ring(ServerHead, server_order) \cap Ring(SessionHead, session_order) = {}
    BY <1>1, <1>11, RingsApart DEF Inv, OptionHeld, NoOptionYet, ListsAgree, MemoryTypes
  <2>2. Without(session_order, session_order[k]) = WithoutNth(session_order, k)
    BY <2>1, WithoutMember
  <2>3. WithoutNth(session_order, k) \in Seq(SessionNodes)
    BY <1>1, WithoutFacts DEF MemoryTypes
  <2> QED  BY <1>1, <2>1, <2>2, <2>3, TakenFromOne DEF MemoryTypes
<1>12. CASE SessionEnds
  <2>1. PICK k \in 1 .. Len(session_order) :
          /\ links' = Unlinked(links, session_order[k])
          /\ session_order' = Without(session_order, session_order[k])
    BY <1>12 DEF SessionEnds
  <2>2. links' \in Memory(Nodes) /\ session_order' \in Seq(SessionNodes)
    BY <1>11, <1>12, <2>1 DEF SessionEnds
  <2> QED  BY <1>1, <1>12, <2>2 DEF SessionEnds, MemoryTypes
<1>13. CASE thread_pool_free \/ ServersFreed
  <2>1. item' \in Nodes /\ back' \in Nodes
    BY <1>1, <1>2, <1>13 DEF thread_pool_free, ServersFreed, Iterates
  <2> QED  BY <1>1, <1>13, <2>1 DEF thread_pool_free, ServersFreed, MemoryTypes
<1>14. CASE ServerFreed
  <2>1. item' \in Nodes /\ back' \in Nodes /\ live' \subseteq live
    BY <1>1, <1>2, <1>14 DEF ServerFreed, MemoryTypes
  <2> QED  BY <1>1, <1>14, <2>1 DEF ServerFreed, MemoryTypes
<1>15. CASE SessionFreed
  <2>1. 1 \in 1 .. Len(session_order) /\ item = session_order[1]
    BY <1>15, FirstSession DEF SessionFreed, Inv
  <2>2. links' \in Memory(Nodes) /\ session_order' \in Seq(SessionNodes)
    BY <1>11, <1>15, <2>1 DEF SessionFreed
  <2>3. item' \in Nodes /\ back' \in Nodes
    BY <1>1, <1>15, <2>2 DEF SessionFreed, MemoryTypes, Memory
  <2> QED  BY <1>1, <1>15, <2>2, <2>3 DEF SessionFreed, MemoryTypes
<1> QED  BY <1>4, <1>5, <1>6, <1>7, <1>8, <1>9, <1>10, <1>12, <1>13, <1>14, <1>15
            DEF Next, StartUp, ServingStep, main_free

-----------------------------------------------------------------------------
LEMMA InitInv == Init => Inv
<1> SUFFICES ASSUME Init PROVE Inv
  OBVIOUS
<1>1. file \in Seq(Lines) /\ Len(file) <= MaxLines /\ Len(file) \in Nat
  <2>1. PICK n \in 0 .. MaxLines : file \in [1 .. n -> Lines]
    BY DEF Init
  <2>2. n \in Nat /\ n <= MaxLines
    BY MemoryAssumption
  <2>3. file \in Seq(Lines) /\ Len(file) = n
    BY <2>1, <2>2
  <2> QED  BY <2>2, <2>3
<1>2. Typed
  <2>1. MemoryTypes
    <3>1. Link(SessionHead, SessionHead) \in [n : Nodes, p : Nodes]
      BY NodesOrders DEF Link
    <3> QED  BY <1>1, <3>1, NodesOrders DEF Init, MemoryTypes, Memory
  <2>2. OtherTypes
    BY DEF Init, OtherTypes, Steps, Resources, PointedTo, Mishaps
  <2> QED  BY <2>1, <2>2, TypesSplit
<1>3. OptionHeld /\ Pointing /\ Holding /\ Releasing /\ Unharmed
  BY DEF Init, OptionHeld, Pointing, PointedTo, Holding, Releasing, Unharmed, Exactly, NoOptionYet,
         LogFiles, Serving
<1>4. ListsAgree /\ HeadServes
  BY DEF Init, ListsAgree, HeadServes
<1>5. Allocation /\ Walk
  <2>1. CellsFrom(1) = {}
    BY DEF Init, CellsFrom
  <2> QED  BY <2>1 DEF Init, Allocation, Walk, AfterServers, AfterSessions, NoOptionYet
<1>6. Reading
  <2>1. Good(0) = {}
    BY DEF Good
  <2>2. Cardinality(Good(0)) = 0
    BY <2>1, FS_EmptySet
  <2> QED  BY <2>1, <2>2 DEF Init, Reading, FrontIsLast
<1> QED  BY <1>2, <1>3, <1>4, <1>5, <1>6 DEF Inv

LEMMA NextInv == Inv /\ [Next]_vars => Inv'
<1> SUFFICES ASSUME Inv, [Next]_vars PROVE Inv'
  OBVIOUS
<1>1. CASE Next
  <2>1. Typed'
    BY <1>1, OtherTypesKept, MemoryTypesKept, TypesSplit
       DEF Typed, TypeOK, OtherTypes, MemoryTypes, Memory
  <2> QED  BY <1>1, <2>1, HeldKept, PointingKept, UnharmedKept, ListsKept, AllocationKept,
              WalkKept, ReadingKept, HeadKept DEF Inv
<1>2. CASE UNCHANGED vars
  <2> USE <1>2 DEF vars
  <2>1. (OptionHeld /\ Pointing /\ Holding /\ Releasing /\ Unharmed)'
    BY DEF Inv, OptionHeld, Pointing, Holding, Releasing, Unharmed, Exactly
  <2>2. Typed' /\ ListsAgree'
    BY DEF Inv, Typed, TypeOK, ListsAgree
  <2>3. (Allocation /\ Walk)'
    BY DEF Inv, Allocation, CellsFrom, Walk
  <2>4. Good(line_no)' = Good(line_no)
    BY DEF Good
  <2>5. Reading'
    BY <2>4 DEF Inv, Reading, FrontIsLast, keycmp
  <2>6. HeadServes'
    BY <2>4 DEF Inv, HeadServes
  <2> QED  BY <2>1, <2>2, <2>3, <2>5, <2>6 DEF Inv
<1> QED  BY <1>1, <1>2

(* The invariant everything below is read off. *)
THEOREM InvHolds == Spec => []Inv
BY InitInv, NextInv, PTL DEF Spec

(* The process keeps its types, whatever the file says and whatever fails. *)
THEOREM TypeCorrect == Spec => []TypeOK
<1>1. Inv => TypeOK
  BY DEF Inv, Typed
<1> QED  BY <1>1, InvHolds, PTL

(* For any number of cells and sessions, in any order of additions and     *)
(* removals: both lists are intact, forwards and backwards, and apart.     *)
THEOREM ListsStayWhole == Spec => []ListsAgree
<1>1. Inv => ListsAgree
  BY DEF Inv
<1> QED  BY <1>1, InvHolds, PTL

(* Sessions get the server of the last line that named one.                *)
THEOREM LastLineServes == Spec => []HeadServes
<1>1. Inv => HeadServes
  BY DEF Inv
<1> QED  BY <1>1, InvHolds, PTL

(* A serving program has started without a failure and read its whole file. *)
THEOREM ServesOnlyWhole == Spec => []ServingIsWhole
<1>1. Inv => ServingIsWhole
  <2> SUFFICES ASSUME Inv, pc = "wait" PROVE ServingIsWhole
    BY DEF ServingIsWhole
  <2>1. held = Serving /\ mishaps = {} /\ epoll_fd = "epoll"
    BY DEF Inv, Holding, Exactly, Unharmed, Typed, TypeOK, Serving
  <2> QED  BY <2>1 DEF Inv, Reading, ServingIsWhole
<1> QED  BY <1>1, InvHolds, PTL

(* A program that has served releases nothing twice, nothing it does not   *)
(* hold, and at its exit has released all but the memory of its sessions.  *)
THEOREM ServedProgramTidiesUp == Spec => []OrderlyExit
<1>1. Inv => OrderlyExit
  BY DEF Inv, Releasing, Exactly, Unharmed, Allocation, AfterServers,
         AfterSessions, Pointing, PointedTo, LogFiles, OrderlyExit
<1> QED  BY <1>1, InvHolds, PTL

(* The walks of option_free never touch memory that has been freed.        *)
THEOREM FreedIsNotUsed == Spec => []NoUseAfterFree
<1>1. Inv => NoUseAfterFree
  BY DEF Inv, Unharmed, NoUseAfterFree
<1> QED  BY <1>1, InvHolds, PTL
=============================================================================
