------------------------------ MODULE Lifetime ------------------------------
(***************************************************************************)
(* The process from main() to its exit: what start-up acquires and each of *)
(* its failures, the configuration file, the two intrusive lists of struct *)
(* option, and everything main_free gives back.                            *)
(*                                                                         *)
(* The thread pool and the event loop have modules of their own; here they *)
(* are a resource, and the sessions that come and go while main() waits.   *)
(***************************************************************************)
EXTENDS IntrusiveList, FiniteSets

CONSTANTS
    Servers,       (* addresses a configuration may name                     *)
    Cells,         (* memory for struct server_address                       *)
    SessionNodes,  (* memory for struct session (never given back)           *)
    MaxLines       (* lines of the configuration file (bound)                *)

ServerHead == "server_list"
SessionHead == "session_list"
Heads == {ServerHead, SessionHead}
Nodes == Heads \cup Cells \cup SessionNodes

BadAddress == "bad"

ASSUME MemoryAssumption ==
    /\ Heads \cap Cells = {} /\ Heads \cap SessionNodes = {}
    /\ Cells \cap SessionNodes = {}
    /\ BadAddress \notin Servers
    /\ MaxLines \in Nat

(* A line is its key and its address; an empty key is that of a blank line *)
(* and of one that starts with a carriage return.                          *)
Lines == [key : {"server_address", "server_address2", "other", ""},
          address : Servers \cup {BadAddress}]

VARIABLES
    pc,             (* what main() does next                                 *)
    file,           (* proxy.cfg, line by line                               *)
    line_no,        (* lines read                                            *)
    links,          (* the pointers of every struct list                     *)
    live,           (* allocated cells and sessions                          *)
    address,        (* server_address->address of every cell                 *)
    server_order,   (* the cells that were added, last first (history)       *)
    session_order,  (* the sessions that were added and not removed (history) *)
    item, back,     (* the cursors of list_for_each_entry_safe               *)
    held,           (* what the process has acquired and not released        *)
    pointers,       (* the log's and the option's pointers that are not NULL *)
    epoll_fd,       (* option->epoll_fd: 0, the epoll descriptor, or -1      *)
    assigned,       (* the address the last session was connected to         *)
    served,         (* did main() ever wait for the main loop? (history)     *)
    mishaps,        (* what has gone wrong so far (history)                  *)
    running         (* FALSE once the process has died                       *)

config == <<file, line_no, address, server_order>>
cursors == <<item, back>>
memory == <<links, live>>
holding == <<held, pointers>>
history == <<assigned, served, mishaps>>
vars == <<pc, file, line_no, links, live, address, server_order, session_order,
          item, back, held, pointers, epoll_fd, assigned, served, mishaps,
          running>>

NoAddress == "none"
AnyAddress == "any"

Resources == {"log_file", "null_file", "log_buffer", "option", "thread_pool",
              "proxy_socket", "listening", "epoll", "registered",
              "config_file", "stdin"}
LogFiles == {"log_file", "null_file", "log_buffer"}
PointedTo == LogFiles \cup {"thread_pool", "proxy_socket"}

Serving == {"log_file", "null_file", "log_buffer", "option", "thread_pool",
            "proxy_socket", "listening", "epoll", "registered", "stdin"}

Steps == {"log_init", "option_create", "thread_pool_create", "socket_create",
          "socket_listen", "epoll_create", "epoll_ctl", "arguments", "config",
          "thread_pool_add_work", "wait", "log_free", "thread_pool_free",
          "servers", "sessions", "epoll_close", "socket_free", "option_free",
          "exit"}

Mishaps == {"double_free", "use_after_free", "stdin_closed"}

Init ==
    /\ pc = "log_init"
    /\ file \in UNION {[1 .. n -> Lines] : n \in 0 .. MaxLines}
    /\ line_no = 0
    /\ links = [x \in Nodes |-> Link(SessionHead, SessionHead)]
    /\ live = {}
    /\ address = [c \in Cells |-> NoAddress]
    /\ server_order = <<>> /\ session_order = <<>>
    /\ item = ServerHead /\ back = ServerHead
    /\ held = {"stdin"} /\ pointers = {} /\ epoll_fd = "stdin"
    /\ assigned = NoAddress /\ served = FALSE
    /\ mishaps = {} /\ running = TRUE

At(step) == running /\ pc = step
Goes(step) == pc' = step

Acquires(rs) ==
    /\ held' = held \cup rs
    /\ pointers' = pointers \cup (rs \cap PointedTo)

(* Giving back what is not held is giving it back twice. *)
Twice(rs) == IF rs \subseteq held THEN {} ELSE {"double_free"}

(* Gives back rs, and what goes with it, and clears the pointers. *)
Releases(rs, along) ==
    /\ held' = held \ (rs \cup along)
    /\ pointers' = pointers \ rs
    /\ mishaps' = mishaps \cup Twice(rs)

-----------------------------------------------------------------------------
(* main() up to thread_pool_wait.  A failure inside option_create frees    *)
(* the option and ends main() without log_free; a later one is main_free.  *)

log_init ==
    /\ At("log_init")
    /\ \/ Goes("option_create") /\ Acquires(LogFiles)
       \/ Goes("exit") /\ UNCHANGED holding
       \/ Goes("exit") /\ Acquires({"log_file"})
    /\ UNCHANGED <<config, cursors, memory, session_order, epoll_fd, history,
                   running>>

(* memset leaves 0, the number of stdin, in epoll_fd. *)
OptionAllocated ==
    /\ At("option_create")
    /\ Goes("thread_pool_create") /\ Acquires({"option"})
    /\ links' = LIST_INIT(LIST_INIT(links, ServerHead), SessionHead)
    /\ epoll_fd' = "stdin"
    /\ UNCHANGED <<config, cursors, live, session_order, history, running>>

OptionFails ==
    /\ At("option_create")
    /\ Goes("exit")
    /\ UNCHANGED <<config, cursors, memory, session_order, holding, epoll_fd,
                   history, running>>

Acquisition(step, next, rs) ==
    /\ At(step)
    /\ Goes(next) /\ Acquires(rs)
    /\ epoll_fd' = IF "epoll" \in rs THEN "epoll" ELSE epoll_fd
    /\ UNCHANGED <<config, cursors, memory, session_order, history, running>>

StartUpSucceeds ==
    \/ Acquisition("thread_pool_create", "socket_create", {"thread_pool"})
    \/ Acquisition("socket_create", "socket_listen", {"proxy_socket"})
    \/ Acquisition("socket_listen", "epoll_create", {"listening"})
    \/ Acquisition("epoll_create", "epoll_ctl", {"epoll"})
    \/ Acquisition("epoll_ctl", "arguments", {"registered"})

(* setsockopt fails where socket_listen does. *)
StartUpFails ==
    /\ running
    /\ pc \in {"thread_pool_create", "socket_create", "socket_listen",
               "epoll_create", "epoll_ctl"}
    /\ Goes("thread_pool_free")
    /\ UNCHANGED <<config, cursors, memory, session_order, holding, epoll_fd,
                   history, running>>

(* socket_init has freed the socket, and socket_create frees it again. *)
SocketInitFails ==
    /\ At("socket_create")
    /\ Goes("thread_pool_free")
    /\ mishaps' = mishaps \cup {"double_free"}
    /\ running' \in BOOLEAN
    /\ UNCHANGED <<config, cursors, memory, session_order, holding, epoll_fd,
                   assigned, served>>

(* Every argument, valid or not, ends the program. *)
get_option_from_argument ==
    /\ At("arguments")
    /\ Goes("log_free")
    /\ UNCHANGED <<config, cursors, memory, session_order, holding, epoll_fd,
                   history, running>>

FileOpened ==
    /\ At("arguments")
    /\ Goes("config") /\ Acquires({"config_file"})
    /\ UNCHANGED <<config, cursors, memory, session_order, epoll_fd, history,
                   running>>

FileMissing ==
    /\ At("arguments")
    /\ Goes("log_free")
    /\ UNCHANGED <<config, cursors, memory, session_order, holding, epoll_fd,
                   history, running>>

-----------------------------------------------------------------------------
(* get_option_from_file.                                                   *)

(* strncmp up to the length of the original key: any longer key will do.   *)
keycmp(key) == key \in {"server_address", "server_address2"}

server_insert_address(value) ==
    \/ /\ value = BadAddress
       /\ UNCHANGED <<memory, address, server_order>>
    \/ /\ value # BadAddress
       /\ \E c \in Cells \ live :
            /\ links' = LIST_ADD(LIST_INIT(links, c), ServerHead, c)
            /\ live' = live \cup {c}
            /\ address' = [address EXCEPT ![c] = value]
            /\ server_order' = <<c>> \o server_order

LineRead ==
    /\ At("config") /\ line_no < Len(file)
    /\ keycmp(file[line_no + 1].key)
    /\ server_insert_address(file[line_no + 1].address)
    /\ line_no' = line_no + 1
    /\ UNCHANGED <<pc, file, session_order, cursors, holding, epoll_fd, history,
                   running>>

MutantResultForgotten ==
    /\ At("config") /\ line_no < Len(file)
    /\ ~keycmp(file[line_no + 1].key)
    /\ Goes("thread_pool_add_work")
    /\ Releases({"config_file"}, {})
    /\ UNCHANGED <<config, cursors, memory, session_order, epoll_fd, assigned,
                   served, running>>

(* Any other line, a blank one too, ends the file and the program. *)
UnknownKey ==
    /\ At("config") /\ line_no < Len(file)
    /\ ~keycmp(file[line_no + 1].key)
    /\ Goes("log_free")
    /\ Releases({"config_file"}, {})
    /\ UNCHANGED <<config, cursors, memory, session_order, epoll_fd, assigned,
                   served, running>>

FileRead ==
    /\ At("config") /\ line_no = Len(file)
    /\ Goes("thread_pool_add_work")
    /\ Releases({"config_file"}, {})
    /\ UNCHANGED <<config, cursors, memory, session_order, epoll_fd, assigned,
                   served, running>>

thread_pool_add_work ==
    /\ At("thread_pool_add_work")
    /\ \/ Goes("wait") /\ served' = TRUE
       \/ Goes("log_free") /\ UNCHANGED served
    /\ UNCHANGED <<config, cursors, memory, session_order, holding, epoll_fd,
                   assigned, mishaps, running>>

-----------------------------------------------------------------------------
(* While main() waits: the two lists as the sessions use them.             *)

MutantLastServer ==
    IF LIST_ISEMPTY(links, ServerHead) THEN AnyAddress
                                       ELSE address[links[ServerHead].p]

(* LIST_ELEM of the head itself when the list is empty: bytes that lie     *)
(* before the option, so any address.                                      *)
server_get_available_address ==
    IF LIST_ISEMPTY(links, ServerHead) THEN AnyAddress
                                       ELSE address[links[ServerHead].n]

add_session_to_list ==
    /\ At("wait")
    /\ \E s \in SessionNodes \ live :
         /\ links' = LIST_ADD(LIST_INIT(links, s), SessionHead, s)
         /\ live' = live \cup {s}
         /\ session_order' = <<s>> \o session_order
    /\ assigned' = server_get_available_address
    /\ UNCHANGED <<pc, config, cursors, holding, epoll_fd, served, mishaps,
                   running>>

(* The links after session_remove_from_list(s).  Only a session that was   *)
(* never added points to itself.                                           *)
Unlinked(m, s) == IF LIST_ISEMPTY(m, s) THEN m ELSE LIST_DEL(m, s)

(* The accept or one of the two connections fails: the new session, not in *)
(* the list, goes through session_remove_from_list.  Its memory stays.     *)
AddSessionFails ==
    /\ At("wait")
    /\ \E s \in SessionNodes \ live :
         /\ links' = Unlinked(LIST_INIT(links, s), s)
         /\ live' = live \cup {s}
    /\ UNCHANGED <<pc, config, cursors, session_order, holding, epoll_fd,
                   history, running>>

Without(order, s) ==
    WithoutNth(order, CHOOSE k \in 1 .. Len(order) : order[k] = s)

SessionEnds ==
    /\ At("wait")
    /\ \E k \in 1 .. Len(session_order) :
         /\ links' = Unlinked(links, session_order[k])
         /\ session_order' = Without(session_order, session_order[k])
    /\ UNCHANGED <<pc, config, cursors, live, holding, epoll_fd, history,
                   running>>

MutantPoolFreedEarly ==
    /\ At("wait")
    /\ Goes("log_free")
    /\ held' = held \ {"thread_pool"}
    /\ UNCHANGED <<config, cursors, memory, session_order, pointers, epoll_fd,
                   history, running>>

(* session_polling has failed, and thread_pool_wait returns. *)
MainLoopEnds ==
    /\ At("wait")
    /\ Goes("log_free")
    /\ UNCHANGED <<config, cursors, memory, session_order, holding, epoll_fd,
                   history, running>>

-----------------------------------------------------------------------------
(* main_free: log_free, then option_free.                                  *)

log_free ==
    /\ At("log_free")
    /\ Goes("thread_pool_free")
    /\ Releases(pointers \cap LogFiles, {})
    /\ UNCHANGED <<config, cursors, memory, session_order, epoll_fd, assigned,
                   served, running>>

(* list_for_each_entry_safe starts. *)
Iterates(head) ==
    /\ item' = links[head].n
    /\ back' = links[links[head].n].n

thread_pool_free ==
    /\ At("thread_pool_free")
    /\ Goes("servers")
    /\ Releases(pointers \cap {"thread_pool"}, {})
    /\ Iterates(ServerHead)
    /\ UNCHANGED <<config, memory, session_order, epoll_fd, assigned, served,
                   running>>

(* The nodes a step reads or writes are either live or the option's heads. *)
Touches(nodes, alive) ==
    IF nodes \subseteq alive \cup Heads THEN {} ELSE {"use_after_free"}

TwiceCell(c) == IF c \in live THEN {} ELSE {"double_free"}

MutantUnsafeIteration ==
    /\ At("servers") /\ item # ServerHead
    /\ live' = live \ {item}
    /\ item' = links[item].n /\ back' = back
    /\ mishaps' = mishaps \cup TwiceCell(item) \cup Touches({item}, live')
    /\ UNCHANGED <<pc, config, links, session_order, holding, epoll_fd,
                   assigned, served, running>>

ServerFreed ==
    /\ At("servers") /\ item # ServerHead
    /\ live' = live \ {item}
    /\ item' = back /\ back' = links[back].n
    /\ mishaps' = mishaps \cup TwiceCell(item) \cup Touches({back}, live')
    /\ UNCHANGED <<pc, config, links, session_order, holding, epoll_fd,
                   assigned, served, running>>

ServersFreed ==
    /\ At("servers") /\ item = ServerHead
    /\ Goes("sessions")
    /\ Iterates(SessionHead)
    /\ UNCHANGED <<config, memory, session_order, holding, epoll_fd, history,
                   running>>

MutantRescans ==
    /\ At("sessions") /\ item # SessionHead
    /\ item' = links[SessionHead].n /\ back' = links[item].n
    /\ UNCHANGED <<pc, config, memory, session_order, holding, epoll_fd,
                   history, running>>

SessionFreed ==
    /\ At("sessions") /\ item # SessionHead
    /\ links' = Unlinked(links, item)
    /\ session_order' = Without(session_order, item)
    /\ item' = back /\ back' = links'[back].n
    /\ mishaps' = mishaps
         \cup Touches({item, links[item].n, links[item].p, back}, live)
    /\ UNCHANGED <<pc, config, live, holding, epoll_fd, assigned, served,
                   running>>

SessionsFreed ==
    /\ At("sessions") /\ item = SessionHead
    /\ Goes("epoll_close")
    /\ UNCHANGED <<config, cursors, memory, session_order, holding, epoll_fd,
                   history, running>>

(* Number 0 is that of stdin. *)
ClosesStdin == IF epoll_fd = "stdin" THEN {"stdin_closed"} ELSE {}

MutantDescriptorKept ==
    /\ At("epoll_close")
    /\ Goes("socket_free")
    /\ held' = held \ {epoll_fd, "registered"}
    /\ mishaps' = mishaps \cup Twice({epoll_fd}) \cup ClosesStdin
    /\ UNCHANGED <<config, cursors, memory, session_order, pointers, epoll_fd,
                   assigned, served, running>>

(* Descriptor 0 is closed when epoll_create was not reached; the guard     *)
(* against -1 never holds here, since nothing but this step writes it.     *)
EpollClosed ==
    /\ At("epoll_close")
    /\ Goes("socket_free")
    /\ IF epoll_fd = "none" THEN UNCHANGED <<held, epoll_fd, mishaps>>
       ELSE /\ held' = held \ {epoll_fd, "registered"}
            /\ epoll_fd' = "none"
            /\ mishaps' = mishaps \cup Twice({epoll_fd}) \cup ClosesStdin
    /\ UNCHANGED <<config, cursors, memory, session_order, pointers, assigned,
                   served, running>>

socket_free ==
    /\ At("socket_free")
    /\ Goes("option_free")
    /\ Releases(pointers \cap {"proxy_socket"}, {"listening"})
    /\ UNCHANGED <<config, cursors, memory, session_order, epoll_fd, assigned,
                   served, running>>

OptionFreed ==
    /\ At("option_free")
    /\ Goes("exit")
    /\ Releases({"option"}, {})
    /\ UNCHANGED <<config, cursors, memory, session_order, epoll_fd, assigned,
                   served, running>>

-----------------------------------------------------------------------------
StartUp ==
    \/ log_init \/ OptionAllocated \/ OptionFails
    \/ StartUpSucceeds \/ StartUpFails \/ SocketInitFails
    \/ get_option_from_argument \/ FileOpened \/ FileMissing
    \/ LineRead \/ UnknownKey \/ FileRead \/ thread_pool_add_work

ServingStep ==
    \/ add_session_to_list \/ AddSessionFails \/ SessionEnds \/ MainLoopEnds

main_free ==
    \/ log_free \/ thread_pool_free \/ ServerFreed \/ ServersFreed
    \/ SessionFreed \/ SessionsFreed \/ EpollClosed \/ socket_free
    \/ OptionFreed

Next == StartUp \/ ServingStep \/ main_free

Spec == Init /\ [][Next]_vars

(* main() is scheduled; nothing makes the main loop end. *)
FairSpec == Spec /\ WF_vars(main_free)

-----------------------------------------------------------------------------
TypeOK ==
    /\ pc \in Steps
    /\ Len(file) <= MaxLines /\ line_no \in 0 .. Len(file)
    /\ links \in [Nodes -> [n : Nodes, p : Nodes]]
    /\ live \subseteq Cells \cup SessionNodes
    /\ address \in [Cells -> Servers \cup {NoAddress}]
    /\ server_order \in Seq(Cells) /\ session_order \in Seq(SessionNodes)
    /\ item \in Nodes /\ back \in Nodes
    /\ held \subseteq Resources /\ pointers \subseteq PointedTo
    /\ epoll_fd \in {"stdin", "epoll", "none"}
    /\ epoll_fd = "epoll" <=> "epoll" \in held
    /\ assigned \in Servers \cup {NoAddress, AnyAddress}
    /\ served \in BOOLEAN /\ running \in BOOLEAN
    /\ mishaps \subseteq Mishaps

(* The pointers of the option's two lists are, whatever was added, removed *)
(* from the middle or failed before it was added, exactly the two          *)
(* sequences, forwards and backwards; neither reaches into the other       *)
(* (list.h:84, :111; session.c:269-272).                                   *)
ListsAgree ==
    "option" \in held
        => /\ Represents(links, ServerHead, server_order)
           /\ Represents(links, SessionHead, session_order)

(* The lines that named a server, as indices. *)
Good(n) == {i \in 1 .. n : file[i].address # BadAddress}

(* Every session is connected to the server that the last good line of the *)
(* file names, for as long as the program serves; without a good line the  *)
(* address is not one anybody configured (server.c:383).                   *)
HeadServes ==
    assigned # NoAddress
        => IF Good(line_no) = {} THEN assigned = AnyAddress
           ELSE \E i \in Good(line_no) :
                  /\ assigned = file[i].address
                  /\ \A j \in Good(line_no) : j <= i

(* A program that serves has everything it needs, nothing more, and has    *)
(* understood its whole file: no failure on the way, and no line, lets it  *)
(* start in another state (option.c:48-103, :256-284).                     *)
ServingIsWhole ==
    pc = "wait"
        => /\ held = Serving /\ epoll_fd = "epoll" /\ mishaps = {}
           /\ line_no = Len(file) /\ \A i \in 1 .. Len(file) : keycmp(file[i].key)
           /\ Len(server_order) = Cardinality(Good(line_no))

(* A program that has served frees nothing and closes nothing twice, and   *)
(* at its exit has given back its log, threads, descriptors, option and    *)
(* server addresses, with no session left in the list (option.c:110-151,   *)
(* main.c:97).  The memory of struct session is not among it: nothing ever *)
(* frees it (session.c:252-277).  Nothing is said of a program that failed *)
(* to start: that one may close descriptor 0 or free a socket twice        *)
(* (option.c:139, socket.c:158), and keeps its log.                        *)
OrderlyExit ==
    served => /\ mishaps = {}
              /\ pc = "exit" => /\ held = {"stdin"} /\ pointers = {}
                                /\ live \cap Cells = {} /\ session_order = <<>>

(* Freeing the lists never touches freed memory, although the cells are    *)
(* freed without being unlinked, and sessions unlinked while the list is   *)
(* walked (option.c:129-137).                                              *)
NoUseAfterFree == "use_after_free" \notin mishaps

(* main_free comes to its end, unless the process has died of a socket     *)
(* freed twice: both walks over the lists reach the head again.            *)
FreeTerminates == pc = "thread_pool_free" ~> (pc = "exit" \/ ~running)
=============================================================================
