---------------------------- MODULE PortCommand ----------------------------
(***************************************************************************)
(* A client's PORT command on its way through the proxy: how reads cut it, *)
(* which of them utils.c takes for a PORT command, the address it makes of *)
(* it, the command it writes instead, and where the FTP server then dials. *)
(*                                                                         *)
(* A text is what one read holds: the word it starts with, the numbers     *)
(* between its separators and how those of the host are written, whether   *)
(* the separators are all commas, the line end that was read and whether   *)
(* more commands stand behind it.                                          *)
(***************************************************************************)
EXTENDS Integers, Sequences

CONSTANTS
    Commands,     (* the PORT commands a client may send                     *)
    Ulong,        (* values of an unsigned long: 2^64 in the program         *)
    HostAddress,  (* session->host_address, where the proxy listens          *)
    Ports,        (* ports the kernel may give a listening socket            *)
    LineEnds      (* what the FTP server takes for the end of a line         *)

Octet == 0 .. 255

(* struct sockaddr_in *)
Hosts == [1 .. 4 -> Octet]
PortNumbers == {p \in Nat : p < 65536}
Addresses == [host : Hosts, port : PortNumbers]
NoAddress == [host |-> <<>>, port |-> -1]

(* What stands between two separators: a decimal number, letters that are  *)
(* hexadecimal digits, other characters, or nothing.                       *)
Hex == -1
Junk == -2
Empty == -3
Fields == Nat \cup {Hex, Junk, Empty}

(* "after": the command stands behind another one in the same read;        *)
(* "rest": the read starts in the middle of the command.                   *)
Words == {"PORT", "port", "after", "rest"}

(* A number of the host with a leading zero ("octal") or 0x ("hex") is for *)
(* inet_aton alone another number: the field holds the decimal digits of   *)
(* the first, as everyone else reads them, and the value of the second.    *)
Notations == {"decimal", "octal", "hex"}

Texts == [word : Words, commas : BOOLEAN, fields : Seq(Fields),
          notation : [1 .. 4 -> Notations],
          line_end : {"CRLF", "LF", "none"}, more : BOOLEAN]

ASSUME PortAssumption ==
    /\ Commands \subseteq Texts
    /\ \A c \in Commands : c.word # "rest" /\ c.line_end = "CRLF"
    /\ Ulong \in Nat /\ Ulong > 255
    /\ HostAddress \in Hosts
    /\ Ports \subseteq PortNumbers
    /\ "CRLF" \in LineEnds /\ LineEnds \subseteq {"CRLF", "LF"}

VARIABLES
    command,     (* the command the client sends                             *)
    unread,      (* the reads that will bring it                             *)
    connected,   (* the address the proxy connected to for the client        *)
    listener,    (* the address of server->data_socket                       *)
    forwarded,   (* the texts the proxy has written to the server            *)
    dialled,     (* the address the server dials                             *)
    ended        (* has the session been removed?                            *)

vars == <<command, unread, connected, listener, forwarded, dialled, ended>>

-----------------------------------------------------------------------------
(* What a PORT command means to FTP (RFC 959), and how TCP cuts it.        *)

HostOf(t) == [i \in 1 .. 4 |-> t.fields[i]]

Means(t) ==
    IF /\ t.commas /\ Len(t.fields) = 6
       /\ \A i \in 1 .. 6 : t.fields[i] \in Octet
       /\ \A i \in 1 .. 4 : t.notation[i] # "hex"
    THEN [host |-> HostOf(t), port |-> 256 * t.fields[5] + t.fields[6]]
    ELSE NoAddress

(* Before a number, behind it, or before its last digit. *)
Halves(f) ==
    {<<Empty, f>>, <<f, Empty>>}
      \cup (IF f >= 10 THEN {<<f \div 10, f % 10>>} ELSE {})

CutAt(c, k, half) ==
    <<[c EXCEPT !.fields = Append(SubSeq(c.fields, 1, k - 1), half[1]),
                !.line_end = "none", !.more = FALSE],
      [c EXCEPT !.word = "rest",
                !.fields = <<half[2]>> \o SubSeq(c.fields, k + 1, Len(c.fields))]>>

Reads(c) ==
    {<<c>>} \cup UNION {{CutAt(c, k, half) : half \in Halves(c.fields[k])} :
                          k \in 1 .. Len(c.fields)}

(* The two halves of a number put together again. *)
Joined(a, b) == IF a = Empty THEN b ELSE IF b = Empty THEN a ELSE 10 * a + b

(* Two texts as one line: an LF that ends no line stands between numbers.  *)
Glued(s, t) ==
    LET n == Len(s.fields)
        between == IF s.line_end = "none" THEN Joined(s.fields[n], t.fields[1])
                                          ELSE Junk
    IN  [s EXCEPT !.fields = SubSeq(s.fields, 1, n - 1) \o <<between>>
                               \o SubSeq(t.fields, 2, Len(t.fields))]

-----------------------------------------------------------------------------
(* utils.c                                                                 *)

(* Five separators, and a hexadecimal digit before each of them. *)
is_port_command(t) ==
    /\ t.word = "PORT"
    /\ Len(t.fields) = 6
    /\ \A i \in 1 .. 5 : t.fields[i] \notin {Junk, Empty}

MutantOneByte(f) == IF f = Empty THEN 0 ELSE f % 256

(* `val' once it has taken the digits of a number. *)
Val(f) == IF f = Empty THEN 0 ELSE f % Ulong

(* `port' is a short. *)
Short(x) == IF x % 65536 < 32768 THEN x % 65536 ELSE (x % 65536) - 65536
Shifted(port, val) == Short(Short(port * 256) + val)

MutantSigned(x) == Short(x)

(* htons takes it for a uint16_t. *)
Unsigned(x) == x % 65536

MutantPortParsed(t) ==
    /\ t.fields[5] \in Nat /\ Val(t.fields[5]) < 255
    /\ t.fields[6] \in Nat \cup {Empty} /\ Val(t.fields[6]) < 255

PortParsed(t) ==
    /\ t.fields[5] \in Nat /\ Val(t.fields[5]) <= 255
    /\ t.fields[6] \in Nat \cup {Empty} /\ Val(t.fields[6]) <= 255
    /\ Shifted(0, Val(t.fields[5])) <= 255

(* inet_aton takes a leading zero for octal and 0x for hexadecimal: of 010 *)
(* it makes 8, and 08 it refuses.                                          *)
IsOctal(n) == n \in 0 .. 377 /\ n % 10 < 8 /\ (n \div 10) % 10 < 8
Octal(n) == 64 * (n \div 100) + 8 * ((n \div 10) % 10) + (n % 10)

inet_aton(t) ==
    [i \in 1 .. 4 |-> IF t.notation[i] # "octal" THEN t.fields[i]
                      ELSE IF IsOctal(t.fields[i]) THEN Octal(t.fields[i])
                      ELSE Junk]

(* Only commas, nothing behind the line, a host inet_aton accepts, a port. *)
get_address_from_port_command(t) ==
    IF t.commas /\ ~t.more /\ inet_aton(t) \in Hosts /\ PortParsed(t)
    THEN [host |-> inet_aton(t),
          port |-> Unsigned(Shifted(Shifted(0, Val(t.fields[5])),
                                    Val(t.fields[6])))]
    ELSE NoAddress

PortLine(numbers, line_end) ==
    [word |-> "PORT", commas |-> TRUE, fields |-> numbers,
     notation |-> [i \in 1 .. 4 |-> "decimal"],
     line_end |-> line_end, more |-> FALSE]

MutantSwapped(a) ==
    PortLine(<<a.host[1], a.host[2], a.host[3], a.host[4],
               a.port % 256, a.port \div 256>>, "LF")

MutantNoLineEnd(a) ==
    PortLine(<<a.host[1], a.host[2], a.host[3], a.host[4],
               a.port \div 256, a.port % 256>>, "none")

(* The whole of the read is replaced by the one line, which a bare LF ends.*)
generate_port_command(a) ==
    PortLine(<<a.host[1], a.host[2], a.host[3], a.host[4],
               a.port \div 256, a.port % 256>>, "LF")

-----------------------------------------------------------------------------
Init ==
    /\ command \in Commands
    /\ unread \in Reads(command)
    /\ connected = NoAddress /\ listener = NoAddress /\ dialled = NoAddress
    /\ forwarded = <<>>
    /\ ended = FALSE

DataAddress(read) ==
    IF is_port_command(read) THEN get_address_from_port_command(read)
                             ELSE NoAddress

(* server_listen succeeds on a port the kernel chooses. *)
Rewritten(read) ==
    /\ is_port_command(read)
    /\ \E port \in Ports :
         /\ listener' = [host |-> HostAddress, port |-> port]
         /\ forwarded' = Append(forwarded, generate_port_command(listener'))

(* No PORT command, or server_listen fails: the read goes on as it is. *)
Unchanged(read) ==
    /\ forwarded' = Append(forwarded, read)
    /\ UNCHANGED listener

send_packet_to_server(read) == Rewritten(read) \/ Unchanged(read)

client_command_received ==
    /\ ~ended /\ unread # <<>>
    /\ connected' = IF DataAddress(Head(unread)) # NoAddress
                    THEN DataAddress(Head(unread)) ELSE connected
    /\ send_packet_to_server(Head(unread))
    /\ unread' = Tail(unread)
    /\ UNCHANGED <<command, dialled, ended>>

(* client_connect fails: the session is removed and nothing goes on. *)
ConnectFails ==
    /\ ~ended /\ unread # <<>>
    /\ DataAddress(Head(unread)) # NoAddress
    /\ ended' = TRUE
    /\ UNCHANGED <<command, unread, connected, listener, forwarded, dialled>>

(* The first line the server has received. *)
HasLine ==
    \/ Len(forwarded) >= 1 /\ forwarded[1].line_end \in LineEnds
    \/ Len(forwarded) >= 2
FirstLine ==
    IF forwarded[1].line_end \in LineEnds
    THEN forwarded[1] ELSE Glued(forwarded[1], forwarded[2])

ServerDials ==
    /\ dialled = NoAddress /\ HasLine
    /\ Means(FirstLine) # NoAddress
    /\ dialled' = Means(FirstLine)
    /\ UNCHANGED <<command, unread, connected, listener, forwarded, ended>>

Next == client_command_received \/ ConnectFails \/ ServerDials

Spec == Init /\ [][Next]_vars

(* Reads are polled for ever; the server acts on the lines it gets. *)
Fairness == WF_vars(client_command_received) /\ WF_vars(ServerDials)

FairSpec == Spec /\ Fairness

-----------------------------------------------------------------------------
(* Types; whatever the arithmetic, addresses have 16-bit ports. *)
TypeOK ==
    /\ command \in Commands
    /\ unread \in Seq(Texts) /\ Len(unread) <= 2
    /\ forwarded \in Seq(Texts) /\ Len(forwarded) + Len(unread) <= 2
    /\ connected \in Addresses \cup {NoAddress}
    /\ listener \in Addresses \cup {NoAddress}
    /\ dialled \in Addresses \cup {NoAddress}
    /\ ended \in BOOLEAN

(* The command comes, or came, in one read. *)
Uncut == Len(unread) + Len(forwarded) = 1

(* inet_aton reads the numbers of the host as FTP means them.              *)
PlainHost(c) ==
    \A i \in 1 .. 4 : \/ c.notation[i] = "decimal"
                      \/ c.notation[i] = "octal" /\ c.fields[i] < 8

Readable(c) ==
    /\ PlainHost(c)
    /\ \A i \in 1 .. Len(c.fields) : c.fields[i] < Ulong
    /\ Len(c.fields) = 6 => c.fields[6] # Empty

(* A proxy that connects for a command it got in one read connects to the  *)
(* address the command means: shifting a short does not lose the ports     *)
(* from 32768 on (utils.c:212, :230).  Left out are commands in several    *)
(* reads, hosts with 0x or with a number above 7 behind a leading zero,    *)
(* which inet_aton reads its own way (utils.c:187), numbers that wrap an   *)
(* unsigned long, and a missing last number, which counts as 0.            *)
ConnectsWhereMeant ==
    connected # NoAddress /\ Uncut /\ Readable(command)
        => connected = Means(command)

(* However the client's command was cut, the server dials the proxy's      *)
(* listener if there is one, and else what the client asked for itself:    *)
(* what generate_port_command writes reads back as the same address        *)
(* (utils.c:121, server.c:266).                                            *)
ServerDialsListener ==
    dialled # NoAddress
        => dialled = IF listener # NoAddress THEN listener ELSE Means(command)

Capitals(c) == c.word = "PORT" /\ ~c.more /\ Means(c) # NoAddress

(* A command that means an address, in capitals, alone in its read and     *)
(* with a host inet_aton reads as it is meant, is never forwarded without  *)
(* the proxy having connected to the client (client.c:79-95).  FTP asks    *)
(* for none of the three: a command in small letters or in front of        *)
(* another one is forwarded and nobody connects, and one with a leading    *)
(* zero is forwarded after a connection to elsewhere, or to nowhere.       *)
ProperCommandConnects ==
    unread = <<>> /\ Uncut /\ Capitals(command) /\ PlainHost(command)
        => connected = Means(command)

(* The proxy's own line ends in a bare LF (utils.c:127), where RFC 959     *)
(* asks for CRLF: does the server take it?                                 *)
OwnLineTaken == listener # NoAddress => "LF" \in LineEnds

(* Once every read of a command that means an address has been handled,    *)
(* the server has a whole line that means one, if it takes the proxy's     *)
(* line end: what is written in place of a read has one, and a cut command *)
(* is put together again (utils.c:127, server.c:273).                      *)
ServerGetsALine ==
    unread = <<>> /\ Means(command) # NoAddress /\ OwnLineTaken
        => HasLine /\ Means(FirstLine) # NoAddress

(* A command that means an address, in however many reads it comes, makes  *)
(* the server dial, unless the session has ended or the server waits for   *)
(* the CRLF the proxy did not write (utils.c:127).                         *)
CommandAnswered ==
    (Means(command) # NoAddress)
        ~> (dialled # NoAddress \/ ended \/ ~OwnLineTaken)
=============================================================================
