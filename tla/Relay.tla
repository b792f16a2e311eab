------------------------------- MODULE Relay -------------------------------
(***************************************************************************)
(* The bytes of one direction of a session, from the peer that sends them  *)
(* (the source) through the static buffer of session_read_packet and the   *)
(* buffer of the socket structure of the other peer (the target).          *)
(*                                                                         *)
(* The i-th byte the source sends is the number i, and 0 a byte the proxy  *)
(* put in its place.  `buffer' is what lies inside the allocated block;    *)
(* buffer_used counts what the code believes to be there, which can be     *)
(* more.                                                                   *)
(***************************************************************************)
EXTENDS Integers, Sequences

CONSTANTS
    ReadSize,     (* COMMAND_BUFFER_SIZE: one read, and a command buffer     *)
    DataSize,     (* DATA_BUFFER_SIZE: the buffer of a data socket           *)
    MaxBytes,     (* bytes the source ever sends (bound)                     *)
    MaxErrors     (* read errors of other sessions (bound)                   *)

ASSUME SizesAssumption ==
    /\ ReadSize \in Nat \ {0}
    /\ DataSize \in Nat /\ DataSize >= 2 * ReadSize
    /\ MaxBytes \in Nat /\ MaxErrors \in Nat

(* What the client commands and uploads, what the server replies and lets   *)
(* download: from c_cmd to s_cmd, from c_data to the listening socket       *)
(* s_data, from s_cmd to c_cmd and from s_conn to c_data.                   *)
Directions == {"commands", "uploads", "replies", "downloads"}

VARIABLES
    direction,     (* which of them this is                                  *)
    sent,          (* bytes the source has sent                              *)
    source,        (* "up", "fin", "reset", or "gone": no pointer leads to it *)
    got,           (* bytes the proxy has read                               *)
    target,        (* "up", or "none" when the pointer is NULL               *)
    buffer,        (* the bytes in target_socket->buffer                     *)
    buffer_used,   (* target_socket->buffer_used                             *)
    delivered,     (* the bytes the target was given                         *)
    batch,         (* events of the last epoll_wait not handled yet          *)
    listed,        (* is the session still in session_list?                  *)
    errors,        (* read errors of other sessions so far                   *)
    mishaps,       (* what has gone wrong so far (history)                   *)
    running        (* FALSE once the process has died                        *)

stream == <<direction, sent, source, errors>>
vars == <<direction, sent, source, got, target, buffer, buffer_used,
          delivered, batch, listed, errors, mishaps, running>>

(* Only the two data directions come and go while the session lives.       *)
ForData == direction \in {"uploads", "downloads"}

buffer_size == IF ForData THEN DataSize ELSE ReadSize

(* Is the end of the source the end of the session?                        *)
EndsSession == direction # "downloads"

(* "in": EPOLLIN of the source; "out": EPOLLOUT of the target.             *)
EventKinds == {"in", "out"}

(* A listening socket is never writable.                                   *)
MayDrain == target = "up" /\ direction # "uploads"

(* "late":      a round did not bring the target's EPOLLOUT to its handler; *)
(* "short":     a write stopped before its end;                            *)
(* "cut":       bytes did not fit in the buffer;                           *)
(* "dropped":   bytes were read and there was no target for them;          *)
(* "rewritten": a read was taken for a PORT command and replaced;          *)
(* "replaced":  the target's pointer was overwritten by a new socket.      *)
Losses == {"short", "cut", "dropped", "rewritten", "replaced"}
Mishaps == {"late"} \cup Losses

Lesser(a, b) == IF a < b THEN a ELSE b

Init ==
    /\ direction \in Directions
    /\ sent = 0 /\ source = "up" /\ got = 0
    /\ target \in IF ForData THEN {"none", "up"} ELSE {"up"}
    /\ buffer = <<>> /\ buffer_used = 0
    /\ delivered = <<>>
    /\ batch = {} /\ listed = TRUE
    /\ errors = 0 /\ mishaps = {} /\ running = TRUE

-----------------------------------------------------------------------------
(* The rounds of session_polling.                                          *)

Readable == source # "gone" /\ (sent > got \/ source \in {"fin", "reset"})

(* What one epoll_wait returns of the two events: the target's EPOLLOUT is *)
(* missing when the target does not drain its connection or listens, and   *)
(* either one when more than MAX_EVENTS descriptors are ready.             *)
Round(offered) ==
    /\ running /\ listed /\ batch = {}
    /\ offered # {} /\ offered \subseteq EventKinds
    /\ "in" \in offered => Readable
    /\ "out" \in offered => MayDrain
    /\ batch' = offered
    /\ mishaps' = IF target = "up" /\ "out" \notin offered
                  THEN mishaps \cup {"late"} ELSE mishaps
    /\ UNCHANGED <<stream, got, target, buffer, buffer_used, delivered, listed,
                   running>>

Poll == \E offered \in SUBSET EventKinds : Round(offered)

(* A read error of another session abandons the rest of the round.         *)
RoundAbandoned ==
    /\ running /\ listed /\ batch # {} /\ errors < MaxErrors
    /\ errors' = errors + 1
    /\ batch' = {}
    /\ mishaps' = IF "out" \in batch THEN mishaps \cup {"late"} ELSE mishaps
    /\ UNCHANGED <<direction, sent, source, got, target, buffer, buffer_used,
                   delivered, listed, running>>

Takes(kind) ==
    /\ running /\ listed /\ kind \in batch
    /\ batch' = batch \ {kind}

-----------------------------------------------------------------------------
(* The read half: session_read_packet.                                     *)

MutantReadLimit == DataSize

(* sizeof(buffer) of the static buffer *)
ReadLimit == ReadSize

BytesRead(n) == [i \in 1 .. n |-> got + i]

(* generate_port_command: a line of k bytes of the proxy's own. *)
Line(k) == [i \in 1 .. k |-> 0]

Fits(n) == n + buffer_used <= buffer_size

MutantRoom == buffer_size

Room == IF buffer_used < buffer_size THEN buffer_size - buffer_used ELSE 0

MutantOverwrites(bytes, marks) ==
    /\ target = "up" /\ Fits(Len(bytes))
    /\ buffer' = bytes
    /\ buffer_used' = buffer_used + Len(bytes)
    /\ mishaps' = mishaps \cup marks
    /\ UNCHANGED running

Appended(bytes, marks) ==
    /\ target = "up" /\ Fits(Len(bytes))
    /\ buffer' = buffer \o bytes
    /\ buffer_used' = buffer_used + Len(bytes)
    /\ mishaps' = mishaps \cup marks
    /\ UNCHANGED running

(* The size copied is then the size of the whole block: what goes past its *)
(* end overwrites the heap, which the process may survive or not.          *)
Overrun(bytes, marks) ==
    /\ target = "up" /\ ~Fits(Len(bytes))
    /\ buffer' = buffer \o SubSeq(bytes, 1, Lesser(Room, Len(bytes)))
    /\ buffer_used' = buffer_used + buffer_size
    /\ mishaps' = mishaps \cup marks \cup {"cut"}
    /\ running' \in BOOLEAN

(* There is no target socket: the bytes go nowhere. *)
Dropped(marks) ==
    /\ target = "none"
    /\ mishaps' = mishaps \cup marks \cup {"dropped"}
    /\ UNCHANGED <<buffer, buffer_used, running>>

session_buffer_write(bytes, marks) ==
    Appended(bytes, marks) \/ Overrun(bytes, marks) \/ Dropped(marks)

(* What one read() takes: n bytes of those that have arrived. *)
Arrived(n) == n <= sent - got /\ got' = got + n

Reads(n) == Takes("in") /\ Arrived(n)

session_read_packet ==
    /\ \E n \in 1 .. ReadLimit :
         Reads(n) /\ session_buffer_write(BytesRead(n), {})
    /\ UNCHANGED <<stream, target, delivered, listed>>

(* A client's command is taken for PORT: the whole read, with what was     *)
(* pipelined behind it, is replaced by one line.                           *)
PortRewritten ==
    /\ direction = "commands"
    /\ \E n, k \in 1 .. ReadLimit :
         Reads(n) /\ session_buffer_write(Line(k), {"rewritten"})
    /\ UNCHANGED <<stream, target, delivered, listed>>

(* What a client uploads is taken for PORT: server_listen overwrites the   *)
(* target, and the line goes to the old one, behind what waited there.     *)
UploadRewritten ==
    /\ direction = "uploads"
    /\ \E n, k \in 1 .. ReadLimit :
         /\ Reads(n)
         /\ running' \in IF target = "up" /\ ~Fits(k) THEN BOOLEAN ELSE {TRUE}
    /\ target' = "up"
    /\ buffer' = <<>> /\ buffer_used' = 0
    /\ mishaps' = mishaps \cup {"rewritten", "replaced"}
    /\ UNCHANGED <<stream, delivered, listed>>

(* The session goes, and with it whatever is buffered for the target.      *)
session_remove_from_list ==
    /\ listed' = FALSE
    /\ batch' = {}
    /\ buffer' = <<>> /\ buffer_used' = 0

ReadFails ==
    /\ running /\ listed /\ "in" \in batch
    /\ sent = got
    /\ source = "reset" \/ (source = "fin" /\ EndsSession)
    /\ session_remove_from_list
    /\ UNCHANGED <<stream, got, target, delivered, mishaps, running>>

(* The end of the server's data connection: its socket is freed, the       *)
(* client's data socket and what is buffered for it stay.                  *)
server_data_closed ==
    /\ Takes("in") /\ sent = got
    /\ source = "fin" /\ ~EndsSession
    /\ source' = "gone"
    /\ UNCHANGED <<direction, sent, errors, got, target, buffer, buffer_used,
                   delivered, listed, mishaps, running>>

(* A client's PORT command cannot be served: it was read, and goes nowhere. *)
PortFails ==
    /\ direction = "commands"
    /\ running /\ listed /\ "in" \in batch
    /\ \E n \in 1 .. ReadLimit : Arrived(n)
    /\ session_remove_from_list
    /\ mishaps' = mishaps \cup {"dropped"}
    /\ running' \in BOOLEAN
    /\ UNCHANGED <<stream, target, delivered>>

(* Any other event that removes the session: the target, or another        *)
(* connection of the session, is closed or reset.                          *)
SessionEnds ==
    /\ running /\ listed
    /\ session_remove_from_list
    /\ mishaps' = IF "out" \in batch THEN mishaps \cup {"late"} ELSE mishaps
    /\ UNCHANGED <<stream, got, target, delivered, running>>

-----------------------------------------------------------------------------
(* The client's next PORT command, or the server's next data connection,   *)
(* while this one is still there: pointers are overwritten, and the events *)
(* of the sockets they led to are those of unknown descriptors.            *)

(* The target is a new socket with an empty buffer; a PORT command gives   *)
(* the client a new data connection as well, where uploads come from.      *)
TargetReplaced ==
    /\ running /\ listed /\ ForData
    /\ target' = "up"
    /\ buffer' = <<>> /\ buffer_used' = 0
    /\ mishaps' = mishaps \cup {"replaced"}
    /\ source' \in {source} \cup IF direction = "uploads" THEN {"gone"} ELSE {}
    /\ batch' = batch \ ({"out"} \cup IF source' = "gone" THEN {"in"} ELSE {})
    /\ UNCHANGED <<direction, sent, errors, got, delivered, listed, running>>

SourceReplaced ==
    /\ running /\ listed /\ ForData /\ source # "gone"
    /\ source' = "gone"
    /\ batch' = batch \ {"in"}
    /\ UNCHANGED <<direction, sent, errors, got, target, buffer, buffer_used,
                   delivered, listed, mishaps, running>>

-----------------------------------------------------------------------------
(* The write half: session_write_packet and packet_full_write.             *)

Capped == Lesser(buffer_used, buffer_size)

MutantNotEmptied ==
    /\ Takes("out")
    /\ \E k \in 0 .. Capped :
         /\ delivered' = delivered \o SubSeq(buffer, 1, k)
         /\ mishaps' = IF k < Capped THEN mishaps \cup {"short"} ELSE mishaps
    /\ UNCHANGED <<stream, got, target, buffer, buffer_used, listed, running>>

MutantOnlyWhenFull ==
    /\ Takes("out")
    /\ IF buffer_used < buffer_size
       THEN UNCHANGED <<delivered, mishaps, buffer, buffer_used>>
       ELSE /\ delivered' = delivered \o buffer
            /\ buffer' = <<>> /\ buffer_used' = 0
            /\ UNCHANGED mishaps
    /\ UNCHANGED <<stream, got, target, listed, running>>

(* The target takes the first k bytes; the buffer is emptied whatever k.   *)
session_write_packet ==
    /\ Takes("out")
    /\ \E k \in 0 .. Capped :
         /\ delivered' = delivered \o SubSeq(buffer, 1, k)
         /\ mishaps' = IF k < Capped THEN mishaps \cup {"short"} ELSE mishaps
    /\ buffer' = <<>> /\ buffer_used' = 0
    /\ UNCHANGED <<stream, got, target, listed, running>>

-----------------------------------------------------------------------------
(* The source.                                                             *)

SourceSends ==
    /\ running /\ source = "up" /\ sent < MaxBytes
    /\ \E n \in 1 .. MaxBytes - sent : sent' = sent + n
    /\ UNCHANGED <<direction, source, errors, got, target, buffer, buffer_used,
                   delivered, batch, listed, mishaps, running>>

SourceEnds ==
    /\ running /\ source = "up"
    /\ source' \in {"fin", "reset"}
    /\ UNCHANGED <<direction, sent, errors, got, target, buffer, buffer_used,
                   delivered, batch, listed, mishaps, running>>

-----------------------------------------------------------------------------
Handling ==
    \/ session_read_packet
    \/ PortRewritten \/ UploadRewritten \/ PortFails
    \/ ReadFails
    \/ server_data_closed
    \/ session_write_packet

Next ==
    \/ Poll \/ Handling
    \/ RoundAbandoned \/ SessionEnds
    \/ TargetReplaced \/ SourceReplaced
    \/ SourceSends \/ SourceEnds

Spec == Init /\ [][Next]_vars

(* The loop handles every event of a round it does not abandon, and the    *)
(* kernel's ready list is a queue: an EPOLLOUT that stays ready is offered *)
(* again however many descriptors compete for the MAX_EVENTS places.  That *)
(* it is ready again and again is assumed of a target that is a            *)
(* connection; of a listening socket nothing is: Round never offers it.    *)
Fairness ==
    /\ WF_vars(Handling)
    /\ SF_vars(\E offered \in SUBSET EventKinds :
                  "out" \in offered /\ Round(offered))

FairSpec == Spec /\ Fairness

-----------------------------------------------------------------------------
(* Types; the block holds what buffer_used says, up to its own size, and a *)
(* target that is not there holds nothing.                                 *)
TypeOK ==
    /\ direction \in Directions
    /\ sent \in 0 .. MaxBytes /\ got \in 0 .. sent
    /\ source \in {"up", "fin", "reset", "gone"}
    /\ target \in {"none", "up"} /\ (target = "none" => buffer_used = 0)
    /\ buffer_used \in Nat
    /\ buffer \in Seq(0 .. MaxBytes) /\ Len(buffer) = Capped
    /\ delivered \in Seq(0 .. MaxBytes)
    /\ batch \subseteq EventKinds
    /\ listed \in BOOLEAN /\ running \in BOOLEAN
    /\ errors \in 0 .. MaxErrors
    /\ mishaps \subseteq Mishaps

(* The source's bytes are in the order in which it sent them. *)
Ascending(s) ==
    \A i, j \in 1 .. Len(s) : i < j /\ s[i] # 0 /\ s[j] # 0 => s[i] < s[j]

(* However writes stop short, buffers overrun, commands are rewritten,     *)
(* sockets are replaced or rounds are abandoned, the target never gets a   *)
(* byte twice or out of order, nor one that is neither read from the       *)
(* source nor written by the proxy in a rewritten command                  *)
(* (session.c:115-126, :461-491).                                          *)
InOrder ==
    /\ Ascending(delivered)
    /\ \A i \in 1 .. Len(delivered) : delivered[i] <= got

(* While the session lives, what the target has and what is buffered for   *)
(* it are together exactly the bytes read so far, unless a write stopped   *)
(* short, bytes did not fit or had no target, a read was taken for a PORT  *)
(* command, or the target was replaced: a byte is lost in these five ways  *)
(* and in no other; late and abandoned rounds lose none (session.c:376,    *)
(* :461-491, server.c:263-276).                                            *)
Lossless ==
    listed /\ mishaps \cap Losses = {}
        => /\ Len(delivered) + Len(buffer) = got
           /\ \A i \in 1 .. Len(delivered) : delivered[i] = i
           /\ \A i \in 1 .. Len(buffer) : buffer[i] = Len(delivered) + i

(* A data socket's buffer is never overrun as long as every round brings   *)
(* the target's EPOLLOUT to its handler: at most two reads meet in it      *)
(* (session.c:482, socket.h DATA_BUFFER_SIZE).  The listening socket that  *)
(* uploads are buffered for is never brought one.                          *)
DataBufferFits ==
    ForData /\ "late" \notin mishaps
        => /\ buffer_used <= 2 * ReadSize
           /\ "cut" \notin mishaps

(* What the end of a session takes from a target that has drained every    *)
(* round is at most the last read, unless a PORT command ended it:         *)
(* everything older was given to it before session_remove_from_list threw  *)
(* the buffer away (session.c:416).                                        *)
TeardownLosesOneRead ==
    ~listed /\ mishaps = {} => got - Len(delivered) <= ReadSize

(* Buffered bytes do not stay for ever: they are written, or the session   *)
(* or the process has ended (session.c:380, :320).  Uploads do stay: they  *)
(* wait for a listening socket to be writable (client.c:114).              *)
Drained ==
    (direction # "uploads" /\ buffer_used > 0) ~> (buffer_used = 0 \/ ~running)
=============================================================================
