--------------------------- MODULE SessionPromise ---------------------------
(***************************************************************************)
(* What the event loop owes its clients and servers, without descriptors,  *)
(* events or epoll: sessions that have nothing in common.  A session has   *)
(* up to five connections; what arrives on one is carried to the opposite  *)
(* one of the same session, waits there, and is flushed.  Only what a      *)
(* client uploads is not promised to get anywhere.  FtpProxy, where all    *)
(* sessions share the descriptors, the batch of events and one search by   *)
(* number, is shown to implement this.                                     *)
(***************************************************************************)
EXTENDS Integers, Sequences

CONSTANT MaxClients     (* clients that ever dial the proxy (bound)          *)

Sessions == 1 .. MaxClients

(* The sockets of struct client and struct server, and where the bytes of  *)
(* one are to go; s_data listens and carries nothing.                      *)
Connections == {"c_cmd", "c_data", "s_cmd", "s_data", "s_conn"}
Opposite == [c_cmd |-> "s_cmd", s_cmd |-> "c_cmd",
             s_conn |-> "c_data", c_data |-> "s_conn"]

Kinds == {"PORT", "BADPORT", "OTHER"}

Silent == [c \in Connections |-> "none"]
Empty == [c \in Connections |-> <<>>]

VARIABLES
    admitted,   (* clients accept() has returned                             *)
    live,       (* sessions in the list                                      *)
    open,       (* session -> its connections                                *)
    incoming,   (* session -> connection -> what it was sent, not read yet   *)
    pending     (* session -> connection -> what waits to be written to it   *)

vars == <<admitted, live, open, incoming, pending>>

Init ==
    /\ admitted = 0
    /\ live = {}
    /\ open = [s \in Sessions |-> {}]
    /\ incoming = [s \in Sessions |-> Silent]
    /\ pending = [s \in Sessions |-> Empty]

(* The next client gets a session with both command connections ... *)
Begin ==
    /\ admitted < MaxClients
    /\ admitted' = admitted + 1
    /\ live' = live \cup {admitted + 1}
    /\ open' = [open EXCEPT ![admitted + 1] = {"c_cmd", "s_cmd"}]
    /\ UNCHANGED <<incoming, pending>>

(* ... or is turned away. *)
Refuse ==
    /\ admitted < MaxClients
    /\ admitted' = admitted + 1
    /\ UNCHANGED <<live, open, incoming, pending>>

Arrives(s, c) ==
    /\ incoming[s][c] = "none"
    /\ \E k \in Kinds : incoming' = [incoming EXCEPT ![s][c] = k]
    /\ UNCHANGED <<admitted, live, open, pending>>

(* The connections that bytes of kind k, read from c, may open (again): a  *)
(* client's PORT command opens the one to the client, always, and what     *)
(* looks like one makes the proxy listen for the server, if it can.        *)
Opens(c, k) ==
    {new \in SUBSET {"c_data", "s_data"} :
        /\ "c_data" \in new <=> c = "c_cmd" /\ k = "PORT"
        /\ "s_data" \in new => c \in {"c_cmd", "c_data"} /\ k # "OTHER"}

(* May what arrived on c get lost?  Only what a client uploads:            *)
(* send_packet_to_server hands it to the listening socket.                 *)
MayLose(c) == c = "c_data"

(* What arrived on c goes to the opposite connection, if there is one, and *)
(* what waits for c itself may be written on the same occasion.  A         *)
(* connection opened again starts afresh.                                  *)
Carry(s, c) ==
    /\ c # "s_data" /\ incoming[s][c] # "none"
    /\ \E new \in Opens(c, incoming[s][c]), flushed \in SUBSET {c},
          lost \in {FALSE, MayLose(c)} :
         /\ open' = [open EXCEPT ![s] = @ \cup new]
         /\ incoming' = [incoming EXCEPT ![s] =
              [d \in Connections |-> IF d \in new \cup {c} THEN "none" ELSE @[d]]]
         /\ pending' = [pending EXCEPT ![s] =
              [d \in Connections |->
                 IF d \in new \cup flushed THEN <<>>
                 ELSE IF d = Opposite[c] /\ d \in open[s] /\ ~lost
                      THEN Append(@[d], incoming[s][c]) ELSE @[d]]]
    /\ UNCHANGED <<admitted, live>>

Flush(s, c) ==
    /\ pending' = [pending EXCEPT ![s][c] = <<>>]
    /\ UNCHANGED <<admitted, live, open, incoming>>

(* The server's data connection comes, or goes. *)
Accept(s) ==
    /\ "s_data" \in open[s]
    /\ open' = [open EXCEPT ![s] = @ \cup {"s_conn"}]
    /\ incoming' = [incoming EXCEPT ![s]["s_conn"] = "none"]
    /\ pending' = [pending EXCEPT ![s]["s_conn"] = <<>>]
    /\ UNCHANGED <<admitted, live>>

HangUp(s) ==
    /\ "s_conn" \in open[s] /\ incoming[s]["s_conn"] = "none"
    /\ open' = [open EXCEPT ![s] = @ \ {"s_conn"}]
    /\ pending' = [pending EXCEPT ![s]["s_conn"] = <<>>]
    /\ UNCHANGED <<admitted, live, incoming>>

End(s) ==
    /\ live' = live \ {s}
    /\ open' = [open EXCEPT ![s] = {}]
    /\ incoming' = [incoming EXCEPT ![s] = Silent]
    /\ pending' = [pending EXCEPT ![s] = Empty]
    /\ UNCHANGED admitted

Step(s) ==
    \/ \E c \in open[s] : Arrives(s, c) \/ Carry(s, c) \/ Flush(s, c)
    \/ Accept(s) \/ HangUp(s)
    \/ End(s)

Next == Begin \/ Refuse \/ \E s \in live : Step(s)

Spec == Init /\ [][Next]_vars
=============================================================================
