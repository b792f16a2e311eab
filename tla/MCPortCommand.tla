--------------------------- MODULE MCPortCommand ---------------------------
(* Hosts, numbers and lengths at and around every limit of the parsers. *)
EXTENDS PortCommand

WrittenAs(w, s, f, n, m) ==
    [word |-> w, commas |-> s, fields |-> f, notation |-> n,
     line_end |-> "CRLF", more |-> m]

Line(w, s, f, m) == WrittenAs(w, s, f, [i \in 1 .. 4 |-> "decimal"], m)

(* The last number of the host as it is written: 07, 08, 010, 0377, 0400   *)
(* and the like, or 0x0 to 0xff.                                           *)
OddlyWritten ==
    {WrittenAs("PORT", TRUE, <<10, 0, 0, n, 4, 21>>,
             [i \in 1 .. 4 |-> IF i = 4 THEN how ELSE "decimal"], FALSE) :
        n \in {0, 7, 8, 10, 100, 255, 256, 377, 400}, how \in Notations}

ClientHosts == {<<10, 0, 0, 7>>, <<10, 0, 0, 256>>, <<10, 0, Hex, 7>>,
          <<10, Junk, 0, 7>>, <<Empty, 0, 0, 7>>}
Numbers == {0, 7, 128, 255, 256, 65537, Hex, Junk, Empty}

MCCommands ==
    {Line(w, s, <<10, 0, 0, 7, e, f>>, m) :
        w \in {"PORT", "port", "after"}, s \in BOOLEAN, m \in BOOLEAN,
        e \in Numbers, f \in Numbers}
    \cup {Line("PORT", TRUE, h \o <<4, 21>>, FALSE) : h \in ClientHosts}
    \cup {Line("PORT", TRUE, <<10, 0, 0, 7, 4>>, FALSE),
          Line("PORT", TRUE, <<10, 0, 0, 7, 4, 21, 9>>, FALSE)}
    \cup OddlyWritten

MCHostAddress == <<192, 168, 0, 1>>
MCPorts == {1, 255, 256, 32768, 65535}
MCLineEnds == {"CRLF", "LF"}
=============================================================================
