------------------------- MODULE PortCommandProofs -------------------------
(***************************************************************************)
(* What PortCommand promises for every command, host, port and width of    *)
(* the unsigned long.                                                      *)
(***************************************************************************)
EXTENDS PortCommand, SequenceTheorems, TLAPS

-----------------------------------------------------------------------------
(* Arithmetic.                                                             *)

(* A short that holds a byte, and a short that holds a byte times 256.     *)
LEMMA Shorts ==
    ASSUME NEW e \in Octet
    PROVE  /\ Short(0) = 0 /\ Short(e) = e
           /\ Short(e * 256) = IF e < 128 THEN e * 256 ELSE e * 256 - 65536
  <1>1. e \in Int /\ 0 <= e /\ e <= 255
    BY DEF Octet
  <1>2. 0 % 65536 = 0 /\ e % 65536 = e /\ (e * 256) % 65536 = e * 256
    BY <1>1, SMT
  <1> QED
    BY <1>1, <1>2, SMT DEF Short

(* Going through a short leaves what htons makes of the port unchanged.    *)
LEMMA ShortIsHarmless ==
    ASSUME NEW e \in Octet, NEW f \in Octet
    PROVE  /\ Shifted(0, e) = e
           /\ Unsigned(Shifted(Shifted(0, e), f)) = 256 * e + f
           /\ 256 * e + f \in PortNumbers
  <1>1. e \in Int /\ 0 <= e /\ e <= 255 /\ f \in Int /\ 0 <= f /\ f <= 255
    BY DEF Octet
  <1>2. Shifted(0, e) = e
    <2>1. 0 * 256 = 0 /\ Short(0) + e = e
      BY <1>1, Shorts
    <2> QED
      BY <1>1, <2>1, Shorts DEF Shifted
  <1>3. 256 * e + f \in PortNumbers
    BY <1>1, SMT DEF PortNumbers
  <1>4. CASE e < 128
    <2>1. Shifted(e, f) = Short(e * 256 + f)
      BY <1>1, <1>4, Shorts DEF Shifted
    <2>2. (e * 256 + f) % 65536 = e * 256 + f /\ e * 256 + f < 32768
      BY <1>1, <1>4, SMT
    <2>3. Shifted(e, f) = e * 256 + f
      BY <1>1, <2>1, <2>2, SMT DEF Short
    <2>4. Unsigned(Shifted(Shifted(0, e), f)) = 256 * e + f
      BY <1>1, <1>2, <2>2, <2>3, SMT DEF Unsigned
    <2> QED
      BY <1>2, <1>3, <2>4
  <1>5. CASE ~(e < 128)
    <2>1. Shifted(e, f) = Short(e * 256 - 65536 + f)
      BY <1>1, <1>5, Shorts DEF Shifted
    <2>2. /\ (e * 256 - 65536 + f) % 65536 = e * 256 + f
          /\ e * 256 + f >= 32768
      BY <1>1, <1>5, SMT
    <2>3. Shifted(e, f) = (e * 256 + f) - 65536
      BY <1>1, <2>1, <2>2, SMT DEF Short
    <2>4. ((e * 256 + f) - 65536) % 65536 = e * 256 + f
      BY <1>1, <1>5, SMT
    <2>5. Unsigned(Shifted(Shifted(0, e), f)) = 256 * e + f
      BY <1>1, <1>2, <2>3, <2>4, SMT DEF Unsigned
    <2> QED
      BY <1>2, <1>3, <2>5
  <1> QED
    BY <1>4, <1>5

(* A number below 2^16 in base 256.                                        *)
LEMMA BytesOf ==
    ASSUME NEW p \in Int, 0 <= p, p < 65536,
           NEW q \in Int, NEW r \in Int,
           0 <= r, r < 256, 256 * q + r = p
    PROVE  q \in Octet /\ r \in Octet
  BY DEF Octet

(* The two numbers generate_port_command prints.                           *)
LEMMA PortBytes ==
    ASSUME NEW p \in PortNumbers
    PROVE  /\ p \div 256 \in Octet /\ p % 256 \in Octet
           /\ 256 * (p \div 256) + (p % 256) = p
  <1>1. p \in Int /\ 0 <= p /\ p < 65536
    BY DEF PortNumbers
  <1>2. /\ p \div 256 \in Int /\ p % 256 \in Int
        /\ 0 <= p % 256 /\ p % 256 < 256
        /\ 256 * (p \div 256) + (p % 256) = p
    BY <1>1
  <1>3. p \div 256 \in Octet /\ p % 256 \in Octet
    BY <1>1, <1>2, BytesOf
  <1> QED
    BY <1>2, <1>3, Zenon

LEMMA BytesJoined ==
    ASSUME NEW p \in PortNumbers, NEW x, NEW y,
           x = p \div 256, y = p % 256
    PROVE  256 * x + y = p
  BY PortBytes

LEMMA SmallVal ==
    ASSUME NEW f \in Nat, f < Ulong
    PROVE  Val(f) = f
  <1>1. f # Empty
    BY DEF Empty
  <1>2. f % Ulong = f
    BY PortAssumption, SMT
  <1> QED
    BY <1>1, <1>2 DEF Val

LEMMA OctetVal ==
    ASSUME NEW f \in Octet
    PROVE  Val(f) = f
  <1>1. f \in Nat /\ f <= 255
    BY DEF Octet
  <1>2. Ulong \in Nat /\ Ulong > 255
    BY PortAssumption
  <1> QED
    BY <1>1, <1>2, SmallVal

-----------------------------------------------------------------------------
(* What is written reads back.                                             *)

LEMMA NotNegative ==
    ASSUME NEW p \in PortNumbers
    PROVE  p # -1
  BY DEF PortNumbers

LEMMA NotAnAddress == NoAddress \notin Addresses
  <1> SUFFICES ASSUME NoAddress \in Addresses PROVE FALSE
    OBVIOUS
  <1>1. NoAddress.port \in PortNumbers
    BY DEF Addresses
  <1>2. NoAddress.port = -1
    BY DEF NoAddress
  <1> QED
    BY <1>1, <1>2, NotNegative

LEMMA AddressParts ==
    ASSUME NEW a \in Addresses
    PROVE  /\ a.host \in Hosts /\ a.port \in PortNumbers
           /\ a.host = [i \in 1 .. 4 |-> a.host[i]]
           /\ a = [host |-> a.host, port |-> a.port]
  <1>1. a.host \in Hosts /\ a.port \in PortNumbers
        /\ a = [host |-> a.host, port |-> a.port]
    BY DEF Addresses
  <1>2. a.host = [i \in 1 .. 4 |-> a.host[i]]
    BY <1>1 DEF Hosts
  <1> QED
    BY <1>1, <1>2

(* The shape of the command generate_port_command writes.                  *)
LEMMA Written ==
    ASSUME NEW a \in Addresses
    PROVE  LET g == generate_port_command(a)
           IN  /\ g \in Texts
               /\ g.word = "PORT" /\ g.commas /\ ~g.more
               /\ g.line_end = "LF"
               /\ \A i \in 1 .. 4 : g.notation[i] = "decimal"
               /\ Len(g.fields) = 6
               /\ \A i \in 1 .. 6 : g.fields[i] \in Octet
               /\ HostOf(g) = a.host
               /\ g.fields[5] = a.port \div 256
               /\ g.fields[6] = a.port % 256
  <1> DEFINE g == generate_port_command(a)
             f == <<a.host[1], a.host[2], a.host[3], a.host[4],
                    a.port \div 256, a.port % 256>>
             n == [i \in 1 .. 4 |-> "decimal"]
  <1>1. /\ a.host \in Hosts /\ a.port \in PortNumbers
        /\ a.host = [i \in 1 .. 4 |-> a.host[i]]
    BY AddressParts
  <1>2. a.port \div 256 \in Octet /\ a.port % 256 \in Octet
    BY <1>1, PortBytes
  <1>3. \A i \in 1 .. 4 : a.host[i] \in Octet
    BY <1>1 DEF Hosts
  <1>4. g = [word |-> "PORT", commas |-> TRUE, fields |-> f,
             notation |-> n, line_end |-> "LF", more |-> FALSE]
    BY DEF generate_port_command, PortLine
  <1>5. /\ Len(f) = 6
        /\ f[5] = a.port \div 256 /\ f[6] = a.port % 256
        /\ f[1] = a.host[1] /\ f[2] = a.host[2]
        /\ f[3] = a.host[3] /\ f[4] = a.host[4]
    OBVIOUS
  <1>6. Octet \subseteq Fields
    BY DEF Octet, Fields
  <1>7. f \in Seq(Fields)
    BY <1>2, <1>3, <1>6
  <1>12. /\ n \in [1 .. 4 -> Notations]
         /\ \A i \in 1 .. 4 : n[i] = "decimal"
    BY DEF Notations
  <1> HIDE DEF f, g, n
  <1>8. /\ g.word = "PORT" /\ g.commas /\ ~g.more /\ g.line_end = "LF"
        /\ g.fields = f /\ g.notation = n
    BY <1>4
  <1>9. g \in Texts
    BY <1>4, <1>7, <1>12 DEF Texts, Words
  <1>10. \A i \in 1 .. 6 : f[i] \in Octet
    BY <1>2, <1>3, <1>5
  <1>11. HostOf(g) = a.host
    <2>1. \A i \in 1 .. 4 : g.fields[i] = a.host[i]
      BY <1>5, <1>8
    <2> QED
      BY <1>1, <2>1 DEF HostOf
  <1> QED
    BY <1>5, <1>8, <1>9, <1>10, <1>11, <1>12 DEF g

(* The port that comes out of two bytes.                                   *)
LEMMA ParsedPort ==
    ASSUME NEW t, t.fields[5] \in Octet, t.fields[6] \in Octet
    PROVE  /\ PortParsed(t)
           /\ Unsigned(Shifted(Shifted(0, Val(t.fields[5])),
                               Val(t.fields[6])))
                = 256 * t.fields[5] + t.fields[6]
  <1>1. Val(t.fields[5]) = t.fields[5] /\ Val(t.fields[6]) = t.fields[6]
    BY OctetVal
  <1>2. \A e \in Octet : e \in Nat /\ e <= 255
    BY DEF Octet
  <1>3. PortParsed(t)
    BY <1>1, <1>2, ShortIsHarmless DEF PortParsed
  <1> QED
    BY <1>1, <1>3, ShortIsHarmless

(* What inet_aton makes of a number it reads as everyone else does.        *)
LEMMA PlainNumber ==
    ASSUME NEW t, PlainHost(t), NEW i \in 1 .. 4
    PROVE  /\ t.fields[i] \in Octet => inet_aton(t)[i] = t.fields[i]
           /\ inet_aton(t)[i] \in Octet => inet_aton(t)[i] = t.fields[i]
  <1>1. inet_aton(t)[i] = IF t.notation[i] # "octal" THEN t.fields[i]
                          ELSE IF IsOctal(t.fields[i]) THEN Octal(t.fields[i])
                          ELSE Junk
    BY DEF inet_aton
  <1>2. CASE t.notation[i] # "octal"
    BY <1>1, <1>2
  <1>3. CASE t.notation[i] = "octal"
    <2>1. t.fields[i] < 8
      BY <1>3 DEF PlainHost
    <2>2. CASE t.fields[i] \in 0 .. 377
      <3>1. PICK n \in 0 .. 7 : n = t.fields[i]
        BY <2>1, <2>2
      <3>2. IsOctal(n) /\ Octal(n) = n
        BY DEF IsOctal, Octal
      <3> QED
        BY <1>1, <1>3, <3>1, <3>2
    <2>3. CASE t.fields[i] \notin 0 .. 377
      <3>1. inet_aton(t)[i] = Junk
        BY <1>1, <1>3, <2>3 DEF IsOctal
      <3> QED
        BY <2>3, <3>1 DEF Junk, Octet
    <2> QED
      BY <2>2, <2>3
  <1> QED
    BY <1>2, <1>3

LEMMA HostRead ==
    ASSUME NEW t
    PROVE  inet_aton(t) \in Hosts
             <=> \A i \in 1 .. 4 : inet_aton(t)[i] \in Octet
  BY DEF inet_aton, Hosts

(* What a text means is read from it, when it is whole and alone.          *)
LEMMA MeaningParsed ==
    ASSUME NEW t, t.word = "PORT", ~t.more, Means(t) # NoAddress,
           PlainHost(t)
    PROVE  /\ is_port_command(t)
           /\ get_address_from_port_command(t) = Means(t)
  <1>1. /\ t.commas /\ Len(t.fields) = 6
        /\ \A i \in 1 .. 6 : t.fields[i] \in Octet
        /\ Means(t) = [host |-> HostOf(t),
                       port |-> 256 * t.fields[5] + t.fields[6]]
    BY DEF Means
  <1>2. \A i \in 1 .. 5 : t.fields[i] \notin {Junk, Empty}
    <2>1. \A e \in Octet : e \notin {Junk, Empty}
      BY DEF Octet, Junk, Empty
    <2> QED
      BY <1>1, <2>1
  <1>3. is_port_command(t)
    BY <1>1, <1>2 DEF is_port_command
  <1>4. t.fields[5] \in Octet /\ t.fields[6] \in Octet
    BY <1>1
  <1>5. /\ PortParsed(t)
        /\ Unsigned(Shifted(Shifted(0, Val(t.fields[5])), Val(t.fields[6])))
             = 256 * t.fields[5] + t.fields[6]
    BY <1>4, ParsedPort
  <1>6. \A i \in 1 .. 4 : inet_aton(t)[i] = t.fields[i]
    BY <1>1, PlainNumber
  <1>7. inet_aton(t) \in Hosts
    BY <1>1, <1>6, HostRead
  <1>8. inet_aton(t) = HostOf(t)
    BY <1>6 DEF inet_aton, HostOf
  <1> QED
    BY <1>1, <1>3, <1>5, <1>7, <1>8 DEF get_address_from_port_command

(* The command generate_port_command writes for an address is taken for a  *)
(* PORT command, names that address to any FTP server, and would be read   *)
(* by another proxy as that address: for every host and port.              *)
THEOREM WrittenReadsBack ==
    ASSUME NEW a \in Addresses
    PROVE  /\ is_port_command(generate_port_command(a))
           /\ Means(generate_port_command(a)) = a
           /\ get_address_from_port_command(generate_port_command(a)) = a
  <1> DEFINE g == generate_port_command(a)
  <1>1. /\ g.word = "PORT" /\ g.commas /\ ~g.more
        /\ Len(g.fields) = 6
        /\ \A i \in 1 .. 6 : g.fields[i] \in Octet
        /\ HostOf(g) = a.host
        /\ g.fields[5] = a.port \div 256
        /\ g.fields[6] = a.port % 256
    BY Written
  <1>5. \A i \in 1 .. 4 : g.notation[i] = "decimal"
    BY Written
  <1> HIDE DEF g
  <1>2. /\ a.port \in PortNumbers
        /\ a = [host |-> a.host, port |-> a.port]
    BY AddressParts
  <1>3. Means(g) = a
    <2>1. 256 * g.fields[5] + g.fields[6] = a.port
      BY <1>1, <1>2, BytesJoined
    <2> QED
      BY <1>1, <1>2, <1>5, <2>1 DEF Means
  <1>4. Means(g) # NoAddress /\ PlainHost(g)
    BY <1>3, <1>5, NotAnAddress DEF PlainHost
  <1> QED
    BY <1>1, <1>3, <1>4, MeaningParsed DEF g

-----------------------------------------------------------------------------
(* What the parser makes of any text.                                      *)

LEMMA FieldTypes ==
    ASSUME NEW t \in Texts
    PROVE  t.fields \in Seq(Fields) /\ Len(t.fields) \in Nat
           /\ \A i \in 1 .. Len(t.fields) : t.fields[i] \in Int
  <1>1. t.fields \in Seq(Fields)
    BY DEF Texts
  <1>2. \A i \in 1 .. Len(t.fields) : t.fields[i] \in Fields
    BY <1>1
  <1> QED
    BY <1>1, <1>2 DEF Fields, Hex, Junk, Empty

LEMMA ValIsNat ==
    ASSUME NEW f \in Nat \cup {Empty}
    PROVE  Val(f) \in Nat
  <1>1. CASE f = Empty
    BY <1>1 DEF Val
  <1>2. CASE f # Empty
    <2>1. f \in Nat /\ Ulong \in Nat /\ Ulong > 0
      BY <1>2, PortAssumption
    <2>2. f % Ulong \in Nat
      BY <2>1
    <2> QED
      BY <1>2, <2>2 DEF Val
  <1> QED
    BY <1>1, <1>2

(* A number it accepts, when it fits, is a byte.                           *)
LEMMA AcceptedIsOctet ==
    ASSUME NEW f \in Nat \cup {Empty}, Val(f) <= 255
    PROVE  /\ Val(f) \in Octet
           /\ (f # Empty /\ f < Ulong => f \in Octet)
  <1>1. Val(f) \in Nat
    BY ValIsNat
  <1>2. Val(f) \in Octet
    BY <1>1 DEF Octet
  <1>3. ASSUME f # Empty, f < Ulong PROVE f \in Octet
    BY <1>2, <1>3, SmallVal
  <1> QED
    BY <1>2, <1>3

(* What it returns is an address.                                          *)
LEMMA ParsedType ==
    ASSUME NEW t
    PROVE  get_address_from_port_command(t) \in Addresses \cup {NoAddress}
  <1> DEFINE Accepted == /\ t.commas /\ ~t.more /\ inet_aton(t) \in Hosts
                         /\ PortParsed(t)
  <1>1. CASE Accepted
    <2>1. Val(t.fields[5]) \in Octet /\ Val(t.fields[6]) \in Octet
      BY <1>1, AcceptedIsOctet DEF PortParsed
    <2>2. Unsigned(Shifted(Shifted(0, Val(t.fields[5])), Val(t.fields[6])))
            \in PortNumbers
      BY <2>1, ShortIsHarmless
    <2> QED
      BY <1>1, <2>2 DEF get_address_from_port_command, Addresses
  <1>2. CASE ~Accepted
    BY <1>2 DEF get_address_from_port_command
  <1> QED
    BY <1>1, <1>2

LEMMA DataAddressType ==
    ASSUME NEW t
    PROVE  DataAddress(t) \in Addresses \cup {NoAddress}
  BY ParsedType DEF DataAddress

(* When the host is plain, numbers fit and the last one is there, it is    *)
(* what the text means.                                                    *)
LEMMA ParsedMeans ==
    ASSUME NEW t, Readable(t), DataAddress(t) # NoAddress
    PROVE  DataAddress(t) = Means(t)
  <1>1. /\ Len(t.fields) = 6 /\ t.commas /\ ~t.more
        /\ inet_aton(t) \in Hosts /\ PortParsed(t)
        /\ DataAddress(t) = get_address_from_port_command(t)
    BY DEF DataAddress, is_port_command, get_address_from_port_command
  <1>2. /\ t.fields[6] # Empty
        /\ t.fields[5] < Ulong /\ t.fields[6] < Ulong
        /\ PlainHost(t)
    BY <1>1 DEF Readable
  <1>3. t.fields[5] # Empty
    BY <1>1 DEF PortParsed, Empty
  <1>4. t.fields[5] \in Octet /\ t.fields[6] \in Octet
    BY <1>1, <1>2, <1>3, AcceptedIsOctet DEF PortParsed
  <1>5. Unsigned(Shifted(Shifted(0, Val(t.fields[5])), Val(t.fields[6])))
          = 256 * t.fields[5] + t.fields[6]
    BY <1>4, ParsedPort
  <1>6. \A i \in 1 .. 4 : inet_aton(t)[i] = t.fields[i]
    BY <1>1, <1>2, HostRead, PlainNumber
  <1>7. \A i \in 1 .. 4 : t.fields[i] \in Octet
    BY <1>1, <1>6, HostRead
  <1>8. inet_aton(t) = HostOf(t)
    BY <1>6 DEF inet_aton, HostOf
  <1>9. \A i \in 1 .. 6 : t.fields[i] \in Octet
    BY <1>4, <1>7
  <1>10. \A i \in 1 .. 4 : t.notation[i] # "hex"
    BY <1>2 DEF PlainHost
  <1> QED
    BY <1>1, <1>5, <1>8, <1>9, <1>10 DEF get_address_from_port_command, Means
-----------------------------------------------------------------------------
(* How reads cut a command, and how the server puts it together again.     *)

LEMMA HalvesType ==
    ASSUME NEW f \in Fields, NEW half \in Halves(f)
    PROVE  /\ half[1] \in Fields /\ half[2] \in Fields
           /\ Joined(half[1], half[2]) = f
  <1>1. CASE half = <<Empty, f>>
    BY <1>1 DEF Joined, Fields
  <1>2. CASE half = <<f, Empty>>
    BY <1>2 DEF Joined, Fields
  <1>3. CASE f >= 10 /\ half = <<f \div 10, f % 10>>
    <2>1. f \in Int /\ f >= 10
      BY <1>3 DEF Fields, Hex, Junk, Empty
    <2>2. /\ f \div 10 \in Nat /\ f % 10 \in Nat
          /\ 10 * (f \div 10) + (f % 10) = f
      BY <2>1
    <2>3. half[1] = f \div 10 /\ half[2] = f % 10
      BY <1>3
    <2>4. f \div 10 # Empty /\ f % 10 # Empty
      BY <2>2 DEF Empty
    <2>5. Joined(half[1], half[2]) = 10 * (f \div 10) + (f % 10)
      BY <2>3, <2>4, Zenon DEF Joined
    <2> QED
      BY <2>2, <2>3, <2>5 DEF Fields
  <1> QED
    BY <1>1, <1>2, <1>3 DEF Halves

(* The fields of a cut command, put together again.                        *)
LEMMA CutAndGlued ==
    ASSUME NEW c \in Texts, NEW k \in 1 .. Len(c.fields),
           NEW half \in Halves(c.fields[k])
    PROVE  LET p == CutAt(c, k, half)[1]
               q == CutAt(c, k, half)[2]
           IN  /\ p \in Texts /\ q \in Texts
               /\ p.line_end = "none" /\ q.word = "rest"
               /\ Glued(p, q).fields = c.fields
               /\ Glued(p, q).commas = c.commas
               /\ Glued(p, q).notation = c.notation
  <1> DEFINE F == c.fields
             n == Len(F)
             front == Append(SubSeq(F, 1, k - 1), half[1])
             back == <<half[2]>> \o SubSeq(F, k + 1, n)
             p == [c EXCEPT !.fields = front, !.line_end = "none",
                            !.more = FALSE]
             q == [c EXCEPT !.word = "rest", !.fields = back]
  <1>1. F \in Seq(Fields) /\ n \in Nat /\ k \in 1 .. n
        /\ \A i \in 1 .. n : F[i] \in Fields
    BY DEF Texts
  <1>2. half[1] \in Fields /\ half[2] \in Fields
        /\ Joined(half[1], half[2]) = F[k]
    BY <1>1, HalvesType
  <1>3. /\ SubSeq(F, 1, k - 1) \in Seq(Fields)
        /\ Len(SubSeq(F, 1, k - 1)) = k - 1
        /\ \A i \in 1 .. k - 1 : SubSeq(F, 1, k - 1)[i] = F[i]
    BY <1>1
  <1>4. /\ SubSeq(F, k + 1, n) \in Seq(Fields)
        /\ Len(SubSeq(F, k + 1, n)) = n - k
        /\ \A i \in 1 .. n - k : SubSeq(F, k + 1, n)[i] = F[k + i]
    BY <1>1
  <1>5. /\ front \in Seq(Fields) /\ Len(front) = k
        /\ front[k] = half[1]
        /\ \A i \in 1 .. k - 1 : front[i] = F[i]
    BY <1>1, <1>2, <1>3
  <1>6. /\ back \in Seq(Fields) /\ Len(back) = n - k + 1
        /\ back[1] = half[2]
        /\ \A i \in 1 .. n - k : back[i + 1] = F[k + i]
    BY <1>1, <1>2, <1>4
  <1>7. CutAt(c, k, half) = <<p, q>>
    BY DEF CutAt
  <1> HIDE DEF front, back
  <1>8. /\ p \in Texts /\ q \in Texts /\ p.fields = front
        /\ q.fields = back /\ p.line_end = "none" /\ q.word = "rest"
        /\ p.commas = c.commas /\ p.notation = c.notation
    BY <1>5, <1>6 DEF Texts, Words
  <1>13. CutAt(c, k, half)[1] = p /\ CutAt(c, k, half)[2] = q
    BY <1>7
  <1> HIDE DEF p, q
  <1> DEFINE left == SubSeq(front, 1, k - 1)
             right == SubSeq(back, 2, n - k + 1)
             most == left \o <<F[k]>>
             whole == most \o right
  <1>9. /\ left \in Seq(Fields) /\ Len(left) = k - 1
        /\ \A i \in 1 .. k - 1 : left[i] = F[i]
    BY <1>1, <1>5
  <1>10. /\ right \in Seq(Fields) /\ Len(right) = n - k
         /\ \A i \in 1 .. n - k : right[i] = F[k + i]
    BY <1>1, <1>6
  <1> HIDE DEF left, right
  <1>11. whole = F
    <2>1. /\ <<F[k]>> \in Seq(Fields) /\ Len(<<F[k]>>) = 1
          /\ <<F[k]>>[1] = F[k]
      BY <1>1
    <2>2. /\ most \in Seq(Fields) /\ Len(most) = k
          /\ \A i \in 1 .. k : most[i] = F[i]
      BY <1>1, <1>9, <2>1, ConcatProperties
    <2> HIDE DEF most
    <2>3. /\ whole \in Seq(Fields) /\ Len(whole) = n
          /\ \A i \in 1 .. n :
               whole[i] = IF i <= k THEN most[i] ELSE right[i - k]
      <3>1. /\ whole \in Seq(Fields) /\ Len(whole) = Len(most) + Len(right)
            /\ \A i \in 1 .. Len(most) + Len(right) :
                 whole[i] = IF i <= Len(most) THEN most[i]
                                             ELSE right[i - Len(most)]
        BY <1>10, <2>2, ConcatProperties
      <3>2. Len(most) = k /\ Len(most) + Len(right) = n
        BY <1>1, <1>10, <2>2
      <3> HIDE DEF whole
      <3> QED
        BY <3>1, <3>2
    <2> HIDE DEF whole
    <2>4. ASSUME NEW i \in 1 .. n PROVE whole[i] = F[i]
      <3>1. CASE i <= k
        BY <1>1, <2>2, <2>3, <3>1
      <3>2. CASE i > k
        <4>1. i - k \in 1 .. n - k /\ k + (i - k) = i
          BY <1>1, <3>2
        <4>2. whole[i] = right[i - k]
          BY <1>1, <2>3, <3>2
        <4> QED
          BY <1>10, <4>1, <4>2
      <3> QED
        BY <1>1, <3>1, <3>2
    <2> QED
      BY <1>1, <2>3, <2>4, SeqEqual
  <1>12. /\ Glued(p, q).fields = whole /\ Glued(p, q).commas = c.commas
         /\ Glued(p, q).notation = c.notation
    <2>1. Joined(p.fields[Len(p.fields)], q.fields[1]) = F[k]
      BY <1>2, <1>5, <1>6, <1>8
    <2>2. /\ SubSeq(p.fields, 1, Len(p.fields) - 1) = left
          /\ SubSeq(q.fields, 2, Len(q.fields)) = right
      BY <1>5, <1>6, <1>8 DEF left, right
    <2>3. Glued(p, q) = [p EXCEPT !.fields = whole]
      BY <1>8, <2>1, <2>2 DEF Glued
    <2> HIDE DEF whole
    <2> QED
      BY <1>8, <2>3 DEF Texts
  <1> QED
    BY <1>8, <1>11, <1>12, <1>13

(* The reads of a command.                                                 *)
LEMMA ReadsShape ==
    ASSUME NEW c \in Commands, NEW reads \in Reads(c)
    PROVE  \/ reads = <<c>>
           \/ \E p, q \in Texts :
                /\ reads = <<p, q>> /\ p.line_end = "none" /\ q.word = "rest"
                /\ Means(Glued(p, q)) = Means(c)
  <1>1. c \in Texts
    BY PortAssumption
  <1>2. CASE reads # <<c>>
    <2>1. PICK k \in 1 .. Len(c.fields) :
            \E half \in Halves(c.fields[k]) : reads = CutAt(c, k, half)
      BY <1>2 DEF Reads
    <2>2. PICK half \in Halves(c.fields[k]) : reads = CutAt(c, k, half)
      BY <2>1
    <2> DEFINE p == CutAt(c, k, half)[1]
               q == CutAt(c, k, half)[2]
    <2>3. reads = <<p, q>>
      BY <2>2 DEF CutAt
    <2>4. /\ p \in Texts /\ q \in Texts
          /\ p.line_end = "none" /\ q.word = "rest"
          /\ Glued(p, q).fields = c.fields
          /\ Glued(p, q).commas = c.commas
          /\ Glued(p, q).notation = c.notation
      BY <1>1, <2>1, CutAndGlued
    <2> HIDE DEF p, q
    <2>5. Means(Glued(p, q)) = Means(c)
      BY <2>4 DEF Means, HostOf
    <2> QED
      BY <2>3, <2>4, <2>5
  <1> QED
    BY <1>2
-----------------------------------------------------------------------------
(* The inductive invariant: how far the reads of the command have come.    *)

Untouched ==
    /\ forwarded = <<>>
    /\ connected = NoAddress /\ listener = NoAddress /\ dialled = NoAddress

(* The read p was handled, and x written to the server for it. *)
Answered(p, x) ==
    /\ connected = DataAddress(p)
    /\ \/ listener = NoAddress /\ x = p
       \/ listener \in Addresses /\ x = generate_port_command(listener)

InOneRead ==
    \/ unread = <<command>> /\ Untouched
    \/ \E x \in Texts : /\ unread = <<>> /\ forwarded = <<x>>
                        /\ Answered(command, x)

CutStage(p, q) ==
    \/ unread = <<p, q>> /\ Untouched
    \/ \E x \in Texts : /\ unread = <<q>> /\ forwarded = <<x>>
                        /\ Answered(p, x)
    \/ \E x \in Texts : /\ unread = <<>> /\ forwarded = <<x, q>>
                        /\ Answered(p, x)

InTwoReads ==
    \E p, q \in Texts :
      /\ p.line_end = "none" /\ q.word = "rest"
      /\ Means(Glued(p, q)) = Means(command)
      /\ CutStage(p, q)

DialledALine == dialled # NoAddress => HasLine /\ dialled = Means(FirstLine)

Typed ==
    /\ command \in Commands
    /\ connected \in Addresses \cup {NoAddress}
    /\ listener \in Addresses \cup {NoAddress}
    /\ dialled \in Addresses \cup {NoAddress}
    /\ ended \in BOOLEAN

IInv == Typed /\ (InOneRead \/ InTwoReads) /\ DialledALine

(* Sequences of one and of two texts.                                      *)
LEMMA Tuples ==
    ASSUME NEW a \in Texts, NEW b \in Texts
    PROVE  /\ <<>> \in Seq(Texts) /\ Len(<<>>) = 0
           /\ <<a>> \in Seq(Texts) /\ Len(<<a>>) = 1 /\ <<a>>[1] = a
           /\ <<a, b>> \in Seq(Texts) /\ Len(<<a, b>>) = 2
           /\ <<a, b>>[1] = a /\ <<a, b>>[2] = b
           /\ Append(<<a>>, b) = <<a, b>>
  <1>1. <<>> \in Seq(Texts) /\ Len(<<>>) = 0
    BY EmptySeq
  <1>2. <<a>> \in Seq(Texts) /\ Len(<<a>>) = 1 /\ <<a>>[1] = a
    OBVIOUS
  <1>3. <<a, b>> \in Seq(Texts) /\ Len(<<a, b>>) = 2
    OBVIOUS
  <1>4. <<a, b>>[1] = a /\ <<a, b>>[2] = b
    OBVIOUS
  <1>5. Append(<<a>>, b) = <<a, b>>
    <2> DEFINE both == Append(<<a>>, b)
    <2>1. /\ both \in Seq(Texts) /\ Len(both) = 2
          /\ both[1] = a /\ both[2] = b
      BY <1>2, AppendProperties
    <2> HIDE DEF both
    <2>2. \A i \in 1 .. 2 : both[i] = <<a, b>>[i]
      BY <1>4, <2>1
    <2>3. both = <<a, b>>
      BY <1>3, <2>1, <2>2, SeqEqual
    <2> QED
      BY <2>3 DEF both
  <1> QED
    BY <1>1, <1>2, <1>3, <1>4, <1>5

LEMMA InitInv == Init => IInv
  <1> SUFFICES ASSUME Init PROVE IInv
    OBVIOUS
  <1>1. Typed /\ DialledALine /\ Untouched
    BY DEF Init, Typed, DialledALine, Untouched
  <1>2. command \in Commands /\ unread \in Reads(command)
    BY DEF Init
  <1>3. CASE unread = <<command>>
    BY <1>1, <1>3 DEF IInv, InOneRead
  <1>4. CASE unread # <<command>>
    <2>1. PICK p, q \in Texts :
            /\ unread = <<p, q>> /\ p.line_end = "none" /\ q.word = "rest"
            /\ Means(Glued(p, q)) = Means(command)
      BY <1>2, <1>4, ReadsShape
    <2>2. CutStage(p, q)
      BY <1>1, <2>1 DEF CutStage
    <2> QED
      BY <1>1, <2>1, <2>2 DEF IInv, InTwoReads
  <1> QED
    BY <1>3, <1>4

(* The first read of a command is handled.                                 *)
LEMMA FirstHandled ==
    ASSUME Typed, Untouched, NEW p \in Texts,
           client_command_received, Head(unread) = p
    PROVE  \E x \in Texts : /\ forwarded' = <<x>> /\ Answered(p, x)'
                            /\ Typed' /\ dialled' = NoAddress
  <1>1. connected' = DataAddress(p)
    BY DEF client_command_received, Untouched
  <1>2. /\ UNCHANGED <<command, dialled, ended>>
        /\ send_packet_to_server(p)
    BY DEF client_command_received
  <1>3. connected' \in Addresses \cup {NoAddress}
    BY <1>1, DataAddressType
  <1>4. CASE Rewritten(p)
    <2>1. PICK port \in Ports :
            /\ listener' = [host |-> HostAddress, port |-> port]
            /\ forwarded' = Append(forwarded, generate_port_command(listener'))
      BY <1>4 DEF Rewritten
    <2>2. listener' \in Addresses
      BY <2>1, PortAssumption DEF Addresses
    <2>3. PICK x \in Texts : x = generate_port_command(listener')
      BY <2>2, Written
    <2>4. forwarded' = <<x>>
      BY <2>1, <2>3 DEF Untouched
    <2>5. Answered(p, x)'
      BY <1>1, <2>2, <2>3 DEF Answered
    <2>6. Typed'
      BY <1>2, <1>3, <2>2 DEF Typed
    <2> QED
      BY <1>2, <2>4, <2>5, <2>6 DEF Untouched
  <1>5. CASE Unchanged(p)
    <2>1. forwarded' = <<p>> /\ listener' = NoAddress
      BY <1>5 DEF Unchanged, Untouched
    <2>2. Answered(p, p)'
      BY <1>1, <2>1 DEF Answered
    <2>3. Typed'
      BY <1>2, <1>3, <2>1 DEF Typed
    <2> QED
      BY <1>2, <2>1, <2>2, <2>3 DEF Untouched
  <1> QED
    BY <1>2, <1>4, <1>5 DEF send_packet_to_server

(* So is the second, which does not start with PORT.                       *)
LEMMA RestHandled ==
    ASSUME Typed, DialledALine, NEW p \in Texts, NEW q \in Texts,
           q.word = "rest", NEW x \in Texts,
           unread = <<q>>, forwarded = <<x>>, Answered(p, x),
           client_command_received
    PROVE  /\ unread' = <<>> /\ forwarded' = <<x, q>> /\ Answered(p, x)'
           /\ Typed' /\ DialledALine' /\ command' = command
  <1>1. Head(unread) = q /\ Tail(unread) = <<>>
    OBVIOUS
  <1>2. ~is_port_command(q)
    BY DEF is_port_command
  <1>3. DataAddress(q) = NoAddress
    BY <1>2 DEF DataAddress
  <1>4. /\ unread' = <<>> /\ connected' = connected
        /\ UNCHANGED <<command, dialled, ended>>
        /\ Unchanged(q)
    BY <1>1, <1>2, <1>3
       DEF client_command_received, send_packet_to_server, Rewritten
  <1>5. forwarded' = <<x, q>> /\ listener' = listener
    <2>1. forwarded' = Append(<<x>>, q) /\ listener' = listener
      BY <1>4 DEF Unchanged
    <2> QED
      BY <2>1, Tuples
  <1>6. Answered(p, x)' /\ Typed'
    BY <1>4, <1>5 DEF Answered, Typed
  <1>7. DialledALine'
    <2>1. SUFFICES ASSUME dialled # NoAddress
                   PROVE  HasLine' /\ dialled = Means(FirstLine')
      BY <1>4 DEF DialledALine
    <2>2. x.line_end \in LineEnds /\ dialled = Means(x)
      <3>1. HasLine /\ dialled = Means(FirstLine)
        BY <2>1 DEF DialledALine
      <3>2. Len(forwarded) = 1 /\ forwarded[1] = x
        OBVIOUS
      <3> QED
        BY <3>1, <3>2 DEF HasLine, FirstLine
    <2>3. forwarded'[1] = x /\ Len(forwarded') = 2
      BY <1>5
    <2>4. HasLine'
      BY <2>3 DEF HasLine
    <2>5. FirstLine' = x
      BY <2>2, <2>3 DEF FirstLine
    <2> QED
      BY <2>2, <2>4, <2>5
  <1> QED
    BY <1>4, <1>5, <1>6, <1>7

LEMMA ReceivedInv ==
    ASSUME IInv, client_command_received
    PROVE  IInv'
  <1>1. /\ command' = command /\ unread # <<>> /\ unread' = Tail(unread)
    BY DEF client_command_received
  <1>2. Typed /\ DialledALine
    BY DEF IInv
  <1>3. CASE InOneRead
    <2>1. unread = <<command>> /\ Untouched
      BY <1>1, <1>3 DEF InOneRead
    <2>2. command \in Texts
      BY <1>2, PortAssumption DEF Typed
    <2>3. Head(unread) = command /\ Tail(unread) = <<>>
      BY <2>1
    <2>4. PICK c \in Texts : c = command
      BY <2>2
    <2>5. Head(unread) = c
      BY <2>3, <2>4
    <2>6. PICK x \in Texts : /\ forwarded' = <<x>> /\ Answered(c, x)'
                             /\ Typed' /\ dialled' = NoAddress
      BY <1>2, <2>1, <2>5, FirstHandled
    <2>7. Answered(command, x)'
      BY <1>1, <2>4, <2>6 DEF Answered
    <2>8. InOneRead'
      BY <1>1, <2>3, <2>6, <2>7 DEF InOneRead
    <2> QED
      BY <2>6, <2>8 DEF IInv, DialledALine
  <1>4. CASE InTwoReads
    <2>1. PICK p, q \in Texts :
            /\ p.line_end = "none" /\ q.word = "rest"
            /\ Means(Glued(p, q)) = Means(command)
            /\ CutStage(p, q)
      BY <1>4 DEF InTwoReads
    <2>2. CASE unread = <<p, q>> /\ Untouched
      <3>1. Head(unread) = p /\ Tail(unread) = <<q>>
        BY <2>2
      <3>2. PICK x \in Texts : /\ forwarded' = <<x>> /\ Answered(p, x)'
                               /\ Typed' /\ dialled' = NoAddress
        BY <1>2, <2>2, <3>1, FirstHandled
      <3>3. CutStage(p, q)'
        BY <1>1, <3>1, <3>2 DEF CutStage
      <3>4. InTwoReads'
        BY <1>1, <2>1, <3>3 DEF InTwoReads
      <3> QED
        BY <3>2, <3>4 DEF IInv, DialledALine
    <2>3. CASE \E x \in Texts : /\ unread = <<q>> /\ forwarded = <<x>>
                                /\ Answered(p, x)
      <3>1. PICK x \in Texts : /\ unread = <<q>> /\ forwarded = <<x>>
                               /\ Answered(p, x)
        BY <2>3
      <3>2. /\ unread' = <<>> /\ forwarded' = <<x, q>> /\ Answered(p, x)'
            /\ Typed' /\ DialledALine'
        BY <1>2, <2>1, <3>1, RestHandled
      <3>3. CutStage(p, q)'
        BY <3>2 DEF CutStage
      <3>4. InTwoReads'
        BY <1>1, <2>1, <3>3 DEF InTwoReads
      <3> QED
        BY <3>2, <3>4 DEF IInv
    <2> QED
      BY <1>1, <2>1, <2>2, <2>3 DEF CutStage
  <1> QED
    BY <1>3, <1>4 DEF IInv

LEMMA ConnectFailsInv ==
    ASSUME IInv, ConnectFails
    PROVE  IInv'
  <1>1. /\ ended' = TRUE
        /\ UNCHANGED <<command, unread, connected, listener, forwarded,
                       dialled>>
    BY DEF ConnectFails
  <1> QED
    BY <1>1 DEF IInv, Typed, InOneRead, InTwoReads, CutStage, Untouched,
                Answered, DialledALine, HasLine, FirstLine

LEMMA MeansType ==
    ASSUME NEW t
    PROVE  Means(t) \in Addresses \cup {NoAddress}
  <1>1. CASE Means(t) # NoAddress
    <2>1. /\ \A i \in 1 .. 6 : t.fields[i] \in Octet
          /\ Means(t) = [host |-> HostOf(t),
                         port |-> 256 * t.fields[5] + t.fields[6]]
      BY <1>1 DEF Means
    <2>2. HostOf(t) \in Hosts
      BY <2>1 DEF HostOf, Hosts
    <2>3. 256 * t.fields[5] + t.fields[6] \in PortNumbers
      BY <2>1, ShortIsHarmless
    <2> QED
      BY <2>1, <2>2, <2>3 DEF Addresses
  <1> QED
    BY <1>1

LEMMA DialsInv ==
    ASSUME IInv, ServerDials
    PROVE  IInv'
  <1>1. /\ dialled = NoAddress /\ HasLine
        /\ Means(FirstLine) # NoAddress
        /\ dialled' = Means(FirstLine)
        /\ UNCHANGED <<command, unread, connected, listener, forwarded, ended>>
    BY DEF ServerDials
  <1>2. Typed'
    BY <1>1, MeansType DEF IInv, Typed
  <1>3. DialledALine'
    BY <1>1 DEF DialledALine, HasLine, FirstLine
  <1>4. ~Untouched
    <2>1. SUFFICES ASSUME Untouched PROVE FALSE
      OBVIOUS
    <2>2. Len(forwarded) = 0
      BY <2>1 DEF Untouched
    <2> QED
      BY <1>1, <2>2 DEF HasLine
  <1>5. \A p, x : Answered(p, x) => Answered(p, x)'
    BY <1>1 DEF Answered
  <1>6. CASE InOneRead
    BY <1>1, <1>2, <1>3, <1>4, <1>5, <1>6 DEF IInv, InOneRead
  <1>7. CASE InTwoReads
    <2>1. \A p, q : CutStage(p, q) => CutStage(p, q)'
      BY <1>1, <1>4, <1>5 DEF CutStage
    <2>2. InTwoReads'
      BY <1>1, <1>7, <2>1 DEF InTwoReads
    <2> QED
      BY <1>2, <1>3, <2>2 DEF IInv
  <1> QED
    BY <1>6, <1>7 DEF IInv

LEMMA NextInv == IInv /\ [Next]_vars => IInv'
  <1> SUFFICES ASSUME IInv, [Next]_vars PROVE IInv'
    OBVIOUS
  <1>1. CASE client_command_received
    BY <1>1, ReceivedInv
  <1>2. CASE ConnectFails
    BY <1>2, ConnectFailsInv
  <1>3. CASE ServerDials
    BY <1>3, DialsInv
  <1>4. CASE UNCHANGED vars
    BY <1>4 DEF vars, IInv, Typed, InOneRead, InTwoReads, CutStage, Untouched,
                Answered, DialledALine, HasLine, FirstLine
  <1> QED
    BY <1>1, <1>2, <1>3, <1>4 DEF Next

LEMMA Invariant == Spec => []IInv
  BY InitInv, NextInv, PTL DEF Spec

-----------------------------------------------------------------------------
(* What follows from it.                                                   *)

(* Where the two reads of a cut command are.                               *)
LEMMA TwoReads ==
    ASSUME InTwoReads
    PROVE  \E p, q, x \in Texts :
             \/ unread = <<p, q>> /\ forwarded = <<>>
             \/ unread = <<q>> /\ forwarded = <<x>>
             \/ unread = <<>> /\ forwarded = <<x, q>>
  <1>1. PICK p, q \in Texts : CutStage(p, q)
    BY DEF InTwoReads
  <1> QED
    BY <1>1 DEF CutStage, Untouched

LEMMA TwoTexts ==
    ASSUME InTwoReads
    PROVE  /\ unread \in Seq(Texts) /\ Len(unread) <= 2
           /\ forwarded \in Seq(Texts) /\ Len(unread) + Len(forwarded) = 2
  <1>1. PICK p, q, x \in Texts :
          \/ unread = <<p, q>> /\ forwarded = <<>>
          \/ unread = <<q>> /\ forwarded = <<x>>
          \/ unread = <<>> /\ forwarded = <<x, q>>
    BY TwoReads
  <1>2. CASE unread = <<p, q>> /\ forwarded = <<>>
    BY <1>2, Tuples
  <1>3. CASE unread = <<q>> /\ forwarded = <<x>>
    BY <1>3, Tuples
  <1>4. CASE unread = <<>> /\ forwarded = <<x, q>>
    BY <1>4, Tuples
  <1> QED
    BY <1>1, <1>2, <1>3, <1>4

LEMMA InvTypes == IInv => TypeOK
  <1> SUFFICES ASSUME IInv PROVE TypeOK
    OBVIOUS
  <1>1. command \in Texts
    BY PortAssumption DEF IInv, Typed
  <1>2. /\ unread \in Seq(Texts) /\ Len(unread) <= 2
        /\ forwarded \in Seq(Texts) /\ Len(forwarded) + Len(unread) <= 2
    <2>1. CASE InOneRead
      <3>1. PICK x \in Texts : \/ unread = <<command>> /\ forwarded = <<>>
                               \/ unread = <<>> /\ forwarded = <<x>>
        BY <1>1, <2>1 DEF InOneRead, Untouched
      <3>2. PICK c \in Texts : c = command
        BY <1>1
      <3>3. CASE unread = <<c>> /\ forwarded = <<>>
        BY <3>3, Tuples
      <3>4. CASE unread = <<>> /\ forwarded = <<x>>
        BY <3>4, Tuples
      <3> QED
        BY <3>1, <3>2, <3>3, <3>4
    <2>2. CASE InTwoReads
      BY <2>2, TwoTexts
    <2> QED
      BY <2>1, <2>2 DEF IInv
  <1> QED
    BY <1>2 DEF IInv, Typed, TypeOK

(* Only a command that came in one read is uncut.                          *)
LEMMA UncutShape ==
    ASSUME IInv, Uncut
    PROVE  InOneRead
  <1>1. SUFFICES ASSUME InTwoReads PROVE FALSE
    BY DEF IInv
  <1>2. Len(unread) + Len(forwarded) = 2
    BY <1>1, TwoTexts
  <1> QED
    BY <1>2 DEF Uncut

LEMMA InvConnects == IInv => ConnectsWhereMeant
  <1> SUFFICES ASSUME IInv, connected # NoAddress, Uncut, Readable(command)
               PROVE  connected = Means(command)
    BY DEF ConnectsWhereMeant
  <1>1. connected = DataAddress(command)
    BY UncutShape DEF InOneRead, Untouched, Answered
  <1> QED
    BY <1>1, ParsedMeans

LEMMA InvProper == IInv => ProperCommandConnects
  <1> SUFFICES ASSUME IInv, unread = <<>>, Uncut, Capitals(command),
                      PlainHost(command)
               PROVE  connected = Means(command)
    BY DEF ProperCommandConnects
  <1>1. connected = DataAddress(command)
    BY UncutShape DEF InOneRead, Answered
  <1> QED
    BY <1>1, MeaningParsed DEF Capitals, DataAddress

(* What follows a line of the proxy's own, when the server waits for CRLF. *)
LEMMA GluedOverLF ==
    ASSUME NEW a \in Addresses, NEW q \in Texts
    PROVE  Means(Glued(generate_port_command(a), q)) = NoAddress
  <1> DEFINE g == generate_port_command(a)
             left == SubSeq(g.fields, 1, 5)
             right == SubSeq(q.fields, 2, Len(q.fields))
             most == left \o <<Junk>>
             whole == most \o right
  <1>1. /\ g \in Texts /\ g.line_end = "LF" /\ Len(g.fields) = 6
    BY Written
  <1>2. /\ g.fields \in Seq(Fields) /\ q.fields \in Seq(Fields)
        /\ Len(q.fields) \in Nat /\ Junk \in Fields
    BY <1>1 DEF Texts, Fields
  <1> HIDE DEF g
  <1>3. left \in Seq(Fields) /\ Len(left) = 5
    BY <1>1, <1>2
  <1>4. right \in Seq(Fields) /\ Len(right) \in Nat
    BY <1>2
  <1>5. Glued(g, q) = [g EXCEPT !.fields = whole]
    <2>1. g.line_end # "none" /\ Len(g.fields) - 1 = 5
      BY <1>1
    <2> QED
      BY <2>1 DEF Glued
  <1> HIDE DEF left, right
  <1>6. most \in Seq(Fields) /\ Len(most) = 6 /\ most[6] = Junk
    <2>1. <<Junk>> \in Seq(Fields) /\ Len(<<Junk>>) = 1 /\ <<Junk>>[1] = Junk
      BY <1>2
    <2>2. /\ most \in Seq(Fields) /\ Len(most) = Len(left) + Len(<<Junk>>)
          /\ \A i \in 1 .. Len(left) + Len(<<Junk>>) :
               most[i] = IF i <= Len(left) THEN left[i]
                                           ELSE <<Junk>>[i - Len(left)]
      BY <1>3, <2>1, ConcatProperties
    <2> HIDE DEF most
    <2>3. most[6] = <<Junk>>[1]
      BY <1>3, <2>1, <2>2
    <2> QED
      BY <1>3, <2>1, <2>2, <2>3
  <1> HIDE DEF most
  <1>7. whole[6] = Junk
    <2>1. \A i \in 1 .. Len(most) + Len(right) :
            whole[i] = IF i <= Len(most) THEN most[i]
                                         ELSE right[i - Len(most)]
      BY <1>4, <1>6, ConcatProperties
    <2>2. 6 \in 1 .. Len(most) + Len(right) /\ 6 <= Len(most)
      BY <1>4, <1>6
    <2> HIDE DEF whole
    <2> QED
      BY <1>6, <2>1, <2>2
  <1> HIDE DEF whole
  <1>8. Glued(g, q).fields[6] = Junk
    BY <1>1, <1>5, <1>7 DEF Texts
  <1>9. Junk \notin Octet
    BY DEF Junk, Octet
  <1>10. Means(Glued(g, q)) = NoAddress
    BY <1>8, <1>9 DEF Means
  <1> QED
    BY <1>10 DEF g

LEMMA InvDials == IInv => ServerDialsListener
  <1> SUFFICES ASSUME IInv, dialled # NoAddress
               PROVE  dialled = IF listener # NoAddress THEN listener
                                                        ELSE Means(command)
    BY DEF ServerDialsListener
  <1>1. HasLine /\ dialled = Means(FirstLine)
    BY DEF IInv, DialledALine
  (* A line of the proxy's own. *)
  <1>2. ASSUME NEW p, NEW x, Answered(p, x), forwarded[1] = x,
               listener # NoAddress,
               Len(forwarded) >= 2 => forwarded[2] \in Texts
        PROVE  dialled = listener
    <2>1. listener \in Addresses /\ x = generate_port_command(listener)
      BY <1>2 DEF Answered
    <2>2. Means(x) = listener
      BY <2>1, WrittenReadsBack
    <2>3. x.line_end \in LineEnds
      <3>1. SUFFICES ASSUME x.line_end \notin LineEnds PROVE FALSE
        OBVIOUS
      <3>2. Len(forwarded) >= 2 /\ FirstLine = Glued(x, forwarded[2])
        BY <1>1, <1>2, <3>1 DEF HasLine, FirstLine
      <3>3. Means(FirstLine) = NoAddress
        BY <1>2, <2>1, <3>2, GluedOverLF
      <3> QED
        BY <1>1, <3>3
    <2> QED
      BY <1>1, <1>2, <2>2, <2>3 DEF FirstLine
  <1>3. CASE InOneRead
    <2>1. PICK x \in Texts : forwarded = <<x>> /\ Answered(command, x)
      BY <1>3 DEF InOneRead, Untouched
    <2>2. Len(forwarded) = 1 /\ forwarded[1] = x
      BY <2>1
    <2>3. CASE listener # NoAddress
      <3>1. ~(Len(forwarded) >= 2)
        BY <2>2
      <3> QED
        BY <1>2, <2>1, <2>2, <2>3, <3>1
    <2>4. CASE listener = NoAddress
      <3>1. x = command
        BY <2>1, <2>4, NotAnAddress DEF Answered
      <3>2. FirstLine = command
        BY <1>1, <2>2, <3>1 DEF HasLine, FirstLine
      <3> QED
        BY <1>1, <2>4, <3>2
    <2> QED
      BY <2>3, <2>4
  <1>4. CASE InTwoReads
    <2>1. PICK p, q \in Texts :
            /\ p.line_end = "none" /\ q.word = "rest"
            /\ Means(Glued(p, q)) = Means(command)
            /\ CutStage(p, q)
      BY <1>4 DEF InTwoReads
    <2>2. PICK x \in Texts : /\ forwarded = <<x>> \/ forwarded = <<x, q>>
                             /\ Answered(p, x)
      BY <2>1 DEF CutStage, Untouched
    <2>3. forwarded[1] = x /\ (Len(forwarded) >= 2 => forwarded[2] \in Texts)
      BY <2>2
    <2>4. CASE listener # NoAddress
      BY <1>2, <2>2, <2>3, <2>4
    <2>5. CASE listener = NoAddress
      <3>1. x = p
        BY <2>2, <2>5, NotAnAddress DEF Answered
      <3>2. forwarded # <<x>>
        <4>1. SUFFICES ASSUME forwarded = <<x>> PROVE FALSE
          OBVIOUS
        <4>2. Len(forwarded) = 1 /\ forwarded[1] = x
          BY <2>2, <4>1, Tuples
        <4> QED
          BY <1>1, <2>1, <3>1, <4>2, PortAssumption DEF HasLine
      <3>3. forwarded = <<p, q>>
        BY <2>2, <3>1, <3>2
      <3>4. FirstLine = Glued(p, q)
        BY <2>1, <3>3, PortAssumption DEF FirstLine
      <3> QED
        BY <1>1, <2>1, <2>5, <3>4
    <2> QED
      BY <2>4, <2>5
  <1> QED
    BY <1>3, <1>4 DEF IInv

(* A read that was not rewritten stands as it was, and one that was is a   *)
(* line that means the listener's address.                                 *)
LEMMA AnsweredText ==
    ASSUME NEW p \in Texts, NEW x \in Texts, Answered(p, x)
    PROVE  x = p \/ (x.line_end = "LF" /\ listener # NoAddress
                       /\ Means(x) # NoAddress)
  <1>1. CASE listener = NoAddress
    BY <1>1, NotAnAddress DEF Answered
  <1>2. CASE listener # NoAddress
    <2>1. listener \in Addresses /\ x = generate_port_command(listener)
      BY <1>2 DEF Answered
    <2>2. x.line_end = "LF" /\ Means(x) = listener
      BY <2>1, Written, WrittenReadsBack
    <2> QED
      BY <1>2, <2>2
  <1> QED
    BY <1>1, <1>2

LEMMA InvLine == IInv => ServerGetsALine
  <1> SUFFICES ASSUME IInv, unread = <<>>, Means(command) # NoAddress,
                      listener # NoAddress => "LF" \in LineEnds
               PROVE  HasLine /\ Means(FirstLine) # NoAddress
    BY DEF ServerGetsALine, OwnLineTaken
  <1>1. command \in Texts
    BY PortAssumption DEF IInv, Typed
  <1>2. CASE InOneRead
    <2>1. PICK x \in Texts : forwarded = <<x>> /\ Answered(command, x)
      BY <1>2 DEF InOneRead
    <2>2. Len(forwarded) = 1 /\ forwarded[1] = x
      BY <2>1
    <2>3. x.line_end \in LineEnds /\ Means(x) # NoAddress
      BY <1>1, <2>1, AnsweredText, PortAssumption DEF IInv, Typed
    <2> QED
      BY <2>2, <2>3 DEF HasLine, FirstLine
  <1>3. CASE InTwoReads
    <2>1. PICK p, q \in Texts :
            /\ p.line_end = "none" /\ Means(Glued(p, q)) = Means(command)
            /\ CutStage(p, q)
      BY <1>3 DEF InTwoReads
    <2>2. PICK x \in Texts : forwarded = <<x, q>> /\ Answered(p, x)
      BY <2>1 DEF CutStage
    <2>3. forwarded[1] = x /\ forwarded[2] = q /\ Len(forwarded) = 2
      BY <2>2
    <2>4. \/ x = p
          \/ x.line_end \in LineEnds /\ Means(x) # NoAddress
      BY <2>1, <2>2, AnsweredText
    <2> QED
      BY <2>1, <2>3, <2>4, PortAssumption DEF HasLine, FirstLine
  <1> QED
    BY <1>2, <1>3 DEF IInv

(* Every address that is connected to, listened on or dialled has a 16-bit *)
(* port, whatever the client wrote (utils.c:230).                          *)
THEOREM TypeCorrect == Spec => []TypeOK
  BY Invariant, InvTypes, PTL

(* The proxy connects to the address a command in one read means, if       *)
(* inet_aton reads the host as FTP does and no number wraps or is missing. *)
THEOREM ConnectionsAreMeant == Spec => []ConnectsWhereMeant
  BY Invariant, InvConnects, PTL

(* The server dials the proxy's listener if there is one, and else what    *)
(* the client asked for, however the command was cut.                      *)
THEOREM ServerDialsTheListener == Spec => []ServerDialsListener
  BY Invariant, InvDials, PTL

(* A command in capitals, alone in its read, whose host inet_aton reads as *)
(* FTP does, is connected for before it is forwarded.                      *)
THEOREM ProperCommandsConnect == Spec => []ProperCommandConnects
  BY Invariant, InvProper, PTL

(* Once the reads of a command that means an address are handled, the      *)
(* server has a line to act on, if it takes the bare LF of the proxy's own *)
(* lines: the part of CommandAnswered that is not about scheduling.        *)
THEOREM TheServerGetsALine == Spec => []ServerGetsALine
  BY Invariant, InvLine, PTL
=============================================================================
