---------------------------- MODULE RelayProofs ----------------------------
(***************************************************************************)
(* What Relay promises for buffers of every size and any number of bytes.  *)
(***************************************************************************)
EXTENDS Relay, SequenceTheorems, TLAPS

-----------------------------------------------------------------------------
(* Ascending sequences put after one another.                              *)

(* What of the source lies in s was sent before what lies in t.            *)
Before(s, t) ==
    \A i \in 1 .. Len(s), j \in 1 .. Len(t) :
        s[i] # 0 /\ t[j] # 0 => s[i] < t[j]

Ordered(d, b, g) ==
    /\ Ascending(d) /\ Ascending(b)
    /\ \A i \in 1 .. Len(d) : d[i] <= g
    /\ \A i \in 1 .. Len(b) : b[i] <= g
    /\ Before(d, b)

(* The elements of two sequences put after one another. *)
LEMMA Concatenation ==
    ASSUME NEW s \in Seq(Nat), NEW t \in Seq(Nat)
    PROVE  /\ s \o t \in Seq(Nat) /\ Len(s \o t) = Len(s) + Len(t)
           /\ \A i \in 1 .. Len(s) : (s \o t)[i] = s[i]
           /\ \A i \in 1 .. Len(t) : (s \o t)[Len(s) + i] = t[i]
  OBVIOUS

(* A sequence is ascending, and stays below what follows it: so are the    *)
(* two together.                                                           *)
LEMMA AscendingConcatenation ==
    ASSUME NEW s \in Seq(Nat), NEW t \in Seq(Nat),
           Ascending(s), Ascending(t), Before(s, t)
    PROVE  Ascending(s \o t)
  <1> DEFINE u == s \o t
  <1>1. /\ u \in Seq(Nat) /\ Len(u) = Len(s) + Len(t)
        /\ \A i \in 1 .. Len(s) : u[i] = s[i]
        /\ \A i \in 1 .. Len(t) : u[Len(s) + i] = t[i]
    BY Concatenation
  <1> HIDE DEF u
  <1>2. \A i \in 1 .. Len(u) : i \in 1 .. Len(s)
                               \/ (i - Len(s) \in 1 .. Len(t)
                                   /\ u[i] = t[i - Len(s)] /\ i > Len(s))
    BY <1>1, SMTT(30)
  <1>3. SUFFICES ASSUME NEW i \in 1 .. Len(u), NEW j \in 1 .. Len(u), i < j,
                        u[i] # 0, u[j] # 0
                 PROVE  u[i] < u[j]
    BY DEF Ascending, u
  <1>4. CASE j \in 1 .. Len(s)
    <2>1. i \in 1 .. Len(s) /\ u[i] = s[i] /\ u[j] = s[j]
      BY <1>1, <1>3, <1>4, SMTT(30)
    <2> QED
      BY <1>3, <1>4, <2>1 DEF Ascending
  <1>5. CASE i \in 1 .. Len(s) /\ j \notin 1 .. Len(s)
    BY <1>1, <1>2, <1>3, <1>5 DEF Before
  <1>6. CASE i \notin 1 .. Len(s)
    <2>1. /\ i - Len(s) \in 1 .. Len(t) /\ u[i] = t[i - Len(s)]
          /\ j - Len(s) \in 1 .. Len(t) /\ u[j] = t[j - Len(s)]
          /\ i - Len(s) < j - Len(s)
      BY <1>1, <1>2, <1>3, <1>6, SMTT(30)
    <2> QED
      BY <1>3, <2>1 DEF Ascending
  <1> QED
    BY <1>4, <1>5, <1>6

(* A bound of both parts bounds the whole. *)
LEMMA BoundedConcatenation ==
    ASSUME NEW s \in Seq(Nat), NEW t \in Seq(Nat), NEW g \in Nat,
           \A i \in 1 .. Len(s) : s[i] <= g,
           \A i \in 1 .. Len(t) : t[i] <= g
    PROVE  \A i \in 1 .. Len(s \o t) : (s \o t)[i] <= g
  <1> SUFFICES ASSUME NEW i \in 1 .. Len(s \o t)
               PROVE  (s \o t)[i] <= g
    OBVIOUS
  <1>1. CASE i \in 1 .. Len(s)
    BY <1>1, Concatenation
  <1>2. CASE i \notin 1 .. Len(s)
    <2>1. i - Len(s) \in 1 .. Len(t)
      BY <1>2, Concatenation
    <2>2. (s \o t)[i] = t[i - Len(s)]
      BY <2>1
    <2> QED
      BY <2>1, <2>2
  <1> QED
    BY <1>1, <1>2

(* What one read puts into a buffer: the bytes read, which follow got, or  *)
(* bytes of the proxy.                                                     *)
Fresh(c, g, n) ==
    \A i \in 1 .. Len(c) : c[i] = 0 \/ (i <= n /\ c[i] = g + i)

LEMMA ReadIsSequence ==
    ASSUME NEW n \in Nat, got \in Nat, got + n <= MaxBytes, MaxBytes \in Nat
    PROVE  /\ BytesRead(n) \in Seq(0 .. MaxBytes)
           /\ Len(BytesRead(n)) = n
           /\ \A i \in 1 .. n : BytesRead(n)[i] = got + i
           /\ Fresh(BytesRead(n), got, n)
  BY DEF BytesRead, Fresh

LEMMA LineIsSequence ==
    ASSUME NEW k \in Nat, NEW n \in Nat, MaxBytes \in Nat
    PROVE  /\ Line(k) \in Seq(0 .. MaxBytes) /\ Len(Line(k)) = k
           /\ Fresh(Line(k), got, n)
  BY DEF Line, Fresh

(* Bytes that follow everything read so far may be put behind it.          *)
LEMMA OrderedAppend ==
    ASSUME NEW d \in Seq(Nat), NEW b \in Seq(Nat), NEW c \in Seq(Nat),
           NEW g \in Nat, NEW n \in Nat,
           Ordered(d, b, g), Fresh(c, g, n)
    PROVE  Ordered(d, b \o c, g + n)
  <1>1. \A i \in 1 .. Len(c) : c[i] \in Nat /\ c[i] <= g + n /\ (c[i] # 0 => g < c[i])
    BY DEF Fresh
  <1>2. Ascending(c)
    BY DEF Fresh, Ascending
  <1>3. \A i \in 1 .. Len(b) : b[i] <= g /\ b[i] <= g + n /\ b[i] \in Nat
    BY DEF Ordered
  <1>4. \A i \in 1 .. Len(d) : d[i] <= g /\ d[i] <= g + n /\ d[i] \in Nat
    BY DEF Ordered
  <1>5. Before(b, c) /\ Before(d, c)
    BY <1>1, <1>3, <1>4, SMTT(30) DEF Before
  <1>6. Ascending(b \o c)
    BY <1>2, <1>5, AscendingConcatenation DEF Ordered
  <1>7. \A i \in 1 .. Len(b \o c) : (b \o c)[i] <= g + n
    BY <1>1, <1>3, BoundedConcatenation
  <1>8. Before(d, b \o c)
    <2>1. /\ Len(b \o c) = Len(b) + Len(c)
          /\ \A i \in 1 .. Len(b) : (b \o c)[i] = b[i]
          /\ \A i \in 1 .. Len(c) : (b \o c)[Len(b) + i] = c[i]
      BY Concatenation
    <2>2. ASSUME NEW i \in 1 .. Len(d), NEW j \in 1 .. Len(b \o c),
                 d[i] # 0, (b \o c)[j] # 0
          PROVE  d[i] < (b \o c)[j]
      <3>1. CASE j \in 1 .. Len(b)
        BY <2>1, <2>2, <3>1 DEF Ordered, Before
      <3>2. CASE j - Len(b) \in 1 .. Len(c)
        <4>1. (b \o c)[j] = c[j - Len(b)]
          BY <2>1, <3>2, <2>2
        <4> QED
          BY <1>5, <2>2, <3>2, <4>1 DEF Before
      <3> QED
        BY <2>1, <2>2, <3>1, <3>2
    <2> QED
      BY <2>2 DEF Before
  <1> QED
    BY <1>4, <1>6, <1>7, <1>8 DEF Ordered

(* A prefix of the buffer. *)
LEMMA Prefix ==
    ASSUME NEW S, NEW b \in Seq(S), NEW k \in Nat, k <= Len(b)
    PROVE  /\ SubSeq(b, 1, k) \in Seq(S) /\ Len(SubSeq(b, 1, k)) = k
           /\ \A i \in 1 .. k : SubSeq(b, 1, k)[i] = b[i]
  OBVIOUS

(* A prefix of the buffer may be put behind what was delivered.            *)
LEMMA OrderedDeliver ==
    ASSUME NEW d \in Seq(Nat), NEW b \in Seq(Nat), NEW g \in Nat,
           NEW k \in Nat, k <= Len(b), Ordered(d, b, g)
    PROVE  Ordered(d \o SubSeq(b, 1, k), <<>>, g)
  <1> DEFINE c == SubSeq(b, 1, k)
  <1>1. c \in Seq(Nat) /\ Len(c) = k /\ \A i \in 1 .. k : c[i] = b[i]
    BY Prefix
  <1> HIDE DEF c
  <1>2. \A i \in 1 .. k : i \in 1 .. Len(b)
    OBVIOUS
  <1>3. Ascending(c) /\ \A i \in 1 .. Len(c) : c[i] <= g
    BY <1>1, <1>2 DEF Ordered, Ascending
  <1>4. Before(d, c)
    BY <1>1, <1>2 DEF Ordered, Before
  <1>5. Ascending(d \o c)
    BY <1>1, <1>3, <1>4, AscendingConcatenation DEF Ordered
  <1>6. \A i \in 1 .. Len(d \o c) : (d \o c)[i] <= g
    BY <1>1, <1>3, BoundedConcatenation DEF Ordered
  <1> QED
    BY <1>5, <1>6 DEF Ordered, Ascending, Before, c

(* Forgetting the buffer keeps the order. *)
LEMMA OrderedDrop ==
    ASSUME NEW d \in Seq(Nat), NEW b \in Seq(Nat), NEW g \in Nat,
           Ordered(d, b, g)
    PROVE  Ordered(d, <<>>, g)
  BY DEF Ordered, Ascending, Before
-----------------------------------------------------------------------------
(* The inductive invariant.  Paced says why a buffer of two reads is       *)
(* enough: a round that brings both events starts with at most one read in *)
(* the buffer and empties it in between or afterwards.                     *)

Paced ==
    mishaps \cap {"late", "cut"} = {}
        => /\ buffer_used <= 2 * ReadSize
           /\ batch = {} => buffer_used <= ReadSize
           /\ "in" \in batch => buffer_used <= ReadSize
           /\ "in" \in batch /\ "out" \notin batch => buffer_used = 0

DataUncut == ForData /\ "late" \notin mishaps => "cut" \notin mishaps

IInv ==
    /\ TypeOK
    /\ Ordered(delivered, buffer, got)
    /\ Lossless
    /\ Paced
    /\ DataUncut
    /\ TeardownLosesOneRead

LEMMA SizeFacts ==
    /\ ReadSize \in Nat /\ ReadSize > 0 /\ DataSize \in Nat /\ DataSize >= 2 * ReadSize
    /\ buffer_size \in Nat /\ buffer_size >= ReadSize
    /\ ForData => buffer_size = DataSize
  BY SizesAssumption DEF buffer_size

LEMMA SameDirection ==
    ASSUME direction' = direction
    PROVE  buffer_size' = buffer_size /\ ForData' = ForData
  BY DEF buffer_size, ForData

(* Sequences of bytes are sequences of numbers. *)
LEMMA BytesAreNumbers ==
    ASSUME TypeOK
    PROVE  /\ buffer \in Seq(Nat) /\ delivered \in Seq(Nat)
           /\ got \in Nat /\ sent \in Nat /\ MaxBytes \in Nat
           /\ Len(buffer) \in Nat /\ Len(buffer) <= buffer_used
           /\ Len(buffer) <= buffer_size
  <1>1. /\ got \in Nat /\ sent \in Nat /\ MaxBytes \in Nat /\ buffer_used \in Nat
    BY SizesAssumption DEF TypeOK
  <1>2. Len(buffer) = Capped
    BY DEF TypeOK
  <1>3. Len(buffer) <= buffer_used /\ Len(buffer) <= buffer_size
    BY <1>1, <1>2, SizeFacts DEF Capped, Lesser
  <1>4. 0 .. MaxBytes \subseteq Nat
    BY <1>1
  <1>5. buffer \in Seq(Nat) /\ delivered \in Seq(Nat)
    BY <1>4, SeqMonotonic DEF TypeOK
  <1> QED
    BY <1>1, <1>3, <1>5

LEMMA InitInv == Init => IInv
  <1> SUFFICES ASSUME Init PROVE IInv
    OBVIOUS
  <1>1. TypeOK
    BY SizesAssumption, SizeFacts DEF Init, TypeOK, Capped, Lesser
  <1>2. Ordered(delivered, buffer, got)
    BY DEF Init, Ordered, Ascending, Before
  <1>3. Lossless /\ Paced /\ DataUncut /\ TeardownLosesOneRead
    BY SizesAssumption DEF Init, Lossless, Paced, DataUncut,
                           TeardownLosesOneRead
  <1> QED
    BY <1>1, <1>2, <1>3 DEF IInv

(* A step that leaves the bytes where they are. *)
LEMMA BytesStay ==
    ASSUME IInv, UNCHANGED <<direction, got, target, buffer, buffer_used, delivered, listed>>,
           mishaps \subseteq mishaps', mishaps' \subseteq mishaps \cup {"late"},
           sent' \in sent .. MaxBytes, source' \in {"up", "fin", "reset", "gone"},
           batch' \subseteq EventKinds, errors' \in 0 .. MaxErrors, running' \in BOOLEAN,
           Paced'
    PROVE  IInv'
  <1>0. buffer_size' = buffer_size /\ ForData' = ForData
    BY SameDirection
  <1>1. TypeOK'
    <2>1. got' \in 0 .. sent' /\ sent' \in 0 .. MaxBytes
      BY SizesAssumption DEF IInv, TypeOK
    <2>2. mishaps' \subseteq Mishaps
      BY DEF IInv, TypeOK, Mishaps
    <2>3. Capped' = Capped
      BY <1>0 DEF Capped
    <2> QED
      BY <2>1, <2>2, <2>3 DEF IInv, TypeOK
  <1>2. Ordered(delivered, buffer, got)'
    BY DEF IInv, Ordered, Ascending, Before
  <1>3. Lossless'
    BY DEF IInv, Lossless
  <1>4. DataUncut' /\ TeardownLosesOneRead'
    BY <1>0 DEF IInv, DataUncut, TeardownLosesOneRead
  <1> QED
    BY <1>1, <1>2, <1>3, <1>4 DEF IInv

(* epoll_wait. *)
LEMMA RoundInv ==
    ASSUME IInv, NEW offered \in SUBSET EventKinds, Round(offered)
    PROVE  IInv'
  <1>1. Paced'
    BY SizesAssumption DEF IInv, TypeOK, Round, Paced
  <1>2. /\ UNCHANGED <<direction, sent, source, errors, got, target, buffer, buffer_used,
                       delivered, listed, running>>
        /\ mishaps \subseteq mishaps' /\ mishaps' \subseteq mishaps \cup {"late"}
        /\ batch' \subseteq EventKinds
    BY DEF Round, stream
  <1>3. sent \in sent .. MaxBytes
    BY SizesAssumption DEF IInv, TypeOK
  <1> QED
    BY <1>1, <1>2, <1>3, BytesStay DEF IInv, TypeOK

(* The rest of a round is given up. *)
LEMMA AbandonInv ==
    ASSUME IInv, RoundAbandoned
    PROVE  IInv'
  <1>1. Paced'
    BY SizesAssumption DEF IInv, TypeOK, RoundAbandoned, Paced, EventKinds
  <1>2. /\ UNCHANGED <<direction, sent, source, got, target, buffer, buffer_used, delivered,
                       listed, running>>
        /\ mishaps \subseteq mishaps' /\ mishaps' \subseteq mishaps \cup {"late"}
        /\ batch' = {} /\ errors' \in 0 .. MaxErrors
    BY SizesAssumption DEF RoundAbandoned, IInv, TypeOK
  <1>3. sent \in sent .. MaxBytes
    BY SizesAssumption DEF IInv, TypeOK
  <1> QED
    BY <1>1, <1>2, <1>3, BytesStay DEF IInv, TypeOK

(* The source sends, ends, or is no longer led to. *)
LEMMA SourceInv ==
    ASSUME IInv, SourceSends \/ SourceEnds \/ server_data_closed \/ SourceReplaced
    PROVE  IInv'
  <1>1. sent \in 0 .. MaxBytes /\ sent \in sent .. MaxBytes /\ MaxBytes \in Nat
    BY SizesAssumption DEF IInv, TypeOK
  <1>2. /\ UNCHANGED <<direction, errors, got, target, buffer, buffer_used, delivered,
                       listed, mishaps, running>>
        /\ source' \in {"up", "fin", "reset", "gone"}
        /\ batch' \in {batch, batch \ {"in"}}
    BY DEF SourceSends, SourceEnds, server_data_closed, SourceReplaced, Takes, IInv, TypeOK
  <1>3. sent' \in sent .. MaxBytes
    BY <1>1 DEF SourceSends, SourceEnds, server_data_closed, SourceReplaced
  <1>4. Paced'
    BY <1>2 DEF IInv, TypeOK, EventKinds, Paced
  <1> QED
    BY <1>2, <1>3, <1>4, BytesStay DEF IInv, TypeOK

(* The buffer is forgotten, with the session or with the socket. *)
LEMMA ForgottenInv ==
    ASSUME IInv, direction' = direction, buffer' = <<>>, buffer_used' = 0,
           got' \in got .. sent, UNCHANGED <<sent, errors, delivered>>,
           source' \in {"up", "fin", "reset", "gone"}, target' \in {"none", "up"},
           batch' \subseteq EventKinds, listed' \in BOOLEAN, running' \in BOOLEAN,
           mishaps \subseteq mishaps',
           mishaps' \subseteq mishaps \cup {"late", "dropped", "rewritten", "replaced"},
           listed' => mishaps' \cap Losses # {},
           TeardownLosesOneRead'
    PROVE  IInv'
  <1>0. buffer_size' = buffer_size /\ ForData' = ForData
    BY SameDirection
  <1>1. TypeOK'
    <2>1. mishaps' \subseteq Mishaps
      BY DEF IInv, TypeOK, Mishaps, Losses
    <2>2. buffer' \in Seq(0 .. MaxBytes) /\ Len(buffer') = 0 /\ Capped' = 0
      BY <1>0, EmptySeq, SizeFacts DEF Capped, Lesser
    <2>3. got' \in 0 .. sent'
      BY SizesAssumption DEF IInv, TypeOK
    <2> QED
      BY <2>1, <2>2, <2>3 DEF IInv, TypeOK
  <1>2. Ordered(delivered, buffer, got)'
    <2>1. Ordered(delivered, <<>>, got) /\ delivered \in Seq(Nat) /\ got \in Nat
      BY BytesAreNumbers, OrderedDrop DEF IInv
    <2>2. \A i \in 1 .. Len(delivered) : delivered[i] <= got'
      BY <2>1, SizesAssumption DEF Ordered, IInv, TypeOK
    <2> QED
      BY <2>1, <2>2 DEF Ordered, Ascending, Before
  <1>3. Lossless'
    BY DEF Lossless
  <1>4. Paced'
    BY SizesAssumption DEF Paced
  <1>5. DataUncut'
    BY <1>0 DEF IInv, DataUncut
  <1> QED
    BY <1>1, <1>2, <1>3, <1>4, <1>5 DEF IInv

(* The session is removed: nothing is lost but what the buffer holds, and  *)
(* that is at most one read when the round still had the source's event,   *)
(* or none, and nothing when it had only that.                             *)
LEMMA RemovalInv ==
    ASSUME IInv, ReadFails \/ SessionEnds
    PROVE  IInv'
  <1>1. /\ session_remove_from_list
        /\ UNCHANGED <<stream, got, target, delivered, running>>
        /\ \/ mishaps' = mishaps /\ ("in" \in batch \/ batch = {})
           \/ mishaps' = mishaps \cup {"late"}
    BY DEF ReadFails, SessionEnds, IInv, TypeOK, EventKinds
  <1>2. listed
    BY DEF ReadFails, SessionEnds
  <1>3. TeardownLosesOneRead'
    <2> SUFFICES ASSUME mishaps' = {}
                 PROVE  got' - Len(delivered') <= ReadSize
      BY DEF TeardownLosesOneRead
    <2>1. mishaps = {} /\ ("in" \in batch \/ batch = {})
      BY <1>1
    <2>2. buffer_used <= ReadSize
      BY <2>1 DEF IInv, Paced
    <2>3. Len(delivered) + Len(buffer) = got
      BY <1>2, <2>1 DEF IInv, Lossless
    <2>4. Len(buffer) <= buffer_used /\ Len(buffer) \in Nat /\ buffer_used \in Nat
      BY BytesAreNumbers DEF IInv, TypeOK
    <2>5. Len(delivered) \in Nat /\ got' = got /\ delivered' = delivered
      BY <1>1, BytesAreNumbers DEF IInv
    <2> QED
      BY <2>2, <2>3, <2>4, <2>5, SizesAssumption
  <1>4. got' \in got .. sent
    BY <1>1, SizesAssumption DEF IInv, TypeOK
  <1> QED
    BY <1>1, <1>3, <1>4, ForgottenInv DEF session_remove_from_list, stream, IInv, TypeOK

LEMMA PortFailsInv ==
    ASSUME IInv, PortFails
    PROVE  IInv'
  <1>1. got' \in got .. sent
    BY SizesAssumption DEF IInv, TypeOK, PortFails, Arrived, ReadLimit
  <1>2. TeardownLosesOneRead'
    BY DEF PortFails, TeardownLosesOneRead
  <1> QED
    BY <1>1, <1>2, ForgottenInv DEF PortFails, session_remove_from_list, stream, IInv, TypeOK

(* The target, or the target's pointer, is a new one. *)
LEMMA ReplacedInv ==
    ASSUME IInv, TargetReplaced \/ UploadRewritten
    PROVE  IInv'
  <1>1. got' \in got .. sent
    <2>1. sent \in Nat /\ got \in 0 .. sent /\ ReadSize \in Nat
      BY SizesAssumption DEF IInv, TypeOK
    <2>2. CASE UploadRewritten
      <3>1. PICK n \in 1 .. ReadSize : n <= sent - got /\ got' = got + n
        BY <2>2 DEF UploadRewritten, Reads, Arrived, ReadLimit
      <3> QED
        BY <2>1, <3>1
    <2>3. CASE TargetReplaced
      BY <2>1, <2>3 DEF TargetReplaced
    <2> QED
      BY <2>2, <2>3
  <1>2. /\ mishaps \subseteq mishaps' /\ "replaced" \in mishaps'
        /\ mishaps' \subseteq mishaps \cup {"rewritten", "replaced"}
    BY DEF TargetReplaced, UploadRewritten
  <1>3. TeardownLosesOneRead' /\ mishaps' \cap Losses # {}
    BY <1>2 DEF TeardownLosesOneRead, Losses
  <1>4. /\ direction' = direction /\ buffer' = <<>> /\ buffer_used' = 0
        /\ UNCHANGED <<sent, errors, delivered>> /\ target' = "up"
        /\ listed' = listed /\ batch' \subseteq EventKinds /\ running' \in BOOLEAN
        /\ source' \in {source, "gone"}
    BY DEF TargetReplaced, UploadRewritten, Reads, Takes, stream, IInv, TypeOK
  <1> QED
    BY <1>1, <1>2, <1>3, <1>4, ForgottenInv DEF IInv, TypeOK

(* The n bytes read, or a line in their place, behind what is buffered.    *)
Puts(n, c, marks) ==
    /\ Reads(n) /\ n \in 1 .. ReadLimit
    /\ c \in Seq(0 .. MaxBytes) /\ Len(c) <= ReadSize /\ Fresh(c, got, n)
    /\ \/ marks = {} /\ c = BytesRead(n) /\ Len(c) = n
       \/ marks = {"rewritten"}
    /\ UNCHANGED <<stream, target, delivered, listed>>

LEMMA PutFacts ==
    ASSUME IInv, NEW n, NEW c, NEW marks, Puts(n, c, marks)
    PROVE  /\ n \in Nat /\ n > 0 /\ n <= ReadSize /\ got' = got + n
           /\ got' \in 0 .. sent' /\ c \in Seq(Nat) /\ Len(c) \in Nat
           /\ batch' \subseteq EventKinds /\ "in" \in batch /\ batch' = batch \ {"in"}
           /\ marks \subseteq {"rewritten"}
           /\ direction' = direction
  <1>1. /\ n \in Nat /\ n > 0 /\ n <= ReadSize /\ got' = got + n /\ got' \in 0 .. sent'
    BY SizesAssumption DEF Puts, IInv, TypeOK, ReadLimit, Reads, Arrived, stream
  <1>2. c \in Seq(Nat) /\ Len(c) \in Nat
    <2>1. 0 .. MaxBytes \subseteq Nat
      BY SizesAssumption
    <2>2. c \in Seq(0 .. MaxBytes)
      BY DEF Puts
    <2>3. c \in Seq(Nat)
      BY <2>1, <2>2, SeqMonotonic
    <2> QED
      BY <2>3
  <1> QED
    BY <1>1, <1>2 DEF Puts, Reads, Takes, IInv, TypeOK, stream

(* Bytes that fit are appended. *)
LEMMA AppendInv ==
    ASSUME IInv, NEW n, NEW c, NEW marks, Puts(n, c, marks), Appended(c, marks)
    PROVE  IInv'
  <1>1. /\ n \in Nat /\ n > 0 /\ n <= ReadSize /\ got' = got + n
        /\ got' \in 0 .. sent' /\ c \in Seq(Nat) /\ Len(c) \in Nat /\ Len(c) <= ReadSize
        /\ "in" \in batch /\ batch' = batch \ {"in"} /\ batch' \subseteq EventKinds
        /\ marks \subseteq {"rewritten"}
        /\ UNCHANGED <<direction, stream, target, delivered, listed>>
    BY PutFacts DEF Puts
  <1>2. /\ Len(c) + buffer_used <= buffer_size /\ buffer' = buffer \o c
        /\ buffer_used' = buffer_used + Len(c) /\ target = "up"
        /\ mishaps' = mishaps \cup marks /\ running' = running
    BY DEF Appended, Fits
  <1>3. buffer_size' = buffer_size /\ ForData' = ForData
    BY <1>1, SameDirection
  <1>4. /\ Len(buffer \o c) = Len(buffer) + Len(c)
        /\ buffer \o c \in Seq(0 .. MaxBytes)
        /\ \A i \in 1 .. Len(buffer) : (buffer \o c)[i] = buffer[i]
        /\ \A i \in 1 .. Len(c) : (buffer \o c)[Len(buffer) + i] = c[i]
    <2>1. buffer \in Seq(0 .. MaxBytes) /\ c \in Seq(0 .. MaxBytes)
      BY DEF IInv, TypeOK, Puts
    <2>2. buffer \o c \in Seq(0 .. MaxBytes)
      BY <2>1, ConcatProperties
    <2> QED
      BY <2>2, <1>1, BytesAreNumbers, Concatenation DEF IInv
  <1>5. Len(buffer) = buffer_used /\ Capped' = buffer_used + Len(c)
    BY <1>1, <1>2, <1>3, SizeFacts DEF IInv, TypeOK, Capped, Lesser
  <1>6. TypeOK'
    <2>1. buffer_used' \in Nat /\ mishaps' \subseteq Mishaps
      BY <1>1, <1>2 DEF IInv, TypeOK, Mishaps, Losses
    <2> QED
      BY <1>1, <1>2, <1>4, <1>5, <2>1 DEF IInv, TypeOK, stream
  <1>7. Ordered(delivered, buffer, got)'
    <2>1. /\ delivered \in Seq(Nat) /\ buffer \in Seq(Nat) /\ got \in Nat
          /\ Ordered(delivered, buffer, got) /\ Fresh(c, got, n)
      BY BytesAreNumbers DEF IInv, Puts
    <2>2. Ordered(delivered, buffer \o c, got + n)
      BY <1>1, <2>1, OrderedAppend
    <2> QED
      BY <2>2, <1>1, <1>2
  <1>8. Lossless'
    <2> SUFFICES ASSUME listed, mishaps' \cap Losses = {}
                 PROVE  /\ Len(delivered) + Len(buffer \o c) = got + n
                        /\ \A i \in 1 .. Len(delivered) : delivered[i] = i
                        /\ \A i \in 1 .. Len(buffer \o c) :
                              (buffer \o c)[i] = Len(delivered) + i
      BY <1>1, <1>2 DEF Lossless
    <2>0. Len(c) = n /\ \A i \in 1 .. n : c[i] = got + i
      <3>1. marks # {"rewritten"}
        BY <1>2 DEF Losses
      <3>2. c = BytesRead(n) /\ Len(c) = n
        BY <3>1 DEF Puts
      <3> QED
        BY <3>2 DEF BytesRead
    <2>1. /\ Len(delivered) + Len(buffer) = got
          /\ \A i \in 1 .. Len(delivered) : delivered[i] = i
          /\ \A i \in 1 .. Len(buffer) : buffer[i] = Len(delivered) + i
      BY <1>2 DEF IInv, Lossless
    <2>1a. Len(delivered) + Len(buffer) = got
      BY <2>1
    <2>2. /\ Len(delivered) \in Nat /\ Len(buffer) \in Nat /\ got \in Nat
      BY BytesAreNumbers DEF IInv
    <2>3. ASSUME NEW i \in 1 .. Len(buffer \o c)
          PROVE  (buffer \o c)[i] = Len(delivered) + i
      <3>1. CASE i <= Len(buffer)
        <4>1. i \in 1 .. Len(buffer)
          BY <1>4, <2>2, <2>3, <3>1
        <4> QED
          BY <1>4, <2>1, <4>1
      <3>2. CASE i > Len(buffer)
        <4>1. i - Len(buffer) \in 1 .. n
          BY <1>1, <1>4, <2>0, <2>2, <2>3, <3>2
        <4>2. (buffer \o c)[Len(buffer) + (i - Len(buffer))]
                 = c[i - Len(buffer)]
          BY <1>4, <2>0, <4>1
        <4>3. c[i - Len(buffer)] = got + (i - Len(buffer))
          BY <2>0, <4>1
        <4>4. i \in Int
          BY <2>3
        <4>5. Len(buffer) + (i - Len(buffer)) = i
          BY <2>2, <4>4
        <4>6. got + (i - Len(buffer)) = Len(delivered) + i
          BY <2>1a, <2>2, <4>4
        <4> QED
          BY <4>2, <4>3, <4>5, <4>6
      <3> QED
        BY <2>2, <2>3, <3>1, <3>2, <1>4, <1>1
    <2>4. Len(delivered) + Len(buffer \o c) = got + n
      <3>1. Len(buffer \o c) = Len(buffer) + n
        BY <1>4, <2>0
      <3> QED
        BY <1>1, <2>1a, <2>2, <3>1
    <2> QED
      BY <2>1, <2>3, <2>4
  <1>9. Paced'
    BY <1>1, <1>2, SizesAssumption DEF IInv, TypeOK, Paced
  <1>10. DataUncut'
    BY <1>1, <1>2, <1>3 DEF IInv, DataUncut
  <1>11. TeardownLosesOneRead'
    BY <1>1, <1>2 DEF Puts, Reads, Takes, TeardownLosesOneRead
  <1> QED
    BY <1>6, <1>7, <1>8, <1>9, <1>10, <1>11 DEF IInv

(* Bytes that do not fit: the block is filled and the rest is cut off.     *)
LEMMA OverrunInv ==
    ASSUME IInv, NEW n, NEW r, NEW marks, Puts(n, r, marks), Overrun(r, marks)
    PROVE  IInv'
  <1>1. /\ n \in Nat /\ n > 0 /\ n <= ReadSize /\ got' = got + n
        /\ got' \in 0 .. sent' /\ r \in Seq(Nat) /\ Len(r) \in Nat /\ Len(r) <= ReadSize
        /\ "in" \in batch /\ batch' = batch \ {"in"} /\ batch' \subseteq EventKinds
        /\ marks \subseteq {"rewritten"}
        /\ UNCHANGED <<direction, stream, target, delivered, listed>>
    BY PutFacts DEF Puts
  <1>2. buffer_size' = buffer_size /\ ForData' = ForData
    BY <1>1, SameDirection
  <1>3. PICK k \in Nat : k = Lesser(Room, Len(r))
    <2>1. Room \in Nat /\ Lesser(Room, Len(r)) \in {Room, Len(r)}
      BY SizeFacts DEF IInv, TypeOK, Room, Lesser
    <2> QED
      BY <1>1, <2>1
  <1>4. k <= Len(r)
    BY <1>1, <1>3, SizeFacts DEF IInv, TypeOK, Room, Lesser
  <1>5. PICK c \in Seq(0 .. MaxBytes) :
           c = SubSeq(r, 1, k) /\ Len(c) = k /\ \A i \in 1 .. k : c[i] = r[i]
    <2>1. r \in Seq(0 .. MaxBytes) /\ k \in Nat /\ k <= Len(r)
      BY <1>4 DEF Puts
    <2>2. /\ SubSeq(r, 1, k) \in Seq(0 .. MaxBytes)
          /\ Len(SubSeq(r, 1, k)) = k
          /\ \A i \in 1 .. k : SubSeq(r, 1, k)[i] = r[i]
      BY <2>1, Prefix
    <2> QED
      BY <2>2
  <1>6. c \in Seq(Nat) /\ Fresh(c, got, n)
    <2>1. 0 .. MaxBytes \subseteq Nat
      BY SizesAssumption
    <2>2. \A i \in 1 .. k : i \in 1 .. Len(r)
      BY <1>1, <1>4
    <2> QED
      BY <1>5, <2>1, <2>2, SeqMonotonic DEF Puts, Fresh
  <1>7. /\ ~(Len(r) + buffer_used <= buffer_size) /\ buffer' = buffer \o c
        /\ buffer_used' = buffer_used + buffer_size /\ target = "up"
        /\ mishaps' = mishaps \cup marks \cup {"cut"} /\ running' \in BOOLEAN
    BY <1>3, <1>5 DEF Overrun, Fits
  <1>8. /\ Len(buffer \o c) = Len(buffer) + k
        /\ buffer \o c \in Seq(0 .. MaxBytes)
    <2>1. buffer \in Seq(0 .. MaxBytes)
      BY DEF IInv, TypeOK
    <2> QED
      BY <2>1, <1>5, ConcatProperties
  <1>9. Len(buffer) + k = buffer_size /\ Capped' = buffer_size
    <2>1. /\ Len(buffer) = Capped /\ buffer_used \in Nat /\ buffer_size \in Nat
          /\ Len(r) \in Nat /\ Len(r) + buffer_used > buffer_size
      BY <1>1, <1>7, SizeFacts DEF IInv, TypeOK
    <2>2. CASE buffer_used < buffer_size
      <3>1. Room = buffer_size - buffer_used /\ Capped = buffer_used
        BY <2>2 DEF Room, Capped, Lesser
      <3>2. k = Room
        BY <1>3, <2>1, <2>2, <3>1 DEF Lesser
      <3>3. Capped' = buffer_size
        BY <1>2, <1>7, <2>1 DEF Capped, Lesser
      <3> QED
        BY <2>1, <3>1, <3>2, <3>3
    <2>3. CASE ~(buffer_used < buffer_size)
      <3>1. Room = 0 /\ Capped = buffer_size
        BY <2>1, <2>3 DEF Room, Capped, Lesser
      <3>2. k = 0
        BY <1>3, <2>1, <3>1 DEF Lesser
      <3>3. Capped' = buffer_size
        BY <1>2, <1>7, <2>1 DEF Capped, Lesser
      <3> QED
        BY <2>1, <3>1, <3>2, <3>3
    <2> QED
      BY <2>2, <2>3
  <1>10. TypeOK'
    <2>1. mishaps' \subseteq Mishaps /\ buffer_used' \in Nat
      BY <1>1, <1>7, SizeFacts DEF IInv, TypeOK, Mishaps, Losses
    <2> QED
      BY <1>1, <1>7, <1>8, <1>9, <2>1 DEF IInv, TypeOK, stream
  <1>11. Ordered(delivered, buffer, got)'
    <2>1. /\ delivered \in Seq(Nat) /\ buffer \in Seq(Nat) /\ got \in Nat
          /\ Ordered(delivered, buffer, got)
      BY BytesAreNumbers DEF IInv
    <2>2. Ordered(delivered, buffer \o c, got + n)
      BY <1>1, <1>6, <2>1, OrderedAppend
    <2> QED
      BY <2>2, <1>1, <1>7
  <1>12. Lossless' /\ Paced' /\ TeardownLosesOneRead'
    BY <1>7 DEF Lossless, Losses, Paced, TeardownLosesOneRead
  <1>13. DataUncut'
    <2> SUFFICES ASSUME ForData, "late" \notin mishaps
                 PROVE  FALSE
      BY <1>2, <1>7 DEF DataUncut
    <2>1. mishaps \cap {"late", "cut"} = {}
      BY DEF IInv, DataUncut
    <2>2. buffer_used <= ReadSize
      BY <1>1, <2>1 DEF IInv, Paced
    <2> QED
      BY <2>2, <1>1, <1>7, SizeFacts DEF IInv, TypeOK
  <1> QED
    BY <1>10, <1>11, <1>12, <1>13 DEF IInv

(* Bytes without a target. *)
LEMMA DropInv ==
    ASSUME IInv, NEW n, NEW c, NEW marks, Puts(n, c, marks), Dropped(marks)
    PROVE  IInv'
  <1>1. /\ got' = got + n /\ n \in Nat /\ got' \in 0 .. sent'
        /\ batch' = batch \ {"in"} /\ batch' \subseteq EventKinds
        /\ marks \subseteq {"rewritten"}
        /\ UNCHANGED <<direction, stream, target, delivered, listed>>
    BY PutFacts DEF Puts
  <1>2. /\ UNCHANGED <<buffer, buffer_used, running>>
        /\ mishaps' = mishaps \cup marks \cup {"dropped"}
        /\ buffer_used = 0
    BY DEF Dropped, IInv, TypeOK
  <1>3. buffer_size' = buffer_size /\ ForData' = ForData
    BY <1>1, SameDirection
  <1>4. TypeOK'
    <2>1. mishaps' \subseteq Mishaps
      BY <1>1, <1>2 DEF IInv, TypeOK, Mishaps, Losses
    <2>2. Capped' = Capped
      BY <1>2, <1>3 DEF Capped
    <2> QED
      BY <1>1, <1>2, <2>1, <2>2 DEF IInv, TypeOK, stream
  <1>5. Ordered(delivered, buffer, got)'
    <2>1. /\ delivered \in Seq(Nat) /\ buffer \in Seq(Nat) /\ got \in Nat
          /\ Ordered(delivered, buffer, got)
      BY BytesAreNumbers DEF IInv
    <2>2. /\ \A i \in 1 .. Len(delivered) : delivered[i] <= got'
          /\ \A i \in 1 .. Len(buffer) : buffer[i] <= got'
      BY <1>1, <2>1 DEF Ordered
    <2> QED
      BY <1>1, <1>2, <2>1, <2>2 DEF Ordered, Ascending, Before
  <1>6. Lossless' /\ TeardownLosesOneRead'
    BY <1>2 DEF Lossless, Losses, TeardownLosesOneRead
  <1>7. Paced'
    BY <1>2, SizesAssumption DEF Paced
  <1>8. DataUncut'
    BY <1>1, <1>2, <1>3 DEF IInv, DataUncut
  <1> QED
    BY <1>4, <1>5, <1>6, <1>7, <1>8 DEF IInv

(* A read reaches the buffer as it is, or as a line. *)
LEMMA ReadInv ==
    ASSUME IInv, session_read_packet \/ PortRewritten
    PROVE  IInv'
  <1>1. ASSUME NEW n \in 1 .. ReadLimit, Reads(n)
        PROVE  n \in Nat /\ got + n <= MaxBytes /\ n <= ReadSize
    BY <1>1, SizesAssumption DEF Reads, Arrived, ReadLimit, IInv, TypeOK
  <1>2. ASSUME NEW n, NEW c, NEW marks, Puts(n, c, marks), session_buffer_write(c, marks)
        PROVE  IInv'
    BY <1>2, AppendInv, OverrunInv, DropInv DEF session_buffer_write
  <1>3. CASE session_read_packet
    <2>1. PICK n \in 1 .. ReadLimit :
             Reads(n) /\ session_buffer_write(BytesRead(n), {})
      BY <1>3 DEF session_read_packet
    <2>2. Puts(n, BytesRead(n), {})
      BY <1>1, <1>3, <2>1, BytesAreNumbers, ReadIsSequence
         DEF Puts, session_read_packet, IInv
    <2> QED
      BY <1>2, <2>1, <2>2
  <1>4. CASE PortRewritten
    <2>1. PICK n \in 1 .. ReadLimit, k \in 1 .. ReadLimit :
             Reads(n) /\ session_buffer_write(Line(k), {"rewritten"})
      BY <1>4 DEF PortRewritten
    <2>2. k \in Nat /\ k <= ReadSize
      BY SizesAssumption DEF ReadLimit
    <2>3. Puts(n, Line(k), {"rewritten"})
      BY <1>1, <1>4, <2>1, <2>2, BytesAreNumbers, LineIsSequence
         DEF Puts, PortRewritten, IInv
    <2> QED
      BY <1>2, <2>1, <2>3
  <1> QED
    BY <1>3, <1>4

(* The buffer is written, or a part of it, and emptied. *)
LEMMA WriteInv ==
    ASSUME IInv, session_write_packet
    PROVE  IInv'
  <1>1. PICK k \in 0 .. Capped :
          /\ delivered' = delivered \o SubSeq(buffer, 1, k)
          /\ mishaps' = IF k < Capped THEN mishaps \cup {"short"} ELSE mishaps
    BY DEF session_write_packet
  <1>2. /\ "out" \in batch /\ batch' = batch \ {"out"}
        /\ buffer' = <<>> /\ buffer_used' = 0
        /\ UNCHANGED <<stream, got, target, listed, running>>
    BY DEF session_write_packet, Takes
  <1>3. k \in Nat /\ k <= Len(buffer) /\ Len(buffer) = Capped
    BY <1>1, BytesAreNumbers DEF IInv, TypeOK
  <1>4. /\ SubSeq(buffer, 1, k) \in Seq(0 .. MaxBytes)
        /\ Len(SubSeq(buffer, 1, k)) = k
        /\ \A i \in 1 .. k : SubSeq(buffer, 1, k)[i] = buffer[i]
    BY <1>3, Prefix DEF IInv, TypeOK
  <1>5. TypeOK'
    <2>1. delivered' \in Seq(0 .. MaxBytes)
      BY <1>1, <1>4, ConcatProperties DEF IInv, TypeOK
    <2>2. mishaps' \subseteq Mishaps /\ batch' \subseteq EventKinds
      BY <1>1, <1>2 DEF IInv, TypeOK, Mishaps, Losses
    <2>3. buffer' \in Seq(0 .. MaxBytes) /\ Len(buffer') = 0 /\ Capped' = 0
      BY <1>2, EmptySeq, SizeFacts, SameDirection DEF Capped, Lesser, stream
    <2> QED
      BY <1>2, <2>1, <2>2, <2>3 DEF IInv, TypeOK, stream
  <1>6. Ordered(delivered, buffer, got)'
    <2>1. Ordered(delivered \o SubSeq(buffer, 1, k), <<>>, got)
      BY <1>3, BytesAreNumbers, OrderedDeliver DEF IInv
    <2> QED
      BY <2>1, <1>1, <1>2
  <1>7. Lossless'
    <2> SUFFICES ASSUME listed, mishaps' \cap Losses = {}
                 PROVE  /\ Len(delivered') + Len(buffer') = got'
                        /\ \A i \in 1 .. Len(delivered') : delivered'[i] = i
                        /\ \A i \in 1 .. Len(buffer') :
                              buffer'[i] = Len(delivered') + i
      BY <1>2 DEF Lossless
    <2>1. k = Len(buffer) /\ mishaps' = mishaps
      <3>1. ~(k < Capped)
        BY <1>1 DEF Losses
      <3> QED
        BY <3>1, <1>1, <1>3, BytesAreNumbers DEF IInv
    <2>2. /\ Len(delivered) + Len(buffer) = got
          /\ \A i \in 1 .. Len(delivered) : delivered[i] = i
          /\ \A i \in 1 .. Len(buffer) : buffer[i] = Len(delivered) + i
      BY <2>1 DEF IInv, Lossless
    <2>3. /\ delivered \in Seq(Nat) /\ buffer \in Seq(Nat)
          /\ Len(delivered) \in Nat /\ Len(buffer) \in Nat
      BY BytesAreNumbers DEF IInv
    <2>4. delivered' = delivered \o buffer
      BY <1>1, <2>1, <2>3, SubSeqFull
    <2>5. /\ Len(delivered') = Len(delivered) + Len(buffer)
          /\ \A i \in 1 .. Len(delivered) : delivered'[i] = delivered[i]
          /\ \A i \in 1 .. Len(buffer) :
                delivered'[Len(delivered) + i] = buffer[i]
      BY <2>3, <2>4, Concatenation
    <2>6. ASSUME NEW i \in 1 .. Len(delivered') PROVE delivered'[i] = i
      <3>1. CASE i \in 1 .. Len(delivered)
        BY <2>2, <2>5, <3>1
      <3>2. CASE i \notin 1 .. Len(delivered)
        <4>1. /\ i - Len(delivered) \in 1 .. Len(buffer)
              /\ Len(delivered) + (i - Len(delivered)) = i
          BY <2>3, <2>5, <2>6, <3>2
        <4>2. delivered'[Len(delivered) + (i - Len(delivered))]
                 = buffer[i - Len(delivered)]
          BY <2>5, <4>1
        <4>3. buffer[i - Len(delivered)]
                 = Len(delivered) + (i - Len(delivered))
          BY <2>2, <4>1
        <4> QED
          BY <4>1, <4>2, <4>3
      <3> QED
        BY <3>1, <3>2
    <2>7. Len(buffer') = 0 /\ Len(delivered') + Len(buffer') = got'
      <3>1. Len(delivered') = got
        BY <2>2, <2>5
      <3>2. Len(buffer') = 0 /\ got' = got /\ got \in Nat
        BY <1>2, BytesAreNumbers DEF IInv
      <3> QED
        BY <3>1, <3>2
    <2> QED
      BY <2>6, <2>7
  <1>8. Paced'
    BY <1>2, SizesAssumption DEF Paced
  <1>9. DataUncut'
    BY <1>1, <1>2, SameDirection DEF IInv, DataUncut, stream
  <1>10. TeardownLosesOneRead'
    BY <1>2 DEF session_write_packet, Takes, TeardownLosesOneRead
  <1> QED
    BY <1>5, <1>6, <1>7, <1>8, <1>9, <1>10 DEF IInv

(* Every step keeps the invariant. *)
LEMMA NextInv == IInv /\ [Next]_vars => IInv'
  <1> SUFFICES ASSUME IInv, [Next]_vars PROVE IInv'
    OBVIOUS
  <1>1. CASE Poll
    BY <1>1, RoundInv DEF Poll
  <1>2. CASE session_read_packet \/ PortRewritten
    BY <1>2, ReadInv
  <1>3. CASE ReadFails \/ SessionEnds
    BY <1>3, RemovalInv
  <1>4. CASE PortFails
    BY <1>4, PortFailsInv
  <1>5. CASE UploadRewritten \/ TargetReplaced
    BY <1>5, ReplacedInv
  <1>6. CASE session_write_packet
    BY <1>6, WriteInv
  <1>7. CASE RoundAbandoned
    BY <1>7, AbandonInv
  <1>8. CASE SourceSends \/ SourceEnds \/ server_data_closed \/ SourceReplaced
    BY <1>8, SourceInv
  <1>9. CASE UNCHANGED vars
    <2>1. sent \in sent .. MaxBytes
      BY SizesAssumption DEF IInv, TypeOK
    <2>2. Paced'
      BY <1>9 DEF IInv, Paced, vars
    <2> QED
      BY <1>9, <2>1, <2>2, BytesStay DEF IInv, TypeOK, vars
  <1> QED
    BY <1>1, <1>2, <1>3, <1>4, <1>5, <1>6, <1>7, <1>8, <1>9
       DEF Next, Handling

LEMMA Invariance == Spec => []IInv
  BY InitInv, NextInv, PTL DEF Spec

-----------------------------------------------------------------------------
(* The types hold for buffers of every size, and what lies in a target's   *)
(* block is never more than buffer_used says or the block holds.           *)
THEOREM TypeCorrect == Spec => []TypeOK
  <1>1. IInv => TypeOK
    BY DEF IInv
  <1> QED
    BY <1>1, Invariance, PTL

(* No byte is delivered twice, out of order, or from nowhere, whatever     *)
(* stops short, overruns or is abandoned.                                  *)
THEOREM BytesStayInOrder == Spec => []InOrder
  <1>1. IInv => InOrder
    BY DEF IInv, InOrder, Ordered
  <1> QED
    BY <1>1, Invariance, PTL

(* A byte that was read is lost only with its session, or in one of five   *)
(* ways: to a short write, to a buffer it does not fit in, for want of a   *)
(* target, to a PORT command written in its place, or with a target that   *)
(* was replaced.                                                           *)
THEOREM NothingElseIsLost == Spec => []Lossless
  <1>1. IInv => Lossless
    BY DEF IInv
  <1> QED
    BY <1>1, Invariance, PTL

(* DATA_BUFFER_SIZE is large enough for a target that is written to every  *)
(* round, for every DATA_BUFFER_SIZE of at least two reads.                *)
THEOREM DataBufferIsLargeEnough == Spec => []DataBufferFits
  <1>1. IInv => DataBufferFits
    BY DEF IInv, DataUncut, Paced, DataBufferFits
  <1> QED
    BY <1>1, Invariance, PTL

(* The end of a session takes one read at most from such a target, unless  *)
(* it is a PORT command that could not be served.                          *)
THEOREM TeardownLosesLittle == Spec => []TeardownLosesOneRead
  <1>1. IInv => TeardownLosesOneRead
    BY DEF IInv
  <1> QED
    BY <1>1, Invariance, PTL
=============================================================================
