--------------------------- MODULE WsClientProofs ---------------------------
(***************************************************************************)
(* Proofs about the Pico's transport, for every size of the headers, every *)
(* limit and whatever the server sends: its types and limits, that one     *)
(* call of send_framed is one message, and that the frames come out of     *)
(* FrameReader as they were sent, however the reads of the socket cut the  *)
(* stream.                                                                 *)
(*                                                                         *)
(* The invariant behind the last one is Backlog: what is under way is made *)
(* of whole pieces.  There are two streams of them, the packets that       *)
(* FrameReader has begun to read and those behind them, and the messages   *)
(* that WSClient has begun to read and those behind them.                  *)
(***************************************************************************)
EXTENDS WsClient, SequenceTheorems, TLAPS

-----------------------------------------------------------------------------
(* The constants.                                                          *)

Bytes == Seq(Nat)

\* What the proofs use of the constants.
LEMMA Constants ==
    /\ Transports \subseteq {"wss", "tcp"}
    /\ HdrLen \in Nat \ {0} /\ ExtLen \in Nat \ {0}
    /\ Small \in 1..125 /\ Small \in Nat /\ Cap \in Nat /\ MaxHead \in Nat \ {0}
    /\ BodyLens \subseteq 0..Cap /\ MaxItems \in Nat /\ MaxSends \in Nat
BY TransportAssumption

-----------------------------------------------------------------------------
(* Sequences of bytes.                                                     *)

\* Two ways to write one sequence as two parts agree if the first parts are as long.
LEMMA SplitUnique ==
    ASSUME NEW p \in Bytes, NEW q \in Bytes, NEW u \in Bytes, NEW v \in Bytes,
           p \o u = q \o v, Len(p) = Len(q)
    PROVE  p = q /\ u = v
<1>1. Len(p) \in Nat /\ Len(u) \in Nat /\ Len(v) \in Nat
  BY LenProperties DEF Bytes
<1>2. /\ Len(p \o u) = Len(p) + Len(u) /\ Len(q \o v) = Len(q) + Len(v)
      /\ \A i \in 1..(Len(p) + Len(u)) :
            (p \o u)[i] = IF i <= Len(p) THEN p[i] ELSE u[i - Len(p)]
      /\ \A i \in 1..(Len(q) + Len(v)) :
            (q \o v)[i] = IF i <= Len(q) THEN q[i] ELSE v[i - Len(q)]
  BY ConcatProperties DEF Bytes
<1>3. Len(u) = Len(v)
  BY <1>1, <1>2
<1>4. \A i \in 1..Len(p) : p[i] = q[i]
  BY <1>1, <1>2
<1>5. ASSUME NEW i \in 1..Len(u) PROVE u[i] = v[i]
  <2>1. i + Len(p) \in 1..(Len(p) + Len(u)) /\ ~(i + Len(p) <= Len(p))
        /\ (i + Len(p)) - Len(p) = i
    BY <1>1
  <2> QED
    BY <1>2, <1>3, <2>1
<1> QED
  BY <1>3, <1>4, <1>5, SeqEqual DEF Bytes

\* What First and Rest cut in two is what there was.
LEMMA CutInTwo ==
    ASSUME NEW s \in Bytes, NEW k \in 0..Len(s)
    PROVE  /\ First(s, k) \in Bytes /\ Rest(s, k) \in Bytes
           /\ Len(First(s, k)) = k /\ First(s, k) \o Rest(s, k) = s
           /\ \A i \in 1..k : First(s, k)[i] = s[i]
<1>1. Len(s) \in Nat /\ \A i \in 1..Len(s) : s[i] \in Nat
  BY LenProperties, ElementOfSeq DEF Bytes
<1>2. /\ First(s, k) \in Bytes
      /\ Len(First(s, k)) = IF 1 <= k THEN k - 1 + 1 ELSE 0
      /\ \A i \in 1..(k - 1 + 1) : First(s, k)[i] = s[1 + i - 1]
  <2>1. \A i \in 1..k : s[i] \in Nat
    BY <1>1
  <2> QED
    BY <2>1, <1>1, SubSeqProperties DEF First, Bytes
<1>3. Rest(s, k) \in Bytes
  <2>1. \A i \in (k + 1)..Len(s) : s[i] \in Nat
    BY <1>1
  <2> QED
    BY <2>1, <1>1, SubSeqProperties DEF Rest, Bytes
<1>4. First(s, k) \o Rest(s, k) = s
  <2>1. 1 \in 1..(Len(s) + 1) /\ k \in (1 - 1)..Len(s) /\ Len(s) \in k..Len(s)
    BY <1>1
  <2>2. SubSeq(s, 1, k) \o SubSeq(s, k + 1, Len(s)) = SubSeq(s, 1, Len(s))
    BY <2>1, ConcatAdjacentSubSeq DEF Bytes
  <2> QED
    BY <2>2, SubSeqFull DEF First, Rest, Bytes
<1> QED
  BY <1>1, <1>2, <1>3, <1>4

\* The length and the bytes of two sequences joined.
LEMMA Joined ==
    ASSUME NEW s \in Bytes, NEW t \in Bytes
    PROVE  /\ s \o t \in Bytes /\ Len(s \o t) = Len(s) + Len(t)
           /\ Len(s) \in Nat /\ Len(t) \in Nat
           /\ \A i \in 1..Len(s) : (s \o t)[i] = s[i]
           /\ \A i \in 1..Len(t) : (s \o t)[Len(s) + i] = t[i]
<1>1. Len(s) \in Nat /\ Len(t) \in Nat
  BY LenProperties DEF Bytes
<1>2. /\ s \o t \in Bytes /\ Len(s \o t) = Len(s) + Len(t)
      /\ \A i \in 1..(Len(s) + Len(t)) :
            (s \o t)[i] = IF i <= Len(s) THEN s[i] ELSE t[i - Len(s)]
  BY ConcatProperties DEF Bytes
<1>3. \A i \in 1..Len(s) : (s \o t)[i] = s[i]
  BY <1>1, <1>2
<1>4. ASSUME NEW i \in 1..Len(t) PROVE (s \o t)[Len(s) + i] = t[i]
  <2>1. /\ Len(s) + i \in 1..(Len(s) + Len(t)) /\ ~(Len(s) + i <= Len(s))
        /\ (Len(s) + i) - Len(s) = i
    BY <1>1
  <2> QED
    BY <1>2, <2>1
<1> QED
  BY <1>1, <1>2, <1>3, <1>4

\* Joining is associative.
LEMMA Assoc ==
    ASSUME NEW s \in Bytes, NEW t \in Bytes, NEW u \in Bytes
    PROVE  (s \o t) \o u = s \o (t \o u)
BY ConcatAssociative DEF Bytes

\* The empty sequence.
LEMMA NoBytes ==
    /\ <<>> \in Bytes /\ Len(<<>>) = 0
    /\ \A s \in Bytes : s \o <<>> = s /\ <<>> \o s = s /\ Len(s) \in Nat
    /\ \A s \in Bytes : Len(s) = 0 <=> s = <<>>
BY EmptySeq, ConcatEmptySeq, LenProperties DEF Bytes

\* Fill(n, b) is n times b.
LEMMA Filled ==
    ASSUME NEW n \in Nat, NEW b \in Nat
    PROVE  /\ Fill(n, b) \in Bytes /\ Len(Fill(n, b)) = n
           /\ \A i \in 1..n : Fill(n, b)[i] = b
BY DEF Fill, Bytes

\* The two bytes a message starts with.
LEMMA Pair ==
    ASSUME NEW a \in Nat, NEW b \in Nat
    PROVE  <<a, b>> \in Bytes /\ Len(<<a, b>>) = 2 /\ <<a, b>>[1] = a /\ <<a, b>>[2] = b
BY DEF Bytes

\* A packet is HdrLen bytes that hold its length, and its body.
LEMMA PacketBytes ==
    ASSUME NEW b \in Bytes
    PROVE  /\ Packet(b) \in Bytes /\ Len(Packet(b)) = HdrLen + Len(b)
           /\ Packet(b) = Fill(HdrLen, Len(b)) \o b
           /\ Fill(HdrLen, Len(b)) \in Bytes /\ Len(Fill(HdrLen, Len(b))) = HdrLen
           /\ Fill(HdrLen, Len(b))[HdrLen] = Len(b)
<1>1. Len(b) \in Nat /\ HdrLen \in Nat /\ HdrLen \in 1..HdrLen
  BY Constants, NoBytes
<1>2. /\ Fill(HdrLen, Len(b)) \in Bytes /\ Len(Fill(HdrLen, Len(b))) = HdrLen
      /\ Fill(HdrLen, Len(b))[HdrLen] = Len(b)
  BY <1>1, Filled
<1> QED
  BY <1>2, Joined DEF Packet

\* A message is bytes.
LEMMA MessageBytes ==
    ASSUME NEW code \in Nat, NEW b \in Bytes
    PROVE  Message(code, b) \in Bytes
<1>1. Len(b) \in Nat /\ ExtMark \in Nat
  BY NoBytes DEF ExtMark
<1>2. <<code, Len(b)>> \o b \in Bytes
  BY <1>1, Pair, Joined
<1>3. <<code, ExtMark>> \o Fill(ExtLen, Len(b)) \o b \in Bytes
  <2>1. <<code, ExtMark>> \in Bytes /\ Fill(ExtLen, Len(b)) \in Bytes
    BY <1>1, Constants, Pair, Filled
  <2> QED
    BY <2>1, Joined
<1> QED
  BY <1>2, <1>3 DEF Message

-----------------------------------------------------------------------------
(* What is under way in a byte stream: packets, or messages, end to end.   *)

HugeHdr == Fill(HdrLen, Cap + 1)

\* A packet as the transport w carries it.
Carried(w, bytes) == IF w THEN Message(Code.frame, bytes) ELSE bytes

\* What else the server may send; some of it only once it is faulty.
Others(w, f) ==
    (IF w THEN {Message(Code.ping, <<>>), Message(Code.ping, <<1>>), Message(Code.pong, <<>>)}
     ELSE {})
    \cup (IF f THEN {Carried(w, HugeHdr)} ELSE {})
    \cup (IF w /\ f THEN {Message(Code.close, <<>>), Message(Code.fragment, <<>>)} ELSE {})

\* p is frame b of s, and a the frame before it, or no frame at all.
Piece(p, a, b, s, w, f) ==
    \/ /\ b = a + 1 /\ b <= Len(s) /\ s[b] \in Bytes /\ Len(s[b]) <= Cap
       /\ p = Carried(w, Packet(s[b]))
    \/ b = a /\ p \in Others(w, f)

\* The suffixes of t, piece by piece, and the frames before each.
Suffixes(n, tl, r, t, a, b, s, w, f) ==
    /\ tl[0] = t /\ tl[n] = <<>> /\ r[0] = a /\ r[n] = b
    /\ \A i \in 0..(n - 1) : \E p \in Bytes :
            Piece(p, r[i], r[i + 1], s, w, f) /\ tl[i] = p \o tl[i + 1]

\* t is made of whole pieces, which carry frames a + 1 to b of s in order.
Backlog(t, a, b, s, w, f) ==
    \E n \in Nat : \E tl \in [0..n -> Bytes], r \in [0..n -> Nat] :
        Suffixes(n, tl, r, t, a, b, s, w, f)

\* Nothing under way carries no frame.
LEMMA BacklogEmpty ==
    ASSUME NEW a \in Nat, NEW s, NEW w, NEW f
    PROVE  Backlog(<<>>, a, a, s, w, f)
<1> DEFINE tl == [i \in 0..0 |-> <<>>]
           r == [i \in 0..0 |-> a]
<1>1. 0 \in Nat /\ 0 \in 0..0 /\ 0..(0 - 1) = {}
  OBVIOUS
<1>2. tl \in [0..0 -> Bytes] /\ r \in [0..0 -> Nat] /\ tl[0] = <<>> /\ r[0] = a
  BY NoBytes
<1>3. Suffixes(0, tl, r, <<>>, a, a, s, w, f)
  BY <1>1, <1>2 DEF Suffixes
<1> QED
  BY <1>1, <1>2, <1>3 DEF Backlog

\* What is under way starts with a whole piece; the rest is made of pieces too.
LEMMA BacklogFirst ==
    ASSUME NEW t \in Bytes, NEW a \in Nat, NEW b \in Nat, NEW s, NEW w, NEW f,
           Backlog(t, a, b, s, w, f), t # <<>>
    PROVE  \E p \in Bytes, u \in Bytes, c \in Nat :
               Piece(p, a, c, s, w, f) /\ t = p \o u /\ Backlog(u, c, b, s, w, f)
<1>1. PICK n \in Nat : \E tl \in [0..n -> Bytes], r \in [0..n -> Nat] :
            Suffixes(n, tl, r, t, a, b, s, w, f)
  BY DEF Backlog
<1>2. PICK tl \in [0..n -> Bytes], r \in [0..n -> Nat] :
            Suffixes(n, tl, r, t, a, b, s, w, f)
  BY <1>1
<1>3. n - 1 \in Nat /\ 0 \in 0..(n - 1) /\ 1 \in 0..n
  <2>1. n # 0
    BY <1>2 DEF Suffixes
  <2> QED
    BY <2>1
<1>4. PICK p \in Bytes : Piece(p, r[0], r[0 + 1], s, w, f) /\ tl[0] = p \o tl[0 + 1]
  BY <1>2, <1>3 DEF Suffixes
<1> DEFINE tl2 == [i \in 0..(n - 1) |-> tl[i + 1]]
           r2 == [i \in 0..(n - 1) |-> r[i + 1]]
<1>5. tl2 \in [0..(n - 1) -> Bytes] /\ r2 \in [0..(n - 1) -> Nat]
  <2>1. \A i \in 0..(n - 1) : i + 1 \in 0..n
    BY <1>3
  <2> QED
    BY <2>1
<1>6. tl2[0] = tl[1] /\ r2[0] = r[1] /\ tl2[n - 1] = <<>> /\ r2[n - 1] = b
  <2>1. n - 1 \in 0..(n - 1) /\ (n - 1) + 1 = n /\ 0 + 1 = 1
    BY <1>3
  <2> QED
    BY <1>2, <1>3, <2>1 DEF Suffixes
<1>7. ASSUME NEW i \in 0..((n - 1) - 1)
      PROVE  \E q \in Bytes :
                Piece(q, r2[i], r2[i + 1], s, w, f) /\ tl2[i] = q \o tl2[i + 1]
  <2>1. i + 1 \in 0..(n - 1) /\ i \in 0..(n - 1)
    BY <1>3
  <2>2. \E q \in Bytes :
            Piece(q, r[i + 1], r[(i + 1) + 1], s, w, f) /\ tl[i + 1] = q \o tl[(i + 1) + 1]
    BY <1>2, <2>1 DEF Suffixes
  <2> QED
    BY <2>1, <2>2
<1>8. Suffixes(n - 1, tl2, r2, tl[1], r[1], b, s, w, f)
  <2> HIDE DEF tl2, r2
  <2> QED
    BY <1>6, <1>7 DEF Suffixes
<1>9. Backlog(tl[1], r[1], b, s, w, f)
  <2> HIDE DEF tl2, r2
  <2> QED
    BY <1>3, <1>5, <1>8 DEF Backlog
<1>10. tl[1] \in Bytes /\ r[1] \in Nat /\ tl[0] = t /\ r[0] = a
  BY <1>2, <1>3 DEF Suffixes
<1>11. 0 + 1 = 1
  OBVIOUS
<1> QED
  BY <1>4, <1>9, <1>10, <1>11

\* A piece behind what is under way.
LEMMA BacklogExtend ==
    ASSUME NEW t \in Bytes, NEW a \in Nat, NEW b \in Nat, NEW c \in Nat,
           NEW s, NEW w, NEW f, NEW p \in Bytes,
           Backlog(t, a, b, s, w, f), Piece(p, b, c, s, w, f)
    PROVE  Backlog(t \o p, a, c, s, w, f)
<1>1. PICK n \in Nat : \E tl \in [0..n -> Bytes], r \in [0..n -> Nat] :
            Suffixes(n, tl, r, t, a, b, s, w, f)
  BY DEF Backlog
<1>2. PICK tl \in [0..n -> Bytes], r \in [0..n -> Nat] :
            Suffixes(n, tl, r, t, a, b, s, w, f)
  BY <1>1
<1> DEFINE tl2 == [i \in 0..(n + 1) |-> IF i <= n THEN tl[i] \o p ELSE <<>>]
           r2 == [i \in 0..(n + 1) |-> IF i <= n THEN r[i] ELSE c]
<1>3. \A i \in 0..n : /\ i \in 0..(n + 1) /\ i <= n
                      /\ tl2[i] = tl[i] \o p /\ r2[i] = r[i]
  OBVIOUS
<1>4. tl2[n + 1] = <<>> /\ r2[n + 1] = c
  OBVIOUS
<1>5. tl2 \in [0..(n + 1) -> Bytes] /\ r2 \in [0..(n + 1) -> Nat]
  <2>1. \A i \in 0..n : tl[i] \o p \in Bytes
    BY Joined
  <2>2. \A i \in 0..(n + 1) : i <= n => i \in 0..n
    OBVIOUS
  <2> QED
    BY <2>1, <2>2, NoBytes
<1> HIDE DEF tl2, r2
<1>6. tl2[0] = t \o p /\ r2[0] = a
  <2>1. 0 \in 0..n /\ tl[0] = t /\ r[0] = a
    BY <1>2 DEF Suffixes
  <2> QED
    BY <1>3, <2>1
<1>7. ASSUME NEW i \in 0..((n + 1) - 1)
      PROVE  \E q \in Bytes :
                Piece(q, r2[i], r2[i + 1], s, w, f) /\ tl2[i] = q \o tl2[i + 1]
  <2>1. i \in 0..n
    OBVIOUS
  <2>2. CASE i = n
    <3>1. tl2[i] = p \o tl2[i + 1]
      <4>1. tl[i] = <<>> /\ tl2[i + 1] = <<>> /\ tl2[i] = tl[i] \o p
        BY <1>2, <1>3, <1>4, <2>1, <2>2 DEF Suffixes
      <4> QED
        BY <4>1, NoBytes
    <3>2. r2[i] = b /\ r2[i + 1] = c
      BY <1>2, <1>3, <1>4, <2>1, <2>2 DEF Suffixes
    <3> QED
      BY <3>1, <3>2
  <2>3. CASE i # n
    <3>1. i \in 0..(n - 1) /\ i + 1 \in 0..n
      BY <2>3
    <3>2. PICK q \in Bytes : Piece(q, r[i], r[i + 1], s, w, f) /\ tl[i] = q \o tl[i + 1]
      BY <1>2, <3>1 DEF Suffixes
    <3>3. tl2[i] = q \o tl2[i + 1]
      <4>1. (q \o tl[i + 1]) \o p = q \o (tl[i + 1] \o p)
        <5>1. tl[i + 1] \in Bytes
          BY <3>1
        <5> QED
          BY <5>1, Assoc
      <4> QED
        BY <1>3, <2>1, <3>1, <3>2, <4>1
    <3> QED
      BY <1>3, <2>1, <3>1, <3>2, <3>3
  <2> QED
    BY <2>2, <2>3
<1>8. Suffixes(n + 1, tl2, r2, t \o p, a, c, s, w, f)
  BY <1>4, <1>6, <1>7 DEF Suffixes
<1>9. n + 1 \in Nat
  OBVIOUS
<1> QED
  BY <1>5, <1>8, <1>9 DEF Backlog

\* A piece stays one when more frames have been sent, or the server is at fault.
LEMMA PieceKept ==
    ASSUME NEW p, NEW a, NEW b, NEW s, NEW w, NEW f, NEW z, NEW g,
           Piece(p, a, b, s, w, f), f => g,
           a \in Nat, b # 0 /\ b <= Len(s) => b <= Len(z) /\ z[b] = s[b]
    PROVE  Piece(p, a, b, z, w, g)
BY DEF Piece, Others

\* More frames sent, or a fault, leaves what was under way as it is.
LEMMA BacklogKept ==
    ASSUME NEW t, NEW a, NEW b, NEW s, NEW w, NEW f, NEW z, NEW g,
           Backlog(t, a, b, s, w, f), f => g,
           \A k \in Nat \ {0} : k <= Len(s) => k <= Len(z) /\ z[k] = s[k]
    PROVE  Backlog(t, a, b, z, w, g)
<1>1. PICK n \in Nat : \E tl \in [0..n -> Bytes], r \in [0..n -> Nat] :
            Suffixes(n, tl, r, t, a, b, s, w, f)
  BY DEF Backlog
<1>2. PICK tl \in [0..n -> Bytes], r \in [0..n -> Nat] :
            Suffixes(n, tl, r, t, a, b, s, w, f)
  BY <1>1
<1>3. ASSUME NEW i \in 0..(n - 1)
      PROVE  \E p \in Bytes :
                Piece(p, r[i], r[i + 1], z, w, g) /\ tl[i] = p \o tl[i + 1]
  <2>1. PICK p \in Bytes : Piece(p, r[i], r[i + 1], s, w, f) /\ tl[i] = p \o tl[i + 1]
    BY <1>2 DEF Suffixes
  <2>2. i + 1 \in 0..n /\ i \in 0..n
    OBVIOUS
  <2>3. /\ r[i] \in Nat
        /\ r[i + 1] # 0 /\ r[i + 1] <= Len(s) => r[i + 1] <= Len(z) /\ z[r[i + 1]] = s[r[i + 1]]
    BY <2>2
  <2>4. Piece(p, r[i], r[i + 1], z, w, g)
    BY <2>1, <2>3, PieceKept
  <2> QED
    BY <2>1, <2>4
<1>4. Suffixes(n, tl, r, t, a, b, z, w, g)
  BY <1>2, <1>3 DEF Suffixes
<1> QED
  BY <1>4 DEF Backlog

-----------------------------------------------------------------------------
(* Types.                                                                  *)

ReaderOK ==
    /\ hdr \in Bytes /\ Len(hdr) <= HdrLen
    /\ body \in Bytes /\ needed \in -1..Cap
    /\ needed = -1 => body = <<>> /\ (pc \in {"idle", "poll"} \cup InSendall => Len(hdr) < HdrLen)
    /\ needed # -1 => Len(hdr) = HdrLen /\ Len(body) < needed
    /\ frames \in Seq(Bytes)

ParserOK ==
    /\ fstate \in {"hdr2", "ext", "body"} /\ partial \in Bytes
    /\ op \in Nat /\ left \in Nat /\ msg \in Bytes /\ recvBuf \in Bytes

OutOK ==
    /\ payload \in Bytes /\ sendBuf \in Bytes
    /\ out \in Bytes /\ meant \in Bytes
    /\ closed \in BOOLEAN /\ clipped \in BOOLEAN /\ sends \in 0..MaxSends

PcOK == pc \in {"upgrade", "refused", "idle", "poll", "failed", "dropped"} \cup InSendall

SocketOK ==
    /\ transport \in Transports /\ stream \in Bytes
    /\ eof \in BOOLEAN /\ faulty \in BOOLEAN
    /\ items \in 0..MaxItems /\ sentIn \in Seq(Bytes)
    /\ head \in Bytes /\ Len(head) <= MaxHead + 1

\* Until the upgrade is accepted nothing behind it has been read.
FreshUpgrade ==
    pc = "upgrade" => Len(head) <= MaxHead /\ FreshReader /\ FreshClient /\ frames = <<>>

\* TypeOK, by the part of the system that holds the variables.
LEMMA TypeParts == TypeOK <=> ReaderOK /\ ParserOK /\ OutOK /\ PcOK /\ SocketOK
BY DEF TypeOK, Byte, Bytes, ReaderOK, ParserOK, OutOK, PcOK, SocketOK

\* The opcodes of RFC 6455.
LEMMA Codes ==
    /\ Code.frame = 2 /\ Code.ping = 9 /\ Code.pong = 10 /\ Code.close = 8
    /\ Code.fragment = 0
    /\ Code.frame \in Nat /\ Code.ping \in Nat /\ Code.pong \in Nat /\ Code.close \in Nat
    /\ Code.fragment \in Nat
BY DEF Code

\* A read returns at most what it is asked for and what there is.
LEMMA LeastOf ==
    ASSUME NEW a \in Int, NEW b \in Nat, NEW k \in 1..Least(a, b)
    PROVE  k \in Nat /\ k >= 1 /\ k <= a /\ k <= b /\ k \in 0..b
BY DEF Least

\* What FrameReader does with a chunk it had room for.
LEMMA TakeType ==
    ASSUME ReaderOK, pc = "poll", NEW chunk \in Bytes, Len(chunk) >= 1, Len(chunk) <= Want,
           Take(chunk)
    PROVE  ReaderOK' /\ pc' \in {"idle", "poll", "failed"}
<1>1. /\ Len(chunk) \in Nat /\ Len(hdr) \in Nat /\ Len(body) \in Nat
      /\ chunk[Len(chunk)] \in Nat
  <2>1. Len(chunk) \in Nat /\ Len(hdr) \in Nat /\ Len(body) \in Nat
    BY NoBytes DEF ReaderOK
  <2> QED
    BY <2>1 DEF Bytes
<1>2. HdrLen \in Nat \ {0} /\ Cap \in Nat
  BY Constants
<1>3. /\ hdr \o chunk \in Bytes /\ Len(hdr \o chunk) = Len(hdr) + Len(chunk)
      /\ body \o chunk \in Bytes /\ Len(body \o chunk) = Len(body) + Len(chunk)
  BY Joined DEF ReaderOK
<1>4. ASSUME NEW b \in Bytes, FrameDone(b)
      PROVE  ReaderOK' /\ pc' \in {"idle", "poll", "failed"}
  <2>1. Append(frames, b) \in Seq(Bytes)
    BY AppendProperties DEF ReaderOK
  <2> QED
    BY <1>2, <1>4, <2>1, NoBytes DEF FrameDone, ReaderOK
<1>5. CASE needed = -1
  <2>1. Len(hdr) + Len(chunk) <= HdrLen /\ body = <<>>
    BY <1>1, <1>2, <1>5 DEF Want, ReaderOK
  <2>2. CASE Len(hdr) + Len(chunk) < HdrLen
    BY <1>1, <1>2, <1>3, <1>5, <2>1, <2>2 DEF Take, ReaderOK
  <2>3. CASE ~(Len(hdr) + Len(chunk) < HdrLen) /\ chunk[Len(chunk)] > Cap
    BY <1>1, <1>2, <1>3, <1>5, <2>1, <2>3 DEF Take, ReaderOK, InSendall
  <2>4. CASE ~(Len(hdr) + Len(chunk) < HdrLen) /\ chunk[Len(chunk)] = 0
    <3>1. FrameDone(<<>>)
      BY <1>1, <1>2, <1>5, <2>4 DEF Take
    <3> QED
      BY <1>4, <3>1, NoBytes
  <2>5. CASE /\ ~(Len(hdr) + Len(chunk) < HdrLen)
             /\ ~(chunk[Len(chunk)] > Cap) /\ chunk[Len(chunk)] # 0
    <3>1. /\ needed' = chunk[Len(chunk)] /\ hdr' = hdr \o chunk
          /\ UNCHANGED <<body, frames, pc>>
      BY <1>5, <2>5 DEF Take
    <3>2. Len(body) = 0
      BY <2>1
    <3>3. needed' \in 1..Cap /\ needed' # -1
      BY <1>1, <1>2, <2>5, <3>1
    <3>4. Len(hdr \o chunk) = HdrLen
      BY <1>1, <1>2, <1>3, <2>1, <2>5
    <3>5. hdr' \in Bytes /\ Len(hdr') = HdrLen /\ body' \in Bytes /\ Len(body') = 0
          /\ frames' \in Seq(Bytes)
      BY <1>3, <3>1, <3>2, <3>4 DEF ReaderOK
    <3> QED
      BY <1>1, <1>2, <3>1, <3>3, <3>5 DEF ReaderOK
  <2> QED
    BY <2>2, <2>3, <2>4, <2>5
<1>6. CASE needed # -1
  <2>1. CASE Len(body) + Len(chunk) = needed
    <3>1. FrameDone(body \o chunk)
      BY <1>6, <2>1 DEF Take
    <3> QED
      BY <1>3, <1>4, <3>1
  <2>2. CASE Len(body) + Len(chunk) # needed
    <3>1. body' = body \o chunk /\ UNCHANGED <<hdr, needed, frames, pc>>
      BY <1>6, <2>2 DEF Take
    <3>2. Len(body) + Len(chunk) < needed
      BY <1>1, <1>6, <2>2 DEF Want, ReaderOK
    <3> QED
      BY <1>1, <1>2, <1>3, <1>6, <3>1, <3>2 DEF ReaderOK
  <2> QED
    BY <2>1, <2>2
<1> QED
  BY <1>5, <1>6

\* A message written, or a part of it.
LEMMA SendType ==
    ASSUME OutOK, NEW b \in Bytes, NEW w, SendMessage(b, w)
    PROVE  out' \in Bytes /\ clipped' \in BOOLEAN
BY Joined DEF SendMessage, OutOK

\* A pong or a close goes out as one more message.
LEMMA ControlType ==
    ASSUME OutOK, NEW code \in Nat, NEW b \in Bytes, NEW w,
           SendControl(code, b, w), closed' \in BOOLEAN
    PROVE  OutOK'
<1>1. Message(code, b) \in Bytes
  BY MessageBytes
<1>2. out' \in Bytes /\ clipped' \in BOOLEAN
  BY <1>1, SendType DEF SendControl
<1>3. meant' \in Bytes
  BY <1>1, Joined DEF SendControl, OutOK
<1> QED
  BY <1>2, <1>3 DEF SendControl, OutOK, sendVars

\* The server's steps keep the types.
LEMMA ServerType ==
    ASSUME TypeOK, ServerSends
    PROVE  SocketOK'
<1>1. SocketOK
  BY TypeParts
<1>2. items' \in 0..MaxItems /\ items + 1 \in Nat
  BY <1>1, Constants DEF ServerSends, SocketOK
<1>3. ASSUME NEW b \in Bytes PROVE Data(b) \in Bytes
  BY <1>3, Codes, MessageBytes DEF Data
<1>4. CASE /\ \E n \in BodyLens :
                LET bytes == Fill(n, items + 1) IN
                /\ stream' = stream \o Data(Packet(bytes))
                /\ sentIn' = Append(sentIn, bytes)
           /\ UNCHANGED <<eof, faulty>>
  <2>1. PICK n \in BodyLens : /\ stream' = stream \o Data(Packet(Fill(n, items + 1)))
                              /\ sentIn' = Append(sentIn, Fill(n, items + 1))
    BY <1>4
  <2>2. Fill(n, items + 1) \in Bytes
    BY <1>2, Constants, Filled
  <2>3. Data(Packet(Fill(n, items + 1))) \in Bytes
    BY <1>3, <2>2, PacketBytes
  <2>4. stream' \in Bytes
    BY <1>1, <2>1, <2>3, Joined DEF SocketOK
  <2>5. sentIn' \in Seq(Bytes)
    BY <1>1, <2>1, <2>2, AppendProperties DEF SocketOK
  <2> QED
    BY <1>1, <1>2, <1>4, <2>4, <2>5 DEF ServerSends, SocketOK
<1>5. CASE /\ stream' = stream \o Data(Fill(HdrLen, Cap + 1))
           /\ faulty' = TRUE
           /\ UNCHANGED <<eof, sentIn>>
  <2>1. Fill(HdrLen, Cap + 1) \in Bytes
    BY Constants, Filled
  <2>2. stream' \in Bytes
    BY <1>1, <1>3, <1>5, <2>1, Joined DEF SocketOK
  <2> QED
    BY <1>1, <1>2, <1>5, <2>2 DEF ServerSends, SocketOK
<1>6. CASE /\ \E kind \in Items \cap {"ping", "pong", "close", "fragment"} :
                /\ \E n \in (IF kind = "ping" THEN 0..1 ELSE {0}) :
                        stream' = stream \o Message(Code[kind], Fill(n, 1))
                /\ faulty' = (faulty \/ kind \in {"close", "fragment"})
           /\ UNCHANGED <<eof, sentIn>>
  <2>1. PICK kind \in Items \cap {"ping", "pong", "close", "fragment"} :
                /\ \E n \in (IF kind = "ping" THEN 0..1 ELSE {0}) :
                        stream' = stream \o Message(Code[kind], Fill(n, 1))
                /\ faulty' = (faulty \/ kind \in {"close", "fragment"})
    BY <1>6
  <2>2. PICK n \in 0..1 : stream' = stream \o Message(Code[kind], Fill(n, 1))
    BY <2>1
  <2>3. Code[kind] \in Nat /\ Fill(n, 1) \in Bytes
    BY Codes, Filled
  <2>4. stream' \in Bytes
    BY <1>1, <2>2, <2>3, MessageBytes, Joined DEF SocketOK
  <2>5. faulty' \in BOOLEAN
    BY <2>1
  <2> QED
    BY <1>1, <1>2, <1>6, <2>4, <2>5 DEF ServerSends, SocketOK
<1>7. CASE eof' = TRUE /\ UNCHANGED <<stream, sentIn, faulty>>
  BY <1>1, <1>2, <1>7 DEF ServerSends, SocketOK
<1> QED
  BY <1>4, <1>5, <1>6, <1>7 DEF ServerSends

\* What is left of the stream after a read, and what was read.
LEMMA ReadType ==
    ASSUME NEW s \in Bytes, NEW want \in Int, NEW k \in 1..Least(want, Len(s))
    PROVE  /\ First(s, k) \in Bytes /\ Rest(s, k) \in Bytes /\ Len(First(s, k)) = k
           /\ First(s, k) \o Rest(s, k) = s
           /\ k \in Nat /\ k >= 1 /\ k <= want
BY NoBytes, LeastOf, CutInTwo

\* A read of WSClient keeps what it holds of a message within the message.
LEMMA PumpType ==
    ASSUME TypeOK, PumpHeader \/ PumpLength \/ PumpBody
    PROVE  ParserOK' /\ SocketOK'
<1>1. ParserOK /\ SocketOK
  BY TypeParts
<1>2. Len(partial) \in Nat /\ ExtLen \in Nat \ {0} /\ left \in Nat
  BY <1>1, Constants, NoBytes DEF ParserOK
<1>3. CASE PumpHeader
  <2>1. PICK k \in 1..Least(2 - Len(partial), Len(stream)) :
            LET got == partial \o First(stream, k) IN
            /\ stream' = Rest(stream, k)
            /\ IF Len(got) < 2 THEN partial' = got /\ UNCHANGED <<fstate, op, left, msg>>
               ELSE /\ partial' = <<>> /\ op' = got[1] /\ msg' = <<>>
                    /\ fstate' = IF got[2] = ExtMark THEN "ext" ELSE "body"
                    /\ left' = IF got[2] = ExtMark THEN 0 ELSE got[2]
    BY <1>3 DEF PumpHeader
  <2> DEFINE got == partial \o First(stream, k)
  <2>2. First(stream, k) \in Bytes /\ Rest(stream, k) \in Bytes
    <3>1. 2 - Len(partial) \in Int /\ ExtLen - Len(partial) \in Int /\ stream \in Bytes
      BY <1>1, <1>2 DEF SocketOK
    <3> QED
      BY <3>1, ReadType
  <2>3. got \in Bytes /\ Len(got) \in Nat
    BY <1>1, <2>2, Joined, NoBytes DEF ParserOK
  <2>4. ~(Len(got) < 2) => got[1] \in Nat /\ got[2] \in Nat
    <3>1. ~(Len(got) < 2) => 1 \in 1..Len(got) /\ 2 \in 1..Len(got)
      BY <2>3
    <3> QED
      BY <2>3, <3>1, ElementOfSeq DEF Bytes
  <2> HIDE DEF got
  <2>5. ParserOK'
    <3>1. CASE Len(got) < 2
      BY <1>1, <1>3, <2>1, <2>3, <3>1 DEF got, PumpHeader, ParserOK
    <3>2. CASE ~(Len(got) < 2)
      <4>1. /\ partial' = <<>> /\ op' = got[1] /\ msg' = <<>>
            /\ fstate' = IF got[2] = ExtMark THEN "ext" ELSE "body"
            /\ left' = IF got[2] = ExtMark THEN 0 ELSE got[2]
        BY <2>1, <3>2 DEF got
      <4> QED
        BY <1>1, <1>3, <2>4, <3>2, <4>1, NoBytes DEF PumpHeader, ParserOK
    <3> QED
      BY <3>1, <3>2
  <2> QED
    BY <1>1, <1>3, <2>1, <2>2, <2>5 DEF PumpHeader, connVars, SocketOK
<1>4. CASE PumpLength
  <2>1. PICK k \in 1..Least(ExtLen - Len(partial), Len(stream)) :
            LET got == partial \o First(stream, k) IN
            /\ stream' = Rest(stream, k)
            /\ IF Len(got) < ExtLen THEN partial' = got /\ UNCHANGED <<fstate, left>>
               ELSE partial' = <<>> /\ left' = got[ExtLen] /\ fstate' = "body"
    BY <1>4 DEF PumpLength
  <2> DEFINE got == partial \o First(stream, k)
  <2>2. First(stream, k) \in Bytes /\ Rest(stream, k) \in Bytes
    <3>1. 2 - Len(partial) \in Int /\ ExtLen - Len(partial) \in Int /\ stream \in Bytes
      BY <1>1, <1>2 DEF SocketOK
    <3> QED
      BY <3>1, ReadType
  <2>3. got \in Bytes /\ Len(got) \in Nat
    BY <1>1, <2>2, Joined, NoBytes DEF ParserOK
  <2>4. ~(Len(got) < ExtLen) => got[ExtLen] \in Nat
    BY <1>2, <2>3 DEF Bytes
  <2> HIDE DEF got
  <2>5. ParserOK'
    BY <1>1, <1>4, <2>1, <2>3, <2>4, NoBytes DEF got, PumpLength, ParserOK
  <2> QED
    BY <1>1, <1>4, <2>1, <2>2, <2>5 DEF PumpLength, connVars, SocketOK
<1>5. CASE PumpBody
  <2>1. PICK k \in 1..Least(left, Len(stream)) :
            /\ stream' = Rest(stream, k)
            /\ msg' = msg \o First(stream, k) /\ left' = left - k
    BY <1>5 DEF PumpBody
  <2>2. First(stream, k) \in Bytes /\ Rest(stream, k) \in Bytes /\ k \in Nat /\ k <= left
    <3>1. left \in Int /\ stream \in Bytes
      BY <1>1, <1>2 DEF SocketOK
    <3> QED
      BY <3>1, ReadType
  <2>3. left' \in Nat /\ msg' \in Bytes
    BY <1>1, <1>2, <2>1, <2>2, Joined DEF ParserOK
  <2>4. ParserOK'
    BY <1>1, <1>5, <2>3 DEF PumpBody, ParserOK
  <2> QED
    BY <1>1, <1>5, <2>1, <2>2, <2>4 DEF PumpBody, connVars, SocketOK
<1> QED
  BY <1>3, <1>4, <1>5

\* So does a message dealt with.
LEMMA MessageType ==
    ASSUME TypeOK, PumpMessage
    PROVE  ParserOK' /\ OutOK' /\ pc' \in {"poll", "idle", "failed"}
<1>1. ParserOK /\ OutOK /\ pc = "poll"
  BY TypeParts DEF PumpMessage, Pumping
<1>2. recvBuf' \in Bytes /\ OutOK' /\ pc' \in {"poll", "idle", "failed"}
  <2>1. CASE op = Code.frame /\ recvBuf' = recvBuf \o msg /\ UNCHANGED <<pc, closed, outVars>>
    BY <1>1, <2>1, Joined DEF ParserOK, OutOK, outVars, sendVars
  <2>2. CASE op = Code.pong /\ UNCHANGED <<pc, closed, recvBuf, outVars>>
    BY <1>1, <2>2 DEF ParserOK, OutOK, outVars, sendVars
  <2>3. CASE /\ op = Code.ping
             /\ \E w \in Writes :
                  /\ SendControl(Code.pong, msg, w)
                  /\ pc' = CASE w = "again" -> "idle" [] w = "error" -> "failed" [] OTHER -> pc
             /\ UNCHANGED <<closed, recvBuf>>
    BY <1>1, <2>3, Codes, ControlType DEF ParserOK, OutOK
  <2>4. CASE /\ op = Code.close
             /\ \E w \in Writes : SendControl(Code.close, <<>>, w)
             /\ pc' = "failed" /\ closed' = TRUE
             /\ UNCHANGED recvBuf
    BY <1>1, <2>4, Codes, NoBytes, ControlType DEF ParserOK
  <2>5. CASE op = Code.fragment /\ pc' = "failed" /\ UNCHANGED <<closed, recvBuf, outVars>>
    BY <1>1, <2>5 DEF ParserOK, OutOK, outVars, sendVars
  <2> QED
    BY <2>1, <2>2, <2>3, <2>4, <2>5 DEF PumpMessage, Dispatch
<1> QED
  BY <1>1, <1>2, NoBytes DEF PumpMessage, Reset, ParserOK

\* A step of the reader, over either transport.
LEMMA RecvType ==
    ASSUME TypeOK, NEW src \in Bytes, NEW k \in 1..Least(Want, Len(src)), pc = "poll",
           Take(First(src, k))
    PROVE  ReaderOK' /\ pc' \in {"idle", "poll", "failed"} /\ Rest(src, k) \in Bytes
<1>1. Want \in Int
  <2>1. Len(hdr) \in Nat /\ Len(body) \in Nat /\ HdrLen \in Nat /\ needed \in Int
    BY TypeParts, NoBytes, Constants DEF ReaderOK
  <2> QED
    BY <2>1 DEF Want
<1>2. /\ First(src, k) \in Bytes /\ Rest(src, k) \in Bytes /\ Len(First(src, k)) = k
      /\ k >= 1 /\ k <= Want
  BY <1>1, ReadType
<1> QED
  BY <1>2, TypeParts, TakeType

\* What HdrLen and Want leave FrameReader room for.
LEMMA RoomLeft ==
    ASSUME TypeOK, pc = "poll"
    PROVE  Want \in Nat \ {0}
<1>1. Len(hdr) \in Nat /\ Len(body) \in Nat /\ HdrLen \in Nat /\ needed \in Int
  BY TypeParts, NoBytes, Constants DEF ReaderOK
<1> QED
  BY <1>1, TypeParts DEF Want, ReaderOK

\* Fixed-size reads of what WSClient has buffered.
LEMMA BufferRead ==
    ASSUME TypeOK, pc = "poll", recvBuf # <<>>
    PROVE  Least(Want, Len(recvBuf)) \in 1..Least(Want, Len(recvBuf))
<1>1. Want \in Nat \ {0}
  BY RoomLeft
<1>2. Len(recvBuf) \in Nat \ {0}
  BY TypeParts, NoBytes DEF ParserOK
<1> QED
  BY <1>1, <1>2 DEF Least

\* What sendall cuts off its buffer is there.
LEMMA FrameCut ==
    ASSUME OutOK, HoldsFrame(sendBuf)
    PROVE  /\ FrameLen(sendBuf) \in 0..Len(sendBuf)
           /\ First(sendBuf, FrameLen(sendBuf)) \in Bytes
           /\ Rest(sendBuf, FrameLen(sendBuf)) \in Bytes
<1>1. Len(sendBuf) \in Nat /\ HdrLen \in 1..Len(sendBuf) /\ HdrLen \in Nat
  BY Constants, NoBytes DEF OutOK, HoldsFrame
<1>2. sendBuf[HdrLen] \in Nat
  BY <1>1, ElementOfSeq DEF OutOK, Bytes
<1>3. FrameLen(sendBuf) \in 0..Len(sendBuf)
  BY <1>1, <1>2 DEF HoldsFrame, FrameLen
<1> QED
  BY <1>3, CutInTwo DEF OutOK

TypeInv == TypeOK /\ FreshUpgrade

\* The types hold at the start.
LEMMA TypeInit == Init => TypeInv
<1> SUFFICES ASSUME Init PROVE TypeInv
  OBVIOUS
<1>1. stream \in Bytes
  <2>1. <<Accepted, HeadEnd>> \in Bytes /\ <<0, HeadEnd>> \in Bytes
    BY Pair DEF Accepted, HeadEnd
  <2>2. Fill(MaxHead + 1, Accepted) \in Bytes
    BY Constants, Filled DEF Accepted
  <2> QED
    BY <2>1, <2>2, NoBytes DEF Init, Opened, Responses
<1>2. ReaderOK
  <2>1. <<>> \in Seq(Bytes) /\ -1 \in -1..Cap
    BY Constants
  <2> QED
    BY <2>1, Constants, NoBytes DEF Init, FreshReader, ReaderOK
<1>3. ParserOK
  BY NoBytes DEF Init, FreshClient, ParserOK
<1>4. OutOK
  <2>1. 0 \in 0..MaxSends
    BY Constants
  <2> QED
    BY <2>1, NoBytes DEF Init, FreshClient, OutOK
<1>6. SocketOK
  <2>1. <<>> \in Seq(Bytes) /\ 0 \in 0..MaxItems /\ 0 <= MaxHead + 1
    BY Constants
  <2> QED
    BY <1>1, <2>1, NoBytes DEF Init, Opened, SocketOK
<1>7. PcOK
  BY DEF Init, Opened, PcOK
<1>5. FreshUpgrade
  BY Constants, NoBytes DEF Init, FreshUpgrade
<1> QED
  BY <1>2, <1>3, <1>4, <1>5, <1>6, <1>7, TypeParts DEF TypeInv

\* Every step keeps the types.
LEMMA TypeStep == TypeInv /\ [Next]_vars => TypeInv'
<1> SUFFICES ASSUME TypeInv, [Next]_vars PROVE TypeInv'
  OBVIOUS
<1>0. TypeOK /\ FreshUpgrade /\ ReaderOK /\ ParserOK /\ OutOK /\ PcOK /\ SocketOK
  BY TypeParts DEF TypeInv
<1>p. TypeOK' <=> ReaderOK' /\ ParserOK' /\ OutOK' /\ PcOK' /\ SocketOK'
  BY TypeParts, PTL
<1> USE DEF connVars, readerVars, parserVars, outVars, sendVars
<1>1. CASE ServerSends
  <2>1. SocketOK'
    BY <1>0, <1>1, ServerType
  <2>2. ReaderOK' /\ ParserOK' /\ OutOK' /\ PcOK' /\ FreshUpgrade'
    BY <1>0, <1>1 DEF ServerSends, ReaderOK, ParserOK, OutOK, PcOK, FreshUpgrade,
       FreshReader, FreshClient
  <2> QED
    BY <1>p, <2>1, <2>2 DEF TypeInv
<1>2. CASE ReadResponse
  <2>1. Len(stream) \in Nat \ {0} /\ stream[1] \in Nat /\ 1 \in 0..Len(stream)
    <3>1. Len(stream) \in Nat \ {0}
      BY <1>0, <1>2, NoBytes DEF ReadResponse, SocketOK
    <3> QED
      BY <1>0, <3>1, ElementOfSeq DEF SocketOK, Bytes
  <2>2. stream' \in Bytes
    BY <1>0, <1>2, <2>1, CutInTwo DEF ReadResponse, SocketOK
  <2>3. /\ head' \in Bytes /\ Len(head') = Len(head) + 1 /\ Len(head) \in Nat
        /\ Len(head) <= MaxHead
    BY <1>0, <1>2, <2>1, AppendProperties, NoBytes
       DEF ReadResponse, SocketOK, FreshUpgrade, Bytes
  <2>4. SocketOK'
    BY <1>0, <1>2, <2>2, <2>3, Constants DEF ReadResponse, SocketOK
  <2>5. PcOK' /\ ParserOK' /\ OutOK'
    BY <1>0, <1>2 DEF ReadResponse, PcOK, ParserOK, OutOK
  <2>6. ReaderOK'
    BY <1>0, <1>2, Constants, NoBytes DEF ReadResponse, ReaderOK, FreshUpgrade, FreshReader
  <2>7. FreshUpgrade'
    BY <1>0, <1>2, <2>3, Constants
       DEF ReadResponse, FreshUpgrade, FreshReader, FreshClient
  <2> QED
    BY <1>p, <2>4, <2>5, <2>6, <2>7 DEF TypeInv
<1>3. CASE HandshakeFails \/ PollBegin \/ NothingYet \/ PeerClosed
  <2>1. SocketOK' /\ ParserOK'
    BY <1>0, <1>3 DEF HandshakeFails, PollBegin, NothingYet, PeerClosed, SocketOK, ParserOK
  <2>2. OutOK' /\ PcOK' /\ FreshUpgrade'
    BY <1>0, <1>3 DEF HandshakeFails, PollBegin, NothingYet, PeerClosed, OutOK, PcOK,
       FreshUpgrade, Wss
  <2>3. ReaderOK'
    BY <1>0, <1>3 DEF HandshakeFails, PollBegin, NothingYet, Reading, PeerClosed, ReaderOK, InSendall
  <2> QED
    BY <1>p, <2>1, <2>2, <2>3 DEF TypeInv
<1>4. CASE RawRecv
  <2>1. PICK k \in 1..Least(Want, Len(stream)) :
            Take(First(stream, k)) /\ stream' = Rest(stream, k)
    BY <1>4 DEF RawRecv
  <2>2. ReaderOK' /\ pc' \in {"idle", "poll", "failed"} /\ stream' \in Bytes
    BY <1>0, <1>4, <2>1, RecvType DEF RawRecv, SocketOK
  <2>3. SocketOK' /\ ParserOK' /\ OutOK'
    BY <1>0, <1>4, <2>2 DEF RawRecv, SocketOK, ParserOK, OutOK
  <2> QED
    BY <1>p, <2>2, <2>3 DEF TypeInv, PcOK, FreshUpgrade
<1>5. CASE WsRecv
  <2> DEFINE k == Least(Want, Len(recvBuf))
  <2>1. Take(First(recvBuf, k)) /\ recvBuf' = Rest(recvBuf, k)
    BY <1>5 DEF WsRecv
  <2>2. k \in 1..Least(Want, Len(recvBuf))
    BY <1>0, <1>5, BufferRead DEF WsRecv
  <2> HIDE DEF k
  <2>3. ReaderOK' /\ pc' \in {"idle", "poll", "failed"} /\ recvBuf' \in Bytes
    BY <1>0, <1>5, <2>1, <2>2, RecvType DEF WsRecv, ParserOK
  <2>4. SocketOK' /\ ParserOK' /\ OutOK'
    BY <1>0, <1>5, <2>3 DEF WsRecv, SocketOK, ParserOK, OutOK
  <2> QED
    BY <1>p, <2>3, <2>4 DEF TypeInv, PcOK, FreshUpgrade
<1>6. CASE PumpHeader \/ PumpLength \/ PumpBody
  <2>1. ParserOK' /\ SocketOK'
    BY <1>0, <1>6, PumpType
  <2>2. ReaderOK' /\ OutOK' /\ pc' = "poll" /\ pc = "poll"
    BY <1>0, <1>6 DEF PumpHeader, PumpLength, PumpBody, Pumping, ReaderOK, OutOK
  <2> QED
    BY <1>p, <2>1, <2>2 DEF TypeInv, PcOK, FreshUpgrade
<1>7. CASE PumpMessage
  <2>1. ParserOK' /\ OutOK' /\ pc' \in {"poll", "idle", "failed"} /\ pc = "poll"
    BY <1>0, <1>7, MessageType DEF PumpMessage, Pumping
  <2>2. ReaderOK' /\ SocketOK'
    BY <1>0, <1>7, <2>1 DEF PumpMessage, ReaderOK, SocketOK
  <2> QED
    BY <1>p, <2>1, <2>2 DEF TypeInv, PcOK, FreshUpgrade
<1>8. CASE SendFramed
  <2>1. PICK n \in BodyLens :
            /\ payload' = Fill(n, sends + 1) /\ sendBuf' = sendBuf \o Fill(HdrLen, n)
            /\ meant' = meant \o Message(Code.frame, Packet(Fill(n, sends + 1)))
    BY <1>8 DEF SendFramed
  <2>2. n \in Nat /\ sends + 1 \in 0..MaxSends /\ sends + 1 \in Nat
    BY <1>0, <1>8, Constants DEF SendFramed, OutOK
  <2>3. Fill(n, sends + 1) \in Bytes /\ Fill(HdrLen, n) \in Bytes
    BY <2>2, Constants, Filled
  <2>4. Message(Code.frame, Packet(Fill(n, sends + 1))) \in Bytes
    BY <2>3, PacketBytes, Codes, MessageBytes
  <2>5. payload' \in Bytes /\ sendBuf' \in Bytes /\ meant' \in Bytes
    BY <1>0, <2>1, <2>3, <2>4, Joined DEF OutOK
  <2>6. OutOK'
    BY <1>0, <1>8, <2>2, <2>5 DEF SendFramed, OutOK
  <2>7. ReaderOK' /\ ParserOK' /\ SocketOK'
    BY <1>0, <1>8 DEF SendFramed, ReaderOK, ParserOK, SocketOK, InSendall
  <2> QED
    BY <1>p, <1>8, <2>6, <2>7 DEF SendFramed, TypeInv, PcOK, FreshUpgrade, InSendall
<1>11. CASE SendallShips
  <2>1. PICK w \in Writes :
            /\ SendMessage(Message(Code.frame, First(sendBuf, FrameLen(sendBuf))), w)
            /\ pc' = IF Raises(w) THEN "failed" ELSE pc
    BY <1>11 DEF SendallShips
  <2>2. /\ First(sendBuf, FrameLen(sendBuf)) \in Bytes
        /\ Rest(sendBuf, FrameLen(sendBuf)) \in Bytes
    BY <1>0, <1>11, FrameCut DEF SendallShips
  <2>3. Message(Code.frame, First(sendBuf, FrameLen(sendBuf))) \in Bytes
    BY <2>2, Codes, MessageBytes
  <2>4. out' \in Bytes /\ clipped' \in BOOLEAN
    BY <1>0, <2>1, <2>3, SendType
  <2>5. OutOK'
    BY <1>0, <1>11, <2>2, <2>4 DEF SendallShips, OutOK
  <2>6. pc \in InSendall /\ pc' \in {"failed"} \cup InSendall
    BY <1>11, <2>1 DEF SendallShips
  <2>7. ReaderOK' /\ ParserOK' /\ SocketOK'
    BY <1>0, <1>11, <2>6 DEF SendallShips, ReaderOK, ParserOK, SocketOK, InSendall
  <2> QED
    BY <1>p, <2>5, <2>6, <2>7 DEF TypeInv, PcOK, FreshUpgrade, InSendall
<1>12. CASE SendallReturns
  <2>1. payload' \in Bytes /\ sendBuf' \in Bytes
    BY <1>0, <1>12, NoBytes, Joined DEF SendallReturns, OutOK
  <2>2. OutOK'
    BY <1>0, <1>12, <2>1 DEF SendallReturns, OutOK
  <2>3. pc \in InSendall /\ pc' \in {"payload", "idle"}
    BY <1>12 DEF SendallReturns
  <2>4. ReaderOK' /\ ParserOK' /\ SocketOK'
    BY <1>0, <1>12, <2>3 DEF SendallReturns, ReaderOK, ParserOK, SocketOK, InSendall
  <2> QED
    BY <1>p, <2>2, <2>3, <2>4 DEF TypeInv, PcOK, FreshUpgrade, InSendall
<1>9. CASE Close
  <2>1. OutOK'
    <3>1. CASE Wss /\ ~closed
      <4>1. PICK w \in Writes : SendControl(Code.close, <<>>, w)
        BY <1>9, <3>1 DEF Close
      <4>2. closed' \in BOOLEAN
        BY <1>9, <3>1 DEF Close
      <4> QED
        BY <1>0, <4>1, <4>2, Codes, NoBytes, ControlType
    <3>2. CASE ~(Wss /\ ~closed)
      BY <1>0, <1>9, <3>2 DEF Close, OutOK
    <3> QED
      BY <3>1, <3>2
  <2>2. pc = "failed" /\ pc' = "dropped" /\ ReaderOK' /\ ParserOK' /\ SocketOK'
    BY <1>0, <1>9 DEF Close, ReaderOK, ParserOK, SocketOK, InSendall
  <2> QED
    BY <1>p, <2>1, <2>2 DEF TypeInv, PcOK, FreshUpgrade
<1>10. CASE UNCHANGED vars
  <2>1. ReaderOK' /\ ParserOK' /\ OutOK'
    BY <1>0, <1>10 DEF vars, ReaderOK, ParserOK, OutOK
  <2>2. PcOK' /\ SocketOK' /\ FreshUpgrade'
    BY <1>0, <1>10 DEF vars, PcOK, SocketOK, FreshUpgrade, FreshReader, FreshClient
  <2> QED
    BY <1>p, <2>1, <2>2 DEF TypeInv
<1> QED
  BY <1>1, <1>2, <1>3, <1>4, <1>5, <1>6, <1>7, <1>8, <1>9, <1>10, <1>11, <1>12
     DEF Next, Reads, Sendall

\* The types, and the limits on what the Pico buffers: FrameReader (net.py) never holds
\* more of a frame than its length, nor a length above the limit.
THEOREM TypeCorrect == Spec => []TypeOK
<1>1. TypeInv => TypeOK
  BY DEF TypeInv
<1> QED
  BY <1>1, TypeInit, TypeStep, PTL DEF Spec

\* What has been written of what was meant, unless the socket did not take it whole.
Sent == ~clipped => out = meant
Owed(bytes) == ~clipped => meant = out \o Message(Code.frame, bytes)

\* What of a frame is in the buffer of sendall, and in the hands of send_framed.
SendInv ==
    \/ payload = <<>> /\ sendBuf = <<>> /\ Sent
    \/ /\ pc = "length" /\ payload \in Bytes
       /\ sendBuf = Fill(HdrLen, Len(payload)) /\ Owed(Packet(payload))
    \/ /\ pc = "payload" /\ payload = <<>>
       /\ \E b \in Bytes : sendBuf = Packet(b) /\ Owed(sendBuf)

\* A packet in the buffer is a whole frame, and all of it.
LEMMA PacketHeld ==
    ASSUME NEW b \in Bytes
    PROVE  /\ HoldsFrame(Packet(b)) /\ FrameLen(Packet(b)) = Len(Packet(b))
           /\ First(Packet(b), FrameLen(Packet(b))) = Packet(b)
           /\ Rest(Packet(b), FrameLen(Packet(b))) = <<>>
<1> DEFINE s == Packet(b)
           h == Fill(HdrLen, Len(b))
<1>1. /\ s \in Bytes /\ Len(s) = HdrLen + Len(b) /\ s = h \o b /\ h \in Bytes
      /\ Len(h) = HdrLen /\ h[HdrLen] = Len(b) /\ Len(b) \in Nat /\ HdrLen \in Nat \ {0}
  BY PacketBytes, Constants, NoBytes
<1> HIDE DEF s, h
<1>2. s[HdrLen] = Len(b)
  <2>1. HdrLen \in 1..Len(h)
    BY <1>1
  <2> QED
    BY <1>1, <2>1, Joined
<1>3. FrameLen(s) = Len(s) /\ HoldsFrame(s)
  BY <1>1, <1>2 DEF FrameLen, HoldsFrame
<1>4. Len(s) \in 0..Len(s)
  BY <1>1
<1>5. First(s, Len(s)) = s /\ Rest(s, Len(s)) = <<>>
  <2>1. First(s, Len(s)) = s
    BY <1>1, SubSeqFull DEF First, Bytes
  <2> DEFINE r == Rest(s, Len(s))
  <2>2. r \in Bytes /\ First(s, Len(s)) \o r = s
    BY <1>1, <1>4, CutInTwo
  <2> HIDE DEF r
  <2>3. s \o r = s
    BY <2>1, <2>2
  <2>4. Len(s \o r) = Len(s) + Len(r) /\ Len(r) \in Nat
    BY <1>1, <2>2, Joined
  <2>5. Len(r) = 0
    BY <1>1, <2>3, <2>4
  <2>6. r = <<>>
    BY <2>2, <2>5, NoBytes
  <2> QED
    BY <2>1, <2>6 DEF r
<1> QED
  BY <1>3, <1>5 DEF s

\* The length alone is a whole frame only of an empty payload.
LEMMA LengthHeld ==
    ASSUME NEW b \in Bytes, HoldsFrame(Fill(HdrLen, Len(b)))
    PROVE  b = <<>> /\ Fill(HdrLen, Len(b)) = Packet(<<>>)
<1>1. /\ Len(b) \in Nat /\ HdrLen \in Nat \ {0} /\ Len(Fill(HdrLen, Len(b))) = HdrLen
      /\ Fill(HdrLen, Len(b))[HdrLen] = Len(b)
  BY PacketBytes, Constants, NoBytes
<1>2. b = <<>>
  BY <1>1, NoBytes DEF HoldsFrame, FrameLen
<1> QED
  BY <1>2, PacketBytes, NoBytes

\* A turn of sendall's loop writes what was owed.
LEMMA ShipStep ==
    ASSUME TypeOK, SendInv, SendallShips
    PROVE  SendInv'
<1>1. PICK w \in Writes :
        SendMessage(Message(Code.frame, First(sendBuf, FrameLen(sendBuf))), w)
  BY DEF SendallShips
<1>2. /\ pc \in InSendall /\ HoldsFrame(sendBuf)
      /\ sendBuf' = Rest(sendBuf, FrameLen(sendBuf)) /\ UNCHANGED <<payload, meant>>
  BY DEF SendallShips
<1>3. ASSUME NEW b \in Bytes, sendBuf = Packet(b), Owed(sendBuf), payload = <<>>
      PROVE  SendInv'
  <2>1. First(sendBuf, FrameLen(sendBuf)) = sendBuf /\ sendBuf' = <<>>
    BY <1>2, <1>3, PacketHeld
  <2>2. Sent'
    BY <1>1, <1>2, <1>3, <2>1 DEF SendMessage, Owed, Sent
  <2> QED
    BY <1>2, <1>3, <2>1, <2>2 DEF SendInv
<1>4. sendBuf # <<>>
  BY <1>2, Constants, NoBytes DEF HoldsFrame
<1>5. CASE /\ pc = "length" /\ payload \in Bytes
           /\ sendBuf = Fill(HdrLen, Len(payload)) /\ Owed(Packet(payload))
  <2>1. payload = <<>> /\ sendBuf = Packet(<<>>)
    BY <1>2, <1>5, LengthHeld
  <2> QED
    BY <1>3, <1>5, <2>1, NoBytes
<1>6. CASE /\ pc = "payload" /\ payload = <<>>
           /\ \E b \in Bytes : sendBuf = Packet(b) /\ Owed(sendBuf)
  BY <1>3, <1>6
<1> QED
  BY <1>4, <1>5, <1>6 DEF SendInv

\* sendall of the length leaves it in the buffer; the payload completes the packet.
LEMMA ReturnStep ==
    ASSUME TypeOK, SendInv, SendallReturns
    PROVE  SendInv'
<1>1. /\ ~HoldsFrame(sendBuf) /\ UNCHANGED <<out, meant, clipped>>
      /\ IF pc = "length"
         THEN pc' = "payload" /\ sendBuf' = sendBuf \o payload /\ payload' = <<>>
         ELSE pc' = "idle" /\ UNCHANGED <<sendBuf, payload>>
  BY DEF SendallReturns
<1>2. CASE payload = <<>> /\ sendBuf = <<>> /\ Sent
  <2>1. payload' = <<>> /\ sendBuf' = <<>>
    BY <1>1, <1>2, NoBytes
  <2> QED
    BY <1>1, <1>2, <2>1 DEF SendInv, Sent
<1>3. CASE /\ pc = "length" /\ payload \in Bytes
           /\ sendBuf = Fill(HdrLen, Len(payload)) /\ Owed(Packet(payload))
  <2>1. pc' = "payload" /\ payload' = <<>> /\ sendBuf' = Packet(payload)
    BY <1>1, <1>3, PacketBytes
  <2>3. ~clipped' => meant' = out' \o Message(Code.frame, sendBuf')
    BY <1>1, <1>3, <2>1 DEF Owed
  <2> QED
    BY <1>3, <2>1, <2>3 DEF SendInv, Owed
<1>4. CASE \E b \in Bytes : sendBuf = Packet(b)
  BY <1>1, <1>4, PacketHeld
<1> QED
  BY <1>2, <1>3, <1>4 DEF SendInv

\* As long as the socket takes every write whole, sendall makes of the two writes of each
\* send_framed one message with the frame, in order, and pongs and closes get into none.
THEOREM OneMessagePerFrameAlways == Spec => []OneMessagePerFrame
<1> DEFINE Inv == SendInv /\ TypeInv
<1>1. Init => Inv
  BY TypeInit DEF Init, FreshClient, SendInv, Sent
<1>2. Inv /\ [Next]_vars => Inv'
  <2> SUFFICES ASSUME SendInv, TypeInv, [Next]_vars PROVE SendInv'
    BY TypeStep
  <2>0. TypeOK
    BY DEF TypeInv
  <2> USE DEF outVars, sendVars
  <2>1. ASSUME UNCHANGED outVars, pc \notin InSendall \/ UNCHANGED pc
        PROVE  SendInv'
    BY <2>1 DEF SendInv, Sent, Owed, InSendall
  <2>2. ASSUME NEW code, NEW b, NEW w, SendControl(code, b, w), pc \notin InSendall
        PROVE  SendInv'
    BY <2>2 DEF SendControl, SendMessage, SendInv, Sent, InSendall
  <2>3. CASE PumpMessage
    <3>1. pc \notin InSendall
      BY <2>3 DEF PumpMessage, Pumping, InSendall
    <3> QED
      BY <2>1, <2>2, <2>3, <3>1 DEF PumpMessage, Dispatch
  <2>4. CASE Close
    <3>1. pc \notin InSendall
      BY <2>4 DEF Close, InSendall
    <3> QED
      BY <2>1, <2>2, <2>4, <3>1 DEF Close
  <2>5. CASE SendFramed
    <3>1. PICK n \in BodyLens :
            /\ payload' = Fill(n, sends + 1) /\ sendBuf' = sendBuf \o Fill(HdrLen, n)
            /\ meant' = meant \o Message(Code.frame, Packet(Fill(n, sends + 1)))
            /\ pc = "idle" /\ pc' = "length" /\ UNCHANGED <<out, clipped>>
      BY <2>5 DEF SendFramed
    <3>2. payload = <<>> /\ sendBuf = <<>> /\ Sent
      BY <3>1 DEF SendInv
    <3>3. n \in Nat /\ sends + 1 \in Nat /\ HdrLen \in Nat
      BY <2>0, Constants, TypeParts DEF OutOK
    <3>4. payload' \in Bytes /\ Len(payload') = n /\ Fill(HdrLen, n) \in Bytes
      BY <3>1, <3>3, Filled
    <3>5. sendBuf' = Fill(HdrLen, Len(payload'))
      BY <3>1, <3>2, <3>4, NoBytes
    <3>6. ~clipped' => meant' = out' \o Message(Code.frame, Packet(payload'))
      BY <3>1, <3>2 DEF Sent
    <3> QED
      BY <3>1, <3>4, <3>5, <3>6 DEF SendInv, Owed
  <2>6. CASE Sendall
    BY <2>0, <2>6, ShipStep, ReturnStep DEF Sendall
  <2>7. CASE \/ ServerSends \/ HandshakeFails \/ PollBegin \/ NothingYet \/ PeerClosed
             \/ ReadResponse \/ RawRecv \/ WsRecv
    BY <2>1, <2>7 DEF ServerSends, HandshakeFails, PollBegin, NothingYet, PeerClosed,
       Reading, ReadResponse, RawRecv, WsRecv, InSendall
  <2>8. CASE PumpHeader \/ PumpLength \/ PumpBody \/ UNCHANGED vars
    BY <2>1, <2>8 DEF PumpHeader, PumpLength, PumpBody, vars
  <2> QED
    BY <2>3, <2>4, <2>5, <2>6, <2>7, <2>8 DEF Next, Reads
<1>3. Inv => OneMessagePerFrame
  BY DEF SendInv, Sent, OneMessagePerFrame, InSendall
<1> QED
  BY <1>1, <1>2, <1>3, PTL DEF Spec

-----------------------------------------------------------------------------
(* What is under way from the server to FrameReader.                       *)

\* The frames in FrameReader and in src behind it are those up to b.
ReaderInv(src, b) ==
    Backlog((hdr \o body) \o src, Len(frames), b, sentIn, FALSE, faulty)

\* `seen` are the bytes of the message that WSClient has begun to read.
Parsed(seen) ==
    \/ fstate = "hdr2" /\ Len(partial) < 2 /\ seen = partial
    \/ /\ fstate = "ext" /\ msg = <<>> /\ Len(partial) < ExtLen
       /\ seen = <<op, ExtMark>> \o partial
    \/ /\ fstate = "body" /\ partial = <<>>
       /\ \/ Len(msg) + left # ExtMark /\ seen = <<op, Len(msg) + left>> \o msg
          \/ \E x \in Bytes : /\ Len(x) = ExtLen /\ x[ExtLen] = Len(msg) + left
                              /\ seen = (<<op, ExtMark>> \o x) \o msg

\* The messages in WSClient and in the stream carry the frames after b.
WireInv(src, b) ==
    \E seen \in Bytes :
        Parsed(seen) /\ Backlog(seen \o src, b, Len(sentIn), sentIn, TRUE, faulty)

\* The stream holds what is left of a response, and then w.
Upgrading(w) ==
    \E r \in Responses, v \in Bytes : v # <<>> /\ r = head \o v /\ stream = v \o w

Live == pc \in {"idle", "poll"} \cup InSendall

FlowInv ==
    /\ needed # -1 => needed = hdr[HdrLen]
    /\ ~Wss => recvBuf = <<>> /\ pc # "upgrade"
    /\ Live /\ ~Wss => ReaderInv(stream, Len(sentIn))
    /\ Live /\ Wss => \E b \in Nat : ReaderInv(recvBuf, b) /\ WireInv(stream, b)
    /\ pc = "upgrade" =>
        \E w \in Bytes : Upgrading(w) /\ Backlog(w, 0, Len(sentIn), sentIn, TRUE, faulty)

\* A header read in full starts a frame of that length, or is the huge one.
LEMMA HeaderRead ==
    ASSUME NEW h \in Bytes, NEW t \in Bytes, NEW a \in Nat, NEW b \in Nat, NEW s, NEW f,
           Len(h) = HdrLen, Backlog(h \o t, a, b, s, FALSE, f)
    PROVE  \/ /\ a + 1 <= Len(s) /\ s[a + 1] \in Bytes /\ Len(s[a + 1]) <= Cap
              /\ h[HdrLen] = Len(s[a + 1])
              /\ \E u \in Bytes : t = s[a + 1] \o u /\ Backlog(u, a + 1, b, s, FALSE, f)
           \/ f /\ h[HdrLen] = Cap + 1
<1>1. HdrLen \in Nat \ {0} /\ h \o t \in Bytes /\ h \o t # <<>> /\ Cap + 1 \in Nat
  <2>1. h \o t \in Bytes /\ Len(h \o t) = HdrLen + Len(t) /\ Len(t) \in Nat
    BY Joined
  <2> QED
    BY <2>1, Constants, NoBytes
<1>2. PICK p \in Bytes, u \in Bytes, c \in Nat :
            Piece(p, a, c, s, FALSE, f) /\ h \o t = p \o u /\ Backlog(u, c, b, s, FALSE, f)
  BY <1>1, BacklogFirst
<1>3. CASE /\ c = a + 1 /\ c <= Len(s) /\ s[c] \in Bytes /\ Len(s[c]) <= Cap
           /\ p = Packet(s[c])
  <2> DEFINE x == s[c]
             fill == Fill(HdrLen, Len(x))
  <2>1. /\ x \in Bytes /\ p = fill \o x /\ fill \in Bytes /\ Len(fill) = HdrLen
        /\ fill[HdrLen] = Len(x)
    BY <1>3, PacketBytes
  <2> HIDE DEF x, fill
  <2>2. h \o t = fill \o (x \o u) /\ x \o u \in Bytes
    <3>1. (fill \o x) \o u = fill \o (x \o u)
      <4>1. fill \in Bytes /\ x \in Bytes /\ u \in Bytes
        BY <2>1
      <4> QED
        BY <4>1, Assoc
    <3>2. x \o u \in Bytes
      BY <2>1, Joined
    <3> QED
      BY <1>2, <2>1, <3>1, <3>2
  <2> DEFINE v == x \o u
  <2> HIDE DEF v
  <2>3. h = fill /\ t = v
    <3>1. v \in Bytes /\ h \o t = fill \o v /\ Len(h) = Len(fill)
      BY <2>1, <2>2 DEF v
    <3> QED
      BY <2>1, <3>1, SplitUnique
  <2> QED
    BY <1>2, <1>3, <2>1, <2>3 DEF x, v
<1>4. CASE f /\ p = HugeHdr
  <2>1. p \in Bytes /\ Len(p) = HdrLen /\ p[HdrLen] = Cap + 1
    BY <1>1, <1>4, Filled DEF HugeHdr
  <2>2. h = p
    BY <1>2, <2>1, SplitUnique
  <2> QED
    BY <1>4, <2>1, <2>2
<1> QED
  BY <1>2, <1>3, <1>4 DEF Piece, Carried, Others

\* What a chunk makes of FrameReader: it goes on, or returns the next frame whole, or
\* meets a length above the limit, which no frame has.
LEMMA ReaderStep ==
    ASSUME TypeOK, pc = "poll", NEW src \in Bytes, NEW b \in Nat, ReaderInv(src, b),
           needed # -1 => needed = hdr[HdrLen],
           NEW k \in 1..Least(Want, Len(src)), Take(First(src, k))
    PROVE  /\ needed' # -1 => needed' = hdr'[HdrLen]
           /\ \/ /\ pc' \in {"idle", "poll"}
                 /\ Backlog((hdr' \o body') \o Rest(src, k), Len(frames'), b, sentIn, FALSE,
                            faulty)
                 /\ \/ frames' = frames
                    \/ /\ Len(frames) < Len(sentIn)
                       /\ frames' = Append(frames, sentIn[Len(frames) + 1])
              \/ pc' = "failed" /\ frames' = frames /\ faulty
<1> DEFINE chunk == First(src, k)
           rest == Rest(src, k)
<1>1. ReaderOK /\ HdrLen \in Nat \ {0} /\ Cap \in Nat
  BY TypeParts, Constants
<1>2. /\ hdr \in Bytes /\ body \in Bytes /\ needed \in Int
      /\ Len(hdr) \in Nat /\ Len(body) \in Nat /\ Len(frames) \in Nat
  BY <1>1, NoBytes DEF ReaderOK
<1>3. Want \in Int
  BY <1>1, <1>2 DEF Want
<1>4. /\ chunk \in Bytes /\ rest \in Bytes /\ Len(chunk) = k /\ chunk \o rest = src
      /\ k \in Nat /\ k >= 1 /\ k <= Want
  BY <1>3, ReadType
<1> HIDE DEF chunk, rest
<1>5. Take(chunk) /\ chunk[Len(chunk)] \in Nat /\ Len(chunk) \in 1..Len(chunk)
  BY <1>4, ElementOfSeq DEF chunk, Bytes
<1>6. ASSUME NEW x \in Bytes, FrameDone(x), Len(frames) + 1 <= Len(sentIn),
             x = sentIn[Len(frames) + 1], Backlog(rest, Len(frames) + 1, b, sentIn, FALSE, faulty)
      PROVE  /\ needed' = -1 /\ pc' = "idle"
             /\ Backlog((hdr' \o body') \o rest, Len(frames'), b, sentIn, FALSE, faulty)
             /\ Len(frames) < Len(sentIn)
             /\ frames' = Append(frames, sentIn[Len(frames) + 1])
  <2>1. /\ hdr' = <<>> /\ body' = <<>> /\ needed' = -1 /\ pc' = "idle"
        /\ frames' = Append(frames, x)
    BY <1>6 DEF FrameDone
  <2>2. (hdr' \o body') \o rest = rest
    BY <1>4, <2>1, NoBytes
  <2>3. Len(frames') = Len(frames) + 1
    BY <1>1, <2>1, AppendProperties DEF ReaderOK
  <2>4. Len(frames) < Len(sentIn)
    <3>1. sentIn \in Seq(Bytes)
      BY TypeParts DEF SocketOK
    <3>2. Len(sentIn) \in Nat
      BY <3>1, LenProperties
    <3> QED
      BY <1>2, <1>6, <3>2
  <2> QED
    BY <1>6, <2>1, <2>2, <2>3, <2>4
<1>7. CASE needed = -1
  <2> DEFINE h == hdr \o chunk
  <2>1. body = <<>> /\ Len(hdr) + k <= HdrLen
    BY <1>1, <1>2, <1>4, <1>7 DEF Want, ReaderOK
  <2>2. h \in Bytes /\ Len(h) = Len(hdr) + k
    BY <1>2, <1>4, Joined
  <2>3. (hdr \o body) \o src = h \o rest
    <3>1. hdr \o body = hdr
      BY <1>2, <2>1, NoBytes
    <3>2. hdr \o (chunk \o rest) = (hdr \o chunk) \o rest
      BY <1>2, <1>4, Assoc
    <3> QED
      BY <1>4, <3>1, <3>2
  <2>4. Backlog(h \o rest, Len(frames), b, sentIn, FALSE, faulty)
    BY <2>3 DEF ReaderInv
  <2>5. ASSUME hdr' = h, body' = body
        PROVE  (hdr' \o body') \o rest = h \o rest
    BY <2>1, <2>2, <2>5, NoBytes
  <2>6. CASE Len(hdr) + Len(chunk) < HdrLen
    <3>1. hdr' = h /\ UNCHANGED <<body, needed, frames, pc>>
      BY <1>5, <1>7, <2>6 DEF Take
    <3> QED
      BY <1>7, <2>4, <2>5, <3>1 DEF rest
  <2>7. CASE ~(Len(hdr) + Len(chunk) < HdrLen)
    <3>1. Len(h) = HdrLen
      BY <1>1, <1>2, <1>4, <2>1, <2>2, <2>7
    <3>2. h[HdrLen] = chunk[Len(chunk)]
      <4>1. h[Len(hdr) + Len(chunk)] = chunk[Len(chunk)]
        <5>1. \A i \in 1..Len(chunk) : (hdr \o chunk)[Len(hdr) + i] = chunk[i]
          BY <1>2, <1>4, Joined
        <5> QED
          BY <1>5, <5>1
      <4> QED
        BY <1>4, <2>2, <3>1, <4>1
    <3> HIDE DEF h
    <3>3. \/ /\ Len(frames) + 1 <= Len(sentIn) /\ sentIn[Len(frames) + 1] \in Bytes
             /\ Len(sentIn[Len(frames) + 1]) <= Cap
             /\ h[HdrLen] = Len(sentIn[Len(frames) + 1])
             /\ \E u \in Bytes : /\ rest = sentIn[Len(frames) + 1] \o u
                                 /\ Backlog(u, Len(frames) + 1, b, sentIn, FALSE, faulty)
          \/ faulty /\ h[HdrLen] = Cap + 1
      BY <1>2, <1>4, <2>2, <2>4, <3>1, HeaderRead
    <3>4. CASE chunk[Len(chunk)] > Cap
      <4>1. pc' = "failed" /\ UNCHANGED <<needed, frames>>
        BY <1>5, <1>7, <2>7, <3>4 DEF Take
      <4>2. faulty
        <5>1. h[HdrLen] > Cap
          BY <3>2, <3>4
        <5>2. \A n \in Nat : ~(n > Cap /\ n <= Cap)
          BY <1>1
        <5>3. h[HdrLen] \in Nat
          BY <1>5, <3>2
        <5> QED
          BY <3>3, <5>1, <5>2, <5>3
      <4> QED
        BY <1>7, <4>1, <4>2
    <3>5. CASE chunk[Len(chunk)] = 0
      <4>1. FrameDone(<<>>)
        BY <1>1, <1>5, <1>7, <2>7, <3>5 DEF Take
      <4>2. /\ Len(frames) + 1 <= Len(sentIn) /\ sentIn[Len(frames) + 1] \in Bytes
            /\ Len(sentIn[Len(frames) + 1]) = 0
            /\ \E u \in Bytes : /\ rest = sentIn[Len(frames) + 1] \o u
                                /\ Backlog(u, Len(frames) + 1, b, sentIn, FALSE, faulty)
        <5>1. h[HdrLen] = 0 /\ h[HdrLen] # Cap + 1
          BY <1>1, <3>2, <3>5
        <5> QED
          BY <3>3, <5>1
      <4>3. sentIn[Len(frames) + 1] = <<>>
        BY <4>2, NoBytes
      <4>4. Backlog(rest, Len(frames) + 1, b, sentIn, FALSE, faulty)
        BY <4>2, <4>3, NoBytes
      <4> QED
        BY <1>6, <4>1, <4>2, <4>3, <4>4, NoBytes DEF rest
    <3>6. CASE ~(chunk[Len(chunk)] > Cap) /\ chunk[Len(chunk)] # 0
      <4>1. needed' = chunk[Len(chunk)] /\ hdr' = h /\ UNCHANGED <<body, frames, pc>>
        BY <1>5, <1>7, <2>7, <3>6 DEF Take, h
      <4> QED
        BY <2>4, <2>5, <3>2, <4>1 DEF rest
    <3> QED
      BY <3>4, <3>5, <3>6
  <2> QED
    BY <2>6, <2>7
<1>8. CASE needed # -1
  <2> DEFINE d == body \o chunk
  <2>1. Len(hdr) = HdrLen /\ hdr[HdrLen] = needed /\ needed <= Cap
    BY <1>8, <1>1 DEF ReaderOK
  <2>2. d \in Bytes /\ Len(d) = Len(body) + k /\ d \o rest \in Bytes
    BY <1>2, <1>4, Joined
  <2>3. (hdr \o body) \o src = hdr \o (d \o rest)
    <3>1. (hdr \o body) \o src = hdr \o (body \o (chunk \o rest))
      BY <1>2, <1>4, Assoc
    <3>2. body \o (chunk \o rest) = (body \o chunk) \o rest
      BY <1>2, <1>4, Assoc
    <3> QED
      BY <3>1, <3>2
  <2>4. Backlog(hdr \o (d \o rest), Len(frames), b, sentIn, FALSE, faulty)
    BY <2>3 DEF ReaderInv
  <2>5. hdr \o (d \o rest) = (hdr \o d) \o rest
    <3>1. hdr \in Bytes /\ d \in Bytes /\ rest \in Bytes
      BY <1>2, <1>4, <2>2
    <3> HIDE DEF d
    <3> QED
      BY <3>1, Assoc
  <2>6. CASE Len(body) + Len(chunk) = needed
    <3>1. FrameDone(d)
      BY <1>5, <1>8, <2>6 DEF Take
    <3> HIDE DEF d
    <3>2. /\ Len(frames) + 1 <= Len(sentIn) /\ sentIn[Len(frames) + 1] \in Bytes
          /\ needed = Len(sentIn[Len(frames) + 1])
          /\ \E u \in Bytes : /\ d \o rest = sentIn[Len(frames) + 1] \o u
                              /\ Backlog(u, Len(frames) + 1, b, sentIn, FALSE, faulty)
      <4>1. \/ /\ Len(frames) + 1 <= Len(sentIn) /\ sentIn[Len(frames) + 1] \in Bytes
               /\ Len(sentIn[Len(frames) + 1]) <= Cap
               /\ hdr[HdrLen] = Len(sentIn[Len(frames) + 1])
               /\ \E u \in Bytes : /\ d \o rest = sentIn[Len(frames) + 1] \o u
                                   /\ Backlog(u, Len(frames) + 1, b, sentIn, FALSE, faulty)
            \/ faulty /\ hdr[HdrLen] = Cap + 1
        BY <1>2, <2>1, <2>2, <2>4, HeaderRead
      <4>2. hdr[HdrLen] # Cap + 1
        BY <1>1, <1>2, <2>1
      <4> QED
        BY <2>1, <4>1, <4>2
    <3>3. PICK u \in Bytes : /\ d \o rest = sentIn[Len(frames) + 1] \o u
                             /\ Backlog(u, Len(frames) + 1, b, sentIn, FALSE, faulty)
      BY <3>2
    <3>4. d = sentIn[Len(frames) + 1] /\ rest = u
      BY <1>4, <2>2, <2>6, <3>2, <3>3, SplitUnique
    <3> QED
      BY <1>6, <2>2, <3>1, <3>2, <3>3, <3>4 DEF rest
  <2>7. CASE Len(body) + Len(chunk) # needed
    <3>1. body' = d /\ UNCHANGED <<hdr, needed, frames, pc>>
      BY <1>5, <1>8, <2>7 DEF Take
    <3> QED
      BY <2>1, <2>4, <2>5, <3>1 DEF rest
  <2> QED
    BY <2>6, <2>7
<1> QED
  BY <1>7, <1>8

\* Two bytes are a pair.
LEMMA TwoBytes ==
    ASSUME NEW s \in Bytes, Len(s) = 2
    PROVE  s[1] \in Nat /\ s[2] \in Nat /\ s = <<s[1], s[2]>>
<1>1. s[1] \in Nat /\ s[2] \in Nat
  BY ElementOfSeq DEF Bytes
<1>2. /\ <<s[1], s[2]>> \in Bytes /\ Len(<<s[1], s[2]>>) = 2
      /\ <<s[1], s[2]>>[1] = s[1] /\ <<s[1], s[2]>>[2] = s[2]
  BY <1>1, Pair
<1>3. \A i \in 1..2 : i = 1 \/ i = 2
  OBVIOUS
<1>4. \A i \in 1..Len(s) : s[i] = <<s[1], s[2]>>[i]
  BY <1>2, <1>3
<1> QED
  BY <1>1, <1>2, <1>4, SeqEqual DEF Bytes

\* A read of the socket moves bytes from the stream into the parser, and changes none.
LEMMA WireRead ==
    ASSUME TypeOK, NEW b \in Nat, WireInv(stream, b), PumpHeader \/ PumpLength \/ PumpBody
    PROVE  WireInv(stream, b)'
<1>1. /\ ParserOK /\ stream \in Bytes /\ Len(partial) \in Nat /\ ExtLen \in Nat \ {0}
      /\ left \in Nat /\ Len(msg) \in Nat /\ partial \in Bytes /\ msg \in Bytes /\ op \in Nat
      /\ ExtMark \in Nat
  BY TypeParts, NoBytes, Constants DEF SocketOK, ParserOK, ExtMark
<1>2. PICK seen \in Bytes :
        Parsed(seen) /\ Backlog(seen \o stream, b, Len(sentIn), sentIn, TRUE, faulty)
  BY DEF WireInv
<1>3. UNCHANGED <<sentIn, faulty>>
  BY DEF PumpHeader, PumpLength, PumpBody, connVars
\* It is enough to give the bytes seen after the read.
<1>4. ASSUME NEW k \in 0..Len(stream), stream' = Rest(stream, k), NEW now \in Bytes,
             now = seen \o First(stream, k), Parsed(now)'
      PROVE  WireInv(stream, b)'
  <2>1. /\ First(stream, k) \in Bytes /\ Rest(stream, k) \in Bytes
        /\ First(stream, k) \o Rest(stream, k) = stream
    BY <1>1, CutInTwo
  <2>2. now \o Rest(stream, k) = seen \o stream
    <3>1. (seen \o First(stream, k)) \o Rest(stream, k)
            = seen \o (First(stream, k) \o Rest(stream, k))
      BY <2>1, Assoc
    <3> QED
      BY <1>4, <2>1, <3>1
  <2>3. Backlog(now \o stream', b, Len(sentIn'), sentIn', TRUE, faulty')
    BY <1>2, <1>3, <1>4, <2>2
  <2> QED
    BY <1>4, <2>3 DEF WireInv
<1>5. CASE PumpHeader
  <2>1. PICK k \in 1..Least(2 - Len(partial), Len(stream)) :
            LET got == partial \o First(stream, k) IN
            /\ stream' = Rest(stream, k)
            /\ IF Len(got) < 2 THEN partial' = got /\ UNCHANGED <<fstate, op, left, msg>>
               ELSE /\ partial' = <<>> /\ op' = got[1] /\ msg' = <<>>
                    /\ fstate' = IF got[2] = ExtMark THEN "ext" ELSE "body"
                    /\ left' = IF got[2] = ExtMark THEN 0 ELSE got[2]
    BY <1>5 DEF PumpHeader
  <2>2. fstate = "hdr2" /\ seen = partial /\ Len(partial) < 2
    BY <1>2, <1>5 DEF PumpHeader, Parsed
  <2>3. PICK got \in Bytes : got = partial \o First(stream, k) /\ Len(got) = Len(partial) + k
    <3>1. 2 - Len(partial) \in Int
      BY <1>1
    <3>2. First(stream, k) \in Bytes /\ Len(First(stream, k)) = k
      BY <1>1, <3>1, ReadType
    <3> QED
      <4>1. /\ partial \o First(stream, k) \in Bytes
            /\ Len(partial \o First(stream, k)) = Len(partial) + Len(First(stream, k))
        BY <1>1, <3>2, Joined, Zenon
      <4> QED
        BY <3>2, <4>1, Zenon
  <2>4. k \in 0..Len(stream) /\ Len(got) <= 2 /\ Len(got) \in Nat
    BY <1>1, <2>3, LeastOf, NoBytes
  <2>5. CASE Len(got) < 2
    <3>1. partial' = got /\ fstate' = "hdr2"
      BY <2>1, <2>2, <2>3, <2>5
    <3>2. Parsed(got)'
      BY <2>5, <3>1 DEF Parsed
    <3> QED
      BY <1>4, <2>1, <2>2, <2>3, <2>4, <3>2
  <2>6. CASE ~(Len(got) < 2)
    <3>1. Len(got) = 2
      <4>1. \A n \in Nat : n <= 2 /\ ~(n < 2) => n = 2
        OBVIOUS
      <4> QED
        BY <2>4, <2>6, <4>1
    <3>2. got[1] \in Nat /\ got[2] \in Nat /\ got = <<got[1], got[2]>>
      BY <3>1, TwoBytes
    <3>3. /\ partial' = <<>> /\ op' = got[1] /\ msg' = <<>>
          /\ fstate' = IF got[2] = ExtMark THEN "ext" ELSE "body"
          /\ left' = IF got[2] = ExtMark THEN 0 ELSE got[2]
      BY <2>1, <2>3, <2>6
    <3>4. <<got[1], got[2]>> \o <<>> = got
      BY <3>2, NoBytes
    <3>5. CASE got[2] = ExtMark
      <4>1. fstate' = "ext" /\ <<op', ExtMark>> \o partial' = got /\ Len(partial') = 0
        BY <3>3, <3>4, <3>5, NoBytes
      <4>2. Parsed(got)'
        BY <1>1, <3>3, <4>1 DEF Parsed
      <4> QED
        BY <1>4, <2>1, <2>2, <2>3, <2>4, <4>2
    <3>6. CASE got[2] # ExtMark
      <4>1. fstate' = "body" /\ Len(msg') + left' = got[2]
        BY <3>2, <3>3, <3>6, NoBytes
      <4>2. <<op', Len(msg') + left'>> \o msg' = got
        BY <3>3, <3>4, <4>1
      <4>3. Parsed(got)'
        BY <3>3, <3>6, <4>1, <4>2 DEF Parsed
      <4> QED
        BY <1>4, <2>1, <2>2, <2>3, <2>4, <4>3
    <3> QED
      BY <3>5, <3>6
  <2> QED
    BY <2>5, <2>6
<1>6. CASE PumpLength
  <2>1. PICK k \in 1..Least(ExtLen - Len(partial), Len(stream)) :
            LET got == partial \o First(stream, k) IN
            /\ stream' = Rest(stream, k)
            /\ IF Len(got) < ExtLen THEN partial' = got /\ UNCHANGED <<fstate, left>>
               ELSE partial' = <<>> /\ left' = got[ExtLen] /\ fstate' = "body"
    BY <1>6 DEF PumpLength
  <2>2. /\ fstate = "ext" /\ seen = <<op, ExtMark>> \o partial /\ Len(partial) < ExtLen
        /\ msg = <<>> /\ op' = op /\ msg' = msg
    BY <1>2, <1>6 DEF PumpLength, Parsed
  <2>3. /\ First(stream, k) \in Bytes /\ Len(First(stream, k)) = k
        /\ <<op, ExtMark>> \in Bytes
    <3>1. ExtLen - Len(partial) \in Int
      BY <1>1
    <3> QED
      BY <1>1, <3>1, ReadType, Pair
  <2>4. PICK got \in Bytes : got = partial \o First(stream, k) /\ Len(got) = Len(partial) + k
    <3>1. /\ partial \o First(stream, k) \in Bytes
          /\ Len(partial \o First(stream, k)) = Len(partial) + Len(First(stream, k))
      BY <1>1, <2>3, Joined, Zenon
    <3> QED
      BY <2>3, <3>1, Zenon
  <2>5. k \in 0..Len(stream) /\ Len(got) <= ExtLen /\ Len(got) \in Nat
    <3>1. ExtLen - Len(partial) \in Int /\ Len(stream) \in Nat
      BY <1>1, NoBytes
    <3> QED
      BY <1>1, <2>4, <3>1, LeastOf, NoBytes
  <2>6. PICK now \in Bytes : now = seen \o First(stream, k) /\ now = <<op, ExtMark>> \o got
    <3>1. seen \o First(stream, k) \in Bytes
      BY <2>3, Joined
    <3>2. (<<op, ExtMark>> \o partial) \o First(stream, k)
            = <<op, ExtMark>> \o (partial \o First(stream, k))
      <4> DEFINE h == <<op, ExtMark>>
      <4>1. h \in Bytes
        BY <2>3
      <4> HIDE DEF h
      <4>2. (h \o partial) \o First(stream, k) = h \o (partial \o First(stream, k))
        <5>1. partial \in Bytes /\ First(stream, k) \in Bytes
          BY <1>1, <2>3
        <5> QED
          BY ONLY <4>1, <5>1, Assoc
      <4> QED
        BY <4>2 DEF h
    <3> QED
      BY <2>2, <2>4, <3>1, <3>2
  <2>7. CASE Len(got) < ExtLen
    <3>1. partial' = got /\ fstate' = "ext"
      BY <2>1, <2>2, <2>4, <2>7
    <3>2. Parsed(now)'
      BY <2>2, <2>6, <2>7, <3>1 DEF Parsed
    <3> QED
      BY <1>4, <2>1, <2>5, <2>6, <3>2
  <2>8. CASE ~(Len(got) < ExtLen)
    <3>1. Len(got) = ExtLen
      BY <1>1, <2>5, <2>8
    <3>2. partial' = <<>> /\ left' = got[ExtLen] /\ fstate' = "body"
      BY <2>1, <2>4, <2>8
    <3>3. got[ExtLen] \in Nat
      BY <1>1, <3>1, ElementOfSeq DEF Bytes
    <3>4. Len(msg') + left' = got[ExtLen]
      BY <2>2, <3>2, <3>3, NoBytes
    <3>5. now = (<<op', ExtMark>> \o got) \o msg'
      BY <2>2, <2>6, NoBytes
    <3>6. Parsed(now)'
      BY <3>1, <3>2, <3>4, <3>5 DEF Parsed
    <3> QED
      BY <1>4, <2>1, <2>5, <2>6, <3>6
  <2> QED
    BY <2>7, <2>8
<1>7. CASE PumpBody
  <2>1. PICK k \in 1..Least(left, Len(stream)) :
            /\ stream' = Rest(stream, k)
            /\ msg' = msg \o First(stream, k) /\ left' = left - k
    BY <1>7 DEF PumpBody
  <2>2. /\ fstate = "body" /\ fstate' = "body" /\ partial = <<>> /\ partial' = partial
        /\ op' = op
    BY <1>2, <1>7 DEF PumpBody, Parsed
  <2>3. /\ First(stream, k) \in Bytes /\ Len(First(stream, k)) = k /\ k \in Nat
        /\ k \in 0..Len(stream)
    <3>1. left \in Int /\ Len(stream) \in Nat
      BY <1>1, NoBytes
    <3> QED
      BY <1>1, <3>1, ReadType, LeastOf
  <2>4. Len(msg') + left' = Len(msg) + left
    <3>1. Len(msg') = Len(msg) + k
      BY <1>1, <2>1, <2>3, Joined
    <3> QED
      BY <1>1, <2>1, <2>3, <3>1
  <2>5. PICK now \in Bytes : now = seen \o First(stream, k)
    BY <2>3, Joined
  <2>6. ASSUME NEW h \in Bytes, seen = h \o msg PROVE now = h \o msg'
    <3>1. (h \o msg) \o First(stream, k) = h \o (msg \o First(stream, k))
      BY <1>1, <2>3, Assoc, Zenon
    <3> QED
      BY <2>1, <2>5, <2>6, <3>1
  <2>7. CASE Len(msg) + left # ExtMark /\ seen = <<op, Len(msg) + left>> \o msg
    <3>1. <<op, Len(msg) + left>> \in Bytes
      BY <1>1, Pair
    <3>2. now = <<op', Len(msg') + left'>> \o msg'
      BY <2>2, <2>4, <2>6, <2>7, <3>1
    <3>3. Parsed(now)'
      BY <2>2, <2>4, <2>7, <3>2 DEF Parsed
    <3> QED
      BY <1>4, <2>1, <2>3, <2>5, <3>3
  <2>8. CASE \E x \in Bytes : /\ Len(x) = ExtLen /\ x[ExtLen] = Len(msg) + left
                              /\ seen = (<<op, ExtMark>> \o x) \o msg
    <3>1. PICK x \in Bytes : /\ Len(x) = ExtLen /\ x[ExtLen] = Len(msg) + left
                             /\ seen = (<<op, ExtMark>> \o x) \o msg
      BY <2>8
    <3>2. <<op, ExtMark>> \o x \in Bytes
      BY <1>1, Pair, Joined
    <3>3. now = (<<op', ExtMark>> \o x) \o msg'
      BY <2>2, <2>6, <3>1, <3>2
    <3>4. Parsed(now)'
      BY <2>2, <2>4, <3>1, <3>3 DEF Parsed
    <3> QED
      BY <1>4, <2>1, <2>3, <2>5, <3>4
  <2> QED
    BY <1>2, <2>2, <2>7, <2>8 DEF Parsed
<1> QED
  BY <1>5, <1>6, <1>7

-----------------------------------------------------------------------------
(* Where a message ends.                                                   *)

\* t is p and then u.
Joins(t, p, u) == t = p \o u

\* A sequence starts with one sequence of each length.
LEMMA JoinsUnique ==
    ASSUME NEW t, NEW p \in Bytes, NEW q \in Bytes, NEW u \in Bytes, NEW v \in Bytes,
           Joins(t, p, u), Joins(t, q, v), Len(p) = Len(q)
    PROVE  p = q /\ u = v
BY SplitUnique DEF Joins

\* t starts with a message of that code and payload y, and u is behind it.
Layout(t, code, y, u) ==
    \E h \in Bytes, v \in Bytes :
        /\ Len(h) = 2 /\ h[1] = code /\ Joins(t, h, v)
        /\ \/ h[2] = Len(y) /\ Len(y) # ExtMark /\ Joins(v, y, u)
           \/ /\ h[2] = ExtMark
              /\ \E x \in Bytes, z \in Bytes :
                    /\ Len(x) = ExtLen /\ x[ExtLen] = Len(y)
                    /\ Joins(v, x, z) /\ Joins(z, y, u)

\* A stream starts with one message only.
LEMMA LayoutUnique ==
    ASSUME NEW t, NEW a, NEW m \in Bytes, NEW s \in Bytes,
           NEW b, NEW y \in Bytes, NEW u \in Bytes,
           Layout(t, a, m, s), Layout(t, b, y, u)
    PROVE  a = b /\ m = y /\ s = u
<1>1. PICK h \in Bytes, v \in Bytes :
        /\ Len(h) = 2 /\ h[1] = a /\ Joins(t, h, v)
        /\ \/ h[2] = Len(m) /\ Len(m) # ExtMark /\ Joins(v, m, s)
           \/ /\ h[2] = ExtMark
              /\ \E x \in Bytes, z \in Bytes :
                    /\ Len(x) = ExtLen /\ x[ExtLen] = Len(m)
                    /\ Joins(v, x, z) /\ Joins(z, m, s)
  BY DEF Layout
<1>2. PICK g \in Bytes, w \in Bytes :
        /\ Len(g) = 2 /\ g[1] = b /\ Joins(t, g, w)
        /\ \/ g[2] = Len(y) /\ Len(y) # ExtMark /\ Joins(w, y, u)
           \/ /\ g[2] = ExtMark
              /\ \E x \in Bytes, z \in Bytes :
                    /\ Len(x) = ExtLen /\ x[ExtLen] = Len(y)
                    /\ Joins(w, x, z) /\ Joins(z, y, u)
  BY DEF Layout
<1>3. h = g /\ v = w
  BY <1>1, <1>2, JoinsUnique
<1>4. CASE h[2] # ExtMark
  BY <1>1, <1>2, <1>3, <1>4, JoinsUnique
<1>5. CASE h[2] = ExtMark
  <2>1. PICK x \in Bytes, z \in Bytes :
            /\ Len(x) = ExtLen /\ x[ExtLen] = Len(m) /\ Joins(v, x, z) /\ Joins(z, m, s)
    BY <1>1, <1>5
  <2>2. PICK p \in Bytes, q \in Bytes :
            /\ Len(p) = ExtLen /\ p[ExtLen] = Len(y) /\ Joins(v, p, q) /\ Joins(q, y, u)
    BY <1>2, <1>3, <1>5
  <2>3. x = p /\ z = q
    BY <2>1, <2>2, JoinsUnique
  <2> QED
    BY <1>1, <1>2, <1>3, <2>1, <2>2, <2>3, JoinsUnique
<1> QED
  BY <1>4, <1>5

\* A message whose length is in its second byte, and what follows it.
LEMMA ShortLayout ==
    ASSUME NEW code \in Nat, NEW n \in Nat, NEW y \in Bytes, NEW u \in Bytes,
           n = Len(y), n # ExtMark
    PROVE  Layout((<<code, n>> \o y) \o u, code, y, u)
<1>1. PICK h \in Bytes : h = <<code, n>> /\ Len(h) = 2 /\ h[1] = code /\ h[2] = n
  <2>1. /\ <<code, n>> \in Bytes /\ Len(<<code, n>>) = 2
        /\ <<code, n>>[1] = code /\ <<code, n>>[2] = n
    BY Pair
  <2> QED
    BY <2>1, Zenon
<1>2. PICK v \in Bytes : v = y \o u
  BY Joined
<1>3. (h \o y) \o u = h \o (y \o u)
  BY Assoc, Zenon
<1>4. Joins((h \o y) \o u, h, v) /\ Joins(v, y, u)
  BY <1>2, <1>3 DEF Joins
<1> QED
  BY <1>1, <1>2, <1>4, Zenon DEF Layout

\* Joining is associative, with the joined parts named.
LEMMA JoinedTwice ==
    ASSUME NEW p \in Bytes, NEW q \in Bytes, NEW r \in Bytes, NEW pq, NEW qr,
           pq = p \o q, qr = q \o r
    PROVE  pq \o r = p \o qr
BY Assoc

\* What is behind the first part of three.
LEMMA SplitThree ==
    ASSUME NEW f \in Bytes, NEW y \in Bytes, NEW x \in Bytes, NEW z \in Bytes, NEW w \in Bytes,
           NEW s, NEW v, Len(f) = Len(x), Joins(s, f, y), Joins(s, v, w), Joins(v, x, z)
    PROVE  x = f /\ Joins(y, z, w)
<1>1. PICK q \in Bytes : q = z \o w
  BY Joined
<1>2. Joins(f \o y, f, y) /\ Joins(f \o y, x, q)
  <2>1. f \o y = (x \o z) \o w
    BY DEF Joins
  <2> QED
    BY <1>1, <2>1, JoinedTwice DEF Joins
<1>3. x = f /\ y = q
  BY <1>1, <1>2, JoinsUnique
<1> QED
  BY <1>1, <1>3 DEF Joins

\* The parts of a long message and what follows it.
LEMMA LongJoins ==
    ASSUME NEW h \in Bytes, NEW x \in Bytes, NEW y \in Bytes, NEW u \in Bytes
    PROVE  \E v \in Bytes, z \in Bytes :
              Joins(((h \o x) \o y) \o u, h, v) /\ Joins(v, x, z) /\ Joins(z, y, u)
<1>1. y \o u \in Bytes /\ h \o x \in Bytes
  BY Joined
<1>2. x \o (y \o u) \in Bytes
  BY <1>1, Joined
<1>3. ((h \o x) \o y) \o u = (h \o x) \o (y \o u)
  <2> DEFINE a == h \o x
  <2>1. a \in Bytes
    BY <1>1
  <2> HIDE DEF a
  <2>2. (a \o y) \o u = a \o (y \o u)
    BY <2>1, Assoc
  <2> QED
    BY <2>2 DEF a
<1>4. (h \o x) \o (y \o u) = h \o (x \o (y \o u))
  <2> DEFINE b == y \o u
  <2>1. b \in Bytes
    BY <1>1
  <2> HIDE DEF b
  <2>2. (h \o x) \o b = h \o (x \o b)
    BY <2>1, Assoc
  <2> QED
    BY <2>2 DEF b
<1>5. /\ Joins(((h \o x) \o y) \o u, h, x \o (y \o u))
      /\ Joins(x \o (y \o u), x, y \o u) /\ Joins(y \o u, y, u)
  BY <1>3, <1>4 DEF Joins
<1> QED
  BY <1>1, <1>2, <1>5, Zenon

\* A message whose length has bytes of its own.
LEMMA LongLayout ==
    ASSUME NEW code \in Nat, NEW x \in Bytes, NEW y \in Bytes, NEW u \in Bytes,
           Len(x) = ExtLen, x[ExtLen] = Len(y)
    PROVE  Layout(((<<code, ExtMark>> \o x) \o y) \o u, code, y, u)
<1>1. PICK h \in Bytes :
        h = <<code, ExtMark>> /\ Len(h) = 2 /\ h[1] = code /\ h[2] = ExtMark
  <2>1. ExtMark \in Nat
    BY DEF ExtMark
  <2>2. /\ <<code, ExtMark>> \in Bytes /\ Len(<<code, ExtMark>>) = 2
        /\ <<code, ExtMark>>[1] = code /\ <<code, ExtMark>>[2] = ExtMark
    BY <2>1, Pair
  <2> QED
    BY <2>2, Zenon
<1>2. PICK v \in Bytes, z \in Bytes :
        Joins(((h \o x) \o y) \o u, h, v) /\ Joins(v, x, z) /\ Joins(z, y, u)
  BY LongJoins, Zenon
<1> QED
  BY <1>1, <1>2, Zenon DEF Layout

\* A message is laid out as _parse reads it, whatever its length.
LEMMA MessageLayout ==
    ASSUME NEW code \in Nat, NEW y \in Bytes, NEW u \in Bytes
    PROVE  Layout(Message(code, y) \o u, code, y, u)
<1>1. Len(y) \in Nat /\ Small \in 1..125 /\ ExtMark = 126
  BY NoBytes, Constants DEF ExtMark
<1>2. CASE Len(y) <= Small
  <2>1. Len(y) # ExtMark
    <3>1. \A n \in Nat : n <= Small => n # 126
      BY <1>1
    <3> QED
      BY <1>1, <1>2, <3>1
  <2>2. Message(code, y) = <<code, Len(y)>> \o y
    BY <1>2 DEF Message
  <2> QED
    BY <1>1, <2>1, <2>2, ShortLayout, Zenon
<1>3. CASE ~(Len(y) <= Small)
  <2>1. PICK x \in Bytes : /\ x = Fill(ExtLen, Len(y))
                           /\ Len(x) = ExtLen /\ x[ExtLen] = Len(y)
    <3>1. ExtLen \in Nat /\ ExtLen \in 1..ExtLen
      BY Constants
    <3> QED
      BY <1>1, <3>1, Filled
  <2>2. Message(code, y) = (<<code, ExtMark>> \o x) \o y
    BY <1>3, <2>1 DEF Message
  <2> QED
    BY <2>1, <2>2, LongLayout, Zenon
<1> QED
  BY <1>2, <1>3

\* What WSClient has parsed to its end is a message.
LEMMA ParsedLayout ==
    ASSUME TypeOK, fstate = "body", left = 0, NEW seen \in Bytes, Parsed(seen), NEW s \in Bytes
    PROVE  Layout(seen \o s, op, msg, s)
<1>1. /\ msg \in Bytes /\ Len(msg) \in Nat /\ op \in Nat /\ Len(msg) + left = Len(msg)
  BY TypeParts, NoBytes DEF ParserOK
<1>2. CASE Len(msg) # ExtMark /\ seen = <<op, Len(msg)>> \o msg
  BY <1>1, <1>2, ShortLayout, Zenon
<1>3. CASE \E x \in Bytes : /\ Len(x) = ExtLen /\ x[ExtLen] = Len(msg)
                            /\ seen = (<<op, ExtMark>> \o x) \o msg
  <2>1. PICK x \in Bytes : /\ Len(x) = ExtLen /\ x[ExtLen] = Len(msg)
                           /\ seen = (<<op, ExtMark>> \o x) \o msg
    BY <1>3
  <2> QED
    BY <1>1, <2>1, LongLayout, Zenon
<1> QED
  BY <1>1, <1>2, <1>3 DEF Parsed

\* A message parsed to its end is the first one there was.
LEMMA MessageParsed ==
    ASSUME TypeOK, fstate = "body", left = 0, NEW seen \in Bytes, Parsed(seen),
           NEW s \in Bytes, NEW u \in Bytes, NEW code \in Nat, NEW y \in Bytes,
           seen \o s = Message(code, y) \o u
    PROVE  op = code /\ msg = y /\ s = u
<1>1. PICK t : t = seen \o s
  OBVIOUS
<1>2. Layout(t, op, msg, s)
  BY <1>1, ParsedLayout
<1>3. Layout(t, code, y, u)
  BY <1>1, MessageLayout
<1>4. msg \in Bytes
  BY TypeParts DEF ParserOK
<1> QED
  BY <1>2, <1>3, <1>4, LayoutUnique

-----------------------------------------------------------------------------
(* The steps.                                                              *)

\* WSClient passes on what a whole message carries, and nothing else.
LEMMA MessageStep ==
    ASSUME TypeOK, NEW b \in Nat, ReaderInv(recvBuf, b), WireInv(stream, b), PumpMessage
    PROVE  \/ pc' = "failed" /\ (faulty \/ clipped')
           \/ /\ pc' # "failed"
              /\ \E c \in Nat : ReaderInv(recvBuf, c)' /\ WireInv(stream, c)'
<1>0. pc = "poll" /\ Dispatch
  BY DEF PumpMessage, Pumping
<1>1. /\ ReaderOK /\ ParserOK /\ stream \in Bytes /\ fstate = "body" /\ left = 0
      /\ Dispatch /\ Reset /\ UNCHANGED <<stream, sentIn, faulty, partial, hdr, body, frames>>
      /\ hdr \in Bytes /\ body \in Bytes /\ recvBuf \in Bytes /\ msg \in Bytes
  BY TypeParts DEF SocketOK, ParserOK, ReaderOK, PumpMessage, connVars, readerVars
<1>2. PICK seen \in Bytes :
        Parsed(seen) /\ Backlog(seen \o stream, b, Len(sentIn), sentIn, TRUE, faulty)
  BY DEF WireInv
<1>3. seen \o stream \in Bytes /\ seen \o stream # <<>>
  <2>1. Layout(seen \o stream, op, msg, stream)
    BY <1>1, <1>2, ParsedLayout
  <2>2. PICK h \in Bytes, v \in Bytes : Len(h) = 2 /\ seen \o stream = h \o v
    BY <2>1 DEF Layout, Joins
  <2>3. seen \o stream \in Bytes /\ h \o v \in Bytes
    BY <1>1, Joined
  <2>4. h \o v # <<>>
    <3>1. Len(h \o v) = Len(h) + Len(v) /\ Len(v) \in Nat
      BY Joined
    <3>2. Len(h \o v) # 0
      BY <2>2, <3>1
    <3> QED
      BY <2>3, <3>2, NoBytes
  <2> QED
    BY <2>2, <2>3, <2>4
<1>4. Len(sentIn) \in Nat
  <2>1. sentIn \in Seq(Bytes)
    BY TypeParts DEF SocketOK
  <2> QED
    BY <2>1, LenProperties
<1>5. PICK p \in Bytes, u \in Bytes, c \in Nat :
        /\ Piece(p, b, c, sentIn, TRUE, faulty) /\ seen \o stream = p \o u
        /\ Backlog(u, c, Len(sentIn), sentIn, TRUE, faulty)
  BY <1>2, <1>3, <1>4, BacklogFirst
<1>6. ASSUME NEW code \in Nat, NEW y \in Bytes, p = Message(code, y)
      PROVE  op = code /\ msg = y /\ stream = u
  BY <1>1, <1>2, <1>5, <1>6, MessageParsed
<1>7. ASSUME stream = u PROVE WireInv(stream, c)'
  <2>1. fstate' = "hdr2" /\ partial' = <<>>
    BY <1>1, <1>2 DEF Parsed, Reset
  <2>2. Parsed(<<>>)'
    BY <2>1, NoBytes DEF Parsed
  <2>3. <<>> \o stream' = u
    BY <1>1, <1>7, NoBytes
  <2>4. Backlog(<<>> \o stream', c, Len(sentIn'), sentIn', TRUE, faulty')
    BY <1>1, <1>5, <2>3
  <2> QED
    BY <2>2, <2>4, NoBytes DEF WireInv
\* A message that leaves FrameReader's bytes alone.
<1>8. ASSUME c = b, UNCHANGED recvBuf PROVE ReaderInv(recvBuf, c)'
  BY <1>1, <1>8 DEF ReaderInv
\* One that adds to them.
<1>9. ASSUME recvBuf' = recvBuf \o msg, Piece(msg, b, c, sentIn, FALSE, faulty)
      PROVE  ReaderInv(recvBuf, c)'
  <2>1. PICK q \in Bytes : q = hdr \o body
    BY <1>1, Joined
  <2>2. q \o (recvBuf \o msg) = (q \o recvBuf) \o msg /\ q \o recvBuf \in Bytes
    <3>1. recvBuf \in Bytes /\ msg \in Bytes
      BY <1>1
    <3>2. (q \o recvBuf) \o msg = q \o (recvBuf \o msg)
      BY <3>1, Assoc, Zenon
    <3>3. q \o recvBuf \in Bytes
      BY <3>1, Joined
    <3> QED
      BY <3>2, <3>3, Zenon
  <2>3. Len(frames) \in Nat
    BY <1>1, NoBytes DEF ReaderOK
  <2>4. Backlog(q \o recvBuf, Len(frames), b, sentIn, FALSE, faulty)
    BY <2>1 DEF ReaderInv
  <2>5. Backlog((q \o recvBuf) \o msg, Len(frames), c, sentIn, FALSE, faulty)
    BY <1>1, <1>9, <2>2, <2>3, <2>4, BacklogExtend
  <2> QED
    BY <1>1, <1>9, <2>1, <2>2, <2>5 DEF ReaderInv
<1>10. CASE /\ c = b + 1 /\ c <= Len(sentIn) /\ sentIn[c] \in Bytes /\ Len(sentIn[c]) <= Cap
            /\ p = Message(Code.frame, Packet(sentIn[c]))
  <2>1. op = Code.frame /\ msg = Packet(sentIn[c]) /\ stream = u
    BY <1>6, <1>10, Codes, PacketBytes
  <2>2. recvBuf' = recvBuf \o msg /\ pc' # "failed"
    BY <1>0, <2>1, Codes DEF Dispatch
  <2>3. Piece(msg, b, c, sentIn, FALSE, faulty)
    BY <1>10, <2>1 DEF Piece, Carried
  <2> QED
    BY <1>7, <1>9, <2>1, <2>2, <2>3
<1>11. CASE c = b /\ faulty /\ p = Message(Code.frame, HugeHdr)
  <2>1. HugeHdr \in Bytes
    BY Constants, Filled DEF HugeHdr
  <2>2. op = Code.frame /\ msg = HugeHdr /\ stream = u
    BY <1>6, <1>11, <2>1, Codes
  <2>3. recvBuf' = recvBuf \o msg /\ pc' # "failed"
    BY <1>0, <2>2, Codes DEF Dispatch
  <2>4. Piece(msg, b, c, sentIn, FALSE, faulty)
    BY <1>11, <2>2 DEF Piece, Others, Carried
  <2> QED
    BY <1>7, <1>9, <2>2, <2>3, <2>4
<1>12. CASE /\ c = b
            /\ p \in {Message(Code.ping, <<>>), Message(Code.ping, <<1>>),
                      Message(Code.pong, <<>>)}
  <2>1. <<1>> \in Bytes /\ <<>> \in Bytes
    BY NoBytes DEF Bytes
  <2>2. op \in {Code.ping, Code.pong} /\ stream = u
    BY <1>6, <1>12, <2>1, Codes
  <2>3. UNCHANGED recvBuf /\ (pc' = "failed" => clipped')
    BY <1>0, <2>2, Codes DEF Dispatch, SendControl, SendMessage
  <2> QED
    BY <1>7, <1>8, <1>12, <2>2, <2>3
<1>13. CASE faulty /\ p \in {Message(Code.close, <<>>), Message(Code.fragment, <<>>)}
  <2>1. op \in {Code.close, Code.fragment}
    BY <1>6, <1>13, Codes, NoBytes
  <2>2. pc' = "failed"
    BY <1>1, <2>1, Codes DEF Dispatch
  <2> QED
    BY <1>13, <2>2
<1> QED
  BY <1>5, <1>10, <1>11, <1>12, <1>13 DEF Piece, Others, Carried

\* What the server sends is one more piece, or nothing; what it has sent stays.
LEMMA ServerPiece ==
    ASSUME TypeOK, ServerSends
    PROVE  /\ Len(sentIn) \in Nat /\ Len(sentIn') \in Nat /\ Len(sentIn) <= Len(sentIn')
           /\ \A k \in Nat \ {0} :
                k <= Len(sentIn) => k <= Len(sentIn') /\ sentIn'[k] = sentIn[k]
           /\ faulty => faulty'
           /\ \/ UNCHANGED <<stream, sentIn>>
              \/ \E p \in Bytes : /\ stream' = stream \o p
                                  /\ Piece(p, Len(sentIn), Len(sentIn'), sentIn', Wss, faulty')
<1>1. sentIn \in Seq(Bytes) /\ Len(sentIn) \in Nat
  <2>1. sentIn \in Seq(Bytes)
    BY TypeParts DEF SocketOK
  <2> QED
    BY <2>1, LenProperties
<1>2. \A bytes : Data(bytes) = Carried(Wss, bytes)
  BY DEF Data, Carried
<1>3. ASSUME NEW p \in Bytes, stream' = stream \o p, UNCHANGED sentIn, p \in Others(Wss, faulty')
      PROVE  /\ Len(sentIn') \in Nat /\ Len(sentIn) <= Len(sentIn')
             /\ \A k \in Nat \ {0} :
                  k <= Len(sentIn) => k <= Len(sentIn') /\ sentIn'[k] = sentIn[k]
             /\ \E q \in Bytes : /\ stream' = stream \o q
                                 /\ Piece(q, Len(sentIn), Len(sentIn'), sentIn', Wss, faulty')
  <2>1. Piece(p, Len(sentIn), Len(sentIn'), sentIn', Wss, faulty')
    BY <1>3, Zenon DEF Piece
  <2>2. /\ Len(sentIn') \in Nat /\ Len(sentIn) <= Len(sentIn')
        /\ \A k \in Nat \ {0} :
                  k <= Len(sentIn) => k <= Len(sentIn') /\ sentIn'[k] = sentIn[k]
    BY <1>1, <1>3
  <2> QED
    BY <1>3, <2>1, <2>2, Zenon
<1>4. CASE /\ \E n \in BodyLens :
                LET bytes == Fill(n, items + 1) IN
                /\ stream' = stream \o Data(Packet(bytes))
                /\ sentIn' = Append(sentIn, bytes)
           /\ UNCHANGED <<eof, faulty>>
  <2>1. PICK n \in BodyLens : /\ stream' = stream \o Data(Packet(Fill(n, items + 1)))
                              /\ sentIn' = Append(sentIn, Fill(n, items + 1))
    BY <1>4
  <2>2. PICK y : y = Fill(n, items + 1)
    OBVIOUS
  <2>3. y \in Bytes /\ Len(y) <= Cap
    <3>1. items + 1 \in Nat /\ n \in 0..Cap /\ Cap \in Nat
      BY TypeParts, Constants DEF SocketOK
    <3> QED
      BY <2>2, <3>1, Filled
  <2>4. /\ Len(sentIn') = Len(sentIn) + 1 /\ sentIn'[Len(sentIn) + 1] = y
        /\ \A k \in 1..Len(sentIn) : sentIn'[k] = sentIn[k]
    BY <1>1, <2>1, <2>2, <2>3, AppendProperties
  <2>5. PICK p \in Bytes : p = Carried(Wss, Packet(y))
    BY <2>3, Codes, PacketBytes, MessageBytes DEF Carried
  <2>6. stream' = stream \o p
    BY <1>2, <2>1, <2>2, <2>5
  <2>7. Piece(p, Len(sentIn), Len(sentIn'), sentIn', Wss, faulty')
    BY <1>1, <2>3, <2>4, <2>5 DEF Piece
  <2>8. \A k \in Nat \ {0} :
            k <= Len(sentIn) => k <= Len(sentIn') /\ sentIn'[k] = sentIn[k]
    BY <1>1, <2>4
  <2>9. Len(sentIn') \in Nat /\ Len(sentIn) <= Len(sentIn') /\ (faulty => faulty')
    BY <1>1, <1>4, <2>4
  <2> QED
    BY <1>1, <2>6, <2>7, <2>8, <2>9, Zenon
<1>5. CASE /\ stream' = stream \o Data(Fill(HdrLen, Cap + 1)) /\ faulty' = TRUE
           /\ UNCHANGED <<eof, sentIn>>
  <2>1. HugeHdr \in Bytes
    BY Constants, Filled DEF HugeHdr
  <2>2. PICK p \in Bytes : p = Carried(Wss, HugeHdr)
    BY <2>1, Codes, MessageBytes DEF Carried
  <2>3. stream' = stream \o p
    BY <1>2, <1>5, <2>2 DEF HugeHdr
  <2>4. p \in Others(Wss, faulty')
    BY <1>5, <2>2 DEF Others
  <2>5. UNCHANGED sentIn /\ faulty'
    BY <1>5
  <2> QED
    BY <1>1, <1>3, <2>3, <2>4, <2>5, Zenon
<1>6. CASE /\ Wss
           /\ \E kind \in Items \cap {"ping", "pong", "close", "fragment"} :
                /\ \E n \in (IF kind = "ping" THEN 0..1 ELSE {0}) :
                        stream' = stream \o Message(Code[kind], Fill(n, 1))
                /\ faulty' = (faulty \/ kind \in {"close", "fragment"})
           /\ UNCHANGED <<eof, sentIn>>
  <2>1. PICK kind \in Items \cap {"ping", "pong", "close", "fragment"} :
                /\ \E n \in (IF kind = "ping" THEN 0..1 ELSE {0}) :
                        stream' = stream \o Message(Code[kind], Fill(n, 1))
                /\ faulty' = (faulty \/ kind \in {"close", "fragment"})
    BY <1>6
  <2>2. PICK n \in (IF kind = "ping" THEN 0..1 ELSE {0}) :
            stream' = stream \o Message(Code[kind], Fill(n, 1))
    BY <2>1
  <2>3. n \in {0, 1} /\ (kind # "ping" => n = 0)
    BY <2>2
  <2>4. Fill(0, 1) = <<>> /\ Fill(1, 1) = <<1>>
    BY DEF Fill
  <2>5. Code[kind] \in Nat /\ Fill(n, 1) \in Bytes
    BY <2>3, Codes, Filled
  <2>6. PICK p \in Bytes : p = Message(Code[kind], Fill(n, 1))
    BY <2>5, MessageBytes
  <2>7. p \in Others(Wss, faulty')
    BY <1>6, <2>1, <2>3, <2>4, <2>6 DEF Others
  <2>8. UNCHANGED sentIn /\ (faulty => faulty') /\ stream' = stream \o p
    BY <1>6, <2>1, <2>2, <2>6
  <2> QED
    BY <1>1, <1>3, <2>7, <2>8, Zenon
<1>7. CASE eof' = TRUE /\ UNCHANGED <<stream, sentIn, faulty>>
  BY <1>1, <1>7
<1> QED
  BY <1>4, <1>5, <1>6, <1>7 DEF ServerSends

\* A response's end of header comes once, at its end, or not at all.
LEMMA ResponseBytes ==
    ASSUME NEW r \in Responses
    PROVE  /\ r \in Bytes /\ r # <<>>
           /\ \/ Len(r) = 2 /\ r[1] # HeadEnd /\ r[2] = HeadEnd
              \/ Len(r) = MaxHead + 1 /\ \A i \in 1..Len(r) : r[i] # HeadEnd
<1>1. CASE r = <<Accepted, HeadEnd>> \/ r = <<0, HeadEnd>>
  <2>1. r \in Bytes /\ Len(r) = 2 /\ r[1] # HeadEnd /\ r[2] = HeadEnd
    BY <1>1, Pair DEF Accepted, HeadEnd
  <2> QED
    BY <2>1, NoBytes
<1>2. CASE r = Fill(MaxHead + 1, Accepted)
  <2>1. MaxHead + 1 \in Nat /\ MaxHead + 1 # 0 /\ Accepted \in Nat /\ Accepted # HeadEnd
    BY Constants DEF Accepted, HeadEnd
  <2>2. r \in Bytes /\ Len(r) = MaxHead + 1 /\ \A i \in 1..(MaxHead + 1) : r[i] = Accepted
    BY <1>2, <2>1, Filled
  <2> QED
    BY <2>1, <2>2, NoBytes
<1> QED
  BY <1>1, <1>2 DEF Responses

\* The response is read to its end and not beyond it.
LEMMA ResponseStep ==
    ASSUME TypeOK, NEW w \in Bytes, Upgrading(w), ReadResponse
    PROVE  /\ pc' \in {"upgrade", "idle", "refused"}
           /\ pc' = "upgrade" => Upgrading(w)'
           /\ pc' = "idle" => stream' = w
<1>1. PICK r \in Responses, v \in Bytes : v # <<>> /\ r = head \o v /\ stream = v \o w
  BY DEF Upgrading
<1>2. /\ head \in Bytes /\ stream \in Bytes /\ Len(stream) \in Nat /\ Len(v) \in Nat
      /\ Len(v) # 0 /\ Len(stream) = Len(v) + Len(w) /\ Len(w) \in Nat
      /\ Len(head) \in Nat /\ MaxHead \in Nat
  <2>1. Len(v \o w) = Len(v) + Len(w)
    BY Joined
  <2> QED
    BY <1>1, <2>1, TypeParts, NoBytes, Constants DEF SocketOK
<1>3. 1 \in 0..Len(v) /\ 1 \in 0..Len(stream) /\ 1 \in 1..1
  BY <1>2
<1>4. PICK x \in Bytes, z \in Bytes : x \o z = v /\ Len(x) = 1
  BY <1>3, CutInTwo
<1>5. PICK y \in Bytes : y = Rest(stream, 1) /\ First(stream, 1) \in Bytes
                         /\ Len(First(stream, 1)) = 1 /\ First(stream, 1) \o y = stream
                         /\ First(stream, 1)[1] = stream[1]
  BY <1>2, <1>3, CutInTwo
<1>6. x = First(stream, 1) /\ z \o w = y
  <2>1. PICK f \in Bytes : f = First(stream, 1) /\ Len(f) = 1 /\ f \o y = stream
    BY <1>5
  <2>2. /\ Len(f) = Len(x)
        /\ Joins(stream, f, y) /\ Joins(stream, v, w) /\ Joins(v, x, z)
    BY <1>1, <1>4, <2>1 DEF Joins
  <2>3. x = f /\ Joins(y, z, w)
    BY <2>2, SplitThree
  <2> QED
    BY <2>1, <2>3 DEF Joins
<1>7. stream' = y /\ head' = Append(head, stream[1])
  BY <1>5 DEF ReadResponse
<1>8. PICK h \in Bytes : h = head' /\ Len(h) = Len(head) + 1 /\ h[Len(h)] = stream[1]
                         /\ h = head \o x
  <2>1. stream[1] \in Nat
    BY <1>2, <1>3, ElementOfSeq DEF Bytes
  <2>2. /\ Append(head, stream[1]) \in Bytes
        /\ Len(Append(head, stream[1])) = Len(head) + 1
        /\ Append(head, stream[1])[Len(head) + 1] = stream[1]
    BY <1>2, <2>1, AppendProperties DEF Bytes
  <2>3. Append(head, stream[1]) = head \o <<stream[1]>>
    BY <1>2, <2>1, AppendIsConcat DEF Bytes
  <2>4. x = <<stream[1]>>
    <3>1. /\ <<stream[1]>> \in Bytes /\ Len(<<stream[1]>>) = 1 /\ <<stream[1]>>[1] = stream[1]
      BY <2>1 DEF Bytes
    <3>2. \A i \in 1..1 : i = 1
      OBVIOUS
    <3>3. \A i \in 1..Len(x) : x[i] = <<stream[1]>>[i]
      BY <1>4, <1>5, <1>6, <3>1, <3>2
    <3> QED
      BY <1>4, <3>1, <3>3, SeqEqual DEF Bytes
  <2> QED
    BY <1>7, <2>2, <2>3, <2>4
<1>9. h \o z = r
  <2>1. (head \o x) \o z = head \o (x \o z)
    <3>1. head \in Bytes
      BY <1>2
    <3> QED
      BY <3>1, Assoc, Zenon
  <2> QED
    BY <1>1, <1>4, <1>8, <2>1
<1>10. /\ Len(r) = Len(h) + Len(z) /\ Len(z) \in Nat /\ Len(h) \in Nat
       /\ Len(h) \in 1..Len(h) /\ \A i \in 1..Len(h) : h[i] = r[i]
  <2>1. /\ Len(h \o z) = Len(h) + Len(z) /\ Len(z) \in Nat /\ Len(h) \in Nat
        /\ \A i \in 1..Len(h) : (h \o z)[i] = h[i]
    BY Joined
  <2>2. Len(h) \in 1..Len(h)
    BY <1>2, <1>8
  <2> QED
    BY <1>9, <2>1, <2>2
<1>11. /\ pc' = IF Len(h) > MaxHead THEN "refused"
                ELSE IF h[Len(h)] # HeadEnd THEN "upgrade"
                ELSE IF h[1] = Accepted THEN "idle" ELSE "refused"
  BY <1>8 DEF ReadResponse
<1>12. ASSUME pc' = "upgrade" PROVE Upgrading(w)'
  <2>1. Len(h) <= MaxHead /\ h[Len(h)] # HeadEnd
    BY <1>2, <1>10, <1>11, <1>12
  <2>2. Len(z) # 0
    BY <1>2, <1>10, <2>1, ResponseBytes
  <2> QED
    BY <1>6, <1>7, <1>8, <1>9, <2>2, NoBytes DEF Upgrading
<1>13. ASSUME pc' = "idle" PROVE stream' = w
  <2>1. Len(h) <= MaxHead /\ h[Len(h)] = HeadEnd
    BY <1>2, <1>10, <1>11, <1>13
  <2>2. r[Len(h)] = HeadEnd /\ Len(h) \in 1..Len(r)
    BY <1>10, <2>1
  <2>3. Len(r) = 2 /\ r[1] # HeadEnd
    BY <2>2, ResponseBytes
  <2>4. Len(h) = 2
    <3>1. Len(h) \in 1..2
      BY <2>2, <2>3
    <3>2. Len(h) # 1
      BY <2>2, <2>3
    <3> QED
      BY <3>1, <3>2
  <2>5. Len(z) = 0
    <3>1. Len(r) = Len(h) + Len(z) /\ Len(z) \in Nat
      BY <1>10
    <3>2. \A n \in Nat : 2 = 2 + n => n = 0
      OBVIOUS
    <3> QED
      BY <2>3, <2>4, <3>1, <3>2, Zenon
  <2> QED
    BY <1>6, <1>7, <2>5, NoBytes
<1> QED
  BY <1>11, <1>12, <1>13

\* What is under way, and one more piece from the server behind it.
LEMMA BacklogGrows ==
    ASSUME TypeOK, ServerSends, NEW t \in Bytes, NEW a \in Nat, NEW w,
           Backlog(t, a, Len(sentIn), sentIn, w, faulty), NEW p \in Bytes,
           Piece(p, Len(sentIn), Len(sentIn'), sentIn', w, faulty')
    PROVE  Backlog(t \o p, a, Len(sentIn'), sentIn', w, faulty')
<1>1. /\ Len(sentIn) \in Nat /\ Len(sentIn') \in Nat /\ (faulty => faulty')
      /\ \A k \in Nat \ {0} :
            k <= Len(sentIn) => k <= Len(sentIn') /\ sentIn'[k] = sentIn[k]
  BY ServerPiece
<1>2. Backlog(t, a, Len(sentIn), sentIn', w, faulty')
  BY <1>1, BacklogKept
<1> QED
  BY <1>1, <1>2, BacklogExtend

\* Nothing is under way at the start but the response to the upgrade.
LEMMA FlowInit == Init => FlowInv
<1> SUFFICES ASSUME Init PROVE FlowInv
  OBVIOUS
<1>1. /\ hdr = <<>> /\ body = <<>> /\ needed = -1 /\ recvBuf = <<>> /\ frames = <<>>
      /\ sentIn = <<>> /\ head = <<>> /\ Len(sentIn) = 0 /\ Len(frames) = 0
  BY NoBytes DEF Init, FreshReader, FreshClient
<1>2. \A w, f : Backlog(<<>>, 0, 0, sentIn, w, f)
  BY BacklogEmpty
<1>3. CASE Wss
  <2>1. pc = "upgrade" /\ stream \in Responses
    BY <1>3 DEF Init, Opened
  <2>2. stream \in Bytes /\ stream # <<>>
    BY <2>1, ResponseBytes
  <2>3. Upgrading(<<>>)
    BY <1>1, <2>1, <2>2, NoBytes DEF Upgrading
  <2>4. <<>> \in Bytes /\ Backlog(<<>>, 0, Len(sentIn), sentIn, TRUE, faulty)
    BY <1>1, <1>2, NoBytes
  <2> QED
    BY <1>1, <1>3, <2>1, <2>3, <2>4 DEF FlowInv, Live, InSendall
<1>4. CASE ~Wss
  <2>1. pc = "idle" /\ stream = <<>>
    BY <1>4 DEF Init, Opened
  <2>2. (hdr \o body) \o stream = <<>>
    BY <1>1, <2>1, NoBytes
  <2>3. ReaderInv(stream, Len(sentIn))
    BY <1>1, <1>2, <2>2 DEF ReaderInv
  <2> QED
    BY <1>1, <1>4, <2>1, <2>3 DEF FlowInv
<1> QED
  BY <1>3, <1>4

\* A step that touches nothing of what is under way.
LEMMA FlowFrame ==
    ASSUME FlowInv, UNCHANGED <<transport, stream, sentIn, faulty, head>>,
           UNCHANGED <<readerVars, parserVars, recvBuf>>,
           Live' => Live, pc' = "upgrade" => pc = "upgrade"
    PROVE  FlowInv'
<1>1. \A w : Upgrading(w)' <=> Upgrading(w)
  BY DEF Upgrading
<1>2. /\ \A b : ReaderInv(stream, b)' <=> ReaderInv(stream, b)
      /\ \A b : ReaderInv(recvBuf, b)' <=> ReaderInv(recvBuf, b)
  BY DEF ReaderInv, readerVars
<1>3. \A b : WireInv(stream, b)' <=> WireInv(stream, b)
  BY DEF WireInv, Parsed, parserVars
<1> QED
  BY <1>1, <1>2, <1>3 DEF FlowInv, readerVars, Wss

\* What the server sends is behind all that is under way.
LEMMA FlowServer ==
    ASSUME TypeOK, FlowInv, ServerSends
    PROVE  FlowInv'
<1>1. /\ UNCHANGED <<transport, pc, head, hdr, body, needed, frames, recvBuf, fstate, partial,
                    op, left, msg>>
      /\ hdr \in Bytes /\ body \in Bytes /\ recvBuf \in Bytes /\ stream \in Bytes
      /\ Len(frames) \in Nat /\ Len(sentIn) \in Nat /\ Len(sentIn') \in Nat
  <2>1. UNCHANGED <<transport, pc, head, hdr, body, needed, frames, recvBuf, fstate, partial,
                    op, left, msg>>
    BY DEF ServerSends, readerVars, parserVars
  <2>2. hdr \in Bytes /\ body \in Bytes /\ recvBuf \in Bytes /\ stream \in Bytes
    BY TypeParts DEF ReaderOK, ParserOK, SocketOK
  <2>3. Len(frames) \in Nat
    <3>1. frames \in Seq(Bytes)
      BY TypeParts DEF SocketOK, ReaderOK, ParserOK
    <3> QED
      BY <3>1, LenProperties
  <2>4. Len(sentIn) \in Nat /\ Len(sentIn') \in Nat
    BY ServerPiece
  <2> QED
    BY <2>1, <2>2, <2>3, <2>4
<1>2. ASSUME NEW t, NEW a, NEW b, NEW w, Backlog(t, a, b, sentIn, w, faulty)
      PROVE  Backlog(t, a, b, sentIn', w, faulty')
  BY <1>2, ServerPiece, BacklogKept
\* Over either transport, what is behind s0 in the stream grows by one piece.
<1>3. ASSUME NEW s0 \in Bytes, NEW s1 \in Bytes, stream = s0 \o s1,
             NEW t \in Bytes, NEW a \in Nat, Backlog(t \o s1, a, Len(sentIn), sentIn, Wss, faulty)
      PROVE  \E s2 \in Bytes : /\ stream' = s0 \o s2
                               /\ Backlog(t \o s2, a, Len(sentIn'), sentIn', Wss, faulty')
  <2>1. CASE UNCHANGED <<stream, sentIn>>
    BY <1>2, <1>3, <2>1, Zenon
  <2>2. CASE \E p \in Bytes : /\ stream' = stream \o p
                              /\ Piece(p, Len(sentIn), Len(sentIn'), sentIn', Wss, faulty')
    <3>1. PICK p \in Bytes : /\ stream' = stream \o p
                             /\ Piece(p, Len(sentIn), Len(sentIn'), sentIn', Wss, faulty')
      BY <2>2
    <3>2. PICK s2 \in Bytes : s2 = s1 \o p
      BY Joined
    <3>3. Joins(stream', s0, s2)
      BY <1>3, <3>1, <3>2, JoinedTwice DEF Joins
    <3>4. PICK ts \in Bytes : ts = t \o s1
      BY Joined
    <3>5. Joins(ts \o p, t, s2)
      BY <3>2, <3>4, JoinedTwice DEF Joins
    <3>6. Backlog(ts \o p, a, Len(sentIn'), sentIn', Wss, faulty')
      BY <1>3, <3>1, <3>4, BacklogGrows
    <3> QED
      BY <3>3, <3>5, <3>6, Zenon DEF Joins
  <2> QED
    BY <2>1, <2>2, ServerPiece
<1>4. ASSUME NEW t \in Bytes, NEW a \in Nat,
             Backlog(t \o stream, a, Len(sentIn), sentIn, Wss, faulty)
      PROVE  Backlog(t \o stream', a, Len(sentIn'), sentIn', Wss, faulty')
  <2>1. <<>> \in Bytes /\ stream = <<>> \o stream /\ \A s \in Bytes : <<>> \o s = s
    BY <1>1, NoBytes
  <2>2. PICK s2 \in Bytes : /\ stream' = <<>> \o s2
                            /\ Backlog(t \o s2, a, Len(sentIn'), sentIn', Wss, faulty')
    BY <1>1, <1>3, <1>4, <2>1, Zenon
  <2> QED
    BY <2>1, <2>2
<1>5. ASSUME Live, ~Wss, ReaderInv(stream, Len(sentIn)) PROVE ReaderInv(stream, Len(sentIn))'
  <2>1. PICK t \in Bytes : t = hdr \o body
    BY <1>1, Joined
  <2>2. Wss = FALSE
    BY <1>5 DEF Wss
  <2>3. Backlog(t \o stream, Len(frames), Len(sentIn), sentIn, Wss, faulty)
    BY <1>5, <2>1, <2>2 DEF ReaderInv
  <2>4. Backlog(t \o stream', Len(frames), Len(sentIn'), sentIn', Wss, faulty')
    BY <1>1, <1>4, <2>3
  <2> QED
    BY <1>1, <2>1, <2>2, <2>4 DEF ReaderInv
<1>6. ASSUME NEW b \in Nat, ReaderInv(recvBuf, b) PROVE ReaderInv(recvBuf, b)'
  BY <1>1, <1>2, <1>6 DEF ReaderInv
<1>7. ASSUME Wss, NEW b \in Nat, WireInv(stream, b) PROVE WireInv(stream, b)'
  <2>1. PICK seen \in Bytes :
          Parsed(seen) /\ Backlog(seen \o stream, b, Len(sentIn), sentIn, TRUE, faulty)
    BY <1>7 DEF WireInv
  <2>2. Backlog(seen \o stream', b, Len(sentIn'), sentIn', TRUE, faulty')
    BY <1>4, <1>7, <2>1
  <2>3. Parsed(seen)'
    BY <1>1, <2>1 DEF Parsed
  <2> QED
    BY <2>2, <2>3 DEF WireInv
<1>8. ASSUME Wss, NEW w \in Bytes, Upgrading(w), Backlog(w, 0, Len(sentIn), sentIn, TRUE, faulty)
      PROVE  \E z \in Bytes : Upgrading(z)' /\ Backlog(z, 0, Len(sentIn'), sentIn', TRUE, faulty')
  <2>1. PICK r \in Responses, v \in Bytes : v # <<>> /\ r = head \o v /\ stream = v \o w
    BY <1>8 DEF Upgrading
  <2>2. <<>> \in Bytes /\ \A s \in Bytes : <<>> \o s = s
    BY NoBytes
  <2>3. Backlog(<<>> \o w, 0, Len(sentIn), sentIn, Wss, faulty)
    BY <1>8, <2>2
  <2>4. PICK z \in Bytes : /\ stream' = v \o z
                           /\ Backlog(<<>> \o z, 0, Len(sentIn'), sentIn', Wss, faulty')
    BY <1>3, <2>1, <2>2, <2>3
  <2>5. Upgrading(z)'
    BY <1>1, <2>1, <2>4 DEF Upgrading
  <2> QED
    BY <1>8, <2>2, <2>4, <2>5
<1> QED
  BY <1>1, <1>5, <1>6, <1>7, <1>8 DEF FlowInv, Live, Wss

\* FrameReader's reads, over either transport: nothing new, the next frame, or a length
\* above the limit.
LEMMA FlowRead ==
    ASSUME TypeOK, FlowInv, RawRecv \/ WsRecv
    PROVE  /\ FlowInv'
           /\ \/ /\ pc' \in {"idle", "poll"}
                 /\ \/ frames' = frames
                    \/ /\ Len(frames) < Len(sentIn)
                       /\ frames' = Append(frames, sentIn[Len(frames) + 1])
              \/ pc' = "failed" /\ frames' = frames /\ faulty
<1>1. /\ stream \in Bytes /\ recvBuf \in Bytes /\ Len(sentIn) \in Nat
      /\ needed # -1 => needed = hdr[HdrLen]
  <2>1. sentIn \in Seq(Bytes)
    BY TypeParts DEF SocketOK
  <2> QED
    BY <2>1, TypeParts, LenProperties DEF SocketOK, ParserOK, FlowInv
<1>2. CASE RawRecv
  <2>1. PICK k \in 1..Least(Want, Len(stream)) :
            Take(First(stream, k)) /\ stream' = Rest(stream, k)
    BY <1>2 DEF RawRecv
  <2>2. /\ pc = "poll" /\ ~Wss /\ ReaderInv(stream, Len(sentIn)) /\ recvBuf = <<>>
        /\ UNCHANGED <<transport, sentIn, faulty, recvBuf>>
    BY <1>2 DEF RawRecv, FlowInv, Live, connVars
  <2>3. /\ needed' # -1 => needed' = hdr'[HdrLen]
        /\ \/ /\ pc' \in {"idle", "poll"}
              /\ Backlog((hdr' \o body') \o Rest(stream, k), Len(frames'), Len(sentIn), sentIn,
                         FALSE, faulty)
              /\ \/ frames' = frames
                 \/ /\ Len(frames) < Len(sentIn)
                    /\ frames' = Append(frames, sentIn[Len(frames) + 1])
           \/ pc' = "failed" /\ frames' = frames /\ faulty
    BY <1>1, <2>1, <2>2, ReaderStep
  <2>4. Live' => ReaderInv(stream, Len(sentIn))'
    BY <2>1, <2>2, <2>3 DEF Live, InSendall, ReaderInv
  <2>5. ~Wss' /\ pc' # "upgrade"
    BY <2>2, <2>3 DEF Wss
  <2>6. FlowInv'
    BY <2>2, <2>3, <2>4, <2>5 DEF FlowInv
  <2> QED
    BY <2>3, <2>6
<1>3. CASE WsRecv
  <2>1. PICK k : /\ k = Least(Want, Len(recvBuf))
                 /\ Take(First(recvBuf, k)) /\ recvBuf' = Rest(recvBuf, k)
    BY <1>3 DEF WsRecv
  <2>2. pc = "poll" /\ recvBuf # <<>> /\ k \in 1..Least(Want, Len(recvBuf))
    BY <1>3, <2>1, BufferRead DEF WsRecv
  <2>3. Wss /\ UNCHANGED <<transport, stream, sentIn, faulty, parserVars>>
    BY <1>3, <2>2 DEF WsRecv, FlowInv, connVars
  <2>4. PICK b \in Nat : ReaderInv(recvBuf, b) /\ WireInv(stream, b)
    BY <2>2, <2>3 DEF FlowInv, Live
  <2>5. /\ needed' # -1 => needed' = hdr'[HdrLen]
        /\ \/ /\ pc' \in {"idle", "poll"}
              /\ Backlog((hdr' \o body') \o Rest(recvBuf, k), Len(frames'), b, sentIn, FALSE,
                         faulty)
              /\ \/ frames' = frames
                 \/ /\ Len(frames) < Len(sentIn)
                    /\ frames' = Append(frames, sentIn[Len(frames) + 1])
           \/ pc' = "failed" /\ frames' = frames /\ faulty
    BY <1>1, <2>1, <2>2, <2>4, ReaderStep
  <2>6. Live' => ReaderInv(recvBuf, b)'
    BY <2>1, <2>3, <2>5 DEF Live, InSendall, ReaderInv
  <2>7. WireInv(stream, b)'
    BY <2>3, <2>4 DEF WireInv, Parsed, parserVars
  <2>8. Wss' /\ pc' # "upgrade"
    BY <2>3, <2>5 DEF Wss
  <2>9. FlowInv'
    BY <2>5, <2>6, <2>7, <2>8 DEF FlowInv
  <2> QED
    BY <2>5, <2>9
<1> QED
  BY <1>2, <1>3

\* What follows the response is where the messages begin.
LEMMA FlowUpgrade ==
    ASSUME TypeInv, FlowInv, ReadResponse
    PROVE  FlowInv' /\ pc' \in {"upgrade", "idle", "refused"}
<1>1. /\ pc = "upgrade" /\ Wss /\ Wss' /\ FreshReader /\ FreshClient /\ frames = <<>>
      /\ UNCHANGED <<sentIn, faulty, readerVars, parserVars, recvBuf>> /\ TypeOK
  BY DEF ReadResponse, FlowInv, TypeInv, FreshUpgrade, Wss
<1>2. PICK w \in Bytes : Upgrading(w) /\ Backlog(w, 0, Len(sentIn), sentIn, TRUE, faulty)
  BY <1>1 DEF FlowInv
<1>3. /\ pc' \in {"upgrade", "idle", "refused"}
      /\ pc' = "upgrade" => Upgrading(w)'
      /\ pc' = "idle" => stream' = w
  BY <1>1, <1>2, ResponseStep
<1>4. needed' = -1
  BY <1>1 DEF FreshReader, readerVars
<1>5. ASSUME pc' = "idle" PROVE ReaderInv(recvBuf, 0)' /\ WireInv(stream, 0)'
  <2>1. /\ hdr' = <<>> /\ body' = <<>> /\ recvBuf' = <<>> /\ Len(frames') = 0
        /\ fstate' = "hdr2" /\ partial' = <<>>
    BY <1>1, NoBytes DEF FreshReader, FreshClient, readerVars, parserVars
  <2>2. (hdr' \o body') \o recvBuf' = <<>>
    BY <2>1, NoBytes
  <2>3. ReaderInv(recvBuf, 0)'
    <3>1. Backlog(<<>>, 0, 0, sentIn', FALSE, faulty')
      BY BacklogEmpty
    <3> QED
      BY <2>1, <2>2, <3>1 DEF ReaderInv
  <2>4. Parsed(<<>>)'
    BY <2>1, NoBytes DEF Parsed
  <2>5. <<>> \o stream' = w
    BY <1>3, <1>5, NoBytes
  <2>6. WireInv(stream, 0)'
    BY <1>1, <1>2, <2>4, <2>5, NoBytes DEF WireInv
  <2> QED
    BY <2>3, <2>6
<1>6. ASSUME pc' = "upgrade"
      PROVE  \E z \in Bytes : Upgrading(z)' /\ Backlog(z, 0, Len(sentIn'), sentIn', TRUE, faulty')
  BY <1>1, <1>2, <1>3, <1>6
<1> QED
  BY <1>1, <1>3, <1>4, <1>5, <1>6 DEF FlowInv, Live, InSendall

\* A read of WSClient, and a message dealt with, lose and add no frame.
LEMMA FlowPump ==
    ASSUME TypeOK, FlowInv, PumpHeader \/ PumpLength \/ PumpBody \/ PumpMessage
    PROVE  FlowInv' /\ (Live' \/ (pc' = "failed" /\ (faulty \/ clipped')))
<1>1. /\ pc = "poll" /\ Wss /\ UNCHANGED <<transport, sentIn, faulty, readerVars>> /\ Wss'
  BY DEF PumpHeader, PumpLength, PumpBody, PumpMessage, Pumping, connVars, Wss
<1>2. PICK b \in Nat : ReaderInv(recvBuf, b) /\ WireInv(stream, b)
  BY <1>1 DEF FlowInv, Live
<1>3. needed' # -1 => needed' = hdr'[HdrLen]
  BY <1>1 DEF FlowInv, readerVars
<1>4. CASE PumpHeader \/ PumpLength \/ PumpBody
  <2>1. UNCHANGED <<recvBuf, pc>>
    BY <1>4 DEF PumpHeader, PumpLength, PumpBody
  <2>2. ReaderInv(recvBuf, b)'
    BY <1>1, <1>2, <2>1 DEF ReaderInv, readerVars
  <2>3. WireInv(stream, b)'
    BY <1>2, <1>4, WireRead
  <2> QED
    BY <1>1, <1>3, <2>1, <2>2, <2>3 DEF FlowInv, Live
<1>5. CASE PumpMessage
  <2>1. pc' \in {"poll", "idle", "failed"}
    BY <1>5, MessageType
  <2>2. \/ pc' = "failed" /\ (faulty \/ clipped')
        \/ pc' # "failed" /\ \E c \in Nat : ReaderInv(recvBuf, c)' /\ WireInv(stream, c)'
    BY <1>2, <1>5, MessageStep
  <2>3. CASE pc' = "failed" /\ (faulty \/ clipped')
    BY <1>1, <1>3, <2>3 DEF FlowInv, Live, InSendall
  <2>4. CASE /\ pc' \in {"poll", "idle"}
             /\ \E c \in Nat : ReaderInv(recvBuf, c)' /\ WireInv(stream, c)'
    BY <1>1, <1>3, <2>4 DEF FlowInv, Live
  <2> QED
    BY <2>1, <2>2, <2>3, <2>4
<1> QED
  BY <1>4, <1>5

\* A connection that failed did so because the server closed it, or broke the protocol
\* or the limit on a length, or because the socket did not take all of a write.
GivenUpForCause == pc \in {"failed", "dropped"} => eof \/ faulty \/ clipped

FlowTypeInv == TypeInv /\ FlowInv /\ GivenUpForCause

\* Every step keeps the frames under way in order, and fails for cause only.
LEMMA FlowStep == FlowTypeInv /\ [Next]_vars => FlowInv' /\ GivenUpForCause'
<1> SUFFICES ASSUME FlowTypeInv, [Next]_vars PROVE FlowInv' /\ GivenUpForCause'
  OBVIOUS
<1>1. TypeInv /\ TypeOK /\ FlowInv /\ GivenUpForCause
  BY DEF FlowTypeInv, TypeInv
<1>2. CASE ServerSends
  <2>1. UNCHANGED pc /\ (eof => eof') /\ (faulty => faulty') /\ UNCHANGED clipped
    BY <1>1, <1>2, ServerPiece DEF ServerSends, outVars
  <2> QED
    BY <1>1, <1>2, <2>1, FlowServer DEF GivenUpForCause
\* The steps that touch nothing of what is under way.
<1>3. ASSUME UNCHANGED <<stream, connVars, readerVars, parserVars, recvBuf>>,
             Live' => Live, pc' = "upgrade" => pc = "upgrade",
             clipped => clipped', pc' \in {"failed", "dropped"} =>
                pc \in {"failed", "dropped"} \/ eof \/ clipped'
      PROVE  FlowInv' /\ GivenUpForCause'
  <2>1. FlowInv'
    BY <1>1, <1>3, FlowFrame DEF connVars
  <2>2. GivenUpForCause'
    BY <1>1, <1>3 DEF GivenUpForCause, connVars
  <2> QED
    BY <2>1, <2>2
<1>4. ASSUME NEW bytes, NEW w, SendMessage(bytes, w)
      PROVE  (clipped => clipped') /\ (clipped' \/ w = "whole")
  BY <1>4 DEF SendMessage
<1>5. CASE HandshakeFails \/ PollBegin \/ NothingYet
  BY <1>3, <1>5 DEF HandshakeFails, PollBegin, NothingYet, Reading, Live, InSendall, outVars
<1>6. CASE PeerClosed
  BY <1>3, <1>6 DEF PeerClosed, Reading, Live, InSendall, outVars
<1>7. CASE SendFramed \/ SendallReturns
  BY <1>3, <1>7 DEF SendFramed, SendallReturns, Live, InSendall
<1>13. CASE SendallShips
  <2>1. PICK w \in Writes :
            /\ SendMessage(Message(Code.frame, First(sendBuf, FrameLen(sendBuf))), w)
            /\ pc' = IF Raises(w) THEN "failed" ELSE pc
    BY <1>13 DEF SendallShips
  <2>2. (clipped => clipped') /\ (clipped' \/ w = "whole")
    BY <1>4, <2>1
  <2> QED
    BY <1>3, <1>13, <2>1, <2>2 DEF SendallShips, Raises, Live, InSendall
<1>8. CASE Close
  <2>1. clipped => clipped'
    BY <1>4, <1>8 DEF Close, SendControl, outVars
  <2> QED
    BY <1>3, <1>8, <2>1 DEF Close, Live, InSendall
<1>9. CASE ReadResponse
  BY <1>1, <1>9, FlowUpgrade DEF GivenUpForCause
<1>10. CASE RawRecv \/ WsRecv
  <2>1. UNCHANGED faulty
    BY <1>10 DEF RawRecv, WsRecv, connVars
  <2> QED
    BY <1>1, <1>10, <2>1, FlowRead DEF GivenUpForCause
<1>11. CASE PumpHeader \/ PumpLength \/ PumpBody \/ PumpMessage
  <2>1. UNCHANGED faulty
    BY <1>11 DEF PumpHeader, PumpLength, PumpBody, PumpMessage, connVars
  <2> QED
    BY <1>1, <1>11, <2>1, FlowPump DEF GivenUpForCause, Live, InSendall
<1>12. CASE UNCHANGED vars
  BY <1>3, <1>12 DEF vars, connVars, readerVars, parserVars, Live
<1> QED
  BY <1>2, <1>5, <1>6, <1>7, <1>8, <1>9, <1>10, <1>11, <1>12, <1>13
     DEF Next, Reads, Sendall

\* The invariant of the whole connection.
LEMMA FlowCorrect == Spec => []FlowTypeInv
<1>1. Init => FlowTypeInv
  BY TypeInit, FlowInit DEF FlowTypeInv, GivenUpForCause, Init, Opened
<1>2. FlowTypeInv /\ [Next]_vars => FlowTypeInv'
  BY TypeStep, FlowStep DEF FlowTypeInv
<1> QED
  BY <1>1, <1>2, PTL DEF Spec

\* poll raises, and the bridge drops the connection, only for cause: nothing WSClient or
\* FrameReader does with what a sound server sends ends the connection.
THEOREM NeverGivenUpInVain == Spec => []GivenUpForCause
<1>1. FlowTypeInv => GivenUpForCause
  BY DEF FlowTypeInv
<1> QED
  BY <1>1, FlowCorrect, PTL

-----------------------------------------------------------------------------
(* The abstract channel.                                                   *)

\* FailedForCause is that the connection is no longer used.
LEMMA CutIs == GivenUpForCause => (FailedForCause <=> pc \in {"refused", "failed", "dropped"})
BY DEF GivenUpForCause, FailedForCause

\* Every step of the transport is a step of the channel, or does nothing there.
LEMMA ChannelStep ==
    FlowTypeInv /\ FlowTypeInv' /\ [Next]_vars
        => [Channel!Next]_<<sentIn, frames, FailedForCause>>
<1> SUFFICES ASSUME FlowTypeInv, FlowTypeInv', [Next]_vars
             PROVE  Channel!Next \/ UNCHANGED <<sentIn, frames, FailedForCause>>
  OBVIOUS
<1>1. TypeInv /\ TypeOK /\ FlowInv
  BY DEF FlowTypeInv, TypeInv
<1>2. /\ FailedForCause <=> pc \in {"refused", "failed", "dropped"}
      /\ FailedForCause' <=> pc' \in {"refused", "failed", "dropped"}
      /\ FailedForCause \in BOOLEAN /\ FailedForCause' \in BOOLEAN
  BY CutIs DEF FlowTypeInv, GivenUpForCause, FailedForCause
\* A step that neither sends nor delivers, of a connection that goes on or fails.
<1>3. ASSUME UNCHANGED <<sentIn, frames>>,
             pc \in {"refused", "failed", "dropped"} => pc' \in {"refused", "failed", "dropped"}
      PROVE  Channel!Next \/ UNCHANGED <<sentIn, frames, FailedForCause>>
  BY <1>2, <1>3 DEF Channel!Next, Channel!Cut
<1>4. CASE ServerSends
  <2>1. UNCHANGED <<frames, pc>>
    BY <1>4 DEF ServerSends, readerVars
  <2>2. CASE UNCHANGED sentIn
    BY <1>3, <2>1, <2>2
  <2>3. CASE \E n \in BodyLens : sentIn' = Append(sentIn, Fill(n, items + 1))
    <3>1. PICK y : sentIn' = Append(sentIn, y) /\ y \in Bytes
      <4>1. items + 1 \in Nat /\ BodyLens \subseteq Nat
        BY <1>1, TypeParts, Constants DEF SocketOK
      <4> QED
        BY <2>3, <4>1, Filled
    <3>2. sentIn \in Seq(Bytes) /\ Len(sentIn) \in Nat
      <4>1. sentIn \in Seq(Bytes)
        BY <1>1, TypeParts DEF SocketOK
      <4> QED
        BY <4>1, LenProperties
    <3>3. Len(sentIn') = Len(sentIn) + 1 /\ SubSeq(sentIn', 1, Len(sentIn)) = sentIn
      BY <3>1, <3>2, AppendProperties
    <3>4. UNCHANGED FailedForCause
      BY <1>2, <2>1
    <3> QED
      BY <2>1, <3>3, <3>4 DEF Channel!Next, Channel!Send
  <2> QED
    BY <1>4, <2>2, <2>3 DEF ServerSends
<1>5. CASE HandshakeFails \/ PollBegin \/ NothingYet \/ PeerClosed \/ SendFramed \/ Sendall \/ Close
  BY <1>3, <1>5 DEF HandshakeFails, PollBegin, NothingYet, Reading, PeerClosed, SendFramed, Sendall,
     SendallShips, SendallReturns, InSendall, Close, connVars, readerVars
<1>6. CASE ReadResponse \/ PumpHeader \/ PumpLength \/ PumpBody \/ PumpMessage
  BY <1>3, <1>6 DEF ReadResponse, PumpHeader, PumpLength, PumpBody, PumpMessage, Pumping,
     connVars, readerVars
<1>7. CASE RawRecv \/ WsRecv
  <2>1. pc = "poll" /\ UNCHANGED sentIn
    BY <1>7 DEF RawRecv, WsRecv, connVars
  <2>2. \/ /\ pc' \in {"idle", "poll"}
           /\ \/ frames' = frames
              \/ /\ Len(frames) < Len(sentIn)
                 /\ frames' = Append(frames, sentIn[Len(frames) + 1])
        \/ pc' = "failed" /\ frames' = frames
    BY <1>1, <1>7, FlowRead
  <2>3. CASE frames' = frames
    BY <1>3, <2>1, <2>3
  <2>4. CASE /\ pc' \in {"idle", "poll"} /\ Len(frames) < Len(sentIn)
             /\ frames' = Append(frames, sentIn[Len(frames) + 1])
    <3>1. ~FailedForCause /\ UNCHANGED FailedForCause
      BY <1>2, <2>1, <2>4
    <3> QED
      BY <2>1, <2>4, <3>1 DEF Channel!Next, Channel!Deliver
  <2> QED
    BY <2>2, <2>3, <2>4
<1>8. CASE UNCHANGED vars
  BY <1>3, <1>8 DEF vars
<1> QED
  BY <1>4, <1>5, <1>6, <1>7, <1>8 DEF Next, Reads

\* However the reads cut the stream, poll returns the frames the server sent, whole, in
\* order and once: the transport implements the safe part of FrameChannel.
THEOREM FramesComeWhole == Spec => Channel!Safe
<1>1. Init => Channel!Init
  BY DEF Init, Opened, Channel!Init, FailedForCause
<1> QED
  BY <1>1, FlowCorrect, ChannelStep, PTL DEF Spec, Channel!Safe
=============================================================================
