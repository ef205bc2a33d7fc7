------------------------------ MODULE WsClient ------------------------------
(***************************************************************************)
(* The Pico's transport (src/net.py): FrameReader, which cuts the byte     *)
(* stream of a connection into frames, over a raw TCP socket or over       *)
(* WSClient, which first cuts it into WebSocket messages; and send_framed, *)
(* whose two writes WSClient joins into one message.  After the upgrade    *)
(* the socket does not block: a read may return any part of what it was    *)
(* asked for, or nothing.                                                  *)
(*                                                                         *)
(* A byte is a number.  A message is an opcode, a length (in Ext bytes if  *)
(* it is long) and its bytes; a frame is HdrLen bytes that hold its length *)
(* and a body, Len bytes that hold its number.  Masking and TLS are left   *)
(* out.                                                                    *)
(***************************************************************************)
EXTENDS Integers, Sequences

CONSTANTS
    Transports, \* "wss" is WSClient, "tcp" the raw socket
    HdrLen,     \* bytes of a frame's length (4 in the code)
    ExtLen,     \* bytes of a long message's length (2 or 8 in the code)
    Small,      \* the longest message with a short length (125 in the code)
    MaxHead,    \* limit on the response to the upgrade (4096 in the code)
    Cap,        \* FrameReader's limit on a length (1 << 20 in the code)
    BodyLens,   \* bound: lengths of the bodies sent
    Items,      \* what the server may send, see Message
    MaxItems,   \* bound: how much of it
    MaxSends,   \* bound: calls of send_framed
    Writes      \* how a write to the socket may end: "whole", "short", or it raises
                \* EAGAIN ("again") or another OSError ("error")

ASSUME TransportAssumption ==
    /\ Transports \subseteq {"wss", "tcp"}
    /\ HdrLen \in Nat \ {0} /\ ExtLen \in Nat \ {0}
    /\ Small \in 1..125 /\ Cap \in Nat /\ MaxHead \in Nat \ {0}
    /\ BodyLens \subseteq 0..Cap
    /\ Items \subseteq {"frame", "huge", "ping", "pong", "close", "fragment", "eof"}
    /\ MaxItems \in Nat /\ MaxSends \in Nat
    /\ "whole" \in Writes /\ Writes \subseteq {"whole", "short", "again", "error"}

VARIABLES
    transport,  \* what open_socket was configured for
    stream,     \* bytes the server has sent and the socket not returned
    eof,        \* the server closed the TCP connection after them
    items,      \* items sent
    sentIn,     \* history: the bodies of the frames among them
    faulty,     \* history: one of them was a close or broke the protocol
    pc,         \* "upgrade" (inside open_socket), "idle", "poll" (inside
                \* FrameReader.poll), "length" and "payload" (inside the first and
                \* the second sendall of send_framed), "refused", "failed", "dropped"
    head,       \* _do_handshake's buf
    hdr, body, needed,          \* FrameReader: _hdr, _body, _needed (-1 is None)
    fstate, partial, op, left,  \* WSClient: _frame_state, _frame_partial, the
                                \* opcode, and _frame_n less what has been read
    msg,        \* _frame_body
    recvBuf,    \* _recv_buf
    closed,     \* _closed
    frames,     \* history: what poll returned
    payload,    \* send_framed's payload until the second sendall has it
    sendBuf,    \* _send_buf
    out,        \* bytes of the messages the socket took whole
    meant,      \* history: the bytes of the messages that were to be written
    clipped,    \* history: the socket did not take all of one of them
    sends       \* calls of send_framed

vars == <<transport, stream, eof, items, sentIn, faulty, pc, head, hdr, body, needed, fstate,
          partial, op, left, msg, recvBuf, closed, frames, payload, sendBuf, out, meant, clipped, sends>>
connVars == <<transport, head, eof, items, sentIn, faulty>>
readerVars == <<hdr, body, needed, frames>>
parserVars == <<fstate, partial, op, left, msg>>
sendVars == <<payload, sendBuf, sends>>
outVars == <<sendVars, out, meant, clipped>>

Wss == transport = "wss"

Code == [frame |-> 2, ping |-> 9, pong |-> 10, close |-> 8, fragment |-> 0]
ExtMark == 126
Fill(n, b) == [i \in 1..n |-> b]
Least(a, b) == IF a <= b THEN a ELSE b
First(s, n) == SubSeq(s, 1, n)
Rest(s, n) == SubSeq(s, n + 1, Len(s))

Packet(bytes) == Fill(HdrLen, Len(bytes)) \o bytes
Message(code, bytes) ==
    IF Len(bytes) <= Small THEN <<code, Len(bytes)>> \o bytes
    ELSE <<code, ExtMark>> \o Fill(ExtLen, Len(bytes)) \o bytes

\* Responses to the upgrade: one that accepts it, one that does not, and one whose
\* header never ends.
Accepted == 101
HeadEnd == 13
Responses == {<<Accepted, HeadEnd>>, <<0, HeadEnd>>, Fill(MaxHead + 1, Accepted)}

\* open_socket has connected, and over WSS sent the upgrade request.
Opened ==
    /\ transport \in Transports
    /\ IF Wss THEN pc = "upgrade" /\ stream \in Responses ELSE pc = "idle" /\ stream = <<>>

FreshReader == hdr = <<>> /\ body = <<>> /\ needed = -1

FreshClient ==
    /\ fstate = "hdr2" /\ partial = <<>> /\ op = 0 /\ left = 0 /\ msg = <<>>
    /\ recvBuf = <<>> /\ payload = <<>> /\ sendBuf = <<>> /\ closed = FALSE

Init ==
    /\ Opened /\ FreshReader /\ FreshClient
    /\ eof = FALSE /\ items = 0 /\ sentIn = <<>> /\ faulty = FALSE /\ head = <<>>
    /\ frames = <<>> /\ out = <<>> /\ meant = <<>> /\ clipped = FALSE /\ sends = 0

-----------------------------------------------------------------------------
(* The server: ws_bridge, or the relay itself, and the network.            *)

Data(bytes) == IF Wss THEN Message(Code.frame, bytes) ELSE bytes

ServerSends ==
    /\ ~eof /\ items < MaxItems /\ items' = items + 1
    /\ \/ /\ "frame" \in Items
          /\ \E n \in BodyLens :
                LET bytes == Fill(n, items + 1) IN
                /\ stream' = stream \o Data(Packet(bytes))
                /\ sentIn' = Append(sentIn, bytes)
          /\ UNCHANGED <<eof, faulty>>
       \/ /\ "huge" \in Items
          /\ stream' = stream \o Data(Fill(HdrLen, Cap + 1))
          /\ faulty' = TRUE
          /\ UNCHANGED <<eof, sentIn>>
       \/ /\ Wss
          /\ \E kind \in Items \cap {"ping", "pong", "close", "fragment"} :
                /\ \E n \in (IF kind = "ping" THEN 0..1 ELSE {0}) :
                        stream' = stream \o Message(Code[kind], Fill(n, 1))
                /\ faulty' = (faulty \/ kind \in {"close", "fragment"})
          /\ UNCHANGED <<eof, sentIn>>
       \/ /\ "eof" \in Items /\ eof' = TRUE
          /\ UNCHANGED <<stream, sentIn, faulty>>
    /\ UNCHANGED <<transport, head, pc, readerVars, parserVars, recvBuf, closed, outVars>>

-----------------------------------------------------------------------------
(* WSClient.connect.                                                       *)

\* The response, read byte by byte, so that nothing behind its end is taken and
\* _prepend stays empty.  What counts is the status.
ReadResponse ==
    /\ pc = "upgrade" /\ stream # <<>>
    /\ stream' = Rest(stream, 1) /\ head' = Append(head, stream[1])
    /\ pc' = IF Len(head') > MaxHead THEN "refused"
             ELSE IF stream[1] # HeadEnd THEN "upgrade"
             ELSE IF head'[1] = Accepted THEN "idle" ELSE "refused"
    /\ UNCHANGED <<transport, eof, items, sentIn, faulty, readerVars, parserVars, recvBuf,
                   closed, outVars>>

\* The deadline, a timeout of the socket or the end of the stream.  connect raises
\* and leaves the socket as it is.
HandshakeFails ==
    /\ pc = "upgrade" /\ pc' = "refused"
    /\ UNCHANGED <<stream, connVars, readerVars, parserVars, recvBuf, closed, outVars>>

-----------------------------------------------------------------------------
(* FrameReader.poll.                                                       *)

PollBegin ==
    /\ pc = "idle" /\ pc' = "poll"
    /\ UNCHANGED <<stream, connVars, readerVars, parserVars, recvBuf, closed,
                   outVars>>

\* What poll asks recv for.
Want == IF needed = -1 THEN HdrLen - Len(hdr) ELSE needed - Len(body)

\* The frame is whole: start afresh and return it.
FrameDone(bytes) ==
    /\ frames' = Append(frames, bytes) /\ pc' = "idle"
    /\ hdr' = <<>> /\ body' = <<>> /\ needed' = -1

\* Mutant of Take: no limit on the length.
TakeAnyLength(chunk) ==
    IF needed = -1
    THEN IF Len(hdr) + Len(chunk) < HdrLen
         THEN hdr' = hdr \o chunk /\ UNCHANGED <<body, needed, frames, pc>>
         ELSE IF chunk[Len(chunk)] = 0 THEN FrameDone(<<>>)
         ELSE /\ needed' = chunk[Len(chunk)] /\ hdr' = hdr \o chunk
              /\ UNCHANGED <<body, frames, pc>>
    ELSE IF Len(body) + Len(chunk) = needed THEN FrameDone(body \o chunk)
    ELSE body' = body \o chunk /\ UNCHANGED <<hdr, needed, frames, pc>>

\* recv returned a chunk.
Take(chunk) ==
    LET length == chunk[Len(chunk)] IN
    IF needed = -1
    THEN IF Len(hdr) + Len(chunk) < HdrLen
         THEN hdr' = hdr \o chunk /\ UNCHANGED <<body, needed, frames, pc>>
         ELSE IF length > Cap       \* OSError("oversize frame")
         THEN pc' = "failed" /\ hdr' = hdr \o chunk /\ UNCHANGED <<body, needed, frames>>
         ELSE IF length = 0 THEN FrameDone(<<>>)
         ELSE /\ needed' = length /\ hdr' = hdr \o chunk
              /\ UNCHANGED <<body, frames, pc>>
    ELSE IF Len(body) + Len(chunk) = needed THEN FrameDone(body \o chunk)
    ELSE body' = body \o chunk /\ UNCHANGED <<hdr, needed, frames, pc>>

\* recv over the raw socket, and poll returning None when it has nothing.
RawRecv ==
    /\ pc = "poll" /\ ~Wss
    /\ \E k \in 1..Least(Want, Len(stream)) :
        /\ Take(First(stream, k)) /\ stream' = Rest(stream, k)
    /\ UNCHANGED <<connVars, parserVars, recvBuf, closed, outVars>>

\* recv over WSClient, which hands out what it has buffered.
WsRecv ==
    /\ pc = "poll" /\ recvBuf # <<>>
    /\ LET k == Least(Want, Len(recvBuf)) IN
        Take(First(recvBuf, k)) /\ recvBuf' = Rest(recvBuf, k)
    /\ UNCHANGED <<stream, connVars, parserVars, closed, outVars>>

\* The next step is a read of the socket.
Reading == pc = "poll" /\ recvBuf = <<>> /\ ~(Wss /\ fstate = "body" /\ left = 0)

\* Mutant of NothingYet: the bytes of a message's header that have come are lost.
NothingYetDropsPartial ==
    /\ Reading /\ pc' = "idle" /\ partial' = <<>>
    /\ UNCHANGED <<stream, connVars, readerVars, fstate, op, left, msg, recvBuf,
                   closed, outVars>>

\* EAGAIN or None: "no frame yet".  All that was read stays where it is.
NothingYet ==
    /\ Reading /\ pc' = "idle"
    /\ UNCHANGED <<stream, connVars, readerVars, parserVars, recvBuf, closed,
                   outVars>>

\* The socket returns b"", which WSClient remembers, or raises.
PeerClosed ==
    /\ Reading /\ stream = <<>> /\ eof
    /\ pc' = "failed" /\ closed' \in {FALSE, Wss}
    /\ UNCHANGED <<stream, connVars, readerVars, parserVars, recvBuf, 
                   outVars>>

-----------------------------------------------------------------------------
(* WSClient: writing.                                                      *)

\* _send_message: two writes, header and masked payload, whose results are not
\* looked at.  The socket takes them whole, or a part of them, or a write raises;
\* which part it took is not kept in `out`.
SendMessage(bytes, w) ==
    IF w = "whole" THEN out' = out \o bytes /\ UNCHANGED clipped
    ELSE clipped' = TRUE /\ UNCHANGED out

Raises(w) == w \in {"again", "error"}

\* A control message: a pong or a close.
SendControl(code, bytes, w) ==
    /\ SendMessage(Message(code, bytes), w)
    /\ meant' = meant \o Message(code, bytes) /\ UNCHANGED sendVars

InSendall == {"length", "payload"}

\* send_framed, called by the bridge between two polls: sendall of the length.
SendFramed ==
    /\ pc = "idle" /\ Wss /\ ~closed /\ pc' = "length"
    /\ sends < MaxSends /\ sends' = sends + 1
    /\ \E n \in BodyLens :
        /\ payload' = Fill(n, sends + 1) /\ sendBuf' = sendBuf \o Fill(HdrLen, n)
        /\ meant' = meant \o Message(Code.frame, Packet(Fill(n, sends + 1)))
    /\ UNCHANGED <<stream, connVars, readerVars, parserVars, recvBuf, closed, out, clipped>>

\* Mutant of FrameLen: the length counts its own bytes.
FrameLenBare(buf) == buf[HdrLen]

FrameLen(buf) == HdrLen + buf[HdrLen]
HoldsFrame(buf) == IF Len(buf) < HdrLen THEN FALSE ELSE Len(buf) >= FrameLen(buf)

\* A turn of sendall's loop: a frame leaves the buffer, then the socket gets it.
SendallShips ==
    /\ pc \in InSendall /\ HoldsFrame(sendBuf)
    /\ sendBuf' = Rest(sendBuf, FrameLen(sendBuf))
    /\ \E w \in Writes :
        /\ SendMessage(Message(Code.frame, First(sendBuf, FrameLen(sendBuf))), w)
        /\ pc' = IF Raises(w) THEN "failed" ELSE pc
    /\ UNCHANGED <<stream, connVars, readerVars, parserVars, recvBuf, closed, payload, sends,
                   meant>>

\* The loop ends; then comes sendall of the payload, or send_framed returns.
SendallReturns ==
    /\ pc \in InSendall /\ ~HoldsFrame(sendBuf)
    /\ IF pc = "length"
       THEN pc' = "payload" /\ sendBuf' = sendBuf \o payload /\ payload' = <<>>
       ELSE pc' = "idle" /\ UNCHANGED <<sendBuf, payload>>
    /\ UNCHANGED <<stream, connVars, readerVars, parserVars, recvBuf, closed, out, meant,
                   clipped, sends>>

-----------------------------------------------------------------------------
(* WSClient: _pump_one_step, one read of the socket at a time.             *)

Pumping == pc = "poll" /\ Wss /\ recvBuf = <<>> /\ ~closed

PumpHeader ==
    /\ Pumping /\ fstate = "hdr2"
    /\ \E k \in 1..Least(2 - Len(partial), Len(stream)) :
        LET got == partial \o First(stream, k) IN
        /\ stream' = Rest(stream, k)
        /\ IF Len(got) < 2 THEN partial' = got /\ UNCHANGED <<fstate, op, left, msg>>
           ELSE /\ partial' = <<>> /\ op' = got[1] /\ msg' = <<>>
                /\ fstate' = IF got[2] = ExtMark THEN "ext" ELSE "body"
                /\ left' = IF got[2] = ExtMark THEN 0 ELSE got[2]
    /\ UNCHANGED <<connVars, pc, readerVars, recvBuf, closed, outVars>>

PumpLength ==
    /\ Pumping /\ fstate = "ext"
    /\ \E k \in 1..Least(ExtLen - Len(partial), Len(stream)) :
        LET got == partial \o First(stream, k) IN
        /\ stream' = Rest(stream, k)
        /\ IF Len(got) < ExtLen THEN partial' = got /\ UNCHANGED <<fstate, left>>
           ELSE partial' = <<>> /\ left' = got[ExtLen] /\ fstate' = "body"
    /\ UNCHANGED <<connVars, pc, readerVars, op, msg, recvBuf, closed, outVars>>

PumpBody ==
    /\ Pumping /\ fstate = "body" /\ left > 0
    /\ \E k \in 1..Least(left, Len(stream)) :
        /\ stream' = Rest(stream, k)
        /\ msg' = msg \o First(stream, k) /\ left' = left - k
    /\ UNCHANGED <<connVars, pc, readerVars, fstate, partial, op, recvBuf, closed,
                   outVars>>

Reset == fstate' = "hdr2" /\ op' = 0 /\ left' = 0 /\ msg' = <<>>

\* A whole message.  A close is answered and ends the connection (an OSError
\* there is ignored); EAGAIN while answering a ping makes poll return None, any other
\* OSError leaves poll.
Dispatch ==
    \/ op = Code.frame /\ recvBuf' = recvBuf \o msg /\ UNCHANGED <<pc, closed, outVars>>
    \/ op = Code.pong /\ UNCHANGED <<pc, closed, recvBuf, outVars>>
    \/ /\ op = Code.ping
       /\ \E w \in Writes :
            /\ SendControl(Code.pong, msg, w)
            /\ pc' = CASE w = "again" -> "idle" [] w = "error" -> "failed" [] OTHER -> pc
       /\ UNCHANGED <<closed, recvBuf>>
    \/ /\ op = Code.close
       /\ \E w \in Writes : SendControl(Code.close, <<>>, w)
       /\ pc' = "failed" /\ closed' = TRUE
       /\ UNCHANGED recvBuf
    \/ op = Code.fragment /\ pc' = "failed" /\ UNCHANGED <<closed, recvBuf, outVars>>

PumpMessage ==
    /\ Pumping /\ fstate = "body" /\ left = 0
    /\ Dispatch /\ Reset
    /\ UNCHANGED <<stream, connVars, partial, readerVars>>

-----------------------------------------------------------------------------
\* The bridge drops the connection.  WSClient.close returns at once, and leaves the
\* socket below open, when the client is closed already.
Close ==
    /\ pc = "failed" /\ pc' = "dropped"
    /\ IF Wss /\ ~closed
       THEN closed' = TRUE /\ \E w \in Writes : SendControl(Code.close, <<>>, w)
       ELSE UNCHANGED <<closed, outVars>>
    /\ UNCHANGED <<stream, connVars, readerVars, parserVars, recvBuf>>

Reads == ReadResponse \/ RawRecv \/ WsRecv \/ PumpHeader \/ PumpLength \/ PumpBody \/ PumpMessage

Sendall == SendallShips \/ SendallReturns

Next ==
    \/ ServerSends \/ HandshakeFails
    \/ PollBegin \/ Reads \/ NothingYet \/ PeerClosed \/ SendFramed \/ Sendall \/ Close

Spec == Init /\ [][Next]_vars

\* run() polls again and again, and send_framed returns; a socket that has bytes
\* returns some, now and then.
FairSpec == Spec /\ WF_vars(PollBegin) /\ WF_vars(Sendall) /\ SF_vars(Reads)

-----------------------------------------------------------------------------
(* Safety.                                                                 *)

\* A number; the bytes of a frame's length are not told apart from it.
Byte == Nat

\* Every variable keeps its type; what is buffered stays below what it is for:
\* FrameReader never holds more of a frame than its length, nor a length above
\* the limit.
TypeOK ==
    /\ stream \in Seq(Byte) /\ out \in Seq(Byte) /\ meant \in Seq(Byte)
    /\ eof \in BOOLEAN /\ faulty \in BOOLEAN /\ sends \in 0..MaxSends
    /\ closed \in BOOLEAN /\ clipped \in BOOLEAN
    /\ transport \in Transports
    /\ items \in 0..MaxItems
    /\ payload \in Seq(Byte) /\ sendBuf \in Seq(Byte)
    /\ pc \in {"upgrade", "refused", "idle", "poll", "failed", "dropped"} \cup InSendall
    /\ head \in Seq(Byte) /\ Len(head) <= MaxHead + 1
    /\ hdr \in Seq(Byte) /\ Len(hdr) <= HdrLen
    /\ body \in Seq(Byte) /\ needed \in -1..Cap
    /\ needed = -1 => body = <<>> /\ (pc \in {"idle", "poll"} \cup InSendall => Len(hdr) < HdrLen)
    /\ needed # -1 => Len(hdr) = HdrLen /\ Len(body) < needed
    /\ fstate \in {"hdr2", "ext", "body"} /\ partial \in Seq(Byte)
    /\ op \in Byte /\ left \in Byte /\ msg \in Seq(Byte) /\ recvBuf \in Seq(Byte)
    /\ frames \in Seq(Seq(Byte)) /\ sentIn \in Seq(Seq(Byte))

\* "Speaks "one binary WS message = one framed packet"" (net.py): as long as the
\* socket takes every write whole, what sendall's buffering makes of the two writes of
\* each send_framed is one message for each frame, in order, pongs and closes never
\* inside another, and nothing of a frame stays behind for the next.
OneMessagePerFrame ==
    ~clipped /\ pc \notin InSendall => out = meant /\ sendBuf = <<>>

-----------------------------------------------------------------------------
(* Refinement, under FairSpec.                                             *)

\* The connection is given up for cause: it never came up, the server closed it, broke
\* the protocol or asked for too much, or a write failed.
FailedForCause ==
    pc = "refused" \/ (pc \in {"failed", "dropped"} /\ (eof \/ faulty \/ clipped))

Channel == INSTANCE FrameChannel WITH
    MaxFrames <- MaxItems, sent <- sentIn, rcvd <- frames, cut <- FailedForCause

\* However the network cuts the stream, whatever pings come in between and
\* wherever a poll gave up, poll returns the frames the server sent, whole, in
\* order, none twice, and all of them unless the connection is given up for cause:
\* EAGAIN, a ping or a frame cut in two is none.
ImplementsChannel == Channel!Spec

=============================================================================
