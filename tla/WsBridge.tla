------------------------------ MODULE WsBridge ------------------------------
(***************************************************************************)
(* The WebSocket front of the relay (tools/ws_bridge.py): one connection,  *)
(* from the dial to the relay to the end of its handler, with its two      *)
(* pumps, which gather runs side by side and does not cancel; and the      *)
(* events it posts to the Console from executor threads.                   *)
(*                                                                         *)
(* A message, or a frame, is its number.  The WebSocket library and the    *)
(* TCP transport are modelled by what the pumps see of them.               *)
(***************************************************************************)
EXTENDS Console

CONSTANTS
    MaxMsgs,    \* bound: messages of the client, and frames of the relay
    MaxLogged   \* the same, with the ingest on

ASSUME MsgsAssumption == MaxMsgs \in Nat /\ MaxLogged \in 0..MaxMsgs

VARIABLES
    url,        \* whether --ingest-url was given
    handler,    \* handle(): "dial", "gather", "finally", "done"
    up, down,   \* _ws_to_tcp: "recv", "drain"; _tcp_to_ws: "read", "send"; each
                \* "idle" before, "returned" or "raised" after
    ws,         \* the WebSocket: "open", "closed" by either side in due form, "broken"
    tcp,        \* the relay's connection: "none", "open", "eof", "reset", or "shut"
                \* by writer.close()
    wsIn,       \* messages of the client not taken yet; 0 is a text message
    tcpIn,      \* frames of the relay not read yet
    framed,     \* _tcp_to_ws's local
    told,       \* history: the binary messages the client sent
    heard,      \* history: what was written to the relay
    spoken,     \* history: the frames the relay sent
    shown,      \* history: the messages the client got
    posts       \* _post_sync calls under way that will reach the console

pumpVars == <<url, up, down, framed>>
wireVars == <<ws, tcp, wsIn, tcpIn, told, heard, spoken, shown>>
vars == <<handler, pumpVars, wireVars, posts, consoleVars>>

Init ==
    /\ url \in BOOLEAN
    /\ handler = "dial" /\ up = "idle" /\ down = "idle"
    /\ ws = "open" /\ tcp = "none"
    /\ wsIn = <<>> /\ tcpIn = <<>> /\ framed = 0
    /\ told = <<>> /\ heard = <<>> /\ spoken = <<>> /\ shown = <<>>
    /\ posts \in (IF url THEN 0..SmallOf(1, MaxEvents) ELSE {0})    \* "open"
    /\ ConsoleInit

-----------------------------------------------------------------------------
(* Ingest.  A post that fails is dropped: so is every one past the bound.  *)

Emit ==
    /\ posts' \in (IF url THEN {posts, posts + 1} ELSE {posts})
    /\ posts' + stored <= MaxEvents
    /\ UNCHANGED consoleVars

\* The console handles a post, whichever thread was first.
PostArrives ==
    /\ posts > 0 /\ posts' = posts - 1
    /\ Insert
    /\ UNCHANGED <<handler, pumpVars, wireVars>>

-----------------------------------------------------------------------------
(* The client and the relay.                                               *)

Most == IF url THEN MaxLogged ELSE MaxMsgs

\* Text messages, which the relay never sees, come one at a time: a bound.
ClientSends ==
    /\ ws = "open" /\ Len(told) < Most
    /\ \/ told' = Append(told, Len(told) + 1) /\ wsIn' = Append(wsIn, Len(told) + 1)
       \/ wsIn' = Append(wsIn, 0) /\ wsIn = <<>> /\ UNCHANGED told
    /\ UNCHANGED <<handler, pumpVars, ws, tcp, tcpIn, heard, spoken, shown, posts,
                   consoleVars>>

\* A close in due form comes after what was sent before it.
ClientCloses ==
    /\ ws = "open" /\ ws' = "closed"
    /\ UNCHANGED <<handler, pumpVars, tcp, wsIn, tcpIn, told, heard, spoken, shown,
                   posts, consoleVars>>

\* The client is gone without one, and what was under way with it.
ClientVanishes ==
    /\ ws = "open" /\ ws' = "broken" /\ wsIn' = <<>>
    /\ UNCHANGED <<handler, pumpVars, tcp, tcpIn, told, heard, spoken, shown, posts,
                   consoleVars>>

RelaySpeaks ==
    /\ tcp = "open" /\ Len(spoken) < Most
    /\ spoken' = Append(spoken, Len(spoken) + 1) /\ tcpIn' = Append(tcpIn, Len(spoken) + 1)
    /\ UNCHANGED <<handler, pumpVars, ws, tcp, wsIn, told, heard, shown, posts,
                   consoleVars>>

\* The relay closes the connection, maybe inside a frame.
RelayCloses ==
    /\ tcp = "open" /\ tcp' = "eof"
    /\ UNCHANGED <<handler, pumpVars, ws, wsIn, tcpIn, told, heard, spoken, shown, posts,
                   consoleVars>>

\* Its TCP answers what comes after that, or a failure, with a reset.
RelayResets ==
    /\ tcp \in {"open", "eof"} /\ tcp' = "reset" /\ tcpIn' = <<>>
    /\ UNCHANGED <<handler, pumpVars, ws, wsIn, told, heard, spoken, shown, posts,
                   consoleVars>>

-----------------------------------------------------------------------------
(* The two pumps.                                                          *)

\* Mutant of UpTakes: text messages are written too.
UpTakesText ==
    /\ up = "recv" /\ wsIn # <<>>
    /\ wsIn' = Tail(wsIn) /\ up' = "drain"
    /\ heard' = IF tcp = "open" THEN Append(heard, Head(wsIn)) ELSE heard
    /\ UNCHANGED <<handler, url, down, framed, ws, tcp, tcpIn, told, spoken, shown, posts,
                   consoleVars>>

\* async for yields the next message; only a binary one is written.
UpTakes ==
    /\ up = "recv" /\ wsIn # <<>>
    /\ wsIn' = Tail(wsIn)
    /\ IF Head(wsIn) = 0 THEN UNCHANGED <<up, heard>>
       ELSE /\ up' = "drain"
            /\ heard' = IF tcp = "open" THEN Append(heard, Head(wsIn)) ELSE heard
    /\ UNCHANGED <<handler, url, down, framed, ws, tcp, tcpIn, told, spoken, shown, posts,
                   consoleVars>>

\* async for ends after a close in due form; after any other it raises.
UpEnds ==
    /\ up = "recv" /\ wsIn = <<>> /\ ws # "open"
    /\ up' = IF ws = "closed" THEN "returned" ELSE "raised"
    /\ UNCHANGED <<handler, url, down, framed, wireVars, posts, consoleVars>>

\* drain returns, or finds that the connection is lost.
UpDrains ==
    /\ up = "drain"
    /\ \/ tcp \in {"open", "eof"} /\ up' = "recv" /\ Emit
       \/ tcp \in {"reset", "shut"} /\ up' = "raised" /\ UNCHANGED <<posts, consoleVars>>
    /\ UNCHANGED <<handler, url, down, framed, wireVars>>

DownReads ==
    /\ down = "read" /\ tcpIn # <<>>
    /\ framed' = Head(tcpIn) /\ tcpIn' = Tail(tcpIn) /\ down' = "send"
    /\ UNCHANGED <<handler, url, up, ws, tcp, wsIn, told, heard, spoken, shown, posts,
                   consoleVars>>

\* IncompleteReadError is the end of the stream; a reset raises.
DownEnds ==
    /\ down = "read" /\ tcpIn = <<>> /\ tcp \in {"eof", "reset", "shut"}
    /\ down' = IF tcp = "reset" THEN "raised" ELSE "returned"
    /\ UNCHANGED <<handler, url, up, framed, wireVars, posts, consoleVars>>

\* ws.send delivers the frame as one message, or raises ConnectionClosed.
DownSends ==
    /\ down = "send" /\ framed' = 0
    /\ IF ws = "open"
       THEN shown' = Append(shown, framed) /\ down' = "read" /\ Emit
       ELSE down' = "raised" /\ UNCHANGED <<shown, posts, consoleVars>>
    /\ UNCHANGED <<handler, url, up, ws, tcp, wsIn, tcpIn, told, heard, spoken>>

-----------------------------------------------------------------------------
(* handle().                                                               *)

\* open_connection; if it fails, the client is told and nothing was started.
Dial ==
    /\ handler = "dial"
    /\ \/ /\ handler' = "gather" /\ tcp' = "open" /\ up' = "recv" /\ down' = "read"
          /\ UNCHANGED <<ws, posts, consoleVars>>
       \/ /\ handler' = "done" /\ ws' = IF ws = "open" THEN "closed" ELSE ws
          /\ Emit
          /\ UNCHANGED <<tcp, up, down>>
    /\ UNCHANGED <<url, framed, wsIn, tcpIn, told, heard, spoken, shown>>

Ended == {"returned", "raised"}

\* Mutant of Gathered: both pumps must have ended (return_exceptions=True).
GatheredBoth == up \in Ended /\ down \in Ended

\* gather returns when both pumps have, and raises as soon as one raises.
Gathered == "raised" \in {up, down} \/ {up, down} \subseteq Ended

Finally ==
    /\ handler = "gather" /\ Gathered /\ handler' = "finally"
    /\ tcp' = "shut"
    /\ UNCHANGED <<pumpVars, ws, wsIn, tcpIn, told, heard, spoken, shown, posts,
                   consoleVars>>

\* wait_closed is over, and the library closes the WebSocket of a handler that ended.
HandleEnds ==
    /\ handler = "finally" /\ handler' = "done"
    /\ ws' = IF ws = "open" THEN "closed" ELSE ws
    /\ Emit
    /\ UNCHANGED <<pumpVars, tcp, wsIn, tcpIn, told, heard, spoken, shown>>

-----------------------------------------------------------------------------
Up == UpTakes \/ UpEnds \/ UpDrains
Down == DownReads \/ DownEnds \/ DownSends
Handle == Dial \/ Finally \/ HandleEnds

Peers ==
    \/ ClientSends \/ ClientCloses \/ ClientVanishes
    \/ RelaySpeaks \/ RelayCloses \/ RelayResets

\* Nobody looks at a console without ingest: a bound.
Show == url /\ Browse /\ UNCHANGED <<handler, pumpVars, wireVars, posts>>

Next == Peers \/ Up \/ Down \/ Handle \/ PostArrives \/ Show

Spec == Init /\ [][Next]_vars

\* The event loop runs each task that can go on; the page goes on by itself.  A post
\* may hang for ever.
FairSpec ==
    /\ Spec
    /\ WF_vars(Handle) /\ WF_vars(Up) /\ WF_vars(Down)
    /\ WF_vars(Show /\ (FetchRows \/ OpenStream \/ StreamEvent))

-----------------------------------------------------------------------------
TypeOK ==
    /\ ConsoleTypeOK
    /\ url \in BOOLEAN
    /\ handler \in {"dial", "gather", "finally", "done"}
    /\ up \in {"idle", "recv", "drain"} \cup Ended
    /\ down \in {"idle", "read", "send"} \cup Ended
    /\ ws \in {"open", "closed", "broken"}
    /\ tcp \in {"none", "open", "eof", "reset", "shut"}
    /\ wsIn \in Seq(0..MaxMsgs) /\ tcpIn \in Seq(1..MaxMsgs) /\ framed \in 0..MaxMsgs
    /\ \A s \in {told, heard, spoken, shown} : s \in Seq(1..MaxMsgs)
    /\ posts \in 0..MaxEvents

\* From the client to the relay the hop is cut when the relay or the handler gave up
\* the connection, or the client vanished.
UpCut == tcp \in {"eof", "reset", "shut"} \/ ws = "broken" \/ handler = "done"

\* From the relay to the client it is cut when the WebSocket is, or when the relay's
\* connection ended and the frames before that were sent.
DownCut == ws # "open" \/ (tcp # "open" /\ down \in Ended)

ToRelay == INSTANCE FrameChannel WITH
    MaxFrames <- MaxMsgs, sent <- told, rcvd <- heard, cut <- UpCut
ToClient == INSTANCE FrameChannel WITH
    MaxFrames <- MaxMsgs, sent <- spoken, rcvd <- shown, cut <- DownCut

\* "Ingest failure never blocks or kills the wire": whatever becomes of the posts, each
\* direction delivers what was sent, once and in order, until the hop is cut; a client
\* that closes in due form does not cut the way of what it sent before.
ImplementsChannels == ToRelay!Spec /\ ToClient!Spec

\* A broken WebSocket, a relay that resets while it is read, and an end on both sides
\* all end the handler, and both pumps, the one that gather left running too.  (A
\* relay that closes while the client is silent does not, nor a client that closes in
\* due form while the relay is silent.)
HandlerEnds ==
    (\/ ws = "broken" \/ tcp = "shut"
     \/ tcp = "reset" /\ down = "read"
     \/ ws # "open" /\ tcp \in {"eof", "reset"})
    ~> (handler = "done" /\ {up, down} \cap {"recv", "drain", "read", "send"} = {})

=============================================================================
