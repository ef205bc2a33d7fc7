------------------------------- MODULE Bridge -------------------------------
(***************************************************************************)
(* The Pico's supervisor (src/bridge.py): one loop that keeps WiFi and one *)
(* socket to the desktop relay up, pairs the calculator's Str1 (prompt)    *)
(* and Str2 (math) into one frame, and pushes the relay's paginated        *)
(* replies into Str3..Str0 and then the page count into the real N.        *)
(*                                                                         *)
(* An "ask" is one run of prgmCHAT.  The text of a string is abstracted to *)
(* the number of the ask it belongs to (0 is Python's None), a reply to    *)
(* the number of the frame it answers.  Time is counted in listen_loop     *)
(* idle periods of 500 ms, and only where the code looks at it: the age of *)
(* the buffered half-pair.                                                 *)
(***************************************************************************)
EXTENDS Integers, Sequences

CONSTANTS
    AskShapes,      \* what prgmCHAT may send: the strings that exist, in order
    MaxPages,       \* length of PAGE_STR_NAMES (8 in the code)
    ReplyPages,     \* how many NUL-separated chunks a reply may have
    PairTimeout,    \* PAIR_TIMEOUT_MS in 500 ms periods (5 in the code)
    MaxAsks,        \* bound: runs of the deck
    MaxDrops,       \* bound: connections the network breaks
    MaxWlanDrops,   \* bound: losses of the WiFi association
    DropInConnect   \* whether WiFi may be lost inside _connect_socket

Slots == {"prompt", "math", "raw"}

ASSUME ShapesAssumption ==
    AskShapes \subseteq {<<"prompt", "math">>, <<"prompt">>, <<"math">>, <<"raw">>}
ASSUME BoundsAssumption ==
    /\ MaxPages \in Nat \ {0} /\ ReplyPages \subseteq Nat \ {0}
    /\ PairTimeout \in Nat \ {0}
    /\ MaxAsks \in Nat /\ MaxDrops \in Nat /\ MaxWlanDrops \in Nat
    /\ DropInConnect \in BOOLEAN

VARIABLES
    pc,         \* where run() stands
    wlan,       \* network.WLAN(STA_IF).isconnected()
    sock,       \* sock_holder[0]: 0 for None, else the number of the connection
    peer,       \* the relay's end of that connection
    inbound,    \* reply frames that have reached the Pico's FrameReader
    prompt,     \* pair["prompt"]
    math,       \* pair["math"]
    age,        \* now - pair["first_arrival_ms"], NoAge for None
    held,       \* history: the time since the buffer was last empty, NoAge while
                \* it is; a second clock, which the code does not have
    push,       \* _push_paginated_reply's locals: reply, page count n, page i
    str,        \* the calculator's Str3..Str0, by page: the reply they hold
    cnt,        \* the calculator's real N
    outbox,     \* what the running prgmCHAT has yet to send
    asked,      \* asks started
    sent,       \* history: frames the relay received
    replied,    \* frames the relay has answered
    lossy,      \* history: some ask was incomplete, or a half-pair was flushed
    conns, drops, wlanDrops     \* counters for the bounds

netVars   == <<wlan, sock, peer, conns, drops, wlanDrops>>
pairVars  == <<prompt, math, age, held>>
calcVars  == <<outbox, asked, lossy>>
pageVars  == <<push, str, cnt>>
relayVars == <<sent, replied>>
vars == <<pc, netVars, inbound, pairVars, pageVars, calcVars, relayVars>>

NoAge == -1
\* Ages beyond the timeout behave alike: the model stops counting here.
AgeCap == PairTimeout + 1
Serving == {"listen", "stale", "poll", "push", "count"}
NoPush == [reply |-> 0, n |-> 1, i |-> 1]
Min2(a, b) == IF a <= b THEN a ELSE b

Init ==
    /\ pc = "wifi" /\ wlan = FALSE
    /\ sock = 0 /\ peer = "none" /\ inbound = <<>>
    /\ prompt = 0 /\ math = 0 /\ age = NoAge /\ held = NoAge
    /\ push = NoPush
    /\ str = [p \in 1..MaxPages |-> 0] /\ cnt = 0
    /\ outbox = <<>> /\ asked = 0 /\ lossy = FALSE
    /\ sent = <<>> /\ replied = {}
    /\ conns = 0 /\ drops = 0 /\ wlanDrops = 0

-----------------------------------------------------------------------------
(* Wall-clock time.  A step that blocks for at least one idle period makes *)
(* a buffered half at least one period older; any other step may too.      *)

Older(a, d) == IF a = NoAge THEN NoAge ELSE Min2(a + d, AgeCap)

Elapse(least) ==
    \E d \in least..AgeCap : age' = Older(age, d) /\ held' = Older(held, d)

\* What becomes of the second clock, which would read h, at a step that may fill or
\* empty the buffer.
Hold(h) ==
    held' = IF prompt' = 0 /\ math' = 0 THEN NoAge
            ELSE IF prompt = 0 /\ math = 0 THEN 0 ELSE h

-----------------------------------------------------------------------------
(* Connection management.                                                  *)

\* net.connect_wifi returns with WiFi up: it was, or it came up in time.  The clock
\* is set if NTP answers; that it did not is never an error.
ConnectWifi == wlan' = TRUE

\* _wifi_with_retry: connect_wifi is retried until it succeeds.
WifiConnect ==
    /\ pc = "wifi"
    /\ ConnectWifi /\ pc' = "connect"
    /\ Elapse(0)
    /\ UNCHANGED <<sock, peer, inbound, prompt, math, conns, drops, wlanDrops,
                   pageVars, calcVars, relayVars>>

\* _connect_socket returns, and a FrameReader is built on the new socket.
\* A failed attempt changes nothing and never looks at WiFi again.
SocketConnect ==
    /\ pc = "connect" /\ wlan
    /\ conns' = conns + 1 /\ sock' = conns + 1 /\ peer' = "up"
    /\ inbound' = <<>> /\ pc' = "listen"
    /\ Elapse(0)
    /\ UNCHANGED <<wlan, prompt, math, drops, wlanDrops, pageVars, calcVars,
                   relayVars>>

\* Mutant of Except: sock_holder[0] keeps the closed socket.
ExceptKeepsSock ==
    /\ peer' = "none" /\ inbound' = <<>> /\ UNCHANGED sock
    /\ pc' = IF wlan THEN "connect" ELSE "wifi"

\* Mutant of Except: the FrameReader outlives its socket.
ExceptKeepsReader ==
    /\ sock' = 0 /\ peer' = "none" /\ UNCHANGED inbound
    /\ pc' = IF wlan THEN "connect" ELSE "wifi"

\* The OSError handler of run(): drop socket and reader, then WiFi if needed.
Except ==
    /\ sock' = 0 /\ peer' = "none" /\ inbound' = <<>>
    /\ pc' = IF wlan THEN "connect" ELSE "wifi"

\* send_framed, returning to `next`: the relay gets the frame; or the
\* connection is dead and TCP buffers bytes nobody will read; or an OSError
\* (a dead connection, or a full send buffer on the non-blocking socket).
SendFramed(frame, next) ==
    \/ /\ peer = "up"
       /\ sent' = Append(sent, frame)
       /\ pc' = next
       /\ UNCHANGED <<sock, peer, inbound, drops>>
    \/ /\ peer # "up"
       /\ pc' = next
       /\ UNCHANGED <<sent, sock, peer, inbound, drops>>
    \/ /\ peer = "up" => drops < MaxDrops
       /\ drops' = IF peer = "up" THEN drops + 1 ELSE drops
       /\ Except
       /\ UNCHANGED sent

\* A frame; with one half empty, also how long the buffer had held the other.
Frame(p, m) ==
    [prompt |-> p, math |-> m, conn |-> sock,
     held |-> IF (p = 0) # (m = 0) THEN held ELSE NoAge]

\* Mutant of FlushPair: first_arrival_ms is not reset.
FlushPairKeepsClock(p, m, a, next) ==
    /\ prompt' = 0 /\ math' = 0 /\ age' = a
    /\ SendFramed(Frame(p, m), next)

\* Mutant of FlushPair: one slot is not reset.
FlushPairKeepsMath(p, m, a, next) ==
    /\ prompt' = 0 /\ math' = m /\ age' = IF m = 0 THEN NoAge ELSE a
    /\ SendFramed(Frame(p, m), next)

\* Mutant of FlushPair: the buffer is cleared after the frame is sent, so that
\* an OSError leaves both halves in it.
FlushPairAfterSend(p, m, a, next) ==
    /\ SendFramed(Frame(p, m), next)
    /\ IF sock' = 0 THEN prompt' = p /\ math' = m /\ age' = a
       ELSE prompt' = 0 /\ math' = 0 /\ age' = NoAge

\* _flush_pair: the buffer is cleared before the frame is handed to the socket.
FlushPair(p, m, a, next) ==
    /\ prompt' = 0 /\ math' = 0 /\ age' = NoAge
    /\ SendFramed(Frame(p, m), next)

-----------------------------------------------------------------------------
(* Calculator to desktop: listen_loop and its on_var callback.             *)

\* A half of a pair arrives: buffer it, and flush when the other is there.
BufferHalf(p, m) ==
    \E d \in 0..AgeCap :
        LET a == IF age = NoAge THEN 0 ELSE Older(age, d) IN
        /\ IF p # 0 /\ m # 0
           THEN FlushPair(p, m, a, "listen")
           ELSE /\ prompt' = p /\ math' = m /\ age' = a
                /\ UNCHANGED <<pc, sent, sock, peer, inbound, drops>>
        /\ Hold(Older(held, d))

OnVar ==
    /\ pc = "listen" /\ outbox # <<>>
    /\ outbox' = Tail(outbox)
    /\ \/ Head(outbox) = "prompt" /\ BufferHalf(asked, math)
       \/ Head(outbox) = "math" /\ BufferHalf(prompt, asked)
       \/ /\ Head(outbox) = "raw"           \* _relay_raw
          /\ SendFramed(Frame(0, 0), "listen")
          /\ Elapse(0) /\ UNCHANGED <<prompt, math>>
    /\ UNCHANGED <<wlan, conns, wlanDrops, pageVars, asked, lossy, replied>>

\* listen_loop sees 500 ms without a packet and returns.
ListenIdle ==
    /\ pc = "listen" /\ pc' = "stale"
    /\ Elapse(1)
    /\ UNCHANGED <<netVars, inbound, prompt, math, pageVars, calcVars, relayVars>>

\* Traffic that reaches no callback keeps listen_loop going: RDY, an unknown
\* opener, a transfer that failed half-way.
ListenOther ==
    /\ pc = "listen" /\ age # NoAge /\ age < AgeCap
    /\ Elapse(1)
    /\ UNCHANGED <<pc, netVars, inbound, prompt, math, pageVars, calcVars,
                   relayVars>>

\* Mutant of Stale: any half will do.
StaleAtOnce(a) == a # NoAge

\* Mutant of Stale: milliseconds taken for seconds.
StaleInSeconds(a) == a >= 1000 * PairTimeout

Stale(a) == a >= PairTimeout

\* _maybe_flush_stale_pair, whose clock is None (NoAge) while nothing waits.
FlushStale ==
    /\ pc = "stale"
    /\ IF ~Stale(age)
       THEN /\ pc' = "poll"
            /\ UNCHANGED <<sock, peer, inbound, drops, prompt, math, age, sent, lossy>>
       ELSE /\ FlushPair(prompt, math, age, "poll")
            /\ lossy' = TRUE
    /\ Hold(held)
    /\ UNCHANGED <<wlan, conns, wlanDrops, pageVars, outbox, asked, replied>>

-----------------------------------------------------------------------------
(* Desktop to calculator: poll the FrameReader, push each reply.           *)

\* Mutant of PollNone: recv has nothing, so poll returns None although a whole
\* frame is buffered.
PollNoneThoughBuffered ==
    /\ pc = "poll" /\ peer # "closed"
    /\ pc' = "listen"
    /\ UNCHANGED <<netVars, inbound, pairVars, pageVars, calcVars, relayVars>>

PollNone ==
    /\ pc = "poll" /\ inbound = <<>> /\ peer # "closed"
    /\ pc' = "listen"
    /\ UNCHANGED <<netVars, inbound, pairVars, pageVars, calcVars, relayVars>>

\* Mutant of PollRaises: the end of the stream is taken for "nothing yet".
PollSwallowsClose ==
    /\ pc = "poll" /\ inbound = <<>> /\ peer = "closed"
    /\ pc' = "listen"
    /\ UNCHANGED <<netVars, inbound, pairVars, pageVars, calcVars, relayVars>>

\* recv() returned b"" or raised: FrameReader.poll lets the OSError out.
PollRaises ==
    /\ pc = "poll" /\ inbound = <<>> /\ peer = "closed"
    /\ Except
    /\ UNCHANGED <<wlan, conns, drops, wlanDrops, pairVars, pageVars, calcVars,
                   relayVars>>

\* Mutant of PagesKept: no clamp.
AllPages(n) == n

\* `if len(pages) > MAX_PAGES: pages = pages[:MAX_PAGES]`
PagesKept(n) == Min2(n, MaxPages)

\* A whole frame: _parse_pages_frame finds at least one page, and
\* _push_paginated_reply keeps at most MaxPages of them.
PollFrame ==
    /\ pc = "poll" /\ inbound # <<>>
    /\ inbound' = Tail(inbound)
    /\ push' = [reply |-> Head(inbound).reply, n |-> PagesKept(Head(inbound).pages),
                i |-> 1]
    /\ pc' = "push"
    /\ UNCHANGED <<netVars, pairVars, str, cnt, calcVars, relayVars>>

\* transfer.send_var as the supervisor sees it: it returns True only when the
\* calculator stored the variable, but may return False although it did (the
\* last ACK or the EOT was lost).  The calculator takes a push only while it
\* is not inside prgmCHAT.
SendVarOutcomes ==
    {[stored |-> FALSE, ok |-> FALSE]} \cup
    IF outbox = <<>> THEN {[stored |-> TRUE, ok |-> b] : b \in BOOLEAN} ELSE {}

\* Mutant of AfterPage: a failed page is passed over.
AfterPageGoOn(ok) ==
    /\ pc' = IF push.i = push.n THEN "count" ELSE "push"
    /\ push' = [push EXCEPT !.i = Min2(push.i + 1, push.n)]

\* A failed page aborts the reply; after the last comes the count.
AfterPage(ok) ==
    /\ pc' = IF ~ok THEN "poll" ELSE IF push.i = push.n THEN "count" ELSE "push"
    /\ push' = IF ~ok THEN NoPush ELSE [push EXCEPT !.i = Min2(push.i + 1, push.n)]

\* One turn of the page loop: SETTLE_MS, then _push_one_str.
PushPage ==
    /\ pc = "push"
    /\ \E out \in SendVarOutcomes :
        /\ str' = IF out.stored THEN [str EXCEPT ![push.i] = push.reply] ELSE str
        /\ AfterPage(out.ok)
    /\ Elapse(1)
    /\ UNCHANGED <<netVars, inbound, prompt, math, cnt, calcVars, relayVars>>

\* _push_pagecount
PushCount ==
    /\ pc = "count" /\ pc' = "poll" /\ push' = NoPush
    /\ \E out \in SendVarOutcomes : cnt' = IF out.stored THEN push.n ELSE cnt
    /\ Elapse(1)
    /\ UNCHANGED <<netVars, inbound, prompt, math, str, calcVars, relayVars>>

\* KeyboardInterrupt: close the socket and return.
Interrupt ==
    /\ pc # "stopped" /\ pc' = "stopped"
    /\ sock' = 0 /\ peer' = "none" /\ inbound' = <<>> /\ push' = NoPush
    /\ UNCHANGED <<wlan, conns, drops, wlanDrops, pairVars, str, cnt, calcVars,
                   relayVars>>

-----------------------------------------------------------------------------
(* The calculator: DECK.basic zeroes N and runs prgmCHAT, which sends the  *)
(* strings that exist and exits.                                           *)

\* Mutant of AskStart: the deck does not zero N.
AskStartKeepsCount ==
    /\ pc # "stopped" /\ asked < MaxAsks /\ outbox = <<>>
    /\ \E shape \in AskShapes :
        /\ outbox' = shape
        /\ lossy' = (lossy \/ shape \in {<<"prompt">>, <<"math">>})
    /\ asked' = asked + 1
    /\ UNCHANGED <<pc, netVars, inbound, pairVars, pageVars, sent, replied>>

AskStart ==
    /\ pc # "stopped" /\ asked < MaxAsks /\ outbox = <<>>
    /\ \E shape \in AskShapes :
        /\ outbox' = shape
        /\ cnt' = IF shape = <<"raw">> THEN cnt ELSE 0
        /\ lossy' = (lossy \/ shape \in {<<"prompt">>, <<"math">>})
    /\ asked' = asked + 1
    /\ UNCHANGED <<pc, netVars, inbound, pairVars, push, str, relayVars>>

\* _SendVarCmd fails (nobody answers, or a bit times out): the OS either
\* gives up on this string only or throws out of the program.
LoseHalf ==
    /\ pc # "stopped" /\ outbox # <<>>
    /\ outbox' \in {<<>>, Tail(outbox)}
    /\ lossy' = TRUE
    /\ UNCHANGED <<pc, netVars, inbound, pairVars, pageVars, asked, relayVars>>

-----------------------------------------------------------------------------
(* The relay and the network (outside this module's code).                 *)

\* A worker of the relay answers a frame on the connection it came in on, in
\* any order, with any number of NUL-separated chunks; its answer may be to a
\* later frame of that connection (AnswersThisClient in Relay).  Assumed: nobody
\* types at the relay, whose lines would come in between (relay_server.py:459).
Reply ==
    /\ peer = "up"
    /\ \E k \in (1..Len(sent)) \ replied : \E j \in k..Len(sent) :
        /\ sent[k].conn = sock /\ sent[j].conn = sock
        /\ replied' = replied \cup {k}
        /\ \E n \in ReplyPages :
            inbound' = Append(inbound, [reply |-> j, pages |-> n])
    /\ UNCHANGED <<pc, netVars, pairVars, pageVars, calcVars, sent>>

\* The relay closes the connection (the Pico's TCP learns of it), or it is
\* gone without a packet to say so.
PeerDrop ==
    /\ peer = "up" /\ drops < MaxDrops
    /\ peer' \in {"closed", "gone"} /\ drops' = drops + 1
    /\ UNCHANGED <<pc, wlan, sock, inbound, conns, wlanDrops, pairVars, pageVars,
                   calcVars, relayVars>>

\* The WiFi association is lost: an open connection goes silent.
WlanDrop ==
    /\ wlan /\ wlanDrops < MaxWlanDrops
    /\ pc \in Serving \/ (pc = "connect" /\ DropInConnect)
    /\ wlan' = FALSE /\ wlanDrops' = wlanDrops + 1
    /\ peer' = IF peer = "up" THEN "gone" ELSE peer
    /\ UNCHANGED <<pc, sock, inbound, conns, drops, pairVars, pageVars, calcVars,
                   relayVars>>

-----------------------------------------------------------------------------
Supervisor ==
    \/ WifiConnect \/ SocketConnect
    \/ ListenIdle \/ FlushStale
    \/ PollNone \/ PollRaises \/ PollFrame \/ PushPage \/ PushCount

Environment ==
    \/ AskStart \/ LoseHalf \/ Reply \/ PeerDrop \/ WlanDrop \/ Interrupt

Next == Supervisor \/ OnVar \/ ListenOther \/ Environment

Spec == Init /\ [][Next]_vars

\* run() is never descheduled: it takes its next step, and listen_loop sees a
\* quiet 500 ms, sooner or later.  Nothing else is promised.
FairSpec == Spec /\ WF_vars(Supervisor)

-----------------------------------------------------------------------------
(* Safety.                                                                 *)

FrameType == [prompt : 0..MaxAsks, math : 0..MaxAsks, held : NoAge..AgeCap,
              conn : Nat]

\* Every variable keeps its type; in particular the page index stays within
\* the slots of PAGE_STR_NAMES whatever the relay sends.
TypeOK ==
    /\ pc \in {"wifi", "connect", "stopped"} \cup Serving
    /\ wlan \in BOOLEAN
    /\ sock \in Nat /\ conns \in Nat /\ sock <= conns
    /\ peer \in {"none", "up", "closed", "gone"}
    /\ inbound \in Seq([reply : Nat, pages : ReplyPages])
    /\ prompt \in 0..MaxAsks /\ math \in 0..MaxAsks
    /\ age \in NoAge..AgeCap /\ held \in NoAge..AgeCap
    /\ push \in [reply : Nat, n : 1..MaxPages, i : 1..MaxPages]
    /\ str \in [1..MaxPages -> Nat] /\ cnt \in 0..MaxPages
    /\ outbox \in Seq(Slots) /\ asked \in 0..MaxAsks
    /\ sent \in Seq(FrameType)
    /\ replied \in SUBSET Nat
    /\ lossy \in BOOLEAN
    /\ drops \in 0..MaxDrops /\ wlanDrops \in 0..MaxWlanDrops

\* Between two callbacks the pair buffer holds at most one half, and
\* first_arrival_ms is set exactly while it holds one: the branch of
\* _maybe_flush_stale_pair marked "shouldn't happen" is dead, and no half can
\* be left in the buffer without a clock that will flush it.
PairCoherent ==
    /\ prompt = 0 \/ math = 0
    /\ (age = NoAge) <=> (prompt = 0 /\ math = 0)

\* run() holds an open socket exactly while it serves: _emit_pair never finds
\* None ("dropping pair"), reader_holder[0].poll() never dereferences None, and
\* no path out of the loop leaves a socket behind.
ServesOnSocket ==
    /\ (sock # 0) <=> (pc \in Serving)
    /\ (peer # "none") <=> (sock # 0)

\* Whatever is lost, flushed early or reconnected, no half of an ask reaches
\* the relay twice, and the halves of one slot reach it in the order asked.
HalvesOnceInOrder ==
    \A j, k \in DOMAIN sent : j < k =>
        /\ sent[j].prompt # 0 /\ sent[k].prompt # 0 => sent[j].prompt < sent[k].prompt
        /\ sent[j].math # 0 /\ sent[k].math # 0 => sent[j].math < sent[k].math

\* While every ask sent both strings and no pairing timeout fired, on_var never
\* joins the prompt of one ask with the math of another, across reconnects and
\* emits that failed.
SameAskUnlessLossy ==
    ~lossy => \A k \in DOMAIN sent : sent[k].prompt = sent[k].math

\* A half goes out alone only when the buffer has held it, or a half it replaced,
\* for the whole pairing timeout: told by a clock that starts when the buffer is
\* filled and stops when it is emptied, whatever first_arrival_ms says - so no
\* flush, emit that failed or reconnect leaves the code's clock running from a
\* pair long gone, to cut the next one in two.
HalvesGivenTime ==
    \A k \in DOMAIN sent :
        (sent[k].prompt = 0) # (sent[k].math = 0) => sent[k].held >= PairTimeout

\* The reply being pushed, and each one waiting, answers a frame sent on the
\* connection that is open now: a new FrameReader forgets the old stream.
RepliesOfThisConnection ==
    /\ \A m \in DOMAIN inbound : sent[inbound[m].reply].conn = sock
    /\ pc \in {"push", "count"} => sent[push.reply].conn = sock

\* While a reply is being pushed the pages before the current one hold it, all
\* of them when the page count is about to be pushed.
PagesBeforeCount ==
    /\ pc = "push" => \A p \in 1..(push.i - 1) : str[p] = push.reply
    /\ pc = "count" => \A p \in 1..push.n : str[p] = push.reply

\* At the step that sets N to a page count, each of the pages it announces
\* comes from one and the same reply.
CountAnnouncesWholeReply ==
    [][cnt' # cnt => \A p, q \in 1..cnt' : str'[p] = str'[q]]_vars

-----------------------------------------------------------------------------
(* Liveness, under FairSpec.                                               *)

\* A buffered half never stays: it is joined or flushed, even when the
\* connection fails meanwhile.
HalfPairFlushed == (age # NoAge) ~> (age = NoAge \/ pc = "stopped")

\* Claim (bridge.py): "Catches network failures and reconnects" - without a
\* socket, the supervisor gets one.
Reconnects == (sock = 0) ~> (sock # 0 \/ pc = "stopped")

\* A connection the relay closed is noticed and replaced by one that is up,
\* whatever the supervisor was doing: waiting, flushing or pushing a reply.
ClosedPeerReplaced == (peer = "closed") ~> (peer = "up" \/ pc = "stopped")

=============================================================================
