---------------------------- MODULE BridgeProofs ----------------------------
(***************************************************************************)
(* Proofs about the supervisor, for every value of Bridge's constants.     *)
(***************************************************************************)
EXTENDS Bridge, SequenceTheorems, TLAPS

-----------------------------------------------------------------------------
(* The small operators.                                                    *)

LEMMA Constants ==
    /\ MaxPages \in Nat \ {0} /\ ReplyPages \subseteq Nat \ {0} /\ PairTimeout \in Nat \ {0}
    /\ MaxAsks \in Nat /\ MaxDrops \in Nat /\ MaxWlanDrops \in Nat
    /\ AgeCap = PairTimeout + 1 /\ NoAge = -1
BY BoundsAssumption DEF AgeCap, NoAge

\* Waiting keeps an age an age, and neither sets nor clears the clock.
LEMMA OlderType ==
    ASSUME NEW a \in NoAge..AgeCap, NEW d \in 0..AgeCap
    PROVE  /\ Older(a, d) \in NoAge..AgeCap
           /\ Older(a, d) = NoAge <=> a = NoAge
           /\ a # NoAge => Older(a, d) \in 0..AgeCap
BY Constants DEF Older, Min2

-----------------------------------------------------------------------------
(* Type correctness.                                                       *)

LEMMA InitType == Init => TypeOK
<1> SUFFICES ASSUME Init PROVE TypeOK
  OBVIOUS
<1>1. /\ inbound \in Seq([reply : Nat, pages : ReplyPages])
      /\ outbox \in Seq(Slots) /\ sent \in Seq(FrameType)
  BY DEF Init
<1>2. push \in [reply : Nat, n : 1..MaxPages, i : 1..MaxPages]
  BY Constants DEF Init, NoPush
<1>3. str \in [1..MaxPages -> Nat] /\ replied \in SUBSET Nat
  BY DEF Init
<1>4. age \in NoAge..AgeCap /\ held \in NoAge..AgeCap
  BY Constants DEF Init
<1>5. /\ drops \in 0..MaxDrops /\ wlanDrops \in 0..MaxWlanDrops
      /\ prompt \in 0..MaxAsks /\ math \in 0..MaxAsks /\ asked \in 0..MaxAsks
      /\ cnt \in 0..MaxPages
  BY Constants DEF Init
<1>6. /\ pc \in {"wifi", "connect", "stopped"} \cup Serving
      /\ peer \in {"none", "up", "closed", "gone"}
  BY DEF Init
<1>7. wlan \in BOOLEAN /\ lossy \in BOOLEAN
  BY DEF Init
<1>8. sock \in Nat /\ conns \in Nat /\ sock <= conns
  BY DEF Init
<1> QED BY <1>1, <1>2, <1>3, <1>4, <1>5, <1>6, <1>7, <1>8 DEF TypeOK

\* send_framed keeps the types its outcomes touch.
LEMMA SendFramedType ==
    ASSUME TypeOK, NEW frame \in FrameType, NEW next \in Serving,
           SendFramed(frame, next)
    PROVE  /\ sent' \in Seq(FrameType)
           /\ pc' \in {"wifi", "connect", "stopped"} \cup Serving
           /\ sock' \in Nat /\ sock' <= conns
           /\ peer' \in {"none", "up", "closed", "gone"}
           /\ inbound' \in Seq([reply : Nat, pages : ReplyPages])
           /\ drops' \in 0..MaxDrops
<1>1. CASE peer = "up" /\ sent' = Append(sent, frame) /\ pc' = next
           /\ UNCHANGED <<sock, peer, inbound, drops>>
  BY <1>1 DEF TypeOK
<1>2. CASE pc' = next /\ UNCHANGED <<sent, sock, peer, inbound, drops>>
  BY <1>2 DEF TypeOK
<1>3. CASE /\ peer = "up" => drops < MaxDrops
           /\ drops' = IF peer = "up" THEN drops + 1 ELSE drops
           /\ Except /\ UNCHANGED sent
  BY <1>3, Constants DEF TypeOK, Except
<1> QED BY <1>1, <1>2, <1>3 DEF SendFramed

LEMMA FrameTyped ==
    ASSUME TypeOK, NEW p \in 0..MaxAsks, NEW m \in 0..MaxAsks
    PROVE  Frame(p, m) \in FrameType
<1>1. NoAge \in NoAge..AgeCap
  BY Constants
<1>2. (IF (p = 0) # (m = 0) THEN held ELSE NoAge) \in NoAge..AgeCap
  BY <1>1 DEF TypeOK
<1> QED BY <1>2 DEF Frame, FrameType, TypeOK

\* on_var with a half: the age it has, new or joined, and the time that has passed.
LEMMA BufferHalfCases ==
    ASSUME TypeOK, NEW p, NEW m, BufferHalf(p, m)
    PROVE  \E a \in 0..AgeCap, d \in 0..AgeCap :
             /\ a = (IF age = NoAge THEN 0 ELSE Older(age, d))
             /\ IF p # 0 /\ m # 0
                THEN FlushPair(p, m, a, "listen")
                ELSE /\ prompt' = p /\ math' = m /\ age' = a
                     /\ UNCHANGED <<pc, sent, sock, peer, inbound, drops>>
             /\ Hold(Older(held, d))
<1>1. PICK d \in 0..AgeCap :
        LET a == IF age = NoAge THEN 0 ELSE Older(age, d) IN
        /\ IF p # 0 /\ m # 0
           THEN FlushPair(p, m, a, "listen")
           ELSE /\ prompt' = p /\ math' = m /\ age' = a
                /\ UNCHANGED <<pc, sent, sock, peer, inbound, drops>>
        /\ Hold(Older(held, d))
  BY DEF BufferHalf
<1>2. (IF age = NoAge THEN 0 ELSE Older(age, d)) \in 0..AgeCap
  <2>1. age \in NoAge..AgeCap
    BY DEF TypeOK
  <2>2. age # NoAge => Older(age, d) \in 0..AgeCap
    BY <2>1, OlderType
  <2>3. 0 \in 0..AgeCap
    BY Constants
  <2> QED BY <2>2, <2>3
<1> QED BY <1>1, <1>2

\* The second clock stays one.
LEMMA HoldType ==
    ASSUME NEW h \in NoAge..AgeCap, Hold(h) PROVE held' \in NoAge..AgeCap
BY Constants DEF Hold

LEMMA BufferHalfType ==
    ASSUME TypeOK, NEW p \in 0..MaxAsks, NEW m \in 0..MaxAsks, pc = "listen",
           BufferHalf(p, m)
    PROVE  /\ prompt' \in 0..MaxAsks /\ math' \in 0..MaxAsks
           /\ age' \in NoAge..AgeCap /\ held' \in NoAge..AgeCap
           /\ sent' \in Seq(FrameType)
           /\ pc' \in {"wifi", "connect", "stopped"} \cup Serving
           /\ sock' \in Nat /\ sock' <= conns
           /\ peer' \in {"none", "up", "closed", "gone"}
           /\ inbound' \in Seq([reply : Nat, pages : ReplyPages])
           /\ drops' \in 0..MaxDrops
<1>1. PICK a \in 0..AgeCap, d \in 0..AgeCap :
        /\ a = (IF age = NoAge THEN 0 ELSE Older(age, d))
        /\ IF p # 0 /\ m # 0
           THEN FlushPair(p, m, a, "listen")
           ELSE /\ prompt' = p /\ math' = m /\ age' = a
                /\ UNCHANGED <<pc, sent, sock, peer, inbound, drops>>
        /\ Hold(Older(held, d))
  BY BufferHalfCases
<1>2. a \in NoAge..AgeCap
  BY <1>1, Constants
<1>5. held' \in NoAge..AgeCap
  <2>1. Older(held, d) \in NoAge..AgeCap /\ Hold(Older(held, d))
    BY <1>1, OlderType DEF TypeOK
  <2> QED BY <2>1, HoldType
<1>3. CASE p # 0 /\ m # 0
  <2>1. SendFramed(Frame(p, m), "listen") /\ prompt' = 0 /\ math' = 0 /\ age' = NoAge
    BY <1>1, <1>3 DEF FlushPair
  <2>2. "listen" \in Serving
    BY DEF Serving
  <2>3. Frame(p, m) \in FrameType
    BY <1>2, FrameTyped
  <2>4. prompt' \in 0..MaxAsks /\ math' \in 0..MaxAsks /\ age' \in NoAge..AgeCap
    BY <2>1, Constants
  <2> QED BY <1>5, <2>1, <2>2, <2>3, <2>4, SendFramedType
<1>4. CASE ~(p # 0 /\ m # 0)
  BY <1>1, <1>2, <1>4, <1>5 DEF TypeOK
<1> QED BY <1>3, <1>4

LEMMA TypeStep == TypeOK /\ [Next]_vars => TypeOK'
<1> SUFFICES ASSUME TypeOK, [Next]_vars PROVE TypeOK'
  OBVIOUS
<1> USE DEF netVars, pairVars, calcVars, pageVars, relayVars
<1>1. ASSUME NEW least \in Nat, Elapse(least)
      PROVE  age' \in NoAge..AgeCap /\ held' \in NoAge..AgeCap
  BY <1>1, OlderType DEF Elapse, TypeOK
<1>a. CASE WifiConnect
  BY <1>a, <1>1 DEF WifiConnect, ConnectWifi, TypeOK
<1>b. CASE SocketConnect
  <2>1. age' \in NoAge..AgeCap /\ held' \in NoAge..AgeCap
    BY <1>b, <1>1 DEF SocketConnect
  <2>2. sock' \in Nat /\ conns' \in Nat /\ sock' <= conns'
    BY <1>b DEF SocketConnect, TypeOK
  <2>3. inbound' \in Seq([reply : Nat, pages : ReplyPages])
    BY <1>b DEF SocketConnect
  <2>4. pc' \in Serving
    BY <1>b DEF SocketConnect, Serving
  <2> QED BY <1>b, <2>1, <2>2, <2>3, <2>4 DEF SocketConnect, TypeOK
<1>c. CASE ListenIdle
  BY <1>c, <1>1 DEF ListenIdle, TypeOK, Serving
<1>d. CASE FlushStale
  <2>0. held' \in NoAge..AgeCap
    BY <1>d, HoldType DEF FlushStale, TypeOK
  <2>1. CASE ~Stale(age)
    BY <1>d, <2>0, <2>1 DEF FlushStale, TypeOK, Serving
  <2>2. CASE Stale(age)
    <3>1. /\ prompt' = 0 /\ math' = 0 /\ age' = NoAge /\ lossy' = TRUE
          /\ SendFramed(Frame(prompt, math), "poll")
      BY <1>d, <2>2 DEF FlushStale, FlushPair
    <3>2. Frame(prompt, math) \in FrameType
      BY FrameTyped DEF TypeOK
    <3>3. "poll" \in Serving
      BY DEF Serving
    <3>4. prompt' \in 0..MaxAsks /\ math' \in 0..MaxAsks /\ age' \in NoAge..AgeCap
      BY <3>1, Constants
    <3>5. /\ sent' \in Seq(FrameType)
          /\ pc' \in {"wifi", "connect", "stopped"} \cup Serving
          /\ sock' \in Nat /\ sock' <= conns
          /\ peer' \in {"none", "up", "closed", "gone"}
          /\ inbound' \in Seq([reply : Nat, pages : ReplyPages])
          /\ drops' \in 0..MaxDrops
      BY <3>1, <3>2, <3>3, SendFramedType
    <3> QED BY <1>d, <2>0, <3>1, <3>4, <3>5 DEF FlushStale, TypeOK
  <2> QED BY <2>1, <2>2
<1>e. CASE PollNone
  BY <1>e DEF PollNone, TypeOK, Serving
<1>f. CASE PollRaises
  BY <1>f DEF PollRaises, Except, TypeOK
<1>g. CASE PollFrame
  <2>1. /\ inbound' \in Seq([reply : Nat, pages : ReplyPages])
        /\ Head(inbound) \in [reply : Nat, pages : ReplyPages]
    BY <1>g, HeadTailProperties DEF PollFrame, TypeOK
  <2>2. PagesKept(Head(inbound).pages) \in 1..MaxPages /\ 1 \in 1..MaxPages
    <3>1. Head(inbound).pages \in Nat \ {0}
      BY <2>1, Constants
    <3> QED
      BY <3>1, Constants DEF PagesKept, Min2
  <2>3. push' \in [reply : Nat, n : 1..MaxPages, i : 1..MaxPages]
    BY <1>g, <2>1, <2>2 DEF PollFrame
  <2>4. pc' \in Serving
    BY <1>g DEF PollFrame, Serving
  <2> QED BY <1>g, <2>1, <2>3, <2>4 DEF PollFrame, TypeOK
<1>h. CASE PushPage
  <2>1. PICK out \in SendVarOutcomes :
        /\ str' = IF out.stored THEN [str EXCEPT ![push.i] = push.reply] ELSE str
        /\ pc' = IF ~out.ok THEN "poll"
                 ELSE IF push.i = push.n THEN "count" ELSE "push"
        /\ push' = IF ~out.ok THEN NoPush
                   ELSE [push EXCEPT !.i = Min2(push.i + 1, push.n)]
    BY <1>h DEF PushPage, AfterPage
  <2>2. str' \in [1..MaxPages -> Nat]
    BY <2>1 DEF TypeOK
  <2>3. NoPush \in [reply : Nat, n : 1..MaxPages, i : 1..MaxPages]
    BY Constants DEF NoPush
  <2>4. Min2(push.i + 1, push.n) \in 1..MaxPages
    BY Constants DEF TypeOK, Min2
  <2>5. push' \in [reply : Nat, n : 1..MaxPages, i : 1..MaxPages]
    BY <2>1, <2>3, <2>4 DEF TypeOK
  <2>6. pc' \in Serving
    BY <2>1 DEF Serving
  <2>7. age' \in NoAge..AgeCap /\ held' \in NoAge..AgeCap
    BY <1>h, <1>1 DEF PushPage
  <2> QED BY <1>h, <2>2, <2>5, <2>6, <2>7 DEF PushPage, TypeOK
<1>i. CASE PushCount
  <2>1. cnt' \in 0..MaxPages
    BY <1>i, Constants DEF PushCount, TypeOK
  <2>2. push' \in [reply : Nat, n : 1..MaxPages, i : 1..MaxPages]
    BY <1>i, Constants DEF PushCount, NoPush
  <2>3. age' \in NoAge..AgeCap /\ held' \in NoAge..AgeCap
    BY <1>i, <1>1 DEF PushCount
  <2>4. pc' \in Serving
    BY <1>i DEF PushCount, Serving
  <2> QED BY <1>i, <2>1, <2>2, <2>3, <2>4 DEF PushCount, TypeOK
<1>j. CASE OnVar
  <2>1. outbox' \in Seq(Slots)
    BY <1>j DEF OnVar, TypeOK
  <2>2. /\ prompt' \in 0..MaxAsks /\ math' \in 0..MaxAsks
        /\ age' \in NoAge..AgeCap /\ held' \in NoAge..AgeCap
        /\ sent' \in Seq(FrameType)
        /\ pc' \in {"wifi", "connect", "stopped"} \cup Serving
        /\ sock' \in Nat /\ sock' <= conns
        /\ peer' \in {"none", "up", "closed", "gone"}
        /\ inbound' \in Seq([reply : Nat, pages : ReplyPages])
        /\ drops' \in 0..MaxDrops
    <3>1. CASE BufferHalf(asked, math)
      BY <1>j, <3>1, BufferHalfType DEF OnVar, TypeOK
    <3>2. CASE BufferHalf(prompt, asked)
      BY <1>j, <3>2, BufferHalfType DEF OnVar, TypeOK
    <3>3. CASE /\ SendFramed(Frame(0, 0), "listen")
               /\ Elapse(0) /\ UNCHANGED <<prompt, math>>
      <4>1. Frame(0, 0) \in FrameType
        BY FrameTyped, Constants
      <4>2. "listen" \in Serving
        BY DEF Serving
      <4>3. /\ sent' \in Seq(FrameType)
            /\ pc' \in {"wifi", "connect", "stopped"} \cup Serving
            /\ sock' \in Nat /\ sock' <= conns
            /\ peer' \in {"none", "up", "closed", "gone"}
            /\ inbound' \in Seq([reply : Nat, pages : ReplyPages])
            /\ drops' \in 0..MaxDrops
        BY <3>3, <4>1, <4>2, SendFramedType
      <4> QED BY <3>3, <4>3, <1>1 DEF TypeOK
    <3> QED BY <1>j, <3>1, <3>2, <3>3 DEF OnVar
  <2> QED BY <1>j, <2>1, <2>2 DEF OnVar, TypeOK
<1>k. CASE ListenOther
  BY <1>k, <1>1 DEF ListenOther, TypeOK
<1>l. CASE AskStart
  <2>1. PICK shape \in AskShapes :
        /\ outbox' = shape
        /\ cnt' = IF shape = <<"raw">> THEN cnt ELSE 0
        /\ lossy' = (lossy \/ shape \in {<<"prompt">>, <<"math">>})
    BY <1>l DEF AskStart
  <2>2. shape \in Seq(Slots)
    <3>1. shape \in {<<"prompt", "math">>, <<"prompt">>, <<"math">>, <<"raw">>}
      BY ShapesAssumption
    <3>2. /\ <<"prompt", "math">> \in Seq(Slots) /\ <<"prompt">> \in Seq(Slots)
          /\ <<"math">> \in Seq(Slots) /\ <<"raw">> \in Seq(Slots)
      BY DEF Slots
    <3> QED BY <3>1, <3>2
  <2>3. cnt' \in 0..MaxPages /\ asked' \in 0..MaxAsks /\ lossy' \in BOOLEAN
    BY <1>l, <2>1, Constants DEF AskStart, TypeOK
  <2> QED BY <1>l, <2>1, <2>2, <2>3 DEF AskStart, TypeOK
<1>m. CASE LoseHalf
  <2>0. Tail(outbox) \in Seq(Slots) /\ <<>> \in Seq(Slots)
    BY <1>m, HeadTailProperties DEF LoseHalf, TypeOK
  <2>1. outbox' \in Seq(Slots)
    BY <1>m, <2>0 DEF LoseHalf
  <2> QED BY <1>m, <2>1 DEF LoseHalf, TypeOK
<1>n. CASE Reply
  <2>0. PICK k \in (1..Len(sent)) \ replied : \E j \in k..Len(sent) :
        /\ replied' = replied \cup {k}
        /\ \E n \in ReplyPages :
            inbound' = Append(inbound, [reply |-> j, pages |-> n])
    BY <1>n DEF Reply
  <2>1. PICK j \in k..Len(sent) :
        /\ replied' = replied \cup {k}
        /\ \E n \in ReplyPages :
            inbound' = Append(inbound, [reply |-> j, pages |-> n])
    BY <2>0
  <2>2. k \in Nat /\ j \in Nat
    BY DEF TypeOK
  <2>3. inbound' \in Seq([reply : Nat, pages : ReplyPages])
    BY <2>1, <2>2 DEF TypeOK
  <2> QED BY <1>n, <2>1, <2>2, <2>3 DEF Reply, TypeOK
<1>o. CASE PeerDrop
  BY <1>o, Constants DEF PeerDrop, TypeOK
<1>p. CASE WlanDrop
  <2>1. wlanDrops' \in 0..MaxWlanDrops
    BY <1>p, Constants DEF WlanDrop, TypeOK
  <2>2. peer' \in {"none", "up", "closed", "gone"} /\ wlan' \in BOOLEAN
    BY <1>p DEF WlanDrop, TypeOK
  <2> QED BY <1>p, <2>1, <2>2 DEF WlanDrop, TypeOK
<1>q. CASE Interrupt
  <2>1. push' \in [reply : Nat, n : 1..MaxPages, i : 1..MaxPages]
    BY <1>q, Constants DEF Interrupt, NoPush
  <2>2. sock' \in Nat /\ conns' \in Nat /\ sock' <= conns'
    BY <1>q DEF Interrupt, TypeOK
  <2>3. inbound' \in Seq([reply : Nat, pages : ReplyPages])
    BY <1>q DEF Interrupt
  <2>4. /\ pc' \in {"wifi", "connect", "stopped"} \cup Serving
        /\ peer' \in {"none", "up", "closed", "gone"}
    BY <1>q DEF Interrupt
  <2>5. UNCHANGED <<wlan, drops, wlanDrops, prompt, math, age, held, str, cnt, outbox, asked,
                    lossy, sent, replied>>
    BY <1>q DEF Interrupt
  <2> QED BY <2>1, <2>2, <2>3, <2>4, <2>5 DEF TypeOK
<1>r. CASE UNCHANGED vars
  BY <1>r DEF vars, TypeOK
<1> QED
  BY <1>a, <1>b, <1>c, <1>d, <1>e, <1>f, <1>g, <1>h, <1>i, <1>j, <1>k, <1>l,
     <1>m, <1>n, <1>o, <1>p, <1>q, <1>r
  DEF Next, Supervisor, Environment

\* Every variable of the supervisor keeps its type, for any number of asks,
\* pages and faults.
THEOREM TypeCorrect == Spec => []TypeOK
BY InitType, TypeStep, PTL DEF Spec

-----------------------------------------------------------------------------
(* The pair buffer.                                                        *)

\* What a frame handed to the socket can change.
LEMMA SendFramedEffect ==
    ASSUME NEW frame, NEW next, SendFramed(frame, next)
    PROVE  /\ sent' = sent \/ sent' = Append(sent, frame)
           /\ \/ pc' = next /\ UNCHANGED <<sock, peer, inbound>>
              \/ Except
BY DEF SendFramed

\* on_var leaves a lone half with its clock, or an empty buffer without one.
LEMMA BufferHalfPair ==
    ASSUME TypeOK, NEW p \in 0..MaxAsks, NEW m \in 0..MaxAsks, p # 0 \/ m # 0,
           BufferHalf(p, m)
    PROVE  /\ prompt' = 0 \/ math' = 0
           /\ (age' = NoAge) <=> (prompt' = 0 /\ math' = 0)
<1>1. PICK a \in 0..AgeCap, d \in 0..AgeCap :
        /\ a = (IF age = NoAge THEN 0 ELSE Older(age, d))
        /\ IF p # 0 /\ m # 0
           THEN FlushPair(p, m, a, "listen")
           ELSE /\ prompt' = p /\ math' = m /\ age' = a
                /\ UNCHANGED <<pc, sent, sock, peer, inbound, drops>>
        /\ Hold(Older(held, d))
  BY BufferHalfCases
<1>2. a # NoAge
  BY <1>1, Constants
<1>3. CASE p # 0 /\ m # 0
  BY <1>1, <1>3 DEF FlushPair
<1>4. CASE ~(p # 0 /\ m # 0)
  BY <1>1, <1>2, <1>4
<1> QED BY <1>3, <1>4

\* A string that prgmCHAT has still to send belongs to an ask that has begun.
AskBegun == outbox # <<>> => asked # 0

LEMMA AskBegunStep == TypeOK /\ AskBegun /\ [Next]_vars => AskBegun'
<1> SUFFICES ASSUME TypeOK, AskBegun, [Next]_vars PROVE AskBegun'
  OBVIOUS
<1> USE DEF netVars, pairVars, calcVars, pageVars, relayVars
<1>1. CASE OnVar
  BY <1>1 DEF OnVar, AskBegun
<1>2. CASE AskStart
  BY <1>2 DEF AskStart, TypeOK, AskBegun
<1>3. CASE LoseHalf
  BY <1>3 DEF LoseHalf, AskBegun
<1>4. CASE UNCHANGED <<outbox, asked>>
  BY <1>4 DEF AskBegun
<1>5. CASE Supervisor
  <2> SUFFICES UNCHANGED <<outbox, asked>>
    BY <1>4
  <2>1. CASE WifiConnect \/ SocketConnect \/ ListenIdle \/ FlushStale
    BY <2>1 DEF WifiConnect, ConnectWifi, SocketConnect, ListenIdle, FlushStale
  <2>2. CASE PollNone \/ PollRaises \/ PollFrame \/ PushPage \/ PushCount
    BY <2>2 DEF PollNone, PollRaises, PollFrame, PushPage, PushCount
  <2> QED BY <1>5, <2>1, <2>2 DEF Supervisor
<1>6. CASE ListenOther \/ Reply \/ PeerDrop \/ WlanDrop \/ Interrupt
  BY <1>4, <1>6 DEF ListenOther, Reply, PeerDrop, WlanDrop, Interrupt
<1>7. CASE UNCHANGED vars
  BY <1>4, <1>7 DEF vars
<1> QED BY <1>1, <1>2, <1>3, <1>5, <1>6, <1>7 DEF Next, Environment

LEMMA PairStep == TypeOK /\ AskBegun /\ PairCoherent /\ [Next]_vars => PairCoherent'
<1> SUFFICES ASSUME TypeOK, AskBegun, PairCoherent, [Next]_vars PROVE PairCoherent'
  OBVIOUS
<1> USE DEF netVars, pairVars, calcVars, pageVars, relayVars
<1>1. ASSUME NEW least \in Nat, Elapse(least), UNCHANGED <<prompt, math>>
      PROVE PairCoherent'
  <2>1. PICK d \in least..AgeCap : age' = Older(age, d)
    BY <1>1 DEF Elapse
  <2>2. d \in 0..AgeCap /\ age \in NoAge..AgeCap
    BY Constants DEF TypeOK
  <2>3. age' = NoAge <=> age = NoAge
    BY <2>1, <2>2, OlderType
  <2> QED BY <1>1, <2>3 DEF PairCoherent
<1>2. CASE FlushStale
  BY <1>2 DEF FlushStale, FlushPair, PairCoherent
<1>3. CASE OnVar
  <2>1. CASE BufferHalf(asked, math)
    BY <1>3, <2>1, BufferHalfPair DEF OnVar, TypeOK, AskBegun, PairCoherent
  <2>2. CASE BufferHalf(prompt, asked)
    BY <1>3, <2>2, BufferHalfPair DEF OnVar, TypeOK, AskBegun, PairCoherent
  <2>3. CASE Elapse(0) /\ UNCHANGED <<prompt, math>>
    BY <2>3, <1>1
  <2> QED BY <1>3, <2>1, <2>2, <2>3 DEF OnVar
<1>4. CASE WifiConnect \/ SocketConnect \/ ListenIdle \/ PushPage \/ PushCount \/ ListenOther
  BY <1>4, <1>1
  DEF WifiConnect, ConnectWifi, SocketConnect, ListenIdle, PushPage, PushCount, ListenOther
<1>5. CASE UNCHANGED pairVars
  BY <1>5 DEF PairCoherent
<1> QED
  BY <1>2, <1>3, <1>4, <1>5
  DEF Next, Supervisor, Environment, PollNone, PollRaises, PollFrame, AskStart,
      LoseHalf, Reply, PeerDrop, WlanDrop, Interrupt, vars

\* Between two callbacks the buffer holds at most one half, and the pairing
\* clock runs exactly while it does.
THEOREM PairAlwaysCoherent == Spec => []PairCoherent
<1>1. Init => AskBegun /\ PairCoherent
  BY DEF Init, AskBegun, PairCoherent
<1> QED BY <1>1, TypeCorrect, AskBegunStep, PairStep, PTL DEF Spec

-----------------------------------------------------------------------------
(* The socket.                                                             *)

LEMMA ExceptSocket == ASSUME Except PROVE ServesOnSocket'
BY DEF Except, ServesOnSocket, Serving

LEMMA SendFramedSocket ==
    ASSUME ServesOnSocket, pc \in Serving, NEW frame, NEW next \in Serving,
           SendFramed(frame, next)
    PROVE  ServesOnSocket'
BY SendFramedEffect, ExceptSocket DEF ServesOnSocket

LEMMA BufferHalfSocket ==
    ASSUME ServesOnSocket, pc = "listen", NEW p, NEW m, BufferHalf(p, m)
    PROVE  ServesOnSocket'
<1>1. CASE UNCHANGED <<pc, sock, peer>>
  BY <1>1 DEF ServesOnSocket
<1>2. ASSUME NEW a, FlushPair(p, m, a, "listen") PROVE ServesOnSocket'
  BY <1>2, SendFramedSocket DEF FlushPair, Serving
<1> QED BY <1>1, <1>2 DEF BufferHalf

LEMMA SocketStep == TypeOK /\ ServesOnSocket /\ [Next]_vars => ServesOnSocket'
<1> SUFFICES ASSUME TypeOK, ServesOnSocket, [Next]_vars PROVE ServesOnSocket'
  OBVIOUS
<1> USE DEF netVars, pairVars, calcVars, pageVars, relayVars
<1>a. CASE WifiConnect
  BY <1>a DEF WifiConnect, ConnectWifi, ServesOnSocket, Serving
<1>b. CASE SocketConnect
  BY <1>b DEF SocketConnect, ServesOnSocket, Serving, TypeOK
<1>c. CASE ListenIdle
  BY <1>c DEF ListenIdle, ServesOnSocket, Serving
<1>d. CASE FlushStale
  <2>1. CASE pc' = "poll" /\ UNCHANGED <<sock, peer>>
    BY <1>d, <2>1 DEF FlushStale, ServesOnSocket, Serving
  <2>2. CASE FlushPair(prompt, math, age, "poll")
    BY <1>d, <2>2, SendFramedSocket DEF FlushStale, FlushPair, Serving
  <2> QED BY <1>d, <2>1, <2>2 DEF FlushStale
<1>e. CASE PollNone
  BY <1>e DEF PollNone, ServesOnSocket, Serving
<1>f. CASE PollRaises
  BY <1>f, ExceptSocket DEF PollRaises
<1>g. CASE PollFrame
  BY <1>g DEF PollFrame, ServesOnSocket, Serving
<1>h. CASE PushPage
  <2>1. pc' \in Serving
    BY <1>h DEF PushPage, AfterPage, Serving
  <2> QED BY <1>h, <2>1 DEF PushPage, ServesOnSocket, Serving
<1>i. CASE PushCount
  BY <1>i DEF PushCount, ServesOnSocket, Serving
<1>j. CASE OnVar
  <2>1. CASE BufferHalf(asked, math) \/ BufferHalf(prompt, asked)
    BY <1>j, <2>1, BufferHalfSocket DEF OnVar
  <2>2. CASE SendFramed(Frame(0, 0), "listen")
    BY <1>j, <2>2, SendFramedSocket DEF OnVar, Serving
  <2> QED BY <1>j, <2>1, <2>2 DEF OnVar
<1>k. CASE ListenOther
  BY <1>k DEF ListenOther, ServesOnSocket
<1>l. CASE AskStart
  BY <1>l DEF AskStart, ServesOnSocket
<1>m. CASE LoseHalf
  BY <1>m DEF LoseHalf, ServesOnSocket
<1>n. CASE Reply
  BY <1>n DEF Reply, ServesOnSocket
<1>o. CASE PeerDrop
  BY <1>o DEF PeerDrop, ServesOnSocket
<1>p. CASE WlanDrop
  BY <1>p DEF WlanDrop, ServesOnSocket
<1>q. CASE Interrupt
  BY <1>q DEF Interrupt, ServesOnSocket, Serving
<1>r. CASE UNCHANGED vars
  BY <1>r DEF vars, ServesOnSocket
<1> QED
  BY <1>a, <1>b, <1>c, <1>d, <1>e, <1>f, <1>g, <1>h, <1>i, <1>j, <1>k, <1>l,
     <1>m, <1>n, <1>o, <1>p, <1>q, <1>r
  DEF Next, Supervisor, Environment

\* run() holds a socket exactly while it serves: it never hands None to
\* send_framed or FrameReader.poll, and never leaves a socket behind.
THEOREM ServesOnlyOnSocket == Spec => []ServesOnSocket
<1>1. Init => ServesOnSocket
  BY DEF Init, ServesOnSocket, Serving
<1> QED BY <1>1, TypeCorrect, SocketStep, PTL DEF Spec

-----------------------------------------------------------------------------
(* Pages before the page count.                                            *)

\* The pages of a reply are only written by the push under way.
LEMMA PagesUntouched ==
    ASSUME PagesBeforeCount, UNCHANGED <<push, str>>, pc' \in {"push", "count"} => pc' = pc
    PROVE  PagesBeforeCount'
BY DEF PagesBeforeCount

LEMMA PagesStep == TypeOK /\ PagesBeforeCount /\ [Next]_vars => PagesBeforeCount'
<1> SUFFICES ASSUME TypeOK, PagesBeforeCount, [Next]_vars PROVE PagesBeforeCount'
  OBVIOUS
<1> USE DEF netVars, pairVars, calcVars, pageVars, relayVars
<1>1. CASE PollFrame
  BY <1>1 DEF PollFrame, PagesBeforeCount
<1>2. CASE PushPage
  <2>1. PICK out \in SendVarOutcomes :
        /\ str' = IF out.stored THEN [str EXCEPT ![push.i] = push.reply] ELSE str
        /\ pc' = IF ~out.ok THEN "poll"
                 ELSE IF push.i = push.n THEN "count" ELSE "push"
        /\ push' = IF ~out.ok THEN NoPush
                   ELSE [push EXCEPT !.i = Min2(push.i + 1, push.n)]
    BY <1>2 DEF PushPage, AfterPage
  <2>2. CASE ~out.ok
    BY <2>1, <2>2 DEF PagesBeforeCount
  <2>3. CASE out.ok
    <3>1. out.stored
      BY <2>3 DEF SendVarOutcomes
    <3>2. /\ push'.i = Min2(push.i + 1, push.n) /\ push'.n = push.n
          /\ push'.reply = push.reply
      BY <2>1, <2>3 DEF TypeOK
    <3>3. str' = [str EXCEPT ![push.i] = push.reply]
      BY <2>1, <3>1
    <3>4. \A p \in 1..push.i : str'[p] = push.reply
      <4>1. /\ push.i \in 1..MaxPages /\ MaxPages \in Nat
            /\ DOMAIN str = 1..MaxPages
        BY Constants DEF TypeOK
      <4>2. \A p \in 1..(push.i - 1) : str[p] = push.reply
        BY <1>2 DEF PushPage, PagesBeforeCount
      <4>3. TAKE p \in 1..push.i
      <4>4. CASE p = push.i
        BY <3>3, <4>1, <4>4
      <4>5. CASE p # push.i
        <5>1. p \in 1..(push.i - 1) /\ p \in 1..MaxPages
          BY <4>1, <4>5
        <5>2. str'[p] = str[p]
          BY <3>3, <4>1, <4>5, <5>1
        <5> QED BY <4>2, <5>1, <5>2
      <4> QED BY <4>4, <4>5
    <3>5. push'.i - 1 <= push.i /\ push.i \in Nat /\ push'.i \in Nat
      <4>1. push.i \in Nat /\ push.n \in Nat
        BY Constants DEF TypeOK
      <4> QED BY <3>2, <4>1 DEF Min2
    <3>6. 1..(push'.i - 1) \subseteq 1..push.i
      BY <3>5
    <3>7. pc' = "push" => \A p \in 1..(push'.i - 1) : str'[p] = push'.reply
      BY <3>2, <3>4, <3>6
    <3>8. pc' = "count" => push.i = push.n
      BY <2>1, <2>3
    <3>9. pc' = "count" => \A p \in 1..push'.n : str'[p] = push'.reply
      BY <3>2, <3>4, <3>8
    <3> QED BY <3>7, <3>9 DEF PagesBeforeCount
  <2> QED BY <2>2, <2>3
<1>3. CASE PushCount
  BY <1>3 DEF PushCount, PagesBeforeCount
<1>4. CASE Interrupt
  BY <1>4 DEF Interrupt, PagesBeforeCount
<1>5. CASE FlushStale
  <2>1. pc' \in {"poll", "connect", "wifi"}
    BY <1>5, SendFramedEffect DEF FlushStale, FlushPair, Except
  <2> QED BY <1>5, <2>1, PagesUntouched DEF FlushStale
<1>6. CASE OnVar
  <2>1. pc' \in {"listen", "connect", "wifi"}
    BY <1>6, SendFramedEffect DEF OnVar, BufferHalf, FlushPair, Except
  <2> QED BY <1>6, <2>1, PagesUntouched DEF OnVar
<1>7. CASE WifiConnect \/ SocketConnect \/ ListenIdle \/ PollNone \/ PollRaises
  BY <1>7, PagesUntouched
  DEF WifiConnect, ConnectWifi, SocketConnect, ListenIdle, PollNone, PollRaises, Except
<1>8. CASE ListenOther \/ AskStart \/ LoseHalf \/ Reply \/ PeerDrop \/ WlanDrop \/ UNCHANGED vars
  BY <1>8, PagesUntouched
  DEF ListenOther, AskStart, LoseHalf, Reply, PeerDrop, WlanDrop, vars
<1> QED
  BY <1>1, <1>2, <1>3, <1>4, <1>5, <1>6, <1>7, <1>8 DEF Next, Supervisor, Environment

\* The pages below the one being pushed hold the reply being pushed.
THEOREM PagesAlwaysBeforeCount == Spec => []PagesBeforeCount
<1>1. Init => PagesBeforeCount
  BY DEF Init, PagesBeforeCount
<1> QED BY <1>1, TypeCorrect, PagesStep, PTL DEF Spec

LEMMA CountStep ==
    TypeOK /\ PagesBeforeCount /\ [Next]_vars
        => (cnt' # cnt => \A p, q \in 1..cnt' : str'[p] = str'[q])
<1> SUFFICES ASSUME TypeOK, PagesBeforeCount, [Next]_vars, cnt' # cnt
             PROVE  \A p, q \in 1..cnt' : str'[p] = str'[q]
  OBVIOUS
<1> USE DEF netVars, pairVars, calcVars, pageVars, relayVars
<1>1. CASE PushCount
  BY <1>1 DEF PushCount, PagesBeforeCount
<1>2. CASE AskStart
  BY <1>2 DEF AskStart, TypeOK
<1>3. CASE UNCHANGED cnt
  BY <1>3
<1> QED
  BY <1>1, <1>2, <1>3
  DEF Next, Supervisor, Environment, WifiConnect, ConnectWifi, SocketConnect, ListenIdle,
      FlushStale, PollNone, PollRaises, PollFrame, PushPage, OnVar, ListenOther,
      LoseHalf, Reply, PeerDrop, WlanDrop, Interrupt, vars

\* N is never set to a page count unless every page it announces came from the
\* reply being pushed, however pushes fail.
THEOREM CountAlwaysWhole == Spec => CountAnnouncesWholeReply
<1>1. Spec => [][cnt' # cnt => \A p, q \in 1..cnt' : str'[p] = str'[q]]_vars
  BY TypeCorrect, PagesAlwaysBeforeCount, CountStep, PTL DEF Spec
<1> QED BY <1>1 DEF CountAnnouncesWholeReply

-----------------------------------------------------------------------------
(* The order of halves.                                                    *)

Outboxes == {<<>>, <<"prompt", "math">>, <<"prompt">>, <<"math">>, <<"raw">>}
PromptPending == outbox \in {<<"prompt", "math">>, <<"prompt">>}
MathPending == outbox \in {<<"prompt", "math">>, <<"math">>}

LEMMA OutboxSteps ==
    ASSUME outbox \in Outboxes, outbox # <<>>
    PROVE  /\ Tail(outbox) \in Outboxes
           /\ Head(outbox) = "prompt" <=> PromptPending
           /\ Head(outbox) = "math" <=> outbox = <<"math">>
           /\ Tail(outbox) = <<"math">> <=> outbox = <<"prompt", "math">>
           /\ Tail(outbox) \in {<<>>, <<"math">>}
<1>1. /\ Head(<<"prompt", "math">>) = "prompt" /\ Tail(<<"prompt", "math">>) = <<"math">>
      /\ Head(<<"prompt">>) = "prompt" /\ Tail(<<"prompt">>) = <<>>
      /\ Head(<<"math">>) = "math" /\ Tail(<<"math">>) = <<>>
      /\ Head(<<"raw">>) = "raw" /\ Tail(<<"raw">>) = <<>>
  OBVIOUS
<1>2. /\ <<"math">> # <<>> /\ <<"prompt", "math">> # <<"prompt">>
      /\ <<"prompt", "math">> # <<"math">> /\ <<"prompt", "math">> # <<"raw">>
      /\ <<"prompt">> # <<"math">> /\ <<"prompt">> # <<"raw">> /\ <<"math">> # <<"raw">>
  OBVIOUS
<1> QED BY <1>1, <1>2 DEF Outboxes, PromptPending

\* Every frame sent so far carries, in that slot, an ask before n.
PromptsBelow(n) == \A k \in DOMAIN sent : sent[k].prompt < n
MathsBelow(n) == \A k \in DOMAIN sent : sent[k].math < n

\* An ask's pending strings are newer than the buffered halves, and those newer
\* than every half sent in their slot.
OrderInv ==
    /\ outbox \in Outboxes
    /\ prompt <= asked /\ math <= asked
    /\ PromptsBelow(asked + 1) /\ MathsBelow(asked + 1)
    /\ prompt # 0 => PromptsBelow(prompt)
    /\ math # 0 => MathsBelow(math)
    /\ PromptPending => prompt < asked /\ PromptsBelow(asked)
    /\ MathPending => math < asked /\ MathsBelow(asked)

LEMMA AppendedFrame ==
    ASSUME TypeOK, NEW f \in FrameType
    PROVE  /\ DOMAIN sent = 1..Len(sent) /\ Len(sent) \in Nat
           /\ DOMAIN Append(sent, f) = 1..(Len(sent) + 1)
           /\ \A k \in 1..Len(sent) : Append(sent, f)[k] = sent[k] /\ sent[k] \in FrameType
           /\ Append(sent, f)[Len(sent) + 1] = f
<1>1. sent \in Seq(FrameType)
  BY DEF TypeOK
<1>2. DOMAIN sent = 1..Len(sent) /\ Len(sent) \in Nat
  BY <1>1
<1>3. \A k \in 1..Len(sent) : sent[k] \in FrameType
  BY <1>1
<1>4. /\ DOMAIN Append(sent, f) = 1..(Len(sent) + 1)
      /\ \A k \in 1..Len(sent) : Append(sent, f)[k] = sent[k]
      /\ Append(sent, f)[Len(sent) + 1] = f
  BY <1>1, AppendProperties
<1> QED BY <1>2, <1>3, <1>4

\* Sending a frame of newer halves keeps the history ordered and moves its bounds.
LEMMA EmitOrder ==
    ASSUME TypeOK, HalvesOnceInOrder,
           NEW p \in 0..MaxAsks, NEW m \in 0..MaxAsks, NEW a \in NoAge..AgeCap,
           p # 0 => PromptsBelow(p), m # 0 => MathsBelow(m),
           sent' = sent \/ sent' = Append(sent, Frame(p, m))
    PROVE  /\ HalvesOnceInOrder'
           /\ \A n \in Nat : p < n /\ PromptsBelow(n) => PromptsBelow(n)'
           /\ \A n \in Nat : m < n /\ MathsBelow(n) => MathsBelow(n)'
<1>1. CASE sent' = sent
  BY <1>1 DEF HalvesOnceInOrder, PromptsBelow, MathsBelow
<1>2. CASE sent' = Append(sent, Frame(p, m))
  <2> DEFINE f == Frame(p, m)
  <2>1. f \in FrameType /\ f.prompt = p /\ f.math = m
    BY FrameTyped DEF Frame
  <2>2. /\ DOMAIN sent = 1..Len(sent) /\ Len(sent) \in Nat
        /\ DOMAIN sent' = 1..(Len(sent) + 1)
        /\ \A k \in 1..Len(sent) : sent'[k] = sent[k] /\ sent[k] \in FrameType
        /\ sent'[Len(sent) + 1] = f
    BY <1>2, <2>1, AppendedFrame
  <2> HIDE DEF f
  <2>3. \A n \in Nat : p < n /\ PromptsBelow(n) => PromptsBelow(n)'
    BY <2>1, <2>2 DEF PromptsBelow
  <2>4. \A n \in Nat : m < n /\ MathsBelow(n) => MathsBelow(n)'
    BY <2>1, <2>2 DEF MathsBelow
  <2>5. ASSUME NEW j \in DOMAIN sent', NEW k \in DOMAIN sent', j < k
        PROVE  /\ sent'[j].prompt # 0 /\ sent'[k].prompt # 0
                    => sent'[j].prompt < sent'[k].prompt
               /\ sent'[j].math # 0 /\ sent'[k].math # 0
                    => sent'[j].math < sent'[k].math
    <3>1. j \in 1..Len(sent) /\ (k \in 1..Len(sent) \/ k = Len(sent) + 1)
      BY <2>2, <2>5
    <3>2. CASE k \in 1..Len(sent)
      BY <2>2, <2>5, <3>1, <3>2 DEF HalvesOnceInOrder
    <3>3. CASE k = Len(sent) + 1
      BY <2>1, <2>2, <3>1, <3>3 DEF PromptsBelow, MathsBelow
    <3> QED BY <3>1, <3>2, <3>3
  <2> QED BY <2>3, <2>4, <2>5 DEF HalvesOnceInOrder
<1> QED BY <1>1, <1>2

\* A step of the calculator or the network sends no frame.
LEMMA OrderKept ==
    ASSUME OrderInv, HalvesOnceInOrder, UNCHANGED <<sent, prompt, math, asked, outbox>>
    PROVE  OrderInv' /\ HalvesOnceInOrder'
BY DEF OrderInv, HalvesOnceInOrder, PromptsBelow, MathsBelow, PromptPending, MathPending

\* A pair is flushed, or half of one.
LEMMA FlushOrder ==
    ASSUME TypeOK, HalvesOnceInOrder,
           NEW p \in 0..asked, NEW m \in 0..asked, NEW a \in NoAge..AgeCap, NEW next,
           PromptsBelow(asked + 1), MathsBelow(asked + 1),
           p # 0 => PromptsBelow(p), m # 0 => MathsBelow(m),
           FlushPair(p, m, a, next), asked' = asked, outbox' \in Outboxes,
           PromptPending' => p < asked /\ PromptsBelow(asked),
           MathPending' => m < asked /\ MathsBelow(asked)
    PROVE  OrderInv' /\ HalvesOnceInOrder'
<1>1. sent' = sent \/ sent' = Append(sent, Frame(p, m))
  BY SendFramedEffect DEF FlushPair
<1>2. p \in 0..MaxAsks /\ m \in 0..MaxAsks /\ asked \in Nat
  BY Constants DEF TypeOK
<1>3. /\ HalvesOnceInOrder'
      /\ \A n \in Nat : p < n /\ PromptsBelow(n) => PromptsBelow(n)'
      /\ \A n \in Nat : m < n /\ MathsBelow(n) => MathsBelow(n)'
  BY <1>1, <1>2, EmitOrder
<1>4. prompt' = 0 /\ math' = 0
  BY DEF FlushPair
<1>5. PromptsBelow(asked + 1)' /\ MathsBelow(asked + 1)'
  <2>1. PromptsBelow(asked + 1) => \A k \in DOMAIN sent' : sent'[k].prompt < asked + 1
    BY <1>2, <1>3 DEF PromptsBelow
  <2>2. MathsBelow(asked + 1) => \A k \in DOMAIN sent' : sent'[k].math < asked + 1
    BY <1>2, <1>3 DEF MathsBelow
  <2> QED BY <2>1, <2>2 DEF PromptsBelow, MathsBelow
<1>6. PromptPending' => prompt' < asked' /\ PromptsBelow(asked)'
  BY <1>2, <1>3, <1>4 DEF PromptsBelow
<1>7. MathPending' => math' < asked' /\ MathsBelow(asked)'
  BY <1>2, <1>3, <1>4 DEF MathsBelow
<1> QED BY <1>2, <1>3, <1>4, <1>5, <1>6, <1>7 DEF OrderInv

LEMMA BufferHalfOrder ==
    ASSUME TypeOK, HalvesOnceInOrder,
           NEW p \in 0..asked, NEW m \in 0..asked,
           PromptsBelow(asked + 1), MathsBelow(asked + 1),
           p # 0 => PromptsBelow(p), m # 0 => MathsBelow(m),
           BufferHalf(p, m), asked' = asked, outbox' \in Outboxes,
           PromptPending' => p < asked /\ PromptsBelow(asked),
           MathPending' => m < asked /\ MathsBelow(asked)
    PROVE  OrderInv' /\ HalvesOnceInOrder'
<1>1. PICK a \in 0..AgeCap, d \in 0..AgeCap :
        /\ a = (IF age = NoAge THEN 0 ELSE Older(age, d))
        /\ IF p # 0 /\ m # 0
           THEN FlushPair(p, m, a, "listen")
           ELSE /\ prompt' = p /\ math' = m /\ age' = a
                /\ UNCHANGED <<pc, sent, sock, peer, inbound, drops>>
        /\ Hold(Older(held, d))
  BY BufferHalfCases
<1>2. a \in NoAge..AgeCap
  BY <1>1, Constants
<1>3. CASE p # 0 /\ m # 0
  <2>1. FlushPair(p, m, a, "listen")
    BY <1>1, <1>3
  <2> QED BY <2>1, <1>2, FlushOrder
<1>4. CASE ~(p # 0 /\ m # 0)
  <2>1. prompt' = p /\ math' = m /\ sent' = sent
    BY <1>1, <1>4
  <2>2. HalvesOnceInOrder'
    BY <2>1 DEF HalvesOnceInOrder
  <2>3. p <= asked /\ m <= asked
    BY DEF TypeOK
  <2> QED BY <2>1, <2>2, <2>3 DEF OrderInv, PromptsBelow, MathsBelow
<1> QED BY <1>3, <1>4

LEMMA OrderStep ==
    TypeOK /\ AskBegun /\ PairCoherent /\ OrderInv /\ HalvesOnceInOrder /\ [Next]_vars
        => OrderInv' /\ HalvesOnceInOrder'
<1> SUFFICES ASSUME TypeOK, AskBegun, PairCoherent, OrderInv, HalvesOnceInOrder, [Next]_vars
             PROVE  OrderInv' /\ HalvesOnceInOrder'
  OBVIOUS
<1> USE DEF netVars, pairVars, calcVars, pageVars, relayVars
<1>1. asked \in Nat /\ prompt \in 0..asked /\ math \in 0..asked
  BY DEF TypeOK, OrderInv
<1>2. CASE FlushStale
  <2>1. CASE FlushPair(prompt, math, age, "poll")
    <3>1. asked' = asked /\ outbox' = outbox
      BY <1>2 DEF FlushStale
    <3>2. age \in NoAge..AgeCap
      BY DEF TypeOK
    <3>3. /\ PromptsBelow(asked + 1) /\ MathsBelow(asked + 1) /\ outbox' \in Outboxes
          /\ prompt # 0 => PromptsBelow(prompt)
          /\ math # 0 => MathsBelow(math)
          /\ PromptPending' => prompt < asked /\ PromptsBelow(asked)
          /\ MathPending' => math < asked /\ MathsBelow(asked)
      BY <3>1 DEF OrderInv, PromptPending, MathPending
    <3> QED BY <1>1, <2>1, <3>1, <3>2, <3>3, FlushOrder
  <2>2. CASE UNCHANGED <<sent, prompt, math, asked, outbox>>
    BY <2>2, OrderKept
  <2> QED BY <1>2, <2>1, <2>2 DEF FlushStale
<1>3. CASE OnVar
  <2>1. /\ outbox \in Outboxes /\ outbox # <<>> /\ outbox' = Tail(outbox)
        /\ asked' = asked /\ asked # 0
    BY <1>3 DEF OnVar, OrderInv, AskBegun
  <2>2. outbox' \in Outboxes /\ outbox' \in {<<>>, <<"math">>}
    BY <2>1, OutboxSteps
  <2>3. ~PromptPending' /\ (MathPending' => outbox = <<"prompt", "math">>)
    <3>1. /\ <<>> # <<"prompt">> /\ <<>> # <<"prompt", "math">> /\ <<>> # <<"math">>
          /\ <<"math">> # <<"prompt">> /\ <<"math">> # <<"prompt", "math">>
      OBVIOUS
    <3>2. ~PromptPending'
      BY <2>2, <3>1 DEF PromptPending
    <3>3. MathPending' => outbox' = <<"math">>
      BY <2>2, <3>1 DEF MathPending
    <3> QED BY <2>1, <3>2, <3>3, OutboxSteps
  <2>4. MathPending' => math < asked /\ MathsBelow(asked)
    BY <2>3 DEF OrderInv, MathPending
  <2>5. PromptsBelow(asked + 1) /\ MathsBelow(asked + 1)
    BY DEF OrderInv
  <2>6. CASE Head(outbox) = "prompt" /\ BufferHalf(asked, math)
    <3>1. PromptsBelow(asked)
      BY <2>1, <2>6, OutboxSteps DEF OrderInv
    <3>2. math # 0 => MathsBelow(math)
      BY DEF OrderInv
    <3>3. asked \in 0..asked
      BY <1>1
    <3> QED
      BY <1>1, <2>1, <2>2, <2>3, <2>4, <2>5, <2>6, <3>1, <3>2, <3>3, BufferHalfOrder
  <2>7. CASE Head(outbox) = "math" /\ BufferHalf(prompt, asked)
    <3>1. outbox = <<"math">>
      BY <2>1, <2>7, OutboxSteps
    <3>2. MathsBelow(asked) /\ ~MathPending'
      BY <2>3, <3>1 DEF OrderInv, MathPending
    <3>3. prompt # 0 => PromptsBelow(prompt)
      BY DEF OrderInv
    <3>4. asked \in 0..asked
      BY <1>1
    <3> QED
      BY <1>1, <2>1, <2>2, <2>3, <2>5, <2>7, <3>2, <3>3, <3>4, BufferHalfOrder
  <2>8. CASE Head(outbox) = "raw" /\ SendFramed(Frame(0, 0), "listen")
             /\ UNCHANGED <<prompt, math>>
    <3>1. sent' = sent \/ sent' = Append(sent, Frame(0, 0))
      BY <2>8, SendFramedEffect
    <3>2. 0 \in 0..MaxAsks /\ NoAge \in NoAge..AgeCap
      BY Constants
    <3>3. /\ HalvesOnceInOrder'
          /\ \A n \in Nat : 0 < n /\ PromptsBelow(n) => PromptsBelow(n)'
          /\ \A n \in Nat : 0 < n /\ MathsBelow(n) => MathsBelow(n)'
      BY <3>1, <3>2, EmitOrder
    <3>4. ~MathPending'
      BY <2>1, <2>3, <2>8, OutboxSteps DEF PromptPending
    <3>5. PromptsBelow(asked + 1)' /\ MathsBelow(asked + 1)'
      <4>1. \A k \in DOMAIN sent' : sent'[k].prompt < asked + 1
        BY <1>1, <2>5, <3>3 DEF PromptsBelow
      <4>2. \A k \in DOMAIN sent' : sent'[k].math < asked + 1
        BY <1>1, <2>5, <3>3 DEF MathsBelow
      <4> QED BY <2>1, <4>1, <4>2 DEF PromptsBelow, MathsBelow
    <3>6. prompt # 0 => PromptsBelow(prompt)'
      <4>1. prompt # 0 => \A k \in DOMAIN sent' : sent'[k].prompt < prompt
        BY <1>1, <3>3 DEF OrderInv, PromptsBelow
      <4> QED BY <2>8, <4>1 DEF PromptsBelow
    <3>7. math # 0 => MathsBelow(math)'
      <4>1. math # 0 => \A k \in DOMAIN sent' : sent'[k].math < math
        BY <1>1, <3>3 DEF OrderInv, MathsBelow
      <4> QED BY <2>8, <4>1 DEF MathsBelow
    <3> QED
      BY <1>1, <2>1, <2>2, <2>3, <2>8, <3>3, <3>4, <3>5, <3>6, <3>7 DEF OrderInv
  <2> QED BY <1>3, <2>6, <2>7, <2>8 DEF OnVar
<1>4. CASE AskStart
  <2>1. asked' = asked + 1 /\ outbox' \in Outboxes /\ UNCHANGED <<sent, prompt, math>>
    BY <1>4, ShapesAssumption DEF AskStart, Outboxes
  <2>2. HalvesOnceInOrder'
    BY <2>1 DEF HalvesOnceInOrder
  <2>3. \A k \in DOMAIN sent : sent[k].prompt \in 0..MaxAsks /\ sent[k].math \in 0..MaxAsks
    <3>1. \A k \in DOMAIN sent : sent[k] \in FrameType
      BY DEF TypeOK
    <3> QED BY <3>1 DEF FrameType
  <2>4. \A k \in DOMAIN sent : sent[k].prompt < asked + 1 /\ sent[k].math < asked + 1
    BY DEF OrderInv, PromptsBelow, MathsBelow
  <2>5. \A k \in DOMAIN sent : sent[k].prompt < asked + 2 /\ sent[k].math < asked + 2
    BY <1>1, <2>3, <2>4, Constants
  <2>6. /\ PromptsBelow(asked + 1)' /\ PromptsBelow(asked)'
        /\ MathsBelow(asked + 1)' /\ MathsBelow(asked)'
    BY <1>1, <2>1, <2>4, <2>5 DEF PromptsBelow, MathsBelow
  <2>7. /\ prompt' < asked' /\ math' < asked'
        /\ prompt' \in 0..asked' /\ math' \in 0..asked'
    BY <1>1, <2>1
  <2>8. /\ prompt' # 0 => PromptsBelow(prompt)'
        /\ math' # 0 => MathsBelow(math)'
    BY <2>1 DEF OrderInv, PromptsBelow, MathsBelow
  <2> QED BY <2>1, <2>2, <2>6, <2>7, <2>8 DEF OrderInv
<1>5. CASE LoseHalf
  <2>1. outbox \in Outboxes /\ outbox # <<>> /\ outbox' \in {<<>>, Tail(outbox)}
        /\ UNCHANGED <<sent, prompt, math, asked>>
    BY <1>5 DEF LoseHalf, OrderInv
  <2>2. /\ outbox' \in Outboxes /\ outbox' \in {<<>>, <<"math">>}
        /\ outbox' = <<"math">> => outbox = <<"prompt", "math">>
    BY <2>1, OutboxSteps DEF Outboxes
  <2>3. /\ <<>> # <<"prompt">> /\ <<>> # <<"prompt", "math">> /\ <<>> # <<"math">>
        /\ <<"math">> # <<"prompt">> /\ <<"math">> # <<"prompt", "math">>
    OBVIOUS
  <2>4. ~PromptPending' /\ (MathPending' => MathPending)
    BY <2>2, <2>3 DEF PromptPending, MathPending
  <2> QED
    BY <2>1, <2>2, <2>4 DEF OrderInv, HalvesOnceInOrder, PromptsBelow, MathsBelow
<1>6. CASE UNCHANGED <<sent, prompt, math, asked, outbox>>
  BY <1>6, OrderKept
<1> QED
  BY <1>2, <1>3, <1>4, <1>5, <1>6
  DEF Next, Supervisor, Environment, WifiConnect, ConnectWifi, SocketConnect, ListenIdle,
      PollNone, PollRaises, PollFrame, PushPage, PushCount, ListenOther, Reply,
      PeerDrop, WlanDrop, Interrupt, vars

\* Through reconnects, failed emits, timeouts and lost strings, no half reaches
\* the relay twice and none overtakes another of its slot.
THEOREM HalvesAlwaysOnceInOrder == Spec => []HalvesOnceInOrder
<1>1. Init => AskBegun /\ PairCoherent
  BY DEF Init, AskBegun, PairCoherent
<1>2. Init => OrderInv /\ HalvesOnceInOrder
  <2> SUFFICES ASSUME Init PROVE OrderInv /\ HalvesOnceInOrder
    OBVIOUS
  <2>1. DOMAIN sent = {} /\ asked = 0 /\ prompt = 0 /\ math = 0
    BY DEF Init
  <2>2. ~PromptPending /\ ~MathPending /\ outbox \in Outboxes
    <3>1. <<>> # <<"prompt">> /\ <<>> # <<"prompt", "math">> /\ <<>> # <<"math">>
      OBVIOUS
    <3> QED BY <3>1 DEF Init, PromptPending, MathPending, Outboxes
  <2>3. HalvesOnceInOrder
    BY <2>1 DEF HalvesOnceInOrder
  <2>4. \A n \in Nat : PromptsBelow(n) /\ MathsBelow(n)
    BY <2>1 DEF PromptsBelow, MathsBelow
  <2> QED BY <2>1, <2>2, <2>3, <2>4 DEF OrderInv
<1> QED
  BY <1>1, <1>2, TypeCorrect, AskBegunStep, PairStep, OrderStep, PTL DEF Spec
-----------------------------------------------------------------------------
(* Half frames.                                                            *)

HalfFrame(f) == (f.prompt = 0) # (f.math = 0)

\* The two clocks agree: the code starts, keeps and clears its own as the buffer
\* fills and empties.
ClocksAgree == held = age

LEMMA ClocksStep ==
    TypeOK /\ AskBegun /\ PairCoherent /\ ClocksAgree /\ [Next]_vars => ClocksAgree'
<1> SUFFICES ASSUME TypeOK, AskBegun, PairCoherent, ClocksAgree, [Next]_vars
             PROVE  ClocksAgree'
  OBVIOUS
<1> USE DEF netVars, pairVars, calcVars, pageVars, relayVars, ClocksAgree
<1>1. ASSUME NEW least \in Nat, Elapse(least) PROVE ClocksAgree'
  BY <1>1 DEF Elapse
<1>2. CASE FlushStale
  <2>1. Hold(held)
    BY <1>2 DEF FlushStale
  <2>2. CASE FlushPair(prompt, math, age, "poll")
    BY <2>1, <2>2 DEF Hold, FlushPair
  <2>3. CASE UNCHANGED <<prompt, math, age>>
    BY <2>1, <2>3 DEF Hold, PairCoherent
  <2> QED BY <1>2, <2>2, <2>3 DEF FlushStale
<1>3. CASE OnVar
  <2>1. ASSUME NEW p \in 0..MaxAsks, NEW m \in 0..MaxAsks, p # 0 \/ m # 0, BufferHalf(p, m)
        PROVE  ClocksAgree'
    <3>1. PICK a \in 0..AgeCap, d \in 0..AgeCap :
            /\ a = (IF age = NoAge THEN 0 ELSE Older(age, d))
            /\ IF p # 0 /\ m # 0
               THEN FlushPair(p, m, a, "listen")
               ELSE /\ prompt' = p /\ math' = m /\ age' = a
                    /\ UNCHANGED <<pc, sent, sock, peer, inbound, drops>>
            /\ Hold(Older(held, d))
      BY <2>1, BufferHalfCases
    <3>2. CASE p # 0 /\ m # 0
      BY <3>1, <3>2 DEF FlushPair, Hold
    <3>3. CASE ~(p # 0 /\ m # 0)
      BY <2>1, <3>1, <3>3 DEF Hold, PairCoherent
    <3> QED BY <3>2, <3>3
  <2>2. CASE Elapse(0)
    BY <2>2, <1>1
  <2> QED BY <1>3, <2>1, <2>2 DEF OnVar, TypeOK, AskBegun
<1>4. CASE WifiConnect \/ SocketConnect \/ ListenIdle \/ PushPage \/ PushCount \/ ListenOther
  BY <1>4, <1>1
  DEF WifiConnect, ConnectWifi, SocketConnect, ListenIdle, PushPage, PushCount, ListenOther
<1>5. CASE UNCHANGED pairVars
  BY <1>5
<1> QED
  BY <1>2, <1>3, <1>4, <1>5
  DEF Next, Supervisor, Environment, PollNone, PollRaises, PollFrame, AskStart,
      LoseHalf, Reply, PeerDrop, WlanDrop, Interrupt, vars

\* A frame that is whole, or held long enough, may join the history.
LEMMA EmitHeld ==
    ASSUME TypeOK, HalvesGivenTime, NEW f \in FrameType,
           HalfFrame(f) => f.held >= PairTimeout,
           sent' = sent \/ sent' = Append(sent, f)
    PROVE  HalvesGivenTime'
<1>1. CASE sent' = sent
  BY <1>1 DEF HalvesGivenTime
<1>2. CASE sent' = Append(sent, f)
  <2>1. /\ DOMAIN sent = 1..Len(sent) /\ Len(sent) \in Nat
        /\ DOMAIN sent' = 1..(Len(sent) + 1)
        /\ \A k \in 1..Len(sent) : sent'[k] = sent[k] /\ sent[k] \in FrameType
        /\ sent'[Len(sent) + 1] = f
    BY <1>2, AppendedFrame
  <2>2. ASSUME NEW k \in DOMAIN sent' PROVE HalfFrame(sent'[k]) => sent'[k].held >= PairTimeout
    BY <2>1, <2>2 DEF HalvesGivenTime, HalfFrame
  <2> QED BY <2>2 DEF HalvesGivenTime, HalfFrame
<1> QED BY <1>1, <1>2

LEMMA HalfStep ==
    TypeOK /\ ClocksAgree /\ HalvesGivenTime /\ [Next]_vars => HalvesGivenTime'
<1> SUFFICES ASSUME TypeOK, ClocksAgree, HalvesGivenTime, [Next]_vars PROVE HalvesGivenTime'
  OBVIOUS
<1> USE DEF netVars, pairVars, calcVars, pageVars, relayVars
<1>1. CASE FlushStale
  <2>1. CASE Stale(age) /\ FlushPair(prompt, math, age, "poll")
    <3> DEFINE f == Frame(prompt, math)
    <3>1. f \in FrameType
      BY FrameTyped DEF TypeOK
    <3>2. HalfFrame(f) => f.held >= PairTimeout
      <4>1. f.prompt = prompt /\ f.math = math /\ (HalfFrame(f) => f.held = held)
        BY DEF Frame, HalfFrame
      <4>2. held >= PairTimeout
        BY <2>1 DEF Stale, ClocksAgree
      <4> QED BY <4>1, <4>2
    <3>3. sent' = sent \/ sent' = Append(sent, f)
      BY <2>1, SendFramedEffect DEF FlushPair
    <3> HIDE DEF f
    <3> QED BY <3>1, <3>2, <3>3, EmitHeld
  <2>2. CASE UNCHANGED sent
    BY <2>2 DEF HalvesGivenTime
  <2> QED BY <1>1, <2>1, <2>2 DEF FlushStale
<1>2. CASE OnVar
  <2>1. ASSUME NEW p \in 0..MaxAsks, NEW m \in 0..MaxAsks, BufferHalf(p, m)
        PROVE  HalvesGivenTime'
    <3>1. CASE p # 0 /\ m # 0
      <4> DEFINE f == Frame(p, m)
      <4>1. f \in FrameType
        BY FrameTyped
      <4>2. ~HalfFrame(f)
        BY <3>1 DEF HalfFrame, Frame
      <4>3. sent' = sent \/ sent' = Append(sent, f)
        BY <2>1, <3>1, BufferHalfCases, SendFramedEffect DEF FlushPair
      <4> HIDE DEF f
      <4> QED BY <4>1, <4>2, <4>3, EmitHeld
    <3>2. CASE ~(p # 0 /\ m # 0)
      BY <2>1, <3>2, BufferHalfCases DEF HalvesGivenTime
    <3> QED BY <3>1, <3>2
  <2>2. CASE SendFramed(Frame(0, 0), "listen")
    <3> DEFINE f == Frame(0, 0)
    <3>1. f \in FrameType
      BY FrameTyped, Constants
    <3>2. ~HalfFrame(f)
      BY DEF HalfFrame, Frame
    <3>3. sent' = sent \/ sent' = Append(sent, f)
      BY <2>2, SendFramedEffect
    <3> HIDE DEF f
    <3> QED BY <3>1, <3>2, <3>3, EmitHeld
  <2> QED BY <1>2, <2>1, <2>2 DEF OnVar, TypeOK
<1>3. CASE UNCHANGED sent
  BY <1>3 DEF HalvesGivenTime
<1> QED
  BY <1>1, <1>2, <1>3
  DEF Next, Supervisor, Environment, WifiConnect, ConnectWifi, SocketConnect, ListenIdle,
      PollNone, PollRaises, PollFrame, PushPage, PushCount, ListenOther, AskStart,
      LoseHalf, Reply, PeerDrop, WlanDrop, Interrupt, vars

\* No half goes out alone before the buffer has held it, or one it replaced, for the
\* whole pairing timeout, by a clock of its own.
THEOREM HalvesAlwaysGivenTime == Spec => []HalvesGivenTime
<1>1. Init => AskBegun /\ PairCoherent /\ ClocksAgree /\ HalvesGivenTime
  BY DEF Init, AskBegun, PairCoherent, ClocksAgree, HalvesGivenTime
<1> QED
  BY <1>1, TypeCorrect, AskBegunStep, PairStep, ClocksStep, HalfStep, PTL DEF Spec


-----------------------------------------------------------------------------
(* Halves of one ask meet, as long as nothing is lost.                     *)

\* What the property alone does not say: as long as nothing is lost a half waits
\* only between the two strings of the ask it belongs to, and it is the prompt.
LossFreeInv ==
    ~lossy =>
        /\ outbox \in Outboxes /\ outbox # <<"prompt">>
        /\ prompt = IF outbox = <<"math">> THEN asked ELSE 0
        /\ math = 0
        /\ \A k \in DOMAIN sent : sent[k].prompt = sent[k].math

\* A frame with two equal halves, or two empty ones, keeps the history so.
LEMMA EvenFrame ==
    ASSUME TypeOK, NEW p \in 0..MaxAsks, NEW a \in NoAge..AgeCap,
           \A k \in DOMAIN sent : sent[k].prompt = sent[k].math,
           sent' = sent \/ sent' = Append(sent, Frame(p, p))
    PROVE  \A k \in DOMAIN sent' : sent'[k].prompt = sent'[k].math
<1>1. CASE sent' = sent
  BY <1>1
<1>2. CASE sent' = Append(sent, Frame(p, p))
  <2> DEFINE f == Frame(p, p)
  <2>1. f \in FrameType /\ f.prompt = p /\ f.math = p
    BY FrameTyped DEF Frame
  <2> HIDE DEF f
  <2>2. /\ DOMAIN sent = 1..Len(sent) /\ Len(sent) \in Nat
        /\ DOMAIN sent' = 1..(Len(sent) + 1)
        /\ \A k \in 1..Len(sent) : sent'[k] = sent[k]
        /\ sent'[Len(sent) + 1] = f
    BY <1>2, <2>1, AppendedFrame DEF f
  <2>3. TAKE k \in DOMAIN sent'
  <2>4. CASE k \in 1..Len(sent)
    BY <2>2, <2>4
  <2>5. CASE k = Len(sent) + 1
    BY <2>1, <2>2, <2>5
  <2> QED BY <2>2, <2>4, <2>5
<1> QED BY <1>1, <1>2

LEMMA LossFreeStep ==
    TypeOK /\ AskBegun /\ LossFreeInv /\ [Next]_vars => LossFreeInv'
<1> SUFFICES ASSUME TypeOK, AskBegun, LossFreeInv, [Next]_vars PROVE LossFreeInv'
  OBVIOUS
<1> USE DEF netVars, pairVars, calcVars, pageVars, relayVars
<1>0. /\ <<"math">> # <<>> /\ <<"math">> # <<"prompt">> /\ <<"math">> # <<"raw">>
      /\ <<"math">> # <<"prompt", "math">> /\ <<"prompt">> # <<>>
      /\ <<"prompt">> # <<"raw">> /\ <<"prompt">> # <<"prompt", "math">>
  OBVIOUS
<1>1. CASE FlushStale
  <2>1. CASE UNCHANGED <<prompt, math, age, sent, lossy, outbox, asked>>
    BY <2>1 DEF LossFreeInv
  <2>2. CASE lossy'
    BY <2>2 DEF LossFreeInv
  <2> QED BY <1>1, <2>1, <2>2 DEF FlushStale
<1>2. CASE OnVar
  <2>1. CASE lossy
    BY <1>2, <2>1 DEF OnVar, LossFreeInv
  <2>2. CASE ~lossy
    <3>1. /\ outbox \in Outboxes /\ outbox # <<"prompt">> /\ outbox # <<>>
          /\ outbox' = Tail(outbox) /\ asked' = asked /\ math = 0
          /\ prompt = IF outbox = <<"math">> THEN asked ELSE 0
          /\ \A k \in DOMAIN sent : sent[k].prompt = sent[k].math
      BY <1>2, <2>2 DEF OnVar, LossFreeInv
    <3>2. asked \in 0..MaxAsks /\ asked # 0 /\ 0 \in 0..MaxAsks
      BY <3>1, Constants DEF TypeOK, AskBegun
    <3>3. CASE Head(outbox) = "prompt" /\ BufferHalf(asked, math)
      <4>1. outbox = <<"prompt", "math">> /\ outbox' = <<"math">>
        BY <3>1, <3>3, OutboxSteps DEF PromptPending
      <4>2. prompt' = asked /\ math' = 0 /\ sent' = sent
        BY <3>1, <3>3 DEF BufferHalf
      <4> QED BY <1>0, <3>1, <4>1, <4>2 DEF LossFreeInv, Outboxes
    <3>4. CASE Head(outbox) = "math" /\ BufferHalf(prompt, asked)
      <4>1. outbox = <<"math">> /\ outbox' = <<>>
        <5>1. outbox = <<"math">>
          BY <3>1, <3>4, OutboxSteps
        <5> QED BY <3>1, <5>1
      <4>2. BufferHalf(asked, asked)
        BY <3>1, <3>4, <4>1
      <4>3. PICK a \in 0..AgeCap : FlushPair(asked, asked, a, "listen")
        BY <3>2, <4>2, BufferHalfCases
      <4>4. a \in NoAge..AgeCap
        BY <4>3, Constants
      <4>5. /\ prompt' = 0 /\ math' = 0
            /\ sent' = sent \/ sent' = Append(sent, Frame(asked, asked))
        BY <4>3, SendFramedEffect DEF FlushPair
      <4>6. \A k \in DOMAIN sent' : sent'[k].prompt = sent'[k].math
        BY <3>1, <3>2, <4>4, <4>5, EvenFrame
      <4> QED BY <1>0, <4>1, <4>5, <4>6 DEF LossFreeInv, Outboxes
    <3>5. CASE Head(outbox) = "raw" /\ SendFramed(Frame(0, 0), "listen")
               /\ UNCHANGED <<prompt, math>>
      <4>1. outbox # <<"math">> /\ outbox' # <<"math">> /\ outbox' \in {<<>>, <<"math">>}
        BY <3>1, <3>5, OutboxSteps DEF PromptPending
      <4>2. sent' = sent \/ sent' = Append(sent, Frame(0, 0))
        BY <3>5, SendFramedEffect
      <4>3. NoAge \in NoAge..AgeCap
        BY Constants
      <4>4. \A k \in DOMAIN sent' : sent'[k].prompt = sent'[k].math
        BY <3>1, <3>2, <4>2, <4>3, EvenFrame
      <4> QED BY <1>0, <3>1, <3>5, <4>1, <4>4 DEF LossFreeInv, Outboxes
    <3> QED BY <1>2, <3>3, <3>4, <3>5 DEF OnVar
  <2> QED BY <2>1, <2>2
<1>3. CASE AskStart
  <2>1. PICK shape \in AskShapes :
        /\ outbox' = shape
        /\ lossy' = (lossy \/ shape \in {<<"prompt">>, <<"math">>})
    BY <1>3 DEF AskStart
  <2>2. outbox = <<>> /\ UNCHANGED <<prompt, math, sent>>
    BY <1>3 DEF AskStart
  <2>3. shape \in Outboxes
    BY ShapesAssumption DEF Outboxes
  <2> QED BY <1>0, <2>1, <2>2, <2>3 DEF LossFreeInv
<1>4. CASE LoseHalf
  BY <1>4 DEF LoseHalf, LossFreeInv
<1>5. CASE UNCHANGED <<sent, prompt, math, asked, outbox, lossy>>
  BY <1>5 DEF LossFreeInv
<1>6. CASE Supervisor
  <2>1. CASE WifiConnect \/ SocketConnect \/ ListenIdle
    BY <1>5, <2>1 DEF WifiConnect, ConnectWifi, SocketConnect, ListenIdle
  <2>2. CASE PollNone \/ PollRaises \/ PollFrame \/ PushPage \/ PushCount
    BY <1>5, <2>2 DEF PollNone, PollRaises, PollFrame, PushPage, PushCount
  <2> QED BY <1>1, <1>6, <2>1, <2>2 DEF Supervisor
<1>7. CASE ListenOther \/ Reply \/ PeerDrop \/ WlanDrop \/ Interrupt
  BY <1>5, <1>7 DEF ListenOther, Reply, PeerDrop, WlanDrop, Interrupt
<1>8. CASE UNCHANGED vars
  BY <1>5, <1>8 DEF vars
<1> QED BY <1>2, <1>3, <1>4, <1>6, <1>7, <1>8 DEF Next, Environment

\* While every ask sent both strings and no timeout fired, on_var joins the halves
\* of one ask only, for any number of asks, reconnects and failed emits.
THEOREM SameAskAlwaysUnlessLossy == Spec => []SameAskUnlessLossy
<1>1. Init => AskBegun /\ LossFreeInv
  <2>1. <<>> # <<"math">> /\ <<>> # <<"prompt">>
    OBVIOUS
  <2> QED BY <2>1 DEF Init, AskBegun, LossFreeInv, Outboxes
<1>2. LossFreeInv => SameAskUnlessLossy
  BY DEF LossFreeInv, SameAskUnlessLossy
<1> QED BY <1>1, <1>2, TypeCorrect, AskBegunStep, LossFreeStep, PTL DEF Spec

-----------------------------------------------------------------------------
(* Replies belong to the connection they came on.                          *)

\* A reply answers a frame there is, so that frames sent later do not matter.
OfConnection(r, frames, conn) == r \in DOMAIN frames /\ frames[r].conn = conn

RepliesInv ==
    /\ \A m \in DOMAIN inbound : OfConnection(inbound[m].reply, sent, sock)
    /\ pc \in {"push", "count"} => OfConnection(push.reply, sent, sock)

LEMMA SentOnlyGrows ==
    ASSUME TypeOK, NEW f \in FrameType, NEW r, OfConnection(r, sent, sock), sock' = sock,
           sent' = sent \/ sent' = Append(sent, f)
    PROVE  OfConnection(r, sent', sock')
<1>1. CASE sent' = sent
  BY <1>1 DEF OfConnection
<1>2. CASE sent' = Append(sent, f)
  <2>1. /\ DOMAIN sent = 1..Len(sent) /\ Len(sent) \in Nat
        /\ DOMAIN sent' = 1..(Len(sent) + 1)
        /\ \A k \in 1..Len(sent) : sent'[k] = sent[k]
    BY <1>2, AppendedFrame
  <2> QED BY <2>1 DEF OfConnection
<1> QED BY <1>1, <1>2

\* After an OSError there is no reply left.
LEMMA ExceptReplies == ASSUME Except PROVE RepliesInv'
BY DEF Except, RepliesInv

\* send_framed outside a push keeps every reply that waits, or drops them all.
LEMMA SendFramedReplies ==
    ASSUME TypeOK, RepliesInv, NEW f \in FrameType, NEW next \in {"listen", "poll"},
           SendFramed(f, next)
    PROVE  RepliesInv'
<1>1. CASE Except
  BY <1>1, ExceptReplies
<1>2. CASE pc' = next /\ UNCHANGED <<sock, inbound>>
  <2>1. sent' = sent \/ sent' = Append(sent, f)
    BY SendFramedEffect
  <2>2. \A m \in DOMAIN inbound' : OfConnection(inbound'[m].reply, sent', sock')
    BY <1>2, <2>1, SentOnlyGrows DEF RepliesInv
  <2> QED BY <1>2, <2>2 DEF RepliesInv
<1> QED BY <1>1, <1>2, SendFramedEffect

LEMMA RepliesKept ==
    ASSUME RepliesInv, UNCHANGED <<sent, sock, inbound, push>>,
           pc' \in {"push", "count"} => pc \in {"push", "count"}
    PROVE  RepliesInv'
BY DEF RepliesInv, OfConnection

LEMMA RepliesStep == TypeOK /\ RepliesInv /\ [Next]_vars => RepliesInv'
<1> SUFFICES ASSUME TypeOK, RepliesInv, [Next]_vars PROVE RepliesInv'
  OBVIOUS
<1> USE DEF netVars, pairVars, calcVars, pageVars, relayVars
<1>1. CASE SocketConnect
  BY <1>1 DEF SocketConnect, RepliesInv
<1>2. CASE FlushStale
  <2>1. CASE pc' = "poll" /\ UNCHANGED <<sock, inbound, sent, push>>
    BY <2>1, RepliesKept
  <2>2. CASE FlushPair(prompt, math, age, "poll")
    <3>1. Frame(prompt, math) \in FrameType
      BY FrameTyped DEF TypeOK
    <3> QED BY <2>2, <3>1, SendFramedReplies DEF FlushPair
  <2> QED BY <1>2, <2>1, <2>2 DEF FlushStale
<1>3. CASE OnVar
  <2>1. ASSUME NEW p \in 0..MaxAsks, NEW m \in 0..MaxAsks, BufferHalf(p, m)
        PROVE  RepliesInv'
    <3>1. CASE UNCHANGED <<pc, sent, sock, inbound>>
      BY <1>3, <3>1, RepliesKept DEF OnVar
    <3>2. ASSUME NEW a, FlushPair(p, m, a, "listen")
          PROVE  RepliesInv'
      <4>1. Frame(p, m) \in FrameType
        BY FrameTyped
      <4> QED BY <3>2, <4>1, SendFramedReplies DEF FlushPair
    <3> QED BY <2>1, <3>1, <3>2, BufferHalfCases
  <2>2. CASE SendFramed(Frame(0, 0), "listen")
    <3>1. Frame(0, 0) \in FrameType
      BY FrameTyped, Constants
    <3> QED BY <2>2, <3>1, SendFramedReplies
  <2>3. asked \in 0..MaxAsks /\ prompt \in 0..MaxAsks /\ math \in 0..MaxAsks
    BY DEF TypeOK
  <2> QED BY <1>3, <2>1, <2>2, <2>3 DEF OnVar
<1>4. CASE PollRaises
  BY <1>4, ExceptReplies DEF PollRaises
<1>5. CASE PollFrame
  <2>1. /\ inbound # <<>> /\ inbound' = Tail(inbound) /\ pc' = "push"
        /\ push'.reply = Head(inbound).reply /\ UNCHANGED <<sent, sock>>
    BY <1>5 DEF PollFrame
  <2>2. /\ Head(inbound) = inbound[1] /\ 1 \in DOMAIN inbound
        /\ \A m \in DOMAIN inbound' : inbound'[m] = inbound[m + 1] /\ m + 1 \in DOMAIN inbound
    <3>1. inbound \in Seq([reply : Nat, pages : ReplyPages])
      BY DEF TypeOK
    <3> QED BY <2>1, <3>1, HeadTailProperties
  <2>3. OfConnection(push'.reply, sent', sock')
    BY <2>1, <2>2 DEF RepliesInv, OfConnection
  <2>4. ASSUME NEW m \in DOMAIN inbound' PROVE OfConnection(inbound'[m].reply, sent', sock')
    BY <2>1, <2>2 DEF RepliesInv, OfConnection
  <2> QED BY <2>3, <2>4 DEF RepliesInv
<1>6. CASE PushPage
  <2>1. /\ UNCHANGED <<sent, sock, inbound>> /\ pc = "push"
        /\ pc' = "poll" \/ push'.reply = push.reply
    BY <1>6 DEF PushPage, AfterPage, TypeOK
  <2> QED BY <2>1 DEF RepliesInv, OfConnection
<1>7. CASE PushCount
  BY <1>7 DEF PushCount, RepliesInv, OfConnection
<1>8. CASE Interrupt
  BY <1>8 DEF Interrupt, RepliesInv
<1>9. CASE Reply
  <2>1. /\ UNCHANGED <<pc, sent, sock, push>>
        /\ \E r \in 1..Len(sent) : \E n \in ReplyPages :
              /\ sent[r].conn = sock
              /\ inbound' = Append(inbound, [reply |-> r, pages |-> n])
    BY <1>9 DEF Reply
  <2>2. PICK r \in 1..Len(sent), n \in ReplyPages :
            /\ sent[r].conn = sock
            /\ inbound' = Append(inbound, [reply |-> r, pages |-> n])
    BY <2>1
  <2> DEFINE e == [reply |-> r, pages |-> n]
  <2>3. e \in [reply : Nat, pages : ReplyPages] /\ e.reply = r
    OBVIOUS
  <2>4. OfConnection(r, sent, sock)
    <3>1. sent \in Seq(FrameType)
      BY DEF TypeOK
    <3>2. DOMAIN sent = 1..Len(sent)
      BY <3>1
    <3> QED BY <2>2, <3>2 DEF OfConnection
  <2> HIDE DEF e
  <2>5. \A m \in DOMAIN inbound' :
          inbound'[m] = e \/ (m \in DOMAIN inbound /\ inbound'[m] = inbound[m])
    <3>1. inbound \in Seq([reply : Nat, pages : ReplyPages])
      BY DEF TypeOK
    <3>2. inbound' = Append(inbound, e)
      BY <2>2 DEF e
    <3>3. /\ DOMAIN inbound = 1..Len(inbound) /\ Len(inbound) \in Nat
          /\ DOMAIN Append(inbound, e) = 1..(Len(inbound) + 1)
          /\ \A m \in 1..Len(inbound) : Append(inbound, e)[m] = inbound[m]
          /\ Append(inbound, e)[Len(inbound) + 1] = e
      BY <2>3, <3>1, AppendProperties
    <3>4. TAKE m \in DOMAIN inbound'
    <3>5. m \in 1..Len(inbound) \/ m = Len(inbound) + 1
      BY <3>2, <3>3
    <3> QED BY <3>2, <3>3, <3>5
  <2>6. \A m \in DOMAIN inbound' : OfConnection(inbound'[m].reply, sent, sock)
    BY <2>3, <2>4, <2>5 DEF RepliesInv
  <2> QED BY <2>1, <2>6 DEF RepliesInv, OfConnection
<1>10. CASE WifiConnect \/ ListenIdle \/ PollNone
  BY <1>10, RepliesKept DEF WifiConnect, ConnectWifi, ListenIdle, PollNone
<1>11. CASE ListenOther \/ AskStart \/ LoseHalf \/ PeerDrop \/ WlanDrop
  BY <1>11, RepliesKept DEF ListenOther, AskStart, LoseHalf, PeerDrop, WlanDrop
<1>12. CASE UNCHANGED vars
  BY <1>12, RepliesKept DEF vars
<1> QED
  BY <1>1, <1>2, <1>3, <1>4, <1>5, <1>6, <1>7, <1>8, <1>9, <1>10, <1>11, <1>12
  DEF Next, Supervisor, Environment

\* No reply outlives its connection: neither one that waits in the FrameReader nor
\* one that is being pushed.
THEOREM RepliesAlwaysOfThisConnection == Spec => []RepliesOfThisConnection
<1>1. Init => RepliesInv
  BY DEF Init, RepliesInv
<1>2. RepliesInv => RepliesOfThisConnection
  BY DEF RepliesInv, RepliesOfThisConnection, OfConnection
<1> QED BY <1>1, <1>2, TypeCorrect, RepliesStep, PTL DEF Spec
=============================================================================
