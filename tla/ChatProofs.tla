----------------------------- MODULE ChatProofs -----------------------------
(***************************************************************************)
(* Proofs about the chat, for every value of the constants: the programs   *)
(* do nothing to the supervisor that Bridge does not allow, so that what   *)
(* BridgeProofs proves of Bridge holds of the chat; the pager stays within *)
(* the strings there are; and what a patient user reads answers his ask.   *)
(***************************************************************************)
EXTENDS Chat, BridgeProofs

\* Every step of the chat is a step of Bridge, or leaves it alone.
LEMMA ChatStep == [ChatNext]_chatVars => [Next]_vars
<1> SUFFICES ASSUME [ChatNext]_chatVars PROVE [Next]_vars
  OBVIOUS
<1>1. CASE Beneath
  BY <1>1 DEF Beneath, Next, Environment
<1>2. CASE Ask
  BY <1>2 DEF Ask, Next, Environment
<1>3. CASE AskFails
  BY <1>3 DEF AskFails, Next, Environment
<1>4. CASE Enter \/ View \/ ArrowKey \/ ClearKey \/ OnKey
  BY <1>4 DEF Enter, View, ArrowKey, ClearKey, OnKey
<1>5. CASE UNCHANGED chatVars
  BY <1>5 DEF chatVars
<1> QED
  BY <1>1, <1>2, <1>3, <1>4, <1>5 DEF ChatNext, User

\* The composition implements Bridge: DECK and VIEW, whatever keys are pressed,
\* are an environment that Bridge allows.
THEOREM ChatRefinesBridge == ChatSpec => Spec
<1>1. ChatInit => Init
  BY DEF ChatInit
<1> QED
  BY <1>1, ChatStep, PTL DEF ChatSpec, Spec

-----------------------------------------------------------------------------
ScreenType == [reply : Nat, whole : BOOLEAN]

LEMMA ScreenIsTyped ==
    ASSUME NEW r \in Nat, NEW w \in BOOLEAN
    PROVE  [reply |-> r, whole |-> w] \in ScreenType
BY DEF ScreenType

LEMMA BlankIsTyped == Blank \in ScreenType
<1>1. 0 \in Nat /\ TRUE \in BOOLEAN
  OBVIOUS
<1> QED
  BY <1>1, ScreenIsTyped, Zenon DEF Blank

\* A drawn page is one there is a string for.
LEMMA DrawType ==
    ASSUME TypeOK, NEW p \in 1..MaxPages, NEW loop \in {"show", "view"}, Draw(p, loop)
    PROVE  /\ deck' \in {"home", loop} /\ page' \in 1..MaxPages
           /\ screen' \in ScreenType
<1>1. MaxPages \in Nat \ {0} /\ str \in [1..MaxPages -> Nat]
  BY Constants DEF TypeOK
<1>2. Slot(p) = p /\ str[p] \in Nat /\ 1 \in 1..MaxPages
  BY <1>1 DEF Slot
<1>3. CASE str[p] = 0
  BY <1>2, <1>3, BlankIsTyped DEF Draw, Home
<1>4. CASE str[p] # 0
  <2>1. deck' = loop /\ page' = p
    BY <1>2, <1>4 DEF Draw
  <2>2. screen' = [reply |-> str[p], whole |-> (cnt > 0 /\ OneReply(cnt))]
    BY <1>2, <1>4, Zenon DEF Draw
  <2>3. (cnt > 0 /\ OneReply(cnt)) \in BOOLEAN
    OBVIOUS
  <2>4. screen' \in ScreenType
    BY <1>2, <2>2, <2>3, ScreenIsTyped, Zenon
  <2> QED
    BY <2>1, <2>4
<1> QED
  BY <1>3, <1>4

LEMMA ChatStepType ==
    ASSUME TypeOK, ChatTypeOK, [ChatNext]_chatVars
    PROVE  ChatTypeOK'
<1>1. MaxPages \in Nat \ {0} /\ cnt \in 0..MaxPages /\ 1 \in 1..MaxPages
  BY Constants DEF TypeOK
<1>2. CASE Beneath
  <2>1. hurt' \in BOOLEAN
    BY <1>2, Zenon DEF Beneath, ChatTypeOK
  <2> QED
    BY <1>2, <2>1 DEF Beneath, deckVars, ChatTypeOK
<1>3. CASE Ask \/ AskFails
  <2>1. clean' \in BOOLEAN
    BY <1>3, Zenon DEF Ask, AskFails, ChatTypeOK
  <2> QED
    BY <1>3, <2>1 DEF Ask, AskFails, ChatTypeOK
<1>4. CASE Enter \/ View
  BY <1>1, <1>4, DrawType DEF Enter, View, ScreenType, ChatTypeOK
<1>5. CASE ArrowKey
  <2>1. PICK k \in {24, 26} : Draw(Turn(k), deck)
    BY <1>5 DEF ArrowKey
  <2>2. Turn(k) \in 1..MaxPages
    BY <1>1 DEF Turn, ChatTypeOK
  <2> QED
    BY <1>5, <2>1, <2>2, DrawType DEF ArrowKey, ScreenType, ChatTypeOK
<1>6. CASE ClearKey \/ OnKey
  <2>1. clean' \in BOOLEAN
    BY <1>6, Zenon DEF ClearKey, OnKey, ChatTypeOK
  <2> QED
    BY <1>1, <1>6, <2>1, BlankIsTyped DEF ClearKey, OnKey, Home, ScreenType, ChatTypeOK
<1>7. CASE UNCHANGED chatVars
  BY <1>7 DEF chatVars, deckVars, ChatTypeOK
<1> QED
  BY <1>2, <1>3, <1>4, <1>5, <1>6, <1>7 DEF ChatNext, User

\* The deck's variables keep their types; the page shown always has a string.
THEOREM PagerTypeCorrect == ChatSpec => []ChatTypeOK
<1>1. ChatInit => ChatTypeOK
  <2>1. 1 \in 1..MaxPages
    BY Constants
  <2> QED
    BY <2>1, BlankIsTyped, Zenon DEF ChatInit, ScreenType, ChatTypeOK
<1>2. ChatSpec => []TypeOK
  BY ChatRefinesBridge, TypeCorrect, PTL
<1>3. TypeOK /\ ChatTypeOK /\ [ChatNext]_chatVars => ChatTypeOK'
  BY ChatStepType
<1> QED
  BY <1>1, <1>2, <1>3, PTL DEF ChatSpec

-----------------------------------------------------------------------------
(* Why a patient user reads the answer to the ask in hand although a reply *)
(* does not say which ask it answers: at most one thing is under way (the  *)
(* halves still to send, then the frame, then its reply, then the push),   *)
(* it belongs to the ask in hand, and nothing is under way once N # 0.     *)

\* The antecedent of ShownAnswersAsk: once false, it stays false.
Sincere == Patient /\ clean /\ ~lossy

\* Frame r is the one of the ask in hand.
ForAsk(r) == r \in DOMAIN sent /\ sent[r].prompt = asked

Unanswered == DOMAIN sent \ replied
Pushing == pc \in {"push", "count"}

\* Nothing is under way between the deck and the relay.
Quiet == outbox = <<>> /\ Unanswered = {} /\ inbound = <<>> /\ ~Pushing

OneUnderWay ==
    /\ outbox # <<>> => Unanswered = {} /\ inbound = <<>> /\ ~Pushing
    /\ Unanswered # {} =>
        /\ Unanswered = {Len(sent)} /\ ForAsk(Len(sent))
        /\ inbound = <<>> /\ ~Pushing
    /\ inbound # <<>> => Len(inbound) = 1 /\ ForAsk(inbound[1].reply) /\ ~Pushing
    /\ Pushing => ForAsk(push.reply)

PagesForAsk == \A p \in 1..cnt : ForAsk(str[p]) /\ str[p] = str[1]

ScreenForAsk ==
    deck = "show" =>
        /\ cnt # 0 /\ page \in 1..cnt
        /\ ForAsk(screen.reply) /\ screen.whole

AnswerInv ==
    /\ outbox # <<"raw">>
    /\ OneUnderWay
    /\ deck # "ask" \/ cnt # 0 => Quiet
    /\ PagesForAsk
    /\ ScreenForAsk

\* The inductive invariant behind ShownAnswersAsk.
ShownInv == Sincere => AnswerInv

\* A step that sends, answers, stores and shows nothing keeps the invariant, even
\* if it forgets what had arrived.
LEMMA AnswerKept ==
    ASSUME AnswerInv, Pushing' => Pushing, inbound' \in {inbound, <<>>},
           UNCHANGED <<outbox, sent, replied, asked, cnt, str, push, deck, page, screen>>
    PROVE  AnswerInv'
<1> USE DEF ForAsk, Unanswered
<1>1. outbox' # <<"raw">>
  BY DEF AnswerInv
<1>2. OneUnderWay'
  BY DEF AnswerInv, OneUnderWay
<1>3. (deck # "ask" \/ cnt # 0 => Quiet)'
  BY DEF AnswerInv, Quiet
<1>4. PagesForAsk' /\ ScreenForAsk'
  BY DEF AnswerInv, PagesForAsk, ScreenForAsk
<1> QED
  BY <1>1, <1>2, <1>3, <1>4 DEF AnswerInv

\* listen_loop takes a string: the first is buffered, the second sends the frame of
\* the ask in hand, or loses it with its connection.
LEMMA AnswerOnVar ==
    ASSUME TypeOK, AskBegun, LossFreeInv, Sincere, AnswerInv, OnVar,
           UNCHANGED <<deck, page, screen>>
    PROVE  AnswerInv'
<1> USE DEF ForAsk, Unanswered, pageVars
<1>1. /\ outbox \in Outboxes /\ outbox # <<"prompt">> /\ outbox # <<>>
      /\ outbox # <<"raw">> /\ outbox' = Tail(outbox) /\ math = 0
      /\ prompt = IF outbox = <<"math">> THEN asked ELSE 0
      /\ UNCHANGED <<asked, replied, cnt, str, push>>
  BY DEF OnVar, LossFreeInv, Sincere, AnswerInv
<1>2. Unanswered = {} /\ inbound = <<>> /\ ~Pushing /\ pc = "listen"
  BY <1>1 DEF AnswerInv, OneUnderWay, OnVar
<1>3. deck = "ask" /\ cnt = 0
  BY <1>1 DEF AnswerInv, Quiet
<1>4. PagesForAsk' /\ ScreenForAsk'
  BY <1>1, <1>3 DEF PagesForAsk, ScreenForAsk
<1>5. asked \in 0..MaxAsks /\ asked # 0 /\ asked \in Nat
  BY <1>1, Constants DEF TypeOK, AskBegun
<1>6. <<"math">> # <<>> /\ <<>> # <<"raw">> /\ <<"math">> # <<"raw">>
  OBVIOUS
<1>7. CASE outbox = <<"prompt", "math">>
  <2>1. outbox' = <<"math">> /\ Head(outbox) = "prompt" /\ prompt = 0
    BY <1>1, <1>7, OutboxSteps DEF PromptPending
  <2>2. BufferHalf(asked, math)
    BY <2>1 DEF OnVar
  <2>3. UNCHANGED <<pc, sent, inbound>>
    BY <1>1, <2>2 DEF BufferHalf
  <2>4. OneUnderWay' /\ outbox' # <<"raw">>
    BY <1>1, <1>2, <1>6, <2>1, <2>3 DEF OneUnderWay, Pushing
  <2> QED
    BY <1>1, <1>3, <1>4, <2>4 DEF AnswerInv
<1>8. CASE outbox = <<"math">>
  <2>1. outbox' = <<>> /\ Head(outbox) = "math" /\ prompt = asked
    BY <1>1, <1>8, OutboxSteps
  <2>2. BufferHalf(asked, asked)
    BY <2>1 DEF OnVar
  <2>3. PICK a \in 0..AgeCap : FlushPair(asked, asked, a, "listen")
    BY <1>1, <1>5, <2>2, BufferHalfCases
  <2>4. a \in NoAge..AgeCap
    BY <2>3, Constants
  <2> DEFINE f == Frame(asked, asked)
  <2>5. f \in FrameType /\ f.prompt = asked
    BY <1>5, <2>4, FrameTyped DEF Frame
  <2>6. /\ sent' = sent \/ sent' = Append(sent, f)
        /\ ~Pushing' /\ inbound' = <<>>
    <3>1. SendFramed(f, "listen")
      BY <2>3 DEF FlushPair
    <3>2. /\ sent' = sent \/ sent' = Append(sent, f)
          /\ \/ pc' = "listen" /\ UNCHANGED <<sock, peer, inbound>>
             \/ Except
      BY <3>1, SendFramedEffect
    <3> QED
      BY <1>2, <3>2 DEF Except, Pushing
  <2> HIDE DEF f
  <2>7. CASE sent' = sent
    <3>1. OneUnderWay'
      BY <1>1, <1>2, <2>1, <2>6, <2>7 DEF OneUnderWay
    <3> QED
      BY <1>1, <1>3, <1>4, <1>6, <2>1, <3>1 DEF AnswerInv
  <2>8. CASE sent' = Append(sent, f)
    <3>1. /\ DOMAIN sent = 1..Len(sent) /\ Len(sent) \in Nat
          /\ DOMAIN sent' = 1..(Len(sent) + 1)
          /\ sent'[Len(sent) + 1] = f
      BY <2>5, <2>8, AppendedFrame
    <3>2. Len(sent') = Len(sent) + 1
      BY <2>5, <2>8 DEF TypeOK
    <3>3. ForAsk(Len(sent))'
      BY <1>1, <2>5, <3>1, <3>2
    <3>4. Unanswered' \subseteq {Len(sent')}
      BY <1>1, <1>2, <3>1, <3>2
    <3>5. OneUnderWay'
      <4>1. Unanswered' # {} => Unanswered' = {Len(sent')}
        BY <3>4
      <4> QED
        BY <2>1, <2>6, <3>3, <4>1 DEF OneUnderWay
    <3> QED
      BY <1>1, <1>3, <1>4, <1>6, <2>1, <3>5 DEF AnswerInv
  <2> QED
    BY <2>6, <2>7, <2>8
<1> QED
  BY <1>1, <1>7, <1>8 DEF Outboxes

\* The supervisor takes the one reply that waits, pushes its pages while N is still
\* zero, and then N: by then every page is of that reply and nothing is under way.
LEMMA AnswerPushed ==
    ASSUME TypeOK, PagesBeforeCount, AnswerInv, PollFrame \/ PushPage \/ PushCount,
           UNCHANGED <<deck, page, screen>>
    PROVE  AnswerInv'
<1> USE DEF ForAsk, Unanswered, netVars, pairVars, calcVars, relayVars
<1>1. UNCHANGED <<outbox, asked, sent, replied>> /\ outbox # <<"raw">>
  BY DEF PollFrame, PushPage, PushCount, AnswerInv
<1>2. CASE PollFrame
  <2>1. /\ inbound # <<>> /\ Len(inbound) = 1 /\ ForAsk(inbound[1].reply)
        /\ outbox = <<>> /\ Unanswered = {}
    BY <1>2 DEF PollFrame, AnswerInv, OneUnderWay
  <2>2. inbound' = <<>> /\ push'.reply = inbound[1].reply /\ UNCHANGED <<str, cnt>>
    <3>1. inbound \in Seq([reply : Nat, pages : ReplyPages])
      BY DEF TypeOK
    <3>2. /\ Len(Tail(inbound)) = 0 /\ Head(inbound) = inbound[1]
          /\ Tail(inbound) \in Seq([reply : Nat, pages : ReplyPages])
      BY <2>1, <3>1
    <3>3. Tail(inbound) = <<>>
      BY <3>2, EmptySeq
    <3> QED
      BY <1>2, <3>2, <3>3 DEF PollFrame
  <2>3. OneUnderWay'
    BY <1>1, <2>1, <2>2 DEF OneUnderWay
  <2>4. deck = "ask" /\ cnt = 0
    BY <2>1 DEF AnswerInv, Quiet
  <2>5. PagesForAsk' /\ ScreenForAsk'
    BY <2>2, <2>4 DEF PagesForAsk, ScreenForAsk
  <2> QED
    BY <1>1, <2>2, <2>3, <2>4, <2>5 DEF AnswerInv
<1>3. CASE PushPage \/ PushCount
  <2>1. /\ Pushing /\ ForAsk(push.reply) /\ inbound = <<>>
        /\ outbox = <<>> /\ Unanswered = {}
    BY <1>3 DEF PushPage, PushCount, Pushing, AnswerInv, OneUnderWay
  <2>2. deck = "ask" /\ cnt = 0
    BY <2>1 DEF AnswerInv, Quiet
  <2>3. inbound' = inbound
    BY <1>3 DEF PushPage, PushCount
  <2>4. ScreenForAsk'
    BY <2>2 DEF ScreenForAsk
  <2>5. CASE PushPage
    <3>1. cnt' = cnt
      BY <2>5 DEF PushPage
    <3>2. Pushing' => push'.reply = push.reply
      <4>1. push \in [reply : Nat, n : 1..MaxPages, i : 1..MaxPages]
        BY DEF TypeOK
      <4>2. PICK out \in SendVarOutcomes : AfterPage(out.ok)
        BY <2>5 DEF PushPage
      <4>3. CASE out.ok
        BY <4>1, <4>2, <4>3 DEF AfterPage
      <4>4. CASE ~out.ok
        BY <4>2, <4>4 DEF AfterPage, Pushing
      <4> QED
        BY <4>3, <4>4
    <3>3. OneUnderWay'
      BY <1>1, <2>1, <2>3, <3>2 DEF OneUnderWay
    <3>4. PagesForAsk'
      BY <2>2, <3>1 DEF PagesForAsk
    <3> QED
      BY <1>1, <2>2, <2>4, <3>1, <3>3, <3>4 DEF AnswerInv
  <2>6. CASE PushCount
    <3>1. ~Pushing' /\ str' = str /\ cnt' \in {cnt, push.n} /\ pc = "count"
      BY <2>6 DEF PushCount, Pushing
    <3>2. Quiet' /\ OneUnderWay'
      BY <1>1, <2>1, <2>3, <3>1 DEF Quiet, OneUnderWay
    <3>3. CASE cnt' = cnt
      <4>1. PagesForAsk'
        BY <2>2, <3>3 DEF PagesForAsk
      <4> QED
        BY <1>1, <2>4, <3>2, <4>1 DEF AnswerInv
    <3>4. CASE cnt' = push.n
      <4>1. push.n \in Nat \ {0}
        BY Constants DEF TypeOK
      <4>2. \A p \in 1..push.n : str[p] = push.reply
        BY <3>1 DEF PagesBeforeCount
      <4>3. 1 \in 1..push.n
        BY <4>1
      <4>4. PagesForAsk'
        BY <1>1, <2>1, <3>1, <3>4, <4>2, <4>3 DEF PagesForAsk
      <4> QED
        BY <1>1, <2>4, <3>2, <4>4 DEF AnswerInv
    <3> QED
      BY <3>1, <3>3, <3>4
  <2> QED
    BY <1>3, <2>5, <2>6
<1> QED
  BY <1>2, <1>3

\* The relay's answer is the only one there is to give, to the frame of the ask in
\* hand, and it is the only one that waits.
LEMMA AnswerReplied ==
    ASSUME TypeOK, AnswerInv, Reply, UNCHANGED <<deck, page, screen>>
    PROVE  AnswerInv'
<1> USE DEF ForAsk, Unanswered, netVars, pairVars, calcVars, pageVars
<1>1. PICK k \in (1..Len(sent)) \ replied : \E j \in k..Len(sent) :
        /\ replied' = replied \cup {k}
        /\ \E n \in ReplyPages :
             inbound' = Append(inbound, [reply |-> j, pages |-> n])
  BY DEF Reply
<1>2. PICK j \in k..Len(sent), n \in ReplyPages :
        /\ replied' = replied \cup {k}
        /\ inbound' = Append(inbound, [reply |-> j, pages |-> n])
  BY <1>1
<1>3. UNCHANGED <<pc, outbox, asked, sent, cnt, str, push>>
  BY DEF Reply
<1>4. sent \in Seq(FrameType) /\ DOMAIN sent = 1..Len(sent) /\ Len(sent) \in Nat
  BY DEF TypeOK
<1>5. Unanswered # {}
  BY <1>1, <1>4
<1>6. /\ Unanswered = {Len(sent)} /\ ForAsk(Len(sent)) /\ inbound = <<>>
      /\ ~Pushing /\ outbox = <<>>
  BY <1>5 DEF AnswerInv, OneUnderWay
<1>7. k = Len(sent) /\ j = Len(sent)
  <2>1. k \in Unanswered
    BY <1>4
  <2>2. k = Len(sent)
    BY <1>6, <2>1
  <2> QED
    BY <1>2, <1>4, <2>2
<1>8. Unanswered' = {}
  BY <1>2, <1>3, <1>6, <1>7
<1>9. Len(inbound') = 1 /\ inbound'[1].reply = j /\ inbound' # <<>>
  BY <1>2, <1>6
<1>10. ForAsk(inbound[1].reply)'
  BY <1>3, <1>6, <1>7, <1>9
<1>11. OneUnderWay'
  BY <1>3, <1>6, <1>8, <1>9, <1>10 DEF OneUnderWay, Pushing
<1>12. deck = "ask" /\ cnt = 0
  BY <1>5 DEF AnswerInv, Quiet
<1>13. PagesForAsk' /\ ScreenForAsk'
  BY <1>3, <1>12 DEF PagesForAsk, ScreenForAsk
<1> QED
  BY <1>3, <1>6, <1>11, <1>12, <1>13 DEF AnswerInv

\* Asking takes N back to zero, when nothing of the last ask is under way.
LEMMA AnswerAsked ==
    ASSUME TypeOK, AnswerInv, Ask, Sincere'
    PROVE  AnswerInv'
<1> USE DEF ForAsk, Unanswered, netVars, pairVars, pageVars, relayVars
<1>1. /\ deck = "home" /\ outbox' = <<"prompt", "math">> /\ deck' = "ask"
      /\ UNCHANGED <<pc, inbound, push, str, sent, replied>>
  BY DEF Ask, AskStart, Sincere
<1>2. <<"prompt", "math">> # <<"raw">> /\ cnt' = 0
  <2>1. <<"prompt", "math">> # <<"raw">>
    OBVIOUS
  <2> QED
    BY <1>1, <2>1 DEF Ask, AskStart
<1>3. Quiet
  BY <1>1 DEF AnswerInv
<1>4. OneUnderWay'
  BY <1>1, <1>3 DEF Quiet, OneUnderWay, Pushing
<1>5. PagesForAsk' /\ ScreenForAsk'
  BY <1>1, <1>2 DEF PagesForAsk, ScreenForAsk
<1> QED
  BY <1>1, <1>2, <1>4, <1>5 DEF AnswerInv

\* The pager, once N # 0, draws pages 1 to N only, all of the one reply.
LEMMA AnswerDrawn ==
    ASSUME TypeOK, AnswerInv, NEW p \in 1..MaxPages, NEW loop \in {"show", "view"},
           Draw(p, loop), UNCHANGED vars,
           deck # "ask" \/ cnt # 0, loop = "show" => cnt # 0 /\ p \in 1..cnt
    PROVE  AnswerInv'
<1> USE DEF ForAsk, Unanswered, vars, calcVars, pageVars, relayVars
<1>1. /\ UNCHANGED <<pc, inbound, outbox, asked, sent, replied, cnt, str, push>>
      /\ Slot(p) = p
  BY DEF Slot
<1>2. OneUnderWay' /\ PagesForAsk' /\ Quiet' /\ outbox' # <<"raw">>
  BY <1>1 DEF AnswerInv, OneUnderWay, PagesForAsk, Quiet, Pushing
<1>3. ScreenForAsk'
  <2>1. CASE str[p] # 0 /\ loop = "show"
    <3>1. page' = p /\ screen' = [reply |-> str[p], whole |-> cnt > 0 /\ OneReply(cnt)]
      BY <1>1, <2>1, Zenon DEF Draw
    <3>2. cnt > 0 /\ OneReply(cnt)
      <4>1. cnt \in Nat /\ cnt # 0
        BY <2>1, Constants DEF TypeOK
      <4> QED
        BY <4>1 DEF AnswerInv, PagesForAsk, OneReply
    <3>3. screen'.reply = str[p] /\ screen'.whole
      BY <3>1, <3>2
    <3>4. ForAsk(str[p])
      BY <2>1 DEF AnswerInv, PagesForAsk
    <3>5. ForAsk(screen.reply)'
      BY <1>1, <3>3, <3>4
    <3> QED
      BY <1>1, <2>1, <3>1, <3>3, <3>5 DEF ScreenForAsk
  <2>2. CASE deck' # "show"
    BY <2>2 DEF ScreenForAsk
  <2> QED
    BY <1>1, <2>1, <2>2 DEF Draw, Home
<1> QED
  BY <1>2, <1>3 DEF AnswerInv

\* A key that goes home from anything but an ask.
LEMMA AnswerLeft ==
    ASSUME AnswerInv, Home, UNCHANGED vars, deck # "ask"
    PROVE  AnswerInv'
BY DEF AnswerInv, OneUnderWay, PagesForAsk, ScreenForAsk, Quiet, Pushing, Home, vars,
       calcVars, pageVars, relayVars, ForAsk, Unanswered

\* What the user does keeps the invariant.
LEMMA ShownUserStep ==
    ASSUME TypeOK, ChatTypeOK, AnswerInv, Sincere, Sincere', User
    PROVE  AnswerInv'
<1>1. CASE Ask
  BY <1>1, AnswerAsked
<1>2. CASE AskFails
  BY <1>2 DEF AskFails, LoseHalf, Sincere
<1>3. MaxPages \in Nat \ {0} /\ cnt \in 0..MaxPages /\ 1 \in 1..MaxPages
  BY Constants DEF TypeOK
<1>4. CASE Enter
  <2>1. Draw(1, "show") /\ UNCHANGED vars /\ cnt # 0 /\ 1 \in 1..cnt
    BY <1>3, <1>4 DEF Enter, Sincere
  <2> QED
    BY <1>3, <2>1, AnswerDrawn
<1>5. CASE View
  <2>1. Draw(1, "view") /\ UNCHANGED vars /\ deck # "ask" /\ "view" # "show"
    BY <1>5 DEF View
  <2> QED
    BY <1>3, <2>1, AnswerDrawn
<1>6. CASE ArrowKey
  <2>1. PICK k \in {24, 26} : Draw(Turn(k), deck)
    BY <1>6 DEF ArrowKey
  <2>2. Turn(k) \in 1..MaxPages
    BY <1>3 DEF Turn, ChatTypeOK
  <2>3. deck = "show" => cnt # 0 /\ Turn(k) \in 1..cnt
    BY <1>3 DEF Turn, AnswerInv, ScreenForAsk
  <2>4. UNCHANGED vars /\ deck \in {"show", "view"} /\ deck # "ask"
    BY <1>6 DEF ArrowKey
  <2> QED
    BY <2>1, <2>2, <2>3, <2>4, AnswerDrawn
<1>7. CASE ClearKey \/ OnKey
  <2>1. Home /\ UNCHANGED vars /\ deck # "ask"
    BY <1>7 DEF ClearKey, OnKey, Sincere
  <2> QED
    BY <2>1, AnswerLeft
<1> QED
  BY <1>1, <1>2, <1>4, <1>5, <1>6, <1>7 DEF User

\* What happens beneath the programs keeps it.
LEMMA ShownBeneathStep ==
    ASSUME TypeOK, AskBegun, LossFreeInv, PagesBeforeCount,
           AnswerInv, Sincere, Sincere', Beneath
    PROVE  AnswerInv'
<1> USE DEF netVars, pairVars, calcVars, pageVars, relayVars
<1>1. UNCHANGED <<deck, page, screen>>
  BY DEF Beneath, deckVars
<1>2. CASE OnVar
  BY <1>1, <1>2, AnswerOnVar
<1>3. CASE Reply
  BY <1>1, <1>3, AnswerReplied
<1>4. CASE PollFrame \/ PushPage \/ PushCount
  BY <1>1, <1>4, AnswerPushed
<1>5. CASE WifiConnect \/ SocketConnect \/ ListenIdle \/ PollNone \/ PollRaises
  BY <1>1, <1>5, AnswerKept DEF WifiConnect, ConnectWifi, SocketConnect, ListenIdle,
     PollNone, PollRaises, Except, Pushing
<1>6. CASE FlushStale
  <2>1. ~lossy'
    BY DEF Sincere
  <2> QED
    BY <1>1, <1>6, <2>1, AnswerKept DEF FlushStale, Pushing
<1>7. CASE ListenOther \/ PeerDrop \/ WlanDrop
  BY <1>1, <1>7, AnswerKept DEF ListenOther, PeerDrop, WlanDrop, Pushing
<1> QED
  BY <1>2, <1>3, <1>4, <1>5, <1>6, <1>7 DEF Beneath, Supervisor

LEMMA ShownStep ==
    ASSUME TypeOK, ChatTypeOK, AskBegun, LossFreeInv, PagesBeforeCount,
           ShownInv, [ChatNext]_chatVars
    PROVE  ShownInv'
<1> SUFFICES ASSUME Sincere' PROVE AnswerInv'
  BY DEF ShownInv
<1>1. CASE UNCHANGED chatVars
  <2>1. Sincere
    BY <1>1 DEF Sincere, chatVars, deckVars, vars, calcVars
  <2> QED
    BY <1>1, <2>1, AnswerKept DEF ShownInv, chatVars, deckVars, vars, calcVars, pageVars,
       relayVars, Pushing
<1>2. CASE Beneath
  <2>1. lossy => lossy'
    BY <1>2 DEF Beneath, Supervisor, WifiConnect, ConnectWifi, SocketConnect, ListenIdle,
       FlushStale, PollNone, PollRaises, PollFrame, PushPage, PushCount, OnVar,
       ListenOther, Reply, PeerDrop, WlanDrop, calcVars
  <2>2. Sincere
    BY <1>2, <2>1 DEF Sincere, Beneath, deckVars
  <2> QED
    BY <1>2, <2>2, ShownBeneathStep DEF ShownInv
<1>3. CASE User
  <2>1. lossy => lossy'
    BY <1>3 DEF User, Ask, AskFails, AskStart, LoseHalf, Enter, View, ArrowKey, ClearKey,
       OnKey, vars, calcVars
  <2>2. clean' => clean
    BY <1>3 DEF User, Ask, AskFails, Enter, View, ArrowKey, ClearKey, OnKey
  <2>3. Sincere
    BY <2>1, <2>2 DEF Sincere
  <2> QED
    BY <1>3, <2>3, ShownUserStep DEF ShownInv
<1> QED
  BY <1>1, <1>2, <1>3 DEF ChatNext

\* A patient user who never gave an ask up reads the answer to the ask in hand, whole,
\* on every page, as long as no half was lost: for any number of asks, of connections
\* the network breaks, and of pages a reply may have.
THEOREM ShownAlwaysAnswersAsk == ChatSpec => []ShownAnswersAsk
<1>1. ChatInit => ShownInv
  <2>1. ChatInit => /\ outbox = <<>> /\ sent = <<>> /\ inbound = <<>> /\ pc = "wifi"
                    /\ deck = "home" /\ cnt = 0
    BY DEF ChatInit, Init
  <2> QED
    BY <2>1 DEF ShownInv, AnswerInv, OneUnderWay, Quiet, Pushing, Unanswered, PagesForAsk,
       ScreenForAsk
<1>2. ChatInit => AskBegun /\ LossFreeInv
  <2>1. <<>> # <<"math">> /\ <<>> # <<"prompt">>
    OBVIOUS
  <2> QED
    BY <2>1 DEF ChatInit, Init, AskBegun, LossFreeInv, Outboxes
<1>3. TypeOK /\ AskBegun /\ [ChatNext]_chatVars => AskBegun'
  BY ChatStep, AskBegunStep
<1>4. TypeOK /\ AskBegun /\ LossFreeInv /\ [ChatNext]_chatVars => LossFreeInv'
  BY ChatStep, LossFreeStep
<1>5. /\ TypeOK /\ ChatTypeOK /\ AskBegun /\ LossFreeInv /\ PagesBeforeCount
      /\ ShownInv /\ [ChatNext]_chatVars
      => ShownInv'
  BY ShownStep
<1>6. ShownInv => ShownAnswersAsk
  BY DEF ShownInv, Sincere, AnswerInv, ScreenForAsk, ForAsk, ShownAnswersAsk
<1>7. ChatSpec => []TypeOK /\ []PagesBeforeCount
  BY ChatRefinesBridge, TypeCorrect, PagesAlwaysBeforeCount, PTL
<1> QED
  BY <1>1, <1>2, <1>3, <1>4, <1>5, <1>6, <1>7, PagerTypeCorrect, PTL DEF ChatSpec

=============================================================================
