---------------------------- MODULE RelayProofs -----------------------------
(***************************************************************************)
(* Proofs about the relay, for any number of connections, frames, lines    *)
(* and permits.                                                            *)
(***************************************************************************)
EXTENDS Relay, FiniteSetTheorems, SequenceTheorems, TLAPS

-----------------------------------------------------------------------------
(* The inductive invariant: what AnswersThisClient, PermitsConserved and   *)
(* ActiveServed rest on.                                                   *)

Sent == 1..Len(from)

\* Connections not accepted yet have no handler.
NotYetAccepted == \A c \in Conns : c > accepted => handler[c] = "none"

\* The frames waiting on a connection were sent on it, in order, and no thread was
\* started for them.
WaitingFresh ==
    \A c \in Conns : \A i \in DOMAIN rx[c] :
        /\ rx[c][i].id \in Sent /\ from[rx[c][i].id] = c
        /\ worker[rx[c][i].id].pc = "none"
        /\ payload[c] < rx[c][i].id
        /\ \A j \in DOMAIN rx[c] : i < j => rx[c][i].id < rx[c][j].id

\* `payload` holds a frame of its connection once one was read.
PayloadOwn == \A c \in Conns : payload[c] # 0 => payload[c] \in Sent /\ from[payload[c]] = c

\* A worker was started for a frame sent, no later than the one `payload` holds, and
\* answers a frame of the same connection, no earlier than its own.
WorkersOwn ==
    \A k \in Frames : worker[k].pc # "none" =>
        /\ k \in Sent /\ k <= payload[from[k]]
        /\ Started(k) => /\ worker[k].text \in Sent /\ k <= worker[k].text
                         /\ from[worker[k].text] = from[k]

\* A client has received answers to frames of its own connection only.
AnswersOwn ==
    \A c \in Conns : \A i \in DOMAIN tx[c] :
        tx[c][i].kind # "line" => tx[c][i].of \in Sent /\ from[tx[c][i].of] = c

ActiveReads == active # 0 => handler[active] = "read"

RInv ==
    /\ TypeOK /\ NotYetAccepted /\ WaitingFresh /\ PayloadOwn /\ WorkersOwn
    /\ AnswersOwn /\ PermitsConserved /\ ActiveReads

-----------------------------------------------------------------------------
(* Type correctness.                                                       *)

LEMMA Constants ==
    /\ Inflight \in Nat \ {0} /\ MaxConns \in Nat /\ MaxFrames \in Nat /\ MaxLines \in Nat
    /\ Modes \subseteq {"llm", "echo", "default"}
BY RelayAssumption

LEMMA InitType == Init => TypeOK
<1> SUFFICES ASSUME Init PROVE TypeOK
  OBVIOUS
<1>1. /\ rx \in [Conns -> Seq([id : Frames, kind : Kinds])]
      /\ tx \in [Conns -> Seq([kind : {"pages", "err", "echo", "line"}, of : 0..MaxFrames])]
      /\ from \in Seq(Conns) /\ Len(from) <= MaxFrames
  BY Constants DEF Init
<1>2. /\ payload \in [Conns -> 0..MaxFrames]
      /\ worker \in [Frames -> [pc : {"none", "new", "wait", "call", "pages", "err",
                                      "done", "died"}, text : 0..MaxFrames]]
      /\ handler \in [Conns -> {"none", "start", "read", "exit", "closed"}]
      /\ up \in [Conns -> BOOLEAN]
  BY Constants DEF Init
<1>3. /\ mode \in Modes /\ accepted \in 0..MaxConns /\ active \in 0..MaxConns
      /\ sem \in 0..Inflight /\ pump \in -1..MaxConns /\ lines \in 0..MaxLines
  BY Constants DEF Init
<1> QED BY <1>1, <1>2, <1>3 DEF TypeOK

\* What Append and Tail do to the elements of a sequence.
LEMMA AppendAt ==
    ASSUME NEW T, NEW s \in Seq(T), NEW e \in T
    PROVE  /\ Append(s, e) \in Seq(T)
           /\ \A i \in DOMAIN Append(s, e) :
                \/ i \in DOMAIN s /\ Append(s, e)[i] = s[i]
                \/ i = Len(s) + 1 /\ Append(s, e)[i] = e
OBVIOUS

LEMMA TailAt ==
    ASSUME NEW T, NEW s \in Seq(T), s # <<>>
    PROVE  /\ Tail(s) \in Seq(T) /\ Head(s) = s[1] /\ Head(s) \in T /\ 1 \in DOMAIN s
           /\ \A i \in DOMAIN Tail(s) :
               i + 1 \in DOMAIN s /\ Tail(s)[i] = s[i + 1] /\ i \in Nat \ {0}
<1>1. Len(s) \in Nat /\ DOMAIN s = 1..Len(s) /\ Len(s) > 0
  BY EmptySeq
<1>2. Tail(s) \in Seq(T) /\ DOMAIN Tail(s) = 1..(Len(s) - 1)
  BY <1>1, HeadTailProperties
<1>3. \A i \in 1..(Len(s) - 1) : Tail(s)[i] = s[i + 1]
  BY <1>1
<1> QED BY <1>1, <1>2, <1>3, HeadTailProperties

\* sendall keeps what was received typed, and adds one reply to one connection.
LEMMA SendAllType ==
    ASSUME TypeOK, NEW c \in Conns,
           NEW reply \in [kind : {"pages", "err", "echo", "line"}, of : 0..MaxFrames],
           SendAll(c, reply)
    PROVE  /\ tx' \in [Conns -> Seq([kind : {"pages", "err", "echo", "line"}, of : 0..MaxFrames])]
           /\ \A d \in Conns : \A i \in DOMAIN tx'[d] :
                \/ i \in DOMAIN tx[d] /\ tx'[d][i] = tx[d][i]
                \/ d = c /\ tx'[d][i] = reply
<1> DEFINE T == [kind : {"pages", "err", "echo", "line"}, of : 0..MaxFrames]
<1>1. tx \in [Conns -> Seq(T)] /\ reply \in T
  BY DEF TypeOK
<1> HIDE DEF T
<1>2. CASE tx' = tx
  BY <1>1, <1>2 DEF T
<1>3. CASE tx' = [tx EXCEPT ![c] = Append(@, reply)]
  <2>1. tx[c] \in Seq(T)
    BY <1>1
  <2>2. /\ Append(tx[c], reply) \in Seq(T)
        /\ \A i \in DOMAIN Append(tx[c], reply) :
             \/ i \in DOMAIN tx[c] /\ Append(tx[c], reply)[i] = tx[c][i]
             \/ Append(tx[c], reply)[i] = reply
    BY <1>1, <2>1, AppendAt
  <2>3. /\ tx'[c] = Append(tx[c], reply)
        /\ \A d \in Conns : d # c => tx'[d] = tx[d]
    BY <1>1, <1>3
  <2>4. tx' \in [Conns -> Seq(T)]
    BY <1>1, <1>3, <2>2
  <2> QED BY <2>2, <2>3, <2>4 DEF T
<1> QED BY <1>2, <1>3 DEF SendAll

-----------------------------------------------------------------------------
(* The semaphore.                                                          *)

LEMMA CallingFinite == IsFiniteSet(Calling) /\ Cardinality(Calling) \in Nat
<1>1. IsFiniteSet(Frames)
  BY Constants, FS_Interval DEF Frames
<1>2. Calling \in SUBSET Frames
  BY DEF Calling
<1> QED BY <1>1, <1>2, FS_Subset, FS_CardinalityType

\* A worker that is calling gives its permit back.
LEMMA PermitBack ==
    ASSUME TypeOK, PermitsConserved, NEW k \in Frames, WorkerAt(k, "call"),
           NEW there \in {"pages", "err", "died"}, WorkerTo(k, there), sem' = sem + 1
    PROVE  PermitsConserved' /\ sem' \in 0..Inflight
<1>1. k \in Calling
  BY DEF Calling
<1>2. Calling' = Calling \ {k}
  BY DEF Calling, WorkerAt, WorkerTo, TypeOK
<1>3. Cardinality(Calling') = Cardinality(Calling) - 1
  BY <1>1, <1>2, CallingFinite, FS_RemoveElement
<1>4. Cardinality(Calling') \in Nat
  BY <1>2, CallingFinite, FS_RemoveElement, FS_CardinalityType
<1> QED BY <1>3, <1>4, CallingFinite, Constants DEF PermitsConserved, TypeOK

LEMMA PermitTaken ==
    ASSUME TypeOK, PermitsConserved, NEW k \in Frames, WorkerAcquires(k)
    PROVE  PermitsConserved' /\ sem' \in 0..Inflight
<1>1. k \notin Calling
  BY DEF WorkerAcquires, Calling, WorkerAt
<1>2. Calling' = Calling \cup {k}
  BY DEF WorkerAcquires, Calling, WorkerAt, WorkerTo, TypeOK
<1>3. Cardinality(Calling') = Cardinality(Calling) + 1
  BY <1>1, <1>2, CallingFinite, FS_AddElement
<1> QED BY <1>3, CallingFinite, Constants DEF WorkerAcquires, PermitsConserved, TypeOK

\* No permit moves while no worker enters or leaves its call.
LEMMA PermitsKept ==
    ASSUME TypeOK, PermitsConserved, sem' = sem,
           \A k \in Frames : worker'[k].pc = "call" <=> worker[k].pc = "call"
    PROVE  PermitsConserved' /\ sem' \in 0..Inflight
<1>1. Calling' = Calling
  BY DEF Calling, WorkerAt
<1> QED BY <1>1 DEF PermitsConserved, TypeOK

LEMMA TypeStep == RInv /\ [Next]_vars => TypeOK'
<1> SUFFICES ASSUME RInv, [Next]_vars PROVE TypeOK'
  OBVIOUS
<1> USE DEF netVars, llmVars, pumpVars
<1>0. TypeOK /\ PermitsConserved /\ WaitingFresh /\ PayloadOwn /\ WorkersOwn
  BY DEF RInv
<1>1. ASSUME NEW c \in Conns, ClientClose(c) PROVE TypeOK'
  BY <1>0, <1>1 DEF ClientClose, TypeOK
<1>2. ASSUME NEW c \in Conns, NEW kind \in Kinds, ClientSend(c, kind) PROVE TypeOK'
  <2> DEFINE R == [id : Frames, kind : Kinds]
  <2>1. Len(from) + 1 \in Frames
    BY <1>0, <1>2, Constants DEF ClientSend, TypeOK, Frames
  <2>2. [id |-> Len(from) + 1, kind |-> kind] \in R
    BY <2>1
  <2>3. rx \in [Conns -> Seq(R)] /\ from \in Seq(Conns)
    BY <1>0 DEF TypeOK
  <2> HIDE DEF R
  <2>4. rx' \in [Conns -> Seq(R)]
    <3>1. Append(rx[c], [id |-> Len(from) + 1, kind |-> kind]) \in Seq(R)
      BY <2>2, <2>3, AppendAt
    <3> QED BY <1>2, <2>3, <3>1 DEF ClientSend
  <2>5. from' \in Seq(Conns) /\ Len(from') <= MaxFrames
    BY <1>2, <2>1, <2>3, Constants DEF ClientSend, Frames
  <2> QED BY <1>0, <1>2, <2>4, <2>5 DEF ClientSend, TypeOK, R
<1>3. CASE Accept
  <2>1. accepted' \in 0..MaxConns
    BY <1>0, <1>3, Constants DEF Accept, TypeOK
  <2>2. /\ handler' \in [Conns -> {"none", "start", "read", "exit", "closed"}]
        /\ up' \in [Conns -> BOOLEAN]
    BY <1>0, <1>3 DEF Accept, TypeOK
  <2> QED BY <1>0, <1>3, <2>1, <2>2 DEF Accept, TypeOK
<1>4. ASSUME NEW c \in Conns, SetActive(c) PROVE TypeOK'
  <2>1. active' \in 0..MaxConns
    BY <1>4, Constants DEF SetActive, Conns
  <2>2. handler' \in [Conns -> {"none", "start", "read", "exit", "closed"}]
    BY <1>0, <1>4 DEF SetActive, TypeOK
  <2> QED BY <1>0, <1>4, <2>1, <2>2 DEF SetActive, TypeOK
<1>5. ASSUME NEW c \in Conns, ReadFrame(c) PROVE TypeOK'
  <2> DEFINE R == [id : Frames, kind : Kinds]
             k == Head(rx[c]).id
  <2>1. rx \in [Conns -> Seq(R)] /\ rx[c] \in Seq(R) /\ rx[c] # <<>>
    BY <1>0, <1>5 DEF ReadFrame, TypeOK
  <2> HIDE DEF R
  <2>2. Tail(rx[c]) \in Seq(R) /\ Head(rx[c]) \in R
    BY <2>1, TailAt
  <2>3. rx' \in [Conns -> Seq(R)]
    BY <1>5, <2>1, <2>2 DEF ReadFrame
  <2>4. k \in Frames
    BY <2>2 DEF R
  <2>5. k \in 0..MaxFrames
    BY <2>4, Constants DEF Frames
  <2>6. CASE Spawn(c, k) /\ UNCHANGED tx
    BY <1>0, <1>5, <2>3, <2>4, <2>5, <2>6 DEF ReadFrame, Spawn, TypeOK, R
  <2>7. CASE SendAll(c, [kind |-> "echo", of |-> k]) /\ UNCHANGED llmVars
    <3>1. [kind |-> "echo", of |-> k] \in
              [kind : {"pages", "err", "echo", "line"}, of : 0..MaxFrames]
      BY <2>5
    <3> QED BY <1>0, <1>5, <2>3, <2>7, <3>1, SendAllType DEF ReadFrame, TypeOK, R
  <2>8. CASE UNCHANGED <<llmVars, tx>>
    BY <1>0, <1>5, <2>3, <2>8 DEF ReadFrame, TypeOK, R
  <2> QED BY <1>5, <2>6, <2>7, <2>8 DEF ReadFrame
<1>6. ASSUME NEW c \in Conns, HandlerExit(c) PROVE TypeOK'
  <2>1. active' \in 0..MaxConns
    BY <1>0, <1>6, Constants DEF HandlerExit, Deregister, TypeOK
  <2>2. handler' \in [Conns -> {"none", "start", "read", "exit", "closed"}]
    BY <1>0, <1>6 DEF HandlerExit, TypeOK
  <2> QED BY <1>0, <1>6, <2>1, <2>2 DEF HandlerExit, TypeOK
<1>7. ASSUME NEW c \in Conns, Shutdown(c) PROVE TypeOK'
  BY <1>0, <1>7 DEF Shutdown, TypeOK
<1>8. ASSUME NEW k \in Frames, WorkerReads(k) PROVE TypeOK'
  <2>1. k \in Sent
    BY <1>0, <1>8 DEF WorkersOwn, WorkerReads, WorkerAt
  <2>2. from[k] \in Conns
    BY <1>0, <2>1 DEF TypeOK, Sent
  <2>3. payload[from[k]] \in 0..MaxFrames
    BY <1>0, <2>2 DEF TypeOK
  <2> QED BY <1>0, <1>8, <2>3 DEF WorkerReads, TypeOK
<1>9. ASSUME NEW k \in Frames, WorkerAcquires(k) PROVE TypeOK'
  <2>1. sem' \in 0..Inflight
    BY <1>0, <1>9, PermitTaken
  <2> QED BY <1>0, <1>9, <2>1 DEF WorkerAcquires, WorkerTo, TypeOK
<1>10. ASSUME NEW k \in Frames, NEW there \in {"pages", "err", "died"},
              WorkerAt(k, "call"), WorkerTo(k, there), sem' = sem + 1,
              UNCHANGED <<netVars, handler, rx, active, payload, tx, pumpVars>>
       PROVE  TypeOK'
  <2>1. sem' \in 0..Inflight
    BY <1>0, <1>10, PermitBack
  <2> QED BY <1>0, <1>10, <2>1 DEF WorkerTo, TypeOK
<1>11. ASSUME NEW k \in Frames, CallReturns(k) \/ CallFails(k) \/ CallDies(k) PROVE TypeOK'
  BY <1>10, <1>11 DEF CallReturns, CallFails, CallDies
<1>12. ASSUME NEW k \in Frames, WorkerSends(k) PROVE TypeOK'
  <2>1. from[k] \in Conns
    <3>1. k \in Sent
      BY <1>0, <1>12 DEF WorkersOwn, WorkerSends
    <3> QED BY <1>0, <3>1 DEF TypeOK, Sent
  <2>2. [kind |-> worker[k].pc, of |-> worker[k].text]
            \in [kind : {"pages", "err", "echo", "line"}, of : 0..MaxFrames]
    BY <1>0, <1>12 DEF WorkerSends, TypeOK
  <2>3. tx' \in [Conns -> Seq([kind : {"pages", "err", "echo", "line"}, of : 0..MaxFrames])]
    BY <1>0, <1>12, <2>1, <2>2, SendAllType DEF WorkerSends
  <2> QED BY <1>0, <1>12, <2>3 DEF WorkerSends, WorkerTo, TypeOK
<1>13. CASE PumpReads
  <2>1. lines' \in 0..MaxLines /\ pump' \in -1..MaxConns
    BY <1>0, <1>13, Constants DEF PumpReads, TypeOK
  <2> QED BY <1>0, <1>13, <2>1 DEF PumpReads, TypeOK
<1>14. CASE PumpSends
  <2>3. pump' \in -1..MaxConns
    BY <1>14, Constants DEF PumpSends
  <2>1. CASE pump = 0 /\ UNCHANGED tx
    BY <1>0, <1>14, <2>1, <2>3 DEF PumpSends, TypeOK
  <2>2. CASE pump # 0 /\ SendAll(pump, [kind |-> "line", of |-> 0])
    <3>1. pump \in Conns
      BY <1>0, <1>14, <2>2, Constants DEF PumpSends, TypeOK, Conns
    <3>2. [kind |-> "line", of |-> 0] \in
              [kind : {"pages", "err", "echo", "line"}, of : 0..MaxFrames]
      BY Constants
    <3>3. tx' \in [Conns -> Seq([kind : {"pages", "err", "echo", "line"}, of : 0..MaxFrames])]
      BY <1>0, <2>2, <3>1, <3>2, SendAllType
    <3> QED BY <1>0, <1>14, <2>3, <3>3 DEF PumpSends, TypeOK
  <2> QED BY <1>14, <2>1, <2>2 DEF PumpSends
<1>15. CASE UNCHANGED vars
  BY <1>0, <1>15 DEF vars, TypeOK
<1> QED
  BY <1>1, <1>2, <1>3, <1>4, <1>5, <1>6, <1>7, <1>8, <1>9, <1>11, <1>12, <1>13, <1>14, <1>15
  DEF Next, Client, Handler, Worker

-----------------------------------------------------------------------------
(* What a step does to the frames sent, the workers and the payloads.      *)

\* Frames keep their number and their connection.
LEMMA FromKept ==
    ASSUME TypeOK, [Next]_vars
    PROVE  /\ Sent \subseteq Sent'
           /\ \A k \in Sent : from'[k] = from[k] /\ from[k] \in Conns /\ k \in Frames
<1> USE DEF netVars, llmVars, pumpVars
<1>1. from \in Seq(Conns) /\ Len(from) <= MaxFrames /\ MaxFrames \in Nat
  BY Constants DEF TypeOK
<1>2. CASE from' = from
  BY <1>1, <1>2 DEF Sent, Frames
<1>3. ASSUME NEW c \in Conns, from' = Append(from, c)
       PROVE  /\ Sent \subseteq Sent'
              /\ \A k \in Sent : from'[k] = from[k] /\ from[k] \in Conns /\ k \in Frames
  BY <1>1, <1>3 DEF Sent, Frames
<1> QED
  BY <1>2, <1>3 DEF Next, Client, ClientSend, ClientClose, Accept, Handler, SetActive, ReadFrame,
     HandlerExit, Shutdown, Worker, WorkerReads, WorkerAcquires, CallReturns, CallFails,
     CallDies, WorkerSends, PumpReads, PumpSends, vars

\* The frame read was sent on this connection and has no thread; `payload` holds an
\* earlier one.
LEMMA HeadFresh ==
    ASSUME RInv, NEW c \in Conns, ReadFrame(c)
    PROVE  LET k == Head(rx[c]).id
           IN  /\ k \in Frames /\ k \in Sent /\ from[k] = c
               /\ worker[k].pc = "none" /\ payload[c] < k
               /\ \A i \in DOMAIN rx'[c] : k < rx'[c][i].id
               /\ \A d \in Conns : \A i \in DOMAIN rx'[d] :
                    \E j \in DOMAIN rx[d] : rx'[d][i] = rx[d][j]
               /\ \A d \in Conns : \A i, j \in DOMAIN rx'[d] :
                    i < j => rx'[d][i].id < rx'[d][j].id
<1> DEFINE R == [id : Frames, kind : Kinds]
           k == Head(rx[c]).id
<1>1. rx \in [Conns -> Seq(R)] /\ rx[c] \in Seq(R) /\ rx[c] # <<>> /\ WaitingFresh
  BY DEF ReadFrame, TypeOK, RInv
<1>2. rx' = [rx EXCEPT ![c] = Tail(@)]
  BY DEF ReadFrame
<1> DEFINE t == Tail(rx[c])
<1> HIDE DEF R
<1>4. /\ Head(rx[c]) = rx[c][1] /\ 1 \in DOMAIN rx[c] /\ Head(rx[c]) \in R
      /\ \A i \in DOMAIN t :
            i + 1 \in DOMAIN rx[c] /\ t[i] = rx[c][i + 1] /\ i \in Nat \ {0}
  BY <1>1, TailAt
<1>5. /\ rx'[c] = t
      /\ \A d \in Conns : d # c => rx'[d] = rx[d]
  BY <1>1, <1>2
<1> HIDE DEF t
<1>6. k \in Frames
  BY <1>4 DEF R
<1>7. k \in Sent /\ from[k] = c /\ worker[k].pc = "none" /\ payload[c] < k
  <2>1. k = rx[c][1].id /\ 1 \in DOMAIN rx[c]
    BY <1>4
  <2> HIDE DEF k
  <2> QED BY <1>1, <2>1 DEF WaitingFresh
<1>8. \A i \in DOMAIN rx'[c] : k < rx'[c][i].id
  <2> SUFFICES ASSUME NEW i \in DOMAIN t PROVE k < t[i].id
    BY <1>5
  <2>1. i + 1 \in DOMAIN rx[c] /\ t[i] = rx[c][i + 1] /\ 1 < i + 1
    BY <1>4
  <2>2. k = rx[c][1].id /\ 1 \in DOMAIN rx[c]
    BY <1>4
  <2> HIDE DEF k
  <2> QED BY <1>1, <2>1, <2>2 DEF WaitingFresh
<1>9. \A d \in Conns : \A i \in DOMAIN rx'[d] : \E j \in DOMAIN rx[d] : rx'[d][i] = rx[d][j]
  BY <1>4, <1>5
<1>10. \A d \in Conns : \A i, j \in DOMAIN rx'[d] : i < j => rx'[d][i].id < rx'[d][j].id
  <2> SUFFICES ASSUME NEW d \in Conns, NEW i \in DOMAIN rx'[d], NEW j \in DOMAIN rx'[d], i < j
               PROVE  rx'[d][i].id < rx'[d][j].id
    OBVIOUS
  <2>1. CASE d # c
    BY <1>1, <1>5, <2>1 DEF WaitingFresh
  <2>2. CASE d = c
    <3>1. /\ i + 1 \in DOMAIN rx[c] /\ t[i] = rx[c][i + 1]
          /\ j + 1 \in DOMAIN rx[c] /\ t[j] = rx[c][j + 1] /\ i + 1 < j + 1
      BY <1>4, <1>5, <2>2
    <3> QED BY <1>1, <1>5, <2>2, <3>1 DEF WaitingFresh
  <2> QED BY <2>1, <2>2
<1> QED BY <1>6, <1>7, <1>8, <1>9, <1>10

\* `payload` of a connection grows, and holds a frame read on it.
LEMMA PayloadStep ==
    ASSUME RInv, [Next]_vars
    PROVE  /\ PayloadOwn'
           /\ \A c \in Conns : payload[c] <= payload'[c]
<1> USE DEF netVars, llmVars, pumpVars
<1>1. TypeOK /\ PayloadOwn
  BY DEF RInv
<1>2. payload \in [Conns -> 0..MaxFrames] /\ MaxFrames \in Nat
  BY <1>1, Constants DEF TypeOK
<1>3. /\ Sent \subseteq Sent'
      /\ \A k \in Sent : from'[k] = from[k]
  BY <1>1, FromKept
<1>4. CASE payload' = payload
  BY <1>1, <1>2, <1>3, <1>4 DEF PayloadOwn
<1>5. ASSUME NEW c \in Conns, ReadFrame(c), payload' = [payload EXCEPT ![c] = Head(rx[c]).id]
      PROVE  /\ PayloadOwn'
             /\ \A d \in Conns : payload[d] <= payload'[d]
  <2> DEFINE k == Head(rx[c]).id
  <2>1. k \in Frames /\ k \in Sent /\ from[k] = c /\ payload[c] < k
    BY <1>5, HeadFresh
  <2> HIDE DEF k
  <2>2. /\ payload'[c] = k
        /\ \A d \in Conns : d # c => payload'[d] = payload[d]
    BY <1>2, <1>5 DEF k
  <2>3. \A d \in Conns : payload[d] <= payload'[d]
    BY <1>2, <2>1, <2>2 DEF Frames
  <2> QED BY <1>1, <1>3, <2>1, <2>2, <2>3 DEF PayloadOwn
<1> QED
  BY <1>4, <1>5 DEF Next, Client, ClientSend, ClientClose, Accept, Handler, SetActive, ReadFrame,
     Spawn, HandlerExit, Shutdown, Worker, WorkerReads, WorkerAcquires, CallReturns, CallFails,
     CallDies, WorkerSends, PumpReads, PumpSends, vars

-----------------------------------------------------------------------------
(* Every part of the invariant is kept by every step.                      *)

LEMMA WaitingStep == RInv /\ [Next]_vars => WaitingFresh'
<1> SUFFICES ASSUME RInv, [Next]_vars PROVE WaitingFresh'
  OBVIOUS
<1> USE DEF netVars, llmVars, pumpVars
<1>0. TypeOK /\ WaitingFresh /\ PayloadOwn /\ WorkersOwn
  BY DEF RInv
<1>1. /\ Sent \subseteq Sent'
      /\ \A k \in Sent : from'[k] = from[k] /\ from[k] \in Conns /\ k \in Frames
  BY <1>0, FromKept
<1>2. worker \in [Frames -> [pc : {"none", "new", "wait", "call", "pages", "err",
                                   "done", "died"}, text : 0..MaxFrames]]
  BY <1>0 DEF TypeOK
<1>3. ASSUME NEW c \in Conns, NEW kind \in Kinds, ClientSend(c, kind) PROVE WaitingFresh'
  <2> DEFINE R == [id : Frames, kind : Kinds]
             n == Len(from) + 1
             e == [id |-> n, kind |-> kind]
  <2>1. /\ from \in Seq(Conns) /\ Len(from) \in Nat /\ n \in Frames
        /\ from' = Append(from, c) /\ n \in Sent' /\ from'[n] = c
        /\ \A k \in Sent : k < n
    BY <1>0, <1>3, Constants DEF ClientSend, TypeOK, Frames, Sent
  <2>2. e \in R /\ e.id = n
    BY <2>1
  <2>3. rx \in [Conns -> Seq(R)] /\ rx[c] \in Seq(R)
    BY <1>0 DEF TypeOK
  <2>4. worker[n].pc = "none" /\ n \notin Sent
    BY <1>0, <2>1 DEF WorkersOwn
  <2>5. payload[c] < n /\ payload' = payload /\ worker' = worker
    BY <1>0, <1>3, <2>1, Constants DEF PayloadOwn, ClientSend, TypeOK
  <2> HIDE DEF R, n, e
  <2>6. /\ rx'[c] = Append(rx[c], e)
        /\ \A d \in Conns : d # c => rx'[d] = rx[d]
    BY <1>3, <2>3 DEF ClientSend, e, n
  <2>7. /\ DOMAIN rx'[c] = 1..(Len(rx[c]) + 1) /\ DOMAIN rx[c] = 1..Len(rx[c])
        /\ Len(rx[c]) \in Nat /\ rx'[c][Len(rx[c]) + 1] = e
        /\ \A i \in DOMAIN rx[c] : rx'[c][i] = rx[c][i]
    BY <2>2, <2>3, <2>6
  <2>8. ASSUME NEW d \in Conns, d # c PROVE
           \A i \in DOMAIN rx'[d] :
              /\ rx'[d][i].id \in Sent' /\ from'[rx'[d][i].id] = d
              /\ worker'[rx'[d][i].id].pc = "none" /\ payload'[d] < rx'[d][i].id
              /\ \A j \in DOMAIN rx'[d] : i < j => rx'[d][i].id < rx'[d][j].id
    BY <1>0, <1>1, <2>5, <2>6, <2>8 DEF WaitingFresh
  <2>9. ASSUME NEW i \in DOMAIN rx'[c] PROVE
              /\ rx'[c][i].id \in Sent' /\ from'[rx'[c][i].id] = c
              /\ worker'[rx'[c][i].id].pc = "none" /\ payload'[c] < rx'[c][i].id
              /\ \A j \in DOMAIN rx'[c] : i < j => rx'[c][i].id < rx'[c][j].id
    <3>1. CASE i \in DOMAIN rx[c]
      <4>1. /\ rx'[c][i].id \in Sent /\ from[rx'[c][i].id] = c
            /\ worker[rx'[c][i].id].pc = "none" /\ payload[c] < rx'[c][i].id
        BY <1>0, <2>7, <3>1 DEF WaitingFresh
      <4>2. ASSUME NEW j \in DOMAIN rx'[c], i < j PROVE rx'[c][i].id < rx'[c][j].id
        <5>1. CASE j \in DOMAIN rx[c]
          BY <1>0, <2>7, <3>1, <4>2, <5>1 DEF WaitingFresh
        <5>2. CASE j = Len(rx[c]) + 1
          BY <2>1, <2>2, <2>7, <4>1, <5>2
        <5> QED BY <2>7, <5>1, <5>2
      <4> QED BY <1>1, <2>5, <4>1, <4>2
    <3>2. CASE i = Len(rx[c]) + 1
      <4>1. rx'[c][i].id = n /\ \A j \in DOMAIN rx'[c] : ~(i < j)
        BY <2>2, <2>7, <3>2
      <4> QED BY <2>1, <2>4, <2>5, <4>1
    <3> QED BY <2>7, <3>1, <3>2
  <2> QED BY <2>8, <2>9 DEF WaitingFresh
<1>4. ASSUME NEW c \in Conns, ReadFrame(c) PROVE WaitingFresh'
  <2> DEFINE k == Head(rx[c]).id
  <2>1. /\ k \in Frames /\ k \in Sent /\ from[k] = c
        /\ \A i \in DOMAIN rx'[c] : k < rx'[c][i].id
        /\ \A d \in Conns : \A i \in DOMAIN rx'[d] : \E j \in DOMAIN rx[d] : rx'[d][i] = rx[d][j]
        /\ \A d \in Conns : \A i, j \in DOMAIN rx'[d] : i < j => rx'[d][i].id < rx'[d][j].id
    BY <1>4, HeadFresh
  <2>2. /\ from' = from
        /\ \/ payload' = payload /\ worker' = worker
           \/ /\ payload' = [payload EXCEPT ![c] = k]
              /\ worker' = [worker EXCEPT ![k].pc = "new"]
    BY <1>4 DEF ReadFrame, Spawn
  <2> HIDE DEF k
  <2>3. /\ payload'[c] = payload[c] \/ payload'[c] = k
        /\ \A d \in Conns : d # c => payload'[d] = payload[d]
        /\ \A m \in Frames : m # k => worker'[m] = worker[m]
    BY <1>0, <1>2, <2>1, <2>2 DEF TypeOK
  <2> SUFFICES ASSUME NEW d \in Conns, NEW i \in DOMAIN rx'[d] PROVE
           /\ rx'[d][i].id \in Sent' /\ from'[rx'[d][i].id] = d
           /\ worker'[rx'[d][i].id].pc = "none" /\ payload'[d] < rx'[d][i].id
           /\ \A j \in DOMAIN rx'[d] : i < j => rx'[d][i].id < rx'[d][j].id
    BY DEF WaitingFresh
  <2>4. PICK j \in DOMAIN rx[d] : rx'[d][i] = rx[d][j]
    BY <2>1
  <2>5. /\ rx'[d][i].id \in Sent /\ from[rx'[d][i].id] = d
        /\ worker[rx'[d][i].id].pc = "none" /\ payload[d] < rx'[d][i].id
    BY <1>0, <2>4 DEF WaitingFresh
  <2>6. rx'[d][i].id # k
    BY <2>1, <2>5 DEF Frames
  <2>7. worker'[rx'[d][i].id].pc = "none" /\ payload'[d] < rx'[d][i].id
    BY <1>1, <2>1, <2>3, <2>5, <2>6
  <2> QED BY <1>1, <2>1, <2>5, <2>7
<1>5. ASSUME UNCHANGED <<rx, payload>>,
             \A k \in Frames : worker[k].pc = "none" => worker'[k].pc = "none"
      PROVE  WaitingFresh'
  BY <1>0, <1>1, <1>5 DEF WaitingFresh
<1>6. ASSUME NEW k \in Frames, Worker(k) PROVE WaitingFresh'
  <2>1. UNCHANGED <<rx, payload>> /\ worker[k].pc # "none"
    BY <1>6 DEF Worker, WorkerReads, WorkerAcquires, CallReturns, CallFails, CallDies, WorkerSends,
       WorkerAt
  <2>2. \A m \in Frames : m # k => worker'[m] = worker[m]
    BY <1>2, <1>6 DEF Worker, WorkerReads, WorkerAcquires, CallReturns, CallFails, CallDies,
       WorkerSends, WorkerTo
  <2> QED BY <1>5, <2>1, <2>2
<1>7. CASE UNCHANGED <<rx, payload, worker>>
  BY <1>5, <1>7
<1> QED
  BY <1>3, <1>4, <1>6, <1>7 DEF Next, Client, ClientClose, Accept, Handler, SetActive,
     HandlerExit, Shutdown, PumpReads, PumpSends, vars

LEMMA WorkersStep == RInv /\ [Next]_vars => WorkersOwn'
<1> SUFFICES ASSUME RInv, [Next]_vars PROVE WorkersOwn'
  OBVIOUS
<1> USE DEF netVars, llmVars, pumpVars
<1>0. TypeOK /\ PayloadOwn /\ WorkersOwn
  BY DEF RInv
<1>1. /\ Sent \subseteq Sent'
      /\ \A k \in Sent : from'[k] = from[k] /\ from[k] \in Conns /\ k \in Frames
  BY <1>0, FromKept
<1>2. /\ worker \in [Frames -> [pc : {"none", "new", "wait", "call", "pages", "err",
                                      "done", "died"}, text : 0..MaxFrames]]
      /\ payload \in [Conns -> 0..MaxFrames] /\ MaxFrames \in Nat
  BY <1>0, Constants DEF TypeOK
<1>3. \A c \in Conns : payload[c] <= payload'[c] /\ payload'[c] \in Int
  <2>1. TypeOK'
    BY TypeStep
  <2> QED BY <2>1, Constants, PayloadStep DEF TypeOK
<1> DEFINE Own(k) ==
        worker[k].pc # "none" =>
          /\ k \in Sent /\ k <= payload[from[k]]
          /\ Started(k) => /\ worker[k].text \in Sent /\ k <= worker[k].text
                           /\ from[worker[k].text] = from[k]
\* A worker that does not move, or moves on, owns what it owned.
<1>4. ASSUME NEW k \in Frames, worker[k].pc # "none",
             \/ worker'[k] = worker[k]
             \/ Started(k) /\ worker'[k].text = worker[k].text
      PROVE  Own(k)'
  <2>1. k \in Sent /\ k <= payload[from[k]]
    BY <1>0, <1>4 DEF WorkersOwn
  <2>2. k \in Sent' /\ k <= payload'[from'[k]]
    BY <1>1, <1>2, <1>3, <2>1 DEF Frames
  <2>3. ASSUME Started(k)' PROVE worker'[k].text \in Sent' /\ k <= worker'[k].text
                                 /\ from'[worker'[k].text] = from'[k]
    <3>1. worker'[k].text = worker[k].text /\ Started(k)
      BY <1>4, <2>3 DEF Started
    <3> QED BY <1>0, <1>1, <2>1, <3>1 DEF WorkersOwn, Started
  <2> QED BY <2>2, <2>3
<1>5. ASSUME NEW k \in Frames, worker[k].pc = "none", worker'[k] = worker[k] PROVE Own(k)'
  BY <1>5
<1>6. CASE worker' = worker
  BY <1>4, <1>5, <1>6 DEF WorkersOwn
<1>7. ASSUME NEW c \in Conns, NEW n \in Frames, n = Head(rx[c]).id, ReadFrame(c),
             worker' = [worker EXCEPT ![n].pc = "new"], payload' = [payload EXCEPT ![c] = n]
      PROVE  WorkersOwn'
  <2>1. n \in Frames /\ n \in Sent /\ from[n] = c /\ worker[n].pc = "none"
    BY <1>7, HeadFresh
  <2>2. /\ worker'[n].pc = "new" /\ payload'[c] = n
        /\ \A k \in Frames : k # n => worker'[k] = worker[k]
    BY <1>2, <1>7, <2>1
  <2>3. Own(n)'
    <3>1. n \in Sent' /\ from'[n] = c /\ n <= n
      BY <1>1, <1>2, <2>1 DEF Frames
    <3>2. ~Started(n)'
      BY <2>2 DEF Started
    <3> QED BY <2>2, <3>1, <3>2
  <2>4. ASSUME NEW k \in Frames PROVE Own(k)'
    BY <1>4, <1>5, <2>2, <2>3
  <2> QED BY <2>4 DEF WorkersOwn
<1>8. ASSUME NEW n \in Frames, WorkerReads(n) PROVE WorkersOwn'
  <2>1. n \in Sent /\ n <= payload[from[n]]
    BY <1>0, <1>8 DEF WorkersOwn, WorkerReads, WorkerAt
  <2>2. from' = from /\ payload' = payload
    BY <1>8 DEF WorkerReads
  <2>3. /\ worker'[n] = [pc |-> "wait", text |-> payload[from[n]]]
        /\ \A k \in Frames : k # n => worker'[k] = worker[k]
    BY <1>2, <1>8 DEF WorkerReads
  <2>4. payload[from[n]] \in Sent /\ from[payload[from[n]]] = from[n]
    BY <1>0, <1>1, <1>2, <2>1 DEF PayloadOwn, Frames
  <2>5. Own(n)'
    BY <1>1, <2>1, <2>2, <2>3, <2>4
  <2> QED BY <1>4, <1>5, <2>3, <2>5 DEF WorkersOwn
<1>9. ASSUME NEW n \in Frames, Started(n), NEW there, WorkerTo(n, there) PROVE WorkersOwn'
  <2>1. /\ worker'[n].text = worker[n].text /\ worker[n].pc # "none"
        /\ \A k \in Frames : k # n => worker'[k] = worker[k]
    BY <1>2, <1>9 DEF WorkerTo, Started
  <2> QED BY <1>4, <1>5, <1>9, <2>1 DEF WorkersOwn
<1>10. ASSUME NEW n \in Frames, Worker(n) PROVE WorkersOwn'
  BY <1>8, <1>9, <1>10 DEF Worker, WorkerAcquires, CallReturns, CallFails, CallDies, WorkerSends,
     WorkerAt, Started
<1>11. ASSUME NEW c \in Conns, ReadFrame(c) PROVE WorkersOwn'
  <2>1. PICK n \in Frames : n = Head(rx[c]).id
    BY <1>11, HeadFresh
  <2> QED BY <1>6, <1>7, <1>11, <2>1 DEF ReadFrame, Spawn
<1> QED
  BY <1>6, <1>10, <1>11 DEF Next, Client, ClientSend, ClientClose, Accept, Handler, SetActive,
     HandlerExit, Shutdown, PumpReads, PumpSends, vars

LEMMA AnswersStep == RInv /\ [Next]_vars => AnswersOwn'
<1> SUFFICES ASSUME RInv, [Next]_vars PROVE AnswersOwn'
  OBVIOUS
<1> USE DEF netVars, llmVars, pumpVars
<1>0. TypeOK /\ WorkersOwn /\ AnswersOwn
  BY DEF RInv
<1>1. /\ Sent \subseteq Sent'
      /\ \A k \in Sent : from'[k] = from[k] /\ from[k] \in Conns /\ k \in Frames
  BY <1>0, FromKept
<1>2. CASE tx' = tx
  BY <1>0, <1>1, <1>2 DEF AnswersOwn
<1>3. ASSUME NEW c \in Conns, NEW kind \in {"pages", "err", "echo", "line"}, NEW k \in 0..MaxFrames,
             SendAll(c, [kind |-> kind, of |-> k]), kind # "line" => k \in Sent /\ from[k] = c
      PROVE  AnswersOwn'
  <2> DEFINE reply == [kind |-> kind, of |-> k]
  <2>1. reply \in [kind : {"pages", "err", "echo", "line"}, of : 0..MaxFrames]
    OBVIOUS
  <2>2. \A d \in Conns : \A i \in DOMAIN tx'[d] :
           \/ i \in DOMAIN tx[d] /\ tx'[d][i] = tx[d][i]
           \/ d = c /\ tx'[d][i] = reply
    BY <1>0, <1>3, <2>1, SendAllType
  <2>3. reply.kind = kind /\ reply.of = k
    OBVIOUS
  <2> HIDE DEF reply
  <2> QED BY <1>0, <1>1, <1>3, <2>2, <2>3 DEF AnswersOwn
<1>4. ASSUME NEW c \in Conns, ReadFrame(c) PROVE AnswersOwn'
  <2>1. Head(rx[c]).id \in Sent /\ from[Head(rx[c]).id] = c /\ Head(rx[c]).id \in Frames
    BY <1>4, HeadFresh
  <2>2. Head(rx[c]).id \in 0..MaxFrames
    BY <2>1, Constants DEF Frames
  <2>3. tx' = tx \/ SendAll(c, [kind |-> "echo", of |-> Head(rx[c]).id])
    BY <1>4 DEF ReadFrame
  <2> QED BY <1>2, <1>3, <2>1, <2>2, <2>3
<1>5. ASSUME NEW k \in Frames, WorkerSends(k) PROVE AnswersOwn'
  <2>1. /\ k \in Sent /\ worker[k].text \in Sent /\ from[worker[k].text] = from[k]
        /\ worker[k].pc \in {"pages", "err"}
    BY <1>0, <1>5 DEF WorkersOwn, WorkerSends, Started
  <2>2. from[k] \in Conns
    BY <1>1, <2>1
  <2>4. worker[k].text \in 0..MaxFrames
    BY <1>0 DEF TypeOK
  <2>3. SendAll(from[k], [kind |-> worker[k].pc, of |-> worker[k].text])
    BY <1>5 DEF WorkerSends
  <2> QED BY <1>3, <2>1, <2>2, <2>3, <2>4
<1>6. CASE PumpSends
  <2>1. CASE pump = 0 /\ UNCHANGED tx
    BY <1>2, <2>1
  <2>2. CASE pump # 0 /\ SendAll(pump, [kind |-> "line", of |-> 0])
    <3>1. pump \in Conns
      BY <1>0, <1>6, <2>2, Constants DEF PumpSends, TypeOK, Conns
    <3>2. 0 \in 0..MaxFrames
      BY Constants
    <3> QED BY <1>3, <2>2, <3>1, <3>2
  <2> QED BY <1>6, <2>1, <2>2 DEF PumpSends
<1> QED
  BY <1>2, <1>4, <1>5, <1>6 DEF Next, Client, ClientSend, ClientClose, Accept, Handler, SetActive,
     HandlerExit, Shutdown, Worker, WorkerReads, WorkerAcquires, CallReturns, CallFails,
     CallDies, PumpReads, vars

LEMMA PermitsStep == RInv /\ [Next]_vars => PermitsConserved'
<1> SUFFICES ASSUME RInv, [Next]_vars PROVE PermitsConserved'
  OBVIOUS
<1> USE DEF netVars, llmVars, pumpVars
<1>0. TypeOK /\ PermitsConserved
  BY DEF RInv
<1>1. worker \in [Frames -> [pc : {"none", "new", "wait", "call", "pages", "err",
                                   "done", "died"}, text : 0..MaxFrames]]
  BY <1>0 DEF TypeOK
<1>2. CASE UNCHANGED <<worker, sem>>
  BY <1>0, <1>2, PermitsKept
<1>3. ASSUME NEW c \in Conns, ReadFrame(c) PROVE PermitsConserved'
  <2>1. PICK n \in Frames : n = Head(rx[c]).id /\ worker[n].pc = "none"
    BY <1>3, HeadFresh
  <2>2. CASE worker' = [worker EXCEPT ![n].pc = "new"] /\ sem' = sem
    <3>1. \A k \in Frames : worker'[k].pc = "call" <=> worker[k].pc = "call"
      BY <1>1, <2>1, <2>2
    <3> QED BY <1>0, <2>2, <3>1, PermitsKept
  <2> QED BY <1>2, <1>3, <2>1, <2>2 DEF ReadFrame, Spawn
<1>4. ASSUME NEW n \in Frames, WorkerReads(n) \/ WorkerSends(n) PROVE PermitsConserved'
  <2>1. sem' = sem /\ \A k \in Frames : worker'[k].pc = "call" <=> worker[k].pc = "call"
    BY <1>1, <1>4 DEF WorkerReads, WorkerSends, WorkerAt, WorkerTo
  <2> QED BY <1>0, <2>1, PermitsKept
<1>5. ASSUME NEW n \in Frames, WorkerAcquires(n) PROVE PermitsConserved'
  BY <1>0, <1>5, PermitTaken
<1>6. ASSUME NEW n \in Frames, CallReturns(n) \/ CallFails(n) \/ CallDies(n) PROVE PermitsConserved'
  BY <1>0, <1>6, PermitBack DEF CallReturns, CallFails, CallDies
<1> QED
  BY <1>2, <1>3, <1>4, <1>5, <1>6 DEF Next, Client, ClientSend, ClientClose, Accept, Handler,
     SetActive, HandlerExit, Shutdown, Worker, PumpReads, PumpSends, vars

LEMMA HandlersStep == RInv /\ [Next]_vars => NotYetAccepted' /\ ActiveReads'
<1> SUFFICES ASSUME RInv, [Next]_vars PROVE NotYetAccepted' /\ ActiveReads'
  OBVIOUS
<1> USE DEF netVars, llmVars, pumpVars
<1>0. NotYetAccepted /\ ActiveReads
  BY DEF RInv
<1>1. /\ handler \in [Conns -> {"none", "start", "read", "exit", "closed"}]
      /\ active \in 0..MaxConns /\ accepted \in 0..MaxConns /\ MaxConns \in Nat
  BY Constants DEF RInv, TypeOK
<1>2. active # 0 => active \in Conns
  BY <1>1 DEF Conns
<1>3. CASE Accept
  <2>1. accepted + 1 \in Conns /\ accepted' = accepted + 1 /\ active' = active
    BY <1>1, <1>3 DEF Accept, Conns
  <2>2. handler[accepted + 1] = "none"
    BY <1>0, <1>1, <2>1 DEF NotYetAccepted
  <2>3. \A c \in Conns : c # accepted + 1 => handler'[c] = handler[c]
    BY <1>1, <1>3 DEF Accept
  <2>4. NotYetAccepted'
    BY <1>0, <1>1, <2>1, <2>3 DEF NotYetAccepted, Conns
  <2> QED BY <1>0, <1>2, <2>1, <2>2, <2>3, <2>4 DEF ActiveReads
<1>4. ASSUME NEW c \in Conns, handler[c] # "none", accepted' = accepted,
             \A d \in Conns : d # c => handler'[d] = handler[d],
             IF active' = c THEN handler'[c] = "read"
             ELSE active' = 0 \/ active' = active
      PROVE  NotYetAccepted' /\ ActiveReads'
  BY <1>0, <1>2, <1>4 DEF NotYetAccepted, ActiveReads
<1>5. ASSUME NEW c \in Conns, SetActive(c) \/ HandlerExit(c) \/ Shutdown(c)
      PROVE  NotYetAccepted' /\ ActiveReads'
  <2>1. c # 0 /\ handler[c] # "none" /\ \A d \in Conns : d # c => handler'[d] = handler[d]
    BY <1>1, <1>5 DEF SetActive, HandlerExit, Shutdown, Conns
  <2>2. CASE SetActive(c)
    BY <1>1, <1>4, <2>1, <2>2 DEF SetActive
  <2>3. CASE HandlerExit(c)
    BY <1>1, <1>4, <2>1, <2>3 DEF HandlerExit, Deregister
  <2>4. CASE Shutdown(c)
    BY <1>0, <1>1, <1>4, <2>1, <2>4 DEF Shutdown, ActiveReads
  <2> QED BY <1>5, <2>2, <2>3, <2>4
<1>6. CASE UNCHANGED <<handler, accepted, active>>
  BY <1>0, <1>6 DEF NotYetAccepted, ActiveReads
<1> QED
  BY <1>3, <1>5, <1>6 DEF Next, Client, ClientSend, ClientClose, Handler, ReadFrame, Worker,
     WorkerReads, WorkerAcquires, CallReturns, CallFails, CallDies, WorkerSends, PumpReads,
     PumpSends, vars

-----------------------------------------------------------------------------
(* The theorems.                                                           *)

LEMMA InitInv == Init => RInv
<1> SUFFICES ASSUME Init PROVE RInv
  OBVIOUS
<1>1. TypeOK
  BY InitType
<1>2. Calling = {}
  BY DEF Init, Calling, WorkerAt
<1>3. PermitsConserved
  BY <1>2, Constants, FS_EmptySet DEF Init, PermitsConserved
<1>4. /\ \A c \in Conns : rx[c] = <<>> /\ tx[c] = <<>> /\ payload[c] = 0 /\ handler[c] = "none"
      /\ \A k \in Frames : worker[k].pc = "none"
      /\ active = 0
  BY DEF Init
<1>5. NotYetAccepted /\ WaitingFresh /\ PayloadOwn /\ WorkersOwn /\ AnswersOwn /\ ActiveReads
  BY <1>4 DEF NotYetAccepted, WaitingFresh, PayloadOwn, WorkersOwn, AnswersOwn, ActiveReads
<1> QED BY <1>1, <1>3, <1>5 DEF RInv

LEMMA InvStep == RInv /\ [Next]_vars => RInv'
BY TypeStep, HandlersStep, WaitingStep, PayloadStep, WorkersStep, AnswersStep, PermitsStep DEF RInv

LEMMA InvAlways == Spec => []RInv
BY InitInv, InvStep, PTL DEF Spec

\* TypeOK holds of every relay, whatever it is started with.
THEOREM RelayTypeCorrect == Spec => []TypeOK
<1>1. RInv => TypeOK
  BY DEF RInv
<1> QED BY InvAlways, <1>1, PTL

\* AnswersThisClient: however many workers of however many connections race on
\* `payload`, no client receives an answer to a frame of another.
THEOREM AnswersAlwaysThisClient == Spec => []AnswersThisClient
<1>1. RInv => AnswersThisClient
  BY DEF RInv, WorkersOwn, AnswersOwn, AnswersThisClient, Started
<1> QED BY InvAlways, <1>1, PTL

\* PermitsConserved, for any number of permits and frames: no way for a model call to
\* end loses a permit or makes one.
THEOREM PermitsAlwaysConserved == Spec => []PermitsConserved
<1>1. RInv => PermitsConserved
  BY DEF RInv
<1> QED BY InvAlways, <1>1, PTL

\* A registration is lost to the own exit of the handler, or to one that arrives.
LEMMA ActiveStep ==
    RInv /\ [Next]_vars =>
        (active # 0 /\ active' # active =>
            \/ handler[active] = "read" /\ handler'[active] = "exit"
            \/ active' # 0 /\ handler[active'] = "start")
<1> SUFFICES ASSUME RInv, [Next]_vars, active # 0, active' # active
             PROVE  \/ handler[active] = "read" /\ handler'[active] = "exit"
                    \/ active' # 0 /\ handler[active'] = "start"
  OBVIOUS
<1> USE DEF netVars, llmVars, pumpVars
<1>1. PICK c \in Conns : SetActive(c) \/ HandlerExit(c)
  BY DEF Next, Client, ClientSend, ClientClose, Accept, Handler, ReadFrame, Shutdown, Worker,
     WorkerReads, WorkerAcquires, CallReturns, CallFails, CallDies, WorkerSends, PumpReads,
     PumpSends, vars
<1>2. CASE SetActive(c)
  BY <1>2 DEF SetActive, Conns
<1>3. CASE HandlerExit(c)
  BY <1>3 DEF HandlerExit, Deregister, RInv, TypeOK
<1> QED BY <1>1, <1>2, <1>3

\* ActiveServed: whatever the order in which handlers start, end and register, the
\* active client is one that is being read from.
THEOREM ActiveAlwaysServed == Spec => ActiveServed
<1>1. RInv => (active # 0 => handler[active] = "read")
  BY DEF RInv, ActiveReads
<1>2. RInv /\ [Next]_vars =>
        [active # 0 /\ active' # active =>
            \/ handler[active] = "read" /\ handler'[active] = "exit"
            \/ active' # 0 /\ handler[active'] = "start"]_vars
  BY ActiveStep
<1> QED BY InvAlways, <1>1, <1>2, PTL DEF Spec, ActiveServed

=============================================================================
