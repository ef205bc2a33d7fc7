----------------------------- MODULE WireProofs -----------------------------
(***************************************************************************)
(* Proofs about the bit handshake, for bytes of any number of bits and any *)
(* number of calls.                                                        *)
(***************************************************************************)
EXTENDS Wire, SequenceTheorems, TLAPS

-----------------------------------------------------------------------------
(* The inductive invariant.                                                *)

\* send_bit runs for a bit that send_byte has yet to send.
BitToSend == \A e \in Ends : pc[e] \in SendPcs \ {"start"} => todo[e] # <<>>

WireInv == TypeOK /\ BitToSend /\ NoLeakedPull

LEMMA BitCount == NBits \in Nat \ {0} /\ MaxBytes \in Nat
BY WireAssumption

\* Tail and Append on bits.
LEMMA TailBits ==
    ASSUME NEW s \in Seq(Bits), s # <<>>
    PROVE  /\ Tail(s) \in Seq(Bits) /\ Len(Tail(s)) = Len(s) - 1 /\ Len(s) \in Nat \ {0}
           /\ Head(s) \in Bits /\ (Len(s) # 1 => Tail(s) # <<>>)
<1>1. Len(s) \in Nat /\ Len(s) > 0
  BY EmptySeq
<1>2. Tail(s) \in Seq(Bits) /\ Len(Tail(s)) = Len(s) - 1 /\ Head(s) \in Bits
  BY HeadTailProperties
<1>3. Len(s) # 1 => Tail(s) # <<>>
  <2> DEFINE u == Tail(s)
  <2>1. Len(<<>>) = 0 /\ Len(u) = Len(s) - 1
    BY <1>2
  <2> HIDE DEF u
  <2>2. Len(s) # 1 => u # <<>>
    BY <1>1, <2>1
  <2> QED BY <2>2 DEF u
<1> QED BY <1>1, <1>2, <1>3

LEMMA AppendBits ==
    ASSUME NEW s \in Seq(Bits), NEW b \in Bits
    PROVE  Append(s, b) \in Seq(Bits) /\ Len(Append(s, b)) = Len(s) + 1 /\ Len(s) \in Nat
OBVIOUS

\* recv_byte never holds a whole byte back.
LEMMA GatherBits ==
    ASSUME NEW s \in Seq(Bits), Len(s) < NBits, NEW b \in Bits
    PROVE  Gather(s, b) \in Seq(Bits) /\ Len(Gather(s, b)) < NBits
<1>1. CASE Len(s) + 1 = NBits
  BY <1>1, BitCount DEF Gather
<1>2. CASE Len(s) + 1 # NBits
  BY <1>2, AppendBits, BitCount DEF Gather
<1> QED BY <1>1, <1>2

LEMMA InitWire == Init => WireInv
<1> SUFFICES ASSUME Init PROVE WireInv
  OBVIOUS
<1>1. /\ role \in [Ends -> {"send", "recv"}] /\ traced \in BOOLEAN
      /\ \A e \in Ends : pc[e] = IF role[e] = "send" THEN "start" ELSE "tip"
      /\ pc \in [Ends -> SendPcs \cup RecvPcs \cup {"dead"}]
  BY DEF Init, SendPcs, RecvPcs
<1>2. /\ pull \in [Ends -> SUBSET Lines] /\ \A e \in Ends : pull[e] = {}
      /\ bit \in [Ends -> Bits] /\ t \in [Ends -> BOOLEAN]
      /\ fails \in BOOLEAN /\ cut \in BOOLEAN
  BY DEF Init, Bits
<1>3. /\ todo \in [Ends -> Seq(Bits)] /\ buf \in [Ends -> Seq(Bits)]
      /\ acked \in [Ends -> Seq(Bits)] /\ got \in [Ends -> Seq(Bits)]
      /\ calls \in [Ends -> 0..MaxBytes]
      /\ \A e \in Ends : Len(todo[e]) <= NBits /\ Len(buf[e]) < NBits
  BY BitCount DEF Init
<1>4. TypeOK
  BY <1>1, <1>2, <1>3 DEF TypeOK, SendPcs, RecvPcs
<1>5. BitToSend /\ NoLeakedPull
  BY <1>1, <1>2 DEF BitToSend, NoLeakedPull, SendPcs
<1> QED BY <1>4, <1>5 DEF WireInv

-----------------------------------------------------------------------------
(* Types.                                                                  *)

\* The places in the handshake and the lines follow from one step of one end.
LEMMA PlacesTyped ==
    ASSUME TypeOK, NEW e \in Ends, NEW there \in SendPcs \cup RecvPcs \cup {"dead"}, Goto(e, there),
           IF role[e] = "send" THEN there \in SendPcs \cup {"dead"} ELSE there \in RecvPcs,
           UNCHANGED <<role, traced>>
    PROVE  /\ role' \in [Ends -> {"send", "recv"}] /\ traced' \in BOOLEAN
           /\ \A f \in Ends :
               pc'[f] \in IF role'[f] = "send" THEN SendPcs \cup {"dead"} ELSE RecvPcs
           /\ pc' \in [Ends -> SendPcs \cup RecvPcs \cup {"dead"}]
BY DEF TypeOK, Goto

LEMMA TypeStep == WireInv /\ [Next]_vars => TypeOK'
<1> SUFFICES ASSUME WireInv, [Next]_vars PROVE TypeOK'
  OBVIOUS
<1> USE DEF histVars
<1>0. TypeOK /\ BitToSend
  BY DEF WireInv
<1>1. /\ pull \in [Ends -> SUBSET Lines] /\ bit \in [Ends -> Bits]
      /\ todo \in [Ends -> Seq(Bits)] /\ buf \in [Ends -> Seq(Bits)]
      /\ acked \in [Ends -> Seq(Bits)] /\ got \in [Ends -> Seq(Bits)]
      /\ t \in [Ends -> BOOLEAN] /\ fails \in BOOLEAN /\ cut \in BOOLEAN
      /\ calls \in [Ends -> 0..MaxBytes]
      /\ \A f \in Ends : Len(todo[f]) <= NBits /\ Len(buf[f]) < NBits
  BY <1>0 DEF TypeOK
<1>2. \A b \in Bits : Line(b) \in Lines /\ AckLine(b) \in Lines
  BY DEF Bits, Line, AckLine, Lines
\* What a step has to keep besides its place.
<1> DEFINE Rest ==
        /\ pull \in [Ends -> SUBSET Lines]
        /\ bit \in [Ends -> Bits] /\ t \in [Ends -> BOOLEAN]
        /\ todo \in [Ends -> Seq(Bits)] /\ buf \in [Ends -> Seq(Bits)]
        /\ \A e \in Ends : Len(todo[e]) <= NBits /\ Len(buf[e]) < NBits
        /\ calls \in [Ends -> 0..MaxBytes]
        /\ acked \in [Ends -> Seq(Bits)] /\ got \in [Ends -> Seq(Bits)]
        /\ fails \in BOOLEAN /\ cut \in BOOLEAN
<1>3. ASSUME NEW e \in Ends, NEW there \in SendPcs \cup RecvPcs \cup {"dead"}, Goto(e, there),
             IF role[e] = "send" THEN there \in SendPcs \cup {"dead"} ELSE there \in RecvPcs,
             UNCHANGED <<role, traced>>, Rest'
      PROVE  TypeOK'
  BY <1>0, <1>3, PlacesTyped DEF TypeOK
<1>4. ASSUME NEW e \in Ends PROVE pc[e] \in SendPcs => role[e] = "send"
  BY <1>0 DEF TypeOK, SendPcs, RecvPcs
<1>5. ASSUME NEW e \in Ends PROVE pc[e] \in RecvPcs => role[e] # "send"
  BY <1>0 DEF TypeOK, SendPcs, RecvPcs
<1>6. ASSUME NEW e \in Ends, SendByte(e) PROVE TypeOK'
  <2>1. PICK byte \in [1..NBits -> Bits] :
            todo' = [todo EXCEPT ![e] = [i \in 1..NBits |-> byte[i]]]
    BY <1>6 DEF SendByte
  <2>2. [i \in 1..NBits |-> byte[i]] \in Seq(Bits) /\ Len([i \in 1..NBits |-> byte[i]]) = NBits
    BY BitCount
  <2>3. calls' \in [Ends -> 0..MaxBytes]
    BY <1>1, <1>6, BitCount DEF SendByte
  <2>4. /\ todo' \in [Ends -> Seq(Bits)]
        /\ \A f \in Ends : Len(todo'[f]) <= NBits
    BY <1>1, <2>1, <2>2, BitCount
  <2>5. Rest'
    BY <1>1, <1>6, <2>3, <2>4 DEF SendByte
  <2> QED BY <1>3, <1>4, <1>6, <2>5 DEF SendByte, At, SendPcs
<1>7. ASSUME NEW e \in Ends, SendPull(e) PROVE TypeOK'
  <2>1. todo[e] # <<>>
    BY <1>0, <1>7 DEF BitToSend, SendPull, At, SendPcs
  <2>2. Head(todo[e]) \in Bits
    BY <1>1, <2>1, TailBits
  <2>3. Rest'
    BY <1>1, <1>2, <1>7, <2>2 DEF SendPull, PullLow
  <2> QED BY <1>3, <1>4, <1>7, <2>3 DEF SendPull, At, SendPcs
<1>8. ASSUME NEW e \in Ends, SendAcked(e) \/ SendRelease(e) \/ Stall(e) PROVE TypeOK'
  <2>1. Rest'
    BY <1>1, <1>8 DEF SendAcked, SendRelease, Stall, Release
  <2> QED BY <1>3, <1>4, <1>8, <2>1 DEF SendAcked, SendRelease, Stall, At, SendPcs
<1>9. ASSUME NEW e \in Ends, SendDone(e) PROVE TypeOK'
  <2>1. todo[e] # <<>>
    BY <1>0, <1>9 DEF BitToSend, SendDone, At, SendPcs
  <2>2. Tail(todo[e]) \in Seq(Bits) /\ Len(Tail(todo[e])) <= NBits
    BY <1>1, <2>1, TailBits, BitCount
  <2>3. Append(acked[e], bit[e]) \in Seq(Bits)
    BY <1>1, AppendBits
  <2>4. /\ todo' \in [Ends -> Seq(Bits)] /\ acked' \in [Ends -> Seq(Bits)]
        /\ \A f \in Ends : Len(todo'[f]) <= NBits
    BY <1>1, <1>9, <2>2, <2>3 DEF SendDone
  <2>5. Rest'
    BY <1>1, <1>9, <2>4 DEF SendDone
  <2> QED BY <1>3, <1>4, <1>9, <2>5 DEF SendDone, At, SendPcs
<1>10. ASSUME NEW e \in Ends, SendTimeout(e) PROVE TypeOK'
  <2>1. <<>> \in Seq(Bits) /\ Len(<<>>) <= NBits
    BY BitCount
  <2>2. /\ todo' \in [Ends -> Seq(Bits)] /\ pull' \in [Ends -> SUBSET Lines]
        /\ \A f \in Ends : Len(todo'[f]) <= NBits
    BY <1>1, <1>10, <2>1 DEF SendTimeout, Release
  <2>3. Rest'
    BY <1>1, <1>10, <2>2 DEF SendTimeout
  <2> QED BY <1>3, <1>4, <1>10, <2>3 DEF SendTimeout, At, SendPcs
<1>11. ASSUME NEW e \in Ends,
              RecvSampleTip(e) \/ RecvNothing(e) \/ RecvEdge(e) \/ RecvAnswer(e) \/ RecvReleased(e)
       PROVE  TypeOK'
  <2>2. ASSUME RecvSampleTip(e) PROVE Rest'
    <3>1. Low("tip") \in BOOLEAN
      BY DEF Low
    <3> QED BY <1>1, <2>2, <3>1 DEF RecvSampleTip
  <2>3. ASSUME RecvEdge(e) PROVE Rest'
    <3>1. bit' \in [Ends -> Bits]
      BY <1>1, <2>3 DEF RecvEdge, Bits
    <3> QED BY <1>1, <2>3, <3>1 DEF RecvEdge
  <2>4. ASSUME RecvAnswer(e) PROVE Rest'
    <3>1. pull' \in [Ends -> SUBSET Lines]
      BY <1>1, <1>2, <2>4 DEF RecvAnswer, PullLow
    <3> QED BY <1>1, <2>4, <3>1 DEF RecvAnswer
  <2>5. ASSUME RecvNothing(e) \/ RecvReleased(e) PROVE Rest'
    BY <1>1, <2>5 DEF RecvNothing, RecvReleased
  <2>1. Rest'
    BY <1>11, <2>2, <2>3, <2>4, <2>5
  <2> QED BY <1>3, <1>5, <1>11, <2>1 DEF RecvSampleTip, RecvNothing, RecvEdge, RecvAnswer,
       RecvReleased, At, RecvPcs
<1>12. ASSUME NEW e \in Ends, RecvTimeout(e) \/ RecvAmbiguous(e) PROVE TypeOK'
  <2>1. <<>> \in Seq(Bits) /\ Len(<<>>) < NBits
    BY BitCount
  <2>2. ReturnNone(e) /\ pc[e] = "ring"
    BY <1>12 DEF RecvTimeout, RecvAmbiguous, At
  <2>3. buf' \in [Ends -> Seq(Bits)] /\ \A f \in Ends : Len(buf'[f]) < NBits
    BY <1>1, <2>1, <2>2 DEF ReturnNone
  <2>4. Rest'
    BY <1>1, <2>2, <2>3 DEF ReturnNone
  <2> QED BY <1>3, <1>5, <2>2, <2>4 DEF ReturnNone, RecvPcs
<1>13. ASSUME NEW e \in Ends, RecvDrop(e) PROVE TypeOK'
  <2>1. Gather(buf[e], bit[e]) \in Seq(Bits) /\ Len(Gather(buf[e], bit[e])) < NBits
    BY <1>1, GatherBits
  <2>2. Append(got[e], bit[e]) \in Seq(Bits)
    BY <1>1, AppendBits
  <2>3. /\ buf' \in [Ends -> Seq(Bits)] /\ \A f \in Ends : Len(buf'[f]) < NBits
        /\ got' \in [Ends -> Seq(Bits)] /\ pull' \in [Ends -> SUBSET Lines]
    BY <1>1, <1>13, <2>1, <2>2 DEF RecvDrop, Release
  <2>4. Rest'
    BY <1>1, <1>13, <2>3 DEF RecvDrop
  <2> QED BY <1>3, <1>5, <1>13, <2>4 DEF RecvDrop, At, RecvPcs
<1>14. CASE UNCHANGED vars
  BY <1>0, <1>14 DEF vars, TypeOK
<1> QED
  BY <1>6, <1>7, <1>8, <1>9, <1>10, <1>11, <1>12, <1>13, <1>14 DEF Next, Steps, Faults

-----------------------------------------------------------------------------
(* The lines.                                                              *)

LEMMA BitStep == WireInv /\ [Next]_vars => BitToSend'
<1> SUFFICES ASSUME WireInv, [Next]_vars PROVE BitToSend'
  OBVIOUS
<1> USE DEF histVars
<1>0. BitToSend
  BY DEF WireInv
<1>1. /\ pc \in [Ends -> SendPcs \cup RecvPcs \cup {"dead"}] /\ todo \in [Ends -> Seq(Bits)]
      /\ \A e \in Ends : pc[e] \in IF role[e] = "send" THEN SendPcs \cup {"dead"} ELSE RecvPcs
  BY DEF WireInv, TypeOK
<1>2. ASSUME NEW e \in Ends, NEW there, Goto(e, there), todo' = todo,
             there \in SendPcs \ {"start"} => pc[e] \in SendPcs \ {"start"}
      PROVE  BitToSend'
  BY <1>0, <1>1, <1>2 DEF BitToSend, Goto
<1>3. ASSUME NEW e \in Ends, SendByte(e) PROVE BitToSend'
  <2>1. PICK byte \in [1..NBits -> Bits] :
            todo' = [todo EXCEPT ![e] = [i \in 1..NBits |-> byte[i]]]
    BY <1>3 DEF SendByte
  <2>2. [i \in 1..NBits |-> byte[i]] # <<>>
    <3>1. Len([i \in 1..NBits |-> byte[i]]) = NBits
      BY BitCount
    <3> QED BY <3>1, BitCount
  <2> QED BY <1>0, <1>1, <1>3, <2>1, <2>2 DEF BitToSend, SendByte, Goto
<1>4. ASSUME NEW e \in Ends, SendDone(e) PROVE BitToSend'
  <2>1. todo[e] # <<>>
    BY <1>0, <1>4 DEF BitToSend, SendDone, At, SendPcs
  <2>2. Len(todo[e]) # 1 => Tail(todo[e]) # <<>>
    BY <1>1, <2>1, TailBits
  <2> QED BY <1>0, <1>1, <1>4, <2>2 DEF BitToSend, SendDone, Goto
<1>5. ASSUME NEW e \in Ends, SendTimeout(e) PROVE BitToSend'
  BY <1>0, <1>1, <1>5 DEF BitToSend, SendTimeout, Goto
<1>6. ASSUME NEW e \in Ends, Steps(e) \/ RecvTimeout(e) \/ Stall(e), ~SendDone(e) PROVE BitToSend'
  BY <1>2, <1>6 DEF Steps, SendPull, SendAcked, SendRelease, RecvSampleTip, RecvNothing, RecvEdge,
     RecvAmbiguous, RecvAnswer, RecvReleased, RecvDrop, RecvTimeout, ReturnNone, Stall, At,
     SendPcs
<1>7. CASE UNCHANGED vars
  BY <1>0, <1>7 DEF vars, BitToSend
<1> QED BY <1>3, <1>4, <1>5, <1>6, <1>7 DEF Next, Faults

LEMMA PullStep == WireInv /\ [Next]_vars => NoLeakedPull'
<1> SUFFICES ASSUME WireInv, [Next]_vars PROVE NoLeakedPull'
  OBVIOUS
<1> USE DEF histVars
<1>0. NoLeakedPull
  BY DEF WireInv
<1>1. /\ pc \in [Ends -> SendPcs \cup RecvPcs \cup {"dead"}] /\ pull \in [Ends -> SUBSET Lines]
      /\ bit \in [Ends -> Bits]
  BY DEF WireInv, TypeOK
\* One end moves, and pulls what its new place calls for.
<1>2. ASSUME NEW e \in Ends, \A f \in Ends : f # e => /\ pc'[f] = pc[f] /\ pull'[f] = pull[f]
                                                      /\ bit'[f] = bit[f],
             pull'[e] = CASE pc'[e] \in {"ack", "release", "dead"} -> {Line(bit'[e])}
                          [] pc'[e] \in {"hold", "drop"} -> {AckLine(bit'[e])}
                          [] OTHER -> {}
      PROVE  NoLeakedPull'
  BY <1>0, <1>2 DEF NoLeakedPull
<1>3. ASSUME NEW e \in Ends, SendByte(e) \/ SendDone(e) \/ SendAcked(e) \/ Stall(e)
                             \/ RecvSampleTip(e) \/ RecvNothing(e) \/ RecvReleased(e)
                             \/ RecvTimeout(e) \/ RecvAmbiguous(e)
      PROVE  NoLeakedPull'
  BY <1>0, <1>1, <1>2, <1>3 DEF NoLeakedPull, SendByte, SendDone, SendAcked, Stall, RecvSampleTip,
     RecvNothing, RecvReleased, RecvTimeout, RecvAmbiguous, ReturnNone, At, Goto
<1>4. ASSUME NEW e \in Ends, SendPull(e) PROVE NoLeakedPull'
  BY <1>0, <1>1, <1>2, <1>4 DEF NoLeakedPull, SendPull, PullLow, At, Goto
<1>5. ASSUME NEW e \in Ends, SendRelease(e) \/ SendTimeout(e) PROVE NoLeakedPull'
  BY <1>0, <1>1, <1>2, <1>5 DEF NoLeakedPull, SendRelease, SendTimeout, Release, At, Goto
<1>6. ASSUME NEW e \in Ends, RecvEdge(e) PROVE NoLeakedPull'
  BY <1>0, <1>1, <1>2, <1>6 DEF NoLeakedPull, RecvEdge, At, Goto
<1>7. ASSUME NEW e \in Ends, RecvAnswer(e) PROVE NoLeakedPull'
  BY <1>0, <1>1, <1>2, <1>7 DEF NoLeakedPull, RecvAnswer, PullLow, At, Goto
<1>8. ASSUME NEW e \in Ends, RecvDrop(e) PROVE NoLeakedPull'
  BY <1>0, <1>1, <1>2, <1>8 DEF NoLeakedPull, RecvDrop, Release, At, Goto
<1>9. CASE UNCHANGED vars
  BY <1>0, <1>9 DEF vars, NoLeakedPull
<1> QED
  BY <1>3, <1>4, <1>5, <1>6, <1>7, <1>8, <1>9 DEF Next, Steps, Faults

-----------------------------------------------------------------------------
(* The theorems.                                                           *)

LEMMA InvAlways == Spec => []WireInv
<1>1. WireInv /\ [Next]_vars => WireInv'
  BY TypeStep, BitStep, PullStep DEF WireInv
<1> QED BY InitWire, <1>1, PTL DEF Spec

\* TypeOK, for bytes of any size: neither end runs past the end of a byte.
THEOREM WireTypeCorrect == Spec => []TypeOK
<1>1. WireInv => TypeOK
  BY DEF WireInv
<1> QED BY InvAlways, <1>1, PTL

\* NoLeakedPull: however the two ends are interleaved, and wherever a deadline strikes,
\* an end that is outside send_bit and recv_bit pulls no line.
THEOREM NoPullEverLeaked == Spec => []NoLeakedPull
<1>1. WireInv => NoLeakedPull
  BY DEF WireInv
<1> QED BY InvAlways, <1>1, PTL


-----------------------------------------------------------------------------
(* Sender and receiver.                                                    *)

Pair(e, f) == e # f /\ role[e] = "send" /\ role[f] = "recv"

\* Somebody sends, and who receives gets no acknowledgements.
RolesInv ==
    /\ \E e \in Ends : role[e] = "send"
    /\ \A e \in Ends : role[e] = "recv" => acked[e] = <<>>

LEMMA RolesStep == WireInv /\ RolesInv /\ [Next]_vars => RolesInv'
<1> SUFFICES ASSUME WireInv, RolesInv, [Next]_vars PROVE RolesInv'
  OBVIOUS
<1> USE DEF histVars
<1>1. /\ \A e \in Ends : pc[e] \in SendPcs => role[e] = "send"
      /\ acked \in [Ends -> Seq(Bits)]
  BY DEF WireInv, TypeOK, SendPcs, RecvPcs
<1>2. role' = role
  BY DEF vars, Next, Steps, Faults, SendByte, SendPull, SendAcked, SendRelease, SendDone,
     SendTimeout, Stall, RecvSampleTip, RecvNothing, RecvEdge, RecvTimeout, RecvAmbiguous,
     ReturnNone, RecvAnswer, RecvReleased, RecvDrop
<1>3. acked' = acked \/ \E e \in Ends : SendDone(e)
  BY DEF vars, Next, Steps, Faults, SendByte, SendPull, SendAcked, SendRelease,
     SendTimeout, Stall, RecvSampleTip, RecvNothing, RecvEdge, RecvTimeout, RecvAmbiguous,
     ReturnNone, RecvAnswer, RecvReleased, RecvDrop
<1>4. ASSUME NEW e \in Ends, SendDone(e) PROVE RolesInv'
  <2>1. role[e] = "send" /\ acked' = [acked EXCEPT ![e] = Append(@, bit[e])]
    BY <1>1, <1>4 DEF SendDone, At, SendPcs
  <2> QED BY <1>1, <1>2, <2>1 DEF RolesInv
<1> QED BY <1>2, <1>3, <1>4 DEF RolesInv

\* What each end of a pair can be doing, and which lines are low for it.
LEMMA PairLines ==
    ASSUME WireInv, NEW e \in Ends, NEW f \in Ends, Pair(e, f)
    PROVE  /\ Ends = {e, f}
           /\ pc[e] \in SendPcs \cup {"dead"} /\ pc[f] \in RecvPcs
           /\ bit[e] \in Bits /\ bit[f] \in Bits
           /\ \A b \in Bits :
               /\ Low(Line(b)) <=> \/ pc[e] \in {"ack", "release", "dead"} /\ bit[e] = b
                                   \/ pc[f] \in {"hold", "drop"} /\ bit[f] # b
               /\ Low(AckLine(b)) <=> \/ pc[e] \in {"ack", "release", "dead"} /\ bit[e] # b
                                      \/ pc[f] \in {"hold", "drop"} /\ bit[f] = b
           /\ Line(0) = "tip" /\ Line(1) = "ring"
<1>1. Ends = {e, f}
  BY WireAssumption DEF Pair
<1>2. pc[e] \in SendPcs \cup {"dead"} /\ pc[f] \in RecvPcs /\ bit[e] \in Bits /\ bit[f] \in Bits
  BY DEF WireInv, TypeOK, Pair
<1>3. /\ pull[e] = IF pc[e] \in {"ack", "release", "dead"} THEN {Line(bit[e])} ELSE {}
      /\ pull[f] = IF pc[f] \in {"hold", "drop"} THEN {AckLine(bit[f])} ELSE {}
  BY <1>2 DEF WireInv, NoLeakedPull, SendPcs, RecvPcs
<1>4. \A l : Low(l) <=> l \in pull[e] \/ l \in pull[f]
  BY <1>1 DEF Low
<1>5. \A b, c \in Bits : /\ (Line(b) = Line(c)) <=> b = c
                         /\ (AckLine(b) = AckLine(c)) <=> b = c
                         /\ (Line(b) = AckLine(c)) <=> b # c
  BY DEF Line, AckLine, Bits
<1>6. Line(0) = "tip" /\ Line(1) = "ring"
  BY DEF Line
<1> QED BY <1>1, <1>2, <1>3, <1>4, <1>5, <1>6

-----------------------------------------------------------------------------
(* Subsequences.                                                           *)

LEMMA NothingWithin == ASSUME NEW u \in Seq(Bits) PROVE IsSubsequence(<<>>, u)
<1> DEFINE at == [i \in {} |-> 1]
<1>1. at \in [DOMAIN <<>> -> DOMAIN u]
  OBVIOUS
<1> QED BY <1>1 DEF IsSubsequence

LEMMA WithinLonger ==
    ASSUME NEW s \in Seq(Bits), NEW u \in Seq(Bits), NEW b \in Bits, IsSubsequence(s, u)
    PROVE  IsSubsequence(s, Append(u, b))
<1>1. PICK at \in [DOMAIN s -> DOMAIN u] :
        /\ \A i \in DOMAIN s : s[i] = u[at[i]]
        /\ \A i, j \in DOMAIN s : i < j => at[i] < at[j]
  BY DEF IsSubsequence
<1>2. DOMAIN u \subseteq DOMAIN Append(u, b) /\ \A i \in DOMAIN u : Append(u, b)[i] = u[i]
  OBVIOUS
<1>3. at \in [DOMAIN s -> DOMAIN Append(u, b)]
  BY <1>2
<1> QED BY <1>1, <1>2, <1>3 DEF IsSubsequence

LEMMA BothLonger ==
    ASSUME NEW s \in Seq(Bits), NEW u \in Seq(Bits), NEW b \in Bits, IsSubsequence(s, u)
    PROVE  IsSubsequence(Append(s, b), Append(u, b))
<1> DEFINE s1 == Append(s, b)
           u1 == Append(u, b)
<1>1. PICK at \in [DOMAIN s -> DOMAIN u] :
        /\ \A i \in DOMAIN s : s[i] = u[at[i]]
        /\ \A i, j \in DOMAIN s : i < j => at[i] < at[j]
  BY DEF IsSubsequence
<1>2. /\ Len(s) \in Nat /\ Len(u) \in Nat /\ DOMAIN s = 1..Len(s) /\ DOMAIN u = 1..Len(u)
      /\ DOMAIN s1 = 1..Len(s) + 1 /\ DOMAIN u1 = 1..Len(u) + 1
      /\ \A i \in DOMAIN s : s1[i] = s[i]
      /\ \A i \in DOMAIN u : u1[i] = u[i]
      /\ s1[Len(s) + 1] = b /\ u1[Len(u) + 1] = b
  OBVIOUS
<1> HIDE DEF s1, u1
<1> DEFINE to == [i \in DOMAIN s1 |-> IF i \in DOMAIN s THEN at[i] ELSE Len(u) + 1]
<1>3. to \in [DOMAIN s1 -> DOMAIN u1]
  BY <1>2
<1>4. ASSUME NEW i \in DOMAIN s1 PROVE s1[i] = u1[to[i]]
  <2>1. CASE i \in DOMAIN s
    BY <1>1, <1>2, <2>1
  <2>2. CASE i \notin DOMAIN s
    <3>1. i = Len(s) + 1 /\ to[i] = Len(u) + 1
      BY <1>2, <2>2
    <3> QED BY <1>2, <3>1
  <2> QED BY <2>1, <2>2
<1>5. ASSUME NEW i \in DOMAIN s1, NEW j \in DOMAIN s1, i < j PROVE to[i] < to[j]
  <2>1. i \in DOMAIN s /\ at[i] \in 1..Len(u) /\ to[i] = at[i]
    BY <1>2, <1>5
  <2>2. CASE j \in DOMAIN s
    BY <1>1, <1>5, <2>1, <2>2
  <2>3. CASE j \notin DOMAIN s
    BY <1>2, <2>1, <2>3
  <2> QED BY <2>2, <2>3
<1> HIDE DEF to
<1>6. IsSubsequence(s1, u1)
  BY <1>3, <1>4, <1>5 DEF IsSubsequence
<1> QED BY <1>6 DEF s1, u1


-----------------------------------------------------------------------------
(* What is acknowledged was taken.                                         *)

\* An acknowledgement seen but not yet over belongs to the bit that the receiver has in
\* hand, or to one it has returned since; so no two bits share an acknowledgement.
AckOfBit(e, f) ==
    /\ IsSubsequence(acked[e], got[f])
    /\ pc[e] \in {"release", "settle"} =>
        \/ pc[f] \in {"hold", "drop"} /\ bit[f] = bit[e]
        \/ IsSubsequence(Append(acked[e], bit[e]), got[f])

OrderInv == RolesInv /\ \A e, f \in Ends : Pair(e, f) => AckOfBit(e, f)

LEMMA OrderStep == WireInv /\ OrderInv /\ [Next]_vars => OrderInv'
<1> SUFFICES ASSUME WireInv, OrderInv, [Next]_vars PROVE OrderInv'
  OBVIOUS
<1> USE DEF histVars
<1>1. RolesInv'
  BY RolesStep DEF OrderInv
<1>2. SUFFICES ASSUME NEW e \in Ends, NEW f \in Ends, Pair(e, f)' PROVE AckOfBit(e, f)'
  BY <1>1 DEF OrderInv
<1>3. role' = role
  BY DEF vars, Next, Steps, Faults, SendByte, SendPull, SendAcked, SendRelease, SendDone,
     SendTimeout, Stall, RecvSampleTip, RecvNothing, RecvEdge, RecvTimeout, RecvAmbiguous,
     ReturnNone, RecvAnswer, RecvReleased, RecvDrop
<1>4. Pair(e, f)
  BY <1>2, <1>3 DEF Pair
<1>5. /\ Ends = {e, f} /\ e # f
      /\ pc[e] \in SendPcs \cup {"dead"} /\ pc[f] \in RecvPcs
      /\ bit[e] \in Bits /\ bit[f] \in Bits
  BY <1>4, PairLines DEF Pair
<1>6. /\ Low(AckLine(bit[e])) <=> \/ pc[e] \in {"ack", "release", "dead"} /\ bit[e] # bit[e]
                                  \/ pc[f] \in {"hold", "drop"} /\ bit[f] = bit[e]
  BY <1>4, <1>5, PairLines
<1>7. /\ pc \in [Ends -> SendPcs \cup RecvPcs \cup {"dead"}] /\ bit \in [Ends -> Bits]
      /\ acked \in [Ends -> Seq(Bits)] /\ got \in [Ends -> Seq(Bits)]
  BY DEF WireInv, TypeOK
<1>8. AckOfBit(e, f)
  BY <1>4 DEF OrderInv
\* The sender's steps that acknowledge nothing.
<1>9. ASSUME SendByte(e) \/ SendPull(e) \/ SendTimeout(e) \/ Stall(e) PROVE AckOfBit(e, f)'
  BY <1>5, <1>7, <1>8, <1>9 DEF AckOfBit, SendByte, SendPull, SendTimeout, Stall, Goto
<1>10. ASSUME SendAcked(e) PROVE AckOfBit(e, f)'
  BY <1>5, <1>6, <1>7, <1>8, <1>10 DEF AckOfBit, SendAcked, Goto
<1>11. ASSUME SendRelease(e) PROVE AckOfBit(e, f)'
  BY <1>5, <1>7, <1>8, <1>11 DEF AckOfBit, SendRelease, Goto, At
<1>12. ASSUME SendDone(e) PROVE AckOfBit(e, f)'
  <2>1. IsSubsequence(Append(acked[e], bit[e]), got[f])
    BY <1>6, <1>8, <1>12 DEF AckOfBit, SendDone, At
  <2> QED BY <1>5, <1>7, <1>12, <2>1 DEF AckOfBit, SendDone, Goto
<1>13. ASSUME RecvSampleTip(f) \/ RecvNothing(f) \/ RecvEdge(f) \/ RecvTimeout(f)
              \/ RecvAmbiguous(f) \/ RecvAnswer(f) \/ RecvReleased(f)
       PROVE  AckOfBit(e, f)'
  BY <1>5, <1>7, <1>8, <1>13 DEF AckOfBit, RecvSampleTip, RecvNothing, RecvEdge, RecvTimeout,
     RecvAmbiguous, ReturnNone, RecvAnswer, RecvReleased, Goto, At
<1>14. ASSUME RecvDrop(f) PROVE AckOfBit(e, f)'
  <2>1. /\ pc'[e] = pc[e] /\ bit' = bit /\ acked' = acked
        /\ got'[f] = Append(got[f], bit[f])
    BY <1>5, <1>7, <1>14 DEF RecvDrop, Goto
  <2>2. acked[e] \in Seq(Bits) /\ got[f] \in Seq(Bits) /\ Append(acked[e], bit[e]) \in Seq(Bits)
    BY <1>5, <1>7, AppendBits
  <2>3. IsSubsequence(acked[e], got'[f])
    BY <1>5, <1>8, <2>1, <2>2, WithinLonger DEF AckOfBit
  <2>4. CASE bit[f] = bit[e]
    BY <1>5, <1>8, <2>1, <2>2, <2>3, <2>4, BothLonger DEF AckOfBit
  <2>5. CASE bit[f] # bit[e]
    BY <1>5, <1>8, <2>1, <2>2, <2>3, <2>5, WithinLonger DEF AckOfBit
  <2> QED BY <2>4, <2>5
<1>15. CASE UNCHANGED vars
  BY <1>8, <1>15 DEF vars, AckOfBit
<1>16. ASSUME NEW x \in Ends, SendByte(x) \/ Steps(x) \/ Faults(x) PROVE AckOfBit(e, f)'
  <2>1. CASE x = e
    BY <1>5, <1>9, <1>10, <1>11, <1>12, <1>16, <2>1 DEF Steps, Faults, At, SendPcs, RecvPcs,
       RecvSampleTip, RecvNothing, RecvEdge, RecvTimeout, RecvAmbiguous, RecvAnswer,
       RecvReleased, RecvDrop
  <2>2. CASE x = f
    BY <1>5, <1>13, <1>14, <1>16, <2>2 DEF Steps, Faults, At, SendPcs, RecvPcs,
       SendByte, SendPull, SendAcked, SendRelease, SendDone, SendTimeout, Stall
  <2> QED BY <1>5, <2>1, <2>2
<1> QED BY <1>15, <1>16 DEF Next

-----------------------------------------------------------------------------
(* Bytes.                                                                  *)

\* The receiver has every bit acknowledged and no other: k of the byte are to come.
Level(e, f, k) ==
    /\ got[f] = acked[e]
    /\ IF k = 0 THEN buf[f] = <<>> ELSE Len(buf[f]) + k = NBits

\* It also has the bit whose acknowledgement the sender has yet to see the end of.
Ahead(e, f) ==
    /\ got[f] = Append(acked[e], bit[e])
    /\ IF Len(todo[e]) = 1 THEN buf[f] = <<>> ELSE Len(buf[f]) + Len(todo[e]) = NBits + 1

\* It has seen no low line.
Quiet(f) == pc[f] = "tip" \/ (pc[f] = "ring" /\ ~t[f])

\* Where the receiver is for each place of the sender, as long as nothing failed.
InStep(e, f) ==
    /\ pc[e] = "start" => todo[e] = <<>>
    /\ pc[e] # "settle" => Level(e, f, Len(todo[e]))
    /\ pc[e] \in {"start", "pull"} => Quiet(f)
    /\ pc[e] \in {"ack", "dead"} =>
        \/ pc[f] = "tip"
        \/ pc[f] = "ring" /\ (t[f] => bit[e] = 0)
        \/ pc[f] \in {"answer", "hold"} /\ bit[f] = bit[e]
    /\ pc[e] = "release" => pc[f] = "hold" /\ bit[f] = bit[e]
    /\ pc[e] = "settle" =>
        \/ Level(e, f, Len(todo[e])) /\ pc[f] \in {"hold", "drop"} /\ bit[f] = bit[e]
        \/ Ahead(e, f) /\ Quiet(f)

AlignInv == ~fails /\ ~cut => \A e, f \in Ends : Pair(e, f) => InStep(e, f)

LEMMA AlignStep == WireInv /\ AlignInv /\ [Next]_vars => AlignInv'
<1> SUFFICES ASSUME WireInv, AlignInv, [Next]_vars PROVE AlignInv'
  OBVIOUS
<1> SUFFICES ASSUME ~fails', ~cut', NEW e \in Ends, NEW f \in Ends, Pair(e, f)'
             PROVE  InStep(e, f)'
  BY DEF AlignInv
<1> USE DEF histVars
<1>1. role' = role
  BY DEF vars, Next, Steps, Faults, SendByte, SendPull, SendAcked, SendRelease, SendDone,
     SendTimeout, Stall, RecvSampleTip, RecvNothing, RecvEdge, RecvTimeout, RecvAmbiguous,
     ReturnNone, RecvAnswer, RecvReleased, RecvDrop
<1>2. Pair(e, f) /\ ~fails /\ ~cut
  <2>1. fails' = fails \/ fails' = TRUE
    BY DEF vars, Next, Steps, Faults, SendByte, SendPull, SendAcked, SendRelease, SendDone,
       SendTimeout, Stall, RecvSampleTip, RecvNothing, RecvEdge, RecvTimeout, RecvAmbiguous,
       ReturnNone, RecvAnswer, RecvReleased, RecvDrop
  <2>2. cut' = cut \/ \E x \in Ends : cut' = (cut \/ buf[x] # <<>>)
    BY DEF vars, Next, Steps, Faults, SendByte, SendPull, SendAcked, SendRelease, SendDone,
       SendTimeout, Stall, RecvSampleTip, RecvNothing, RecvEdge, RecvTimeout, RecvAmbiguous,
       ReturnNone, RecvAnswer, RecvReleased, RecvDrop
  <2>3. fails \in BOOLEAN /\ cut \in BOOLEAN
    BY DEF WireInv, TypeOK
  <2> QED BY <1>1, <2>1, <2>2, <2>3 DEF Pair
<1>3. InStep(e, f)
  BY <1>2 DEF AlignInv
<1>4. /\ Ends = {e, f} /\ e # f
      /\ pc[e] \in SendPcs \cup {"dead"} /\ pc[f] \in RecvPcs
      /\ bit[e] \in Bits /\ bit[f] \in Bits
  BY <1>2, PairLines DEF Pair
\* What the two ends see of the lines.
<1>5. /\ Low("tip") <=> \/ pc[e] \in {"ack", "release", "dead"} /\ bit[e] = 0
                        \/ pc[f] \in {"hold", "drop"} /\ bit[f] # 0
      /\ Low("ring") <=> \/ pc[e] \in {"ack", "release", "dead"} /\ bit[e] = 1
                         \/ pc[f] \in {"hold", "drop"} /\ bit[f] # 1
      /\ Low(AckLine(bit[e])) <=> pc[f] \in {"hold", "drop"} /\ bit[f] = bit[e]
      /\ Low(Line(bit[f])) <=> pc[e] \in {"ack", "release", "dead"} /\ bit[e] = bit[f]
  BY <1>2, <1>4, PairLines DEF Bits
<1>6. /\ pc \in [Ends -> SendPcs \cup RecvPcs \cup {"dead"}]
      /\ bit \in [Ends -> Bits] /\ t \in [Ends -> BOOLEAN]
      /\ acked \in [Ends -> Seq(Bits)] /\ got \in [Ends -> Seq(Bits)]
      /\ todo \in [Ends -> Seq(Bits)] /\ buf \in [Ends -> Seq(Bits)]
      /\ \A x \in Ends : Len(todo[x]) <= NBits /\ Len(buf[x]) < NBits
      /\ NBits \in Nat \ {0}
  BY BitCount DEF WireInv, TypeOK
<1>7. pc[e] \in SendPcs \ {"start"} => todo[e] # <<>> /\ Len(todo[e]) \in Nat \ {0}
  BY <1>4, <1>6, TailBits DEF WireInv, BitToSend
<1>8. ASSUME SendByte(e) PROVE InStep(e, f)'
  <2>1. PICK byte \in [1..NBits -> Bits] :
            todo' = [todo EXCEPT ![e] = [i \in 1..NBits |-> byte[i]]]
    BY <1>8 DEF SendByte
  <2>2. Len(todo'[e]) = NBits
    BY <1>6, <2>1
  <2>3. Len(<<>>) = 0 /\ todo[e] = <<>> /\ buf[f] = <<>> /\ got[f] = acked[e]
    BY <1>3, <1>8 DEF InStep, Level, SendByte, At
  <2>4. pc'[e] = "pull" /\ pc'[f] = pc[f]
    BY <1>4, <1>6, <1>8 DEF SendByte, Goto
  <2> QED BY <1>3, <1>6, <1>8, <2>2, <2>3, <2>4 DEF InStep, Level, Quiet, SendByte, At
<1>9. ASSUME SendPull(e) PROVE InStep(e, f)'
  <2>1. pc'[e] = "ack" /\ pc'[f] = pc[f] /\ pc[e] = "pull"
    BY <1>4, <1>6, <1>9 DEF SendPull, Goto, At
  <2> QED BY <1>3, <1>9, <2>1 DEF InStep, Level, Quiet, SendPull
<1>10. ASSUME SendAcked(e) \/ Stall(e) PROVE InStep(e, f)'
  <2>1. /\ pc'[e] \in {"release", "dead"} /\ pc'[f] = pc[f] /\ pc[e] = "ack"
        /\ UNCHANGED <<bit, t, todo, buf, acked, got>>
        /\ pc'[e] = "release" => pc[f] \in {"hold", "drop"} /\ bit[f] = bit[e]
    BY <1>4, <1>5, <1>6, <1>10 DEF SendAcked, Stall, Goto, At
  <2> QED BY <1>3, <2>1 DEF InStep, Level
<1>11. ASSUME SendRelease(e) PROVE InStep(e, f)'
  <2>1. /\ pc'[e] = "settle" /\ pc'[f] = pc[f] /\ pc[e] = "release"
        /\ UNCHANGED <<bit, t, todo, buf, acked, got>>
    BY <1>4, <1>6, <1>11 DEF SendRelease, Goto, At
  <2> QED BY <1>3, <2>1 DEF InStep, Level
<1>12. ASSUME SendDone(e) PROVE InStep(e, f)'
  <2>1. /\ pc'[e] = (IF Len(todo[e]) = 1 THEN "start" ELSE "pull")
        /\ pc'[f] = pc[f] /\ pc[e] = "settle"
        /\ UNCHANGED <<bit, t, buf, got>>
        /\ acked'[e] = Append(acked[e], bit[e]) /\ todo'[e] = Tail(todo[e])
        /\ ~(pc[f] \in {"hold", "drop"} /\ bit[f] = bit[e])
    BY <1>4, <1>5, <1>6, <1>12 DEF SendDone, Goto, At
  <2>2. Ahead(e, f) /\ Quiet(f)
    BY <1>3, <2>1 DEF InStep
  <2>3. /\ todo[e] # <<>> /\ Len(todo[e]) \in Nat \ {0}
        /\ Len(Tail(todo[e])) = Len(todo[e]) - 1
        /\ Len(todo[e]) = 1 => Tail(todo[e]) = <<>>
    <3>1. todo[e] # <<>> /\ Len(todo[e]) \in Nat \ {0}
      BY <1>7, <2>1 DEF SendPcs
    <3>2. Tail(todo[e]) \in Seq(Bits) /\ Len(Tail(todo[e])) = Len(todo[e]) - 1
      BY <1>4, <1>6, <3>1, TailBits
    <3>3. Len(todo[e]) = 1 => Tail(todo[e]) = <<>>
      <4> DEFINE u == Tail(todo[e])
      <4>1. u \in Seq(Bits) /\ Len(u) = Len(todo[e]) - 1
        BY <3>2
      <4> HIDE DEF u
      <4>2. Len(todo[e]) = 1 => u = <<>>
        BY <4>1, EmptySeq
      <4> QED BY <4>2 DEF u
    <3> QED BY <3>1, <3>2, <3>3
  <2>4. (Level(e, f, Len(todo[e])))'
    <3>1. Len(buf[f]) \in Nat
      BY <1>4, <1>6
    <3> QED BY <1>6, <2>1, <2>2, <2>3, <3>1 DEF Ahead, Level
  <2> QED BY <2>1, <2>2, <2>3, <2>4 DEF InStep, Quiet
<1>13. ASSUME RecvSampleTip(f) PROVE InStep(e, f)'
  <2>1. /\ pc'[e] = pc[e] /\ pc'[f] = "ring" /\ pc[f] = "tip" /\ t'[f] = Low("tip")
        /\ UNCHANGED <<bit, todo, buf, acked, got>>
    BY <1>4, <1>6, <1>13 DEF RecvSampleTip, Goto, At
  <2> QED BY <1>3, <1>4, <1>5, <2>1 DEF InStep, Level, Ahead, Quiet, SendPcs
<1>14. ASSUME RecvNothing(f) \/ RecvTimeout(f) \/ RecvAmbiguous(f) PROVE InStep(e, f)'
  <2>1. /\ pc'[e] = pc[e] /\ pc'[f] = "tip" /\ pc[f] = "ring"
        /\ UNCHANGED <<bit, todo, acked, got>> /\ buf'[f] = buf[f]
    BY <1>2, <1>4, <1>6, <1>14 DEF RecvNothing, RecvTimeout, RecvAmbiguous, ReturnNone, Goto, At
  <2> QED BY <1>3, <1>4, <2>1 DEF InStep, Level, Ahead, Quiet, SendPcs
<1>15. ASSUME RecvEdge(f) PROVE InStep(e, f)'
  <2>1. /\ pc'[e] = pc[e] /\ pc'[f] = "answer" /\ pc[f] = "ring"
        /\ UNCHANGED <<todo, acked, got, buf>>
        /\ bit'[e] = bit[e] /\ bit'[f] = (IF t[f] THEN 0 ELSE 1) /\ (t[f] \/ Low("ring"))
    BY <1>4, <1>6, <1>15 DEF RecvEdge, Goto, At
  <2>2. pc[e] \in {"ack", "dead"} /\ bit'[f] = bit[e]
    BY <1>3, <1>4, <1>5, <2>1 DEF InStep, Quiet, SendPcs
  <2> QED BY <1>3, <2>1, <2>2 DEF InStep, Level
<1>16. ASSUME RecvAnswer(f) PROVE InStep(e, f)'
  <2>1. /\ pc'[e] = pc[e] /\ pc'[f] = "hold" /\ pc[f] = "answer"
        /\ UNCHANGED <<bit, todo, acked, got, buf>>
    BY <1>4, <1>6, <1>16 DEF RecvAnswer, Goto, At
  <2> QED BY <1>3, <1>4, <2>1 DEF InStep, Level, Quiet, SendPcs
<1>17. ASSUME RecvReleased(f) PROVE InStep(e, f)'
  <2>1. /\ pc'[e] = pc[e] /\ pc'[f] = "drop" /\ pc[f] = "hold"
        /\ UNCHANGED <<bit, todo, acked, got, buf>>
        /\ ~(pc[e] \in {"ack", "release", "dead"} /\ bit[e] = bit[f])
    BY <1>4, <1>5, <1>6, <1>17 DEF RecvReleased, Goto, At
  <2> QED BY <1>3, <1>4, <2>1 DEF InStep, Level, Quiet, SendPcs
<1>18. ASSUME RecvDrop(f) PROVE InStep(e, f)'
  <2>1. /\ pc'[e] = pc[e] /\ pc'[f] = "tip" /\ pc[f] = "drop"
        /\ UNCHANGED <<bit, todo, acked>>
        /\ got'[f] = Append(got[f], bit[f]) /\ buf'[f] = Gather(buf[f], bit[f])
    BY <1>4, <1>6, <1>18 DEF RecvDrop, Goto, At
  <2>2. pc[e] = "settle" /\ Level(e, f, Len(todo[e])) /\ bit[f] = bit[e]
    BY <1>3, <1>4, <2>1 DEF InStep, Quiet, SendPcs
  <2>3. Len(todo[e]) \in Nat \ {0}
    BY <1>7, <2>2 DEF SendPcs
  <2>4. /\ buf[f] \in Seq(Bits) /\ Len(buf[f]) \in Nat
        /\ Len(Append(buf[f], bit[f])) = Len(buf[f]) + 1
    BY <1>4, <1>6, AppendBits
  <2>5. got'[f] = Append(acked'[e], bit'[e]) /\ Len(buf[f]) + Len(todo[e]) = NBits
    BY <2>1, <2>2, <2>3 DEF Level
  <2>6. ASSUME Len(todo[e]) = 1 PROVE Ahead(e, f)'
    <3>1. Len(buf[f]) + 1 = NBits
      BY <2>5, <2>6
    <3> QED BY <2>1, <2>5, <2>6, <3>1 DEF Ahead, Gather
  <2>7. ASSUME Len(todo[e]) # 1 PROVE Ahead(e, f)'
    <3> DEFINE had == Len(buf[f])
               left == Len(todo[e])
    <3>1. had \in Nat /\ left \in Nat /\ left # 1 /\ had + left = NBits
      BY <2>3, <2>4, <2>5, <2>7
    <3>2. had + 1 # NBits /\ had + 1 + left = NBits + 1
      <4> HIDE DEF had, left
      <4> QED BY <3>1
    <3>3. buf'[f] = Append(buf[f], bit[f])
      BY <2>1, <3>2 DEF Gather
    <3>4. Len(buf'[f]) = had + 1 /\ Len(todo'[e]) = left
      BY <2>1, <2>4, <3>3
    <3> HIDE DEF had, left
    <3>5. Len(buf'[f]) + Len(todo'[e]) = NBits + 1
      BY <3>2, <3>4
    <3> QED BY <2>1, <2>5, <2>7, <3>5 DEF Ahead
  <2>8. Ahead(e, f)'
    BY <2>6, <2>7
  <2> QED BY <2>1, <2>2, <2>8 DEF InStep, Quiet
<1>19. CASE UNCHANGED vars
  BY <1>3, <1>19 DEF vars, InStep, Level, Ahead, Quiet
<1>20. ASSUME NEW x \in Ends, SendByte(x) \/ Steps(x) \/ Faults(x) PROVE InStep(e, f)'
  <2>1. ~SendTimeout(x)
    BY DEF SendTimeout
  <2>2. CASE x = e
    BY <1>4, <1>8, <1>9, <1>10, <1>11, <1>12, <1>20, <2>1, <2>2 DEF Steps, Faults, At, SendPcs,
       RecvPcs, RecvSampleTip, RecvNothing, RecvEdge, RecvTimeout, RecvAmbiguous, RecvAnswer,
       RecvReleased, RecvDrop
  <2>3. CASE x = f
    BY <1>4, <1>13, <1>14, <1>15, <1>16, <1>17, <1>18, <1>20, <2>1, <2>3 DEF Steps, Faults, At,
       SendPcs, RecvPcs, SendByte, SendPull, SendAcked, SendRelease, SendDone, Stall
  <2> QED BY <1>4, <2>2, <2>3
<1> QED BY <1>19, <1>20 DEF Next

-----------------------------------------------------------------------------
LEMMA HandshakeAlways == Spec => [](WireInv /\ OrderInv /\ AlignInv)
<1>1. Init => WireInv /\ OrderInv /\ AlignInv
  <2> SUFFICES ASSUME Init PROVE OrderInv /\ AlignInv
    BY InitWire
  <2>1. RolesInv
    BY DEF Init, RolesInv
  <2>2. ASSUME NEW e \in Ends, NEW f \in Ends, Pair(e, f) PROVE AckOfBit(e, f) /\ InStep(e, f)
    <3>1. /\ pc[e] = "start" /\ pc[f] = "tip" /\ todo[e] = <<>> /\ buf[f] = <<>>
          /\ acked[e] = <<>> /\ got[f] = <<>>
      BY <2>2 DEF Init, Pair
    <3>2. IsSubsequence(<<>>, <<>>)
      BY NothingWithin, EmptySeq
    <3>3. Len(todo[e]) = 0
      BY <3>1
    <3> QED BY <3>1, <3>2, <3>3 DEF AckOfBit, InStep, Level, Quiet
  <2> QED BY <2>1, <2>2 DEF OrderInv, AlignInv
<1>2. WireInv /\ OrderInv /\ AlignInv /\ [Next]_vars => OrderInv' /\ AlignInv'
  BY OrderStep, AlignStep
<1> QED BY <1>1, <1>2, InvAlways, PTL DEF Spec

\* AckedBitsTaken: for bytes of any size, after any timeouts and with the samples of the
\* two lines apart, a bit whose send_bit returned True was returned by recv_bit too.
THEOREM AckedBitsAlwaysTaken == Spec => []AckedBitsTaken
<1>1. WireInv /\ OrderInv => AckedBitsTaken
  <2> SUFFICES ASSUME WireInv, OrderInv, NEW e \in Ends, NEW f \in Ends, e # f, role[f] = "recv"
               PROVE  IsSubsequence(acked[e], Taken(f))
    BY DEF AckedBitsTaken
  <2>1. role[e] = "send"
    BY WireAssumption DEF OrderInv, RolesInv
  <2>2. IsSubsequence(acked[e], got[f])
    BY <2>1 DEF OrderInv, Pair, AckOfBit
  <2>3. acked[e] \in Seq(Bits) /\ got[f] \in Seq(Bits) /\ bit[f] \in Bits
    BY DEF WireInv, TypeOK
  <2> QED BY <2>2, <2>3, WithinLonger DEF Taken
<1> QED BY HandshakeAlways, <1>1, PTL

\* ByteAligned: unless a call failed, the two ends agree on where each byte ends, whatever
\* deadlines passed between bytes and wherever the receiver's samples fell.
THEOREM BytesAlwaysAligned == Spec => []ByteAligned
<1>1. AlignInv => ByteAligned
  <2> SUFFICES ASSUME AlignInv, ~fails, ~cut, NEW e \in Ends, NEW f \in Ends,
                      role[e] = "send", role[f] = "recv", pc[e] = "start"
               PROVE  got[f] = acked[e] /\ buf[f] = <<>>
    BY DEF ByteAligned
  <2>1. InStep(e, f)
    BY DEF AlignInv, Pair
  <2>2. Len(<<>>) = 0
    OBVIOUS
  <2> QED BY <2>1, <2>2 DEF InStep, Level
<1> QED BY HandshakeAlways, <1>1, PTL

=============================================================================
