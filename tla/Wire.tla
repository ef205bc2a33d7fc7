-------------------------------- MODULE Wire --------------------------------
(***************************************************************************)
(* The bit handshake of src/wire.py on the two open-collector lines of the *)
(* link cable.  A line is low while anyone pulls it.  One end runs         *)
(* send_byte, the other recv_byte; the calculator's firmware follows the   *)
(* same protocol (wire.py's docstring), so either end may be the Pico.     *)
(* Both may start sending at once, and a sender may die.                   *)
(* Each access to a pin is one step, and timeouts may strike wherever the  *)
(* code looks at its deadline.                                             *)
(***************************************************************************)
EXTENDS Naturals, Sequences

CONSTANTS
    Ends,       \* the two ends of the cable
    NBits,      \* bits in a byte (8 in the code)
    MaxBytes    \* bound: calls of send_byte by one end

ASSUME WireAssumption ==
    /\ NBits \in Nat \ {0} /\ MaxBytes \in Nat
    /\ \E a, b \in Ends : a # b /\ Ends = {a, b}

Bits == {0, 1}
Lines == {"tip", "ring"}
Line(b) == IF b = 0 THEN "tip" ELSE "ring"      \* the line that carries bit b
AckLine(b) == Line(1 - b)                       \* the line that acknowledges it

VARIABLES
    role,       \* which function the end runs: "send" or "recv"
    traced,     \* whether a receiver runs recv_byte_traced
    pc,         \* where in it
    pull,       \* the lines the end pulls low
    bit,        \* send_bit's argument, recv_bit's result
    t,          \* recv_bit's sample of tip
    todo,       \* bits of the byte still to send
    calls,      \* calls of send_byte so far
    buf,        \* bits recv_byte has gathered
    acked,      \* history: bits whose send_bit returned True
    got,        \* history: bits recv_bit returned
    fails,      \* history: some send_bit returned False
    cut         \* history: recv_byte gave up on a byte it had begun

vars == <<role, traced, pc, pull, bit, t, todo, calls, buf, acked, got, fails, cut>>
histVars == <<acked, got, fails, cut>>

Low(l) == \E e \in Ends : l \in pull[e]
SendPcs == {"start", "pull", "ack", "release", "settle"}
RecvPcs == {"tip", "ring", "answer", "hold", "drop"}

Init ==
    /\ role \in [Ends -> {"send", "recv"}] /\ \E e \in Ends : role[e] = "send"
    /\ traced \in BOOLEAN
    /\ pc = [e \in Ends |-> IF role[e] = "send" THEN "start" ELSE "tip"]
    /\ pull = [e \in Ends |-> {}]
    /\ bit = [e \in Ends |-> 0]
    /\ t = [e \in Ends |-> FALSE]
    /\ todo = [e \in Ends |-> <<>>]
    /\ calls = [e \in Ends |-> 0]
    /\ buf = [e \in Ends |-> <<>>]
    /\ acked = [e \in Ends |-> <<>>]
    /\ got = [e \in Ends |-> <<>>]
    /\ fails = FALSE /\ cut = FALSE

At(e, here) == pc[e] = here
Goto(e, there) == pc' = [pc EXCEPT ![e] = there]
PullLow(e, l) == pull' = [pull EXCEPT ![e] = @ \cup {l}]
Release(e, l) == pull' = [pull EXCEPT ![e] = @ \ {l}]

-----------------------------------------------------------------------------
(* send_byte and send_bit.                                                 *)

SendByte(e) ==
    /\ At(e, "start") /\ calls[e] < MaxBytes
    /\ \E byte \in [1..NBits -> Bits] :
        todo' = [todo EXCEPT ![e] = [i \in 1..NBits |-> byte[i]]]
    /\ calls' = [calls EXCEPT ![e] = @ + 1]
    /\ Goto(e, "pull")
    /\ UNCHANGED <<role, traced, pull, bit, t, buf, histVars>>

\* send_bit begins: pull the line of the next bit.
SendPull(e) ==
    /\ At(e, "pull")
    /\ bit' = [bit EXCEPT ![e] = Head(todo[e])]
    /\ PullLow(e, Line(Head(todo[e])))
    /\ Goto(e, "ack")
    /\ UNCHANGED <<role, traced, t, todo, calls, buf, histVars>>

\* Mutant of SendAcked: no wait for the acknowledgement.
SendAckedBlind(e) ==
    /\ At(e, "ack")
    /\ Goto(e, "release")
    /\ UNCHANGED <<role, traced, pull, bit, t, todo, calls, buf, histVars>>

\* The other line is low: take it for the acknowledgement.
SendAcked(e) ==
    /\ At(e, "ack") /\ Low(AckLine(bit[e]))
    /\ Goto(e, "release")
    /\ UNCHANGED <<role, traced, pull, bit, t, todo, calls, buf, histVars>>

SendRelease(e) ==
    /\ At(e, "release")
    /\ Release(e, Line(bit[e]))
    /\ Goto(e, "settle")
    /\ UNCHANGED <<role, traced, bit, t, todo, calls, buf, histVars>>

\* The other line is high again: send_bit returns True, send_byte goes on.
SendDone(e) ==
    /\ At(e, "settle") /\ ~Low(AckLine(bit[e]))
    /\ acked' = [acked EXCEPT ![e] = Append(@, bit[e])]
    /\ todo' = [todo EXCEPT ![e] = Tail(@)]
    /\ Goto(e, IF Len(todo[e]) = 1 THEN "start" ELSE "pull")
    /\ UNCHANGED <<role, traced, pull, bit, t, calls, buf, got, fails, cut>>

\* Mutant of SendTimeout: the line stays low.
SendTimeoutLeaks(e) ==
    /\ \/ At(e, "ack") /\ ~Low(AckLine(bit[e]))
       \/ At(e, "settle") /\ Low(AckLine(bit[e]))
    /\ todo' = [todo EXCEPT ![e] = <<>>]
    /\ Goto(e, "start")
    /\ fails' = TRUE
    /\ UNCHANGED <<role, traced, pull, bit, t, calls, buf, acked, got, cut>>

\* Mutant of SendTimeout: send_byte tries the bit again instead of failing.
SendTimeoutRetries(e) ==
    /\ At(e, "ack") /\ ~Low(AckLine(bit[e]))
    /\ Release(e, Line(bit[e]))
    /\ Goto(e, "pull")
    /\ fails' = TRUE
    /\ UNCHANGED <<role, traced, bit, t, todo, calls, buf, acked, got, cut>>

\* The deadline passed before the acknowledgement, or before its end: release,
\* send_bit and send_byte return False.
SendTimeout(e) ==
    /\ \/ At(e, "ack") /\ ~Low(AckLine(bit[e]))
       \/ At(e, "settle") /\ Low(AckLine(bit[e]))
    /\ Release(e, Line(bit[e]))
    /\ todo' = [todo EXCEPT ![e] = <<>>]
    /\ Goto(e, "start")
    /\ fails' = TRUE
    /\ UNCHANGED <<role, traced, bit, t, calls, buf, acked, got, cut>>

\* The sender loses its mind (a crash, a hand on the plug) with its line low.
Stall(e) ==
    /\ At(e, "ack")
    /\ Goto(e, "dead")
    /\ UNCHANGED <<role, traced, pull, bit, t, todo, calls, buf, histVars>>

-----------------------------------------------------------------------------
(* recv_byte and recv_bit.  Tip is sampled before ring.                    *)

RecvSampleTip(e) ==
    /\ At(e, "tip")
    /\ t' = [t EXCEPT ![e] = Low("tip")]
    /\ Goto(e, "ring")
    /\ UNCHANGED <<role, traced, pull, bit, todo, calls, buf, histVars>>

\* Both high: sample again.
RecvNothing(e) ==
    /\ At(e, "ring") /\ ~t[e] /\ ~Low("ring")
    /\ Goto(e, "tip")
    /\ UNCHANGED <<role, traced, pull, bit, t, todo, calls, buf, histVars>>

\* A low line names the bit; a low tip wins.
RecvEdge(e) ==
    /\ At(e, "ring") /\ (t[e] \/ Low("ring"))
    /\ traced => ~(t[e] /\ Low("ring"))
    /\ bit' = [bit EXCEPT ![e] = IF t[e] THEN 0 ELSE 1]
    /\ Goto(e, "answer")
    /\ UNCHANGED <<role, traced, pull, t, todo, calls, buf, histVars>>

\* The caller gets None: the bits of a byte begun are dropped.
ReturnNone(e) ==
    /\ buf' = [buf EXCEPT ![e] = <<>>]
    /\ cut' = (cut \/ buf[e] # <<>>)
    /\ Goto(e, "tip")
    /\ UNCHANGED <<role, traced, pull, bit, t, todo, calls, acked, got, fails>>

\* recv_bit's deadline passes with both lines high.
RecvTimeout(e) ==
    /\ At(e, "ring") /\ ~t[e] /\ ~Low("ring")
    /\ ReturnNone(e)

\* recv_byte_traced finds both lines low ("AMBIGUOUS").
RecvAmbiguous(e) ==
    /\ At(e, "ring") /\ traced /\ t[e] /\ Low("ring")
    /\ ReturnNone(e)

RecvAnswer(e) ==
    /\ At(e, "answer")
    /\ PullLow(e, AckLine(bit[e]))
    /\ Goto(e, "hold")
    /\ UNCHANGED <<role, traced, bit, t, todo, calls, buf, histVars>>

\* Mutant of RecvReleased: no wait for the sender's release.
RecvReleasedBlind(e) ==
    /\ At(e, "hold")
    /\ Goto(e, "drop")
    /\ UNCHANGED <<role, traced, pull, bit, t, todo, calls, buf, histVars>>

\* `while line.value() == 0: pass` ends; nothing else ends it.
RecvReleased(e) ==
    /\ At(e, "hold") /\ ~Low(Line(bit[e]))
    /\ Goto(e, "drop")
    /\ UNCHANGED <<role, traced, pull, bit, t, todo, calls, buf, histVars>>

\* Mutant of Gather: one bit too many.
GatherNine(bits, b) == IF Len(bits) = NBits THEN <<>> ELSE Append(bits, b)

\* recv_byte's loop: the last bit ends the byte.
Gather(bits, b) == IF Len(bits) + 1 = NBits THEN <<>> ELSE Append(bits, b)

\* Release the acknowledgement and return the bit.
RecvDrop(e) ==
    /\ At(e, "drop")
    /\ Release(e, AckLine(bit[e]))
    /\ got' = [got EXCEPT ![e] = Append(@, bit[e])]
    /\ buf' = [buf EXCEPT ![e] = Gather(@, bit[e])]
    /\ Goto(e, "tip")
    /\ UNCHANGED <<role, traced, bit, t, todo, calls, acked, fails, cut>>

-----------------------------------------------------------------------------
Steps(e) ==
    \/ SendPull(e) \/ SendAcked(e) \/ SendRelease(e) \/ SendDone(e)
    \/ RecvSampleTip(e) \/ RecvNothing(e) \/ RecvEdge(e) \/ RecvAmbiguous(e)
    \/ RecvAnswer(e) \/ RecvReleased(e) \/ RecvDrop(e)
Faults(e) == SendTimeout(e) \/ RecvTimeout(e) \/ Stall(e)

Next == \E e \in Ends : SendByte(e) \/ Steps(e) \/ Faults(e)

Spec == Init /\ [][Next]_vars

\* Neither program is descheduled for good, and send_bit's deadline comes.
Fairness == \A e \in Ends : WF_vars(Steps(e) \/ SendTimeout(e))
FairSpec == Spec /\ Fairness

-----------------------------------------------------------------------------
(* Safety.                                                                 *)

\* Every variable keeps its type; neither side runs past the end of a byte.
TypeOK ==
    /\ role \in [Ends -> {"send", "recv"}] /\ traced \in BOOLEAN
    /\ \A e \in Ends :
        pc[e] \in IF role[e] = "send" THEN SendPcs \cup {"dead"} ELSE RecvPcs
    /\ pc \in [Ends -> SendPcs \cup RecvPcs \cup {"dead"}]
    /\ pull \in [Ends -> SUBSET Lines]
    /\ bit \in [Ends -> Bits] /\ t \in [Ends -> BOOLEAN]
    /\ todo \in [Ends -> Seq(Bits)] /\ buf \in [Ends -> Seq(Bits)]
    /\ \A e \in Ends : Len(todo[e]) <= NBits /\ Len(buf[e]) < NBits
    /\ calls \in [Ends -> 0..MaxBytes]
    /\ acked \in [Ends -> Seq(Bits)] /\ got \in [Ends -> Seq(Bits)]
    /\ fails \in BOOLEAN /\ cut \in BOOLEAN

\* An end pulls exactly the line its place in the handshake calls for: every
\* return of send_bit and recv_bit, the timeouts included, leaves both lines
\* released by that end, so a failed call cannot jam the cable.
NoLeakedPull ==
    \A e \in Ends : pull[e] =
        CASE pc[e] \in {"ack", "release", "dead"} -> {Line(bit[e])}
          [] pc[e] \in {"hold", "drop"} -> {AckLine(bit[e])}
          [] OTHER -> {}

\* The bits end f has taken: those recv_bit returned and the one it is
\* acknowledging.
Taken(f) ==
    IF pc[f] \in {"hold", "drop"} THEN Append(got[f], bit[f]) ELSE got[f]

IsSubsequence(s, u) ==
    \E at \in [DOMAIN s -> DOMAIN u] :
        /\ \A i \in DOMAIN s : s[i] = u[at[i]]
        /\ \A i, j \in DOMAIN s : i < j => at[i] < at[j]

\* When send_bit returns True and the other end is receiving, that end has really
\* taken the bit, in that order, whatever timeouts came before (send_bit: "Returns
\* True on success").  Two senders take each other's data for the acknowledgement.
AckedBitsTaken ==
    \A e, f \in Ends : e # f /\ role[f] = "recv" => IsSubsequence(acked[e], Taken(f))

\* When send_byte has returned True each time so far and recv_byte never gave up
\* inside a byte, the receiver stands at a byte boundary with every byte taken.
ByteAligned ==
    ~fails /\ ~cut => \A e, f \in Ends :
        role[e] = "send" /\ role[f] = "recv" /\ pc[e] = "start" =>
            got[f] = acked[e] /\ buf[f] = <<>>

-----------------------------------------------------------------------------
(* Liveness, under FairSpec.                                               *)

\* Every call returns: send_byte True or False, also when both ends send; recv_bit a
\* bit, or None "on timeout", but for one wait without a deadline: it hangs if the
\* sender dies after the acknowledgement with its line low.
CallsReturn ==
    /\ \A e \in Ends : (pc[e] = "ack") ~> (pc[e] \in {"start", "dead"})
    /\ \A e, f \in Ends : e # f =>
        ((pc[e] = "hold") ~> (pc[e] = "tip" \/ pc[f] = "dead"))
=============================================================================
