---------------------------- MODULE FrameChannel ----------------------------
(***************************************************************************)
(* What each hop between the Pico and the relay promises for the frames    *)
(* that cross it in one direction: they come out whole, in order and once, *)
(* and all of them do unless the hop is cut.                               *)
(***************************************************************************)
EXTENDS Naturals, Sequences

CONSTANT MaxFrames      \* bound: how many frames are sent

VARIABLES
    sent,   \* the frames handed to the hop
    rcvd,   \* the frames that came out of it
    cut     \* the hop was given up

Init == sent = <<>> /\ rcvd = <<>> /\ cut = FALSE

Send ==
    /\ Len(sent') = Len(sent) + 1 /\ SubSeq(sent', 1, Len(sent)) = sent
    /\ UNCHANGED <<rcvd, cut>>

Deliver ==
    /\ ~cut /\ Len(rcvd) < Len(sent)
    /\ rcvd' = Append(rcvd, sent[Len(rcvd) + 1])
    /\ UNCHANGED <<sent, cut>>

\* For good: a frame under way is lost, and none is delivered later.
Cut == ~cut /\ cut' = TRUE /\ UNCHANGED <<sent, rcvd>>

Next == Send \/ Deliver \/ Cut

Arrives == \A k \in 1..MaxFrames : (Len(sent) >= k) ~> (Len(rcvd) >= k \/ cut)

\* What the hop never does, and with it what it does in the end.
Safe == Init /\ [][Next]_<<sent, rcvd, cut>>
Spec == Safe /\ Arrives

=============================================================================
