---------------------------- MODULE MessageFifo ----------------------------
(***************************************************************************)
(* What a reliable channel promises its two users: the messages one puts   *)
(* in come out at the other, each once, in the order they were put in.     *)
(***************************************************************************)
EXTENDS Naturals, Sequences

CONSTANT Message

VARIABLES accepted,   \* the messages put in
          handed      \* the messages that came out

Init == accepted = <<>> /\ handed = <<>>

Accept(m) == accepted' = Append(accepted, m) /\ UNCHANGED handed

HandOver ==
    /\ Len(handed) < Len(accepted)
    /\ handed' = Append(handed, accepted[Len(handed) + 1])
    /\ UNCHANGED accepted

Next == HandOver \/ \E m \in Message : Accept(m)

Spec == Init /\ [][Next]_<<accepted, handed>>

\* A message that was put in does not stay in the channel.
FairSpec == Spec /\ WF_<<accepted, handed>>(HandOver)
=============================================================================
