------------------------- MODULE MCReliableChannel -------------------------
(***************************************************************************)
(* ReliableChannel for a long run, all the way round the sequence numbers  *)
(* with datagrams as late as WindowFits admits: few commands wait and few  *)
(* datagrams are under way at a time.  The network may lose a datagram at  *)
(* any moment, so that the second bound takes away no order in which the   *)
(* remaining ones can arrive.                                              *)
(***************************************************************************)
EXTENDS ReliableChannel, FiniteSets

CONSTANTS
    MaxWaiting,                \* bound: commands that wait for numbers
    MaxUnderWay                \* bound: datagrams, packets and ACKs together

ASSUME BoundsAssumption == MaxWaiting \in Nat /\ MaxUnderWay \in Nat

NextBounded ==
    /\ Next
    /\ Len(queued_commands') =< MaxWaiting
    /\ Cardinality(data') + Cardinality(acks') =< MaxUnderWay

SpecBounded == Init /\ [][NextBounded]_vars

=============================================================================
