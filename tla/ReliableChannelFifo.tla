------------------------ MODULE ReliableChannelFifo ------------------------
(***************************************************************************)
(* The reliable channel seen as a queue of messages.  A message is put in  *)
(* when the user submits the command that carries it and comes out when    *)
(* the last of its packets is handed over: that one completes the message  *)
(* in the IncomingSplitBuffer of the receiver.                             *)
(***************************************************************************)
EXTENDS ReliableChannel, FiniteSets

\* The places of the packets handed over that complete a message.
Finishing == {i \in DOMAIN delivered : sent[delivered[i]].last}

\* How many messages are complete with the packet at place i.
Rank(i) == Cardinality({j \in Finishing : j =< i})

\* The commands whose last packet was handed over, in that order.
HandedCommands ==
    [n \in 1 .. Cardinality(Finishing) |->
        LET place == CHOOSE i \in Finishing : Rank(i) = n
        IN  sent[delivered[place]].cmd]

Fifo == INSTANCE MessageFifo WITH
            Message  <- 1 .. MaxCommands,
            accepted <- [n \in 1 .. submitted |-> n],
            handed   <- HandedCommands

\* A channel is a queue of messages: split into packets, numbered, lost,
\* re-sent and put in order again, the messages come out as they went in.
ImplementsFifo == Fifo!Spec

-----------------------------------------------------------------------------
(* Fairness: the threads keep running (both loop with a timeout of 50 ms   *)
(* until they are stopped, and a ping every PING_TIMEOUT makes receive()    *)
(* look at its buffers), an unacknowledged packet is re-sent at each        *)
(* timeout, and the network does not lose every copy of a packet that is    *)
(* sent again and again.                                                   *)

ReceivePacket(idx) ==
    \E d \in data, keep \in BOOLEAN : d.idx = idx /\ ReceiveData(d, keep)

ReceiveAckOf(idx) ==
    \E a \in acks, keep \in BOOLEAN : a.idx = idx /\ ReceiveAck(a, keep)

Fairness ==
    /\ WF_vars(RunCommandQueues)
    /\ WF_vars(SendQueued)
    /\ WF_vars(Receive)
    /\ WF_vars(Unbuffer)
    /\ \A idx \in 1 .. MaxCommands * MaxChunks :
          /\ WF_vars(Resend(idx))
          /\ SF_vars(ReceivePacket(idx))
          /\ SF_vars(ReceiveAckOf(idx))

FairSpec == Spec /\ Fairness

\* Every message the user submits is handed over in the end, although any
\* datagram may be lost and a command may have to wait for sequence numbers.
EveryMessageArrives == Fifo!FairSpec
=============================================================================
