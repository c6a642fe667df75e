---------------------- MODULE ReliableChannelInvariant ----------------------
(***************************************************************************)
(* The inductive invariant of the reliable channel: what makes InOrder and *)
(* NothingForgotten true as long as WindowFits.  It speaks of the place    *)
(* idx of a packet in the history, of which the code sees only the number. *)
(***************************************************************************)
EXTENDS ReliableChannel

\* The sequence number of the packet at place i.
NumberOf(i) == u16(SEQNUM_INITIAL - 1 + i)

Numbered(p) == p.seq = NumberOf(p.idx) /\ p.idx =< Len(sent)

\* Sequence numbers count the packets of the history, at both ends and in
\* every datagram.
NumbersRight ==
    /\ Len(delivered) =< Len(sent)
    /\ next_outgoing_seqnum = NumberOf(Len(sent) + 1)
    /\ next_incoming_seqnum = NumberOf(Len(delivered) + 1)
    /\ \A i \in DOMAIN queued_reliables : Numbered(queued_reliables[i])
    /\ \A i \in DOMAIN outgoing_reliables_sent : Numbered(outgoing_reliables_sent[i])
    /\ \A i \in DOMAIN incoming_reliables : Numbered(incoming_reliables[i])
    /\ \A d \in data \cup acks : Numbered(d)

\* The queued packets are the last ones numbered; those sent are older.
QueueIsLast ==
    LET first == Len(sent) - Len(queued_reliables)
    IN  /\ first >= 0
        /\ \A i \in DOMAIN queued_reliables : queued_reliables[i].idx = first + i
        /\ \A i \in DOMAIN outgoing_reliables_sent :
              outgoing_reliables_sent[i].idx =< first

\* How old a datagram can be, and the packet in it.
DatagramsRecent ==
    /\ \A d \in data \cup acks : d.born =< Len(sent) /\ Len(sent) - d.born =< Lifetime
    /\ \A d \in data : d.born + 1 - d.idx =< Limit
    /\ \A a \in acks : a.born + 1 - a.idx =< Limit + Lifetime

AcksTrue == \A a \in acks : Received(a.idx)

\* How far ahead of the next packet the buffered ones are.  While
\* packet_queued is FALSE the buffers were emptied since the last packet
\* ahead of the next one came.
BufferedNear ==
    \A i \in DOMAIN incoming_reliables :
       /\ incoming_reliables[i].idx > Len(delivered)
       /\ incoming_reliables[i].idx =<
             Len(delivered) + (IF packet_queued THEN 2 * Limit ELSE Limit)

IInv ==
    /\ TypeOK
    /\ NumbersRight
    /\ QueueIsLast
    /\ ListsSorted
    /\ OutstandingBounded
    /\ DatagramsRecent
    /\ AcksTrue
    /\ BufferedNear
    /\ NothingForgotten
    /\ InOrder
=============================================================================
