-------------------------- MODULE ReliableChannel --------------------------
(***************************************************************************)
(* One direction of one reliable channel between two peers                 *)
(* (src/src/network/connection.cpp): the send thread of one peer turns     *)
(* commands into numbered packets, sends and re-sends them; the receive    *)
(* thread of the other acknowledges, buffers and hands them to the user.   *)
(* UDP loses, duplicates and reorders datagrams in between.                *)
(*                                                                         *)
(* Each action is the work one thread does on the channel without giving   *)
(* the other thread of the same peer a point where it could change the     *)
(* same variables.                                                         *)
(***************************************************************************)
EXTENDS PacketBuffer

CONSTANTS
    MIN_RELIABLE_WINDOW_SIZE,  \* 0x40
    SEQNUM_INITIAL,            \* 65500
    WindowCap,                 \* where the growth of the window ends; the
                               \* code has MAX_RELIABLE_WINDOW_SIZE here
    LegacyWindow,              \* setting workaround_window_size
    IterationPackets,          \* setting max_packets_per_iteration
    MaxPacketsRequeued,        \* m_max_packets_requeued, 256
    GrowSteps, ShrinkSteps,    \* {50, 100} and {10, 50, 100}
    MaxChunks,                 \* packets of the longest command
    Lifetime,                  \* a datagram outlives at most that many
                               \* newly numbered packets of its channel
    MaxCommands                \* bound: commands the user submits

ASSUME WindowAssumption ==
    /\ MIN_RELIABLE_WINDOW_SIZE \in 1 .. WindowCap
    /\ LegacyWindow \in 1 .. WindowCap
    /\ IterationPackets \in 1 .. WindowCap
    /\ WindowCap \in 1 .. MAX_RELIABLE_WINDOW_SIZE
    /\ GrowSteps \subseteq Nat
    /\ ShrinkSteps \subseteq Nat

ASSUME ChannelAssumption ==
    /\ SEQNUM_INITIAL \in Seqnum
    /\ MaxPacketsRequeued \in Nat
    /\ MaxChunks \in Nat \ {0}
    /\ Lifetime \in Nat
    /\ MaxCommands \in Nat

VARIABLES
    \* the sending Channel and its UDPPeer
    queued_commands, queued_reliables, outgoing_reliables_sent,
    next_outgoing_seqnum, window_size, legacy,
    \* the receiving Channel, and the local packet_queued of receive()
    next_incoming_seqnum, incoming_reliables, packet_queued,
    \* datagrams under way: reliable packets one way, ACKs the other
    data, acks,
    \* history: commands submitted, the packet each sequence number was given
    \* to (packet i is sent[i]), the packets handed to the user
    submitted, sent, delivered

sender   == <<queued_commands, queued_reliables, outgoing_reliables_sent,
              next_outgoing_seqnum, window_size, legacy>>
receiver == <<next_incoming_seqnum, incoming_reliables, packet_queued>>
vars     == <<sender, receiver, data, acks, submitted, sent, delivered>>

Min2(a, b) == IF a < b THEN a ELSE b
Max2(a, b) == IF a > b THEN a ELSE b

Command == [id : 1 .. MaxCommands, chunks : 1 .. MaxChunks]
\* A packet with its sequence number; idx, its place in the history sent, is
\* not in the datagram and no step of the code depends on it.
Packet   == [seq : Seqnum, idx : Nat \ {0}]
\* born is the length of the history when the datagram was sent.
Datagram == [seq : Seqnum, idx : Nat \ {0}, born : Nat]

Init ==
    /\ queued_commands = <<>> /\ queued_reliables = <<>>
    /\ outgoing_reliables_sent = <<>>
    /\ next_outgoing_seqnum = SEQNUM_INITIAL
    /\ window_size = MIN_RELIABLE_WINDOW_SIZE
    /\ legacy = TRUE
    /\ next_incoming_seqnum = SEQNUM_INITIAL
    /\ incoming_reliables = <<>>
    /\ packet_queued = TRUE
    /\ data = {} /\ acks = {}
    /\ submitted = 0 /\ sent = <<>> /\ delivered = <<>>

-----------------------------------------------------------------------------
(* The network *)

\* What is left of the datagrams in net when n packets have been numbered.
Alive(net, n) == {d \in net : n - d.born =< Lifetime}

\* A datagram carrying what packet p carries, sent now.
Sent(p) == [seq |-> p.seq, idx |-> p.idx, born |-> Len(sent)]

Lose ==
    /\ \/ \E d \in data : data' = data \ {d} /\ UNCHANGED acks
       \/ \E a \in acks : acks' = acks \ {a} /\ UNCHANGED data
    /\ UNCHANGED <<sender, receiver, submitted, sent, delivered>>

\* Reading d from net; keep says that a copy of it is still under way.
Arrives(d, net, keep) == net' = IF keep THEN net ELSE net \ {d}

-----------------------------------------------------------------------------
(* The sender: commands become numbered packets *)

\* Fault for OutstandingBounded and NumbersUnambiguous: the case of numbers
\* that wrapped is missing.
SeqnumAvailableFlat(next) ==
    outgoing_reliables_sent # <<>> =>
       next - outgoing_reliables_sent[1].seq =< window_size

\* getOutgoingSequenceNumber() succeeds when next_outgoing_seqnum is next.
SeqnumAvailable(next) ==
    outgoing_reliables_sent # <<>> =>
       LET lowest_unacked_seqnumber == outgoing_reliables_sent[1].seq
       IN  IF lowest_unacked_seqnumber < next
           THEN next - lowest_unacked_seqnumber =< window_size
           ELSE next + (SEQNUM_MAX - lowest_unacked_seqnumber) =< window_size

\* processReliableSendCommand() gets a number for every chunk of c.  When it
\* does not, it puts back those it got.
HaveSequenceNumbers(c) ==
    \A i \in 0 .. c.chunks - 1 : SeqnumAvailable(u16(next_outgoing_seqnum + i))

\* ... and queues the numbered packets of c.
NumberPackets(c) ==
    LET first == Len(sent)
        packets == [i \in 1 .. c.chunks |->
                      [seq |-> u16(next_outgoing_seqnum + i - 1), idx |-> first + i]]
    IN  /\ queued_reliables' = queued_reliables \o packets
        /\ next_outgoing_seqnum' = u16(next_outgoing_seqnum + c.chunks)
        /\ sent' = sent \o [i \in 1 .. c.chunks |->
                              [cmd |-> c.id, last |-> i = c.chunks]]
        /\ data' = Alive(data, first + c.chunks)
        /\ acks' = Alive(acks, first + c.chunks)

\* Fault for ImplementsFifo: a command overtakes those that wait.
PutReliableSendCommandFirst(n) ==
    LET c == [id |-> submitted + 1, chunks |-> n]
    IN  /\ submitted < MaxCommands
        /\ submitted' = submitted + 1
        /\ \/ /\ Len(queued_reliables) < window_size \div 2
              /\ HaveSequenceNumbers(c)
              /\ NumberPackets(c)
              /\ UNCHANGED queued_commands
           \/ /\ \/ Len(queued_reliables) >= window_size \div 2
                 \/ ~ HaveSequenceNumbers(c)
              /\ queued_commands' = Append(queued_commands, c)
              /\ UNCHANGED <<queued_reliables, next_outgoing_seqnum, sent, data, acks>>
        /\ UNCHANGED <<outgoing_reliables_sent, window_size, legacy, receiver, delivered>>

\* PutReliableSendCommand() for the next command of the user, of n chunks.
PutReliableSendCommand(n) ==
    LET c == [id |-> submitted + 1, chunks |-> n]
    IN  /\ submitted < MaxCommands
        /\ submitted' = submitted + 1
        /\ \/ /\ queued_commands = <<>>
              /\ Len(queued_reliables) < window_size \div 2
              /\ HaveSequenceNumbers(c)
              /\ NumberPackets(c)
              /\ UNCHANGED queued_commands
           \/ /\ \/ queued_commands # <<>>
                 \/ Len(queued_reliables) >= window_size \div 2
                 \/ ~ HaveSequenceNumbers(c)
              /\ queued_commands' = Append(queued_commands, c)
              /\ UNCHANGED <<queued_reliables, next_outgoing_seqnum, sent, data, acks>>
        /\ UNCHANGED <<outgoing_reliables_sent, window_size, legacy, receiver, delivered>>

\* One turn of RunCommandQueues() on the channel; a command that gets no
\* numbers stays where it is.
RunCommandQueues ==
    /\ queued_commands # <<>>
    /\ Len(queued_reliables) < MaxPacketsRequeued
    /\ HaveSequenceNumbers(Head(queued_commands))
    /\ NumberPackets(Head(queued_commands))
    /\ queued_commands' = Tail(queued_commands)
    /\ UNCHANGED <<outgoing_reliables_sent, window_size, legacy, receiver,
                   submitted, delivered>>

-----------------------------------------------------------------------------
(* The sender: packets become datagrams *)

\* sendAsPacketReliable(): the packet is buffered for re-sending, then sent.
\* (The % of the code changes nothing: the difference is never larger.)
sendAsPacketReliable(p) ==
    /\ outgoing_reliables_sent' =
           insert(outgoing_reliables_sent, p,
                  u16(next_outgoing_seqnum - MAX_RELIABLE_WINDOW_SIZE))
    /\ data' = data \cup {Sent(p)}

\* One packet of the loop of sendPackets() over the queued reliables.
SendQueued ==
    /\ queued_reliables # <<>>
    /\ Len(outgoing_reliables_sent) < window_size
    /\ sendAsPacketReliable(Head(queued_reliables))
    /\ queued_reliables' = Tail(queued_reliables)
    /\ UNCHANGED <<queued_commands, next_outgoing_seqnum, window_size, legacy,
                   receiver, acks, submitted, sent, delivered>>

\* runTimeouts() re-sends an unacknowledged packet whose timer ran out.
Resend(idx) ==
    /\ \E i \in DOMAIN outgoing_reliables_sent :
          /\ outgoing_reliables_sent[i].idx = idx
          /\ data' = data \cup {Sent(outgoing_reliables_sent[i])}
    /\ UNCHANGED <<sender, receiver, acks, submitted, sent, delivered>>

\* The window of the channel: runTimeouts() resets that of a legacy peer and
\* Channel::UpdateTimers() moves that of the others by the loss it measured.
UpdateWindow ==
    /\ \/ legacy /\ window_size' = LegacyWindow
       \/ /\ ~ legacy
          /\ \/ /\ window_size < WindowCap
                /\ \E step \in GrowSteps :
                      window_size' = Min2(window_size + step, WindowCap)
             \/ \E step \in ShrinkSteps :
                   window_size' = Max2(window_size - step, MIN_RELIABLE_WINDOW_SIZE)
    /\ UNCHANGED <<queued_commands, queued_reliables, outgoing_reliables_sent,
                   next_outgoing_seqnum, legacy, receiver, data, acks,
                   submitted, sent, delivered>>

\* setNonLegacyPeer(), on CONTROLTYPE_ENABLE_BIG_SEND_WINDOW.  Its loop sets
\* the window of the first channel at every turn, and no other.
setNonLegacyPeer ==
    /\ legacy' = FALSE
    /\ window_size' \in {window_size, IterationPackets}
    /\ UNCHANGED <<queued_commands, queued_reliables, outgoing_reliables_sent,
                   next_outgoing_seqnum, receiver, data, acks,
                   submitted, sent, delivered>>

\* The receive thread of the sending peer gets an ACK.
ReceiveAck(a, keep) ==
    /\ Arrives(a, acks, keep)
    /\ outgoing_reliables_sent' =
           IF Holds(outgoing_reliables_sent, a.seq)
           THEN popSeqnum(outgoing_reliables_sent, a.seq)
           ELSE outgoing_reliables_sent
    /\ UNCHANGED <<queued_commands, queued_reliables, next_outgoing_seqnum,
                   window_size, legacy, receiver, data, submitted, sent, delivered>>
-----------------------------------------------------------------------------
(* The receiver *)

\* Fault for TypeOK: the number is not cut to 16 bits.
HandOverUncut(idx) ==
    /\ next_incoming_seqnum' = next_incoming_seqnum + 1
    /\ delivered' = Append(delivered, idx)

\* incNextIncomingSeqNum(), and packet number idx goes to the user.
HandOver(idx) ==
    /\ next_incoming_seqnum' = u16(next_incoming_seqnum + 1)
    /\ delivered' = Append(delivered, idx)

\* receive() is called again.
Receive ==
    /\ packet_queued' = TRUE
    /\ UNCHANGED <<sender, next_incoming_seqnum, incoming_reliables, data, acks,
                   submitted, sent, delivered>>

\* Fault for InOrder: whatever is buffered is taken for the next packet.
BufferNotEmpty == incoming_reliables # <<>>

\* The buffer starts with the packet the user gets next.
BufferReady == FirstSeqnumIs(incoming_reliables, next_incoming_seqnum)

\* checkIncomingBuffers(), called by receive() before it reads a datagram.
Unbuffer ==
    /\ packet_queued /\ BufferReady
    /\ incoming_reliables' = Tail(incoming_reliables)
    /\ HandOver(Head(incoming_reliables).idx)
    /\ UNCHANGED <<sender, packet_queued, data, acks, submitted, sent>>

\* receive() reads a reliable datagram once it has emptied the buffers.
Reads(d, keep) ==
    /\ packet_queued => ~ BufferReady
    /\ Arrives(d, data, keep)

InReceiveWindow(d) ==
    seqnum_in_window(d.seq, next_incoming_seqnum, MAX_RELIABLE_WINDOW_SIZE)

\* The next packet: acknowledged, handed over, a buffered copy dropped.
ReceiveNext(d, keep) ==
    /\ Reads(d, keep)
    /\ InReceiveWindow(d) /\ d.seq = next_incoming_seqnum
    /\ acks' = acks \cup {Sent(d)}
    /\ incoming_reliables' = IF BufferReady THEN Tail(incoming_reliables)
                                            ELSE incoming_reliables
    /\ HandOver(d.idx)
    /\ packet_queued' = FALSE
    /\ UNCHANGED <<sender, submitted, sent>>

\* A packet ahead of the next one: acknowledged and buffered.
ReceiveAhead(d, keep) ==
    /\ Reads(d, keep)
    /\ InReceiveWindow(d) /\ d.seq # next_incoming_seqnum
    /\ acks' = acks \cup {Sent(d)}
    /\ incoming_reliables' = insert(incoming_reliables,
                                    [seq |-> d.seq, idx |-> d.idx], next_incoming_seqnum)
    /\ packet_queued' = TRUE
    /\ UNCHANGED <<sender, next_incoming_seqnum, submitted, sent, delivered>>

\* Fault for EveryMessageArrives: the ACK of an old packet is not repeated.
ReceiveOutsideSilently(d, keep) ==
    /\ Reads(d, keep)
    /\ ~ InReceiveWindow(d)
    /\ packet_queued' = FALSE
    /\ UNCHANGED <<sender, next_incoming_seqnum, incoming_reliables, acks,
                   submitted, sent, delivered>>

\* A packet outside the window: ignored if it is newer than the next one and
\* acknowledged again if it is older.
ReceiveOutside(d, keep) ==
    /\ Reads(d, keep)
    /\ ~ InReceiveWindow(d)
    /\ acks' = IF seqnum_higher(d.seq, next_incoming_seqnum)
               THEN acks ELSE acks \cup {Sent(d)}
    /\ packet_queued' = FALSE
    /\ UNCHANGED <<sender, next_incoming_seqnum, incoming_reliables,
                   submitted, sent, delivered>>

ReceiveData(d, keep) ==
    ReceiveNext(d, keep) \/ ReceiveAhead(d, keep) \/ ReceiveOutside(d, keep)

\* receive() empties the buffers, then reads a datagram of another channel or
\* an ACK.
ReceiveOther ==
    /\ packet_queued /\ ~ BufferReady
    /\ packet_queued' = FALSE
    /\ UNCHANGED <<sender, next_incoming_seqnum, incoming_reliables, data, acks,
                   submitted, sent, delivered>>

-----------------------------------------------------------------------------
Next ==
    \/ \E n \in 1 .. MaxChunks : PutReliableSendCommand(n)
    \/ RunCommandQueues
    \/ SendQueued
    \/ \E i \in DOMAIN outgoing_reliables_sent :
          Resend(outgoing_reliables_sent[i].idx)
    \/ UpdateWindow
    \/ setNonLegacyPeer
    \/ \E a \in acks, keep \in BOOLEAN : ReceiveAck(a, keep)
    \/ Receive
    \/ Unbuffer
    \/ \E d \in data, keep \in BOOLEAN : ReceiveNext(d, keep)
    \/ \E d \in data, keep \in BOOLEAN : ReceiveAhead(d, keep)
    \/ \E d \in data, keep \in BOOLEAN : ReceiveOutside(d, keep)
    \/ ReceiveOther
    \/ Lose

Spec == Init /\ [][Next]_vars

-----------------------------------------------------------------------------
(* What the channel is for *)

TypeOK ==
    /\ queued_commands \in Seq(Command)
    /\ queued_reliables \in Seq(Packet)
    /\ outgoing_reliables_sent \in Seq(Packet)
    /\ next_outgoing_seqnum \in Seqnum
    /\ window_size \in 1 .. WindowCap
    /\ legacy \in BOOLEAN
    /\ next_incoming_seqnum \in Seqnum
    /\ incoming_reliables \in Seq(Packet)
    /\ packet_queued \in BOOLEAN
    /\ data \subseteq Datagram
    /\ acks \subseteq Datagram
    /\ submitted \in 0 .. MaxCommands
    /\ sent \in Seq([cmd : 1 .. MaxCommands, last : BOOLEAN])
    /\ delivered \in Seq(Nat \ {0})

\* The user gets the packets in the order of their numbers, each once and
\* none left out (connection.h: "they shall be delivered in the same order as
\* sent"), whatever the network did to the datagrams.
InOrder == \A i \in DOMAIN delivered : delivered[i] = i

\* The packets that wait for an acknowledgement or for being sent.
Outstanding == Listed(queued_reliables) \cup Listed(outgoing_reliables_sent)

Received(idx) == idx =< Len(delivered) \/ idx \in Listed(incoming_reliables)

\* A packet the sender no longer keeps has reached the receiver: no ACK was
\* sent for a packet that was then dropped, none was taken for that of another
\* packet, and no packet was sent without being kept for re-sending
\* (connection.h: "Delivery of all RELIABLE packets shall be forced by ACKs").
NothingForgotten == \A i \in 1 .. Len(sent) : i \in Outstanding \/ Received(i)

\* The most sequence numbers between the oldest outstanding one and the next.
Limit == Max2(WindowCap + 2,
              Max2(MaxPacketsRequeued, WindowCap \div 2) + MaxChunks - 1)

\* The window and the age of datagrams are small enough for the numbers: what
\* the sender may have numbered is less than half a circle ahead of what the
\* receiver may have buffered, and no datagram is half a circle old.  With
\* WindowCap = MAX_RELIABLE_WINDOW_SIZE, as in the code, this does not hold.
WindowFits ==
    /\ 2 * Limit =< MAX_RELIABLE_WINDOW_SIZE
    /\ Limit + Lifetime < MAX_RELIABLE_WINDOW_SIZE

\* The window bounds how far the numbers run ahead of the oldest packet not
\* yet acknowledged: by two more than its size, because the test of
\* getOutgoingSequenceNumber() lets in one number too many, and one more when
\* the numbers have wrapped around; and by one long command when the list of
\* sent packets was empty, for then the test is not made.
OutstandingBounded == \A i \in Outstanding : Len(sent) + 1 - i =< Limit

\* The lists hold the packets oldest first, whatever the order of arrival and
\* where the numbers wrap around: the first number of the list is what
\* getOutgoingSequenceNumber() takes for the lowest unacknowledged one.
ListsSorted == Sorted(outgoing_reliables_sent) /\ Sorted(incoming_reliables)

\* The receiver tells new packets from old ones: a datagram of a packet it
\* handed over is outside its window and seems old, one of a packet it waits
\* for is inside.
ReceiverJudgesRight ==
    \A d \in data :
       /\ d.idx =< Len(delivered) =>
             ~ InReceiveWindow(d) /\ ~ seqnum_higher(d.seq, next_incoming_seqnum)
       /\ (d.idx > Len(delivered) /\ ~ BufferReady) => InReceiveWindow(d)

\* Two packets with one sequence number never meet: what would be taken for
\* data corruption (IncomingDataCorruption) or acknowledge the wrong packet.
NumbersUnambiguous ==
    /\ \A d \in data, i \in DOMAIN incoming_reliables :
          (InReceiveWindow(d) /\ incoming_reliables[i].seq = d.seq)
             => incoming_reliables[i].idx = d.idx
    /\ \A a \in acks, i \in DOMAIN outgoing_reliables_sent :
          outgoing_reliables_sent[i].seq = a.seq
             => outgoing_reliables_sent[i].idx = a.idx

=============================================================================
