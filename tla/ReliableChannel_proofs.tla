----------------------- MODULE ReliableChannel_proofs -----------------------
(***************************************************************************)
(* Proofs about the reliable channel, for every window, every number of    *)
(* sequence numbers and any run of user, threads and network: the types;   *)
(* and, for every size of the window that fits the sequence numbers        *)
(* (WindowFits), that every packet and every message is delivered once and *)
(* in order.                                                               *)
(***************************************************************************)
EXTENDS ReliableChannelInvariant, ReliableChannelFifo, PacketBuffer_proofs

LEMMA FunctionIsSeq ==
    ASSUME NEW S, NEW n \in Nat, NEW f \in [1 .. n -> S]
    PROVE  f \in Seq(S) /\ Len(f) = n /\ DOMAIN f = 1 .. n
OBVIOUS

\* The packets NumberPackets() queues for a command and what it adds to the
\* history.
LEMMA NumberPacketsType ==
    ASSUME TypeOK, NEW c \in Command, NumberPackets(c)
    PROVE  /\ queued_reliables' \in Seq(Packet)
           /\ next_outgoing_seqnum' \in Seqnum
           /\ sent' \in Seq([cmd : 1 .. MaxCommands, last : BOOLEAN])
           /\ data' \subseteq data /\ acks' \subseteq acks
<1> DEFINE n == c.chunks
           first == Len(sent)
           packets == [i \in 1 .. n |->
                          [seq |-> u16(next_outgoing_seqnum + i - 1), idx |-> first + i]]
           history == [i \in 1 .. n |-> [cmd |-> c.id, last |-> i = n]]
           H == [cmd : 1 .. MaxCommands, last : BOOLEAN]
<1>1. /\ n \in Nat /\ c.id \in 1 .. MaxCommands
      /\ sent \in Seq(H) /\ first \in Nat
      /\ next_outgoing_seqnum \in Int
      /\ queued_reliables \in Seq(Packet)
  BY CircleSize, ChannelAssumption DEF TypeOK, Command, Seqnum
<1>2. /\ queued_reliables' = queued_reliables \o packets
      /\ next_outgoing_seqnum' = u16(next_outgoing_seqnum + n)
      /\ sent' = sent \o history
      /\ data' \subseteq data /\ acks' \subseteq acks
  BY DEF NumberPackets, Alive
<1>3. packets \in Seq(Packet)
  <2>1. ASSUME NEW i \in 1 .. n PROVE packets[i] \in Packet
    <3>1. u16(next_outgoing_seqnum + i - 1) \in Seqnum
      <4> DEFINE k == next_outgoing_seqnum + i - 1
      <4>1. k \in Int
        BY <1>1
      <4> HIDE DEF k
      <4>2. u16(k) \in Seqnum
        BY <4>1, NumberType
      <4> QED BY <4>2 DEF k
    <3> HIDE DEF n, first
    <3> QED BY <3>1, <1>1 DEF Packet
  <2> HIDE DEF n
  <2>2. packets \in [1 .. n -> Packet]
    BY <2>1
  <2> QED BY <1>1, <2>2, FunctionIsSeq
<1>4. history \in Seq(H)
  <2> HIDE DEF n
  <2>1. history \in [1 .. n -> H]
    BY <1>1
  <2> QED BY <1>1, <2>1, FunctionIsSeq
<1>5. u16(next_outgoing_seqnum + n) \in Seqnum
  BY <1>1, NumberType
<1> HIDE DEF packets, history, n, H
<1> QED BY <1>1, <1>2, <1>3, <1>4, <1>5, ConcatProperties DEF H

LEMMA TypeInit == Init => TypeOK
<1> SUFFICES ASSUME Init PROVE TypeOK
  OBVIOUS
<1>1. \A S : <<>> \in Seq(S)
  BY EmptySeq
<1> QED BY <1>1, ChannelAssumption, WindowAssumption DEF Init, TypeOK

\* The datagram of a packet, sent now.
LEMMA SentType ==
    ASSUME TypeOK, NEW p, p.seq \in Seqnum, p.idx \in Nat \ {0}
    PROVE  Sent(p) \in Datagram
BY LenProperties DEF TypeOK, Sent, Datagram

LEMMA TypeStep == TypeOK /\ [Next]_vars => TypeOK'
<1> SUFFICES ASSUME TypeOK, [Next]_vars PROVE TypeOK'
  OBVIOUS
<1> USE DEF TypeOK
<1>1. ASSUME NEW n \in 1 .. MaxChunks, PutReliableSendCommand(n) PROVE TypeOK'
  <2> DEFINE c == [id |-> submitted + 1, chunks |-> n]
  <2>1. c \in Command /\ submitted' \in 0 .. MaxCommands
    BY <1>1, ChannelAssumption DEF PutReliableSendCommand, Command
  <2>2. UNCHANGED <<outgoing_reliables_sent, window_size, legacy, receiver, delivered>>
    BY <1>1 DEF PutReliableSendCommand
  <2>3. CASE NumberPackets(c) /\ UNCHANGED queued_commands
    <3> HIDE DEF c, TypeOK
    <3>1. /\ queued_reliables' \in Seq(Packet)
          /\ next_outgoing_seqnum' \in Seqnum
          /\ sent' \in Seq([cmd : 1 .. MaxCommands, last : BOOLEAN])
          /\ data' \subseteq data /\ acks' \subseteq acks
      BY <2>1, <2>3, NumberPacketsType
    <3> QED BY <2>1, <2>2, <2>3, <3>1 DEF TypeOK, receiver
  <2>4. CASE /\ queued_commands' = Append(queued_commands, c)
             /\ UNCHANGED <<queued_reliables, next_outgoing_seqnum, sent, data, acks>>
    <3>1. queued_commands' \in Seq(Command)
      <4> HIDE DEF c
      <4> QED BY <2>1, <2>4, AppendProperties
    <3> QED BY <2>1, <2>2, <2>4, <3>1 DEF receiver
  <2> QED BY <1>1, <2>3, <2>4 DEF PutReliableSendCommand
<1>2. CASE RunCommandQueues
  <2> DEFINE c == Head(queued_commands)
  <2>1. c \in Command /\ queued_commands' \in Seq(Command)
    BY <1>2, HeadTailProperties DEF RunCommandQueues
  <2>2. NumberPackets(c)
    BY <1>2 DEF RunCommandQueues
  <2> HIDE DEF c, TypeOK
  <2>3. /\ queued_reliables' \in Seq(Packet)
        /\ next_outgoing_seqnum' \in Seqnum
        /\ sent' \in Seq([cmd : 1 .. MaxCommands, last : BOOLEAN])
        /\ data' \subseteq data /\ acks' \subseteq acks
    BY <2>1, <2>2, NumberPacketsType
  <2> QED BY <1>2, <2>1, <2>3 DEF RunCommandQueues, TypeOK, receiver
<1>3. CASE SendQueued
  <2> DEFINE p == Head(queued_reliables)
             e == u16(next_outgoing_seqnum - MAX_RELIABLE_WINDOW_SIZE)
  <2>1. p \in Packet /\ queued_reliables' \in Seq(Packet)
    BY <1>3, HeadTailProperties DEF SendQueued
  <2>2. /\ outgoing_reliables_sent' = insert(outgoing_reliables_sent, p, e)
        /\ data' = data \cup {Sent(p)}
    BY <1>3 DEF SendQueued, sendAsPacketReliable
  <2> HIDE DEF p, e, TypeOK
  <2>3. Sent(p) \in Datagram
    BY <2>1, SentType DEF Packet
  <2>4. outgoing_reliables_sent' \in Seq(Packet)
    BY <2>1, <2>2, InsertType DEF TypeOK
  <2> QED BY <1>3, <2>1, <2>2, <2>3, <2>4 DEF SendQueued, TypeOK, receiver
<1>4. ASSUME NEW idx, Resend(idx) PROVE TypeOK'
  <2> PICK i \in DOMAIN outgoing_reliables_sent :
           data' = data \cup {Sent(outgoing_reliables_sent[i])}
    BY <1>4 DEF Resend
  <2> DEFINE p == outgoing_reliables_sent[i]
  <2>1. p \in Packet
    BY LenProperties, ElementOfSeq
  <2> HIDE DEF p, TypeOK
  <2>2. Sent(p) \in Datagram
    BY <2>1, SentType DEF Packet
  <2> QED BY <1>4, <2>2 DEF p, Resend, TypeOK, sender, receiver
<1>5. CASE UpdateWindow
  <2>1. window_size' \in 1 .. WindowCap
    BY <1>5, WindowAssumption DEF UpdateWindow, Min2, Max2
  <2> QED BY <1>5, <2>1 DEF UpdateWindow, receiver
<1>6. CASE setNonLegacyPeer
  BY <1>6, WindowAssumption DEF setNonLegacyPeer, receiver
<1>7. ASSUME NEW a \in acks, NEW keep \in BOOLEAN, ReceiveAck(a, keep)
      PROVE  TypeOK'
  <2> DEFINE seqnum == a.seq
  <2>1. outgoing_reliables_sent' =
            IF Holds(outgoing_reliables_sent, seqnum)
            THEN popSeqnum(outgoing_reliables_sent, seqnum)
            ELSE outgoing_reliables_sent
    BY <1>7 DEF ReceiveAck
  <2>2. acks' \subseteq acks
    BY <1>7 DEF ReceiveAck, Arrives
  <2> HIDE DEF seqnum
  <2>3. outgoing_reliables_sent' \in Seq(Packet)
    BY <2>1, PopSeqnumType
  <2> QED BY <1>7, <2>2, <2>3 DEF ReceiveAck, receiver
<1>8. CASE Receive
  BY <1>8 DEF Receive, sender
<1>9. CASE Unbuffer
  <2>1. incoming_reliables # <<>>
    BY <1>9 DEF Unbuffer, BufferReady, FirstSeqnumIs
  <2> DEFINE p == Head(incoming_reliables)
  <2>2. p \in Packet /\ incoming_reliables' \in Seq(Packet)
    BY <1>9, <2>1, HeadTailProperties DEF Unbuffer
  <2>3. /\ next_incoming_seqnum' = u16(next_incoming_seqnum + 1)
        /\ delivered' = Append(delivered, p.idx)
    BY <1>9 DEF Unbuffer, HandOver
  <2>4. delivered' \in Seq(Nat \ {0}) /\ next_incoming_seqnum' \in Seqnum
    <3> HIDE DEF p
    <3>1. p.idx \in Nat \ {0} /\ next_incoming_seqnum + 1 \in Int
      BY <2>2, CircleSize DEF Packet, Seqnum
    <3> QED BY <2>3, <3>1, AppendProperties, NumberType
  <2> QED BY <1>9, <2>2, <2>4 DEF Unbuffer, sender
<1>10. ASSUME NEW d \in data, NEW keep \in BOOLEAN, ReceiveNext(d, keep)
       PROVE  TypeOK'
  <2>1. d \in Datagram
    OBVIOUS
  <2>2. /\ incoming_reliables' = IF BufferReady THEN Tail(incoming_reliables)
                                                ELSE incoming_reliables
        /\ acks' = acks \cup {Sent(d)}
        /\ data' \subseteq data
        /\ packet_queued' = FALSE
        /\ next_incoming_seqnum' = u16(next_incoming_seqnum + 1)
        /\ delivered' = Append(delivered, d.idx)
    BY <1>10 DEF ReceiveNext, Reads, Arrives, HandOver
  <2>3. incoming_reliables' \in Seq(Packet)
    BY <2>2, HeadTailProperties DEF BufferReady, FirstSeqnumIs
  <2>4. Sent(d) \in Datagram
    <3> HIDE DEF TypeOK
    <3> QED BY <2>1, SentType DEF Datagram
  <2>5. delivered' \in Seq(Nat \ {0}) /\ next_incoming_seqnum' \in Seqnum
    <3>1. d.idx \in Nat \ {0} /\ next_incoming_seqnum + 1 \in Int
      BY <2>1, CircleSize DEF Datagram, Seqnum
    <3> QED BY <2>2, <3>1, AppendProperties, NumberType
  <2> QED BY <1>10, <2>2, <2>3, <2>4, <2>5 DEF ReceiveNext, sender
<1>11. ASSUME NEW d \in data, NEW keep \in BOOLEAN, ReceiveAhead(d, keep)
       PROVE  TypeOK'
  <2>1. d \in Datagram
    OBVIOUS
  <2> DEFINE p == [seq |-> d.seq, idx |-> d.idx]
  <2>2. p \in Packet
    BY <2>1 DEF Datagram, Packet
  <2>3. /\ incoming_reliables' = insert(incoming_reliables, p, next_incoming_seqnum)
        /\ acks' = acks \cup {Sent(d)}
        /\ data' \subseteq data
    BY <1>11 DEF ReceiveAhead, Reads, Arrives
  <2>4. Sent(d) \in Datagram
    <3> HIDE DEF TypeOK
    <3> QED BY <2>1, SentType DEF Datagram
  <2>5. incoming_reliables' \in Seq(Packet)
    <3> HIDE DEF p
    <3> QED BY <2>2, <2>3, InsertType
  <2> QED BY <1>11, <2>3, <2>4, <2>5 DEF ReceiveAhead, sender
<1>12. ASSUME NEW d \in data, NEW keep \in BOOLEAN, ReceiveOutside(d, keep)
       PROVE  TypeOK'
  <2>1. Sent(d) \in Datagram
    <3>1. d \in Datagram
      OBVIOUS
    <3> HIDE DEF TypeOK
    <3> QED BY <3>1, SentType DEF Datagram
  <2>2. data' \subseteq data /\ acks' \subseteq acks \cup {Sent(d)}
    BY <1>12 DEF ReceiveOutside, Reads, Arrives
  <2> QED BY <1>12, <2>1, <2>2 DEF ReceiveOutside, sender
<1>13. CASE Lose
  BY <1>13 DEF Lose, sender, receiver
<1>14. CASE ReceiveOther
  BY <1>14 DEF ReceiveOther, sender
<1>15. CASE UNCHANGED vars
  BY <1>15 DEF vars, sender, receiver
<1> HIDE DEF TypeOK
<1> QED
  BY <1>1, <1>2, <1>3, <1>4, <1>5, <1>6, <1>7, <1>8, <1>9, <1>10, <1>11, <1>12,
     <1>13, <1>14, <1>15 DEF Next

\* The state of a channel has its type: sequence numbers stay 16 bits wide and
\* the window stays between one packet and its cap.
THEOREM TypeCorrect == Spec => []TypeOK
<1>1. Init => TypeOK
  BY TypeInit
<1>2. TypeOK /\ [Next]_vars => TypeOK'
  BY TypeStep
<1> QED BY <1>1, <1>2, PTL DEF Spec

-----------------------------------------------------------------------------
(* The sequence numbers of the packets of the history *)

LEMMA Sizes ==
    /\ SEQNUM_MAX \in Nat /\ SEQNUM_INITIAL \in Int
    /\ MAX_RELIABLE_WINDOW_SIZE \in 1 .. SEQNUM_MAX
    /\ 2 * MAX_RELIABLE_WINDOW_SIZE = SEQNUM_MAX + 1
    /\ SEQNUM_MAX \div 2 = MAX_RELIABLE_WINDOW_SIZE - 1
BY CircleSize, MaxReliableWindowAssumption, ChannelAssumption DEF Seqnum

LEMMA NumberOfMoved ==
    ASSUME NEW i \in Int, NEW y \in Int
    PROVE  NumberOf(i) \in Seqnum /\ u16(NumberOf(i) + y) = NumberOf(i + y)
<1> DEFINE e == SEQNUM_INITIAL - 1 + i
<1>1. e \in Int /\ SEQNUM_INITIAL - 1 + (i + y) = e + y
  BY Sizes
<1>2. NumberOf(i) = u16(e) /\ NumberOf(i + y) = u16(e + y)
  BY <1>1 DEF NumberOf
<1> HIDE DEF e
<1> QED BY <1>1, <1>2, NumberMoved, NumberType

LEMMA NumberTellsPacket ==
    ASSUME NEW i \in Int, NEW j \in Int, i - j =< SEQNUM_MAX, j - i =< SEQNUM_MAX,
           NumberOf(i) = NumberOf(j)
    PROVE  i = j
<1> DEFINE a == SEQNUM_INITIAL - 1 + i
           b == SEQNUM_INITIAL - 1 + j
<1>1. /\ a \in Int /\ b \in Int /\ a - b =< SEQNUM_MAX /\ b - a =< SEQNUM_MAX
      /\ a = b => i = j
  BY Sizes
<1>2. u16(a) = u16(b)
  BY DEF NumberOf
<1> HIDE DEF a, b
<1> QED BY <1>1, <1>2, NumbersDiffer

\* The window that starts at packet i shows on which side of i a packet is
\* that is less than half a circle away.
LEMMA WindowTellsSide ==
    ASSUME NEW i \in Int, NEW j \in Int,
           j - i < MAX_RELIABLE_WINDOW_SIZE, i - j =< MAX_RELIABLE_WINDOW_SIZE
    PROVE  seqnum_in_window(NumberOf(j), NumberOf(i), MAX_RELIABLE_WINDOW_SIZE) <=> j >= i
<1> DEFINE w == MAX_RELIABLE_WINDOW_SIZE
           e == SEQNUM_INITIAL - 1 + i
           f == SEQNUM_INITIAL - 1 + j
           x == IF j >= i THEN j - i ELSE j - i + (SEQNUM_MAX + 1)
<1>1. /\ e \in Int /\ f \in Int /\ w \in 1 .. SEQNUM_MAX
      /\ x \in 0 .. SEQNUM_MAX /\ (x < w <=> j >= i)
      /\ e + x = f \/ e + x = f + (SEQNUM_MAX + 1)
  BY Sizes
<1> HIDE DEF x, e, f, w
<1>2. u16(e + x) = u16(f)
  BY <1>1, NumberOnceAround
<1>3. seqnum_in_window(u16(e + x), u16(e), w) <=> x < w
  BY <1>1, WindowIsPrefix
<1>4. NumberOf(i) = u16(e) /\ NumberOf(j) = u16(f)
  BY DEF NumberOf, e, f
<1> QED BY <1>1, <1>2, <1>3, <1>4 DEF w

LEMMA OldIsNotHigher ==
    ASSUME NEW i \in Int, NEW j \in Int,
           j < i, i - j < MAX_RELIABLE_WINDOW_SIZE
    PROVE  ~ seqnum_higher(NumberOf(j), NumberOf(i))
<1> DEFINE e == SEQNUM_INITIAL - 1 + j
           x == i - j
<1>1. e \in Int /\ x \in 1 .. (SEQNUM_MAX \div 2) /\ SEQNUM_INITIAL - 1 + i = e + x
  BY Sizes
<1>2. NumberOf(j) = u16(e) /\ NumberOf(i) = u16(e + x)
  BY <1>1 DEF NumberOf
<1> HIDE DEF e, x
<1> QED BY <1>1, <1>2, BehindIsNotHigher

LEMMA LimitBounds ==
    /\ Limit \in Nat /\ Limit >= WindowCap + 2
    /\ Limit >= MaxPacketsRequeued + MaxChunks - 1
    /\ Limit >= (WindowCap \div 2) + MaxChunks - 1
    /\ WindowCap \in Nat /\ WindowCap \div 2 \in Nat
    /\ MaxPacketsRequeued \in Nat /\ MaxChunks \in Nat \ {0} /\ Lifetime \in Nat
<1>1. /\ WindowCap \in Nat /\ WindowCap \div 2 \in Nat
      /\ MaxPacketsRequeued \in Nat /\ MaxChunks \in Nat \ {0} /\ Lifetime \in Nat
  BY WindowAssumption, ChannelAssumption, Sizes
<1> QED BY <1>1 DEF Limit, Max2

-----------------------------------------------------------------------------
(* Packets are delivered in order *)

\* What the types say of the numbers in the state.
LEMMA StateFacts ==
    ASSUME TypeOK
    PROVE  /\ Len(sent) \in Nat /\ Len(delivered) \in Nat /\ Len(queued_reliables) \in Nat
           /\ DOMAIN queued_reliables = 1 .. Len(queued_reliables)
           /\ DOMAIN delivered = 1 .. Len(delivered)
           /\ \A i \in DOMAIN queued_reliables : queued_reliables[i] \in Packet
           /\ \A i \in DOMAIN outgoing_reliables_sent : outgoing_reliables_sent[i] \in Packet
           /\ \A i \in DOMAIN incoming_reliables : incoming_reliables[i] \in Packet
           /\ \A p \in Packet : p.seq \in Seqnum /\ p.idx \in Int /\ p.idx >= 1
           /\ \A d \in data \cup acks : d.seq \in Seqnum /\ d.idx \in Int /\ d.idx >= 1
                                        /\ d.born \in Nat
<1>1. \A p \in Packet : p.seq \in Seqnum /\ p.idx \in Int /\ p.idx >= 1
  BY DEF Packet
<1>2. \A d \in data \cup acks : d.seq \in Seqnum /\ d.idx \in Int /\ d.idx >= 1
                                /\ d.born \in Nat
  BY DEF TypeOK, Datagram
<1>3. /\ queued_reliables \in Seq(Packet) /\ outgoing_reliables_sent \in Seq(Packet)
      /\ incoming_reliables \in Seq(Packet) /\ delivered \in Seq(Nat \ {0})
      /\ sent \in Seq([cmd : 1 .. MaxCommands, last : BOOLEAN])
  BY DEF TypeOK
<1>4. \A S : \A s \in Seq(S) :
         Len(s) \in Nat /\ DOMAIN s = 1 .. Len(s) /\ \A i \in DOMAIN s : s[i] \in S
  BY LenProperties, ElementOfSeq
<1> QED BY <1>1, <1>2, <1>3, <1>4

\* The packet the user gets next is at the front of the buffer if it is there.
LEMMA NextIsFirst ==
    ASSUME IInv, Len(delivered) + 1 \in Listed(incoming_reliables)
    PROVE  BufferReady
<1>1. PICK i \in DOMAIN incoming_reliables :
           incoming_reliables[i].idx = Len(delivered) + 1
  BY DEF Listed
<1>2. Len(incoming_reliables) \in Nat /\ DOMAIN incoming_reliables = 1 .. Len(incoming_reliables)
  BY LenProperties DEF IInv, TypeOK
<1>3. 1 \in DOMAIN incoming_reliables /\ i >= 1 /\ i \in Int
  BY <1>1, <1>2
<1>4. \A j \in DOMAIN incoming_reliables :
         incoming_reliables[j].idx \in Int /\ incoming_reliables[j].idx > Len(delivered)
  BY StateFacts DEF IInv, BufferedNear
<1>5. i = 1
  <2> SUFFICES ASSUME 1 < i PROVE FALSE
    BY <1>3
  <2>1. incoming_reliables[1].idx < incoming_reliables[i].idx
    BY <1>1, <1>3 DEF IInv, ListsSorted, Sorted
  <2> QED BY <2>1, <1>1, <1>3, <1>4, StateFacts DEF IInv
<1>6. incoming_reliables[1].seq = next_incoming_seqnum
  BY <1>1, <1>5 DEF IInv, NumbersRight, Numbered
<1>7. incoming_reliables # <<>>
  BY <1>3, <1>2
<1> QED BY <1>6, <1>7 DEF BufferReady, FirstSeqnumIs

\* How far the sender can be ahead of the receiver.
LEMMA LeadBounds ==
    ASSUME IInv
    PROVE  /\ ~ BufferReady => Len(sent) =< Len(delivered) + Limit
           /\ ~ packet_queued => Len(sent) =< Len(delivered) + 2 * Limit
           /\ Len(sent) =< Len(delivered) + 3 * Limit
<1>1. Len(sent) \in Nat /\ Len(delivered) \in Nat /\ Limit \in Nat
  BY StateFacts, LimitBounds DEF IInv
<1> DEFINE N == Len(sent)
           D == Len(delivered)
           L == Limit
<1>2. ASSUME NEW k \in 1 .. N, k > D, k \notin Listed(incoming_reliables)
      PROVE  N + 1 - k =< L
  BY <1>1, <1>2 DEF IInv, NothingForgotten, Received, OutstandingBounded
<1>3. \A k \in Listed(incoming_reliables) :
         k =< D + 2 * L /\ (~ packet_queued => k =< D + L)
  BY <1>1, StateFacts DEF IInv, BufferedNear, Listed
<1>4. ~ BufferReady => D + 1 \notin Listed(incoming_reliables)
  BY NextIsFirst
<1> HIDE DEF N, D, L
<1>5. N \in Nat /\ D \in Nat /\ L \in Nat
  BY <1>1 DEF N, D, L
<1>6. ASSUME ~ BufferReady, N > D + L PROVE FALSE
  <2>1. D + 1 \in 1 .. N /\ D + 1 > D
    BY <1>5, <1>6
  <2>2. N + 1 - (D + 1) =< L
    BY <2>1, <1>2, <1>4, <1>6
  <2> QED BY <2>2, <1>5, <1>6
<1>7. ASSUME ~ packet_queued, N > D + 2 * L PROVE FALSE
  <2>1. D + L + 1 \in 1 .. N /\ D + L + 1 > D /\ ~ (D + L + 1 =< D + L)
    BY <1>5, <1>7
  <2>2. N + 1 - (D + L + 1) =< L
    BY <2>1, <1>2, <1>3, <1>7
  <2> QED BY <2>2, <1>5, <1>7
<1>8. ASSUME N > D + 3 * L PROVE FALSE
  <2>1. D + 2 * L + 1 \in 1 .. N /\ D + 2 * L + 1 > D /\ ~ (D + 2 * L + 1 =< D + 2 * L)
    BY <1>5, <1>8
  <2>2. N + 1 - (D + 2 * L + 1) =< L
    BY <2>1, <1>2, <1>3
  <2> QED BY <2>2, <1>5, <1>8
<1>9. /\ ~ BufferReady => N =< D + L
      /\ ~ packet_queued => N =< D + 2 * L
      /\ N =< D + 3 * L
  BY <1>5, <1>6, <1>7, <1>8
<1> QED BY <1>9 DEF N, D, L

\* The packets of the buffer are near the next one.
LEMMA BufferBounds ==
    ASSUME IInv, NEW k \in Listed(incoming_reliables)
    PROVE  k \in Int /\ k > Len(delivered) /\ k =< Len(delivered) + 2 * Limit
BY StateFacts, LimitBounds DEF IInv, BufferedNear, Listed

\* How old the packet in a datagram can be.
LEMMA DatagramBounds ==
    ASSUME IInv
    PROVE  /\ \A d \in data : d.idx =< Len(sent) /\ Len(sent) + 1 - d.idx =< Limit + Lifetime
           /\ \A a \in acks : a.idx =< Len(sent) /\ Len(sent) + 1 - a.idx =< Limit + 2 * Lifetime
<1>1. /\ Len(sent) \in Nat /\ Limit \in Nat /\ Lifetime \in Nat
      /\ \A d \in data \cup acks : d.idx \in Int /\ d.born \in Nat
  BY StateFacts, LimitBounds DEF IInv
<1>2. \A d \in data \cup acks : d.idx =< Len(sent)
  BY DEF IInv, NumbersRight, Numbered
<1>3. \A d \in data \cup acks : Len(sent) - d.born =< Lifetime
  BY DEF IInv, DatagramsRecent
<1>4. /\ \A d \in data : d.born + 1 - d.idx =< Limit
      /\ \A a \in acks : a.born + 1 - a.idx =< Limit + Lifetime
  BY DEF IInv, DatagramsRecent
<1> HIDE DEF Limit
<1> QED BY <1>1, <1>2, <1>3, <1>4

\* The assumption on the window, with the sizes it is about.
LEMMA FitFacts ==
    ASSUME WindowFits
    PROVE  /\ Limit \in Nat /\ Lifetime \in Nat /\ Limit >= 2
           /\ MAX_RELIABLE_WINDOW_SIZE \in Nat /\ SEQNUM_MAX \in Nat
           /\ 2 * Limit =< MAX_RELIABLE_WINDOW_SIZE
           /\ Limit + Lifetime < MAX_RELIABLE_WINDOW_SIZE
           /\ 2 * MAX_RELIABLE_WINDOW_SIZE = SEQNUM_MAX + 1
BY Sizes, LimitBounds DEF WindowFits

-----------------------------------------------------------------------------
(* The sender *)

\* The test of getOutgoingSequenceNumber() keeps the next number, next, within
\* two places more than the window of the oldest packet sent.
LEMMA AvailableBound ==
    ASSUME WindowFits, TypeOK,
           outgoing_reliables_sent # <<>>,
           NEW o \in Int, NEW next \in Int,
           outgoing_reliables_sent[1].seq = NumberOf(o),
           next - o \in 1 .. SEQNUM_MAX,
           SeqnumAvailable(NumberOf(next))
    PROVE  next + 1 - o =< Limit
<1> DEFINE x == next - o
           e == SEQNUM_INITIAL - 1 + o
           low == u16(e)
           high == u16(e + x)
<1>1. /\ e \in Int /\ x \in 1 .. SEQNUM_MAX /\ x \in 0 .. SEQNUM_MAX
      /\ SEQNUM_INITIAL - 1 + next = e + x
  BY Sizes
<1>2. NumberOf(o) = low /\ NumberOf(next) = high
  BY <1>1 DEF NumberOf
<1>3. x + 1 = next + 1 - o
  OBVIOUS
<1> HIDE DEF e, x
<1>4. /\ low \in 0 .. SEQNUM_MAX
      /\ high = IF low + x =< SEQNUM_MAX THEN low + x ELSE low + x - (SEQNUM_MAX + 1)
  BY <1>1, NumberStep
<1>5. window_size \in Int /\ window_size =< WindowCap /\ WindowCap + 2 =< Limit /\ Limit \in Nat
      /\ WindowCap \in Nat
  BY LimitBounds DEF TypeOK
<1>6. IF low < high THEN high - low =< window_size
                    ELSE high + (SEQNUM_MAX - low) =< window_size
  BY <1>2 DEF SeqnumAvailable
<1> HIDE DEF low, high, Limit
<1>7. x + 1 =< Limit
  <2>1. SEQNUM_MAX \in Nat
    BY CircleSize
  <2>2. CASE low < high
    BY <1>1, <1>4, <1>5, <1>6, <2>1, <2>2
  <2>3. CASE ~ (low < high)
    BY <1>1, <1>4, <1>5, <1>6, <2>1, <2>3
  <2> QED BY <2>2, <2>3
<1> QED BY <1>3, <1>7

\* The numbers of the packets of a command continue those of the history.
LEMMA NumberPacketsQueues ==
    ASSUME IInv, NEW c \in Command, NumberPackets(c)
    PROVE  /\ Len(sent') = Len(sent) + c.chunks
           /\ Len(queued_reliables') = Len(queued_reliables) + c.chunks
           /\ DOMAIN queued_reliables' = 1 .. Len(queued_reliables) + c.chunks
           /\ \A i \in 1 .. Len(queued_reliables) : queued_reliables'[i] = queued_reliables[i]
           /\ \A i \in 1 .. c.chunks :
                 queued_reliables'[Len(queued_reliables) + i] =
                     [seq |-> NumberOf(Len(sent) + i), idx |-> Len(sent) + i]
           /\ next_outgoing_seqnum' = NumberOf(Len(sent') + 1)
<1> DEFINE n == c.chunks
           first == Len(sent)
           packets == [i \in 1 .. n |->
                          [seq |-> u16(next_outgoing_seqnum + i - 1), idx |-> first + i]]
           history == [i \in 1 .. n |-> [cmd |-> c.id, last |-> i = n]]
           H == [cmd : 1 .. MaxCommands, last : BOOLEAN]
<1>1. /\ n \in Nat /\ c.id \in 1 .. MaxCommands
      /\ sent \in Seq(H) /\ first \in Nat
      /\ next_outgoing_seqnum = NumberOf(first + 1)
      /\ queued_reliables \in Seq(Packet)
  BY ChannelAssumption, StateFacts DEF IInv, TypeOK, Command, NumbersRight
<1>2. /\ queued_reliables' = queued_reliables \o packets
      /\ next_outgoing_seqnum' = u16(next_outgoing_seqnum + n)
      /\ sent' = sent \o history
  BY DEF NumberPackets
<1>3. \A i \in 1 .. n : u16(next_outgoing_seqnum + i - 1) = NumberOf(first + i)
                        /\ NumberOf(first + i) \in Seqnum
  <2> TAKE i \in 1 .. n
  <2> DEFINE j == first + 1
             y == i - 1
  <2>1. j \in Int /\ y \in Int /\ j + y = first + i
    BY <1>1
  <2>2. NumberOf(first + 1) \in Int
    <3>1. first + 1 \in Int /\ 0 \in Int
      BY <1>1
    <3> QED BY <3>1, NumberOfMoved, CircleSize DEF Seqnum
  <2>3. next_outgoing_seqnum + i - 1 = NumberOf(j) + y
    BY <1>1, <2>2
  <2> HIDE DEF j, y, n, first
  <2>4. u16(NumberOf(j) + y) = NumberOf(j + y) /\ NumberOf(j + y) \in Seqnum
    BY <2>1, NumberOfMoved
  <2> QED BY <2>1, <2>3, <2>4
<1>4. packets = [i \in 1 .. n |-> [seq |-> NumberOf(first + i), idx |-> first + i]]
  BY <1>3
<1>5. packets \in Seq(Packet) /\ Len(packets) = n
  <2> HIDE DEF n, first
  <2>1. \A i \in 1 .. n : first + i \in Nat \ {0}
    BY <1>1
  <2>2. \A i \in 1 .. n : [seq |-> NumberOf(first + i), idx |-> first + i] \in Packet
    <3> HIDE DEF packets
    <3> QED BY <2>1, <1>3 DEF Packet
  <2>3. packets \in [1 .. n -> Packet]
    BY <1>4, <2>2
  <2> QED BY <1>1, <2>3, FunctionIsSeq
<1>6. history \in Seq(H) /\ Len(history) = n
  <2> HIDE DEF n
  <2>1. history \in [1 .. n -> H]
    BY <1>1
  <2> QED BY <1>1, <2>1, FunctionIsSeq
<1>7. next_outgoing_seqnum' = NumberOf(first + 1 + n)
  <2> DEFINE j == first + 1
  <2>1. j \in Int
    BY <1>1
  <2> HIDE DEF j, n, first
  <2>2. u16(NumberOf(j) + n) = NumberOf(j + n)
    BY <1>1, <2>1, NumberOfMoved
  <2> QED BY <1>1, <1>2, <2>2 DEF j
<1>8. \A i \in 1 .. n : packets[i] = [seq |-> NumberOf(first + i), idx |-> first + i]
  BY <1>4
<1> HIDE DEF packets, history, H, n, first
<1>9. Len(sent') = first + n
  BY <1>1, <1>2, <1>6, ConcatProperties DEF first
<1>10. /\ Len(queued_reliables') = Len(queued_reliables) + n
       /\ DOMAIN queued_reliables' = 1 .. Len(queued_reliables) + n
       /\ \A i \in 1 .. Len(queued_reliables) : queued_reliables'[i] = queued_reliables[i]
       /\ \A i \in 1 .. n : queued_reliables'[Len(queued_reliables) + i] = packets[i]
  <2>1. Len(queued_reliables) \in Nat
    BY <1>1, LenProperties
  <2>2. /\ queued_reliables' \in Seq(Packet)
        /\ Len(queued_reliables') = Len(queued_reliables) + n
        /\ \A i \in 1 .. Len(queued_reliables) + n :
              queued_reliables'[i] = IF i =< Len(queued_reliables) THEN queued_reliables[i]
                                     ELSE packets[i - Len(queued_reliables)]
    BY <1>1, <1>2, <1>5, ConcatProperties
  <2>3. DOMAIN queued_reliables' = 1 .. Len(queued_reliables')
    BY <2>2, LenProperties
  <2> DEFINE k == Len(queued_reliables)
  <2> HIDE DEF k
  <2>4. ASSUME NEW i \in 1 .. n
        PROVE  queued_reliables'[k + i] = packets[i]
    <3>1. k + i \in 1 .. k + n /\ ~ (k + i =< k) /\ (k + i) - k = i
      BY <1>1, <2>1 DEF k
    <3>2. queued_reliables'[k + i] = packets[(k + i) - k]
      BY <3>1, <2>2 DEF k
    <3> QED BY <3>1, <3>2
  <2>5. ASSUME NEW i \in 1 .. k
        PROVE  queued_reliables'[i] = queued_reliables[i]
    <3>1. i \in 1 .. k + n /\ i =< k
      BY <1>1, <2>1 DEF k
    <3> QED BY <3>1, <2>2 DEF k
  <2> QED BY <2>2, <2>3, <2>4, <2>5 DEF k
<1>11. Len(sent') + 1 = first + 1 + n
  BY <1>1, <1>9
<1> QED BY <1>7, <1>8, <1>9, <1>10, <1>11 DEF n, first

\* A command that gets its numbers leaves the oldest outstanding packet within
\* Limit of the next number.
LEMMA NumbersWithinLimit ==
    ASSUME WindowFits, IInv, NEW c \in Command, HaveSequenceNumbers(c),
           Len(queued_reliables) + c.chunks =< Limit
    PROVE  \A i \in Outstanding : Len(sent) + c.chunks + 1 - i =< Limit
<1> DEFINE n == c.chunks
           N == Len(sent)
           q == Len(queued_reliables)
           L == Limit
<1>1. /\ n \in Int /\ n >= 1 /\ n =< MaxChunks /\ N \in Nat /\ q \in Nat /\ MaxChunks \in Nat
      /\ L \in Nat /\ MaxChunks - 1 =< L /\ q + n =< L
      /\ 2 * L =< SEQNUM_MAX
  <2>1. n \in Int /\ n >= 1 /\ n =< MaxChunks
    BY ChannelAssumption DEF Command
  <2>2. MaxChunks \in Nat /\ MaxPacketsRequeued \in Nat /\ L \in Nat
        /\ L >= MaxPacketsRequeued + MaxChunks - 1
    BY LimitBounds
  <2>3. 2 * L =< SEQNUM_MAX
    <3> HIDE DEF L
    <3>1. /\ MAX_RELIABLE_WINDOW_SIZE \in Nat /\ L \in Nat
          /\ 2 * L =< MAX_RELIABLE_WINDOW_SIZE
          /\ 2 * MAX_RELIABLE_WINDOW_SIZE = SEQNUM_MAX + 1
          /\ MAX_RELIABLE_WINDOW_SIZE >= 4
      BY FitFacts DEF L
    <3> QED BY <3>1, CircleSize
  <2> HIDE DEF L
  <2> QED BY <2>1, <2>2, <2>3, StateFacts DEF IInv, L
<1>2. /\ \A j \in DOMAIN queued_reliables :
           queued_reliables[j].idx = (N - q) + j /\ j \in 1 .. q
      /\ \A j \in DOMAIN outgoing_reliables_sent :
           /\ outgoing_reliables_sent[j].idx \in Int
           /\ outgoing_reliables_sent[j].idx =< N - q
           /\ outgoing_reliables_sent[j].seq = NumberOf(outgoing_reliables_sent[j].idx)
           /\ N + 1 - outgoing_reliables_sent[j].idx =< L
  <2>1. \A j \in DOMAIN outgoing_reliables_sent : outgoing_reliables_sent[j].idx \in Outstanding
    BY DEF Outstanding, Listed
  <2> QED BY <2>1, StateFacts DEF IInv, QueueIsLast, NumbersRight, Numbered, OutstandingBounded
<1>3. CASE outgoing_reliables_sent = <<>>
  <2> SUFFICES ASSUME NEW i \in Outstanding PROVE N + n + 1 - i =< L
    OBVIOUS
  <2>1. PICK j \in DOMAIN queued_reliables : i = queued_reliables[j].idx
    BY <1>3 DEF Outstanding, Listed
  <2>2. i = (N - q) + j /\ j \in 1 .. q
    BY <1>2, <2>1
  <2> HIDE DEF L, N, q, n
  <2> QED BY <1>1, <2>2
<1>4. CASE outgoing_reliables_sent # <<>>
  <2> DEFINE o == outgoing_reliables_sent[1].idx
             next == N + n
  <2>1. outgoing_reliables_sent \in Seq(Packet)
    BY DEF IInv, TypeOK
  <2>2. /\ DOMAIN outgoing_reliables_sent = 1 .. Len(outgoing_reliables_sent)
        /\ Len(outgoing_reliables_sent) \in Nat
        /\ 1 \in DOMAIN outgoing_reliables_sent
    BY <2>1, <1>4, LenProperties, EmptySeq
  <2>3. /\ o \in Int /\ o =< N - q /\ N + 1 - o =< L
        /\ outgoing_reliables_sent[1].seq = NumberOf(o)
    BY <1>2, <2>2
  <2>4. \A i \in Outstanding : i \in Int /\ o =< i
    <3> SUFFICES ASSUME NEW i \in Outstanding PROVE i \in Int /\ o =< i
      OBVIOUS
    <3>1. CASE i \in Listed(queued_reliables)
      <4>1. PICK j \in DOMAIN queued_reliables : i = queued_reliables[j].idx
        BY <3>1 DEF Listed
      <4>2. i = (N - q) + j /\ j \in 1 .. q
        BY <1>2, <4>1
      <4> HIDE DEF o, N, q, n
      <4> QED BY <1>1, <2>3, <4>2
    <3>2. CASE i \in Listed(outgoing_reliables_sent)
      <4>1. PICK j \in DOMAIN outgoing_reliables_sent : i = outgoing_reliables_sent[j].idx
        BY <3>2 DEF Listed
      <4>2. i \in Int /\ (1 < j => o < i) /\ j \in Int /\ j >= 1
        BY <1>2, <2>2, <4>1 DEF IInv, ListsSorted, Sorted
      <4> QED BY <4>1, <4>2, <2>3
    <3> QED BY <3>1, <3>2 DEF Outstanding
  <2>5. SeqnumAvailable(NumberOf(next))
    <3> DEFINE a == N + 1
               y == n - 1
    <3>1. a \in Int /\ y \in Int /\ a + y = next /\ y \in 0 .. n - 1
      BY <1>1
    <3>2. SeqnumAvailable(u16(next_outgoing_seqnum + y))
      BY <3>1 DEF HaveSequenceNumbers
    <3>3. next_outgoing_seqnum = NumberOf(a)
      BY DEF IInv, NumbersRight
    <3> HIDE DEF a, y, next
    <3>4. u16(NumberOf(a) + y) = NumberOf(a + y)
      BY <3>1, NumberOfMoved
    <3> QED BY <3>1, <3>2, <3>3, <3>4
  <2> HIDE DEF o, N, L, q, n
  <2>6. next \in Int /\ next - o \in 1 .. SEQNUM_MAX
    BY <1>1, <2>3, CircleSize
  <2>7. TypeOK
    BY DEF IInv
  <2> HIDE DEF next
  <2>8. next + 1 - o =< Limit
    BY <1>4, <2>3, <2>5, <2>6, <2>7, AvailableBound
  <2>9. \A i \in Outstanding : next + 1 - i =< L
    BY <2>3, <2>4, <2>6, <2>8, <1>1 DEF L
  <2> QED BY <2>9 DEF next, N, n, L
<1> QED BY <1>3, <1>4

\* Numbering the packets of a command keeps the invariant.
LEMMA NumberPacketsKeeps ==
    ASSUME WindowFits, IInv, TypeOK', NEW c \in Command, HaveSequenceNumbers(c),
           Len(queued_reliables) + c.chunks =< Limit,
           NumberPackets(c),
           UNCHANGED <<outgoing_reliables_sent, receiver, delivered>>
    PROVE  IInv'
<1> DEFINE n == c.chunks
           N == Len(sent)
           q == Len(queued_reliables)
<1>1. /\ N \in Nat /\ q \in Nat /\ n \in Nat /\ n >= 1 /\ N - q >= 0
      /\ DOMAIN queued_reliables = 1 .. q
  BY StateFacts, ChannelAssumption DEF IInv, QueueIsLast, Command
<1>2. /\ Len(sent') = N + n
      /\ Len(queued_reliables') = q + n
      /\ DOMAIN queued_reliables' = 1 .. q + n
      /\ \A i \in 1 .. q : queued_reliables'[i] = queued_reliables[i]
      /\ \A i \in 1 .. n : queued_reliables'[q + i] =
                              [seq |-> NumberOf(N + i), idx |-> N + i]
      /\ next_outgoing_seqnum' = NumberOf(Len(sent') + 1)
  BY NumberPacketsQueues
<1>3. data' = Alive(data, N + n) /\ acks' = Alive(acks, N + n)
  BY DEF NumberPackets
<1>4. UNCHANGED <<outgoing_reliables_sent, next_incoming_seqnum, incoming_reliables,
                  packet_queued, delivered>>
  BY DEF receiver
<1> HIDE DEF n, N, q
<1>5. /\ \A j \in 1 .. q : queued_reliables'[j].idx = (N - q) + j
                           /\ queued_reliables'[j].idx \in Int
                           /\ queued_reliables'[j].seq = NumberOf(queued_reliables'[j].idx)
      /\ \A i \in 1 .. n : queued_reliables'[q + i].idx = N + i
                           /\ queued_reliables'[q + i].seq = NumberOf(N + i)
  <2>1. \A j \in 1 .. q : queued_reliables[j].idx = (N - q) + j
                          /\ queued_reliables[j].seq = NumberOf(queued_reliables[j].idx)
    BY <1>1 DEF IInv, QueueIsLast, NumbersRight, Numbered, N, q
  <2>2. \A j \in 1 .. q : queued_reliables'[j].idx = (N - q) + j
                          /\ queued_reliables'[j].idx \in Int
                          /\ queued_reliables'[j].seq = NumberOf(queued_reliables'[j].idx)
    BY <1>1, <1>2, <2>1
  <2>3. ASSUME NEW i \in 1 .. n
        PROVE  queued_reliables'[q + i].idx = N + i
               /\ queued_reliables'[q + i].seq = NumberOf(N + i)
    <3>1. queued_reliables'[q + i] = [seq |-> NumberOf(N + i), idx |-> N + i]
      BY <1>2
    <3> QED BY <1>1, <3>1
  <2> QED BY <2>2, <2>3
<1>6. \A j \in 1 .. q + n : /\ queued_reliables'[j].idx = (N - q) + j
                            /\ queued_reliables'[j].seq = NumberOf(queued_reliables'[j].idx)
  <2> SUFFICES ASSUME NEW j \in 1 .. q + n
               PROVE  /\ queued_reliables'[j].idx = (N - q) + j
                      /\ queued_reliables'[j].seq = NumberOf(queued_reliables'[j].idx)
    OBVIOUS
  <2>1. CASE j =< q
    BY <1>1, <1>5, <2>1
  <2>2. CASE ~ (j =< q)
    <3> DEFINE i == j - q
    <3>1. i \in 1 .. n /\ q + i = j /\ N + i = (N - q) + j
      BY <1>1, <2>2
    <3> HIDE DEF i
    <3> QED BY <1>5, <3>1
  <2> QED BY <2>1, <2>2
<1>7. NumbersRight'
  <2>1. Len(delivered') =< Len(sent') /\ next_incoming_seqnum' = NumberOf(Len(delivered') + 1)
    BY <1>1, <1>2, <1>4, StateFacts DEF IInv, NumbersRight, N
  <2>2. \A j \in DOMAIN queued_reliables' : queued_reliables'[j].idx =< N + n
    BY <1>1, <1>2, <1>6
  <2>3. \A p : (p.idx \in Int /\ p.idx =< N) => p.idx =< N + n
    BY <1>1
  <2>4. /\ \A i \in DOMAIN outgoing_reliables_sent :
              outgoing_reliables_sent[i].seq = NumberOf(outgoing_reliables_sent[i].idx)
              /\ outgoing_reliables_sent[i].idx =< N + n
        /\ \A i \in DOMAIN incoming_reliables :
              incoming_reliables[i].seq = NumberOf(incoming_reliables[i].idx)
              /\ incoming_reliables[i].idx =< N + n
        /\ \A d \in data \cup acks : d.seq = NumberOf(d.idx) /\ d.idx =< N + n
    BY <2>3, StateFacts DEF IInv, NumbersRight, Numbered, N
  <2>5. data' \subseteq data /\ acks' \subseteq acks
    BY <1>3 DEF Alive
  <2> QED BY <1>2, <1>4, <1>6, <2>1, <2>2, <2>4, <2>5 DEF NumbersRight, Numbered, NumberOf
<1>8. QueueIsLast'
  <2>1. Len(sent') - Len(queued_reliables') = N - q
    BY <1>1, <1>2
  <2>2. \A i \in DOMAIN outgoing_reliables_sent : outgoing_reliables_sent[i].idx =< N - q
    BY DEF IInv, QueueIsLast, N, q
  <2> QED BY <1>1, <1>2, <1>4, <1>6, <2>1, <2>2 DEF QueueIsLast
<1>9. ListsSorted'
  BY <1>4 DEF IInv, ListsSorted, Sorted
<1>10. Listed(queued_reliables') = Listed(queued_reliables) \cup (N + 1) .. (N + n)
  <2>1. Listed(queued_reliables) = {(N - q) + j : j \in 1 .. q}
    <3>1. \A j \in 1 .. q : queued_reliables[j].idx = (N - q) + j
      BY <1>2, <1>5
    <3> QED BY <1>1, <3>1 DEF Listed
  <2>2. Listed(queued_reliables') = {(N - q) + j : j \in 1 .. q + n}
    BY <1>2, <1>6 DEF Listed
  <2>3. \A j \in 1 .. q + n : j =< q \/ (N - q) + j \in (N + 1) .. (N + n)
    BY <1>1
  <2>4. \A i \in (N + 1) .. (N + n) : i - (N - q) \in 1 .. q + n /\ (N - q) + (i - (N - q)) = i
    BY <1>1
  <2>5. \A j \in 1 .. q : j \in 1 .. q + n
    BY <1>1
  <2>6. \A j \in 1 .. q + n : j =< q => j \in 1 .. q
    BY <1>1
  <2> QED BY <2>1, <2>2, <2>3, <2>4, <2>5, <2>6
<1>11. Outstanding' = Outstanding \cup (N + 1) .. (N + n)
  BY <1>4, <1>10 DEF Outstanding, Listed
<1>12. OutstandingBounded'
  <2>1. \A i \in Outstanding : N + n + 1 - i =< Limit
    BY NumbersWithinLimit DEF N, n
  <2>2. n =< Limit /\ Limit \in Int
    BY <1>1, LimitBounds DEF n, q
  <2>3. \A i \in (N + 1) .. (N + n) : N + n + 1 - i =< Limit
    <3> HIDE DEF Limit
    <3> QED BY <1>1, <2>2
  <2>4. Limit' = Limit
    BY DEF Limit
  <2> QED BY <1>2, <1>11, <2>1, <2>3, <2>4 DEF OutstandingBounded
<1>13. DatagramsRecent'
  <2>1. /\ \A d \in data' : d \in data /\ N + n - d.born =< Lifetime
        /\ \A a \in acks' : a \in acks /\ N + n - a.born =< Lifetime
    <3> DEFINE m == N + n
    <3> HIDE DEF m
    <3>1. data' = Alive(data, m) /\ acks' = Alive(acks, m)
      BY <1>3 DEF m
    <3>2. /\ \A d \in data' : d \in data /\ m - d.born =< Lifetime
          /\ \A a \in acks' : a \in acks /\ m - a.born =< Lifetime
      BY <3>1 DEF Alive
    <3> QED BY <1>1, <3>2, StateFacts DEF m, IInv
  <2>2. \A d \in data \cup acks : d.born \in Nat /\ d.born =< N + n
    BY <1>1, StateFacts DEF IInv, DatagramsRecent, N
  <2>3. /\ \A d \in data : d.born + 1 - d.idx =< Limit
        /\ \A a \in acks : a.born + 1 - a.idx =< Limit + Lifetime
    BY DEF IInv, DatagramsRecent
  <2>4. /\ \A d \in data' \cup acks' : d.born =< Len(sent') /\ Len(sent') - d.born =< Lifetime
        /\ \A d \in data' : d.born + 1 - d.idx =< Limit
        /\ \A a \in acks' : a.born + 1 - a.idx =< Limit + Lifetime
    <3>1. \A d \in data' \cup acks' : d \in data \cup acks /\ N + n - d.born =< Lifetime
      BY <2>1
    <3>2. \A d \in data' \cup acks' : d.born =< Len(sent') /\ Len(sent') - d.born =< Lifetime
      BY <1>1, <1>2, <2>2, <3>1
    <3>3. \A d \in data' : d.born + 1 - d.idx =< Limit
      BY <2>1, <2>3
    <3>4. \A a \in acks' : a.born + 1 - a.idx =< Limit + Lifetime
      BY <2>1, <2>3
    <3> QED BY <3>2, <3>3, <3>4
  <2>5. Limit' = Limit
    BY DEF Limit
  <2> QED BY <2>4, <2>5 DEF DatagramsRecent
<1>14. AcksTrue'
  BY <1>3, <1>4 DEF IInv, AcksTrue, Received, Alive, Listed
<1>15. BufferedNear'
  BY <1>4 DEF IInv, BufferedNear, Limit
<1>16. NothingForgotten'
  <2>1. \A i \in 1 .. N + n : i \in 1 .. N \/ i \in (N + 1) .. (N + n)
    BY <1>1
  <2>2. \A i \in 1 .. N : i \in Outstanding \/ Received(i)
    BY DEF IInv, NothingForgotten, N
  <2> QED BY <1>2, <1>4, <1>11, <2>1, <2>2 DEF NothingForgotten, Received, Listed
<1>17. InOrder'
  BY <1>4 DEF IInv, InOrder
<1> QED BY <1>7, <1>8, <1>9, <1>12, <1>13, <1>14, <1>15, <1>16, <1>17 DEF IInv

\* Steps that number no packet: what new datagrams have to be for the part of
\* the invariant that is about the network.
LEMMA DatagramsStayRecent ==
    ASSUME IInv, UNCHANGED sent,
           \A d \in data' : d \in data \/ (d.born = Len(sent) /\ Len(sent) + 1 - d.idx =< Limit),
           \A a \in acks' : a \in acks \/ (a.born = Len(sent)
                                           /\ Len(sent) + 1 - a.idx =< Limit + Lifetime)
    PROVE  DatagramsRecent'
<1>1. Len(sent) \in Nat /\ Lifetime \in Nat /\ Limit' = Limit
  BY StateFacts, LimitBounds DEF IInv, Limit
<1>2. DatagramsRecent
  BY DEF IInv
<1>3. Len(sent) =< Len(sent) /\ Len(sent) - Len(sent) =< Lifetime
  BY <1>1
<1> HIDE DEF Limit
<1>4. \A d \in data' \cup acks' : d.born =< Len(sent') /\ Len(sent') - d.born =< Lifetime
  BY <1>2, <1>3 DEF DatagramsRecent
<1>5. \A d \in data' : d.born + 1 - d.idx =< Limit
  BY <1>2 DEF DatagramsRecent
<1>6. \A a \in acks' : a.born + 1 - a.idx =< Limit + Lifetime
  BY <1>2 DEF DatagramsRecent
<1> QED BY <1>1, <1>4, <1>5, <1>6 DEF DatagramsRecent

\* Inserting a numbered packet less than a window ahead of packet number base.
LEMMA InsertNumbered ==
    ASSUME NEW list \in Seq(Packet), NEW p \in Packet, NEW base \in Int, NEW e,
           e = NumberOf(base),
           Sorted(list),
           \A j \in DOMAIN list : /\ list[j].seq = NumberOf(list[j].idx)
                                  /\ list[j].idx - base \in 0 .. SEQNUM_MAX,
           p.seq = NumberOf(p.idx),
           p.idx - base \in 1 .. MAX_RELIABLE_WINDOW_SIZE - 1
    PROVE  Inserted(insert(list, p, e), list, p)
<1> DEFINE origin == SEQNUM_INITIAL - 1
<1>1. \A i : NumberOf(i) = u16(origin + i)
  BY DEF NumberOf
<1>2. origin \in Int
  BY Sizes
<1>3. \A r \in Packet : r.idx \in Int
  BY DEF Packet
<1> HIDE DEF origin
<1>4. e = u16(origin + base)
  BY <1>1
<1>5. Insertable(list, p, origin, base)
  BY <1>1 DEF Insertable
<1>6. Inserted(insert(list, p, u16(origin + base)), list, p)
  BY <1>2, <1>3, <1>5, InsertKeepsOrder
<1> QED BY <1>4, <1>6

\* Sending the oldest queued packet keeps the invariant.
LEMMA SendQueuedKeeps ==
    ASSUME WindowFits, IInv, TypeOK', SendQueued
    PROVE  IInv'
<1> DEFINE N == Len(sent)
           q == Len(queued_reliables)
           W == MAX_RELIABLE_WINDOW_SIZE
           p == Head(queued_reliables)
           origin == SEQNUM_INITIAL - 1
           base == N + 1 - W
           list == outgoing_reliables_sent
           l == insert(list, p, u16(origin + base))
<1>1. /\ UNCHANGED <<sent, delivered, next_outgoing_seqnum, next_incoming_seqnum,
                     incoming_reliables, packet_queued, acks>>
      /\ queued_reliables' = Tail(queued_reliables)
      /\ queued_reliables # <<>>
      /\ data' = data \cup {Sent(p)}
  BY DEF SendQueued, sendAsPacketReliable, receiver
<1>2. /\ N \in Nat /\ q \in Nat /\ q >= 1 /\ queued_reliables \in Seq(Packet)
      /\ list \in Seq(Packet) /\ W \in Nat /\ origin \in Int /\ base \in Int
      /\ DOMAIN queued_reliables = 1 .. q
  <2>1. queued_reliables \in Seq(Packet) /\ list \in Seq(Packet)
    BY DEF IInv, TypeOK
  <2>2. q # 0
    BY <1>1, <2>1, EmptySeq
  <2>3. N \in Nat /\ q \in Nat /\ W \in Nat /\ SEQNUM_INITIAL \in Int
        /\ DOMAIN queued_reliables = 1 .. q
    BY StateFacts, Sizes DEF IInv
  <2> QED BY <2>1, <2>2, <2>3
<1>3. /\ p = queued_reliables[1] /\ p \in Packet
      /\ Tail(queued_reliables) \in Seq(Packet)
      /\ Len(Tail(queued_reliables)) = q - 1
      /\ \A i \in 1 .. q - 1 : Tail(queued_reliables)[i] = queued_reliables[i + 1]
  BY <1>1, <1>2, HeadTailProperties
<1>4. /\ \A i \in 1 .. q : queued_reliables[i].idx = (N - q) + i
                           /\ queued_reliables[i].idx \in Int
                           /\ queued_reliables[i].seq = NumberOf(queued_reliables[i].idx)
      /\ p.idx = (N - q) + 1 /\ p.seq = NumberOf(p.idx)
  <2>1. \A i \in 1 .. q : queued_reliables[i].idx = (N - q) + i
                           /\ queued_reliables[i].idx \in Int
                           /\ queued_reliables[i].seq = NumberOf(queued_reliables[i].idx)
    BY <1>2 DEF IInv, QueueIsLast, NumbersRight, Numbered
  <2>2. 1 \in 1 .. q
    BY <1>2
  <2> QED BY <2>1, <2>2, <1>3
<1>5. outgoing_reliables_sent' = l
  <2>1. next_outgoing_seqnum = NumberOf(N + 1)
    BY DEF IInv, NumbersRight
  <2>2. u16(NumberOf(N + 1) - W) = u16(origin + base)
    <3> DEFINE a == N + 1
               y == -W
    <3>1. a \in Int /\ y \in Int /\ a + y = base
      BY <1>2
    <3>2. NumberOf(a) \in Int
      BY <3>1, <1>2, NumberOfMoved, CircleSize DEF Seqnum
    <3>3. NumberOf(a) - W = NumberOf(a) + y
      BY <3>2, <1>2
    <3> HIDE DEF a, y
    <3>4. u16(NumberOf(a) + y) = NumberOf(a + y)
      BY <3>1, NumberOfMoved
    <3>5. u16(NumberOf(a) - W) = NumberOf(base)
      BY <3>1, <3>3, <3>4
    <3> QED BY <3>5 DEF a, NumberOf
  <2> QED BY <2>1, <2>2 DEF SendQueued, sendAsPacketReliable
<1>6. /\ \A i \in Outstanding : i \in Int /\ N + 1 - i =< Limit /\ i =< N
      /\ p.idx \in Outstanding
      /\ \A j \in DOMAIN list : list[j].idx \in Outstanding
  <2>1. \A i \in Outstanding : N + 1 - i =< Limit
    BY DEF IInv, OutstandingBounded
  <2>2. \A i \in Outstanding : i \in Int /\ i =< N
    BY StateFacts DEF IInv, NumbersRight, Numbered, Outstanding, Listed
  <2>3. 1 \in DOMAIN queued_reliables
    BY <1>2
  <2> QED BY <2>1, <2>2, <2>3, <1>3 DEF Outstanding, Listed
<1>7. \A i \in Outstanding : i - base \in 1 .. W - 1 /\ i - base \in 0 .. SEQNUM_MAX
  <2> SUFFICES ASSUME NEW i \in Outstanding
               PROVE  i - base \in 1 .. W - 1 /\ i - base \in 0 .. SEQNUM_MAX
    OBVIOUS
  <2>1. i \in Int /\ N + 1 - i =< Limit /\ i =< N
    BY <1>6
  <2>2. /\ Limit \in Nat /\ Limit >= 2 /\ 2 * Limit =< W /\ SEQNUM_MAX \in Nat
        /\ 2 * W = SEQNUM_MAX + 1
    BY FitFacts
  <2> HIDE DEF Limit
  <2> QED BY <1>2, <2>1, <2>2
<1>8. /\ Sorted(l)
      /\ Listed(l) = Listed(list) \cup {p.idx}
      /\ \A k \in DOMAIN l : l[k] = p \/ \E j \in DOMAIN list : l[k] = list[j]
  <2>1. \A r \in Packet : r.idx \in Int
    BY StateFacts DEF IInv
  <2>2. Sorted(list)
    BY DEF IInv, ListsSorted
  <2>3. \A j \in DOMAIN list : /\ list[j].seq = NumberOf(list[j].idx)
                               /\ list[j].idx - base \in 0 .. SEQNUM_MAX
    BY <1>6, <1>7 DEF IInv, NumbersRight, Numbered
  <2>4. p.seq = NumberOf(p.idx) /\ p.idx - base \in 1 .. MAX_RELIABLE_WINDOW_SIZE - 1
    BY <1>4, <1>6, <1>7
  <2>5. list \in Seq(Packet) /\ p \in Packet /\ base \in Int
    BY <1>2, <1>3
  <2> DEFINE e == u16(origin + base)
  <2>6. e = NumberOf(base)
    BY DEF NumberOf
  <2> HIDE DEF p, base, origin, list, e
  <2>7. Inserted(insert(list, p, e), list, p)
    BY <2>2, <2>3, <2>4, <2>5, <2>6, InsertNumbered
  <2> QED BY <2>7 DEF l, e, Inserted
<1> HIDE DEF l, base, origin, p, N, q
<1>9. /\ Len(queued_reliables') = q - 1
      /\ DOMAIN queued_reliables' = 1 .. q - 1
      /\ \A i \in 1 .. q - 1 : queued_reliables'[i] = queued_reliables[i + 1] /\ i + 1 \in 1 .. q
  BY <1>1, <1>2, <1>3, LenProperties
<1>10. /\ Sent(p).seq = p.seq /\ Sent(p).idx = p.idx /\ Sent(p).born = N
  BY DEF Sent, N
<1>11. \A k \in DOMAIN outgoing_reliables_sent' :
          Numbered(outgoing_reliables_sent'[k]) /\ outgoing_reliables_sent'[k].idx =< (N - q) + 1
  <2>1. Numbered(p) /\ p.idx =< (N - q) + 1
    BY <1>2, <1>4 DEF Numbered, N
  <2>2. \A j \in DOMAIN list : Numbered(list[j]) /\ list[j].idx =< (N - q) + 1
    BY <1>2, StateFacts DEF IInv, NumbersRight, QueueIsLast, N, q
  <2> QED BY <1>5, <1>8, <2>1, <2>2
<1>12. NumbersRight'
  <2>1. \A i \in DOMAIN queued_reliables' : Numbered(queued_reliables'[i])
    BY <1>2, <1>9 DEF IInv, NumbersRight
  <2>2. \A d \in data' : Numbered(d)
    BY <1>1, <1>2, <1>4, <1>10 DEF IInv, NumbersRight, Numbered, N
  <2> QED BY <1>1, <1>11, <2>1, <2>2 DEF IInv, NumbersRight, Numbered, NumberOf
<1>13. QueueIsLast'
  <2>1. Len(sent') - Len(queued_reliables') = (N - q) + 1 /\ (N - q) + 1 >= 0
    BY <1>1, <1>2, <1>9 DEF IInv, QueueIsLast, N, q
  <2>2. \A i \in 1 .. q - 1 : queued_reliables'[i].idx = ((N - q) + 1) + i
    BY <1>2, <1>4, <1>9
  <2> QED BY <1>9, <1>11, <2>1, <2>2 DEF QueueIsLast
<1>14. ListsSorted'
  BY <1>1, <1>5, <1>8 DEF IInv, ListsSorted, Sorted
<1>15. Outstanding' = Outstanding
  <2>1. Listed(queued_reliables) = Listed(queued_reliables') \cup {p.idx}
    <3>1. \A i \in 1 .. q : i = 1 \/ (i - 1 \in 1 .. q - 1 /\ (i - 1) + 1 = i)
      BY <1>2
    <3>2. \A i \in 1 .. q : i = 1 \/ queued_reliables[i] = queued_reliables'[i - 1]
      BY <1>9, <3>1
    <3>3. 1 \in 1 .. q
      BY <1>2
    <3>4. \A i \in 1 .. q : queued_reliables[i].idx \in Listed(queued_reliables') \cup {p.idx}
      BY <1>3, <1>9, <3>1, <3>2 DEF Listed
    <3>5. \A i \in 1 .. q - 1 : queued_reliables'[i].idx \in Listed(queued_reliables)
      BY <1>2, <1>9 DEF Listed
    <3>6. p.idx \in Listed(queued_reliables)
      BY <1>2, <1>3, <3>3 DEF Listed
    <3> QED BY <1>2, <1>9, <3>4, <3>5, <3>6 DEF Listed
  <2>2. Listed(outgoing_reliables_sent') = Listed(outgoing_reliables_sent) \cup {p.idx}
    BY <1>5, <1>8
  <2> QED BY <2>1, <2>2 DEF Outstanding, Listed
<1>16. OutstandingBounded'
  BY <1>1, <1>15 DEF IInv, OutstandingBounded, Limit
<1>17. DatagramsRecent'
  <2>1. N + 1 - p.idx =< Limit
    BY <1>6
  <2> QED BY <1>1, <1>10, <2>1, DatagramsStayRecent DEF N
<1>18. AcksTrue'
  BY <1>1 DEF IInv, AcksTrue, Received, Listed
<1>19. BufferedNear'
  BY <1>1 DEF IInv, BufferedNear, Limit
<1>20. NothingForgotten'
  BY <1>1, <1>15 DEF IInv, NothingForgotten, Received, Listed
<1>21. InOrder'
  BY <1>1 DEF IInv, InOrder
<1> QED BY <1>12, <1>13, <1>14, <1>16, <1>17, <1>18, <1>19, <1>20, <1>21 DEF IInv

\* Sending a packet again keeps the invariant.
LEMMA ResendKeeps ==
    ASSUME IInv, TypeOK', NEW idx, Resend(idx)
    PROVE  IInv'
<1>1. PICK i \in DOMAIN outgoing_reliables_sent :
           data' = data \cup {Sent(outgoing_reliables_sent[i])}
  BY DEF Resend
<1>2. UNCHANGED <<sender, receiver, acks, submitted, sent, delivered>>
  BY DEF Resend
<1> DEFINE p == outgoing_reliables_sent[i]
           d == Sent(p)
<1>3. d.seq = p.seq /\ d.idx = p.idx /\ d.born = Len(sent)
  BY DEF Sent
<1>4. Numbered(p) /\ p.idx \in Outstanding
  BY DEF IInv, NumbersRight, Outstanding, Listed
<1> HIDE DEF p, d
<1>5. data' = data \cup {d} /\ Numbered(d)
  BY <1>1, <1>3, <1>4 DEF d, p, Numbered
<1>6. NumbersRight'
  BY <1>2, <1>5 DEF IInv, NumbersRight, Numbered, NumberOf, sender, receiver
<1>7. DatagramsRecent'
  <2>1. Len(sent) + 1 - p.idx =< Limit
    BY <1>4 DEF IInv, OutstandingBounded
  <2> QED BY <1>2, <1>3, <1>5, <2>1, DatagramsStayRecent
<1>8. /\ QueueIsLast' /\ ListsSorted' /\ OutstandingBounded' /\ AcksTrue' /\ BufferedNear'
      /\ NothingForgotten' /\ InOrder'
  BY <1>2 DEF IInv, QueueIsLast, ListsSorted, Sorted, OutstandingBounded, Outstanding, Listed,
     AcksTrue, Received, BufferedNear, NothingForgotten, InOrder, Limit, sender, receiver
<1> QED BY <1>6, <1>7, <1>8 DEF IInv

\* The steps that change nothing the invariant speaks of, or lose datagrams.
LEMMA OthersKeep ==
    ASSUME IInv, TypeOK',
           UNCHANGED <<queued_reliables, outgoing_reliables_sent, next_outgoing_seqnum,
                       next_incoming_seqnum, incoming_reliables, sent, delivered>>,
           packet_queued \/ ~ packet_queued,
           packet_queued' = TRUE \/ packet_queued' = packet_queued,
           data' \subseteq data, acks' \subseteq acks
    PROVE  IInv'
<1>1. NumbersRight' /\ QueueIsLast' /\ ListsSorted' /\ OutstandingBounded'
  BY DEF IInv, NumbersRight, Numbered, NumberOf, QueueIsLast, ListsSorted, Sorted,
     OutstandingBounded, Outstanding, Listed, Limit
<1>2. DatagramsRecent'
  BY DEF IInv, DatagramsRecent, Limit
<1>3. AcksTrue' /\ NothingForgotten' /\ InOrder'
  BY DEF IInv, AcksTrue, Received, Listed, NothingForgotten, Outstanding, InOrder
<1>4. BufferedNear'
  <2>1. Limit' = Limit /\ Len(delivered) + Limit =< Len(delivered) + 2 * Limit
    BY StateFacts, LimitBounds DEF IInv, Limit
  <2>2. \A i \in DOMAIN incoming_reliables :
           /\ incoming_reliables[i].idx > Len(delivered)
           /\ incoming_reliables[i].idx =<
                 Len(delivered) + (IF packet_queued THEN 2 * Limit ELSE Limit)
    BY DEF IInv, BufferedNear
  <2>3. \A i \in DOMAIN incoming_reliables : incoming_reliables[i].idx \in Int
    BY StateFacts DEF IInv
  <2>4. Len(delivered) \in Nat /\ Limit \in Nat
    BY StateFacts, LimitBounds DEF IInv
  <2>5. CASE packet_queued' = packet_queued
    BY <2>1, <2>2, <2>5 DEF BufferedNear
  <2>6. CASE packet_queued' = TRUE
    <3> HIDE DEF Limit
    <3>1. \A i \in DOMAIN incoming_reliables :
             incoming_reliables[i].idx =< Len(delivered) + 2 * Limit
      BY <2>2, <2>3, <2>4
    <3> QED BY <2>1, <2>2, <2>6, <3>1 DEF BufferedNear
  <2> QED BY <2>5, <2>6
<1> QED BY <1>1, <1>2, <1>3, <1>4 DEF IInv

\* An acknowledgement is for the packet it was sent for: taking it keeps the
\* invariant.
LEMMA ReceiveAckKeeps ==
    ASSUME WindowFits, IInv, TypeOK', NEW a \in acks, NEW keep, ReceiveAck(a, keep)
    PROVE  IInv'
<1> DEFINE list == outgoing_reliables_sent
           seqnum == a.seq
<1>1. /\ UNCHANGED <<queued_reliables, next_outgoing_seqnum, next_incoming_seqnum,
                     incoming_reliables, packet_queued, data, sent, delivered>>
      /\ acks' \subseteq acks
      /\ outgoing_reliables_sent' = IF Holds(list, seqnum) THEN popSeqnum(list, seqnum) ELSE list
  BY DEF ReceiveAck, Arrives, receiver
<1>2. CASE ~ Holds(list, seqnum)
  BY <1>1, <1>2, OthersKeep
<1>3. CASE Holds(list, seqnum)
  <2>1. list \in Seq(Packet) /\ \A r \in Packet : r.idx \in Int
    BY StateFacts DEF IInv, TypeOK
  <2>2. PICK i \in 1 .. Len(list) :
           list[i].seq = seqnum /\ popSeqnum(list, seqnum) = RemoveAt(list, i)
    <3> HIDE DEF list, seqnum
    <3> QED BY <1>3, <2>1, PopSeqnumRemoves
  <2>3. i \in DOMAIN list
    BY <2>1, LenProperties
  <2>4. list[i].idx = a.idx
    <3> DEFINE j == list[i].idx
               k == a.idx
               N == Len(sent)
    <3>1. NumberOf(j) = NumberOf(k)
      BY <2>2, <2>3 DEF IInv, NumbersRight, Numbered
    <3>2. /\ j \in Int /\ k \in Int /\ N \in Nat /\ j =< N /\ k =< N
      BY <2>3, StateFacts DEF IInv, NumbersRight, Numbered
    <3>3. N + 1 - j =< Limit
      BY <2>3 DEF IInv, OutstandingBounded, Outstanding, Listed
    <3>4. N + 1 - k =< Limit + 2 * Lifetime
      BY DatagramBounds
    <3> HIDE DEF j, k, N
    <3>5. j - k =< SEQNUM_MAX /\ k - j =< SEQNUM_MAX
      <4>1. /\ Limit \in Nat /\ Lifetime \in Nat /\ MAX_RELIABLE_WINDOW_SIZE \in Nat
            /\ Limit + Lifetime < MAX_RELIABLE_WINDOW_SIZE /\ SEQNUM_MAX \in Nat
            /\ 2 * MAX_RELIABLE_WINDOW_SIZE = SEQNUM_MAX + 1 /\ Limit >= 2
        BY FitFacts
      <4> HIDE DEF Limit
      <4> QED BY <4>1, <3>2, <3>3, <3>4
    <3>6. j = k
      BY <3>1, <3>2, <3>5, NumberTellsPacket
    <3> QED BY <3>6 DEF j, k
  <2>5. Received(a.idx)
    BY DEF IInv, AcksTrue
  <2>6. /\ Sorted(outgoing_reliables_sent')
        /\ Listed(outgoing_reliables_sent') = Listed(list) \ {a.idx}
        /\ \A k \in DOMAIN outgoing_reliables_sent' :
              \E j \in DOMAIN list : outgoing_reliables_sent'[k] = list[j]
    <3>1. outgoing_reliables_sent' = RemoveAt(list, i) /\ Sorted(list)
      BY <1>1, <1>3, <2>2 DEF IInv, ListsSorted
    <3> DEFINE s == outgoing_reliables_sent
    <3>2. s \in Seq(Packet) /\ i \in 1 .. Len(s) /\ Sorted(s)
      BY <2>1, <3>1
    <3> HIDE DEF s
    <3>3. LET l == RemoveAt(s, i)
          IN  /\ Sorted(l)
              /\ Listed(l) = Listed(s) \ {s[i].idx}
              /\ \A k \in DOMAIN l : \E j \in DOMAIN s : l[k] = s[j]
      BY <2>1, <3>2, RemoveAtKeepsOrder
    <3> QED BY <3>1, <3>3, <2>4 DEF s
  <2>7. Outstanding' = Listed(queued_reliables) \cup Listed(outgoing_reliables_sent')
    BY <1>1 DEF Outstanding, Listed
  <2>8. Outstanding' \subseteq Outstanding /\ Outstanding \subseteq Outstanding' \cup {a.idx}
    BY <2>6, <2>7 DEF Outstanding
  <2>9. NumbersRight' /\ QueueIsLast' /\ ListsSorted'
    <3>1. \A k \in DOMAIN outgoing_reliables_sent' :
             /\ Numbered(outgoing_reliables_sent'[k])
             /\ outgoing_reliables_sent'[k].idx =< Len(sent) - Len(queued_reliables)
      BY <2>6 DEF IInv, NumbersRight, QueueIsLast
    <3>2. NumbersRight'
      BY <1>1, <3>1 DEF IInv, NumbersRight, Numbered, NumberOf
    <3>3. QueueIsLast'
      BY <1>1, <3>1 DEF IInv, QueueIsLast
    <3>4. ListsSorted'
      BY <1>1, <2>6 DEF IInv, ListsSorted, Sorted
    <3> QED BY <3>2, <3>3, <3>4
  <2>10. OutstandingBounded'
    BY <1>1, <2>8 DEF IInv, OutstandingBounded, Limit
  <2>11. DatagramsRecent' /\ AcksTrue' /\ BufferedNear' /\ InOrder'
    BY <1>1 DEF IInv, DatagramsRecent, AcksTrue, Received, Listed, BufferedNear, InOrder, Limit
  <2>12. NothingForgotten'
    BY <1>1, <2>5, <2>8 DEF IInv, NothingForgotten, Received, Listed
  <2> QED BY <2>9, <2>10, <2>11, <2>12 DEF IInv
<1> QED BY <1>2, <1>3

-----------------------------------------------------------------------------
(* The receiver *)

\* What handing over packet idx, the next one, does to the invariant.
LEMMA HandOverKeeps ==
    ASSUME IInv, TypeOK', NEW idx, idx = Len(delivered) + 1, idx =< Len(sent),
           HandOver(idx), UNCHANGED <<sender, sent>>,
           Sorted(incoming_reliables'),
           Listed(incoming_reliables') = Listed(incoming_reliables) \ {idx},
           \A k \in DOMAIN incoming_reliables' :
              \E j \in DOMAIN incoming_reliables : incoming_reliables'[k] = incoming_reliables[j],
           \A k \in Listed(incoming_reliables') :
              k =< idx + (IF packet_queued' THEN 2 * Limit ELSE Limit),
           data' \subseteq data,
           \A a \in acks' : a \in acks \/ (/\ Numbered(a) /\ a.idx = idx
                                           /\ a.born = Len(sent)
                                           /\ Len(sent) + 1 - idx =< Limit + Lifetime)
    PROVE  IInv'
<1>1. /\ Len(delivered) \in Nat /\ Len(sent) \in Nat /\ delivered \in Seq(Nat \ {0})
      /\ DOMAIN delivered = 1 .. Len(delivered)
      /\ idx \in Nat \ {0}
  <2>1. Len(delivered) \in Nat /\ Len(sent) \in Nat /\ DOMAIN delivered = 1 .. Len(delivered)
    BY StateFacts DEF IInv
  <2>2. idx \in Nat \ {0}
    BY <2>1
  <2>. QED BY <2>1, <2>2 DEF IInv, TypeOK
<1>2. /\ delivered' = Append(delivered, idx)
      /\ Len(delivered') = idx
      /\ DOMAIN delivered' = 1 .. idx
      /\ \A i \in 1 .. Len(delivered) : delivered'[i] = delivered[i]
      /\ delivered'[idx] = idx
  <2>1. delivered' = Append(delivered, idx)
    BY DEF HandOver
  <2>2. /\ delivered' \in Seq(Nat \ {0})
        /\ Len(delivered') = Len(delivered) + 1
        /\ \A i \in 1 .. Len(delivered) : delivered'[i] = delivered[i]
        /\ delivered'[Len(delivered) + 1] = idx
    BY <2>1, <1>1, AppendProperties
  <2> QED BY <2>1, <2>2, LenProperties
<1>3. next_incoming_seqnum' = NumberOf(idx + 1)
  <2> DEFINE y == 1
  <2>1. y \in Int /\ idx \in Int
    BY <1>1
  <2>2. next_incoming_seqnum = NumberOf(idx)
    BY DEF IInv, NumbersRight
  <2>3. next_incoming_seqnum' = u16(NumberOf(idx) + y)
    BY <2>2 DEF HandOver
  <2> HIDE DEF y
  <2>4. u16(NumberOf(idx) + y) = NumberOf(idx + y)
    BY <2>1, NumberOfMoved
  <2> QED BY <2>3, <2>4 DEF y
<1>4. UNCHANGED <<queued_reliables, outgoing_reliables_sent, next_outgoing_seqnum, sent>>
  BY DEF sender
<1>5. NumbersRight'
  <2>1. \A k \in DOMAIN incoming_reliables' : Numbered(incoming_reliables'[k])
    BY DEF IInv, NumbersRight
  <2>2. \A d \in data' \cup acks' : Numbered(d)
    BY DEF IInv, NumbersRight
  <2> QED BY <1>2, <1>3, <1>4, <2>1, <2>2 DEF IInv, NumbersRight, Numbered, NumberOf
<1>6. QueueIsLast' /\ ListsSorted' /\ OutstandingBounded'
  BY <1>4 DEF IInv, QueueIsLast, ListsSorted, Sorted, OutstandingBounded, Outstanding,
     Listed, Limit
<1>7. DatagramsRecent'
  BY <1>4, DatagramsStayRecent
<1>8. \A i : (Received(i) /\ i \in Int) => Received(i)'
  <2> SUFFICES ASSUME NEW i \in Int, Received(i) PROVE Received(i)'
    OBVIOUS
  <2>1. i =< Len(delivered) => i =< idx
    BY <1>1
  <2>2. i = idx => i =< idx
    BY <1>1
  <2>3. i \in Listed(incoming_reliables) => i = idx \/ i \in Listed(incoming_reliables')
    OBVIOUS
  <2>4. i =< idx \/ i \in Listed(incoming_reliables')
    BY <2>1, <2>2, <2>3 DEF Received
  <2> QED BY <1>2, <2>4 DEF Received, Listed
<1>9. AcksTrue'
  <2> SUFFICES ASSUME NEW a \in acks' PROVE Received(a.idx)'
    BY DEF AcksTrue, Received, Listed
  <2>1. CASE a \in acks
    BY <2>1, <1>8, StateFacts DEF IInv, AcksTrue
  <2>2. CASE a \notin acks
    <3>1. a.idx = idx /\ idx =< idx
      BY <2>2, <1>1
    <3> QED BY <1>2, <3>1 DEF Received
  <2> QED BY <2>1, <2>2
<1>10. BufferedNear'
  <2>1. \A k \in Listed(incoming_reliables') : k > idx
    BY <1>1, BufferBounds
  <2>2. \A k \in DOMAIN incoming_reliables' : incoming_reliables'[k].idx \in Listed(incoming_reliables')
    BY DEF Listed
  <2>3. Limit' = Limit
    BY DEF Limit
  <2> QED BY <1>2, <2>1, <2>2, <2>3 DEF BufferedNear
<1>11. NothingForgotten'
  <2>1. \A i \in 1 .. Len(sent) : i \in Outstanding \/ Received(i)'
    BY <1>8 DEF IInv, NothingForgotten
  <2>2. Outstanding' = Outstanding
    BY <1>4 DEF Outstanding, Listed
  <2> QED BY <1>4, <2>1, <2>2 DEF NothingForgotten, Received, Listed
<1>12. InOrder'
  <2>1. \A i \in 1 .. idx : i = idx \/ i \in 1 .. Len(delivered)
    BY <1>1
  <2> QED BY <1>1, <1>2, <2>1 DEF IInv, InOrder
<1> QED BY <1>5, <1>6, <1>7, <1>9, <1>10, <1>11, <1>12 DEF IInv

\* The packet that BufferReady announces is the next one.
LEMMA ReadyIsNext ==
    ASSUME WindowFits, IInv, BufferReady
    PROVE  /\ incoming_reliables[1].idx = Len(delivered) + 1
           /\ Len(delivered) + 1 =< Len(sent)
           /\ Sorted(Tail(incoming_reliables))
           /\ Listed(Tail(incoming_reliables)) =
                 Listed(incoming_reliables) \ {Len(delivered) + 1}
           /\ \A k \in DOMAIN Tail(incoming_reliables) :
                 \E j \in DOMAIN incoming_reliables :
                    Tail(incoming_reliables)[k] = incoming_reliables[j]
<1> DEFINE s == incoming_reliables
           D == Len(delivered)
           k == incoming_reliables[1].idx
           j == D + 1
<1>1. s \in Seq(Packet) /\ s # <<>> /\ Sorted(s) /\ \A r \in Packet : r.idx \in Int
  BY StateFacts DEF IInv, TypeOK, ListsSorted, BufferReady, FirstSeqnumIs
<1>2. 1 \in DOMAIN s
  BY <1>1, EmptySeq, LenProperties
<1>3. /\ k \in Int /\ D \in Nat /\ j \in Int /\ k > D /\ k =< D + 2 * Limit /\ k =< Len(sent)
      /\ NumberOf(k) = NumberOf(j)
  <2>1. k \in Listed(incoming_reliables)
    BY <1>2 DEF Listed
  <2>2. D \in Nat /\ k \in Int /\ k > D /\ k =< D + 2 * Limit
    BY <2>1, BufferBounds, StateFacts DEF IInv
  <2>3. k =< Len(sent) /\ s[1].seq = NumberOf(k)
    BY <1>2 DEF IInv, NumbersRight, Numbered
  <2>4. s[1].seq = NumberOf(j)
    BY DEF BufferReady, FirstSeqnumIs, IInv, NumbersRight
  <2> QED BY <2>2, <2>3, <2>4
<1>4. k = j
  <2> HIDE DEF k, D
  <2>1. k - j =< SEQNUM_MAX /\ j - k =< SEQNUM_MAX
    <3>1. /\ Limit \in Nat /\ 2 * Limit =< MAX_RELIABLE_WINDOW_SIZE
          /\ MAX_RELIABLE_WINDOW_SIZE \in Nat /\ SEQNUM_MAX \in Nat
          /\ 2 * MAX_RELIABLE_WINDOW_SIZE = SEQNUM_MAX + 1 /\ Limit >= 2
      BY FitFacts
    <3> HIDE DEF Limit
    <3> QED BY <3>1, <1>3
  <2> HIDE DEF j
  <2> QED BY <1>3, <2>1, NumberTellsPacket
<1>5. /\ Sorted(Tail(s))
      /\ Listed(Tail(s)) = Listed(s) \ {s[1].idx}
      /\ \A i \in DOMAIN Tail(s) : \E m \in DOMAIN s : Tail(s)[i] = s[m]
  <2> HIDE DEF s
  <2> QED BY <1>1, TailKeepsOrder
<1> QED BY <1>3, <1>4, <1>5

\* Handing over a buffered packet keeps the invariant.
LEMMA UnbufferKeeps ==
    ASSUME WindowFits, IInv, TypeOK', Unbuffer
    PROVE  IInv'
<1> DEFINE idx == Len(delivered) + 1
<1>1. /\ BufferReady /\ packet_queued
      /\ incoming_reliables' = Tail(incoming_reliables)
      /\ HandOver(Head(incoming_reliables).idx)
      /\ UNCHANGED <<sender, packet_queued, data, acks, sent>>
  BY DEF Unbuffer
<1>2. Head(incoming_reliables) = incoming_reliables[1]
  BY DEF Head
<1>3. /\ Head(incoming_reliables).idx = idx /\ idx =< Len(sent)
      /\ Sorted(incoming_reliables')
      /\ Listed(incoming_reliables') = Listed(incoming_reliables) \ {idx}
      /\ \A k \in DOMAIN incoming_reliables' :
            \E j \in DOMAIN incoming_reliables : incoming_reliables'[k] = incoming_reliables[j]
  BY <1>1, <1>2, ReadyIsNext
<1>4. \A k \in Listed(incoming_reliables') :
         k =< idx + (IF packet_queued' THEN 2 * Limit ELSE Limit)
  <2> SUFFICES ASSUME NEW k \in Listed(incoming_reliables') PROVE k =< idx + 2 * Limit
    BY <1>1
  <2>1. k \in Int /\ k =< Len(delivered) + 2 * Limit
    BY <1>3, BufferBounds
  <2>2. Len(delivered) \in Nat /\ Limit \in Nat
    BY StateFacts, LimitBounds DEF IInv
  <2> HIDE DEF Limit
  <2> QED BY <2>1, <2>2
<1>5. \A a \in acks' : a \in acks
  BY <1>1
<1>6. HandOver(idx) /\ UNCHANGED <<sender, sent>> /\ data' \subseteq data
  BY <1>1, <1>3
<1> HIDE DEF idx
<1>7. idx = Len(delivered) + 1
  BY DEF idx
<1> QED BY <1>3, <1>4, <1>5, <1>6, <1>7, HandOverKeeps

\* When receive() reads a datagram, the sender is at most that far ahead, and
\* the datagram is that near to the next packet.
LEMMA ReadBounds ==
    ASSUME WindowFits, IInv, NEW d \in data, NEW keep, Reads(d, keep)
    PROVE  /\ Len(sent) =< Len(delivered) + 2 * Limit
           /\ packet_queued => Len(sent) =< Len(delivered) + Limit
           /\ Len(delivered) \in Nat /\ Len(sent) \in Nat /\ d.idx \in Int
           /\ d.idx =< Len(sent)
           /\ Len(sent) + 1 - d.idx =< Limit + Lifetime
           /\ d.idx - (Len(delivered) + 1) < MAX_RELIABLE_WINDOW_SIZE
           /\ (Len(delivered) + 1) - d.idx < MAX_RELIABLE_WINDOW_SIZE
<1> DEFINE N == Len(sent)
           D == Len(delivered)
           k == d.idx
           L == Limit
<1>1. N \in Nat /\ D \in Nat /\ k \in Int /\ D =< N
  BY StateFacts DEF IInv, NumbersRight
<1>2. k =< N /\ N + 1 - k =< L + Lifetime
  BY DatagramBounds
<1>3. packet_queued \in BOOLEAN
  BY DEF IInv, TypeOK
<1>4. packet_queued => N =< D + L
  BY LeadBounds DEF Reads
<1>5. ~ packet_queued => N =< D + 2 * L
  BY LeadBounds
<1>6. /\ L \in Nat /\ Lifetime \in Nat /\ MAX_RELIABLE_WINDOW_SIZE \in Nat
      /\ 2 * L =< MAX_RELIABLE_WINDOW_SIZE
      /\ L + Lifetime < MAX_RELIABLE_WINDOW_SIZE
  BY FitFacts
<1> HIDE DEF N, D, k, L
<1>7. N =< D + 2 * L
  BY <1>1, <1>3, <1>4, <1>5, <1>6
<1>8. k - (D + 1) < MAX_RELIABLE_WINDOW_SIZE /\ (D + 1) - k < MAX_RELIABLE_WINDOW_SIZE
  BY <1>1, <1>2, <1>6, <1>7
<1> QED BY <1>1, <1>2, <1>4, <1>7, <1>8 DEF N, D, k, L

\* Reading the next packet keeps the invariant.
LEMMA ReceiveNextKeeps ==
    ASSUME WindowFits, IInv, TypeOK', NEW d \in data, NEW keep, ReceiveNext(d, keep)
    PROVE  IInv'
<1> DEFINE idx == Len(delivered) + 1
<1>1. /\ Reads(d, keep) /\ d.seq = next_incoming_seqnum
      /\ acks' = acks \cup {Sent(d)}
      /\ incoming_reliables' = IF BufferReady THEN Tail(incoming_reliables)
                                              ELSE incoming_reliables
      /\ HandOver(d.idx)
      /\ packet_queued' = FALSE
      /\ UNCHANGED <<sender, sent>>
      /\ data' \subseteq data
  BY DEF ReceiveNext, Reads, Arrives
<1>2. /\ Len(sent) =< Len(delivered) + 2 * Limit
      /\ packet_queued => Len(sent) =< Len(delivered) + Limit
      /\ Len(delivered) \in Nat /\ Len(sent) \in Nat /\ d.idx \in Int
      /\ d.idx =< Len(sent)
      /\ Len(sent) + 1 - d.idx =< Limit + Lifetime
      /\ d.idx - idx < MAX_RELIABLE_WINDOW_SIZE
      /\ idx - d.idx < MAX_RELIABLE_WINDOW_SIZE
  BY <1>1, ReadBounds
<1>3. Numbered(d) /\ next_incoming_seqnum = NumberOf(idx)
  BY DEF IInv, NumbersRight
<1>4. d.idx = idx
  <2> DEFINE k == d.idx
  <2>1. k \in Int /\ idx \in Int /\ k - idx =< SEQNUM_MAX /\ idx - k =< SEQNUM_MAX
    BY <1>2, Sizes
  <2>2. NumberOf(k) = NumberOf(idx)
    BY <1>1, <1>3 DEF Numbered
  <2> HIDE DEF k, idx
  <2>3. k = idx
    BY <2>1, <2>2, NumberTellsPacket
  <2> QED BY <2>3 DEF k
<1>6. /\ Sorted(incoming_reliables')
      /\ Listed(incoming_reliables') = Listed(incoming_reliables) \ {idx}
      /\ \A k \in DOMAIN incoming_reliables' :
            \E j \in DOMAIN incoming_reliables : incoming_reliables'[k] = incoming_reliables[j]
  <2>1. CASE BufferReady
    BY <1>1, <2>1, ReadyIsNext
  <2>2. CASE ~ BufferReady
    <3>1. idx \notin Listed(incoming_reliables)
      BY <2>2, NextIsFirst
    <3> QED BY <1>1, <2>2, <3>1 DEF IInv, ListsSorted
  <2> QED BY <2>1, <2>2
<1>7. \A k \in Listed(incoming_reliables') :
         k =< idx + (IF packet_queued' THEN 2 * Limit ELSE Limit)
  <2> SUFFICES ASSUME NEW k \in Listed(incoming_reliables) PROVE k =< idx + Limit
    BY <1>1, <1>6
  <2>1. k \in Int /\ Limit \in Nat
    BY BufferBounds, LimitBounds
  <2>2. k =< Len(sent)
    BY DEF IInv, NumbersRight, Numbered, Listed
  <2>3. ~ packet_queued => k =< Len(delivered) + Limit
    BY DEF IInv, BufferedNear, Listed
  <2> HIDE DEF Limit
  <2>4. CASE packet_queued
    BY <1>2, <2>1, <2>2, <2>4
  <2>5. CASE ~ packet_queued
    BY <1>2, <2>1, <2>3, <2>5
  <2> QED BY <2>4, <2>5
<1>8. /\ Numbered(Sent(d)) /\ Sent(d).idx = idx /\ Sent(d).born = Len(sent)
      /\ Len(sent) + 1 - idx =< Limit + Lifetime
  BY <1>2, <1>3, <1>4 DEF Numbered, Sent
<1>9. \A a \in acks' : a \in acks \/ (/\ Numbered(a) /\ a.idx = idx
                                      /\ a.born = Len(sent)
                                      /\ Len(sent) + 1 - idx =< Limit + Lifetime)
  BY <1>1, <1>8
<1>10. HandOver(idx) /\ idx =< Len(sent)
  BY <1>1, <1>2, <1>4
<1> HIDE DEF idx
<1>11. idx = Len(delivered) + 1
  BY DEF idx
<1> QED BY <1>1, <1>6, <1>7, <1>9, <1>10, <1>11, HandOverKeeps

\* Reading a packet ahead of the next one keeps the invariant.
LEMMA ReceiveAheadKeeps ==
    ASSUME WindowFits, IInv, TypeOK', NEW d \in data, NEW keep, ReceiveAhead(d, keep)
    PROVE  IInv'
<1> DEFINE base == Len(delivered) + 1
           p == [seq |-> d.seq, idx |-> d.idx]
           list == incoming_reliables
           e == next_incoming_seqnum
<1>1. /\ Reads(d, keep) /\ InReceiveWindow(d) /\ d.seq # e
      /\ acks' = acks \cup {Sent(d)}
      /\ incoming_reliables' = insert(list, p, e)
      /\ packet_queued' = TRUE
      /\ UNCHANGED <<sender, next_incoming_seqnum, sent, delivered>>
      /\ data' \subseteq data
  BY DEF ReceiveAhead, Reads, Arrives
<1>2. /\ Len(sent) =< Len(delivered) + 2 * Limit
      /\ Len(delivered) \in Nat /\ Len(sent) \in Nat /\ d.idx \in Int
      /\ d.idx =< Len(sent)
      /\ Len(sent) + 1 - d.idx =< Limit + Lifetime
      /\ d.idx - base < MAX_RELIABLE_WINDOW_SIZE
      /\ base - d.idx < MAX_RELIABLE_WINDOW_SIZE
  BY <1>1, ReadBounds
<1>3. d.seq = NumberOf(d.idx) /\ e = NumberOf(base)
  BY DEF IInv, NumbersRight, Numbered
<1>4. d.idx > base
  <2> DEFINE j == d.idx
             i == base
  <2>1. /\ j \in Int /\ i \in Int
        /\ j - i < MAX_RELIABLE_WINDOW_SIZE /\ i - j =< MAX_RELIABLE_WINDOW_SIZE
    BY <1>2, Sizes
  <2>2. seqnum_in_window(NumberOf(j), NumberOf(i), MAX_RELIABLE_WINDOW_SIZE)
    BY <1>1, <1>3 DEF InReceiveWindow
  <2>3. j # i
    BY <1>1, <1>3
  <2> HIDE DEF i, j
  <2>4. j >= i
    BY <2>1, <2>2, WindowTellsSide
  <2>5. j > i
    BY <2>1, <2>3, <2>4
  <2> QED BY <2>5 DEF i, j
<1>5. p.seq = NumberOf(p.idx) /\ p.idx = d.idx /\ p \in Packet
  BY <1>3, StateFacts DEF IInv, Packet
<1>6. p.idx - base \in 1 .. MAX_RELIABLE_WINDOW_SIZE - 1
  BY <1>2, <1>4, <1>5, Sizes
<1>7. \A j \in DOMAIN list : /\ list[j].seq = NumberOf(list[j].idx)
                             /\ list[j].idx - base \in 0 .. SEQNUM_MAX
  <2> SUFFICES ASSUME NEW j \in DOMAIN list
               PROVE  /\ list[j].seq = NumberOf(list[j].idx)
                      /\ list[j].idx - base \in 0 .. SEQNUM_MAX
    OBVIOUS
  <2>1. list[j].seq = NumberOf(list[j].idx)
    BY DEF IInv, NumbersRight, Numbered
  <2> DEFINE k == list[j].idx
  <2>2. k \in Int /\ k > Len(delivered) /\ k =< Len(delivered) + 2 * Limit
    <3>1. k \in Listed(incoming_reliables)
      BY DEF Listed
    <3> QED BY <3>1, BufferBounds
  <2>3. /\ Limit \in Nat /\ 2 * Limit =< MAX_RELIABLE_WINDOW_SIZE
        /\ MAX_RELIABLE_WINDOW_SIZE \in 1 .. SEQNUM_MAX /\ SEQNUM_MAX \in Nat
    BY FitFacts, Sizes
  <2> HIDE DEF k, Limit
  <2>4. k - base \in 0 .. SEQNUM_MAX
    BY <1>2, <2>2, <2>3
  <2> QED BY <2>1, <2>4 DEF k
<1>8. Inserted(incoming_reliables', list, p)
  <2>1. list \in Seq(Packet) /\ base \in Int /\ Sorted(list)
    BY <1>2 DEF IInv, TypeOK, ListsSorted
  <2> HIDE DEF list, p, base, e
  <2>2. Inserted(insert(list, p, e), list, p)
    BY <1>3, <1>5, <1>6, <1>7, <2>1, InsertNumbered
  <2> QED BY <1>1, <2>2
<1>9. /\ Sorted(incoming_reliables')
      /\ Listed(incoming_reliables') = Listed(incoming_reliables) \cup {d.idx}
      /\ \A k \in DOMAIN incoming_reliables' :
            incoming_reliables'[k] = p
            \/ \E j \in DOMAIN incoming_reliables : incoming_reliables'[k] = incoming_reliables[j]
  BY <1>5, <1>8 DEF Inserted
<1>10. Sent(d).seq = d.seq /\ Sent(d).idx = d.idx /\ Sent(d).born = Len(sent)
  BY DEF Sent
<1>11. UNCHANGED <<queued_reliables, outgoing_reliables_sent, next_outgoing_seqnum, sent,
                   next_incoming_seqnum, delivered>>
  BY <1>1 DEF sender
<1> HIDE DEF p, base, e
<1>12. NumbersRight'
  <2>1. Numbered(p) /\ Numbered(Sent(d))
    BY <1>2, <1>3, <1>5, <1>10 DEF Numbered
  <2>2. \A k \in DOMAIN incoming_reliables' : Numbered(incoming_reliables'[k])
    BY <1>9, <2>1 DEF IInv, NumbersRight
  <2>3. \A a \in data' \cup acks' : Numbered(a)
    BY <1>1, <2>1 DEF IInv, NumbersRight
  <2> QED BY <1>11, <2>2, <2>3 DEF IInv, NumbersRight, Numbered, NumberOf
<1>13. QueueIsLast' /\ ListsSorted' /\ OutstandingBounded'
  BY <1>9, <1>11 DEF IInv, QueueIsLast, ListsSorted, Sorted, OutstandingBounded, Outstanding,
     Listed, Limit
<1>14. DatagramsRecent'
  BY <1>1, <1>2, <1>10, DatagramsStayRecent
<1>15. AcksTrue' /\ NothingForgotten'
  BY <1>1, <1>9, <1>10, <1>11 DEF IInv, AcksTrue, NothingForgotten, Received, Outstanding, Listed
<1>16. BufferedNear'
  <2>1. \A k \in Listed(incoming_reliables') :
           k > Len(delivered) /\ k =< Len(delivered) + 2 * Limit
    <3>1. d.idx > Len(delivered)
      BY <1>2, <1>4 DEF base
    <3>2. d.idx =< Len(delivered) + 2 * Limit
      <4>1. Limit \in Nat
        BY LimitBounds
      <4> HIDE DEF Limit
      <4> QED BY <1>2, <4>1
    <3> QED BY <1>9, <3>1, <3>2, BufferBounds
  <2>2. \A k \in DOMAIN incoming_reliables' :
           incoming_reliables'[k].idx \in Listed(incoming_reliables')
    BY DEF Listed
  <2>3. Limit' = Limit
    BY DEF Limit
  <2> QED BY <1>1, <1>11, <2>1, <2>2, <2>3 DEF BufferedNear
<1>17. InOrder'
  BY <1>11 DEF IInv, InOrder
<1> QED BY <1>12, <1>13, <1>14, <1>15, <1>16, <1>17 DEF IInv

\* Once the buffers were emptied, what is buffered is near the next packet.
LEMMA NearWhenEmptied ==
    ASSUME IInv, packet_queued => Len(sent) =< Len(delivered) + Limit
    PROVE  \A k \in DOMAIN incoming_reliables :
              /\ incoming_reliables[k].idx > Len(delivered)
              /\ incoming_reliables[k].idx =< Len(delivered) + Limit
<1> SUFFICES ASSUME NEW k \in DOMAIN incoming_reliables
             PROVE  /\ incoming_reliables[k].idx > Len(delivered)
                    /\ incoming_reliables[k].idx =< Len(delivered) + Limit
  OBVIOUS
<1> DEFINE i == incoming_reliables[k].idx
<1>1. i \in Int /\ i =< Len(sent) /\ Limit \in Nat
      /\ Len(sent) \in Nat /\ Len(delivered) \in Nat
  BY StateFacts, LimitBounds DEF IInv, NumbersRight, Numbered
<1>2. i > Len(delivered) /\ (~ packet_queued => i =< Len(delivered) + Limit)
  BY DEF IInv, BufferedNear
<1> HIDE DEF i, Limit
<1>3. CASE packet_queued
  BY <1>1, <1>2, <1>3 DEF i
<1>4. CASE ~ packet_queued
  BY <1>2, <1>4 DEF i
<1> QED BY <1>3, <1>4

\* Reading a packet outside the window keeps the invariant: it is an old one.
LEMMA ReceiveOutsideKeeps ==
    ASSUME WindowFits, IInv, TypeOK', NEW d \in data, NEW keep, ReceiveOutside(d, keep)
    PROVE  IInv'
<1> DEFINE base == Len(delivered) + 1
<1>1. /\ Reads(d, keep) /\ ~ InReceiveWindow(d)
      /\ acks' \subseteq acks \cup {Sent(d)}
      /\ packet_queued' = FALSE
      /\ UNCHANGED <<sender, next_incoming_seqnum, incoming_reliables, sent, delivered>>
      /\ data' \subseteq data
  BY DEF ReceiveOutside, Reads, Arrives
<1>2. /\ Len(sent) =< Len(delivered) + 2 * Limit
      /\ packet_queued => Len(sent) =< Len(delivered) + Limit
      /\ Len(delivered) \in Nat /\ Len(sent) \in Nat /\ d.idx \in Int
      /\ d.idx =< Len(sent)
      /\ Len(sent) + 1 - d.idx =< Limit + Lifetime
      /\ d.idx - base < MAX_RELIABLE_WINDOW_SIZE
      /\ base - d.idx < MAX_RELIABLE_WINDOW_SIZE
  BY <1>1, ReadBounds
<1>3. d.seq = NumberOf(d.idx) /\ next_incoming_seqnum = NumberOf(base)
  BY DEF IInv, NumbersRight, Numbered
<1>4. d.idx =< Len(delivered)
  <2> DEFINE j == d.idx
             i == base
  <2>1. /\ j \in Int /\ i \in Int
        /\ j - i < MAX_RELIABLE_WINDOW_SIZE /\ i - j =< MAX_RELIABLE_WINDOW_SIZE
    BY <1>2, Sizes
  <2>2. ~ seqnum_in_window(NumberOf(j), NumberOf(i), MAX_RELIABLE_WINDOW_SIZE)
    BY <1>1, <1>3 DEF InReceiveWindow
  <2> HIDE DEF i, j
  <2>3. ~ (j >= i)
    BY <2>1, <2>2, WindowTellsSide
  <2> QED BY <1>2, <2>3 DEF i, j
<1>5. Sent(d).seq = d.seq /\ Sent(d).idx = d.idx /\ Sent(d).born = Len(sent)
  BY DEF Sent
<1>6. UNCHANGED <<queued_reliables, outgoing_reliables_sent, next_outgoing_seqnum, sent,
                  next_incoming_seqnum, incoming_reliables, delivered>>
  BY <1>1 DEF sender
<1> HIDE DEF base
<1>7. NumbersRight'
  <2>1. Numbered(Sent(d))
    BY <1>2, <1>3, <1>5 DEF Numbered
  <2>2. \A a \in data' \cup acks' : Numbered(a)
    BY <1>1, <2>1 DEF IInv, NumbersRight
  <2> QED BY <1>6, <2>2 DEF IInv, NumbersRight, Numbered, NumberOf
<1>8. QueueIsLast' /\ ListsSorted' /\ OutstandingBounded'
  BY <1>6 DEF IInv, QueueIsLast, ListsSorted, Sorted, OutstandingBounded, Outstanding,
     Listed, Limit
<1>9. DatagramsRecent'
  BY <1>1, <1>2, <1>5, DatagramsStayRecent
<1>10. AcksTrue' /\ NothingForgotten' /\ InOrder'
  BY <1>1, <1>4, <1>5, <1>6 DEF IInv, AcksTrue, NothingForgotten, Received, Outstanding,
     Listed, InOrder
<1>11. BufferedNear'
  <2>1. Limit' = Limit
    BY DEF Limit
  <2> QED BY <1>1, <1>2, <1>6, <2>1, NearWhenEmptied DEF BufferedNear
<1> QED BY <1>7, <1>8, <1>9, <1>10, <1>11 DEF IInv

\* Emptying the buffers and reading a datagram of another channel keeps the
\* invariant.
LEMMA ReceiveOtherKeeps ==
    ASSUME IInv, TypeOK', ReceiveOther
    PROVE  IInv'
<1>1. /\ UNCHANGED <<sender, next_incoming_seqnum, incoming_reliables, data, acks,
                     sent, delivered>>
      /\ packet_queued' = FALSE /\ ~ BufferReady
  BY DEF ReceiveOther
<1>2. NumbersRight' /\ QueueIsLast' /\ ListsSorted' /\ OutstandingBounded'
  BY <1>1 DEF sender, IInv, NumbersRight, Numbered, NumberOf, QueueIsLast, ListsSorted,
     Sorted, OutstandingBounded, Outstanding, Listed, Limit
<1>3. DatagramsRecent'
  BY <1>1 DEF IInv, DatagramsRecent, Limit
<1>4. AcksTrue' /\ NothingForgotten' /\ InOrder'
  BY <1>1 DEF sender, IInv, AcksTrue, Received, Listed, NothingForgotten, Outstanding,
     InOrder
<1>5. BufferedNear'
  <2>1. Limit' = Limit
    BY DEF Limit
  <2>2. Len(sent) =< Len(delivered) + Limit
    BY <1>1, LeadBounds
  <2> QED BY <1>1, <2>1, <2>2, NearWhenEmptied DEF BufferedNear
<1> QED BY <1>2, <1>3, <1>4, <1>5 DEF IInv

-----------------------------------------------------------------------------
(* The theorems *)

LEMMA InvariantInit == WindowFits /\ Init => IInv
<1> SUFFICES ASSUME WindowFits, Init PROVE IInv
  OBVIOUS
<1>1. TypeOK
  BY TypeInit
<1>2. /\ Len(<<>>) = 0 /\ DOMAIN <<>> = {}
      /\ queued_reliables = <<>> /\ outgoing_reliables_sent = <<>>
      /\ incoming_reliables = <<>> /\ sent = <<>> /\ delivered = <<>>
      /\ data = {} /\ acks = {}
  BY DEF Init
<1>3. next_outgoing_seqnum = NumberOf(0 + 1) /\ next_incoming_seqnum = NumberOf(0 + 1)
  <2> DEFINE a == SEQNUM_INITIAL
             m == SEQNUM_MAX + 1
  <2>1. m \in Nat \ {0} /\ a \in 0 .. m - 1 /\ a - 1 + (0 + 1) = a
    BY CircleSize, ChannelAssumption DEF Seqnum
  <2>2. NumberOf(0 + 1) = (a - 1 + (0 + 1)) % m
    BY DEF NumberOf, u16
  <2> HIDE DEF a, m
  <2>3. a % m = a
    BY <2>1, SMT
  <2>4. NumberOf(0 + 1) = a
    BY <2>1, <2>2, <2>3
  <2> QED BY <2>4 DEF Init, a
<1>4. NumbersRight
  BY <1>2, <1>3 DEF NumbersRight
<1>5. QueueIsLast /\ ListsSorted /\ DatagramsRecent /\ AcksTrue /\ BufferedNear /\ InOrder
  BY <1>2 DEF QueueIsLast, ListsSorted, Sorted, DatagramsRecent, AcksTrue, BufferedNear, InOrder
<1>6. OutstandingBounded /\ NothingForgotten
  BY <1>2 DEF OutstandingBounded, Outstanding, Listed, NothingForgotten
<1> QED BY <1>1, <1>4, <1>5, <1>6 DEF IInv

\* Both callers of NumberPackets() leave room for the packets of a command.
LEMMA RoomForCommand ==
    ASSUME IInv, NEW c \in Command,
           \/ Len(queued_reliables) < window_size \div 2
           \/ Len(queued_reliables) < MaxPacketsRequeued
    PROVE  Len(queued_reliables) + c.chunks =< Limit
<1> DEFINE q == Len(queued_reliables)
           n == c.chunks
<1>1. /\ q \in Nat /\ n \in Int /\ n =< MaxChunks /\ window_size \in Int
      /\ window_size =< WindowCap
  BY StateFacts, ChannelAssumption, LimitBounds DEF IInv, TypeOK, Command
<1>2. /\ Limit \in Nat /\ MaxChunks \in Nat /\ MaxPacketsRequeued \in Nat /\ WindowCap \in Nat
      /\ Limit >= MaxPacketsRequeued + MaxChunks - 1
      /\ Limit >= (WindowCap \div 2) + MaxChunks - 1
  BY LimitBounds
<1>3. window_size \div 2 =< WindowCap \div 2 /\ window_size \div 2 \in Int
      /\ WindowCap \div 2 \in Int
  BY <1>1, <1>2
<1> HIDE DEF q, n, Limit
<1>4. q < window_size \div 2 \/ q < MaxPacketsRequeued
  BY DEF q
<1>5. q + n =< Limit
  BY <1>1, <1>2, <1>3, <1>4
<1> QED BY <1>5 DEF q, n

LEMMA InvariantStep == WindowFits /\ IInv /\ [Next]_vars => IInv'
<1> SUFFICES ASSUME WindowFits, IInv, [Next]_vars PROVE IInv'
  OBVIOUS
<1>0. TypeOK'
  BY TypeStep DEF IInv
<1>1. packet_queued \in BOOLEAN
  BY DEF IInv, TypeOK
<1>2. ASSUME NEW n \in 1 .. MaxChunks, PutReliableSendCommand(n) PROVE IInv'
  <2> DEFINE c == [id |-> submitted + 1, chunks |-> n]
  <2>1. c \in Command
    BY <1>2, ChannelAssumption DEF PutReliableSendCommand, Command, IInv, TypeOK
  <2>2. UNCHANGED <<outgoing_reliables_sent, receiver, delivered>>
    BY <1>2 DEF PutReliableSendCommand
  <2>3. CASE /\ Len(queued_reliables) < window_size \div 2
             /\ HaveSequenceNumbers(c) /\ NumberPackets(c)
    <3> HIDE DEF c
    <3>1. Len(queued_reliables) + c.chunks =< Limit
      BY <2>1, <2>3, RoomForCommand
    <3> QED BY <1>0, <2>1, <2>2, <2>3, <3>1, NumberPacketsKeeps
  <2>4. CASE UNCHANGED <<queued_reliables, next_outgoing_seqnum, sent, data, acks>>
    BY <1>0, <1>1, <2>2, <2>4, OthersKeep DEF receiver
  <2> QED BY <1>2, <2>3, <2>4 DEF PutReliableSendCommand
<1>3. CASE RunCommandQueues
  <2> DEFINE c == Head(queued_commands)
  <2>1. c \in Command
    BY <1>3, HeadTailProperties DEF RunCommandQueues, IInv, TypeOK
  <2>2. /\ UNCHANGED <<outgoing_reliables_sent, receiver, delivered>>
        /\ Len(queued_reliables) < MaxPacketsRequeued
        /\ HaveSequenceNumbers(c) /\ NumberPackets(c)
    BY <1>3 DEF RunCommandQueues
  <2> HIDE DEF c
  <2>3. Len(queued_reliables) + c.chunks =< Limit
    BY <2>1, <2>2, RoomForCommand
  <2> QED BY <1>0, <2>1, <2>2, <2>3, NumberPacketsKeeps
<1>4. CASE SendQueued
  BY <1>0, <1>4, SendQueuedKeeps
<1>5. ASSUME NEW idx, Resend(idx) PROVE IInv'
  BY <1>0, <1>5, ResendKeeps
<1>6. CASE UpdateWindow
  BY <1>0, <1>1, <1>6, OthersKeep DEF UpdateWindow, receiver
<1>7. CASE setNonLegacyPeer
  BY <1>0, <1>1, <1>7, OthersKeep DEF setNonLegacyPeer, receiver
<1>8. ASSUME NEW a \in acks, NEW keep \in BOOLEAN, ReceiveAck(a, keep) PROVE IInv'
  BY <1>0, <1>8, ReceiveAckKeeps
<1>9. CASE Receive
  BY <1>0, <1>1, <1>9, OthersKeep DEF Receive, sender
<1>10. CASE Unbuffer
  BY <1>0, <1>10, UnbufferKeeps
<1>11. ASSUME NEW d \in data, NEW keep \in BOOLEAN, ReceiveNext(d, keep) PROVE IInv'
  BY <1>0, <1>11, ReceiveNextKeeps
<1>12. ASSUME NEW d \in data, NEW keep \in BOOLEAN, ReceiveAhead(d, keep) PROVE IInv'
  BY <1>0, <1>12, ReceiveAheadKeeps
<1>13. ASSUME NEW d \in data, NEW keep \in BOOLEAN, ReceiveOutside(d, keep) PROVE IInv'
  BY <1>0, <1>13, ReceiveOutsideKeeps
<1>14. CASE Lose
  BY <1>0, <1>1, <1>14, OthersKeep DEF Lose, sender, receiver
<1>15. CASE ReceiveOther
  BY <1>0, <1>1, <1>15, ReceiveOtherKeeps
<1>16. CASE UNCHANGED vars
  BY <1>0, <1>1, <1>16, OthersKeep DEF vars, sender, receiver
<1> QED
  BY <1>2, <1>3, <1>4, <1>5, <1>6, <1>7, <1>8, <1>9, <1>10, <1>11, <1>12, <1>13,
     <1>14, <1>15, <1>16 DEF Next

\* The inductive invariant holds if the window fits the sequence numbers.
THEOREM InvariantHolds == ASSUME WindowFits PROVE Spec => []IInv
<1>1. Init => IInv
  BY InvariantInit
<1>2. IInv /\ [Next]_vars => IInv'
  BY InvariantStep
<1> QED BY <1>1, <1>2, PTL DEF Spec

\* Whatever the network loses, repeats or reorders, the user gets the packets
\* in the order of their numbers, each once and none left out.
THEOREM DeliveryInOrder == ASSUME WindowFits PROVE Spec => []InOrder
<1>1. IInv => InOrder
  BY DEF IInv
<1> QED BY <1>1, InvariantHolds, PTL

\* The sender gives up no packet before the receiver has it.
THEOREM NoPacketForgotten == ASSUME WindowFits PROVE Spec => []NothingForgotten
<1>1. IInv => NothingForgotten
  BY DEF IInv
<1> QED BY <1>1, InvariantHolds, PTL

\* The numbers never run further ahead of the oldest unacknowledged packet
\* than Limit.
THEOREM NumbersBounded == ASSUME WindowFits PROVE Spec => []OutstandingBounded
<1>1. IInv => OutstandingBounded
  BY DEF IInv
<1> QED BY <1>1, InvariantHolds, PTL

\* The packet lists stay in order where the numbers wrap around.
THEOREM BuffersSorted == ASSUME WindowFits PROVE Spec => []ListsSorted
<1>1. IInv => ListsSorted
  BY DEF IInv
<1> QED BY <1>1, InvariantHolds, PTL

LEMMA JudgesRight == ASSUME WindowFits, IInv PROVE ReceiverJudgesRight
<1> SUFFICES ASSUME NEW d \in data
             PROVE  /\ d.idx =< Len(delivered) =>
                          ~ InReceiveWindow(d) /\ ~ seqnum_higher(d.seq, next_incoming_seqnum)
                    /\ (d.idx > Len(delivered) /\ ~ BufferReady) => InReceiveWindow(d)
  BY DEF ReceiverJudgesRight
<1> DEFINE i == Len(delivered) + 1
           j == d.idx
           N == Len(sent)
           W == MAX_RELIABLE_WINDOW_SIZE
<1>1. /\ i \in Int /\ j \in Int /\ N \in Nat /\ i - 1 =< N /\ Len(delivered) = i - 1
  BY StateFacts DEF IInv, NumbersRight
<1>2. j =< N /\ N + 1 - j =< Limit + Lifetime
  BY DatagramBounds
<1>3. d.seq = NumberOf(j) /\ next_incoming_seqnum = NumberOf(i)
  BY DEF IInv, NumbersRight, Numbered
<1>4. ~ BufferReady => N =< i - 1 + Limit
  BY <1>1, LeadBounds
<1>5. /\ Limit \in Nat /\ Lifetime \in Nat /\ W \in Nat /\ 2 * Limit =< W /\ Limit + Lifetime < W
      /\ Limit >= 2
  BY FitFacts
<1> HIDE DEF Limit, i, j, N, W
<1>6. i - j < W
  BY <1>1, <1>2, <1>5
<1>7. InReceiveWindow(d) <=> seqnum_in_window(NumberOf(j), NumberOf(i), W)
  BY <1>3 DEF InReceiveWindow, W
<1>8. ASSUME j < i
      PROVE  ~ InReceiveWindow(d) /\ ~ seqnum_higher(d.seq, next_incoming_seqnum)
  <2>1. j - i < W /\ i - j =< W /\ ~ (j >= i)
    BY <1>1, <1>5, <1>6, <1>8
  <2>2. ~ seqnum_in_window(NumberOf(j), NumberOf(i), W)
    BY <1>1, <2>1, WindowTellsSide DEF W
  <2>3. ~ seqnum_higher(NumberOf(j), NumberOf(i))
    BY <1>1, <1>6, <1>8, OldIsNotHigher DEF W
  <2> QED BY <1>3, <1>7, <2>2, <2>3
<1>9. ASSUME j >= i, ~ BufferReady
      PROVE  InReceiveWindow(d)
  <2>1. j - i < W /\ i - j =< W
    BY <1>1, <1>2, <1>4, <1>5, <1>6, <1>9
  <2>2. seqnum_in_window(NumberOf(j), NumberOf(i), W)
    BY <1>1, <1>9, <2>1, WindowTellsSide DEF W
  <2> QED BY <1>7, <2>2
<1>10. (j =< Len(delivered) => j < i) /\ (j > Len(delivered) => j >= i)
  BY <1>1
<1> QED BY <1>8, <1>9, <1>10 DEF j

\* The receiver takes no old packet for a new one, nor a new one for an old one.
THEOREM ReceiverIsRight == ASSUME WindowFits PROVE Spec => []ReceiverJudgesRight
<1>1. IInv => ReceiverJudgesRight
  BY JudgesRight
<1> QED BY <1>1, InvariantHolds, PTL

LEMMA Unambiguous == ASSUME WindowFits, IInv PROVE NumbersUnambiguous
<1>0. /\ Limit \in Nat /\ Lifetime \in Nat /\ MAX_RELIABLE_WINDOW_SIZE \in Nat
      /\ 2 * Limit =< MAX_RELIABLE_WINDOW_SIZE
      /\ Limit + Lifetime < MAX_RELIABLE_WINDOW_SIZE /\ SEQNUM_MAX \in Nat
      /\ 2 * MAX_RELIABLE_WINDOW_SIZE = SEQNUM_MAX + 1 /\ Limit >= 2
  BY FitFacts
<1> DEFINE N == Len(sent)
           D == Len(delivered)
           L == Limit
<1>1. N \in Nat /\ D \in Nat /\ D =< N /\ N =< D + 3 * L
  BY StateFacts, LeadBounds DEF IInv, NumbersRight
<1>2. ASSUME NEW d \in data, NEW i \in DOMAIN incoming_reliables,
             incoming_reliables[i].seq = d.seq
      PROVE  incoming_reliables[i].idx = d.idx
  <2> DEFINE j == incoming_reliables[i].idx
             k == d.idx
  <2>1. j \in Int /\ j > D /\ j =< D + 2 * L
    <3>1. j \in Listed(incoming_reliables)
      BY DEF Listed
    <3> QED BY <3>1, BufferBounds
  <2>2. k \in Int /\ k =< N /\ N + 1 - k =< L + Lifetime
    BY DatagramBounds, StateFacts DEF IInv
  <2>3. NumberOf(j) = NumberOf(k)
    BY <1>2 DEF IInv, NumbersRight, Numbered
  <2> HIDE DEF j, k, N, D, L
  <2>4. j - k =< SEQNUM_MAX /\ k - j =< SEQNUM_MAX
    BY <1>0, <1>1, <2>1, <2>2 DEF L
  <2>5. j = k
    BY <2>1, <2>2, <2>3, <2>4, NumberTellsPacket
  <2> QED BY <2>5 DEF j, k
<1>3. ASSUME NEW a \in acks, NEW i \in DOMAIN outgoing_reliables_sent,
             outgoing_reliables_sent[i].seq = a.seq
      PROVE  outgoing_reliables_sent[i].idx = a.idx
  <2> DEFINE j == outgoing_reliables_sent[i].idx
             k == a.idx
  <2>1. j \in Int /\ j =< N /\ N + 1 - j =< L
    BY StateFacts DEF IInv, NumbersRight, Numbered, OutstandingBounded, Outstanding, Listed
  <2>2. k \in Int /\ k =< N /\ N + 1 - k =< L + 2 * Lifetime
    BY DatagramBounds, StateFacts DEF IInv
  <2>3. NumberOf(j) = NumberOf(k)
    BY <1>3 DEF IInv, NumbersRight, Numbered
  <2> HIDE DEF j, k, N, D, L
  <2>4. j - k =< SEQNUM_MAX /\ k - j =< SEQNUM_MAX
    BY <1>0, <1>1, <2>1, <2>2 DEF L
  <2>5. j = k
    BY <2>1, <2>2, <2>3, <2>4, NumberTellsPacket
  <2> QED BY <2>5 DEF j, k
<1> QED BY <1>2, <1>3 DEF NumbersUnambiguous

\* No datagram has the number of another packet that is still of interest.
THEOREM NoNumberReused == ASSUME WindowFits PROVE Spec => []NumbersUnambiguous
<1>1. IInv => NumbersUnambiguous
  BY Unambiguous
<1> QED BY <1>1, InvariantHolds, PTL

-----------------------------------------------------------------------------
(* The messages: what the packets in order say of the commands *)

\* How many commands are complete with the first i packets.
Completed(i) ==
    IF i = 0 THEN 0 ELSE IF sent[i].last THEN sent[i].cmd ELSE sent[i].cmd - 1

\* How many commands have got their numbers.
Started == submitted - Len(queued_commands)

\* The packets of a command follow one another, and those of the next command them;
\* the commands that wait are the next ones.
CommandsFollow ==
    /\ Len(queued_commands) =< submitted
    /\ \A i \in 1 .. Len(queued_commands) : queued_commands[i].id = Started + i
    /\ \A i \in 1 .. Len(sent) : sent[i].cmd = Completed(i - 1) + 1 /\ sent[i].cmd =< Started
    /\ Completed(Len(sent)) = Started

\* The last packet of command n completes the n-th message.
RanksRight ==
    /\ Cardinality(Finishing) = Completed(Len(delivered))
    /\ \A i \in Finishing : Rank(i) = sent[i].cmd
    /\ \A n \in 1 .. Completed(Len(delivered)) : \E i \in Finishing : sent[i].cmd = n

FifoInv == CommandsFollow /\ RanksRight

\* What the invariant says of the history.
LEMMA HistoryFacts ==
    ASSUME IInv
    PROVE  /\ Len(sent) \in Nat /\ Len(delivered) \in 0 .. Len(sent)
           /\ \A i \in 1 .. Len(sent) : sent[i].cmd \in 1 .. MaxCommands /\ sent[i].last \in BOOLEAN
           /\ \A i \in 1 .. Len(delivered) : delivered[i] = i
           /\ queued_commands \in Seq(Command) /\ Len(queued_commands) \in Nat
           /\ submitted \in 0 .. MaxCommands /\ MaxCommands \in Nat
<1>1. /\ sent \in Seq([cmd : 1 .. MaxCommands, last : BOOLEAN]) /\ delivered \in Seq(Nat \ {0})
      /\ queued_commands \in Seq(Command) /\ submitted \in 0 .. MaxCommands
  BY DEF IInv, TypeOK
<1>2. /\ Len(sent) \in Nat /\ Len(delivered) \in Nat /\ Len(queued_commands) \in Nat
      /\ DOMAIN delivered = 1 .. Len(delivered)
  BY <1>1, LenProperties
<1>3. \A i \in 1 .. Len(sent) : sent[i] \in [cmd : 1 .. MaxCommands, last : BOOLEAN]
  BY <1>1, ElementOfSeq
<1>4. Len(delivered) =< Len(sent) /\ \A i \in 1 .. Len(delivered) : delivered[i] = i
  BY <1>2 DEF IInv, NumbersRight, InOrder
<1>. QED BY <1>1, <1>2, <1>3, <1>4, ChannelAssumption

\* While packets are handed over in order, their places are their numbers.
LEMMA FinishingIs ==
    ASSUME IInv
    PROVE  /\ Finishing = {i \in 1 .. Len(delivered) : sent[i].last}
           /\ IsFiniteSet(Finishing)
<1>1. DOMAIN delivered = 1 .. Len(delivered)
  BY DEF IInv, TypeOK
<1>2. Finishing = {i \in 1 .. Len(delivered) : sent[i].last}
  BY <1>1, HistoryFacts DEF Finishing
<1>3. IsFiniteSet(1 .. Len(delivered))
  BY HistoryFacts, FS_Interval
<1>4. Finishing \subseteq 1 .. Len(delivered)
  BY <1>2
<1>. QED BY <1>2, <1>3, <1>4, FS_Subset

LEMMA CompletedType ==
    ASSUME IInv, NEW i \in 0 .. Len(sent)
    PROVE  Completed(i) \in Nat
  BY HistoryFacts DEF Completed

\* The messages that came out are the first commands.
LEMMA HandedAre ==
    ASSUME IInv, RanksRight
    PROVE  HandedCommands = [n \in 1 .. Completed(Len(delivered)) |-> n]
<1> DEFINE place(n) == CHOOSE i \in Finishing : Rank(i) = n
<1>1. ASSUME NEW n \in 1 .. Completed(Len(delivered))
      PROVE  sent[delivered[place(n)]].cmd = n
  <2>1. \E i \in Finishing : Rank(i) = n
    BY DEF RanksRight
  <2>2. place(n) \in Finishing /\ Rank(place(n)) = n
    BY <2>1
  <2>. HIDE DEF place
  <2>3. place(n) \in 1 .. Len(delivered)
    BY <2>2, FinishingIs
  <2>4. delivered[place(n)] = place(n)
    BY <2>3, HistoryFacts
  <2>. QED BY <2>2, <2>4 DEF RanksRight
<1>2. Cardinality(Finishing) = Completed(Len(delivered))
  BY DEF RanksRight
<1>. QED BY <1>1, <1>2 DEF HandedCommands

\* What a step does to the history: a command waits, is numbered at once, is numbered
\* after it waited, or the next packet is handed over.
Waits ==
    \E c \in Command :
        /\ c.id = submitted + 1 /\ submitted' = submitted + 1
        /\ queued_commands' = Append(queued_commands, c)
        /\ UNCHANGED <<sent, delivered>>

Starts ==
    \E c \in Command :
        /\ c.id = submitted + 1 /\ submitted' = submitted + 1
        /\ queued_commands = <<>> /\ UNCHANGED <<queued_commands, delivered>>
        /\ NumberPackets(c)

StartsLate ==
    /\ queued_commands # <<>> /\ queued_commands' = Tail(queued_commands)
    /\ NumberPackets(Head(queued_commands))
    /\ UNCHANGED <<submitted, delivered>>

HandsOver ==
    /\ UNCHANGED <<submitted, queued_commands, sent>>
    /\ \E idx : delivered' = Append(delivered, idx)

\* No step does anything else to the history.
LEMMA HistorySteps ==
    ASSUME IInv, [Next]_vars
    PROVE  \/ UNCHANGED <<submitted, queued_commands, sent, delivered>>
           \/ Waits \/ Starts \/ StartsLate \/ HandsOver
<1>1. CASE UNCHANGED vars
  BY <1>1 DEF vars, sender
<1>2. ASSUME NEW n \in 1 .. MaxChunks, PutReliableSendCommand(n) PROVE Waits \/ Starts
  <2>1. PICK c : c = [id |-> submitted + 1, chunks |-> n]
    OBVIOUS
  <2>2. c \in Command /\ c.id = submitted + 1
    <3>1. submitted < MaxCommands
      BY <1>2 DEF PutReliableSendCommand
    <3>. QED BY <2>1, <3>1, HistoryFacts DEF Command
  <2>3. CASE queued_commands = <<>> /\ NumberPackets(c) /\ UNCHANGED queued_commands
    BY <1>2, <2>2, <2>3 DEF PutReliableSendCommand, Starts
  <2>4. CASE queued_commands' = Append(queued_commands, c) /\ UNCHANGED sent
    BY <1>2, <2>2, <2>4 DEF PutReliableSendCommand, Waits
  <2>. QED BY <1>2, <2>1, <2>3, <2>4 DEF PutReliableSendCommand
<1>3. CASE RunCommandQueues
  BY <1>3 DEF RunCommandQueues, StartsLate
<1>4. CASE Unbuffer \/ \E d \in data, keep \in BOOLEAN : ReceiveNext(d, keep)
  BY <1>4 DEF Unbuffer, ReceiveNext, HandOver, HandsOver, sender
<1>5. CASE \/ SendQueued \/ UpdateWindow \/ setNonLegacyPeer
           \/ \E i \in DOMAIN outgoing_reliables_sent : Resend(outgoing_reliables_sent[i].idx)
           \/ \E a \in acks, keep \in BOOLEAN : ReceiveAck(a, keep)
  BY <1>5 DEF SendQueued, UpdateWindow, setNonLegacyPeer, Resend, ReceiveAck, sender
<1>6. CASE \/ Receive \/ ReceiveOther \/ Lose
           \/ \E d \in data, keep \in BOOLEAN : ReceiveAhead(d, keep)
           \/ \E d \in data, keep \in BOOLEAN : ReceiveOutside(d, keep)
  BY <1>6 DEF Receive, ReceiveOther, Lose, ReceiveAhead, ReceiveOutside, sender
<1>. QED BY <1>1, <1>2, <1>3, <1>4, <1>5, <1>6 DEF Next

\* Numbering a command adds its packets at the end of the history.
LEMMA SentGrows ==
    ASSUME IInv, NEW c \in Command, NumberPackets(c)
    PROVE  /\ c.chunks \in Nat \ {0} /\ Len(sent') = Len(sent) + c.chunks
           /\ \A i \in 1 .. Len(sent) : sent'[i] = sent[i]
           /\ \A i \in Len(sent) + 1 .. Len(sent) + c.chunks :
                 sent'[i] = [cmd |-> c.id, last |-> i = Len(sent) + c.chunks]
<1> DEFINE S == [cmd : 1 .. MaxCommands, last : BOOLEAN]
<1>1. PICK more : more = [i \in 1 .. c.chunks |-> [cmd |-> c.id, last |-> i = c.chunks]]
  OBVIOUS
<1>2. sent' = sent \o more
  BY <1>1 DEF NumberPackets
<1>3. c.chunks \in Nat \ {0} /\ c.id \in 1 .. MaxCommands
  BY ChannelAssumption DEF Command
<1>4. more \in Seq(S) /\ Len(more) = c.chunks
  <2>1. more \in [1 .. c.chunks -> S]
    BY <1>1, <1>3
  <2>. HIDE DEF S
  <2>. QED BY <1>3, <2>1, FunctionIsSeq
<1>5. sent \in Seq(S) /\ Len(sent) \in Nat
  BY DEF IInv, TypeOK
<1>6. /\ Len(sent \o more) = Len(sent) + Len(more)
      /\ \A i \in 1 .. Len(sent) + Len(more) :
            (sent \o more)[i] = IF i =< Len(sent) THEN sent[i] ELSE more[i - Len(sent)]
  BY <1>4, <1>5, ConcatProperties
<1>. HIDE DEF S
<1>7. ASSUME NEW i \in Len(sent) + 1 .. Len(sent) + c.chunks
      PROVE  sent'[i] = [cmd |-> c.id, last |-> i = Len(sent) + c.chunks]
  <2>1. sent'[i] = more[i - Len(sent)] /\ i - Len(sent) \in 1 .. c.chunks
    BY <1>2, <1>3, <1>4, <1>5, <1>6
  <2>2. (i - Len(sent) = c.chunks) <=> (i = Len(sent) + c.chunks)
    BY <1>3, <1>5
  <2>. QED BY <1>1, <2>1, <2>2
<1>. QED BY <1>2, <1>3, <1>4, <1>5, <1>6, <1>7


\* Numbering the command that is next keeps commands and packets in order.
LEMMA NumberingFollows ==
    ASSUME IInv, CommandsFollow, NEW c \in Command, NumberPackets(c),
           c.id = Started + 1, Started' = Started + 1
    PROVE  /\ \A i \in 1 .. Len(sent') :
                 sent'[i].cmd = Completed(i - 1)' + 1 /\ sent'[i].cmd =< Started'
           /\ Completed(Len(sent))' = Started'
           /\ \A i \in 0 .. Len(sent) : Completed(i)' = Completed(i)
<1>1. PICK N, k, m : N = Len(sent) /\ k = c.chunks /\ m = Started
  OBVIOUS
<1>2. /\ N \in Nat /\ k \in Nat \ {0} /\ m \in Int /\ c.id = m + 1
  BY <1>1, SentGrows, HistoryFacts DEF Started
<1>3. /\ Len(sent') = N + k
      /\ \A i \in 1 .. N : sent'[i] = sent[i]
      /\ \A i \in N + 1 .. N + k : sent'[i] = [cmd |-> m + 1, last |-> i = N + k]
  BY <1>1, <1>2, SentGrows
<1>4. /\ \A i \in 1 .. N : sent[i].cmd = Completed(i - 1) + 1 /\ sent[i].cmd =< m
      /\ Completed(N) = m
      /\ \A i \in 1 .. N : sent[i].cmd \in Nat
  BY <1>1, HistoryFacts DEF CommandsFollow
<1>5. \A i \in 0 .. N : Completed(i)' = Completed(i)
  BY <1>2, <1>3 DEF Completed
<1>6. ASSUME NEW i \in N + 1 .. N + k
      PROVE  sent'[i].cmd = m + 1 /\ Completed(i)' = IF i = N + k THEN m + 1 ELSE m
  <2>1. sent'[i] = [cmd |-> m + 1, last |-> i = N + k]
    BY <1>3
  <2>2. sent'[i].cmd = m + 1
    BY <2>1
  <2>3. sent'[i].last <=> i = N + k
    <3>1. PICK b \in BOOLEAN : b = (i = N + k)
      OBVIOUS
    <3>2. sent'[i] = [cmd |-> m + 1, last |-> b]
      BY <2>1, <3>1
    <3>3. sent'[i].last = b
      BY <3>2
    <3>. QED BY <3>1, <3>3
  <2>4. i # 0 /\ m + 1 - 1 = m
    BY <1>2
  <2>5. Completed(i)' = IF sent'[i].last THEN sent'[i].cmd ELSE sent'[i].cmd - 1
    BY <2>4 DEF Completed
  <2>6. CASE i = N + k
    <3>1. sent'[i].last
      BY <2>3, <2>6
    <3>. QED BY <2>2, <2>5, <2>6, <3>1
  <2>7. CASE i # N + k
    <3>1. ~ sent'[i].last
      BY <2>3, <2>7
    <3>2. Completed(i)' = sent'[i].cmd - 1
      BY <2>5, <3>1
    <3>3. Completed(i)' = m
      BY <1>2, <2>2, <3>2
    <3>. QED BY <2>2, <2>7, <3>3
  <2>. QED BY <2>6, <2>7
<1>7. ASSUME NEW i \in 1 .. N + k
      PROVE  sent'[i].cmd = Completed(i - 1)' + 1 /\ sent'[i].cmd =< m + 1
  <2>1. CASE i =< N
    <3>1. i \in 1 .. N /\ i - 1 \in 0 .. N
      BY <1>2, <2>1
    <3>2. sent'[i].cmd = sent[i].cmd /\ Completed(i - 1)' = Completed(i - 1)
      BY <1>3, <1>5, <3>1
    <3>3. sent[i].cmd \in Nat /\ sent[i].cmd = Completed(i - 1) + 1 /\ sent[i].cmd =< m
      BY <1>4, <3>1
    <3>. QED BY <1>2, <3>2, <3>3
  <2>2. CASE i = N + 1
    <3>1. sent'[i].cmd = m + 1
      <4>1. i \in N + 1 .. N + k
        BY <1>2, <2>2
      <4>. QED BY <1>6, <4>1
    <3>2. i - 1 = N /\ N \in 0 .. N
      BY <1>2, <2>2
    <3>. QED BY <1>2, <1>4, <1>5, <3>1, <3>2
  <2>3. CASE i > N + 1
    <3>1. i \in N + 1 .. N + k /\ i - 1 \in N + 1 .. N + k /\ i - 1 # N + k
      BY <1>2, <2>3
    <3>2. sent'[i].cmd = m + 1 /\ Completed(i - 1)' = m
      BY <1>6, <3>1
    <3>. QED BY <1>2, <3>2
  <2>. QED BY <1>2, <2>1, <2>2, <2>3
<1>8. Completed(Len(sent))' = m + 1
  <2>1. N + k \in N + 1 .. N + k
    BY <1>2
  <2>2. \A i : i = N + k => Completed(i)' = m + 1
    BY <1>6, <2>1
  <2>. QED BY <1>3, <2>2 DEF Completed
<1>. QED BY <1>1, <1>3, <1>5, <1>7, <1>8

\* Commands and packets stay in order.
LEMMA CommandsFollowKept ==
    ASSUME IInv, [Next]_vars, CommandsFollow PROVE CommandsFollow'
<1> DEFINE Q == queued_commands
<1>1. /\ Q \in Seq(Command) /\ Len(Q) \in Nat /\ submitted \in Nat /\ Started \in Int
      /\ Len(Q) =< submitted
      /\ \A i \in 1 .. Len(Q) : Q[i].id = Started + i
  BY HistoryFacts DEF CommandsFollow, Started
<1>2. CASE UNCHANGED <<submitted, queued_commands, sent>>
  BY <1>2 DEF CommandsFollow, Started, Completed
<1>3. CASE Waits
  <2>1. PICK c \in Command : /\ c.id = submitted + 1 /\ submitted' = submitted + 1
                             /\ Q' = Append(Q, c) /\ UNCHANGED sent
    BY <1>3 DEF Waits
  <2>2. /\ Len(Q') = Len(Q) + 1
        /\ \A i \in 1 .. Len(Q) : Q'[i] = Q[i]
        /\ Q'[Len(Q) + 1] = c
    BY <1>1, <2>1
  <2>3. Started' = Started
    BY <1>1, <2>1, <2>2 DEF Started
  <2>4. Len(Q') =< submitted'
    BY <1>1, <2>1, <2>2
  <2>5. ASSUME NEW i \in 1 .. Len(Q') PROVE Q'[i].id = Started' + i
    <3>1. CASE i =< Len(Q)
      BY <1>1, <2>2, <2>3, <3>1
    <3>2. CASE i > Len(Q)
      <4>1. i = Len(Q) + 1
        BY <1>1, <2>2, <3>2
      <4>. QED BY <1>1, <2>1, <2>2, <2>3, <4>1 DEF Started
    <3>. QED BY <1>1, <3>1, <3>2
  <2>6. \A i : Completed(i)' = Completed(i)
    BY <2>1 DEF Completed
  <2>. QED BY <2>1, <2>3, <2>4, <2>5, <2>6 DEF CommandsFollow
<1>4. CASE Starts
  <2>1. PICK c \in Command : /\ c.id = submitted + 1 /\ submitted' = submitted + 1
                             /\ Q = <<>> /\ Q' = Q /\ NumberPackets(c)
    BY <1>4 DEF Starts
  <2>2. Len(Q) = 0 /\ Len(Q') = 0 /\ Started = submitted /\ Started' = Started + 1
    BY <1>1, <2>1 DEF Started
  <2>3. /\ \A i \in 1 .. Len(sent') :
              sent'[i].cmd = Completed(i - 1)' + 1 /\ sent'[i].cmd =< Started'
        /\ Completed(Len(sent))' = Started'
    BY <2>1, <2>2, NumberingFollows
  <2>4. Len(Q') =< submitted' /\ \A i \in 1 .. Len(Q') : Q'[i].id = Started' + i
    BY <1>1, <2>1, <2>2
  <2>. QED BY <2>3, <2>4 DEF CommandsFollow
<1>5. CASE StartsLate
  <2>1. PICK c : c = Head(Q)
    OBVIOUS
  <2>2. /\ Q # <<>> /\ Q' = Tail(Q) /\ NumberPackets(c) /\ UNCHANGED submitted
    BY <1>5, <2>1 DEF StartsLate
  <2>3. /\ Len(Q) \in Nat \ {0} /\ c \in Command /\ c = Q[1] /\ 1 \in 1 .. Len(Q)
        /\ Len(Q') = Len(Q) - 1
        /\ \A i \in 1 .. Len(Q) - 1 : Q'[i] = Q[i + 1]
    BY <1>1, <2>1, <2>2
  <2>4. c.id = Started + 1 /\ Started' = Started + 1
    BY <1>1, <2>2, <2>3 DEF Started
  <2>5. /\ \A i \in 1 .. Len(sent') :
              sent'[i].cmd = Completed(i - 1)' + 1 /\ sent'[i].cmd =< Started'
        /\ Completed(Len(sent))' = Started'
    BY <2>2, <2>3, <2>4, NumberingFollows
  <2>6. Len(Q') =< submitted'
    BY <1>1, <2>2, <2>3
  <2>7. ASSUME NEW i \in 1 .. Len(Q') PROVE Q'[i].id = Started' + i
    <3>1. i + 1 \in 1 .. Len(Q) /\ i \in 1 .. Len(Q) - 1
      BY <2>3
    <3>2. Q'[i].id = Started + (i + 1)
      BY <1>1, <2>3, <3>1
    <3>. QED BY <1>1, <2>4, <3>1, <3>2
  <2>. QED BY <2>5, <2>6, <2>7 DEF CommandsFollow
<1>. QED BY <1>2, <1>3, <1>4, <1>5, HistorySteps DEF HandsOver


\* What holds of the history in every state, named so that it can be said of the next.
HistoryBounded == Len(delivered) \in 0 .. Len(sent) /\ submitted \in 0 .. MaxCommands
FinishingRight == Finishing = {i \in 1 .. Len(delivered) : sent[i].last}
HandedRight    == HandedCommands = [n \in 1 .. Completed(Len(delivered)) |-> n]

LEMMA InTheNextState ==
    /\ IInv' => HistoryBounded' /\ FinishingRight'
    /\ IInv' /\ RanksRight' => HandedRight'
<1>1. IInv => HistoryBounded /\ FinishingRight
  BY HistoryFacts, FinishingIs DEF HistoryBounded, FinishingRight
<1>2. IInv /\ RanksRight => HandedRight
  BY HandedAre DEF HandedRight
<1>. QED BY <1>1, <1>2, PTL

\* What is handed over stays so while the history grows.
LEMMA SameFinishing ==
    ASSUME IInv, IInv', RanksRight, UNCHANGED delivered,
           \A i \in 1 .. Len(delivered) : sent'[i] = sent[i]
    PROVE  RanksRight'
<1>1. Finishing' = Finishing
  <2>1. Finishing = {i \in 1 .. Len(delivered) : sent[i].last}
    BY FinishingIs
  <2>2. Finishing' = {i \in 1 .. Len(delivered') : sent'[i].last}
    BY InTheNextState DEF FinishingRight
  <2>. QED BY <2>1, <2>2
<1>2. \A i : Rank(i)' = Rank(i)
  BY <1>1 DEF Rank
<1>3. Completed(Len(delivered))' = Completed(Len(delivered))
  BY HistoryFacts DEF Completed
<1>4. Finishing \subseteq 1 .. Len(delivered)
  BY FinishingIs
<1>. QED BY <1>1, <1>2, <1>3, <1>4 DEF RanksRight

\* The next packet may complete the message that is next.
LEMMA HandsOverRanks ==
    ASSUME IInv, IInv', CommandsFollow, RanksRight, HandsOver
    PROVE  /\ RanksRight'
           /\ LET D == Len(delivered)
              IN  /\ D + 1 \in 1 .. Len(sent) /\ Len(delivered') = D + 1
                  /\ Completed(D + 1) = IF sent[D + 1].last THEN Completed(D) + 1
                                                            ELSE Completed(D)
<1>1. PICK D, F : D = Len(delivered) /\ F = Finishing
  OBVIOUS
<1>2. PICK idx : delivered' = Append(delivered, idx)
  BY DEF HandsOver
<1>3. UNCHANGED <<submitted, queued_commands, sent>>
  BY DEF HandsOver
<1>4. D \in Nat /\ Len(delivered') = D + 1
  BY <1>1, <1>2 DEF IInv, TypeOK
<1>5. D + 1 \in 1 .. Len(sent)
  <2>1. Len(delivered)' \in 0 .. Len(sent)'
    BY InTheNextState DEF HistoryBounded
  <2>. QED BY <1>3, <1>4, <2>1, HistoryFacts
<1>6. /\ F = {i \in 1 .. D : sent[i].last}
      /\ Finishing' = {i \in 1 .. D + 1 : sent[i].last}
  <2>1. F = {i \in 1 .. D : sent[i].last}
    BY <1>1, FinishingIs
  <2>2. Finishing' = {i \in 1 .. Len(delivered') : sent'[i].last}
    BY InTheNextState DEF FinishingRight
  <2>. QED BY <1>3, <1>4, <2>1, <2>2
<1>7. /\ IsFiniteSet(F) /\ Cardinality(F) = Completed(D)
      /\ \A i \in F : Cardinality({j \in F : j =< i}) = sent[i].cmd
      /\ \A n \in 1 .. Completed(D) : \E i \in F : sent[i].cmd = n
  BY <1>1, FinishingIs DEF RanksRight, Rank
<1>8. /\ sent[D + 1].cmd = Completed(D) + 1
      /\ Completed(D) \in Nat
      /\ Completed(D + 1) = IF sent[D + 1].last THEN Completed(D) + 1 ELSE Completed(D)
  <2>1. D + 1 - 1 = D /\ D + 1 # 0 /\ D \in 0 .. Len(sent)
    BY <1>4, <1>5, HistoryFacts
  <2>2. sent[D + 1].cmd = Completed(D) + 1
    BY <1>5, <2>1 DEF CommandsFollow
  <2>3. Completed(D) \in Nat
    BY <2>1, CompletedType
  <2>. QED BY <2>1, <2>2, <2>3 DEF Completed
<1>9. \A i : Completed(i)' = Completed(i)
  BY <1>3 DEF Completed
<1>10. F \subseteq 1 .. D
  BY <1>6
<1>11. \A i \in F : {j \in Finishing' : j =< i} = {j \in F : j =< i}
  BY <1>4, <1>6, <1>10
<1>12. CASE sent[D + 1].last
  <2>1. Finishing' = F \cup {D + 1} /\ D + 1 \notin F
    BY <1>4, <1>6, <1>10, <1>12
  <2>2. Cardinality(F \cup {D + 1}) = Cardinality(F) + 1
    BY <1>7, <2>1, FS_AddElement
  <2>3. Cardinality(Finishing') = Completed(D) + 1
    BY <1>7, <2>1, <2>2
  <2>4. {j \in Finishing' : j =< D + 1} = Finishing'
    BY <1>4, <1>6
  <2>5. \A i \in Finishing' : Cardinality({j \in Finishing' : j =< i}) = sent[i].cmd
    <3>1. \A i \in F : Cardinality({j \in Finishing' : j =< i}) = sent[i].cmd
      BY <1>7, <1>11
    <3>2. Cardinality({j \in Finishing' : j =< D + 1}) = sent[D + 1].cmd
      BY <1>8, <2>3, <2>4
    <3>. QED BY <2>1, <3>1, <3>2
  <2>6. \A n \in 1 .. Completed(D) + 1 : \E i \in Finishing' : sent[i].cmd = n
    <3> SUFFICES ASSUME NEW n \in 1 .. Completed(D) + 1
                 PROVE  \E i \in Finishing' : sent[i].cmd = n
      OBVIOUS
    <3>1. CASE n = Completed(D) + 1
      BY <1>8, <2>1, <3>1
    <3>2. CASE n # Completed(D) + 1
      <4>1. n \in 1 .. Completed(D)
        BY <1>8, <3>2
      <4>. QED BY <1>7, <2>1, <4>1
    <3>. QED BY <3>1, <3>2
  <2>7. Completed(Len(delivered))' = Completed(D) + 1
    BY <1>4, <1>8, <1>9, <1>12 DEF Completed
  <2>8. RanksRight'
    BY <1>3, <2>3, <2>5, <2>6, <2>7 DEF RanksRight, Rank
  <2>. QED BY <1>1, <1>4, <1>5, <1>8, <2>8
<1>13. CASE ~sent[D + 1].last
  <2>1. Finishing' = F
    BY <1>4, <1>6, <1>13
  <2>2. Completed(Len(delivered))' = Completed(D)
    BY <1>4, <1>8, <1>9, <1>13 DEF Completed
  <2>3. RanksRight'
    BY <1>3, <1>7, <1>11, <2>1, <2>2 DEF RanksRight, Rank
  <2>. QED BY <1>1, <1>4, <1>5, <1>8, <2>3
<1>. QED BY <1>12, <1>13

\* Numbering changes no packet that has its number.
LEMMA SentKept ==
    ASSUME IInv, Starts \/ StartsLate
    PROVE  \A i \in 0 .. Len(sent) : sent'[i] = sent[i] \/ i = 0
<1>1. \A c \in Command : NumberPackets(c) => \A i \in 1 .. Len(sent) : sent'[i] = sent[i]
  BY SentGrows
<1>2. ASSUME StartsLate PROVE Head(queued_commands) \in Command
  <2>1. queued_commands \in Seq(Command) /\ queued_commands # <<>>
    BY <1>2, HistoryFacts DEF StartsLate
  <2>. QED BY <2>1
<1>3. \A i \in 1 .. Len(sent) : sent'[i] = sent[i]
  BY <1>1, <1>2 DEF Starts, StartsLate
<1>. QED BY <1>3, HistoryFacts

\* Each step is one of MessageFifo, or none.
LEMMA FifoStep ==
    ASSUME IInv, IInv', FifoInv, [Next]_vars
    PROVE  FifoInv' /\ [Fifo!Next]_<<[n \in 1 .. submitted |-> n], HandedCommands>>
<1> USE DEF FifoInv
<1> DEFINE accepted == [n \in 1 .. submitted |-> n]
<1>1. CommandsFollow'
  BY CommandsFollowKept
<1>2. PICK D : D = Len(delivered) /\ D \in Nat /\ D =< Len(sent)
  BY HistoryFacts
<1>3. HandedCommands = [n \in 1 .. Completed(D) |-> n] /\ Completed(D) \in Nat
  BY <1>2, HandedAre, CompletedType, HistoryFacts
<1>4. ASSUME RanksRight'
      PROVE  HandedCommands' = [n \in 1 .. Completed(Len(delivered))' |-> n]
  BY <1>4, InTheNextState DEF HandedRight
<1>5. CASE UNCHANGED delivered /\ (\A i \in 1 .. Len(sent) : sent'[i] = sent[i])
           /\ (submitted' = submitted \/ submitted' = submitted + 1)
  <2>1. RanksRight'
    BY <1>2, <1>5, SameFinishing
  <2>2. Completed(Len(delivered))' = Completed(D)
    BY <1>2, <1>5, HistoryFacts DEF Completed
  <2>3. UNCHANGED HandedCommands
    BY <1>3, <1>4, <2>1, <2>2
  <2>4. CASE submitted' = submitted
    BY <1>1, <2>1, <2>3, <2>4
  <2>5. CASE submitted' = submitted + 1
    <3>1. submitted \in Nat /\ submitted' \in 1 .. MaxCommands
      <4>1. submitted' \in 0 .. MaxCommands
        BY InTheNextState DEF HistoryBounded
      <4>. QED BY <2>5, <4>1, HistoryFacts
    <3>2. PICK m : m = submitted' /\ m \in 1 .. MaxCommands
      BY <3>1
    <3>3. accepted' = Append(accepted, m)
      BY <2>5, <3>1, <3>2
    <3>4. Fifo!Accept(m)
      BY <2>3, <3>3 DEF Fifo!Accept
    <3>5. Fifo!Next
      BY <3>2, <3>4 DEF Fifo!Next
    <3>. QED BY <1>1, <2>1, <3>5
  <2>. QED BY <1>5, <2>4, <2>5
<1>6. CASE HandsOver
  <2>1. /\ RanksRight' /\ D + 1 \in 1 .. Len(sent) /\ Len(delivered') = D + 1
        /\ Completed(D + 1) = IF sent[D + 1].last THEN Completed(D) + 1 ELSE Completed(D)
    BY <1>2, <1>6, HandsOverRanks
  <2>2. UNCHANGED <<submitted, sent>>
    BY <1>6 DEF HandsOver
  <2>3. Completed(Len(delivered))' = Completed(D + 1)
    BY <2>1, <2>2 DEF Completed
  <2>4. HandedCommands' = [n \in 1 .. Completed(D + 1) |-> n]
    BY <1>4, <2>1, <2>3
  <2>5. CASE ~sent[D + 1].last
    BY <1>1, <1>3, <2>1, <2>2, <2>4, <2>5
  <2>6. CASE sent[D + 1].last
    <3>1. Completed(D) + 1 =< submitted /\ submitted \in Nat
      <4>1. /\ sent[D + 1].cmd =< Started /\ Started =< submitted
            /\ sent[D + 1].cmd = Completed(D) + 1
        <5>1. D + 1 - 1 = D
          BY <1>2
        <5>2. Started =< submitted
          BY HistoryFacts DEF Started
        <5>3. PICK j : j = D + 1 /\ j \in 1 .. Len(sent) /\ j - 1 = D
          BY <1>2, <2>1
        <5>4. sent[j].cmd = Completed(j - 1) + 1 /\ sent[j].cmd =< Started
          BY <5>3 DEF CommandsFollow
        <5>. QED BY <5>2, <5>3, <5>4
      <4>2. Started \in Int
        BY HistoryFacts DEF Started
      <4>. QED BY <1>3, <4>1, <4>2, HistoryFacts
    <3>2. PICK k : k = Completed(D) /\ k \in Nat /\ k + 1 =< submitted
      BY <1>3, <3>1
    <3>3. /\ HandedCommands = [n \in 1 .. k |-> n]
          /\ HandedCommands' = [n \in 1 .. k + 1 |-> n]
      BY <1>3, <2>1, <2>4, <2>6, <3>2
    <3>4. /\ Len(HandedCommands) = k /\ Len(accepted) = submitted
          /\ accepted[k + 1] = k + 1
      BY <3>1, <3>2, <3>3
    <3>5. HandedCommands' = Append(HandedCommands, k + 1)
      BY <3>2, <3>3
    <3>6. Fifo!HandOver
      BY <2>2, <3>1, <3>2, <3>4, <3>5 DEF Fifo!HandOver
    <3>7. Fifo!Next
      BY <3>6 DEF Fifo!Next
    <3>. QED BY <1>1, <2>1, <3>7
  <2>. QED BY <2>5, <2>6
<1>7. CASE Starts \/ StartsLate
  <2>1. \A i \in 1 .. Len(sent) : sent'[i] = sent[i]
    BY <1>7, SentKept, HistoryFacts
  <2>. QED BY <1>5, <1>7, <2>1 DEF Starts, StartsLate
<1>8. CASE Waits \/ UNCHANGED <<submitted, queued_commands, sent, delivered>>
  BY <1>5, <1>8 DEF Waits
<1>. QED BY <1>6, <1>7, <1>8, HistorySteps

\* At first, nothing was accepted and nothing came out.
LEMMA FifoInitially ==
    ASSUME Init PROVE FifoInv /\ Fifo!Init
<1>1. /\ sent = <<>> /\ delivered = <<>> /\ queued_commands = <<>> /\ submitted = 0
      /\ Len(sent) = 0 /\ Len(delivered) = 0 /\ Len(queued_commands) = 0
  BY DEF Init
<1>2. Finishing = {} /\ Cardinality(Finishing) = 0
  <2>1. Finishing = {}
    BY <1>1 DEF Finishing
  <2>. QED BY <2>1, FS_EmptySet
<1>3. Completed(0) = 0 /\ Started = 0
  <2>1. Completed(0) = 0
    BY DEF Completed
  <2>2. Started = 0 - 0
    BY <1>1 DEF Started
  <2>. QED BY <2>1, <2>2
<1>4. CommandsFollow
  BY <1>1, <1>3 DEF CommandsFollow
<1>5. RanksRight
  <2>1. Cardinality(Finishing) = Completed(Len(delivered)) /\ 1 .. Completed(Len(delivered)) = {}
    BY <1>1, <1>2, <1>3
  <2>. QED BY <1>2, <2>1 DEF RanksRight
<1>6. HandedCommands = <<>> /\ [n \in 1 .. submitted |-> n] = <<>>
  BY <1>1, <1>2 DEF HandedCommands
<1>. QED BY <1>4, <1>5, <1>6 DEF Fifo!Init, FifoInv

\* A reliable channel is a queue of messages: however commands are split, queued, lost,
\* re-sent and put in order again, each message is complete once, in the order in which
\* the user gave them (connection.h: "they shall be delivered in the same order as sent").
THEOREM MessagesInOrder == ASSUME WindowFits PROVE Spec => ImplementsFifo
<1>1. Init => FifoInv /\ Fifo!Init
  BY FifoInitially
<1>2. IInv /\ IInv' /\ FifoInv /\ [Next]_vars =>
          FifoInv' /\ [Fifo!Next]_<<[n \in 1 .. submitted |-> n], HandedCommands>>
  BY FifoStep
<1>. QED BY <1>1, <1>2, InvariantHolds, PTL DEF Spec, ImplementsFifo, Fifo!Spec
=============================================================================
