---------------------------- MODULE SplitBuffer ----------------------------
(***************************************************************************)
(* Messages longer than a packet (src/src/network/connection.cpp):         *)
(* the send thread splits them and numbers them with the split numbers of  *)
(* the channel, IncomingSplitBuffer puts them together again.  Reliable    *)
(* and unreliable messages share the numbers.                              *)
(*                                                                         *)
(* Below are the packets of the reliable channel, in order and none lost   *)
(* (ReliableChannel!InOrder), and datagrams that UDP loses, duplicates and *)
(* reorders.                                                               *)
(***************************************************************************)
EXTENDS SeqNum, Sequences, FiniteSets

CONSTANTS
    SEQNUM_INITIAL,    \* 65500
    MaxChunks,         \* pieces of the longest message
    UnreliableChunks,  \* pieces of the longest unreliable message
    MaxMessages        \* bound: messages the user sends

ASSUME SplitAssumption ==
    /\ SEQNUM_INITIAL \in Seqnum
    /\ MaxChunks \in Nat
    /\ UnreliableChunks \in 1 .. MaxChunks
    /\ MaxMessages \in Nat

VARIABLES
    next_outgoing_split_seqnum,
    next_incoming_seqnum,    \* of the sender, as a receiver on this channel
    reliables, datagrams,    \* packets under way
    m_buf,                   \* split number -> IncomingSplitPacket
    remove_queue,            \* local to removeUnreliableTimedOuts()
    \* history: the messages sent each way, with their pieces and split numbers, and
    \* what was handed to the user when a packet of either kind came
    reliable_messages, unreliable_messages, handed, handed_unreliable

sender  == <<next_outgoing_split_seqnum, next_incoming_seqnum>>
history == <<reliable_messages, unreliable_messages>>
vars    == <<sender, reliables, datagrams, m_buf, remove_queue, history,
             handed, handed_unreliable>>

\* A message is its place among the reliable ones or, as a negative number, among the
\* unreliable ones; a piece of it, the message and the place of the piece.
Content(m, n) == [k \in 1 .. n |-> <<m, k - 1>>]

Init ==
    /\ next_outgoing_split_seqnum = SEQNUM_INITIAL
    /\ next_incoming_seqnum = SEQNUM_INITIAL
    /\ reliables = <<>> /\ datagrams = {}
    /\ m_buf = <<>> /\ remove_queue = {}
    /\ reliable_messages = <<>> /\ unreliable_messages = <<>>
    /\ handed = <<>> /\ handed_unreliable = {}

-----------------------------------------------------------------------------
(* The sender *)

\* The packets of message m of n pieces.  One piece makes a TYPE_ORIGINAL packet, in
\* which there are no numbers.
makeAutoSplitPacket(m, n, split_seqnum) ==
    [i \in 1 .. n |-> [seqnum |-> split_seqnum, chunk_count |-> n, chunk_num |-> i - 1,
                       data |-> <<m, i - 1>>]]

\* The split number is counted when it was used.
NextSplit(n, split_seqnum) == IF n > 1 THEN u16(split_seqnum + 1) ELSE split_seqnum

MaySend == Len(reliable_messages) + Len(unreliable_messages) < MaxMessages

\* processReliableSendCommand() for a message of n pieces.
SendReliable(n) ==
    LET split_seqnum == next_outgoing_split_seqnum
    IN  /\ MaySend
        /\ next_outgoing_split_seqnum' = NextSplit(n, split_seqnum)
        /\ reliables' = reliables \o
               makeAutoSplitPacket(Len(reliable_messages) + 1, n, split_seqnum)
        /\ reliable_messages' =
               Append(reliable_messages, [pieces |-> n, seqnum |-> split_seqnum])
        /\ UNCHANGED <<next_incoming_seqnum, datagrams, m_buf, remove_queue,
                       unreliable_messages, handed, handed_unreliable>>

\* processReliableSendCommand() splits a message and finds too few sequence numbers for
\* it: the command is tried again later, with another split number.
FailToSendReliable ==
    /\ MaySend
    /\ \E n \in 2 .. MaxChunks :
          next_outgoing_split_seqnum' = NextSplit(n, next_outgoing_split_seqnum)
    /\ UNCHANGED <<next_incoming_seqnum, reliables, datagrams, m_buf, remove_queue,
                   history, handed, handed_unreliable>>

\* send() takes what getNextSplitSequenceNumber() returns: the number of the reliable
\* packet that the sender itself waits for.
SendUnreliable(n) ==
    LET split_seqnum == next_incoming_seqnum
        packets == makeAutoSplitPacket(- (Len(unreliable_messages) + 1), n, split_seqnum)
    IN  /\ MaySend
        /\ next_outgoing_split_seqnum' = NextSplit(n, split_seqnum)
        /\ datagrams' = datagrams \cup {packets[i] : i \in 1 .. n}
        /\ unreliable_messages' =
               Append(unreliable_messages, [pieces |-> n, seqnum |-> split_seqnum])
        /\ UNCHANGED <<next_incoming_seqnum, reliables, m_buf, remove_queue,
                       reliable_messages, handed, handed_unreliable>>

\* A reliable packet comes the other way: incNextIncomingSeqNum().  Once all messages
\* are sent, nobody looks at the number.
ReceiveFromPeer ==
    /\ MaySend
    /\ next_incoming_seqnum' = u16(next_incoming_seqnum + 1)
    /\ UNCHANGED <<next_outgoing_split_seqnum, reliables, datagrams, m_buf, remove_queue,
                   history, handed, handed_unreliable>>

-----------------------------------------------------------------------------
(* The receive thread of the receiver *)

\* The entry of packet p, a new one if there is none.
EntryFor(p, reliable) ==
    IF p.seqnum \in DOMAIN m_buf THEN m_buf[p.seqnum]
    ELSE [chunk_count |-> p.chunk_count, reliable |-> reliable, chunks |-> <<>>]

\* Its chunks with that of p, unless they have it.
ChunksWith(p, sp) ==
    [k \in DOMAIN sp.chunks \cup {p.chunk_num} |->
        IF k \in DOMAIN sp.chunks THEN sp.chunks[k] ELSE p.data]

\* Fault for WholeOrShared: the last chunk is not waited for.
allButOneReceived(chunks, chunk_count) == Cardinality(DOMAIN chunks) + 1 >= chunk_count

\* allReceived()
allReceived(chunks, chunk_count) == Cardinality(DOMAIN chunks) = chunk_count

\* With p its entry has as many chunks as the first packet of it said.
Completes(p, reliable) ==
    LET sp == EntryFor(p, reliable)
    IN  /\ p.chunk_num \notin DOMAIN sp.chunks
        /\ allReceived(ChunksWith(p, sp), sp.chunk_count)

\* The chunks 0 .. chunk_count - 1 one after the other; one that is not there is empty.
fulldata(p, reliable) ==
    LET sp == EntryFor(p, reliable)
        chunks == ChunksWith(p, sp)
    IN  [k \in 1 .. sp.chunk_count |-> IF k - 1 \in DOMAIN chunks THEN chunks[k - 1] ELSE <<>>]

Without(seqnum) == [s \in DOMAIN m_buf \ {seqnum} |-> m_buf[s]]

\* Fault for TypeOK: a complete entry stays.
insertKeeping(p, reliable) ==
    LET sp == EntryFor(p, reliable)
    IN  m_buf' = [s \in DOMAIN m_buf \cup {p.seqnum} |->
                     IF s = p.seqnum THEN [sp EXCEPT !.chunks = ChunksWith(p, sp)]
                     ELSE m_buf[s]]

\* IncomingSplitBuffer::insert(), under m_map_mutex.
insert(p, reliable) ==
    LET sp == EntryFor(p, reliable)
    IN  m_buf' = IF Completes(p, reliable) THEN Without(p.seqnum)
                 ELSE [s \in DOMAIN m_buf \cup {p.seqnum} |->
                          IF s = p.seqnum THEN [sp EXCEPT !.chunks = ChunksWith(p, sp)]
                          ELSE m_buf[s]]

\* What processPacket() does with the packet, and what the user gets.
Original(p) == p.chunk_count = 1

Stores(p, reliable) == IF Original(p) THEN UNCHANGED m_buf ELSE insert(p, reliable)

Results(p, reliable) ==
    IF Original(p) THEN {<<p.data>>}
    ELSE IF Completes(p, reliable) THEN {fulldata(p, reliable)} ELSE {}

\* A packet of the reliable channel, in order.
ReceiveReliable ==
    /\ reliables # <<>>
    /\ reliables' = Tail(reliables)
    /\ Stores(Head(reliables), TRUE)
    /\ \/ Results(Head(reliables), TRUE) = {} /\ UNCHANGED handed
       \/ \E c \in Results(Head(reliables), TRUE) : handed' = Append(handed, c)
    /\ UNCHANGED <<sender, datagrams, remove_queue, history, handed_unreliable>>

\* A datagram, of which a copy may still be under way.
ReceiveUnreliable(d, keep) ==
    /\ datagrams' = IF keep THEN datagrams ELSE datagrams \ {d}
    /\ Stores(d, FALSE)
    /\ handed_unreliable' = handed_unreliable \cup Results(d, FALSE)
    /\ UNCHANGED <<sender, reliables, remove_queue, history, handed>>

Lose ==
    /\ \E d \in datagrams : datagrams' = datagrams \ {d}
    /\ UNCHANGED <<sender, reliables, m_buf, remove_queue, history, handed,
                   handed_unreliable>>

-----------------------------------------------------------------------------
(* The send thread of the receiver: removeUnreliableTimedOuts() *)

\* The entries that may have timed out.
Unreliable(seqnum) == seqnum \in DOMAIN m_buf /\ ~ m_buf[seqnum].reliable

\* Fault for FifoWhileShort: reliable entries time out, too.
CollectAnyTimedOut(seqnums) ==
    /\ remove_queue = {} /\ seqnums # {}
    /\ seqnums \subseteq DOMAIN m_buf
    /\ remove_queue' = seqnums
    /\ UNCHANGED <<sender, reliables, datagrams, m_buf, history, handed, handed_unreliable>>

\* Under m_map_mutex, the numbers of those that have are put on a list, ...
CollectTimedOut(seqnums) ==
    /\ remove_queue = {} /\ seqnums # {}
    /\ \A s \in seqnums : Unreliable(s)
    /\ remove_queue' = seqnums
    /\ UNCHANGED <<sender, reliables, datagrams, m_buf, history, handed, handed_unreliable>>

\* Fault for UnreliableDiscarded: what the entry points to is freed, the entry stays.
RemoveNothing ==
    /\ \E s \in remove_queue :
          /\ \A t \in remove_queue : s =< t
          /\ remove_queue' = remove_queue \ {s}
    /\ UNCHANGED <<sender, reliables, datagrams, m_buf, history, handed, handed_unreliable>>

\* ... and what is there now under each of these numbers is removed, each under the
\* mutex of its own.
RemoveTimedOut ==
    /\ \E s \in remove_queue :
          /\ \A t \in remove_queue : s =< t
          /\ remove_queue' = remove_queue \ {s}
          /\ m_buf' = Without(s)
    /\ UNCHANGED <<sender, reliables, datagrams, history, handed, handed_unreliable>>

-----------------------------------------------------------------------------
Next ==
    \/ \E n \in 1 .. MaxChunks : SendReliable(n)
    \/ FailToSendReliable
    \/ \E n \in 1 .. UnreliableChunks : SendUnreliable(n)
    \/ ReceiveFromPeer
    \/ ReceiveReliable
    \/ \E d \in datagrams, keep \in BOOLEAN : ReceiveUnreliable(d, keep)
    \/ Lose
    \/ \E seqnums \in SUBSET Seqnum : CollectTimedOut(seqnums)
    \/ RemoveTimedOut

Spec == Init /\ [][Next]_vars

\* The send thread calls removeUnreliableTimedOuts() at every turn, and an entry whose
\* time is over is over it at every later turn.
Fairness ==
    /\ WF_vars(RemoveTimedOut)
    /\ \A s \in Seqnum :
          SF_vars(\E seqnums \in SUBSET Seqnum : s \in seqnums /\ CollectTimedOut(seqnums))

FairSpec == Spec /\ Fairness

-----------------------------------------------------------------------------
(* What the buffer is for *)

Message == (1 .. MaxMessages) \cup {- m : m \in 1 .. MaxMessages}
Piece   == Message \X (0 .. MaxChunks - 1)
Packet  == [seqnum : Seqnum, chunk_count : 1 .. MaxChunks, chunk_num : 0 .. MaxChunks - 1,
            data : Piece]
Sending == [pieces : 1 .. MaxChunks, seqnum : Seqnum]

IncomingSplitPacket ==
    [chunk_count : 1 .. MaxChunks, reliable : BOOLEAN,
     chunks : UNION {[K -> Piece] : K \in SUBSET (0 .. MaxChunks - 1)}]

\* The types, and that no entry has all its chunks: it would be of no use to anybody,
\* and would take the pieces of the next message with its number.
TypeOK ==
    /\ next_outgoing_split_seqnum \in Seqnum /\ next_incoming_seqnum \in Seqnum
    /\ reliables \in Seq(Packet) /\ datagrams \subseteq Packet
    /\ remove_queue \subseteq Seqnum
    /\ reliable_messages \in Seq(Sending) /\ unreliable_messages \in Seq(Sending)
    /\ Len(reliable_messages) + Len(unreliable_messages) =< MaxMessages
    /\ handed \in Seq(Seq(Piece \cup {<<>>}))
    /\ handed_unreliable \subseteq Seq(Piece \cup {<<>>})
    /\ DOMAIN m_buf \subseteq Seqnum
    /\ \A s \in DOMAIN m_buf :
          /\ m_buf[s] \in IncomingSplitPacket
          /\ Cardinality(DOMAIN m_buf[s].chunks) < m_buf[s].chunk_count

\* The messages sent, and what is known of each.
Messages == DOMAIN reliable_messages \cup {- m : m \in DOMAIN unreliable_messages}
InfoOf(m) == IF m > 0 THEN reliable_messages[m] ELSE unreliable_messages[- m]

HandedToUser == {handed[i] : i \in DOMAIN handed} \cup handed_unreliable

\* What is handed to the user is one of the messages sent, with all its pieces
\* (connection.h:285-289).
IsWhole(c) == \E m \in Messages : c = Content(m, InfoOf(m).pieces)
WholeMessages == \A c \in HandedToUser : IsWhole(c)

\* However pieces are lost, repeated and late, and whatever is removed meanwhile: what is
\* handed to the user is whole, unless a message it is made of has its split number in
\* common with another one.  The buffer is right as far as the numbers are.
WholeOrShared ==
    \A c \in HandedToUser :
       \/ IsWhole(c)
       \/ \E m, n \in Messages :
             /\ m # n /\ InfoOf(m).seqnum = InfoOf(n).seqnum
             /\ InfoOf(m).pieces > 1 /\ InfoOf(n).pieces > 1
             /\ \E i \in DOMAIN c : c[i] # <<>> /\ c[i][1] = m

\* The reliable messages sent.
Accepted == [m \in DOMAIN reliable_messages |-> Content(m, reliable_messages[m].pieces)]

Fifo == INSTANCE MessageFifo WITH
            Message  <- {Content(m, n) : m \in 1 .. MaxMessages, n \in 1 .. MaxChunks},
            accepted <- Accepted

\* No unreliable message was longer than a packet: always so on channels 0 and 2 of a
\* server, and on all those on which a client sends.
NoneLong == \A m \in DOMAIN unreliable_messages : unreliable_messages[m].pieces = 1

\* As long as that is so the user gets the reliable messages whole and in order, each
\* once, whatever their split numbers are and whatever is removed meanwhile.
FifoWhileShort ==
    /\ Fifo!Init
    /\ [][NoneLong' => Fifo!Next \/ UNCHANGED <<Accepted, handed>>]_vars

\* The pieces of an unreliable message that stays incomplete are discarded in the end
\* (connection.h:290: "the buffer shall be silently discarded").
UnreliableDiscarded == \A s \in Seqnum : []<>~ Unreliable(s)
=============================================================================
