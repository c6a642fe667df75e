-------------------------- MODULE SplitBuffer_proofs --------------------------
(***************************************************************************)
(* Proofs about the messages longer than a packet: the types of the        *)
(* buffer; that a message is handed to the user whole unless it shares its *)
(* split number; and that reliable messages alone come out whole and in    *)
(* order.                                                                  *)
(***************************************************************************)
EXTENDS SplitBuffer, FiniteSetTheorems, SequenceTheorems, TLAPS

-----------------------------------------------------------------------------
(* Numbers, sequences, packets *)

\* What u16 leaves of a number is a sequence number.
LEMMA NumberCut == ASSUME NEW n \in Nat PROVE u16(n) \in Seqnum
<1>1. SEQNUM_MAX + 1 \in Nat \ {0}
  BY SeqnumMaxAssumption
<1>2. n % (SEQNUM_MAX + 1) \in 0 .. (SEQNUM_MAX + 1) - 1
  BY <1>1
<1>. QED BY <1>2, SeqnumMaxAssumption DEF u16, Seqnum

\* So is the next split number.
LEMMA NextSplitType ==
    ASSUME NEW n \in Nat, NEW s \in Seqnum PROVE NextSplit(n, s) \in Seqnum
<1>1. s + 1 \in Nat
  BY SeqnumMaxAssumption DEF Seqnum
<1>. QED BY <1>1, NumberCut DEF NextSplit

\* A sequence with one more element,
LEMMA PutLast ==
    ASSUME NEW S, NEW q \in Seq(S), NEW e \in S, NEW r, r = Append(q, e)
    PROVE  /\ r \in Seq(S) /\ Len(r) = Len(q) + 1 /\ DOMAIN r = 1 .. Len(q) + 1
           /\ DOMAIN q = 1 .. Len(q) /\ Len(q) \in Nat
           /\ r[Len(q) + 1] = e /\ \A i \in DOMAIN q : r[i] = q[i]
<1>1. r \in Seq(S) /\ Len(r) = Len(q) + 1
  BY AppendProperties
<1>2. Len(q) \in Nat /\ DOMAIN q = 1 .. Len(q) /\ DOMAIN r = 1 .. Len(q) + 1
  BY <1>1, LenProperties
<1>. QED BY <1>1, <1>2, AppendProperties

\* with those of another one behind it,
LEMMA PutBehind ==
    ASSUME NEW S, NEW q \in Seq(S), NEW a \in Seq(S), NEW r, r = q \o a
    PROVE  /\ r \in Seq(S) /\ DOMAIN r = 1 .. Len(q) + Len(a) /\ Len(r) = Len(q) + Len(a)
           /\ Len(q) \in Nat /\ DOMAIN q = 1 .. Len(q)
           /\ Len(a) \in Nat /\ DOMAIN a = 1 .. Len(a)
           /\ \A i \in DOMAIN q : r[i] = q[i]
           /\ \A i \in DOMAIN a : r[Len(q) + i] = a[i]
<1>1. /\ Len(q) \in Nat /\ DOMAIN q = 1 .. Len(q)
      /\ Len(a) \in Nat /\ DOMAIN a = 1 .. Len(a)
  BY LenProperties
<1>2. /\ r \in Seq(S) /\ Len(r) = Len(q) + Len(a)
      /\ \A i \in 1 .. Len(q) + Len(a) :
            r[i] = IF i <= Len(q) THEN q[i] ELSE a[i - Len(q)]
  BY ConcatProperties
<1>3. DOMAIN r = 1 .. Len(q) + Len(a)
  BY <1>2, LenProperties
<1>4. \A i \in DOMAIN q : r[i] = q[i]
  BY <1>1, <1>2
<1>5. ASSUME NEW i \in DOMAIN a PROVE r[Len(q) + i] = a[i]
  <2>1. PICK j : j = Len(q) + i
    OBVIOUS
  <2>2. i \in Nat /\ j \in 1 .. Len(q) + Len(a) /\ ~ j <= Len(q) /\ j - Len(q) = i
    BY <1>1, <1>5, <2>1
  <2>. QED BY <1>2, <2>1, <2>2
<1>. QED BY <1>1, <1>2, <1>3, <1>4, <1>5

\* and without its first.
LEMMA TakeFirst ==
    ASSUME NEW S, NEW q \in Seq(S), q # <<>>, NEW r, r = Tail(q)
    PROVE  /\ r \in Seq(S) /\ DOMAIN r = 1 .. Len(q) - 1 /\ Len(r) = Len(q) - 1
           /\ Len(q) \in Nat \ {0} /\ DOMAIN q = 1 .. Len(q)
           /\ Head(q) = q[1] /\ Head(q) \in S
           /\ \A i \in 1 .. Len(q) - 1 : r[i] = q[i + 1]
<1>1. Len(q) \in Nat /\ DOMAIN q = 1 .. Len(q) /\ Len(q) # 0
  BY LenProperties, EmptySeq
<1>2. /\ r \in Seq(S) /\ Len(r) = Len(q) - 1 /\ Head(q) \in S
      /\ \A i \in 1 .. Len(q) - 1 : r[i] = q[i + 1]
  BY HeadTailProperties, <1>1
<1>3. DOMAIN r = 1 .. Len(q) - 1
  BY <1>1, <1>2, LenProperties
<1>4. Head(q) = q[1]
  BY <1>1
<1>. QED BY <1>1, <1>2, <1>3, <1>4

\* A piece of a message and its parts.
LEMMA PieceType ==
    ASSUME NEW m \in Message, NEW k \in 0 .. MaxChunks - 1
    PROVE  /\ <<m, k>> \in Piece /\ <<m, k>>[1] = m /\ <<m, k>>[2] = k /\ <<m, k>> # <<>>
BY DEF Piece

\* The packets of a message.
LEMMA PacketsOfMessage ==
    ASSUME NEW m \in Message, NEW n \in 1 .. MaxChunks, NEW s \in Seqnum,
           NEW ps, ps = makeAutoSplitPacket(m, n, s)
    PROVE  /\ ps \in Seq(Packet) /\ DOMAIN ps = 1 .. n /\ Len(ps) = n
           /\ \A i \in 1 .. n :
                 /\ ps[i] \in Packet /\ ps[i].seqnum = s /\ ps[i].chunk_count = n
                 /\ ps[i].chunk_num = i - 1 /\ ps[i].data = <<m, i - 1>>
<1>0. MaxChunks \in Nat /\ n \in Nat
  BY SplitAssumption
<1>1. ps = [i \in 1 .. n |-> [seqnum |-> s, chunk_count |-> n, chunk_num |-> i - 1,
                              data |-> <<m, i - 1>>]]
  BY DEF makeAutoSplitPacket
<1>2. ASSUME NEW i \in 1 .. n
      PROVE  /\ ps[i] \in Packet /\ ps[i].seqnum = s /\ ps[i].chunk_count = n
             /\ ps[i].chunk_num = i - 1 /\ ps[i].data = <<m, i - 1>>
  <2>1. i - 1 \in 0 .. MaxChunks - 1
    BY <1>0
  <2>2. <<m, i - 1>> \in Piece
    BY <2>1, PieceType
  <2>3. PICK k, d : k = i - 1 /\ d = <<m, i - 1>>
    OBVIOUS
  <2>4. ps[i] = [seqnum |-> s, chunk_count |-> n, chunk_num |-> k, data |-> d]
    BY <1>1, <2>3
  <2>5. ps[i] \in Packet
    BY <2>1, <2>2, <2>3, <2>4 DEF Packet
  <2>. QED BY <2>3, <2>4, <2>5
<1>3. DOMAIN ps = 1 .. n
  BY <1>1
<1>4. \A i \in 1 .. n : ps[i] \in Packet
  BY <1>2
<1>5. ps \in Seq(Packet) /\ Len(ps) = n
  <2>. HIDE DEF Packet
  <2>1. ps = [i \in 1 .. n |-> ps[i]]
    BY <1>1
  <2>. QED BY <1>0, <1>3, <1>4, <2>1, IsASeq, LenProperties
<1>. QED BY <1>2, <1>3, <1>5

\* ps are the n packets of message m, numbered s.
PacketsOf(ps, m, n, s) ==
    /\ ps \in Seq(Packet) /\ Len(ps) = n
    /\ \A i \in 1 .. n :
          /\ ps[i].seqnum = s /\ ps[i].chunk_count = n
          /\ ps[i].chunk_num = i - 1 /\ ps[i].data = <<m, i - 1>>

\* The same of them, as one predicate.
LEMMA PacketsNumbered ==
    ASSUME NEW m \in Message, NEW n \in 1 .. MaxChunks, NEW s \in Seqnum,
           NEW ps, ps = makeAutoSplitPacket(m, n, s)
    PROVE  PacketsOf(ps, m, n, s)
<1>1. ps \in Seq(Packet) /\ Len(ps) = n
  BY PacketsOfMessage
<1>2. ASSUME NEW i \in 1 .. n
      PROVE  /\ ps[i].seqnum = s /\ ps[i].chunk_count = n
             /\ ps[i].chunk_num = i - 1 /\ ps[i].data = <<m, i - 1>>
  BY PacketsOfMessage
<1>. QED BY <1>1, <1>2 DEF PacketsOf

-----------------------------------------------------------------------------
(* Entries *)

\* A new entry has no chunks.
LEMMA NoChunks == ASSUME NEW K, K = DOMAIN <<>> PROVE K = {} /\ <<>> \in [{} -> Piece]
OBVIOUS

\* What an entry consists of; its chunks are finitely many.
LEMMA EntryParts ==
    ASSUME NEW e \in IncomingSplitPacket
    PROVE  /\ e = [chunk_count |-> e.chunk_count, reliable |-> e.reliable,
                   chunks |-> e.chunks]
           /\ e.chunk_count \in 1 .. MaxChunks /\ e.reliable \in BOOLEAN
           /\ DOMAIN e.chunks \subseteq 0 .. MaxChunks - 1
           /\ \A k \in DOMAIN e.chunks : e.chunks[k] \in Piece
           /\ e.chunks = [k \in DOMAIN e.chunks |-> e.chunks[k]]
           /\ IsFiniteSet(DOMAIN e.chunks) /\ Cardinality(DOMAIN e.chunks) \in Nat
<1> DEFINE C == UNION {[K -> Piece] : K \in SUBSET (0 .. MaxChunks - 1)}
<1>1. e \in [chunk_count : 1 .. MaxChunks, reliable : BOOLEAN, chunks : C]
  BY DEF IncomingSplitPacket
<1>2. e.chunks \in C
  BY <1>1
<1>3. PICK K \in SUBSET (0 .. MaxChunks - 1) : e.chunks \in [K -> Piece]
  BY <1>2
<1> HIDE DEF C
<1>4. /\ e = [chunk_count |-> e.chunk_count, reliable |-> e.reliable, chunks |-> e.chunks]
      /\ e.chunk_count \in 1 .. MaxChunks /\ e.reliable \in BOOLEAN
  BY <1>1
<1>5. /\ DOMAIN e.chunks \subseteq 0 .. MaxChunks - 1
      /\ \A k \in DOMAIN e.chunks : e.chunks[k] \in Piece
      /\ e.chunks = [k \in DOMAIN e.chunks |-> e.chunks[k]]
  BY <1>3
<1>6. IsFiniteSet(0 .. MaxChunks - 1)
  BY SplitAssumption, FS_Interval
<1>7. IsFiniteSet(DOMAIN e.chunks)
  BY <1>5, <1>6, FS_Subset
<1>8. Cardinality(DOMAIN e.chunks) \in Nat
  BY <1>7, FS_CardinalityType
<1>. QED BY <1>4, <1>5, <1>7, <1>8

\* An entry made of its parts.
LEMMA EntryBuilt ==
    ASSUME NEW n \in 1 .. MaxChunks, NEW r \in BOOLEAN, NEW K \in SUBSET (0 .. MaxChunks - 1),
           NEW c \in [K -> Piece]
    PROVE  [chunk_count |-> n, reliable |-> r, chunks |-> c] \in IncomingSplitPacket
<1>1. c \in UNION {[L -> Piece] : L \in SUBSET (0 .. MaxChunks - 1)}
  OBVIOUS
<1>. QED BY <1>1 DEF IncomingSplitPacket

\* The entry of a packet: not complete yet ...
LEMMA EntryOfPacket ==
    ASSUME TypeOK, NEW p \in Packet, NEW r \in BOOLEAN, NEW sp, sp = EntryFor(p, r)
    PROVE  /\ sp \in IncomingSplitPacket /\ sp.chunk_count \in Nat
           /\ Cardinality(DOMAIN sp.chunks) \in Nat
           /\ Cardinality(DOMAIN sp.chunks) < sp.chunk_count
<1>0. p.chunk_count \in 1 .. MaxChunks
  BY DEF Packet
<1>1. sp \in IncomingSplitPacket /\ Cardinality(DOMAIN sp.chunks) < sp.chunk_count
  <2>1. CASE p.seqnum \in DOMAIN m_buf
    BY <2>1 DEF EntryFor, TypeOK
  <2>2. CASE p.seqnum \notin DOMAIN m_buf
    <3>1. sp = [chunk_count |-> p.chunk_count, reliable |-> r, chunks |-> <<>>]
      BY <2>2 DEF EntryFor
    <3>2. <<>> \in [{} -> Piece] /\ {} \in SUBSET (0 .. MaxChunks - 1)
      BY NoChunks
    <3>3. sp \in IncomingSplitPacket
      BY <1>0, <3>1, <3>2, EntryBuilt
    <3>4. DOMAIN sp.chunks = {} /\ sp.chunk_count = p.chunk_count
      BY <3>1, NoChunks
    <3>5. Cardinality(DOMAIN sp.chunks) = 0
      BY <3>4, FS_EmptySet
    <3>. QED BY <1>0, <3>3, <3>4, <3>5, SplitAssumption
  <2>. QED BY <2>1, <2>2
<1>2. sp.chunk_count \in 1 .. MaxChunks /\ Cardinality(DOMAIN sp.chunks) \in Nat
  BY <1>1, EntryParts
<1>. QED BY <1>1, <1>2, SplitAssumption

\* ... and with one more chunk if the packet is new.
LEMMA ChunksOfPacket ==
    ASSUME TypeOK, NEW p \in Packet, NEW sp \in IncomingSplitPacket,
           NEW c, c = ChunksWith(p, sp)
    PROVE  /\ DOMAIN c = DOMAIN sp.chunks \cup {p.chunk_num}
           /\ \A k \in DOMAIN sp.chunks : c[k] = sp.chunks[k]
           /\ p.chunk_num \notin DOMAIN sp.chunks => c[p.chunk_num] = p.data
           /\ \A k \in DOMAIN c : c[k] \in Piece
           /\ DOMAIN c \subseteq 0 .. MaxChunks - 1
           /\ c \in [DOMAIN c -> Piece]
           /\ p.chunk_num \in DOMAIN sp.chunks =>
                 Cardinality(DOMAIN c) = Cardinality(DOMAIN sp.chunks)
           /\ p.chunk_num \notin DOMAIN sp.chunks =>
                 Cardinality(DOMAIN c) = Cardinality(DOMAIN sp.chunks) + 1
<1>1. p.chunk_num \in 0 .. MaxChunks - 1 /\ p.data \in Piece
  BY DEF Packet
<1>2. c = [k \in DOMAIN sp.chunks \cup {p.chunk_num} |->
             IF k \in DOMAIN sp.chunks THEN sp.chunks[k] ELSE p.data]
  BY DEF ChunksWith
<1>3. /\ DOMAIN sp.chunks \subseteq 0 .. MaxChunks - 1
      /\ \A k \in DOMAIN sp.chunks : sp.chunks[k] \in Piece
      /\ IsFiniteSet(DOMAIN sp.chunks)
  BY EntryParts
<1>4. /\ DOMAIN c = DOMAIN sp.chunks \cup {p.chunk_num}
      /\ \A k \in DOMAIN sp.chunks : c[k] = sp.chunks[k]
      /\ p.chunk_num \notin DOMAIN sp.chunks => c[p.chunk_num] = p.data
      /\ \A k \in DOMAIN c : c[k] \in Piece
      /\ DOMAIN c \subseteq 0 .. MaxChunks - 1
      /\ c \in [DOMAIN c -> Piece]
  BY <1>1, <1>2, <1>3
<1>5. /\ p.chunk_num \in DOMAIN sp.chunks =>
            Cardinality(DOMAIN c) = Cardinality(DOMAIN sp.chunks)
      /\ p.chunk_num \notin DOMAIN sp.chunks =>
            Cardinality(DOMAIN c) = Cardinality(DOMAIN sp.chunks) + 1
  BY <1>3, <1>4, FS_AddElement
<1>. QED BY <1>4, <1>5

\* An entry whose chunks are replaced.
LEMMA EntryWith ==
    ASSUME NEW sp \in IncomingSplitPacket, NEW c, c \in [DOMAIN c -> Piece],
           DOMAIN c \subseteq 0 .. MaxChunks - 1,
           NEW e, e = [sp EXCEPT !.chunks = c]
    PROVE  /\ e \in IncomingSplitPacket /\ e.chunk_count = sp.chunk_count /\ e.chunks = c
           /\ e.reliable = sp.reliable
<1>1. PICK a, b, d : a = sp.chunk_count /\ b = sp.reliable /\ d = sp.chunks
  OBVIOUS
<1>2. /\ sp = [chunk_count |-> a, reliable |-> b, chunks |-> d]
      /\ a \in 1 .. MaxChunks /\ b \in BOOLEAN
  BY <1>1, EntryParts
<1>3. e = [chunk_count |-> a, reliable |-> b, chunks |-> c]
  BY <1>2
<1>5. e \in IncomingSplitPacket
  BY <1>2, <1>3, EntryBuilt
<1>. QED BY <1>1, <1>3, <1>5

-----------------------------------------------------------------------------
(* Types *)

BufferTyped ==
    /\ DOMAIN m_buf \subseteq Seqnum
    /\ \A s \in DOMAIN m_buf :
          /\ m_buf[s] \in IncomingSplitPacket
          /\ Cardinality(DOMAIN m_buf[s].chunks) < m_buf[s].chunk_count

\* erase() keeps the types of the entries,
LEMMA RemovalKeepsTypes ==
    ASSUME BufferTyped, NEW s, m_buf' = Without(s) PROVE BufferTyped'
<1>1. /\ DOMAIN m_buf' = DOMAIN m_buf \ {s}
      /\ \A t \in DOMAIN m_buf' : m_buf'[t] = m_buf[t]
  BY DEF Without
<1>. QED BY <1>1 DEF BufferTyped

\* and so does insert(): an entry that would be complete goes.
LEMMA InsertKeepsTypes ==
    ASSUME TypeOK, NEW p \in Packet, NEW r \in BOOLEAN, insert(p, r) PROVE BufferTyped'
<1>. PICK sp : sp = EntryFor(p, r)
  OBVIOUS
<1>. PICK c : c = ChunksWith(p, sp)
  OBVIOUS
<1>1. /\ sp \in IncomingSplitPacket /\ sp.chunk_count \in Nat
      /\ Cardinality(DOMAIN sp.chunks) \in Nat
      /\ Cardinality(DOMAIN sp.chunks) < sp.chunk_count
  BY EntryOfPacket
<1>0. sp \in IncomingSplitPacket
  BY <1>1
<1>5. /\ \A k \in DOMAIN c : c[k] \in Piece
      /\ DOMAIN c \subseteq 0 .. MaxChunks - 1
      /\ c \in [DOMAIN c -> Piece]
      /\ p.chunk_num \in DOMAIN sp.chunks =>
            Cardinality(DOMAIN c) = Cardinality(DOMAIN sp.chunks)
      /\ p.chunk_num \notin DOMAIN sp.chunks =>
            Cardinality(DOMAIN c) = Cardinality(DOMAIN sp.chunks) + 1
  BY <1>0, ChunksOfPacket
<1>. PICK e : e = [sp EXCEPT !.chunks = c]
  OBVIOUS
<1>6. e \in IncomingSplitPacket /\ e.chunk_count = sp.chunk_count /\ e.chunks = c
  BY <1>1, <1>5, EntryWith
<1>2. BufferTyped /\ p.seqnum \in Seqnum
  BY DEF TypeOK, BufferTyped, Packet
<1>3. CASE Completes(p, r)
  BY <1>2, <1>3, RemovalKeepsTypes DEF insert
<1>4. CASE ~ Completes(p, r)
  <2>1. m_buf' = [s \in DOMAIN m_buf \cup {p.seqnum} |->
                    IF s = p.seqnum THEN e ELSE m_buf[s]]
    BY <1>4 DEF insert
  <2>2. Cardinality(DOMAIN e.chunks) < e.chunk_count
    <3>1. p.chunk_num \in DOMAIN sp.chunks \/ Cardinality(DOMAIN c) # sp.chunk_count
      BY <1>4 DEF Completes, allReceived
    <3>. QED BY <1>1, <1>5, <1>6, <3>1
  <2>. QED BY <1>2, <1>6, <2>1, <2>2 DEF BufferTyped
<1>. QED BY <1>3, <1>4

\* What processPacket() does with a packet keeps them.
LEMMA StoresKeepsTypes ==
    ASSUME TypeOK, NEW p \in Packet, NEW r \in BOOLEAN, Stores(p, r) PROVE BufferTyped'
BY InsertKeepsTypes DEF Stores, TypeOK, BufferTyped

\* What is handed to the user is a sequence of pieces.
LEMMA ResultsTyped ==
    ASSUME TypeOK, NEW p \in Packet, NEW r \in BOOLEAN, NEW c \in Results(p, r)
    PROVE  c \in Seq(Piece \cup {<<>>})
<1> DEFINE S == Piece \cup {<<>>}
<1>1. CASE Original(p)
  <2>1. c = <<p.data>> /\ p.data \in S
    BY <1>1 DEF Results, Packet
  <2>. HIDE DEF S
  <2>2. c \in Seq(S)
    BY <2>1
  <2>. QED BY <2>2 DEF S
<1>2. CASE ~ Original(p)
  <2>. PICK sp : sp = EntryFor(p, r)
    OBVIOUS
  <2>. PICK b : b = ChunksWith(p, sp)
    OBVIOUS
  <2>2. sp \in IncomingSplitPacket /\ sp.chunk_count \in Nat
    BY EntryOfPacket
  <2>1. \A k \in DOMAIN b : b[k] \in Piece
    BY <2>2, ChunksOfPacket
  <2>3. c = fulldata(p, r)
    BY <1>2 DEF Results
  <2>4. c = [k \in 1 .. sp.chunk_count |-> IF k - 1 \in DOMAIN b THEN b[k - 1] ELSE <<>>]
    BY <2>3 DEF fulldata
  <2>5. \A k \in 1 .. sp.chunk_count :
           (IF k - 1 \in DOMAIN b THEN b[k - 1] ELSE <<>>) \in S
    BY <2>1
  <2>. HIDE DEF S
  <2>6. c \in Seq(S)
    BY <2>2, <2>4, <2>5, IsASeq
  <2>. QED BY <2>6 DEF S
<1>. QED BY <1>1, <1>2

\* The place of the next message of each kind.
LEMMA NextMessage ==
    ASSUME TypeOK, MaySend
    PROVE  /\ Len(reliable_messages) \in Nat /\ Len(unreliable_messages) \in Nat
           /\ Len(reliable_messages) + Len(unreliable_messages) + 1 =< MaxMessages
           /\ Len(reliable_messages) + 1 \in 1 .. MaxMessages
           /\ Len(reliable_messages) + 1 \in Message
           /\ - (Len(unreliable_messages) + 1) \in Message
<1>1. reliable_messages \in Seq(Sending) /\ unreliable_messages \in Seq(Sending)
  BY DEF TypeOK
<1>2. Len(reliable_messages) \in Nat /\ Len(unreliable_messages) \in Nat
  BY <1>1, LenProperties
<1>3. Len(reliable_messages) + Len(unreliable_messages) < MaxMessages /\ MaxMessages \in Nat
  BY SplitAssumption DEF MaySend
<1>4. /\ Len(reliable_messages) + 1 \in 1 .. MaxMessages
      /\ Len(unreliable_messages) + 1 \in 1 .. MaxMessages
  BY <1>2, <1>3
<1>. QED BY <1>2, <1>3, <1>4 DEF Message

\* The variables have their types at first ...
LEMMA InitTypes == Init => TypeOK
<1>. SUFFICES ASSUME Init PROVE TypeOK
  OBVIOUS
<1>1. DOMAIN m_buf = {}
  BY NoChunks DEF Init
<1>2. /\ SEQNUM_INITIAL \in Seqnum /\ 0 =< MaxMessages
  BY SplitAssumption
<1>3. /\ reliables \in Seq(Packet) /\ reliable_messages \in Seq(Sending)
      /\ unreliable_messages \in Seq(Sending) /\ handed \in Seq(Seq(Piece \cup {<<>>}))
      /\ Len(reliable_messages) = 0 /\ Len(unreliable_messages) = 0
  BY EmptySeq DEF Init
<1>. QED BY <1>1, <1>2, <1>3 DEF Init, TypeOK

\* ... after the steps of a sender ...
LEMMA SendsKeepTypes ==
    ASSUME TypeOK,
           \/ \E n \in 1 .. MaxChunks : SendReliable(n)
           \/ \E n \in 1 .. UnreliableChunks : SendUnreliable(n)
    PROVE  TypeOK'
<1>0. MaxChunks \in Nat /\ UnreliableChunks \in 1 .. MaxChunks
  BY SplitAssumption
<1>1. ASSUME NEW n \in 1 .. MaxChunks, SendReliable(n) PROVE TypeOK'
  <2>. PICK s, m, ps, e : /\ s = next_outgoing_split_seqnum /\ m = Len(reliable_messages) + 1
                          /\ ps = makeAutoSplitPacket(m, n, s)
                          /\ e = [pieces |-> n, seqnum |-> s]
    OBVIOUS
  <2>1. s \in Seqnum /\ e \in Sending
    BY DEF TypeOK, Sending
  <2>2. /\ m \in Message /\ Len(reliable_messages) \in Nat /\ Len(unreliable_messages) \in Nat
        /\ Len(reliable_messages) + Len(unreliable_messages) + 1 =< MaxMessages
    BY <1>1, NextMessage DEF SendReliable
  <2>3. ps \in Seq(Packet)
    BY <2>1, <2>2, PacketsOfMessage
  <2>4. reliables' \in Seq(Packet)
    <3>. HIDE DEF Packet
    <3>1. reliables \in Seq(Packet) /\ reliables' = reliables \o ps
      BY <1>1 DEF SendReliable, TypeOK
    <3>. QED BY <2>3, <3>1, PutBehind
  <2>5. reliable_messages' \in Seq(Sending) /\ Len(reliable_messages') = Len(reliable_messages) + 1
    <3>. HIDE DEF Sending
    <3>1. reliable_messages \in Seq(Sending) /\ reliable_messages' = Append(reliable_messages, e)
      BY <1>1 DEF SendReliable, TypeOK
    <3>. QED BY <2>1, <3>1, PutLast
  <2>6. next_outgoing_split_seqnum' \in Seqnum
    BY <1>0, <1>1, <2>1, NextSplitType DEF SendReliable
  <2>7. Len(reliable_messages') + Len(unreliable_messages) =< MaxMessages
    BY <2>2, <2>5, SplitAssumption
  <2>. QED BY <1>1, <2>4, <2>5, <2>6, <2>7 DEF SendReliable, TypeOK
<1>2. ASSUME NEW n \in 1 .. UnreliableChunks, SendUnreliable(n) PROVE TypeOK'
  <2>. PICK s, m, ps, e : /\ s = next_incoming_seqnum /\ m = - (Len(unreliable_messages) + 1)
                          /\ ps = makeAutoSplitPacket(m, n, s)
                          /\ e = [pieces |-> n, seqnum |-> s]
    OBVIOUS
  <2>0. n \in 1 .. MaxChunks
    BY <1>0
  <2>1. s \in Seqnum /\ e \in Sending
    BY <2>0 DEF TypeOK, Sending
  <2>2. /\ m \in Message /\ Len(reliable_messages) \in Nat /\ Len(unreliable_messages) \in Nat
        /\ Len(reliable_messages) + Len(unreliable_messages) + 1 =< MaxMessages
    BY <1>2, NextMessage DEF SendUnreliable
  <2>3. \A i \in 1 .. n : ps[i] \in Packet
    BY <2>0, <2>1, <2>2, PacketsOfMessage
  <2>4. datagrams' \subseteq Packet
    BY <1>2, <2>3 DEF SendUnreliable, TypeOK
  <2>5. /\ unreliable_messages' \in Seq(Sending)
        /\ Len(unreliable_messages') = Len(unreliable_messages) + 1
    <3>. HIDE DEF Sending
    <3>1. /\ unreliable_messages \in Seq(Sending)
          /\ unreliable_messages' = Append(unreliable_messages, e)
      BY <1>2 DEF SendUnreliable, TypeOK
    <3>. QED BY <2>1, <3>1, PutLast
  <2>6. next_outgoing_split_seqnum' \in Seqnum
    BY <1>0, <1>2, <2>1, NextSplitType DEF SendUnreliable
  <2>7. Len(reliable_messages) + Len(unreliable_messages') =< MaxMessages
    BY <2>2, <2>5, SplitAssumption
  <2>. QED BY <1>2, <2>4, <2>5, <2>6, <2>7 DEF SendUnreliable, TypeOK
<1>. QED BY <1>1, <1>2

\* ... and after any step.
LEMMA NextTypes == ASSUME TypeOK, [Next]_vars PROVE TypeOK'
<1>1. ASSUME \/ \E n \in 1 .. MaxChunks : SendReliable(n)
             \/ \E n \in 1 .. UnreliableChunks : SendUnreliable(n)
      PROVE  TypeOK'
  BY <1>1, SendsKeepTypes
<1>2. ASSUME FailToSendReliable PROVE TypeOK'
  <2>1. \A n \in 2 .. MaxChunks : NextSplit(n, next_outgoing_split_seqnum) \in Seqnum
    BY NextSplitType, SplitAssumption DEF TypeOK
  <2>. QED BY <1>2, <2>1 DEF FailToSendReliable, TypeOK, history
<1>3. ASSUME ReceiveFromPeer PROVE TypeOK'
  <2>1. u16(next_incoming_seqnum + 1) \in Seqnum
    <3>1. PICK k : k = next_incoming_seqnum + 1
      OBVIOUS
    <3>2. k \in Nat
      BY <3>1, SeqnumMaxAssumption DEF TypeOK, Seqnum
    <3>. QED BY <3>1, <3>2, NumberCut
  <2>. QED BY <1>3, <2>1 DEF ReceiveFromPeer, TypeOK, history
<1>4. ASSUME ReceiveReliable PROVE TypeOK'
  <2>. PICK p : p = Head(reliables)
    OBVIOUS
  <2>1. reliables' \in Seq(Packet) /\ p \in Packet
    <3>. HIDE DEF Packet
    <3>1. reliables \in Seq(Packet) /\ reliables # <<>> /\ reliables' = Tail(reliables)
      BY <1>4 DEF ReceiveReliable, TypeOK
    <3>. QED BY <3>1, TakeFirst
  <2>2. BufferTyped'
    BY <1>4, <2>1, StoresKeepsTypes DEF ReceiveReliable
  <2>3. handed' \in Seq(Seq(Piece \cup {<<>>}))
    <3>1. handed \in Seq(Seq(Piece \cup {<<>>}))
      BY DEF TypeOK
    <3>2. ASSUME NEW c \in Results(p, TRUE) PROVE c \in Seq(Piece \cup {<<>>})
      BY <2>1, <3>2, ResultsTyped
    <3>3. handed' = handed \/ \E c \in Results(p, TRUE) : handed' = Append(handed, c)
      BY <1>4 DEF ReceiveReliable
    <3>4. PICK S : S = Seq(Piece \cup {<<>>})
      OBVIOUS
    <3>5. ASSUME NEW c \in S, handed \in Seq(S), handed' = Append(handed, c)
          PROVE  handed' \in Seq(S)
      BY <3>5, PutLast
    <3>. QED BY <3>1, <3>2, <3>3, <3>4, <3>5
  <2>. QED BY <1>4, <2>1, <2>2, <2>3 DEF ReceiveReliable, TypeOK, BufferTyped, sender, history
<1>5. ASSUME NEW d \in datagrams, NEW keep \in BOOLEAN, ReceiveUnreliable(d, keep)
      PROVE  TypeOK'
  <2>1. d \in Packet /\ datagrams' \subseteq Packet
    BY <1>5 DEF ReceiveUnreliable, TypeOK
  <2>2. BufferTyped'
    BY <1>5, <2>1, StoresKeepsTypes DEF ReceiveUnreliable
  <2>3. handed_unreliable' \subseteq Seq(Piece \cup {<<>>})
    BY <1>5, <2>1, ResultsTyped DEF ReceiveUnreliable, TypeOK
  <2>. QED BY <1>5, <2>1, <2>2, <2>3 DEF ReceiveUnreliable, TypeOK, BufferTyped, sender, history
<1>6. ASSUME Lose PROVE TypeOK'
  BY <1>6 DEF Lose, TypeOK, sender, history
<1>7. ASSUME NEW seqnums \in SUBSET Seqnum, CollectTimedOut(seqnums) PROVE TypeOK'
  BY <1>7 DEF CollectTimedOut, TypeOK, sender, history
<1>8. ASSUME RemoveTimedOut PROVE TypeOK'
  <2>1. BufferTyped'
    BY <1>8, RemovalKeepsTypes DEF RemoveTimedOut, BufferTyped, TypeOK
  <2>. QED BY <1>8, <2>1 DEF RemoveTimedOut, TypeOK, BufferTyped, sender, history
<1>9. ASSUME UNCHANGED vars PROVE TypeOK'
  BY <1>9 DEF vars, sender, history, TypeOK
<1>. QED BY <1>1, <1>2, <1>3, <1>4, <1>5, <1>6, <1>7, <1>8, <1>9 DEF Next

\* The variables have their types, whatever is lost, repeated or removed; in particular,
\* an entry with as many chunks as it waits for never stays in the buffer.
THEOREM SplitTypesCorrect == Spec => []TypeOK
BY InitTypes, NextTypes, PTL DEF Spec

-----------------------------------------------------------------------------
(* Messages come out whole unless they share their split numbers *)

\* What is known of each message; I below stands for it.
Infos == [m \in Messages |-> InfoOf(m)]

Shared(m, I) == \E n \in DOMAIN I :
    n # m /\ I[n].seqnum = I[m].seqnum /\ I[n].pieces > 1

\* A packet under way is one of its message.
PacketFits(p, I) ==
    /\ p.data[1] \in DOMAIN I
    /\ p.data = <<p.data[1], p.chunk_num>>
    /\ p.seqnum = I[p.data[1]].seqnum
    /\ p.chunk_count = I[p.data[1]].pieces
    /\ p.chunk_num < p.chunk_count

\* The chunks of an entry are pieces of long messages with its number, each at its place.
ChunksFit(chunks, s, I) ==
    \A k \in DOMAIN chunks :
       /\ chunks[k][1] \in DOMAIN I
       /\ chunks[k] = <<chunks[k][1], k>>
       /\ I[chunks[k][1]].seqnum = s
       /\ I[chunks[k][1]].pieces > 1
       /\ k < I[chunks[k][1]].pieces

OfOneMessage(chunks, chunk_count, I) ==
    \E m \in DOMAIN I : /\ I[m].pieces = chunk_count
                        /\ \A k \in DOMAIN chunks : chunks[k][1] = m

\* They are of one message, or all their messages share the number; and one of them at
\* least is below the count of the entry.
EntryFits(chunks, chunk_count, s, I) ==
    /\ ChunksFit(chunks, s, I)
    /\ \E k \in DOMAIN chunks : k < chunk_count
    /\ \/ OfOneMessage(chunks, chunk_count, I)
       \/ \A k \in DOMAIN chunks : Shared(chunks[k][1], I)

\* WholeOrShared of one sequence of pieces.
WholeOr(c, I) ==
    \/ \E m \in DOMAIN I : c = Content(m, I[m].pieces)
    \/ \E m \in DOMAIN I :
          /\ I[m].pieces > 1 /\ Shared(m, I)
          /\ \E i \in DOMAIN c : c[i] # <<>> /\ c[i][1] = m

WholeInvariant ==
    /\ \A i \in DOMAIN reliables : PacketFits(reliables[i], Infos)
    /\ \A d \in datagrams : PacketFits(d, Infos)
    /\ \A s \in DOMAIN m_buf : EntryFits(m_buf[s].chunks, m_buf[s].chunk_count, s, Infos)
    /\ \A c \in HandedToUser : WholeOr(c, Infos)

\* Messages sent later change nothing.
LEMMA MoreMessages ==
    ASSUME NEW I, NEW J, \A m \in DOMAIN I : m \in DOMAIN J /\ J[m] = I[m]
    PROVE  /\ \A p : PacketFits(p, I) => PacketFits(p, J)
           /\ \A e, n, s : EntryFits(e, n, s, I) => EntryFits(e, n, s, J)
           /\ \A c : WholeOr(c, I) => WholeOr(c, J)
<1>1. ASSUME NEW m \in DOMAIN I, Shared(m, I) PROVE Shared(m, J)
  BY <1>1 DEF Shared
<1>2. ASSUME NEW p, PacketFits(p, I) PROVE PacketFits(p, J)
  BY <1>2 DEF PacketFits
<1>3. ASSUME NEW e, NEW n, NEW s, EntryFits(e, n, s, I) PROVE EntryFits(e, n, s, J)
  <2>1. ChunksFit(e, s, I) /\ ChunksFit(e, s, J)
    BY <1>3 DEF EntryFits, ChunksFit
  <2>2. OfOneMessage(e, n, I) => OfOneMessage(e, n, J)
    BY DEF OfOneMessage
  <2>3. (\A k \in DOMAIN e : Shared(e[k][1], I)) => \A k \in DOMAIN e : Shared(e[k][1], J)
    BY <1>1, <2>1 DEF ChunksFit
  <2>. QED BY <1>3, <2>1, <2>2, <2>3 DEF EntryFits
<1>4. ASSUME NEW c, WholeOr(c, I) PROVE WholeOr(c, J)
  <2>1. CASE \E m \in DOMAIN I : c = Content(m, I[m].pieces)
    BY <2>1 DEF WholeOr
  <2>2. CASE \E m \in DOMAIN I :
                /\ I[m].pieces > 1 /\ Shared(m, I)
                /\ \E i \in DOMAIN c : c[i] # <<>> /\ c[i][1] = m
    BY <1>1, <2>2 DEF WholeOr
  <2>. QED BY <1>4, <2>1, <2>2 DEF WholeOr
<1>. QED BY <1>2, <1>3, <1>4

\* The chunks of a new entry: one of its message,
LEMMA FirstChunk ==
    ASSUME NEW I, NEW p, PacketFits(p, I), p.chunk_count # 1, p.chunk_count \in Nat \ {0},
           NEW c, DOMAIN c = {p.chunk_num}, c[p.chunk_num] = p.data
    PROVE  EntryFits(c, p.chunk_count, p.seqnum, I)
<1>. PICK m, k, n, s : m = p.data[1] /\ k = p.chunk_num /\ n = p.chunk_count /\ s = p.seqnum
  OBVIOUS
<1>1. /\ m \in DOMAIN I /\ p.data = <<m, k>> /\ s = I[m].seqnum /\ n = I[m].pieces /\ k < n
      /\ n > 1
  BY DEF PacketFits
<1>2. DOMAIN c = {k} /\ c[k] = <<m, k>> /\ c[k][1] = m
  BY <1>1
<1>3. ChunksFit(c, s, I)
  BY <1>1, <1>2 DEF ChunksFit
<1>4. OfOneMessage(c, n, I)
  BY <1>1, <1>2 DEF OfOneMessage
<1>. QED BY <1>1, <1>2, <1>3, <1>4 DEF EntryFits

\* and those of an entry with one more, of the same message or of one that shares.
LEMMA OneMoreChunk ==
    ASSUME NEW I, NEW p, PacketFits(p, I), p.chunk_count # 1, p.chunk_count \in Nat \ {0},
           NEW b, NEW n, EntryFits(b, n, p.seqnum, I),
           NEW c, DOMAIN c = DOMAIN b \cup {p.chunk_num}, \A k \in DOMAIN b : c[k] = b[k],
           p.chunk_num \notin DOMAIN b => c[p.chunk_num] = p.data
    PROVE  EntryFits(c, n, p.seqnum, I)
<1>. PICK m, j, s : m = p.data[1] /\ j = p.chunk_num /\ s = p.seqnum
  OBVIOUS
<1>1. /\ m \in DOMAIN I /\ p.data = <<m, j>> /\ s = I[m].seqnum /\ j < I[m].pieces
      /\ I[m].pieces > 1
  BY DEF PacketFits
<1>2. /\ DOMAIN c = DOMAIN b \cup {j} /\ \A k \in DOMAIN b : c[k] = b[k]
      /\ j \notin DOMAIN b => c[j] = <<m, j>> /\ c[j][1] = m
  BY <1>1
<1>3. ChunksFit(b, s, I) /\ \E k \in DOMAIN b : k < n
  BY DEF EntryFits
<1>4. ChunksFit(c, s, I) /\ \E k \in DOMAIN c : k < n
  BY <1>1, <1>2, <1>3 DEF ChunksFit
<1>5. CASE \A k \in DOMAIN b : Shared(b[k][1], I)
  <2>1. PICK i \in DOMAIN b : i < n
    BY <1>3
  <2>2. b[i][1] \in DOMAIN I /\ I[b[i][1]].seqnum = s /\ I[b[i][1]].pieces > 1
    BY <1>3, <2>1 DEF ChunksFit
  <2>3. Shared(m, I)
    <3>1. CASE b[i][1] = m
      BY <1>5, <3>1
    <3>2. CASE b[i][1] # m
      BY <1>1, <2>2, <3>2 DEF Shared
    <3>. QED BY <3>1, <3>2
  <2>4. \A k \in DOMAIN c : Shared(c[k][1], I)
    BY <1>2, <1>5, <2>3
  <2>. QED BY <1>4, <2>4 DEF EntryFits
<1>6. CASE OfOneMessage(b, n, I)
  <2>1. PICK l \in DOMAIN I : I[l].pieces = n /\ \A k \in DOMAIN b : b[k][1] = l
    BY <1>6 DEF OfOneMessage
  <2>2. CASE j \in DOMAIN b \/ l = m
    <3>1. \A k \in DOMAIN c : c[k][1] = l
      BY <1>2, <2>1, <2>2
    <3>2. OfOneMessage(c, n, I)
      BY <2>1, <3>1 DEF OfOneMessage
    <3>. QED BY <1>4, <3>2 DEF EntryFits
  <2>3. CASE j \notin DOMAIN b /\ l # m
    <3>1. PICK i \in DOMAIN b : i < n
      BY <1>3
    <3>2. b[i][1] = l /\ I[l].seqnum = s /\ I[l].pieces > 1
      BY <1>3, <2>1, <3>1 DEF ChunksFit
    <3>3. Shared(l, I) /\ Shared(m, I)
      BY <1>1, <2>1, <2>3, <3>2 DEF Shared
    <3>4. ASSUME NEW k \in DOMAIN c PROVE Shared(c[k][1], I)
      <4>1. c[k][1] = l \/ c[k][1] = m
        BY <1>2, <2>1, <2>3
      <4>. QED BY <3>3, <4>1
    <3>. QED BY <1>4, <3>4 DEF EntryFits
  <2>. QED BY <2>2, <2>3
<1>. QED BY <1>5, <1>6 DEF EntryFits

\* As many chunks as counted: all those of the message, if they are of one.
LEMMA CompleteFits ==
    ASSUME NEW I, \A m \in DOMAIN I : I[m].pieces \in Nat,
           NEW b, NEW n \in Nat, NEW s, EntryFits(b, n, s, I),
           DOMAIN b \subseteq Nat, Cardinality(DOMAIN b) = n,
           NEW c, c = [k \in 1 .. n |-> IF k - 1 \in DOMAIN b THEN b[k - 1] ELSE <<>>]
    PROVE  WholeOr(c, I)
<1>1. ChunksFit(b, s, I)
  BY DEF EntryFits
<1>2. CASE OfOneMessage(b, n, I)
  <2>1. PICK m \in DOMAIN I : I[m].pieces = n /\ \A k \in DOMAIN b : b[k][1] = m
    BY <1>2 DEF OfOneMessage
  <2>2. \A k \in DOMAIN b : b[k] = <<m, k>> /\ k < n
    BY <1>1, <2>1 DEF ChunksFit
  <2>3. DOMAIN b \subseteq 0 .. n - 1
    BY <2>2
  <2>4. IsFiniteSet(0 .. n - 1) /\ Cardinality(0 .. n - 1) = n
    <3>1. 0 \in Int /\ n - 1 \in Int /\ (IF 0 > n - 1 THEN 0 ELSE n - 1 - 0 + 1) = n
      OBVIOUS
    <3>. QED BY <3>1, FS_Interval
  <2>5. DOMAIN b = 0 .. n - 1
    BY <2>3, <2>4, FS_Subset
  <2>6. \A k \in 1 .. n : k - 1 \in DOMAIN b /\ b[k - 1] = <<m, k - 1>>
    <3>1. \A k \in 1 .. n : k - 1 \in DOMAIN b
      BY <2>5
    <3>. QED BY <2>2, <3>1
  <2>7. c = Content(m, n)
    BY <2>6 DEF Content
  <2>. QED BY <2>1, <2>7 DEF WholeOr
<1>3. CASE \A k \in DOMAIN b : Shared(b[k][1], I)
  <2>1. PICK k \in DOMAIN b : k < n
    BY DEF EntryFits
  <2>2. PICK m : m = b[k][1]
    OBVIOUS
  <2>3. /\ m \in DOMAIN I /\ b[k] = <<m, k>> /\ I[m].pieces > 1 /\ Shared(m, I)
    BY <1>1, <1>3, <2>1, <2>2 DEF ChunksFit
  <2>4. PICK i : i = k + 1
    OBVIOUS
  <2>5. i \in 1 .. n /\ i - 1 = k
    BY <2>1, <2>4
  <2>6. i \in DOMAIN c /\ c[i] = <<m, k>>
    BY <2>1, <2>3, <2>5
  <2>7. c[i] # <<>> /\ c[i][1] = m
    <3>1. PICK x : x = c[i]
      OBVIOUS
    <3>2. x = <<m, k>>
      BY <2>6, <3>1
    <3>3. x # <<>> /\ x[1] = m
      BY <3>2
    <3>. QED BY <3>1, <3>3
  <2>. QED BY <2>3, <2>6, <2>7 DEF WholeOr
<1>. QED BY <1>2, <1>3 DEF EntryFits

\* What is known of the messages has its type.
LEMMA InfosTyped ==
    ASSUME TypeOK
    PROVE  /\ DOMAIN Infos = Messages
           /\ \A m \in Messages : /\ Infos[m] = InfoOf(m) /\ Infos[m] \in Sending
                                  /\ Infos[m].pieces \in Nat
<1>1. /\ reliable_messages \in Seq(Sending) /\ unreliable_messages \in Seq(Sending)
  BY DEF TypeOK
<1>2. ASSUME NEW m \in Messages PROVE InfoOf(m) \in Sending
  <2>0. /\ Len(reliable_messages) \in Nat /\ Len(unreliable_messages) \in Nat
        /\ DOMAIN reliable_messages = 1 .. Len(reliable_messages)
        /\ DOMAIN unreliable_messages = 1 .. Len(unreliable_messages)
    BY <1>1, LenProperties
  <2>1. CASE m \in DOMAIN reliable_messages
    <3>1. m > 0
      BY <2>0, <2>1
    <3>. HIDE DEF Sending
    <3>2. reliable_messages[m] \in Sending
      BY <1>1, <2>0, <2>1, ElementOfSeq
    <3>. QED BY <3>1, <3>2 DEF InfoOf
  <2>2. CASE m \notin DOMAIN reliable_messages
    <3>1. PICK j \in DOMAIN unreliable_messages : m = - j
      BY <2>2 DEF Messages
    <3>2. ~ m > 0 /\ - m = j
      BY <2>0, <3>1
    <3>. HIDE DEF Sending
    <3>3. unreliable_messages[j] \in Sending
      BY <1>1, <2>0, <3>1, ElementOfSeq
    <3>. QED BY <3>2, <3>3 DEF InfoOf
  <2>. QED BY <2>1, <2>2
<1>3. \A x \in Sending : x.pieces \in Nat
  BY SplitAssumption DEF Sending
<1>4. DOMAIN Infos = Messages /\ \A m \in Messages : Infos[m] = InfoOf(m)
  BY DEF Infos
<1>. QED BY <1>2, <1>3, <1>4

\* With a packet that fits, its entry fits.
LEMMA EntryWithPacketFits ==
    ASSUME TypeOK, WholeInvariant, NEW p \in Packet, NEW r \in BOOLEAN, ~ Original(p),
           PacketFits(p, Infos), NEW sp, sp = EntryFor(p, r), NEW c, c = ChunksWith(p, sp)
    PROVE  EntryFits(c, sp.chunk_count, p.seqnum, Infos)
<1>. PICK I : I = Infos
  OBVIOUS
<1>0. p.chunk_count # 1 /\ p.chunk_count \in Nat \ {0}
  BY SplitAssumption DEF Original, Packet
<1>1. sp \in IncomingSplitPacket
  BY EntryOfPacket
<1>2. /\ DOMAIN c = DOMAIN sp.chunks \cup {p.chunk_num}
      /\ \A k \in DOMAIN sp.chunks : c[k] = sp.chunks[k]
      /\ p.chunk_num \notin DOMAIN sp.chunks => c[p.chunk_num] = p.data
  <2>1. c = [k \in DOMAIN sp.chunks \cup {p.chunk_num} |->
               IF k \in DOMAIN sp.chunks THEN sp.chunks[k] ELSE p.data]
    BY DEF ChunksWith
  <2>. QED BY <2>1
<1>3. PacketFits(p, I)
  OBVIOUS
<1>4. CASE p.seqnum \in DOMAIN m_buf
  <2>1. sp = m_buf[p.seqnum]
    BY <1>4 DEF EntryFor
  <2>2. EntryFits(sp.chunks, sp.chunk_count, p.seqnum, I)
    BY <1>4, <2>1 DEF WholeInvariant
  <2>. QED BY <1>0, <1>2, <1>3, <2>2, OneMoreChunk
<1>5. CASE p.seqnum \notin DOMAIN m_buf
  <2>1. sp = [chunk_count |-> p.chunk_count, reliable |-> r, chunks |-> <<>>]
    BY <1>5 DEF EntryFor
  <2>2. sp.chunk_count = p.chunk_count /\ DOMAIN sp.chunks = {}
    BY <2>1, NoChunks
  <2>3. DOMAIN c = {p.chunk_num} /\ c[p.chunk_num] = p.data
    BY <1>2, <2>2
  <2>. QED BY <1>0, <1>3, <2>2, <2>3, FirstChunk
<1>. QED BY <1>4, <1>5

\* The entry of a packet fits after it, and what is handed over is whole or shared.
LEMMA StoresFit ==
    ASSUME TypeOK, WholeInvariant, NEW p \in Packet, NEW r \in BOOLEAN,
           PacketFits(p, Infos), Stores(p, r), NEW I, I = Infos
    PROVE  /\ \A s \in DOMAIN m_buf' :
                 EntryFits(m_buf'[s].chunks, m_buf'[s].chunk_count, s, I)
           /\ \A c \in Results(p, r) : WholeOr(c, I)
<1>0. \A s \in DOMAIN m_buf : EntryFits(m_buf[s].chunks, m_buf[s].chunk_count, s, I)
  BY DEF WholeInvariant
<1>1. \A m \in DOMAIN I : I[m].pieces \in Nat
  BY InfosTyped
<1>2. CASE Original(p)
  <2>1. m_buf' = m_buf
    BY <1>2 DEF Stores
  <2>2. PICK m, k : m = p.data[1] /\ k = p.chunk_num
    OBVIOUS
  <2>3. p.data = <<m, k>> /\ m \in DOMAIN I /\ I[m].pieces = 1 /\ k < 1 /\ k \in Nat
    <3>1. p.chunk_num \in Nat /\ p.chunk_count = 1
      BY <1>2, SplitAssumption DEF Original, Packet
    <3>2. PacketFits(p, I)
      OBVIOUS
    <3>. QED BY <2>2, <3>1, <3>2 DEF PacketFits
  <2>4. p.data = <<m, 0>>
    BY <2>3
  <2>5. <<p.data>> = Content(m, 1)
    <3>1. Content(m, 1) = [i \in 1 .. 1 |-> <<m, i - 1>>]
      BY DEF Content
    <3>2. \A i \in 1 .. 1 : i - 1 = 0
      OBVIOUS
    <3>3. PICK d : d = p.data
      OBVIOUS
    <3>4. <<d>> = [i \in 1 .. 1 |-> d]
      OBVIOUS
    <3>5. \A i \in 1 .. 1 : <<m, i - 1>> = d
      BY <2>4, <3>2, <3>3
    <3>. QED BY <3>1, <3>3, <3>4, <3>5
  <2>6. WholeOr(<<p.data>>, I)
    BY <2>3, <2>5 DEF WholeOr
  <2>. QED BY <1>0, <1>2, <2>1, <2>6 DEF Results
<1>3. CASE ~ Original(p)
  <2>. PICK sp : sp = EntryFor(p, r)
    OBVIOUS
  <2>. PICK c : c = ChunksWith(p, sp)
    OBVIOUS
  <2>1. EntryFits(c, sp.chunk_count, p.seqnum, I)
    BY <1>3, EntryWithPacketFits
  <2>2. sp \in IncomingSplitPacket /\ sp.chunk_count \in Nat
    BY EntryOfPacket
  <2>3. c \in [DOMAIN c -> Piece] /\ DOMAIN c \subseteq 0 .. MaxChunks - 1
    BY <2>2, ChunksOfPacket
  <2>4. CASE Completes(p, r)
    <3>1. /\ DOMAIN m_buf' \subseteq DOMAIN m_buf
          /\ \A s \in DOMAIN m_buf' : m_buf'[s] = m_buf[s]
      BY <1>3, <2>4 DEF Stores, insert, Without
    <3>2. Cardinality(DOMAIN c) = sp.chunk_count
      BY <2>4 DEF Completes, allReceived
    <3>3. PICK d : d = fulldata(p, r)
      OBVIOUS
    <3>4. d = [k \in 1 .. sp.chunk_count |-> IF k - 1 \in DOMAIN c THEN c[k - 1] ELSE <<>>]
      BY <3>3 DEF fulldata
    <3>5. DOMAIN c \subseteq Nat
      BY <2>3
    <3>6. WholeOr(d, I)
      <4>1. PICK n : n = sp.chunk_count
        OBVIOUS
      <4>2. /\ n \in Nat /\ EntryFits(c, n, p.seqnum, I) /\ Cardinality(DOMAIN c) = n
            /\ d = [k \in 1 .. n |-> IF k - 1 \in DOMAIN c THEN c[k - 1] ELSE <<>>]
        BY <2>1, <2>2, <3>2, <3>4, <4>1
      <4>. QED BY <1>1, <3>5, <4>2, CompleteFits
    <3>7. \A x \in Results(p, r) : x = d
      BY <1>3, <2>4, <3>3 DEF Results
    <3>. QED BY <1>0, <3>1, <3>6, <3>7
  <2>5. CASE ~ Completes(p, r)
    <3>. PICK e : e = [sp EXCEPT !.chunks = c]
      OBVIOUS
    <3>1. e.chunk_count = sp.chunk_count /\ e.chunks = c
      BY <2>2, <2>3, EntryWith
    <3>2. m_buf' = [s \in DOMAIN m_buf \cup {p.seqnum} |->
                      IF s = p.seqnum THEN e ELSE m_buf[s]]
      BY <1>3, <2>5 DEF Stores, insert
    <3>3. \A s \in DOMAIN m_buf' :
             EntryFits(m_buf'[s].chunks, m_buf'[s].chunk_count, s, I)
      BY <1>0, <2>1, <3>1, <3>2
    <3>4. Results(p, r) = {}
      BY <1>3, <2>5 DEF Results
    <3>. QED BY <3>3, <3>4
  <2>. QED BY <2>4, <2>5
<1>. QED BY <1>2, <1>3

\* The invariant says what was meant.
LEMMA WholeMeans == ASSUME TypeOK, WholeInvariant PROVE WholeOrShared
<1>1. DOMAIN Infos = Messages /\ \A m \in Messages : Infos[m] = InfoOf(m)
  BY InfosTyped
<1>2. ASSUME NEW c \in HandedToUser
      PROVE  \/ IsWhole(c)
             \/ \E m, n \in Messages :
                   /\ m # n /\ InfoOf(m).seqnum = InfoOf(n).seqnum
                   /\ InfoOf(m).pieces > 1 /\ InfoOf(n).pieces > 1
                   /\ \E i \in DOMAIN c : c[i] # <<>> /\ c[i][1] = m
  <2>1. WholeOr(c, Infos)
    BY <1>2 DEF WholeInvariant
  <2>2. CASE \E m \in DOMAIN Infos : c = Content(m, Infos[m].pieces)
    BY <1>1, <2>2 DEF IsWhole
  <2>3. CASE \E m \in DOMAIN Infos :
                /\ Infos[m].pieces > 1 /\ Shared(m, Infos)
                /\ \E i \in DOMAIN c : c[i] # <<>> /\ c[i][1] = m
    BY <1>1, <2>3 DEF Shared
  <2>. QED BY <2>1, <2>2, <2>3 DEF WholeOr
<1>. QED BY <1>2 DEF WholeOrShared

\* The invariant holds at first ...
LEMMA InitWhole == Init => WholeInvariant
<1>. SUFFICES ASSUME Init PROVE WholeInvariant
  OBVIOUS
<1>1. DOMAIN reliables = {} /\ DOMAIN m_buf = {} /\ DOMAIN handed = {}
  BY NoChunks DEF Init
<1>. QED BY <1>1 DEF Init, WholeInvariant, HandedToUser

\* The messages sent so far stay what they are.
LEMMA MessagesStay ==
    ASSUME TypeOK, [Next]_vars
    PROVE  \A m \in DOMAIN Infos : m \in DOMAIN Infos' /\ Infos'[m] = Infos[m]
<1>. PICK rs, us, rt, ut : /\ rs = reliable_messages /\ us = unreliable_messages
                           /\ rt = reliable_messages' /\ ut = unreliable_messages'
  OBVIOUS
<1>0. /\ rs \in Seq(Sending) /\ us \in Seq(Sending)
      /\ DOMAIN rs = 1 .. Len(rs) /\ Len(rs) \in Nat
      /\ DOMAIN us = 1 .. Len(us) /\ Len(us) \in Nat
  BY LenProperties DEF TypeOK
<1>1. \/ rt = rs
      \/ \E e \in Sending : rt = Append(rs, e)
  <2>1. ASSUME NEW n \in 1 .. MaxChunks, SendReliable(n)
        PROVE  \E e \in Sending : rt = Append(rs, e)
    <3>1. [pieces |-> n, seqnum |-> next_outgoing_split_seqnum] \in Sending
      BY DEF Sending, TypeOK
    <3>. QED BY <2>1, <3>1 DEF SendReliable
  <2>2. CASE \A n \in 1 .. MaxChunks : ~ SendReliable(n)
    BY <2>2 DEF Next, FailToSendReliable, SendUnreliable, ReceiveFromPeer, ReceiveReliable,
                ReceiveUnreliable, Lose, CollectTimedOut, RemoveTimedOut, vars, history
  <2>. QED BY <2>1, <2>2
<1>2. \/ ut = us
      \/ \E e \in Sending : ut = Append(us, e)
  <2>1. ASSUME NEW n \in 1 .. UnreliableChunks, SendUnreliable(n)
        PROVE  \E e \in Sending : ut = Append(us, e)
    <3>1. [pieces |-> n, seqnum |-> next_incoming_seqnum] \in Sending
      BY SplitAssumption DEF Sending, TypeOK
    <3>. QED BY <2>1, <3>1 DEF SendUnreliable
  <2>2. CASE \A n \in 1 .. UnreliableChunks : ~ SendUnreliable(n)
    BY <2>2 DEF Next, FailToSendReliable, SendReliable, ReceiveFromPeer, ReceiveReliable,
                ReceiveUnreliable, Lose, CollectTimedOut, RemoveTimedOut, vars, history
  <2>. QED BY <2>1, <2>2
<1>3. \A i \in DOMAIN rs : i \in DOMAIN rt /\ rt[i] = rs[i]
  <2>. HIDE DEF Sending
  <2>1. ASSUME NEW e \in Sending, rt = Append(rs, e)
        PROVE  \A i \in DOMAIN rs : i \in DOMAIN rt /\ rt[i] = rs[i]
    <3>1. /\ DOMAIN rt = 1 .. Len(rs) + 1 /\ \A i \in DOMAIN rs : rt[i] = rs[i]
      BY <1>0, <2>1, PutLast
    <3>. QED BY <1>0, <3>1
  <2>. QED BY <1>1, <2>1
<1>4. \A i \in DOMAIN us : i \in DOMAIN ut /\ ut[i] = us[i]
  <2>. HIDE DEF Sending
  <2>1. ASSUME NEW e \in Sending, ut = Append(us, e)
        PROVE  \A i \in DOMAIN us : i \in DOMAIN ut /\ ut[i] = us[i]
    <3>1. /\ DOMAIN ut = 1 .. Len(us) + 1 /\ \A i \in DOMAIN us : ut[i] = us[i]
      BY <1>0, <2>1, PutLast
    <3>. QED BY <1>0, <3>1
  <2>. QED BY <1>2, <2>1
<1>5. /\ Infos = [m \in DOMAIN rs \cup {- i : i \in DOMAIN us} |->
                    IF m > 0 THEN rs[m] ELSE us[- m]]
      /\ Infos' = [m \in DOMAIN rt \cup {- i : i \in DOMAIN ut} |->
                    IF m > 0 THEN rt[m] ELSE ut[- m]]
  BY DEF Infos, Messages, InfoOf
<1>6. ASSUME NEW m \in DOMAIN Infos PROVE m \in DOMAIN Infos' /\ Infos'[m] = Infos[m]
  <2>1. CASE m \in DOMAIN rs
    <3>1. m > 0
      BY <1>0, <2>1
    <3>2. Infos[m] = rs[m] /\ m \in DOMAIN rt /\ rt[m] = rs[m]
      BY <1>3, <1>5, <2>1, <3>1
    <3>. QED BY <1>5, <3>1, <3>2
  <2>2. CASE m \notin DOMAIN rs
    <3>1. PICK j \in DOMAIN us : m = - j
      BY <1>5, <1>6, <2>2
    <3>2. ~ m > 0 /\ - m = j
      BY <1>0, <3>1
    <3>3. Infos[m] = us[j] /\ j \in DOMAIN ut /\ ut[j] = us[j]
      BY <1>4, <1>5, <1>6, <3>1, <3>2
    <3>. QED BY <1>5, <3>1, <3>2, <3>3
  <2>. QED BY <2>1, <2>2
<1>. QED BY <1>6

\* ... after the steps of a sender, which may make messages shared ...
LEMMA SendsKeepWhole ==
    ASSUME TypeOK, WholeInvariant, [Next]_vars,
           \/ \E n \in 1 .. MaxChunks : SendReliable(n)
           \/ \E n \in 1 .. UnreliableChunks : SendUnreliable(n)
    PROVE  WholeInvariant'
<1>. PICK I, J : I = Infos /\ J = Infos'
  OBVIOUS
<1>0. MaxChunks \in Nat /\ UnreliableChunks \in 1 .. MaxChunks
  BY SplitAssumption
<1>1. \A m \in DOMAIN I : m \in DOMAIN J /\ J[m] = I[m]
  BY MessagesStay
<1>2. /\ \A p : PacketFits(p, I) => PacketFits(p, J)
      /\ \A e, n, s : EntryFits(e, n, s, I) => EntryFits(e, n, s, J)
      /\ \A c : WholeOr(c, I) => WholeOr(c, J)
  BY <1>1, MoreMessages
<1>3. /\ \A i \in DOMAIN reliables : PacketFits(reliables[i], J)
      /\ \A d \in datagrams : PacketFits(d, J)
      /\ \A s \in DOMAIN m_buf : EntryFits(m_buf[s].chunks, m_buf[s].chunk_count, s, J)
      /\ \A c \in HandedToUser : WholeOr(c, J)
  BY <1>2 DEF WholeInvariant
<1>4. J = [m \in DOMAIN reliable_messages' \cup {- i : i \in DOMAIN unreliable_messages'} |->
             IF m > 0 THEN reliable_messages'[m] ELSE unreliable_messages'[- m]]
  BY DEF Infos, Messages, InfoOf
<1>5. ASSUME NEW n \in 1 .. MaxChunks, SendReliable(n) PROVE WholeInvariant'
  <2>. PICK s, m, ps, e : /\ s = next_outgoing_split_seqnum /\ m = Len(reliable_messages) + 1
                          /\ ps = makeAutoSplitPacket(m, n, s)
                          /\ e = [pieces |-> n, seqnum |-> s]
    OBVIOUS
  <2>1. s \in Seqnum /\ e \in Sending /\ m \in Message /\ m > 0
    <3>1. s \in Seqnum /\ e \in Sending
      BY DEF TypeOK, Sending
    <3>. QED BY <1>5, <3>1, NextMessage DEF SendReliable
  <2>2. m \in DOMAIN J /\ J[m] = e
    <3>. HIDE DEF Sending
    <3>1. reliable_messages \in Seq(Sending) /\ reliable_messages' = Append(reliable_messages, e)
      BY <1>5 DEF SendReliable, TypeOK
    <3>2. /\ DOMAIN reliable_messages' = 1 .. Len(reliable_messages) + 1
          /\ Len(reliable_messages) \in Nat
          /\ reliable_messages'[Len(reliable_messages) + 1] = e
      BY <2>1, <3>1, PutLast
    <3>3. m \in DOMAIN reliable_messages' /\ reliable_messages'[m] = e
      BY <3>2
    <3>. QED BY <1>4, <2>1, <3>3
  <2>3. ASSUME NEW i \in 1 .. n PROVE PacketFits(ps[i], J)
    <3>1. /\ ps[i].seqnum = s /\ ps[i].chunk_count = n
          /\ ps[i].chunk_num = i - 1 /\ ps[i].data = <<m, i - 1>>
      BY <2>1, PacketsOfMessage
    <3>2. i - 1 < n
      BY <1>0
    <3>3. PICK q, k : q = ps[i] /\ k = i - 1
      OBVIOUS
    <3>4. /\ q.seqnum = s /\ q.chunk_count = n /\ q.chunk_num = k /\ q.data = <<m, k>> /\ k < n
          /\ q.data[1] = m
      BY <3>1, <3>2, <3>3
    <3>5. J[m].seqnum = s /\ J[m].pieces = n
      BY <2>2
    <3>. QED BY <2>2, <3>3, <3>4, <3>5 DEF PacketFits
  <2>4. \A i \in DOMAIN reliables' : PacketFits(reliables'[i], J)
    <3>. HIDE DEF Packet
    <3>1. reliables \in Seq(Packet) /\ reliables' = reliables \o ps
      BY <1>5 DEF SendReliable, TypeOK
    <3>2. ps \in Seq(Packet) /\ DOMAIN ps = 1 .. n /\ Len(ps) = n
      BY <2>1, PacketsOfMessage
    <3>3. /\ DOMAIN reliables' = 1 .. Len(reliables) + n
          /\ Len(reliables) \in Nat /\ DOMAIN reliables = 1 .. Len(reliables)
          /\ \A i \in DOMAIN reliables : reliables'[i] = reliables[i]
          /\ \A i \in DOMAIN ps : reliables'[Len(reliables) + i] = ps[i]
      BY <3>1, <3>2, PutBehind
    <3>4. ASSUME NEW i \in DOMAIN reliables', i \notin DOMAIN reliables
          PROVE  PacketFits(reliables'[i], J)
      <4>1. PICK k : k = i - Len(reliables)
        OBVIOUS
      <4>2. k \in 1 .. n /\ i = Len(reliables) + k
        BY <1>0, <3>3, <3>4, <4>1
      <4>. QED BY <2>3, <3>2, <3>3, <4>2
    <3>. QED BY <1>3, <3>3, <3>4
  <2>. QED BY <1>3, <1>5, <2>4 DEF SendReliable, WholeInvariant, HandedToUser
<1>6. ASSUME NEW n \in 1 .. UnreliableChunks, SendUnreliable(n) PROVE WholeInvariant'
  <2>. PICK s, m, ps, e : /\ s = next_incoming_seqnum /\ m = - (Len(unreliable_messages) + 1)
                          /\ ps = makeAutoSplitPacket(m, n, s)
                          /\ e = [pieces |-> n, seqnum |-> s]
    OBVIOUS
  <2>0. n \in 1 .. MaxChunks
    BY <1>0
  <2>1. s \in Seqnum /\ e \in Sending /\ m \in Message
    <3>1. s \in Seqnum /\ e \in Sending
      BY <2>0 DEF TypeOK, Sending
    <3>. QED BY <1>6, <3>1, NextMessage DEF SendUnreliable
  <2>2. m \in DOMAIN J /\ J[m] = e
    <3>. HIDE DEF Sending
    <3>1. /\ unreliable_messages \in Seq(Sending)
          /\ unreliable_messages' = Append(unreliable_messages, e)
      BY <1>6 DEF SendUnreliable, TypeOK
    <3>2. /\ DOMAIN unreliable_messages' = 1 .. Len(unreliable_messages) + 1
          /\ Len(unreliable_messages) \in Nat
          /\ unreliable_messages'[Len(unreliable_messages) + 1] = e
      BY <2>1, <3>1, PutLast
    <3>3. PICK j : j = Len(unreliable_messages) + 1
      OBVIOUS
    <3>4. /\ j \in DOMAIN unreliable_messages' /\ unreliable_messages'[j] = e
          /\ m = - j /\ ~ m > 0 /\ - m = j
      BY <3>2, <3>3
    <3>. QED BY <1>4, <3>4
  <2>3. ASSUME NEW i \in 1 .. n PROVE PacketFits(ps[i], J)
    <3>1. /\ ps[i].seqnum = s /\ ps[i].chunk_count = n
          /\ ps[i].chunk_num = i - 1 /\ ps[i].data = <<m, i - 1>>
      BY <2>0, <2>1, PacketsOfMessage
    <3>2. i - 1 < n
      BY <1>0
    <3>3. PICK q, k : q = ps[i] /\ k = i - 1
      OBVIOUS
    <3>4. /\ q.seqnum = s /\ q.chunk_count = n /\ q.chunk_num = k /\ q.data = <<m, k>> /\ k < n
          /\ q.data[1] = m
      BY <3>1, <3>2, <3>3
    <3>5. J[m].seqnum = s /\ J[m].pieces = n
      BY <2>2
    <3>. QED BY <2>2, <3>3, <3>4, <3>5 DEF PacketFits
  <2>4. \A d \in datagrams' : PacketFits(d, J)
    BY <1>3, <1>6, <2>3 DEF SendUnreliable
  <2>. QED BY <1>3, <1>6, <2>4 DEF SendUnreliable, WholeInvariant, HandedToUser
<1>. QED BY <1>5, <1>6

\* ... and after any step.
LEMMA NextWhole == ASSUME TypeOK, WholeInvariant, [Next]_vars PROVE WholeInvariant'
<1>0. ASSUME UNCHANGED history PROVE Infos' = Infos
  BY <1>0 DEF Infos, Messages, InfoOf, history
<1>1. ASSUME \/ \E n \in 1 .. MaxChunks : SendReliable(n)
             \/ \E n \in 1 .. UnreliableChunks : SendUnreliable(n)
      PROVE  WholeInvariant'
  BY <1>1, SendsKeepWhole
<1>2. ASSUME \/ FailToSendReliable \/ ReceiveFromPeer \/ UNCHANGED vars
             \/ \E seqnums \in SUBSET Seqnum : CollectTimedOut(seqnums)
      PROVE  WholeInvariant'
  <2>1. UNCHANGED <<reliables, datagrams, m_buf, handed, handed_unreliable, history>>
    BY <1>2 DEF FailToSendReliable, ReceiveFromPeer, CollectTimedOut, vars
  <2>2. Infos' = Infos
    BY <1>0, <2>1
  <2>. QED BY <2>1, <2>2 DEF WholeInvariant, HandedToUser
<1>3. ASSUME ReceiveReliable PROVE WholeInvariant'
  <2>. PICK p, I : p = Head(reliables) /\ I = Infos
    OBVIOUS
  <2>0. Infos' = I
    BY <1>0, <1>3 DEF ReceiveReliable
  <2>1. /\ p \in Packet /\ PacketFits(p, I)
        /\ \A i \in DOMAIN reliables' : PacketFits(reliables'[i], I)
    <3>. HIDE DEF Packet
    <3>1. reliables \in Seq(Packet) /\ reliables # <<>> /\ reliables' = Tail(reliables)
      BY <1>3 DEF ReceiveReliable, TypeOK
    <3>2. /\ DOMAIN reliables' = 1 .. Len(reliables) - 1
          /\ Len(reliables) \in Nat \ {0} /\ DOMAIN reliables = 1 .. Len(reliables)
          /\ p = reliables[1] /\ p \in Packet
          /\ \A i \in 1 .. Len(reliables) - 1 : reliables'[i] = reliables[i + 1]
      BY <3>1, TakeFirst
    <3>3. \A i \in DOMAIN reliables : PacketFits(reliables[i], I)
      BY DEF WholeInvariant
    <3>4. 1 \in DOMAIN reliables /\ \A i \in DOMAIN reliables' : i + 1 \in DOMAIN reliables
      BY <3>2
    <3>. QED BY <3>2, <3>3, <3>4
  <2>2. /\ \A s \in DOMAIN m_buf' : EntryFits(m_buf'[s].chunks, m_buf'[s].chunk_count, s, I)
        /\ \A c \in Results(p, TRUE) : WholeOr(c, I)
    <3>1. Stores(p, TRUE) /\ TRUE \in BOOLEAN
      BY <1>3 DEF ReceiveReliable
    <3>. QED BY <2>1, <3>1, StoresFit
  <2>3. \A c \in HandedToUser' : WholeOr(c, I)
    <3>0. handed \in Seq(Seq(Piece \cup {<<>>}))
      BY DEF TypeOK
    <3>1. \A c \in HandedToUser : WholeOr(c, I)
      BY DEF WholeInvariant
    <3>2. handed_unreliable' = handed_unreliable
      BY <1>3 DEF ReceiveReliable
    <3>3. CASE handed' = handed
      BY <3>1, <3>2, <3>3 DEF HandedToUser
    <3>4. ASSUME NEW c \in Results(p, TRUE), handed' = Append(handed, c)
          PROVE  \A x \in HandedToUser' : WholeOr(x, I)
      <4>1. c \in Seq(Piece \cup {<<>>})
        BY <2>1, <3>4, ResultsTyped
      <4>2. PICK S : S = Seq(Piece \cup {<<>>})
        OBVIOUS
      <4>3. handed \in Seq(S) /\ c \in S
        BY <3>0, <4>1, <4>2
      <4>4. /\ DOMAIN handed' = 1 .. Len(handed) + 1 /\ Len(handed) \in Nat
            /\ DOMAIN handed = 1 .. Len(handed)
            /\ handed'[Len(handed) + 1] = c /\ \A i \in DOMAIN handed : handed'[i] = handed[i]
        BY <3>4, <4>3, PutLast
      <4>5. \A i \in DOMAIN handed' : i \in DOMAIN handed \/ i = Len(handed) + 1
        BY <4>4
      <4>6. \A x \in HandedToUser' : x = c \/ x \in HandedToUser
        BY <3>2, <4>4, <4>5 DEF HandedToUser
      <4>. QED BY <2>2, <3>1, <4>6
    <3>. QED BY <1>3, <3>3, <3>4 DEF ReceiveReliable
  <2>4. \A d \in datagrams' : PacketFits(d, I)
    BY <1>3 DEF ReceiveReliable, WholeInvariant
  <2>. QED BY <2>0, <2>1, <2>2, <2>3, <2>4 DEF WholeInvariant
<1>4. ASSUME NEW d \in datagrams, NEW keep \in BOOLEAN, ReceiveUnreliable(d, keep)
      PROVE  WholeInvariant'
  <2>. PICK I : I = Infos
    OBVIOUS
  <2>0. Infos' = I
    BY <1>0, <1>4 DEF ReceiveUnreliable
  <2>1. d \in Packet /\ PacketFits(d, I)
    BY DEF TypeOK, WholeInvariant
  <2>2. /\ \A s \in DOMAIN m_buf' : EntryFits(m_buf'[s].chunks, m_buf'[s].chunk_count, s, I)
        /\ \A c \in Results(d, FALSE) : WholeOr(c, I)
    <3>1. Stores(d, FALSE) /\ FALSE \in BOOLEAN
      BY <1>4 DEF ReceiveUnreliable
    <3>. QED BY <2>1, <3>1, StoresFit
  <2>3. \A c \in HandedToUser' : WholeOr(c, I)
    <3>1. \A c \in HandedToUser : WholeOr(c, I)
      BY DEF WholeInvariant
    <3>2. handed' = handed /\ handed_unreliable' = handed_unreliable \cup Results(d, FALSE)
      BY <1>4 DEF ReceiveUnreliable
    <3>3. \A x \in HandedToUser' : x \in HandedToUser \/ x \in Results(d, FALSE)
      BY <3>2 DEF HandedToUser
    <3>. QED BY <2>2, <3>1, <3>3
  <2>4. /\ \A e \in datagrams' : PacketFits(e, I)
        /\ \A i \in DOMAIN reliables' : PacketFits(reliables'[i], I)
    BY <1>4 DEF ReceiveUnreliable, WholeInvariant
  <2>. QED BY <2>0, <2>2, <2>3, <2>4 DEF WholeInvariant
<1>5. ASSUME Lose PROVE WholeInvariant'
  <2>1. UNCHANGED <<reliables, m_buf, handed, handed_unreliable>> /\ datagrams' \subseteq datagrams
    BY <1>5 DEF Lose
  <2>2. Infos' = Infos
    BY <1>0, <1>5 DEF Lose
  <2>. QED BY <2>1, <2>2 DEF WholeInvariant, HandedToUser
<1>6. ASSUME RemoveTimedOut PROVE WholeInvariant'
  <2>1. UNCHANGED <<reliables, datagrams, handed, handed_unreliable>>
    BY <1>6 DEF RemoveTimedOut
  <2>2. Infos' = Infos
    BY <1>0, <1>6 DEF RemoveTimedOut
  <2>3. DOMAIN m_buf' \subseteq DOMAIN m_buf /\ \A s \in DOMAIN m_buf' : m_buf'[s] = m_buf[s]
    BY <1>6 DEF RemoveTimedOut, Without
  <2>. QED BY <2>1, <2>2, <2>3 DEF WholeInvariant, HandedToUser
<1>. QED BY <1>1, <1>2, <1>3, <1>4, <1>5, <1>6 DEF Next

\* Whatever is lost, repeated, late or removed, what is handed to the user is a whole
\* message, unless a message it has a piece of shares its split number with another one.
THEOREM WholeUnlessShared == Spec => []WholeOrShared
<1>1. Init => TypeOK /\ WholeInvariant
  BY InitTypes, InitWhole
<1>2. TypeOK /\ WholeInvariant /\ [Next]_vars => (TypeOK /\ WholeInvariant)'
  BY NextTypes, NextWhole
<1>3. TypeOK /\ WholeInvariant => WholeOrShared
  BY WholeMeans
<1>. QED BY <1>1, <1>2, <1>3, PTL DEF Spec

-----------------------------------------------------------------------------
(* Reliable messages alone come out whole and in order *)

\* A packet of the reliable messages sent, below rm.
RightPacket(p, rm) ==
    /\ p.data[1] \in 1 .. Len(rm)
    /\ p.data = <<p.data[1], p.chunk_num>>
    /\ p.seqnum = rm[p.data[1]].seqnum
    /\ p.chunk_count = rm[p.data[1]].pieces
    /\ p.chunk_num < p.chunk_count

\* Packet p is the last one of its message.
IsLast(p) == p.chunk_num + 1 = p.chunk_count

\* Packet q comes after packet p.
InTurn(p, q) ==
    \/ q.data[1] = p.data[1] /\ q.chunk_num = p.chunk_num + 1
    \/ p.chunk_num + 1 = p.chunk_count /\ q.data[1] = p.data[1] + 1 /\ q.chunk_num = 0

\* The packets under way begin with one of the message after those handed over, H of them,
\* and end with the last one of the last message.
PacketsInTurn(packets, H, rm) ==
    /\ \A i \in 1 .. Len(packets) : RightPacket(packets[i], rm)
    /\ \A i \in 1 .. Len(packets) - 1 : InTurn(packets[i], packets[i + 1])
    /\ packets = <<>> => H = Len(rm)
    /\ packets # <<>> =>
          /\ packets[1].data[1] = H + 1
          /\ packets[Len(packets)].data[1] = Len(rm)
          /\ packets[Len(packets)].chunk_num + 1 = packets[Len(packets)].chunk_count

\* The buffer holds the pieces of a message before packet p, the next one.
HoldsBefore(buf, p, H) ==
    /\ DOMAIN buf = {p.seqnum}
    /\ buf[p.seqnum].chunk_count = p.chunk_count
    /\ buf[p.seqnum].chunks = [k \in 0 .. p.chunk_num - 1 |-> <<H + 1, k>>]

\* It holds them and that of p.
HoldsWith(buf, p, H) ==
    /\ DOMAIN buf = {p.seqnum}
    /\ buf[p.seqnum].chunk_count = p.chunk_count
    /\ buf[p.seqnum].chunks = [k \in 0 .. p.chunk_num |-> <<H + 1, k>>]

BufferInTurn(packets, H, buf) ==
    /\ packets = <<>> => DOMAIN buf = {}
    /\ packets # <<>> => IF packets[1].chunk_num = 0 THEN DOMAIN buf = {}
                         ELSE HoldsBefore(buf, packets[1], H)

HandedInTurn(H, rm) ==
    /\ H \in Nat /\ H =< Len(rm)
    /\ \A i \in 1 .. H : handed[i] = Content(i, rm[i].pieces)

AllReliable == \A s \in DOMAIN m_buf : m_buf[s].reliable

FifoInvariant ==
    /\ \A d \in datagrams : d.chunk_count = 1
    /\ remove_queue = {}
    /\ HandedInTurn(Len(handed), reliable_messages)
    /\ PacketsInTurn(reliables, Len(handed), reliable_messages)
    /\ BufferInTurn(reliables, Len(handed), m_buf)
    /\ AllReliable

\* The parts of a packet.
LEMMA PacketParts ==
    ASSUME NEW p \in Packet
    PROVE  /\ p.chunk_count \in Nat \ {0} /\ p.chunk_num \in Nat /\ p.data[1] \in Int
           /\ p.seqnum \in Seqnum /\ p.chunk_num \in 0 .. MaxChunks - 1
BY SplitAssumption DEF Packet, Piece, Message

\* The first packet is taken.
LEMMA PacketsTaken ==
    ASSUME NEW R \in Seq(Packet), R # <<>>, NEW H \in Nat, NEW rm \in Seq(Sending),
           PacketsInTurn(R, H, rm), NEW Q, Q = Tail(R), NEW p, p = R[1]
    PROVE  /\ p \in Packet /\ RightPacket(p, rm) /\ p.data[1] = H + 1
           /\ IsLast(p) =>
                 /\ PacketsInTurn(Q, H + 1, rm)
                 /\ Q # <<>> => Q[1].chunk_num = 0
           /\ ~ IsLast(p) =>
                 /\ PacketsInTurn(Q, H, rm)
                 /\ Q # <<>> /\ Q[1].chunk_num = p.chunk_num + 1
                 /\ Q[1].seqnum = p.seqnum /\ Q[1].chunk_count = p.chunk_count
<1>. PICK N, M : N = Len(R) /\ M = Len(rm)
  OBVIOUS
<1>. HIDE DEF Packet, Sending
<1>1. /\ Q \in Seq(Packet) /\ Len(Q) = N - 1 /\ N \in Nat \ {0}
      /\ p \in Packet /\ \A i \in 1 .. N - 1 : Q[i] = R[i + 1]
  BY TakeFirst
<1>2. M \in Nat /\ \A i \in 1 .. N : R[i] \in Packet
  BY LenProperties, ElementOfSeq
<1>3. /\ \A i \in 1 .. N : RightPacket(R[i], rm)
      /\ \A i \in 1 .. N - 1 : InTurn(R[i], R[i + 1])
      /\ p.data[1] = H + 1 /\ R[N].data[1] = M
      /\ R[N].chunk_num + 1 = R[N].chunk_count
  BY DEF PacketsInTurn
<1>4. \A i \in 1 .. Len(Q) : RightPacket(Q[i], rm)
  BY <1>1, <1>3
<1>5. ASSUME NEW i \in 1 .. Len(Q) - 1 PROVE InTurn(Q[i], Q[i + 1])
  <2>1. PICK j : j = i + 1
    OBVIOUS
  <2>2. /\ i \in 1 .. N - 1 /\ j \in 1 .. N - 1 /\ Q[i] = R[j] /\ Q[j] = R[j + 1]
    BY <1>1, <1>5, <2>1
  <2>3. InTurn(R[j], R[j + 1])
    BY <1>3, <2>2
  <2>. QED BY <2>1, <2>2, <2>3
<1>6. RightPacket(p, rm)
  BY <1>1, <1>3
<1>7. CASE N = 1
  <2>1. Q = <<>>
    BY <1>1, <1>7, EmptySeq
  <2>2. p.chunk_num + 1 = p.chunk_count /\ H + 1 = M
    BY <1>3, <1>7
  <2>3. PacketsInTurn(Q, H + 1, rm)
    BY <1>4, <1>5, <2>1, <2>2 DEF PacketsInTurn
  <2>. QED BY <1>1, <1>3, <1>6, <2>1, <2>2, <2>3 DEF IsLast
<1>8. CASE N # 1
  <2>. PICK q : q = Q[1]
    OBVIOUS
  <2>1. N - 1 \in 1 .. N - 1 /\ 1 \in 1 .. N - 1 /\ N - 1 + 1 = N /\ 1 \in 1 .. N
    BY <1>1, <1>8
  <2>2. Q # <<>> /\ Q[N - 1] = R[N] /\ q = R[2]
    <3>1. Q # <<>>
      <4>1. Len(Q) # 0 /\ Q \in Seq(Packet)
        BY <1>1, <1>8
      <4>. QED BY <4>1, EmptySeq
    <3>2. PICK j : j = N - 1
      OBVIOUS
    <3>3. j \in 1 .. N - 1 /\ j + 1 = N
      BY <2>1, <3>2
    <3>4. Q[j] = R[j + 1]
      BY <1>1, <3>3
    <3>. QED BY <1>1, <2>1, <3>1, <3>2, <3>3, <3>4
  <2>3. q \in Packet /\ RightPacket(q, rm) /\ InTurn(p, q)
    <3>1. 2 \in 1 .. N /\ 1 \in 1 .. N - 1 /\ 1 + 1 = 2
      BY <1>1, <1>8
    <3>. QED BY <1>2, <1>3, <2>2, <3>1
  <2>4. /\ p.chunk_count \in Nat \ {0} /\ p.chunk_num \in Nat /\ p.data[1] \in Int
        /\ q.chunk_count \in Nat \ {0} /\ q.chunk_num \in Nat /\ q.data[1] \in Int
    BY <1>1, <2>3, PacketParts
  <2>5. q.data[1] = p.data[1] => q.chunk_count = p.chunk_count /\ q.seqnum = p.seqnum
    BY <1>6, <2>3 DEF RightPacket
  <2>6. /\ q.chunk_num < q.chunk_count
        /\ \/ q.data[1] = p.data[1] /\ q.chunk_num = p.chunk_num + 1
           \/ p.chunk_num + 1 = p.chunk_count /\ q.data[1] = p.data[1] + 1 /\ q.chunk_num = 0
    BY <2>3 DEF InTurn, RightPacket
  <2>7. p.chunk_num + 1 = p.chunk_count => q.data[1] = H + 2 /\ q.chunk_num = 0
    <3>1. PICK a, b, c, d : /\ a = p.chunk_num /\ b = p.chunk_count /\ c = q.chunk_num
                            /\ d = q.chunk_count
      OBVIOUS
    <3>2. PICK x, y : x = p.data[1] /\ y = q.data[1]
      OBVIOUS
    <3>3. /\ a \in Nat /\ b \in Nat /\ c \in Nat /\ d \in Nat
          /\ y = x => d = b
          /\ c < d /\ ((y = x /\ c = a + 1) \/ (a + 1 = b /\ y = x + 1 /\ c = 0))
      BY <2>4, <2>5, <2>6, <3>1, <3>2
    <3>4. a + 1 = b => y = x + 1 /\ c = 0
      BY <3>3
    <3>5. x = H + 1 /\ x + 1 = H + 2
      BY <1>3, <3>2
    <3>6. p.chunk_num + 1 = p.chunk_count => a + 1 = b
      BY <3>1
    <3>. QED BY <3>1, <3>2, <3>4, <3>5, <3>6
  <2>8. p.chunk_num + 1 # p.chunk_count =>
           /\ q.data[1] = H + 1 /\ q.chunk_num = p.chunk_num + 1
           /\ q.chunk_count = p.chunk_count /\ q.seqnum = p.seqnum
    BY <1>3, <2>5, <2>6
  <2>9. ASSUME NEW h, q.data[1] = h + 1 PROVE PacketsInTurn(Q, h, rm)
    <3>1. Q[Len(Q)] = R[N]
      BY <1>1, <2>2
    <3>. QED BY <1>3, <1>4, <1>5, <2>2, <2>9, <3>1 DEF PacketsInTurn
  <2>10. p.chunk_num + 1 = p.chunk_count => PacketsInTurn(Q, H + 1, rm)
    <3>1. H + 2 = H + 1 + 1
      OBVIOUS
    <3>. QED BY <2>7, <2>9, <3>1
  <2>11. p.chunk_num + 1 # p.chunk_count => PacketsInTurn(Q, H, rm)
    BY <2>8, <2>9
  <2>. QED BY <1>1, <1>3, <1>6, <2>2, <2>7, <2>8, <2>10, <2>11 DEF IsLast
<1>. QED BY <1>7, <1>8

\* The packets of another message are put behind them.
LEMMA PacketsPut ==
    ASSUME NEW R \in Seq(Packet), NEW H \in Nat, NEW rm \in Seq(Sending),
           PacketsInTurn(R, H, rm), NEW n \in 1 .. MaxChunks, NEW s \in Seqnum,
           NEW e, e = [pieces |-> n, seqnum |-> s], NEW rn, rn = Append(rm, e),
           Len(rm) + 1 \in Message, NEW ps, ps = makeAutoSplitPacket(Len(rm) + 1, n, s),
           NEW Q, Q = R \o ps
    PROVE  /\ PacketsInTurn(Q, H, rn) /\ Q # <<>>
           /\ R = <<>> => Q[1] = ps[1]
           /\ R # <<>> => Q[1] = R[1]
           /\ ps[1].chunk_num = 0
<1>0. e \in Sending /\ n \in Nat /\ n > 0
  BY SplitAssumption DEF Sending
<1>1. PICK m : m = Len(rm) + 1
  OBVIOUS
<1>2. /\ ps \in Seq(Packet) /\ Len(ps) = n
      /\ \A i \in 1 .. n :
            /\ ps[i].seqnum = s /\ ps[i].chunk_count = n
            /\ ps[i].chunk_num = i - 1 /\ ps[i].data = <<m, i - 1>>
  <2>1. m \in Message /\ n \in 1 .. MaxChunks /\ s \in Seqnum /\ ps = makeAutoSplitPacket(m, n, s)
    BY <1>1
  <2>2. PacketsOf(ps, m, n, s)
    BY ONLY <2>1, PacketsNumbered
  <2>. QED BY ONLY <2>2 DEF PacketsOf
<1>. PICK N : N = Len(R)
  OBVIOUS
<1>3. /\ Len(rm) \in Nat /\ Len(rn) = m /\ rn[m] = e
      /\ \A i \in 1 .. Len(rm) : rn[i] = rm[i]
  <2>. HIDE DEF Sending
  <2>. QED BY <1>0, <1>1, PutLast
<1>4. /\ Len(Q) = N + n /\ N \in Nat
      /\ \A i \in 1 .. N : Q[i] = R[i]
      /\ \A i \in 1 .. n : Q[N + i] = ps[i]
      /\ Q \in Seq(Packet)
  <2>. HIDE DEF Packet
  <2>1. DOMAIN R = 1 .. N /\ DOMAIN ps = 1 .. n
    BY <1>2, LenProperties
  <2>2. /\ Len(Q) = Len(R) + Len(ps) /\ Len(R) \in Nat /\ Q \in Seq(Packet)
        /\ \A i \in DOMAIN R : Q[i] = R[i]
        /\ \A i \in DOMAIN ps : Q[Len(R) + i] = ps[i]
    BY <1>2, PutBehind
  <2>. QED BY <1>2, <2>1, <2>2
<1>5. ASSUME NEW i \in 1 .. n
      PROVE  /\ RightPacket(ps[i], rn) /\ ps[i].data[1] = m /\ ps[i].chunk_num = i - 1
  <2>1. PICK q, k : q = ps[i] /\ k = i - 1
    OBVIOUS
  <2>2. /\ q.seqnum = s /\ q.chunk_count = n /\ q.chunk_num = k /\ q.data = <<m, k>>
        /\ q.data[1] = m /\ k < n
    BY <1>0, <1>2, <2>1
  <2>3. m \in 1 .. Len(rn) /\ rn[m].seqnum = s /\ rn[m].pieces = n
    BY <1>1, <1>3
  <2>. QED BY <2>1, <2>2, <2>3 DEF RightPacket
<1>6. ASSUME NEW i \in 1 .. Len(Q) PROVE RightPacket(Q[i], rn)
  <2>1. CASE i \in 1 .. N
    <3>1. RightPacket(R[i], rm) /\ Q[i] = R[i]
      BY <1>4, <2>1 DEF PacketsInTurn
    <3>2. PICK j : j = R[i].data[1] /\ j \in 1 .. Len(rm)
      BY <3>1 DEF RightPacket
    <3>3. j \in 1 .. Len(rn) /\ rn[j] = rm[j]
      BY <1>1, <1>3, <3>2
    <3>. QED BY <3>1, <3>2, <3>3 DEF RightPacket
  <2>2. CASE i \notin 1 .. N
    <3>1. PICK k : k = i - N
      OBVIOUS
    <3>2. k \in 1 .. n /\ i = N + k
      BY <1>0, <1>4, <1>6, <2>2, <3>1
    <3>. QED BY <1>4, <1>5, <3>2
  <2>. QED BY <2>1, <2>2
<1>7. ASSUME NEW i \in 1 .. Len(Q) - 1 PROVE InTurn(Q[i], Q[i + 1])
  <2>1. PICK j : j = i + 1
    OBVIOUS
  <2>2. CASE j \in 1 .. N
    <3>1. i \in 1 .. N - 1 /\ i \in 1 .. N /\ Q[i] = R[i] /\ Q[j] = R[j]
      BY <1>4, <2>1, <2>2
    <3>. QED BY <2>1, <3>1 DEF PacketsInTurn
  <2>3. CASE i = N
    <3>1. R # <<>> /\ N \in 1 .. N /\ Q[N] = R[N] /\ 1 \in 1 .. n /\ Q[j] = ps[1]
      <4>. HIDE DEF Packet
      <4>1. R # <<>>
        BY <1>7, <2>3, EmptySeq
      <4>2. 1 \in 1 .. n /\ N \in 1 .. N
        BY <1>0, <1>4, <1>7, <2>3
      <4>. QED BY <1>4, <2>1, <2>3, <4>1, <4>2
    <3>2. R[N].data[1] = Len(rm) /\ R[N].chunk_num + 1 = R[N].chunk_count
      BY <3>1 DEF PacketsInTurn
    <3>3. ps[1].data[1] = Len(rm) + 1 /\ ps[1].chunk_num = 0
      BY <1>1, <1>5, <3>1
    <3>. QED BY <2>1, <2>3, <3>1, <3>2, <3>3 DEF InTurn
  <2>4. CASE i \notin 1 .. N
    <3>1. PICK k, l : k = i - N /\ l = k + 1
      OBVIOUS
    <3>2. k \in 1 .. n /\ l \in 1 .. n /\ i = N + k /\ j = N + l /\ l - 1 = k - 1 + 1
      BY <1>0, <1>4, <1>7, <2>1, <2>4, <3>1
    <3>3. Q[i] = ps[k] /\ Q[j] = ps[l]
      BY <1>4, <3>2
    <3>4. /\ ps[k].data[1] = m /\ ps[k].chunk_num = k - 1
          /\ ps[l].data[1] = m /\ ps[l].chunk_num = l - 1
      BY <1>5, <3>2
    <3>5. InTurn(ps[k], ps[l])
      BY <3>2, <3>4 DEF InTurn
    <3>. QED BY <2>1, <3>3, <3>5
  <2>5. j \in 1 .. N \/ i = N \/ i \notin 1 .. N
    BY <1>4, <1>7, <2>1
  <2>. QED BY <2>2, <2>3, <2>4, <2>5
<1>8. ps[1].chunk_num = 0 /\ ps[1].data[1] = m /\ 1 \in 1 .. n
  <2>1. 1 \in 1 .. n
    BY <1>0
  <2>. QED BY <1>5, <2>1
<1>9. Q[1] = (IF R = <<>> THEN ps[1] ELSE R[1]) /\ Q[1].data[1] = H + 1
  <2>. HIDE DEF Packet
  <2>1. CASE R = <<>>
    <3>1. N = 0 /\ H = Len(rm)
      BY <2>1, EmptySeq DEF PacketsInTurn
    <3>2. Q[1] = ps[1]
      BY <1>4, <1>8, <3>1
    <3>. QED BY <1>1, <1>8, <2>1, <3>1, <3>2
  <2>2. CASE R # <<>>
    <3>1. 1 \in 1 .. N
      BY <1>4, <2>2, EmptySeq
    <3>2. Q[1] = R[1] /\ R[1].data[1] = H + 1
      BY <1>4, <2>2, <3>1 DEF PacketsInTurn
    <3>. QED BY <2>2, <3>2
  <2>. QED BY <2>1, <2>2
<1>10. Q # <<>>
  <2>. HIDE DEF Packet
  <2>. QED BY <1>0, <1>4, EmptySeq
<1>11. Q[Len(Q)].data[1] = Len(rn) /\ Q[Len(Q)].chunk_num + 1 = Q[Len(Q)].chunk_count
  <2>1. n \in 1 .. n
    BY <1>0
  <2>2. Q[Len(Q)] = ps[n]
    BY <1>4, <2>1
  <2>3. ps[n].data[1] = m /\ ps[n].chunk_num = n - 1 /\ ps[n].chunk_count = n
    BY <1>2, <1>5, <2>1
  <2>4. n - 1 + 1 = n
    BY <1>0
  <2>. QED BY <1>3, <2>2, <2>3, <2>4
<1>12. PacketsInTurn(Q, H, rn)
  BY <1>6, <1>7, <1>9, <1>10, <1>11 DEF PacketsInTurn
<1>. QED BY <1>8, <1>9, <1>10, <1>12

-----------------------------------------------------------------------------
\* The first packet, as the receive thread finds it.
LEMMA FirstInTurn ==
    ASSUME TypeOK, FifoInvariant, reliables # <<>>, NEW p, p = reliables[1]
    PROVE  /\ p \in Packet /\ p.data = <<Len(handed) + 1, p.chunk_num>>
           /\ p.data[1] = Len(handed) + 1
           /\ Len(handed) \in Nat /\ Len(handed) + 1 \in 1 .. Len(reliable_messages)
           /\ p.chunk_count = reliable_messages[Len(handed) + 1].pieces
           /\ p.chunk_num \in 0 .. p.chunk_count - 1 /\ p.chunk_count \in Nat \ {0}
           /\ p.chunk_num = 0 => DOMAIN m_buf = {}
           /\ p.chunk_num # 0 => HoldsBefore(m_buf, p, Len(handed))
<1>. PICK H, R, rm, Q : /\ H = Len(handed) /\ R = reliables /\ rm = reliable_messages
                        /\ Q = Tail(R)
  OBVIOUS
<1>1. /\ R \in Seq(Packet) /\ rm \in Seq(Sending) /\ H \in Nat /\ PacketsInTurn(R, H, rm)
      /\ BufferInTurn(R, H, m_buf)
  BY DEF TypeOK, FifoInvariant, HandedInTurn
<1>2. p \in Packet /\ RightPacket(p, rm) /\ p.data[1] = H + 1
  <2>. HIDE DEF Packet, Sending
  <2>1. R # <<>> /\ p = R[1] /\ Q = Tail(R)
    OBVIOUS
  <2>2. p \in Packet
    BY ONLY <1>1, <2>1, PacketsTaken
  <2>3. RightPacket(p, rm)
    BY ONLY <1>1, <2>1, PacketsTaken
  <2>4. p.data[1] = H + 1
    BY ONLY <1>1, <2>1, PacketsTaken
  <2>. QED BY <2>2, <2>3, <2>4
<1>3. p.chunk_count \in Nat \ {0} /\ p.chunk_num \in Nat
  BY <1>2, PacketParts
<1>4. /\ p.data = <<H + 1, p.chunk_num>> /\ H + 1 \in 1 .. Len(rm)
      /\ p.chunk_count = rm[H + 1].pieces /\ p.chunk_num < p.chunk_count
  <2>1. PICK j : j = p.data[1]
    OBVIOUS
  <2>2. /\ p.data = <<j, p.chunk_num>> /\ j \in 1 .. Len(rm)
        /\ p.chunk_count = rm[j].pieces /\ p.chunk_num < p.chunk_count
    BY <1>2, <2>1 DEF RightPacket
  <2>3. j = H + 1
    BY <1>2, <2>1
  <2>. QED BY <2>2, <2>3
<1>5. /\ p.chunk_num = 0 => DOMAIN m_buf = {}
      /\ p.chunk_num # 0 => HoldsBefore(m_buf, p, H)
  BY <1>1 DEF BufferInTurn
<1>6. p.chunk_num \in 0 .. p.chunk_count - 1
  BY <1>3, <1>4
<1>. QED BY <1>1, <1>2, <1>3, <1>4, <1>5, <1>6

\* Entry sp has the pieces before packet p, and c is its chunks with that of p.
EntryBefore(p, sp, c, H) ==
    /\ sp \in IncomingSplitPacket
    /\ sp.chunk_count = p.chunk_count
    /\ DOMAIN m_buf \subseteq {p.seqnum}
    /\ p.chunk_num \notin DOMAIN sp.chunks
    /\ c = [k \in 0 .. p.chunk_num |-> <<H + 1, k>>]
    /\ c \in [DOMAIN c -> Piece] /\ DOMAIN c \subseteq 0 .. MaxChunks - 1
    /\ DOMAIN c = 0 .. p.chunk_num /\ Cardinality(DOMAIN c) = p.chunk_num + 1

\* So it is for the next packet.
LEMMA EntryInTurn ==
    ASSUME TypeOK, FifoInvariant, reliables # <<>>, NEW p, p = reliables[1],
           NEW r \in BOOLEAN, NEW sp, sp = EntryFor(p, r), NEW c, c = ChunksWith(p, sp)
    PROVE  EntryBefore(p, sp, c, Len(handed))
<1>. PICK H, n : H = Len(handed) /\ n = p.chunk_num
  OBVIOUS
<1>1. /\ p \in Packet /\ p.data = <<H + 1, n>> /\ n \in Nat
      /\ n = 0 => DOMAIN m_buf = {}
      /\ n # 0 => HoldsBefore(m_buf, p, H)
  BY FirstInTurn
<1>2. sp \in IncomingSplitPacket
  BY <1>1, EntryOfPacket
<1>3. /\ sp.chunk_count = p.chunk_count
      /\ DOMAIN m_buf \subseteq {p.seqnum}
      /\ DOMAIN sp.chunks = 0 .. n - 1
      /\ \A k \in 0 .. n - 1 : sp.chunks[k] = <<H + 1, k>>
  <2>1. CASE n = 0
    <3>1. PICK z, l : z = <<>> /\ l = p.chunk_count
      OBVIOUS
    <3>2. sp = [chunk_count |-> l, reliable |-> r, chunks |-> z]
      BY <1>1, <2>1, <3>1 DEF EntryFor
    <3>3. sp.chunk_count = l /\ sp.chunks = z
      BY <3>2
    <3>4. DOMAIN z = {}
      BY <3>1, NoChunks
    <3>5. 0 .. n - 1 = {}
      BY <2>1
    <3>7. sp.chunk_count = p.chunk_count /\ DOMAIN sp.chunks = 0 .. n - 1
      BY <3>1, <3>3, <3>4, <3>5
    <3>. QED BY <1>1, <2>1, <3>3, <3>5, <3>7
  <2>2. CASE n # 0
    <3>1. HoldsBefore(m_buf, p, H)
      BY <1>1, <2>2
    <3>2. DOMAIN m_buf = {p.seqnum} /\ sp = m_buf[p.seqnum]
      BY <3>1 DEF EntryFor, HoldsBefore
    <3>3. /\ sp.chunk_count = p.chunk_count
          /\ sp.chunks = [k \in 0 .. n - 1 |-> <<H + 1, k>>]
      BY <3>1, <3>2 DEF HoldsBefore
    <3>. QED BY <3>2, <3>3
  <2>. QED BY <2>1, <2>2
<1>4. n \notin DOMAIN sp.chunks /\ DOMAIN sp.chunks \cup {n} = 0 .. n
  <2>1. n \notin 0 .. n - 1 /\ (0 .. n - 1) \cup {n} = 0 .. n
    BY <1>1
  <2>. QED BY <1>3, <2>1
<1>5. /\ DOMAIN c = 0 .. n /\ c[n] = <<H + 1, n>>
      /\ \A k \in 0 .. n - 1 : c[k] = <<H + 1, k>>
      /\ c \in [DOMAIN c -> Piece] /\ DOMAIN c \subseteq 0 .. MaxChunks - 1
  <2>0. p \in Packet
    BY <1>1
  <2>1. /\ DOMAIN c = DOMAIN sp.chunks \cup {p.chunk_num}
        /\ \A k \in DOMAIN sp.chunks : c[k] = sp.chunks[k]
        /\ p.chunk_num \notin DOMAIN sp.chunks => c[p.chunk_num] = p.data
    <3>1. c = [k \in DOMAIN sp.chunks \cup {p.chunk_num} |->
                 IF k \in DOMAIN sp.chunks THEN sp.chunks[k] ELSE p.data]
      BY DEF ChunksWith
    <3>. QED BY <3>1
  <2>2. c \in [DOMAIN c -> Piece] /\ DOMAIN c \subseteq 0 .. MaxChunks - 1
    BY <1>2, <2>0, ChunksOfPacket
  <2>3. DOMAIN c = 0 .. n /\ c[n] = <<H + 1, n>>
    BY <1>1, <1>4, <2>1
  <2>4. \A k \in 0 .. n - 1 : c[k] = <<H + 1, k>>
    BY <1>3, <2>1
  <2>. QED BY <2>2, <2>3, <2>4
<1>6. c = [k \in 0 .. n |-> <<H + 1, k>>]
  <2>1. \A k \in 0 .. n : c[k] = <<H + 1, k>>
    <3>1. \A k \in 0 .. n : k \in 0 .. n - 1 \/ k = n
      BY <1>1
    <3>. QED BY <1>5, <3>1
  <2>. QED BY <1>5, <2>1
<1>7. Cardinality(0 .. n) = n + 1
  <2>1. 0 \in Int /\ n \in Int /\ (IF 0 > n THEN 0 ELSE n - 0 + 1) = n + 1
    BY <1>1
  <2>. QED BY <2>1, FS_Interval
<1>. QED BY <1>2, <1>3, <1>4, <1>5, <1>6, <1>7 DEF EntryBefore

\* What becomes of it: the message, or an entry with one more piece.
LEMMA StoresInTurn ==
    ASSUME TypeOK, FifoInvariant, reliables # <<>>, NEW p, p = reliables[1],
           NEW r \in BOOLEAN, Stores(p, r), NEW H, H = Len(handed)
    PROVE  /\ IsLast(p) =>
                 /\ DOMAIN m_buf' = {}
                 /\ Results(p, r) = {Content(H + 1, p.chunk_count)}
           /\ ~ IsLast(p) => Results(p, r) = {} /\ HoldsWith(m_buf', p, H)
<1>. PICK n, l : n = p.chunk_num /\ l = p.chunk_count
  OBVIOUS
<1>1. /\ p.data = <<H + 1, n>> /\ n \in 0 .. l - 1 /\ l \in Nat \ {0}
      /\ n = 0 => DOMAIN m_buf = {}
  BY FirstInTurn
<1>2. CASE Original(p)
  <2>1. l = 1 /\ n = 0 /\ n + 1 = l
    BY <1>1, <1>2 DEF Original
  <2>2. m_buf' = m_buf /\ Results(p, r) = {<<p.data>>}
    BY <1>2 DEF Stores, Results
  <2>3. <<p.data>> = Content(H + 1, 1)
    <3>1. Content(H + 1, 1) = [i \in 1 .. 1 |-> <<H + 1, i - 1>>]
      BY DEF Content
    <3>2. \A i \in 1 .. 1 : i - 1 = 0
      OBVIOUS
    <3>3. PICK d : d = p.data
      OBVIOUS
    <3>4. <<d>> = [i \in 1 .. 1 |-> d]
      OBVIOUS
    <3>5. \A i \in 1 .. 1 : <<H + 1, i - 1>> = d
      BY <1>1, <2>1, <3>2, <3>3
    <3>. QED BY <3>1, <3>3, <3>4, <3>5
  <2>. QED BY <1>1, <2>1, <2>2, <2>3 DEF IsLast
<1>3. CASE ~ Original(p)
  <2>. PICK sp : sp = EntryFor(p, r)
    OBVIOUS
  <2>. PICK c : c = ChunksWith(p, sp)
    OBVIOUS
  <2>1. /\ sp \in IncomingSplitPacket
        /\ sp.chunk_count = l
        /\ DOMAIN m_buf \subseteq {p.seqnum}
        /\ n \notin DOMAIN sp.chunks
        /\ c = [k \in 0 .. n |-> <<H + 1, k>>]
        /\ c \in [DOMAIN c -> Piece] /\ DOMAIN c \subseteq 0 .. MaxChunks - 1
        /\ DOMAIN c = 0 .. n /\ Cardinality(DOMAIN c) = n + 1
    <3>0. /\ TypeOK /\ FifoInvariant /\ reliables # <<>> /\ p = reliables[1]
          /\ r \in BOOLEAN /\ sp = EntryFor(p, r) /\ c = ChunksWith(p, sp)
      OBVIOUS
    <3>1. EntryBefore(p, sp, c, Len(handed))
      BY ONLY <3>0, EntryInTurn
    <3>. QED BY <3>1 DEF EntryBefore
  <2>2. Completes(p, r) <=> n + 1 = l
    BY <2>1 DEF Completes, allReceived
  <2>3. CASE n + 1 = l
    <3>1. DOMAIN m_buf' = {}
      BY <1>3, <2>1, <2>2, <2>3 DEF Stores, insert, Without
    <3>2. Results(p, r) = {fulldata(p, r)}
      BY <1>3, <2>2, <2>3 DEF Results
    <3>3. fulldata(p, r) =
             [k \in 1 .. l |-> IF k - 1 \in DOMAIN c THEN c[k - 1] ELSE <<>>]
      BY <2>1 DEF fulldata
    <3>4. \A k \in 1 .. l : k - 1 \in 0 .. n
      BY <1>1, <2>3
    <3>5. \A k \in 1 .. l : k - 1 \in DOMAIN c /\ c[k - 1] = <<H + 1, k - 1>>
      <4>1. \A j \in 0 .. n : j \in DOMAIN c /\ c[j] = <<H + 1, j>>
        BY <2>1
      <4>. QED BY <3>4, <4>1
    <3>6. fulldata(p, r) = Content(H + 1, l)
      BY <3>3, <3>5 DEF Content
    <3>. QED BY <2>3, <3>1, <3>2, <3>6 DEF IsLast
  <2>4. CASE n + 1 # l
    <3>. PICK e : e = [sp EXCEPT !.chunks = c]
      OBVIOUS
    <3>1. e.chunk_count = sp.chunk_count /\ e.chunks = c
      BY <2>1, EntryWith
    <3>2. m_buf' = [s \in DOMAIN m_buf \cup {p.seqnum} |->
                      IF s = p.seqnum THEN e ELSE m_buf[s]]
      BY <1>3, <2>2, <2>4 DEF Stores, insert
    <3>3. Results(p, r) = {}
      BY <1>3, <2>2, <2>4 DEF Results
    <3>4. DOMAIN m_buf' = {p.seqnum} /\ m_buf'[p.seqnum] = e
      BY <2>1, <3>2
    <3>5. HoldsWith(m_buf', p, H)
      BY <2>1, <3>1, <3>4 DEF HoldsWith
    <3>. QED BY <2>4, <3>3, <3>5 DEF IsLast
  <2>. QED BY <2>3, <2>4
<1>. QED BY <1>2, <1>3

\* A new entry is reliable if its first packet is.
LEMMA NewEntry ==
    ASSUME NEW n, NEW r \in BOOLEAN, NEW z, NEW e,
           e = [chunk_count |-> n, reliable |-> r, chunks |-> z]
    PROVE  e.reliable = r
OBVIOUS

\* Reliable packets make reliable entries.
LEMMA StoresReliable ==
    ASSUME TypeOK, AllReliable, NEW p \in Packet, NEW r \in BOOLEAN, r, Stores(p, r)
    PROVE  AllReliable'
<1>1. CASE Original(p)
  BY <1>1 DEF Stores, AllReliable
<1>2. CASE ~ Original(p) /\ Completes(p, r)
  <2>1. DOMAIN m_buf' \subseteq DOMAIN m_buf /\ \A s \in DOMAIN m_buf' : m_buf'[s] = m_buf[s]
    BY <1>2 DEF Stores, insert, Without
  <2>. QED BY <2>1 DEF AllReliable
<1>3. CASE ~ Original(p) /\ ~ Completes(p, r)
  <2>. PICK sp : sp = EntryFor(p, r)
    OBVIOUS
  <2>. PICK c : c = ChunksWith(p, sp)
    OBVIOUS
  <2>. PICK e : e = [sp EXCEPT !.chunks = c]
    OBVIOUS
  <2>1. sp \in IncomingSplitPacket
    BY EntryOfPacket
  <2>2. c \in [DOMAIN c -> Piece] /\ DOMAIN c \subseteq 0 .. MaxChunks - 1
    BY <2>1, ChunksOfPacket
  <2>3. e.reliable = sp.reliable
    BY <2>1, <2>2, EntryWith
  <2>4. sp.reliable
    <3>1. CASE p.seqnum \in DOMAIN m_buf
      BY <3>1 DEF EntryFor, AllReliable
    <3>2. CASE p.seqnum \notin DOMAIN m_buf
      <4>1. PICK n, z : n = p.chunk_count /\ z = <<>>
        OBVIOUS
      <4>2. sp = [chunk_count |-> n, reliable |-> r, chunks |-> z]
        BY <3>2, <4>1 DEF EntryFor
      <4>3. sp.reliable = r
        BY <4>2, NewEntry
      <4>. QED BY <4>3
    <3>. QED BY <3>1, <3>2
  <2>5. m_buf' = [s \in DOMAIN m_buf \cup {p.seqnum} |->
                    IF s = p.seqnum THEN e ELSE m_buf[s]]
    BY <1>3 DEF Stores, insert
  <2>6. e.reliable
    BY <2>3, <2>4
  <2>7. ASSUME NEW s \in DOMAIN m_buf' PROVE m_buf'[s].reliable
    <3>1. m_buf'[s] = e \/ (s \in DOMAIN m_buf /\ m_buf'[s] = m_buf[s])
      BY <2>5, <2>7
    <3>. QED BY <2>6, <3>1 DEF AllReliable
  <2>. QED BY <2>7 DEF AllReliable
<1>. QED BY <1>1, <1>2, <1>3

\* A step of the channel's receiver; r stands for TRUE.
LEMMA TakesInTurn ==
    ASSUME TypeOK, FifoInvariant, reliables # <<>>, NEW p, p = reliables[1],
           reliables' = Tail(reliables), UNCHANGED <<datagrams, remove_queue, history>>,
           NEW r \in BOOLEAN, Stores(p, r), AllReliable',
           \/ Results(p, r) = {} /\ handed' = handed
           \/ \E c \in Results(p, r) : handed' = Append(handed, c)
    PROVE  FifoInvariant' /\ [Fifo!Next]_<<Accepted, handed>>
<1>. PICK H, R, Q, rm : /\ H = Len(handed) /\ R = reliables
                        /\ Q = reliables' /\ rm = reliable_messages
  OBVIOUS
<1>1. /\ R # <<>> /\ R \in Seq(Packet) /\ Q = Tail(R) /\ rm \in Seq(Sending) /\ p = R[1]
      /\ PacketsInTurn(R, H, rm) /\ H \in Nat /\ reliable_messages' = rm
  BY DEF TypeOK, FifoInvariant, HandedInTurn, history
<1>2. p \in Packet
  <2>. HIDE DEF Packet
  <2>. QED BY <1>1, TakeFirst
<1>3. /\ IsLast(p) => PacketsInTurn(Q, H + 1, rm) /\ (Q # <<>> => Q[1].chunk_num = 0)
      /\ ~ IsLast(p) =>
             /\ PacketsInTurn(Q, H, rm)
             /\ Q # <<>> /\ Q[1].chunk_num = p.chunk_num + 1
             /\ Q[1].seqnum = p.seqnum /\ Q[1].chunk_count = p.chunk_count
  <2>1. IsLast(p) => PacketsInTurn(Q, H + 1, rm)
    BY ONLY <1>1, PacketsTaken
  <2>2. IsLast(p) => (Q # <<>> => Q[1].chunk_num = 0)
    BY ONLY <1>1, PacketsTaken
  <2>3. ~ IsLast(p) => PacketsInTurn(Q, H, rm)
    BY ONLY <1>1, PacketsTaken
  <2>4. ~ IsLast(p) => Q # <<>> /\ Q[1].chunk_num = p.chunk_num + 1
    BY ONLY <1>1, PacketsTaken
  <2>5. ~ IsLast(p) => Q[1].seqnum = p.seqnum /\ Q[1].chunk_count = p.chunk_count
    BY ONLY <1>1, PacketsTaken
  <2>. QED BY <2>1, <2>2, <2>3, <2>4, <2>5
<1>7. /\ IsLast(p) => DOMAIN m_buf' = {} /\ Results(p, r) = {Content(H + 1, p.chunk_count)}
      /\ ~ IsLast(p) => Results(p, r) = {} /\ HoldsWith(m_buf', p, H)
  BY StoresInTurn
<1>8. /\ H + 1 \in 1 .. Len(rm) /\ p.chunk_count = rm[H + 1].pieces
      /\ p.chunk_num \in 0 .. p.chunk_count - 1 /\ p.chunk_count \in Nat \ {0}
  BY <1>1, FirstInTurn
<1>11. (\A d \in datagrams' : d.chunk_count = 1) /\ remove_queue' = {}
  BY DEF FifoInvariant
<1>12. HandedInTurn(H, rm) /\ handed \in Seq(Seq(Piece \cup {<<>>}))
  BY DEF FifoInvariant, TypeOK
<1>13. CASE IsLast(p)
  <2>. PICK c : c = Content(H + 1, rm[H + 1].pieces)
    OBVIOUS
  <2>1. handed' = Append(handed, c)
    BY <1>7, <1>8, <1>13
  <2>2. c \in Seq(Piece \cup {<<>>})
    <3>1. c \in Results(p, r)
      BY <1>7, <1>8, <1>13
    <3>. QED BY <1>2, <3>1, ResultsTyped
  <2>3. /\ Len(handed') = H + 1 /\ handed'[H + 1] = c
        /\ \A i \in 1 .. H : handed'[i] = handed[i]
    <3>1. PICK S : S = Seq(Piece \cup {<<>>})
      OBVIOUS
    <3>2. handed \in Seq(S) /\ c \in S
      BY <1>12, <2>2, <3>1
    <3>. QED BY <2>1, <3>2, PutLast
  <2>4. HandedInTurn(H + 1, rm)'
    <3>1. ASSUME NEW i \in 1 .. H + 1 PROVE handed'[i] = Content(i, rm[i].pieces)
      <4>1. i \in 1 .. H \/ i = H + 1
        BY <1>1
      <4>2. \A j \in 1 .. H : handed[j] = Content(j, rm[j].pieces)
        BY <1>12 DEF HandedInTurn
      <4>. QED BY <2>3, <4>1, <4>2
    <3>2. H + 1 \in Nat /\ H + 1 =< Len(rm)
      BY <1>8
    <3>. QED BY <3>1, <3>2 DEF HandedInTurn
  <2>5. BufferInTurn(Q, H + 1, m_buf')
    BY <1>3, <1>7, <1>13 DEF BufferInTurn
  <2>6. FifoInvariant'
    BY <1>1, <1>3, <1>11, <1>13, <2>3, <2>4, <2>5 DEF FifoInvariant
  <2>7. Fifo!Next
    <3>1. rm = reliable_messages /\ DOMAIN rm = 1 .. Len(rm) /\ Len(rm) \in Nat
      <4>. HIDE DEF Sending
      <4>. QED BY <1>1, LenProperties
    <3>2. PICK A : A = [m \in DOMAIN reliable_messages |->
                          Content(m, reliable_messages[m].pieces)]
      OBVIOUS
    <3>3. DOMAIN A = 1 .. Len(rm) /\ A[H + 1] = c /\ A \in Seq({A[i] : i \in DOMAIN A})
      BY <1>8, <3>1, <3>2
    <3>4. Len(A) = Len(rm)
      BY <3>1, <3>3, LenProperties
    <3>5. UNCHANGED [m \in DOMAIN reliable_messages |->
                       Content(m, reliable_messages[m].pieces)]
      BY <1>1
    <3>6. Len(handed) < Len(A) /\ handed' = Append(handed, A[Len(handed) + 1])
      BY <1>1, <1>8, <2>1, <3>1, <3>3, <3>4
    <3>7. Fifo!HandOver
      BY <3>2, <3>5, <3>6 DEF Fifo!HandOver, Accepted
    <3>. QED BY <3>7 DEF Fifo!Next
  <2>. QED BY <2>6, <2>7
<1>14. CASE ~ IsLast(p)
  <2>1. handed' = handed /\ UNCHANGED Accepted
    BY <1>1, <1>7, <1>14 DEF Accepted
  <2>2. HandedInTurn(H, rm)'
    BY <1>12, <2>1 DEF HandedInTurn
  <2>3. BufferInTurn(Q, H, m_buf')
    <3>1. PICK q : q = Q[1]
      OBVIOUS
    <3>2. /\ q.chunk_num = p.chunk_num + 1 /\ q.seqnum = p.seqnum
          /\ q.chunk_count = p.chunk_count /\ q.chunk_num # 0
          /\ q.chunk_num - 1 = p.chunk_num
      <4>1. /\ q.chunk_num = p.chunk_num + 1 /\ q.seqnum = p.seqnum
            /\ q.chunk_count = p.chunk_count
        BY <1>3, <1>14, <3>1
      <4>2. PICK a, b : a = p.chunk_num /\ b = q.chunk_num
        OBVIOUS
      <4>3. a \in Nat
        BY <1>8, <4>2
      <4>4. b # 0 /\ b - 1 = a
        BY <4>1, <4>2, <4>3
      <4>. QED BY <4>1, <4>2, <4>4
    <3>3. HoldsBefore(m_buf', q, H)
      <4>1. HoldsWith(m_buf', p, H)
        BY <1>7, <1>14
      <4>. QED BY <3>2, <4>1 DEF HoldsBefore, HoldsWith
    <3>. QED BY <1>3, <1>14, <3>1, <3>2, <3>3 DEF BufferInTurn
  <2>4. FifoInvariant'
    BY <1>1, <1>3, <1>11, <1>14, <2>1, <2>2, <2>3 DEF FifoInvariant
  <2>. QED BY <2>1, <2>4
<1>. QED BY <1>13, <1>14

\* The channel hands a packet to the receiver.
LEMMA ReceivesInTurn ==
    ASSUME TypeOK, FifoInvariant, ReceiveReliable
    PROVE  FifoInvariant' /\ [Fifo!Next]_<<Accepted, handed>>
<1>1. /\ reliables # <<>> /\ reliables \in Seq(Packet) /\ reliables' = Tail(reliables)
      /\ UNCHANGED <<datagrams, remove_queue, history>> /\ AllReliable
  BY DEF ReceiveReliable, TypeOK, FifoInvariant
<1>2. PICK p : p = reliables[1] /\ p = Head(reliables) /\ p \in Packet
  <2>. HIDE DEF Packet
  <2>. QED BY <1>1, TakeFirst
<1>3. /\ Stores(p, TRUE)
      /\ \/ Results(p, TRUE) = {} /\ handed' = handed
         \/ \E c \in Results(p, TRUE) : handed' = Append(handed, c)
  BY <1>2 DEF ReceiveReliable
<1>4. AllReliable'
  BY <1>1, <1>2, <1>3, StoresReliable
<1>. QED BY <1>1, <1>2, <1>3, <1>4, TakesInTurn

\* A message is put in: its packets go behind those under way.
LEMMA SendsInTurn ==
    ASSUME TypeOK, FifoInvariant, NEW n \in 1 .. MaxChunks, SendReliable(n)
    PROVE  FifoInvariant' /\ [Fifo!Next]_<<Accepted, handed>>
<1>. PICK H, R, rm, M : /\ H = Len(handed) /\ R = reliables
                        /\ rm = reliable_messages /\ M = Len(rm)
  OBVIOUS
<1>. PICK s, e, ps, Q, rn : /\ s = next_outgoing_split_seqnum
                            /\ e = [pieces |-> n, seqnum |-> s]
                            /\ ps = makeAutoSplitPacket(M + 1, n, s)
                            /\ Q = R \o ps /\ rn = Append(rm, e)
  OBVIOUS
<1>1. /\ R \in Seq(Packet) /\ rm \in Seq(Sending) /\ H \in Nat /\ PacketsInTurn(R, H, rm)
      /\ BufferInTurn(R, H, m_buf) /\ HandedInTurn(H, rm) /\ s \in Seqnum
  BY DEF TypeOK, FifoInvariant, HandedInTurn
<1>2. /\ reliables' = Q /\ reliable_messages' = rn
      /\ UNCHANGED <<datagrams, m_buf, remove_queue, handed>>
  BY DEF SendReliable
<1>3. M \in Nat /\ M + 1 \in 1 .. MaxMessages /\ M + 1 \in Message
  BY NextMessage DEF SendReliable
<1>4. e \in Sending /\ e.pieces = n
  BY <1>1 DEF Sending
<1>5. /\ Len(rn) = M + 1 /\ rn[M + 1] = e /\ DOMAIN rn = 1 .. M + 1 /\ DOMAIN rm = 1 .. M
      /\ \A i \in 1 .. M : rn[i] = rm[i]
  <2>. HIDE DEF Sending
  <2>. QED BY <1>1, <1>4, PutLast
<1>0. /\ M = Len(rm) /\ e = [pieces |-> n, seqnum |-> s] /\ n \in 1 .. MaxChunks
      /\ ps = makeAutoSplitPacket(M + 1, n, s) /\ Q = R \o ps /\ rn = Append(rm, e)
  OBVIOUS
<1>6. PacketsInTurn(Q, H, rn)
  BY ONLY <1>0, <1>1, <1>3, PacketsPut
<1>7. Q # <<>> /\ (R = <<>> => Q[1] = ps[1]) /\ (R # <<>> => Q[1] = R[1])
  <2>1. Q # <<>>
    BY ONLY <1>0, <1>1, <1>3, PacketsPut
  <2>2. R = <<>> => Q[1] = ps[1]
    BY ONLY <1>0, <1>1, <1>3, PacketsPut
  <2>3. R # <<>> => Q[1] = R[1]
    BY ONLY <1>0, <1>1, <1>3, PacketsPut
  <2>. QED BY <2>1, <2>2, <2>3
<1>8. ps[1].chunk_num = 0
  <2>1. 1 \in 1 .. n /\ \A i \in 1 .. n : ps[i].chunk_num = i - 1
    BY <1>0, <1>1, <1>3, PacketsOfMessage, SplitAssumption
  <2>. QED BY <2>1
<1>9. BufferInTurn(Q, H, m_buf)
  <2>1. CASE R = <<>>
    <3>1. DOMAIN m_buf = {} /\ Q[1] = ps[1]
      BY <1>1, <1>7, <2>1 DEF BufferInTurn
    <3>. QED BY <1>7, <1>8, <3>1 DEF BufferInTurn
  <2>2. CASE R # <<>>
    <3>1. PICK q : q = R[1] /\ q = Q[1]
      BY <1>7, <2>2
    <3>. QED BY <1>1, <1>7, <2>2, <3>1 DEF BufferInTurn
  <2>. QED BY <2>1, <2>2
<1>10. HandedInTurn(H, rm)'
  BY <1>2, <1>1 DEF HandedInTurn
<1>11. HandedInTurn(H, rn)'
  <2>1. H =< M /\ \A i \in 1 .. H : handed[i] = Content(i, rm[i].pieces)
    BY <1>1 DEF HandedInTurn
  <2>2. ASSUME NEW i \in 1 .. H PROVE handed[i] = Content(i, rn[i].pieces)
    <3>1. i \in 1 .. M
      BY <1>1, <1>3, <2>1
    <3>2. rn[i] = rm[i]
      BY <1>5, <3>1
    <3>. QED BY <2>1, <3>2
  <2>3. H \in Nat /\ H =< Len(rn)
    BY <1>1, <1>3, <1>5, <2>1
  <2>. QED BY <1>2, <2>2, <2>3 DEF HandedInTurn
<1>12. FifoInvariant'
  <2>1. (\A d \in datagrams' : d.chunk_count = 1) /\ remove_queue' = {} /\ AllReliable'
    BY <1>2 DEF FifoInvariant, AllReliable
  <2>2. HandedInTurn(Len(handed), reliable_messages)'
    BY <1>2, <1>11 DEF HandedInTurn
  <2>. QED BY <1>2, <1>6, <1>9, <2>1, <2>2 DEF FifoInvariant
<1>13. Fifo!Next
  <2>. PICK A, B : /\ A = [m \in DOMAIN rm |-> Content(m, rm[m].pieces)]
                   /\ B = [m \in DOMAIN rn |-> Content(m, rn[m].pieces)]
    OBVIOUS
  <2>. PICK c : c = Content(M + 1, n)
    OBVIOUS
  <2>1. /\ DOMAIN A = 1 .. M /\ DOMAIN B = 1 .. M + 1 /\ B[M + 1] = c
        /\ \A i \in 1 .. M : B[i] = A[i]
    BY <1>3, <1>4, <1>5
  <2>2. PICK S : S = {A[i] : i \in 1 .. M} \cup {c}
    OBVIOUS
  <2>3. A \in Seq(S) /\ c \in S /\ Len(A) = M
    <3>1. \A i \in 1 .. M : A[i] \in S
      BY <2>2
    <3>2. A = [i \in 1 .. M |-> A[i]]
      BY <1>5
    <3>3. A \in Seq(S)
      BY ONLY <1>3, <3>1, <3>2, IsASeq
    <3>. QED BY <1>3, <2>1, <2>2, <3>3, LenProperties
  <2>4. B = Append(A, c)
    <3>1. PICK C : C = Append(A, c)
      OBVIOUS
    <3>2. /\ DOMAIN C = 1 .. M + 1 /\ C[M + 1] = c /\ C \in Seq(S) /\ Len(C) = M + 1
          /\ \A i \in 1 .. M : C[i] = A[i]
      BY <2>1, <2>3, <3>1, PutLast
    <3>3. B = [i \in 1 .. M + 1 |-> B[i]] /\ C = [i \in 1 .. M + 1 |-> C[i]]
      <4>1. B = [i \in DOMAIN B |-> B[i]]
        OBVIOUS
      <4>2. C = [i \in DOMAIN C |-> C[i]]
        <5>1. Len(C) \in Nat /\ C \in [1 .. Len(C) -> S]
          BY <3>2, LenProperties
        <5>. QED BY <3>2, <5>1
      <4>. QED BY <2>1, <3>2, <4>1, <4>2
    <3>4. \A i \in 1 .. M + 1 : B[i] = C[i]
      <4>1. \A i \in 1 .. M + 1 : i \in 1 .. M \/ i = M + 1
        BY <1>3
      <4>. QED BY <2>1, <3>2, <4>1
    <3>. QED BY <3>1, <3>3, <3>4
  <2>5. c \in {Content(m, k) : m \in 1 .. MaxMessages, k \in 1 .. MaxChunks}
    BY <1>3
  <2>6. [m \in DOMAIN reliable_messages |-> Content(m, reliable_messages[m].pieces)]'
           = Append([m \in DOMAIN reliable_messages |->
                        Content(m, reliable_messages[m].pieces)], c)
    BY <1>2, <2>4
  <2>7. Fifo!Accept(c)
    BY <1>2, <2>6 DEF Fifo!Accept, Accepted
  <2>. QED BY <2>5, <2>7 DEF Fifo!Next
<1>. QED BY <1>12, <1>13

\* An unreliable message is put behind those sent before.
LEMMA LastUnreliable ==
    ASSUME TypeOK, NEW n \in 1 .. UnreliableChunks, SendUnreliable(n)
    PROVE  /\ \A m \in DOMAIN unreliable_messages :
                 m \in DOMAIN unreliable_messages' /\ unreliable_messages'[m] = unreliable_messages[m]
           /\ \E m \in DOMAIN unreliable_messages' : unreliable_messages'[m].pieces = n
<1>. PICK um, un, e : /\ um = unreliable_messages /\ un = Append(um, e)
                      /\ e = [pieces |-> n, seqnum |-> next_incoming_seqnum]
  OBVIOUS
<1>1. um \in Seq(Sending) /\ Len(um) \in Nat /\ unreliable_messages' = un
  BY LenProperties DEF TypeOK, SendUnreliable
<1>2. e \in Sending /\ e.pieces = n
  BY SplitAssumption DEF Sending, TypeOK
<1>3. /\ DOMAIN un = 1 .. Len(um) + 1 /\ un[Len(um) + 1] = e /\ DOMAIN um = 1 .. Len(um)
      /\ \A i \in 1 .. Len(um) : un[i] = um[i]
  <2>. HIDE DEF Sending
  <2>. QED BY <1>1, <1>2, PutLast
<1>4. Len(um) + 1 \in 1 .. Len(um) + 1 /\ 1 .. Len(um) \subseteq 1 .. Len(um) + 1
  BY <1>1
<1>. QED BY <1>1, <1>2, <1>3, <1>4

\* A message that was not longer than a packet stays so.
LEMMA NoneLongBefore ==
    ASSUME TypeOK, [Next]_vars, NoneLong' PROVE NoneLong
<1>1. /\ \A m \in DOMAIN unreliable_messages :
            m \in DOMAIN unreliable_messages' /\ unreliable_messages'[m] = unreliable_messages[m]
  <2>1. CASE UNCHANGED unreliable_messages
    BY <2>1
  <2>2. ASSUME NEW n \in 1 .. UnreliableChunks, SendUnreliable(n)
        PROVE  \A m \in DOMAIN unreliable_messages :
            m \in DOMAIN unreliable_messages' /\ unreliable_messages'[m] = unreliable_messages[m]
    BY <2>2, LastUnreliable
  <2>3. UNCHANGED unreliable_messages \/ \E n \in 1 .. UnreliableChunks : SendUnreliable(n)
    BY DEF Next, SendReliable, FailToSendReliable, ReceiveFromPeer, ReceiveReliable,
           ReceiveUnreliable, Lose, CollectTimedOut, RemoveTimedOut, vars, history
  <2>. QED BY <2>1, <2>2, <2>3
<1>. QED BY <1>1 DEF NoneLong

\* Nothing else disturbs the reliable messages while unreliable ones fit into a packet.
LEMMA OthersInTurn ==
    ASSUME NoneLong', TypeOK, FifoInvariant,
           \/ \E n \in 1 .. UnreliableChunks : SendUnreliable(n)
           \/ FailToSendReliable \/ ReceiveFromPeer \/ Lose \/ UNCHANGED vars
           \/ \E d \in datagrams, keep \in BOOLEAN : ReceiveUnreliable(d, keep)
           \/ \E seqnums \in SUBSET Seqnum : CollectTimedOut(seqnums)
           \/ RemoveTimedOut
    PROVE  FifoInvariant' /\ UNCHANGED <<Accepted, handed>>
<1>1. ASSUME UNCHANGED <<reliables, m_buf, remove_queue, reliable_messages, handed>>,
             \A d \in datagrams' : d.chunk_count = 1
      PROVE  FifoInvariant' /\ UNCHANGED <<Accepted, handed>>
  <2>1. HandedInTurn(Len(handed), reliable_messages)' /\ AllReliable'
    BY <1>1 DEF FifoInvariant, HandedInTurn, AllReliable
  <2>2. PacketsInTurn(reliables, Len(handed), reliable_messages)'
    BY <1>1 DEF FifoInvariant
  <2>3. BufferInTurn(reliables, Len(handed), m_buf)'
    BY <1>1 DEF FifoInvariant
  <2>. QED BY <1>1, <2>1, <2>2, <2>3 DEF FifoInvariant, Accepted
<1>2. \A d \in datagrams : d.chunk_count = 1
  BY DEF FifoInvariant
<1>3. ASSUME NEW n \in 1 .. UnreliableChunks, SendUnreliable(n)
      PROVE  FifoInvariant' /\ UNCHANGED <<Accepted, handed>>
  <2>. PICK s, m, ps : /\ s = next_incoming_seqnum /\ m = - (Len(unreliable_messages) + 1)
                       /\ ps = makeAutoSplitPacket(m, n, s)
    OBVIOUS
  <2>0. n = 1
    BY <1>3, LastUnreliable DEF NoneLong
  <2>1. n \in 1 .. MaxChunks /\ s \in Seqnum /\ m \in Message
    BY <1>3, SplitAssumption, NextMessage DEF SendUnreliable, TypeOK
  <2>2. \A i \in 1 .. n : ps[i].chunk_count = 1
    BY <2>0, <2>1, PacketsOfMessage
  <2>3. \A d \in datagrams' : d.chunk_count = 1
    BY <1>2, <1>3, <2>2 DEF SendUnreliable
  <2>. QED BY <1>1, <1>3, <2>3 DEF SendUnreliable
<1>4. ASSUME FailToSendReliable \/ ReceiveFromPeer \/ Lose \/ UNCHANGED vars
      PROVE  FifoInvariant' /\ UNCHANGED <<Accepted, handed>>
  BY <1>1, <1>2, <1>4
     DEF FailToSendReliable, ReceiveFromPeer, Lose, vars, sender, history
<1>5. ASSUME NEW d \in datagrams, NEW keep \in BOOLEAN, ReceiveUnreliable(d, keep)
      PROVE  FifoInvariant' /\ UNCHANGED <<Accepted, handed>>
  <2>1. m_buf' = m_buf
    BY <1>2, <1>5 DEF ReceiveUnreliable, Stores, Original
  <2>2. \A e \in datagrams' : e.chunk_count = 1
    BY <1>2, <1>5 DEF ReceiveUnreliable
  <2>. QED BY <1>1, <1>5, <2>1, <2>2 DEF ReceiveUnreliable, sender, history
<1>6. ASSUME NEW seqnums \in SUBSET Seqnum, CollectTimedOut(seqnums) PROVE FALSE
  BY <1>6 DEF CollectTimedOut, Unreliable, FifoInvariant, AllReliable
<1>7. ASSUME RemoveTimedOut PROVE FALSE
  BY <1>7 DEF RemoveTimedOut, FifoInvariant
<1>. QED BY <1>3, <1>4, <1>5, <1>6, <1>7

\* At first nothing was put in, and nothing came out.
LEMMA FifoInitially == ASSUME Init PROVE FifoInvariant /\ Fifo!Init
<1>1. /\ reliables = <<>> /\ reliable_messages = <<>> /\ handed = <<>> /\ datagrams = {}
      /\ remove_queue = {} /\ Len(handed) = 0 /\ Len(reliable_messages) = 0
      /\ Len(reliables) = 0
  BY DEF Init
<1>2. DOMAIN m_buf = {}
  BY NoChunks DEF Init
<1>3. DOMAIN reliable_messages = {}
  BY <1>1, NoChunks
<1>4. PacketsInTurn(reliables, Len(handed), reliable_messages)
  BY <1>1 DEF PacketsInTurn
<1>5. BufferInTurn(reliables, Len(handed), m_buf) /\ AllReliable
  BY <1>1, <1>2 DEF BufferInTurn, AllReliable
<1>6. HandedInTurn(Len(handed), reliable_messages)
  BY <1>1 DEF HandedInTurn
<1>7. [m \in DOMAIN reliable_messages |-> Content(m, reliable_messages[m].pieces)] = <<>>
  BY <1>1, <1>3
<1>. QED BY <1>1, <1>4, <1>5, <1>6, <1>7 DEF FifoInvariant, Fifo!Init, Accepted

\* As long as no unreliable message was longer than a packet, the user gets the reliable
\* messages whole and in order, each once: the split numbers may be used again and may run
\* over, and what times out meanwhile is nothing of theirs (connection.h:285-291).
THEOREM ReliableWhole == Spec => FifoWhileShort
<1>1. Init => TypeOK /\ (NoneLong => FifoInvariant) /\ Fifo!Init
  BY InitTypes, FifoInitially
<1>2. TypeOK /\ (NoneLong => FifoInvariant) /\ [Next]_vars =>
         /\ TypeOK' /\ (NoneLong => FifoInvariant)'
         /\ NoneLong' => Fifo!Next \/ UNCHANGED <<Accepted, handed>>
  <2>. SUFFICES ASSUME TypeOK, NoneLong => FifoInvariant, [Next]_vars
                PROVE  /\ TypeOK' /\ (NoneLong' => FifoInvariant')
                       /\ NoneLong' => Fifo!Next \/ UNCHANGED <<Accepted, handed>>
    OBVIOUS
  <2>1. TypeOK'
    BY NextTypes
  <2>. SUFFICES ASSUME NoneLong'
                PROVE  FifoInvariant' /\ [Fifo!Next]_<<Accepted, handed>>
    BY <2>1
  <2>. FifoInvariant
    BY NoneLongBefore
  <2>2. CASE \E n \in 1 .. MaxChunks : SendReliable(n)
    BY <2>2, SendsInTurn
  <2>3. CASE ReceiveReliable
    BY <2>3, ReceivesInTurn
  <2>4. CASE ~ (ReceiveReliable \/ \E n \in 1 .. MaxChunks : SendReliable(n))
    BY <2>4, OthersInTurn DEF Next
  <2>. QED BY <2>2, <2>3, <2>4
<1>. QED BY <1>1, <1>2, PTL DEF Spec, FifoWhileShort
=============================================================================
