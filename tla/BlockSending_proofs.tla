------------------------- MODULE BlockSending_proofs -------------------------
(***************************************************************************)
(* For any number of blocks, sends, changes and edits: no old block is     *)
(* taken for sent, and every block being sent is going to be acknowledged. *)
(***************************************************************************)
EXTENDS BlockSending, SequenceTheorems, WellFoundedInduction, TLAPS

-----------------------------------------------------------------------------
(* The inductive invariant *)

\* No block has been changed more often than blocks have been changed at all.
Bounded ==
    \A p \in Block : map[p].whole =< changes /\ map[p].node =< interacts

OnTheWire(p) == \E i \in DOMAIN blockdata : blockdata[i].p = p

\* An acknowledgement of p will come, or is being handled.
Underway(p) ==
    \/ OnTheWire(p) \/ p \in m_queue_in \/ m_queue_out[p] > 0
    \/ Answered("GOTBLOCKS", p) \/ unmodified = p

\* The acknowledgement of an old version finds the block modified: sending a block
\* makes it known, and it is modified from the first change on until it is sent.
Heeded ==
    /\ m_blocks_sending \cap m_blocks_modified = {}
    /\ \A p \in m_blocks_sending : Underway(p)
    /\ \A p \in Block : Underway(p) =>
          p \in m_blocks_sent \cup m_blocks_sending \cup m_blocks_modified
    /\ unmodified # NoBlock => raced \/ unmodified \notin m_blocks_modified

\* What the client has, or is to have, of block p is the server's.
Current(p) == Newest(p) # NotThere /\ Newest(p).whole = map[p].whole

Excused(p) == raced \/ ChangePending(p) \/ Answered("DELETEDBLOCKS", p)

SentCurrent == \A p \in m_blocks_sent \cup m_blocks_sending : Excused(p) \/ Current(p)

IInv == TypeOK /\ Bounded /\ Heeded /\ SentCurrent

-----------------------------------------------------------------------------
(* Queues *)

\* A queue: its length, its head and tail, and what an append adds.
LEMMA QueueFacts ==
    ASSUME NEW S, NEW q \in Seq(S)
    PROVE  /\ Len(q) \in Nat /\ DOMAIN q = 1 .. Len(q) /\ \A i \in 1 .. Len(q) : q[i] \in S
           /\ \A e \in S : /\ Append(q, e) \in Seq(S)
                           /\ DOMAIN Append(q, e) = 1 .. Len(q) + 1
                           /\ Append(q, e)[Len(q) + 1] = e
                           /\ \A i \in 1 .. Len(q) : Append(q, e)[i] = q[i]
           /\ q # <<>> => /\ Len(q) > 0 /\ Head(q) = q[1] /\ Head(q) \in S
                         /\ Tail(q) \in Seq(S)
                         /\ DOMAIN Tail(q) = 1 .. Len(q) - 1
                         /\ \A i \in 1 .. Len(q) - 1 : Tail(q)[i] = q[i + 1]
<1>1. Len(q) \in Nat /\ DOMAIN q = 1 .. Len(q) /\ \A i \in 1 .. Len(q) : q[i] \in S
  BY LenProperties, ElementOfSeq
<1>2. ASSUME NEW e \in S
      PROVE  /\ Append(q, e) \in Seq(S)
             /\ DOMAIN Append(q, e) = 1 .. Len(q) + 1
             /\ Append(q, e)[Len(q) + 1] = e
             /\ \A i \in 1 .. Len(q) : Append(q, e)[i] = q[i]
  BY AppendProperties, LenProperties
<1>3. ASSUME q # <<>>
      PROVE  /\ Len(q) > 0 /\ Head(q) = q[1] /\ Head(q) \in S
             /\ Tail(q) \in Seq(S)
             /\ DOMAIN Tail(q) = 1 .. Len(q) - 1
             /\ \A i \in 1 .. Len(q) - 1 : Tail(q)[i] = q[i + 1]
  BY <1>3, HeadTailProperties, LenProperties, EmptySeq
<1>. QED BY <1>1, <1>2, <1>3

\* What an append adds to the elements of a queue, and what a removal takes away.
LEMMA PutIn ==
    ASSUME NEW S, NEW q \in Seq(S), NEW e \in S, NEW r, r = Append(q, e)
    PROVE  /\ \A i \in DOMAIN r : r[i] = e \/ \E j \in DOMAIN q : r[i] = q[j]
           /\ \A j \in DOMAIN q : \E i \in DOMAIN r : r[i] = q[j]
           /\ \E i \in DOMAIN r : r[i] = e
<1>1. /\ Len(q) \in Nat /\ DOMAIN q = 1 .. Len(q) /\ DOMAIN r = 1 .. Len(q) + 1
      /\ r[Len(q) + 1] = e /\ \A i \in 1 .. Len(q) : r[i] = q[i]
  BY QueueFacts
<1>2. Len(q) + 1 \in DOMAIN r
  BY <1>1
<1>. QED BY <1>1, <1>2

LEMMA TakenOut ==
    ASSUME NEW S, NEW q \in Seq(S), q # <<>>, NEW r, r = Tail(q)
    PROVE  /\ \A i \in DOMAIN q : q[i] = Head(q) \/ \E j \in DOMAIN r : q[i] = r[j]
           /\ \A j \in DOMAIN r : \E i \in DOMAIN q : q[i] = r[j]
           /\ \E i \in DOMAIN q : q[i] = Head(q)
<1>1. /\ Len(q) \in Nat /\ Len(q) > 0 /\ DOMAIN q = 1 .. Len(q) /\ DOMAIN r = 1 .. Len(q) - 1
      /\ Head(q) = q[1] /\ \A i \in 1 .. Len(q) - 1 : r[i] = q[i + 1]
  BY QueueFacts
<1>2. ASSUME NEW i \in DOMAIN q, i # 1 PROVE \E j \in DOMAIN r : q[i] = r[j]
  <2>1. i - 1 \in DOMAIN r /\ r[i - 1] = q[i]
    BY <1>1, <1>2
  <2>. QED BY <2>1
<1>3. ASSUME NEW j \in DOMAIN r PROVE \E i \in DOMAIN q : q[i] = r[j]
  <2>1. j + 1 \in DOMAIN q /\ q[j + 1] = r[j]
    BY <1>1, <1>3
  <2>. QED BY <2>1
<1>4. 1 \in DOMAIN q
  BY <1>1
<1>. QED BY <1>1, <1>2, <1>3, <1>4

-----------------------------------------------------------------------------
(* The newest version of a block under way *)

\* Newest(p), of any queue and any map of the client.
NewestOf(q, c, p) ==
    LET sent == {i \in DOMAIN q : q[i].p = p}
    IN  IF sent = {} THEN c[p]
        ELSE q[CHOOSE i \in sent : \A j \in sent : j =< i].content

IsLast(q, p, i) ==
    /\ i \in DOMAIN q /\ q[i].p = p
    /\ \A j \in DOMAIN q : q[j].p = p => j =< i

\* Every set of numbers that is not empty has a least one, if it is bounded also a
\* greatest one.
LEMMA LeastNumber ==
    ASSUME NEW S \in SUBSET Nat, S # {} PROVE \E n \in S : \A m \in S : n =< m
<1> DEFINE R == OpToRel(<, Nat)
<1>1. \E n \in S : \A m \in S : ~ (<<m, n>> \in R)
  BY NatLessThanWellFounded, WFMin
<1>2. \A m, n \in Nat : m < n => <<m, n>> \in R
  BY DEF OpToRel
<1> HIDE DEF R
<1>3. PICK n \in S : \A m \in S : ~ (<<m, n>> \in R)
  BY <1>1
<1>4. \A m \in S : ~ (m < n)
  BY <1>2, <1>3
<1>. QED BY <1>4

LEMMA GreatestNumber ==
    ASSUME NEW b \in Nat, NEW S \in SUBSET (1 .. b), S # {}
    PROVE  \E n \in S : \A m \in S : m =< n
<1> DEFINE T == {k \in Nat : b - k \in S}
<1>1. T \in SUBSET Nat
  OBVIOUS
<1>2. PICK s \in S : TRUE
  OBVIOUS
<1>3. b - s \in Nat /\ b - (b - s) = s
  BY <1>2
<1>4. T # {}
  BY <1>2, <1>3
<1>5. PICK k \in T : \A m \in T : k =< m
  BY <1>1, <1>4, LeastNumber
<1>6. b - k \in S
  BY <1>5
<1>7. ASSUME NEW m \in S PROVE m =< b - k
  <2>1. b - m \in Nat /\ b - (b - m) = m
    BY <1>7
  <2>2. b - m \in T
    BY <2>1
  <2>. QED BY <1>5, <2>1, <2>2
<1>. QED BY <1>6, <1>7

\* A block in a queue has a last version there ...
LEMMA LastExists ==
    ASSUME NEW S, NEW q \in Seq(S), NEW p, \E i \in DOMAIN q : q[i].p = p
    PROVE  \E i \in DOMAIN q : IsLast(q, p, i)
<1> DEFINE sent == {i \in DOMAIN q : q[i].p = p}
<1>1. Len(q) \in Nat /\ DOMAIN q = 1 .. Len(q)
  BY QueueFacts
<1>2. sent \in SUBSET (1 .. Len(q)) /\ sent # {}
  BY <1>1
<1>3. \E n \in sent : \A m \in sent : m =< n
  BY <1>1, <1>2, GreatestNumber
<1>. QED BY <1>3 DEF IsLast

\* ... which is the newest the client will have;
LEMMA LastIsNewest ==
    ASSUME NEW S, NEW q \in Seq(S), NEW c, NEW p, NEW i, IsLast(q, p, i)
    PROVE  NewestOf(q, c, p) = q[i].content
<1> DEFINE sent == {k \in DOMAIN q : q[k].p = p}
           l == CHOOSE k \in sent : \A j \in sent : j =< k
<1>1. DOMAIN q \in SUBSET Nat
  BY QueueFacts
<1>2. i \in sent /\ \A j \in sent : j =< i
  BY DEF IsLast
<1>3. l \in sent /\ \A j \in sent : j =< l
  BY <1>2
<1>4. l \in Nat /\ i \in Nat /\ i =< l /\ l =< i
  BY <1>1, <1>2, <1>3
<1>5. l = i /\ sent # {}
  BY <1>2, <1>4
<1>6. NewestOf(q, c, p) = q[l].content
  BY <1>5 DEF NewestOf
<1>. QED BY <1>5, <1>6

\* without one, the newest is what it has.
LEMMA NoneIsNewest ==
    ASSUME NEW q, NEW c, NEW p, ~ \E i \in DOMAIN q : q[i].p = p
    PROVE  NewestOf(q, c, p) = c[p]
<1>1. {i \in DOMAIN q : q[i].p = p} = {}
  OBVIOUS
<1>. QED BY <1>1 DEF NewestOf

\* A version that is sent is the newest of its block and of no other.
LEMMA NewestPut ==
    ASSUME NEW S, NEW q \in Seq(S), NEW c, NEW e \in S, NEW p
    PROVE  NewestOf(Append(q, e), c, p) = IF e.p = p THEN e.content ELSE NewestOf(q, c, p)
<1> DEFINE r == Append(q, e)
<1>1. /\ Len(q) \in Nat /\ DOMAIN q = 1 .. Len(q) /\ r \in Seq(S)
      /\ DOMAIN r = 1 .. Len(q) + 1 /\ r[Len(q) + 1] = e
      /\ \A i \in 1 .. Len(q) : r[i] = q[i]
  BY QueueFacts
<1> HIDE DEF r
<1>2. CASE e.p = p
  <2>1. IsLast(r, p, Len(q) + 1)
    BY <1>1, <1>2 DEF IsLast
  <2>2. NewestOf(r, c, p) = r[Len(q) + 1].content
    BY <1>1, <2>1, LastIsNewest
  <2>. QED BY <1>1, <1>2, <2>2 DEF r
<1>3. CASE e.p # p /\ \E i \in DOMAIN q : q[i].p = p
  <2>1. PICK i \in DOMAIN q : IsLast(q, p, i)
    BY <1>3, LastExists
  <2>2. IsLast(r, p, i)
    BY <1>1, <1>3, <2>1 DEF IsLast
  <2>3. r[i] = q[i]
    BY <1>1, <2>1
  <2>4. NewestOf(r, c, p) = r[i].content /\ NewestOf(q, c, p) = q[i].content
    BY <1>1, <2>1, <2>2, LastIsNewest
  <2>. QED BY <1>3, <2>3, <2>4 DEF r
<1>4. CASE e.p # p /\ ~ \E i \in DOMAIN q : q[i].p = p
  <2>1. ~ \E i \in DOMAIN r : r[i].p = p
    BY <1>1, <1>4
  <2>2. NewestOf(r, c, p) = c[p] /\ NewestOf(q, c, p) = c[p]
    BY <1>4, <2>1, NoneIsNewest
  <2>. QED BY <1>4, <2>2 DEF r
<1>. QED BY <1>2, <1>3, <1>4

\* The client takes over what comes first.
LEMMA NewestTaken ==
    ASSUME NEW S, NEW q \in Seq(S), q # <<>>, NEW c, NEW d, NEW p,
           d[p] = IF Head(q).p = p THEN Head(q).content ELSE c[p]
    PROVE  NewestOf(Tail(q), d, p) = NewestOf(q, c, p)
<1> DEFINE r == Tail(q)
<1>1. /\ Len(q) \in Nat /\ Len(q) > 0 /\ DOMAIN q = 1 .. Len(q) /\ r \in Seq(S)
      /\ DOMAIN r = 1 .. Len(q) - 1 /\ Head(q) = q[1]
      /\ \A i \in 1 .. Len(q) - 1 : r[i] = q[i + 1]
  BY QueueFacts
<1> HIDE DEF r
<1>2. CASE \E i \in DOMAIN r : r[i].p = p
  <2>1. PICK i \in DOMAIN r : IsLast(r, p, i)
    BY <1>1, <1>2, LastExists
  <2>2. i + 1 \in DOMAIN q /\ q[i + 1] = r[i]
    BY <1>1, <2>1
  <2>3. ASSUME NEW j \in DOMAIN q, q[j].p = p PROVE j =< i + 1
    <3>1. CASE j = 1
      BY <1>1, <2>1, <3>1
    <3>2. CASE j # 1
      <4>1. j - 1 \in DOMAIN r /\ r[j - 1] = q[j]
        BY <1>1, <3>2
      <4>2. j - 1 =< i
        BY <2>1, <2>3, <4>1 DEF IsLast
      <4>. QED BY <1>1, <2>1, <4>2
    <3>. QED BY <3>1, <3>2
  <2>4. IsLast(q, p, i + 1)
    BY <2>1, <2>2, <2>3 DEF IsLast
  <2>5. NewestOf(r, d, p) = r[i].content /\ NewestOf(q, c, p) = q[i + 1].content
    BY <1>1, <2>1, <2>4, LastIsNewest
  <2>. QED BY <2>2, <2>5 DEF r
<1>3. CASE ~ (\E i \in DOMAIN r : r[i].p = p) /\ Head(q).p = p
  <2>1. ASSUME NEW j \in DOMAIN q, j # 1 PROVE q[j].p # p
    <3>1. j - 1 \in DOMAIN r /\ r[j - 1] = q[j]
      BY <1>1, <2>1
    <3>. QED BY <1>3, <3>1
  <2>2. IsLast(q, p, 1)
    BY <1>1, <1>3, <2>1 DEF IsLast
  <2>3. NewestOf(q, c, p) = q[1].content
    BY <2>2, LastIsNewest
  <2>4. NewestOf(r, d, p) = d[p]
    BY <1>3, NoneIsNewest
  <2>. QED BY <1>1, <1>3, <2>3, <2>4 DEF r
<1>4. CASE ~ (\E i \in DOMAIN r : r[i].p = p) /\ Head(q).p # p
  <2>1. ~ \E i \in DOMAIN q : q[i].p = p
    <3>1. ASSUME NEW j \in DOMAIN q, j # 1 PROVE q[j].p # p
      <4>1. j - 1 \in DOMAIN r /\ r[j - 1] = q[j]
        BY <1>1, <3>1
      <4>. QED BY <1>4, <4>1
    <3>. QED BY <1>1, <1>4, <3>1
  <2>2. NewestOf(q, c, p) = c[p]
    BY <2>1, NoneIsNewest
  <2>3. NewestOf(r, d, p) = d[p]
    BY <1>4, NoneIsNewest
  <2>. QED BY <1>4, <2>2, <2>3 DEF r
<1>. QED BY <1>2, <1>3, <1>4

-----------------------------------------------------------------------------
(* Types *)

Event == [type : {"MEET_ADDNODE", "MEET_OTHER"}, p : Block, n : 0 .. MaxInteracts]
BlockData == [p : Block, content : Content]
NodeData == [p : Block, n : 0 .. MaxInteracts]
AnswerData == [type : {"GOTBLOCKS", "DELETEDBLOCKS"}, p : Block]

Typed == TypeOK /\ Bounded

LEMMA ContentIsThere ==
    \A c \in Content : c # NotThere /\ c.whole \in 0 .. MaxChanges /\ c.node \in 0 .. MaxInteracts
<1>1. MaxChanges \in Nat /\ MaxInteracts \in Nat
  BY BlockSendingAssumption
<1>2. \A c \in Content : c \in [whole : Nat, node : Nat]
  BY <1>1 DEF Content
<1>. QED BY <1>2, BlockSendingAssumption DEF Content

\* The queues and the marks of a block.
LEMMA QueuesTyped ==
    ASSUME TypeOK
    PROVE  /\ m_unsent_map_edit_queue \in Seq(Event) /\ blockdata \in Seq(BlockData)
           /\ nodedata \in Seq(NodeData) /\ answers \in Seq(AnswerData)
  BY DEF TypeOK, Event, BlockData, NodeData, AnswerData

\* Changes of whole blocks keep the types,
LEMMA ChangeTyped ==
    ASSUME Typed, NEW p \in Block, Change(p), UNCHANGED interacts
    PROVE  map' \in [Block -> Content] /\ changes' \in 0 .. MaxChanges /\ Bounded'
<1>1. /\ MaxChanges \in Nat /\ changes \in 0 .. MaxChanges /\ map \in [Block -> Content]
      /\ \A b \in Block : map[b].whole =< changes /\ map[b].node =< interacts
  BY BlockSendingAssumption DEF Typed, TypeOK, Bounded
<1>2. /\ changes < MaxChanges /\ changes' = changes + 1
      /\ map' = [map EXCEPT ![p] = [map[p] EXCEPT !.whole = @ + 1]]
  BY DEF Change
<1>3. /\ map[p].whole + 1 \in 0 .. MaxChanges /\ map[p].whole + 1 =< changes + 1
      /\ \A b \in Block : map[b] \in Content /\ map[b].whole =< changes + 1
  BY <1>1, <1>2 DEF Content
<1>4. [map[p] EXCEPT !.whole = @ + 1] \in Content
  BY <1>3 DEF Content
<1>5. /\ [map[p] EXCEPT !.whole = @ + 1].whole = map[p].whole + 1
      /\ [map[p] EXCEPT !.whole = @ + 1].node = map[p].node
  BY <1>3 DEF Content
<1>6. map' \in [Block -> Content]
  BY <1>1, <1>2, <1>4
<1>7. Bounded'
  BY <1>1, <1>2, <1>3, <1>5 DEF Bounded
<1>. QED BY <1>1, <1>2, <1>6, <1>7

\* and so do edits of a node,
LEMMA EditTyped ==
    ASSUME Typed, NEW p \in Block, Edit(p), UNCHANGED changes
    PROVE  /\ map' \in [Block -> Content] /\ interacts' \in 0 .. MaxInteracts /\ Bounded'
           /\ m_unsent_map_edit_queue' \in Seq(Event)
           /\ [type |-> "MEET_ADDNODE", p |-> p, n |-> map[p].node + 1] \in Event
<1>1. /\ MaxInteracts \in Nat /\ interacts \in 0 .. MaxInteracts /\ map \in [Block -> Content]
      /\ \A b \in Block : map[b].whole =< changes /\ map[b].node =< interacts
  BY BlockSendingAssumption DEF Typed, TypeOK, Bounded
<1>2. /\ interacts < MaxInteracts /\ interacts' = interacts + 1
      /\ map' = [map EXCEPT ![p] = [map[p] EXCEPT !.node = @ + 1]]
  BY DEF Edit
<1>3. /\ map[p].node + 1 \in 0 .. MaxInteracts /\ map[p].node + 1 =< interacts + 1
      /\ \A b \in Block : map[b] \in Content /\ map[b].node =< interacts + 1
  BY <1>1, <1>2 DEF Content
<1>4. [map[p] EXCEPT !.node = @ + 1] \in Content
  BY <1>3 DEF Content
<1>5. /\ [map[p] EXCEPT !.node = @ + 1].node = map[p].node + 1
      /\ [map[p] EXCEPT !.node = @ + 1].whole = map[p].whole
  BY <1>3 DEF Content
<1>6. map' \in [Block -> Content]
  BY <1>1, <1>2, <1>4
<1>7. Bounded'
  BY <1>1, <1>2, <1>3, <1>5 DEF Bounded
<1>8. [type |-> "MEET_ADDNODE", p |-> p, n |-> map[p].node + 1] \in Event
  BY <1>3 DEF Event
<1>9. m_unsent_map_edit_queue' \in Seq(Event)
  BY <1>8, QueuesTyped, QueueFacts DEF Edit, Typed
<1>. QED BY <1>1, <1>2, <1>6, <1>7, <1>8, <1>9

\* the marks of a RemoteClient,
LEMMA MarksTyped ==
    ASSUME TypeOK, NEW p \in Block, SetBlockNotSent(p) \/ UNCHANGED tracked
    PROVE  m_blocks_sent' \subseteq Block /\ m_blocks_sending' \subseteq Block
           /\ m_blocks_modified' \subseteq Block
  BY DEF TypeOK, SetBlockNotSent, tracked

\* the steps of the server,
LEMMA ServerTyped ==
    ASSUME Typed, NEW p \in Block, ServerStep(p) PROVE Typed'
<1>. USE DEF server, tracked, network, client, Typed
<1>1. CASE TransformLiquids(p)
  BY <1>1, ChangeTyped, MarksTyped DEF TransformLiquids, TypeOK
<1>2. CASE ChangeByScript(p)
  <2>1. [type |-> "MEET_OTHER", p |-> p, n |-> 0] \in Event
    BY BlockSendingAssumption DEF Event
  <2>2. m_unsent_map_edit_queue' \in Seq(Event)
    BY <1>2, <2>1, QueuesTyped, QueueFacts DEF ChangeByScript
  <2>. QED BY <1>2, <2>2, ChangeTyped DEF ChangeByScript, TypeOK, Event
<1>3. CASE EditNode(p)
  BY <1>3, EditTyped DEF EditNode, TypeOK, Event
<1>4. CASE Dig(p)
  <2>1. SetBlockNotSent(p) \/ UNCHANGED tracked
    BY <1>4 DEF Dig, ResendBlockIfOnWire
  <2>. QED BY <1>4, <2>1, EditTyped, MarksTyped DEF Dig, TypeOK, Event
<1>5. CASE DigInVain(p)
  <2>1. interacts' \in 0 .. MaxInteracts /\ interacts =< interacts'
    BY <1>5, BlockSendingAssumption DEF DigInVain, TypeOK
  <2>2. TypeOK'
    BY <1>5, <2>1, MarksTyped DEF DigInVain, TypeOK
  <2>3. \A b \in Block : map[b].node \in 0 .. MaxInteracts
    BY DEF TypeOK, Content
  <2>4. Bounded'
    BY <1>5, <2>1, <2>3 DEF DigInVain, TypeOK, Bounded
  <2>. QED BY <2>2, <2>4
<1>6. CASE FinishGen(p)
  BY <1>6, ChangeTyped DEF FinishGen, TypeOK
<1>7. CASE SetBlocksNotSent(p)
  BY <1>7, MarksTyped DEF SetBlocksNotSent, TypeOK, Bounded
<1>8. CASE SendBlock(p)
  <2>1. [p |-> p, content |-> map[p]] \in BlockData
    BY DEF TypeOK, BlockData
  <2>2. blockdata' \in Seq(BlockData)
    BY <1>8, <2>1, QueuesTyped, QueueFacts DEF SendBlock
  <2>. QED BY <1>8, <2>2 DEF SendBlock, SentBlock, TypeOK, BlockData, Bounded
<1>. QED BY <1>1, <1>2, <1>3, <1>4, <1>5, <1>6, <1>7, <1>8 DEF ServerStep

\* of the client,
LEMMA ClientTyped ==
    ASSUME Typed, NEW p \in Block, ClientStep(p) PROVE Typed'
<1>. USE DEF server, tracked, network, client, Typed
<1>1. CASE DoUpdate(p)
  BY <1>1 DEF DoUpdate, TypeOK, Bounded
<1>2. CASE sendGotBlocks(p)
  <2>1. [type |-> "GOTBLOCKS", p |-> p] \in AnswerData
    BY DEF AnswerData
  <2>2. answers' \in Seq(AnswerData)
    BY <1>2, <2>1, QueuesTyped, QueueFacts DEF sendGotBlocks
  <2>3. m_queue_out' \in [Block -> Nat]
    BY <1>2 DEF sendGotBlocks, TypeOK
  <2>. QED BY <1>2, <2>2, <2>3 DEF sendGotBlocks, TypeOK, AnswerData, Bounded
<1>3. CASE sendDeletedBlocks(p)
  <2>1. [type |-> "DELETEDBLOCKS", p |-> p] \in AnswerData
    BY DEF AnswerData
  <2>2. answers' \in Seq(AnswerData)
    BY <1>3, <2>1, QueuesTyped, QueueFacts DEF sendDeletedBlocks
  <2>3. interacts' \in 0 .. MaxInteracts /\ interacts =< interacts'
    BY <1>3, BlockSendingAssumption DEF sendDeletedBlocks, TypeOK
  <2>4. copy' \in [Block -> Content \cup {NotThere}]
    BY <1>3 DEF sendDeletedBlocks, TypeOK
  <2>5. TypeOK'
    BY <1>3, <2>2, <2>3, <2>4 DEF sendDeletedBlocks, TypeOK, AnswerData
  <2>6. \A b \in Block : map[b].node \in 0 .. MaxInteracts
    BY DEF TypeOK, Content
  <2>7. Bounded'
    BY <1>3, <2>3, <2>6 DEF sendDeletedBlocks, TypeOK, Bounded
  <2>. QED BY <2>5, <2>7
<1>. QED BY <1>1, <1>2, <1>3 DEF ClientStep

\* and those that handle a packet.
LEMMA MessagesTyped ==
    ASSUME Typed,
           SendMapEditEvent \/ GotBlock \/ MarkSent \/ DeletedBlocks
              \/ ReceiveBlockData \/ ReceiveAddNode
    PROVE  Typed'
<1>. USE DEF server, tracked, network, client, Typed
<1>1. CASE SendMapEditEvent
  <2> DEFINE event == Head(m_unsent_map_edit_queue)
  <2>1. event \in Event /\ m_unsent_map_edit_queue' \in Seq(Event)
    BY <1>1, QueuesTyped, QueueFacts DEF SendMapEditEvent
  <2>2. event.p \in Block /\ [p |-> event.p, n |-> event.n] \in NodeData
    BY <2>1 DEF Event, NodeData
  <2>3. CASE SetBlockNotSent(event.p) /\ UNCHANGED nodedata
    BY <1>1, <2>1, <2>2, <2>3, MarksTyped DEF SendMapEditEvent, TypeOK, Event, Bounded
  <2>4. CASE UNCHANGED tracked /\ nodedata' = Append(nodedata, [p |-> event.p, n |-> event.n])
    <3>1. nodedata' \in Seq(NodeData)
      BY <2>2, <2>4, QueuesTyped, QueueFacts
    <3>. QED BY <1>1, <2>1, <2>4, <3>1 DEF SendMapEditEvent, TypeOK, Event, NodeData, Bounded
  <2>. QED BY <1>1, <2>3, <2>4 DEF SendMapEditEvent
<1>2. CASE GotBlock
  <2>1. Head(answers) \in AnswerData /\ answers' \in Seq(AnswerData)
    BY <1>2, QueuesTyped, QueueFacts DEF GotBlock
  <2>. QED BY <1>2, <2>1 DEF GotBlock, TypeOK, AnswerData, Bounded
<1>3. CASE MarkSent
  BY <1>3 DEF MarkSent, TypeOK, Bounded
<1>4. CASE DeletedBlocks
  <2>1. Head(answers) \in AnswerData /\ answers' \in Seq(AnswerData)
    BY <1>4, QueuesTyped, QueueFacts DEF DeletedBlocks
  <2>2. Head(answers).p \in Block
    BY <2>1 DEF AnswerData
  <2>. QED BY <1>4, <2>1, <2>2, MarksTyped DEF DeletedBlocks, TypeOK, AnswerData, Bounded
<1>5. CASE ReceiveBlockData
  <2>1. Head(blockdata) \in BlockData /\ blockdata' \in Seq(BlockData)
    BY <1>5, QueuesTyped, QueueFacts DEF ReceiveBlockData
  <2>2. copy' \in [Block -> Content \cup {NotThere}] /\ m_queue_in' \subseteq Block
    BY <1>5, <2>1 DEF ReceiveBlockData, TypeOK, BlockData
  <2>. QED BY <1>5, <2>1, <2>2 DEF ReceiveBlockData, TypeOK, BlockData, Bounded
<1>6. CASE ReceiveAddNode
  <2>1. Head(nodedata) \in NodeData /\ nodedata' \in Seq(NodeData)
    BY <1>6, QueuesTyped, QueueFacts DEF ReceiveAddNode
  <2> DEFINE data == Head(nodedata)
  <2>2. copy' \in [Block -> Content \cup {NotThere}]
    <3>1. CASE copy[data.p] = NotThere
      BY <1>6, <3>1 DEF ReceiveAddNode, TypeOK
    <3>2. CASE copy[data.p] # NotThere
      <4>1. copy[data.p] \in Content /\ data.n \in 0 .. MaxInteracts /\ data.p \in Block
        BY <2>1, <3>2 DEF TypeOK, NodeData
      <4>2. [copy[data.p] EXCEPT !.node = data.n] \in Content
        BY <4>1 DEF Content
      <4>3. copy' = [copy EXCEPT ![data.p] = [copy[data.p] EXCEPT !.node = data.n]]
        BY <1>6, <3>2 DEF ReceiveAddNode
      <4>. QED BY <4>2, <4>3 DEF TypeOK
    <3>. QED BY <3>1, <3>2
  <2>. QED BY <1>6, <2>1, <2>2 DEF ReceiveAddNode, TypeOK, NodeData, Bounded
<1>. QED BY <1>1, <1>2, <1>3, <1>4, <1>5, <1>6

LEMMA TypesStep == Typed /\ [Next]_vars => Typed'
<1>1. ASSUME Typed, UNCHANGED vars PROVE Typed'
  BY <1>1 DEF vars, server, tracked, network, client, Typed, TypeOK, Bounded
<1>. QED BY <1>1, ServerTyped, ClientTyped, MessagesTyped DEF Next

LEMMA TypesInit == Init => Typed
<1> SUFFICES ASSUME Init PROVE Typed
  OBVIOUS
<1>1. [whole |-> 0, node |-> 0] \in Content
  BY BlockSendingAssumption DEF Content
<1>2. /\ m_unsent_map_edit_queue \in Seq(Event) /\ blockdata \in Seq(BlockData)
      /\ nodedata \in Seq(NodeData) /\ answers \in Seq(AnswerData)
  BY EmptySeq DEF Init
<1>3. MaxChanges \in Nat /\ MaxInteracts \in Nat
  BY BlockSendingAssumption
<1>4. /\ map \in [Block -> Content] /\ copy \in [Block -> Content \cup {NotThere}]
      /\ m_queue_out \in [Block -> Nat]
  BY <1>1 DEF Init
<1>5. /\ changes \in 0 .. MaxChanges /\ interacts \in 0 .. MaxInteracts
      /\ emerged \subseteq Block /\ m_blocks_sent \subseteq Block
      /\ m_blocks_sending \subseteq Block /\ m_blocks_modified \subseteq Block
      /\ m_queue_in \subseteq Block /\ unmodified \in Block \cup {NoBlock}
  BY <1>3 DEF Init
<1>6. raced \in BOOLEAN
  BY DEF Init
<1>7. TypeOK
  BY <1>2, <1>4, <1>5, <1>6 DEF TypeOK, Event, BlockData, NodeData, AnswerData
<1>8. Bounded
  BY DEF Init, Bounded
<1>. QED BY <1>7, <1>8 DEF Typed

\* Every variable keeps its type, for any number of blocks, sends, changes and
\* edits: among them the count of the meshes of a block that Client::step() has
\* still to acknowledge, which never goes below 0.
THEOREM BlockTypesCorrect == Spec => []TypeOK
<1>1. Typed => TypeOK
  BY DEF Typed
<1>. QED BY <1>1, TypesInit, TypesStep, PTL DEF Spec

-----------------------------------------------------------------------------
(* What is under way *)

LEMMA AnswerPut ==
    ASSUME TypeOK, NEW a \in AnswerData, answers' = Append(answers, a), NEW type, NEW p
    PROVE  Answered(type, p)' <=> Answered(type, p) \/ (a.type = type /\ a.p = p)
<1>1. answers \in Seq(AnswerData)
  BY QueuesTyped
<1>2. /\ \A i \in DOMAIN answers' : answers'[i] = a \/ \E j \in DOMAIN answers : answers'[i] = answers[j]
      /\ \A j \in DOMAIN answers : \E i \in DOMAIN answers' : answers'[i] = answers[j]
      /\ \E i \in DOMAIN answers' : answers'[i] = a
  BY <1>1, PutIn
<1>. QED BY <1>2 DEF Answered

LEMMA AnswerTaken ==
    ASSUME TypeOK, answers # <<>>, answers' = Tail(answers), NEW type, NEW p
    PROVE  Answered(type, p) <=>
              Answered(type, p)' \/ (Head(answers).type = type /\ Head(answers).p = p)
<1>1. answers \in Seq(AnswerData)
  BY QueuesTyped
<1>2. /\ \A i \in DOMAIN answers : answers[i] = Head(answers) \/ \E j \in DOMAIN answers' : answers[i] = answers'[j]
      /\ \A j \in DOMAIN answers' : \E i \in DOMAIN answers : answers[i] = answers'[j]
      /\ \E i \in DOMAIN answers : answers[i] = Head(answers)
  BY <1>1, TakenOut
<1>. QED BY <1>2 DEF Answered

LEMMA WirePut ==
    ASSUME TypeOK, NEW d \in BlockData, blockdata' = Append(blockdata, d), NEW p
    PROVE  OnTheWire(p)' <=> OnTheWire(p) \/ d.p = p
<1>1. blockdata \in Seq(BlockData)
  BY QueuesTyped
<1>2. /\ \A i \in DOMAIN blockdata' : blockdata'[i] = d \/ \E j \in DOMAIN blockdata : blockdata'[i] = blockdata[j]
      /\ \A j \in DOMAIN blockdata : \E i \in DOMAIN blockdata' : blockdata'[i] = blockdata[j]
      /\ \E i \in DOMAIN blockdata' : blockdata'[i] = d
  BY <1>1, PutIn
<1>. QED BY <1>2 DEF OnTheWire

LEMMA WireTaken ==
    ASSUME TypeOK, blockdata # <<>>, blockdata' = Tail(blockdata), NEW p
    PROVE  OnTheWire(p) <=> OnTheWire(p)' \/ Head(blockdata).p = p
<1>1. blockdata \in Seq(BlockData)
  BY QueuesTyped
<1>2. /\ \A i \in DOMAIN blockdata : blockdata[i] = Head(blockdata) \/ \E j \in DOMAIN blockdata' : blockdata[i] = blockdata'[j]
      /\ \A j \in DOMAIN blockdata' : \E i \in DOMAIN blockdata : blockdata[i] = blockdata'[j]
      /\ \E i \in DOMAIN blockdata : blockdata[i] = Head(blockdata)
  BY <1>1, TakenOut
<1>. QED BY <1>2 DEF OnTheWire

\* A MEET_OTHER of block p waits for AsyncRunStep.
MetOther(p) ==
    \E i \in DOMAIN m_unsent_map_edit_queue :
       m_unsent_map_edit_queue[i].type = "MEET_OTHER" /\ m_unsent_map_edit_queue[i].p = p

LEMMA EventPut ==
    ASSUME TypeOK, NEW e \in Event, NEW p,
           m_unsent_map_edit_queue' = Append(m_unsent_map_edit_queue, e)
    PROVE  MetOther(p)' <=> MetOther(p) \/ (e.type = "MEET_OTHER" /\ e.p = p)
<1>1. m_unsent_map_edit_queue \in Seq(Event)
  BY QueuesTyped
<1>2. /\ \A i \in DOMAIN m_unsent_map_edit_queue' : m_unsent_map_edit_queue'[i] = e \/ \E j \in DOMAIN m_unsent_map_edit_queue : m_unsent_map_edit_queue'[i] = m_unsent_map_edit_queue[j]
      /\ \A j \in DOMAIN m_unsent_map_edit_queue : \E i \in DOMAIN m_unsent_map_edit_queue' : m_unsent_map_edit_queue'[i] = m_unsent_map_edit_queue[j]
      /\ \E i \in DOMAIN m_unsent_map_edit_queue' : m_unsent_map_edit_queue'[i] = e
  BY <1>1, PutIn
<1>. QED BY <1>2 DEF MetOther

LEMMA EventTaken ==
    ASSUME TypeOK, NEW p, m_unsent_map_edit_queue # <<>>,
           m_unsent_map_edit_queue' = Tail(m_unsent_map_edit_queue)
    PROVE  MetOther(p) <=>
              \/ MetOther(p)'
              \/ Head(m_unsent_map_edit_queue).type = "MEET_OTHER"
                 /\ Head(m_unsent_map_edit_queue).p = p
<1>1. m_unsent_map_edit_queue \in Seq(Event)
  BY QueuesTyped
<1>2. /\ \A i \in DOMAIN m_unsent_map_edit_queue : m_unsent_map_edit_queue[i] = Head(m_unsent_map_edit_queue) \/ \E j \in DOMAIN m_unsent_map_edit_queue' : m_unsent_map_edit_queue[i] = m_unsent_map_edit_queue'[j]
      /\ \A j \in DOMAIN m_unsent_map_edit_queue' : \E i \in DOMAIN m_unsent_map_edit_queue : m_unsent_map_edit_queue[i] = m_unsent_map_edit_queue'[j]
      /\ \E i \in DOMAIN m_unsent_map_edit_queue : m_unsent_map_edit_queue[i] = Head(m_unsent_map_edit_queue)
  BY <1>1, TakenOut
<1>. QED BY <1>2 DEF MetOther

\* An answer that was coming still is.
LEMMA UnderwaySame ==
    ASSUME UNCHANGED <<blockdata, m_queue_in, m_queue_out, answers, unmodified>>, NEW p
    PROVE  Underway(p)' <=> Underway(p)
  BY DEF Underway, OnTheWire, Answered

LEMMA NewestIs == \A p : Newest(p) = NewestOf(blockdata, copy, p)
  BY DEF Newest, NewestOf

LEMMA NewestIsNext == \A p : Newest(p)' = NewestOf(blockdata', copy', p)
  BY DEF Newest, NewestOf

\* A block that was current still is.
LEMMA CurrentSame ==
    ASSUME UNCHANGED <<blockdata, copy>>, NEW p, map'[p].whole = map[p].whole
    PROVE  Current(p)' <=> Current(p)
  BY NewestIs, NewestIsNext DEF Current

-----------------------------------------------------------------------------
(* No step takes an old block for sent *)

LEMMA Pending == \A p : ChangePending(p) <=> p \in emerged \/ MetOther(p)
  BY DEF ChangePending, MetOther

LEMMA PendingNext == \A p : ChangePending(p)' <=> p \in emerged' \/ MetOther(p)'
  BY DEF ChangePending, MetOther

\* A block is set not sent: nothing is claimed of it any more.  The others are as
\* before.
LEMMA NotSentKept ==
    ASSUME IInv, NEW p \in Block, SetBlockNotSent(p),
           UNCHANGED <<m_queue_in, m_queue_out, unmodified>>, UNCHANGED blockdata,
           unmodified = NoBlock \/ raced' \/ (~ raced /\ unmodified # p),
           \A b \in Block : Answered("GOTBLOCKS", b)' <=> Answered("GOTBLOCKS", b),
           \A b \in Block \ {p} : Excused(b) \/ Current(b) => Excused(b)' \/ Current(b)'
    PROVE  Heeded' /\ SentCurrent'
<1>. USE DEF IInv, SetBlockNotSent
<1>1. \A b \in Block : Underway(b)' <=> Underway(b)
  BY DEF Underway, OnTheWire
<1>2. m_blocks_sent \subseteq Block /\ m_blocks_sending \subseteq Block
  BY DEF TypeOK
<1>3. Heeded'
  BY <1>1, <1>2 DEF Heeded
<1>4. SentCurrent'
  BY <1>2 DEF SentCurrent
<1>. QED BY <1>3, <1>4

\* The marks stay as they are.
LEMMA MarksKept ==
    ASSUME IInv, UNCHANGED tracked,
           unmodified' # NoBlock =>
              raced' \/ unmodified' \notin m_blocks_modified,
           \A b \in m_blocks_sending : Underway(b) => Underway(b)',
           \A b \in Block : Underway(b)' => Underway(b),
           \A b \in Block : Excused(b) \/ Current(b) => Excused(b)' \/ Current(b)'
    PROVE  Heeded' /\ SentCurrent'
<1>. USE DEF IInv, tracked
<1>1. Heeded'
  BY DEF Heeded
<1>2. m_blocks_sent \subseteq Block /\ m_blocks_sending \subseteq Block
  BY DEF TypeOK
<1>3. SentCurrent'
  BY <1>2 DEF SentCurrent
<1>. QED BY <1>1, <1>3

\* A change of one block leaves the other blocks alone.
LEMMA WholeOfOthers ==
    ASSUME TypeOK, NEW p \in Block, Change(p) \/ Edit(p) \/ UNCHANGED map
    PROVE  /\ \A b \in Block \ {p} : map'[b].whole = map[b].whole
           /\ Edit(p) => map'[p].whole = map[p].whole
<1>1. map \in [Block -> Content]
  BY DEF TypeOK
<1>2. ASSUME Change(p) PROVE \A b \in Block \ {p} : map'[b].whole = map[b].whole
  BY <1>1, <1>2 DEF Change
<1>3. ASSUME Edit(p)
      PROVE  map'[p].whole = map[p].whole /\ \A b \in Block \ {p} : map'[b].whole = map[b].whole
  BY <1>1, <1>3 DEF Edit, Content
<1>. QED BY <1>2, <1>3

\* Changes, and sending a block: a block that changed is marked as modified, one that is sent is current.
LEMMA ServerSafe ==
    ASSUME IInv, NEW p \in Block, ServerStep(p) PROVE Heeded' /\ SentCurrent'
<1>. USE DEF IInv, server, tracked, network, client, EnvFree
<1>1. CASE TransformLiquids(p)
  <2>1. \A b \in Block \ {p} : Current(b)' <=> Current(b)
    BY <1>1, WholeOfOthers, CurrentSame DEF TransformLiquids
  <2>2. \A b : Excused(b)' <=> Excused(b)
    BY <1>1 DEF TransformLiquids, Excused, ChangePending, Answered
  <2>3. \A b : Answered("GOTBLOCKS", b)' <=> Answered("GOTBLOCKS", b)
    BY <1>1 DEF TransformLiquids, Answered
  <2>. QED BY <1>1, <2>1, <2>2, <2>3, NotSentKept DEF TransformLiquids
<1>2. CASE ChangeByScript(p)
  <2>1. \A b \in Block \ {p} : Current(b)' <=> Current(b)
    BY <1>2, WholeOfOthers, CurrentSame DEF ChangeByScript
  <2>2. [type |-> "MEET_OTHER", p |-> p, n |-> 0] \in Event
    BY BlockSendingAssumption DEF Event
  <2>3. \A b : MetOther(b)' <=> MetOther(b) \/ b = p
    BY <1>2, <2>2, EventPut DEF ChangeByScript
  <2>4. \A b \in Block : Excused(b) => Excused(b)'
    BY <1>2, <2>3, Pending, PendingNext DEF ChangeByScript, Excused, Answered
  <2>5. Excused(p)'
    BY <2>3, PendingNext DEF Excused
  <2>6. \A b : Underway(b)' <=> Underway(b)
    BY <1>2, UnderwaySame DEF ChangeByScript
  <2>. QED BY <1>2, <2>1, <2>4, <2>5, <2>6, MarksKept DEF ChangeByScript
<1>3. ASSUME Edit(p), EnvFree,
             UNCHANGED <<emerged, unmodified, network, client, raced, changes>>
      PROVE  \A b \in Block : Excused(b) \/ Current(b) => Excused(b)' \/ Current(b)'
  <2>1. \A b \in Block : Current(b)' <=> Current(b)
    BY <1>3, WholeOfOthers, CurrentSame
  <2>2. [type |-> "MEET_ADDNODE", p |-> p, n |-> map[p].node + 1] \in Event
    BY <1>3, EditTyped DEF Typed
  <2>3. \A b : MetOther(b)' <=> MetOther(b)
    BY <1>3, <2>2, EventPut DEF Edit
  <2>4. \A b \in Block : Excused(b) => Excused(b)'
    BY <1>3, <2>3, Pending, PendingNext DEF Excused, Answered
  <2>. QED BY <2>1, <2>4
<1>4. CASE EditNode(p)
  <2>1. \A b : Underway(b)' <=> Underway(b)
    BY <1>4, UnderwaySame DEF EditNode
  <2>. QED BY <1>3, <1>4, <2>1, MarksKept DEF EditNode
<1>5. CASE Dig(p)
  <2>1. \A b \in Block : Excused(b) \/ Current(b) => Excused(b)' \/ Current(b)'
    BY <1>3, <1>5 DEF Dig
  <2>2. \A b : /\ Underway(b)' <=> Underway(b)
               /\ Answered("GOTBLOCKS", b)' <=> Answered("GOTBLOCKS", b)
    BY <1>5, UnderwaySame DEF Dig, Answered
  <2>3. CASE SetBlockNotSent(p)
    BY <1>5, <2>1, <2>2, <2>3, NotSentKept DEF Dig
  <2>4. CASE UNCHANGED tracked
    BY <1>5, <2>1, <2>2, <2>4, MarksKept DEF Dig
  <2>. QED BY <1>5, <2>3, <2>4 DEF Dig, ResendBlockIfOnWire
<1>6. CASE DigInVain(p)
  <2>1. \A b : Current(b)' <=> Current(b)
    BY <1>6, CurrentSame DEF DigInVain
  <2>2. \A b : /\ Excused(b)' <=> Excused(b)
               /\ Answered("GOTBLOCKS", b)' <=> Answered("GOTBLOCKS", b)
    BY <1>6 DEF DigInVain, Excused, ChangePending, Answered
  <2>. QED BY <1>6, <2>1, <2>2, NotSentKept DEF DigInVain
<1>7. CASE FinishGen(p)
  <2>1. \A b \in Block \ {p} : Current(b)' <=> Current(b)
    BY <1>7, WholeOfOthers, CurrentSame DEF FinishGen
  <2>2. \A b \in Block : Excused(b) => Excused(b)'
    BY <1>7 DEF FinishGen, Excused, ChangePending, Answered
  <2>3. Excused(p)'
    BY <1>7 DEF FinishGen, Excused, ChangePending
  <2>4. \A b : Underway(b)' <=> Underway(b)
    BY <1>7, UnderwaySame DEF FinishGen
  <2>. QED BY <1>7, <2>1, <2>2, <2>3, <2>4, MarksKept DEF FinishGen
<1>8. CASE SetBlocksNotSent(p)
  <2>1. \A b : Current(b)' <=> Current(b)
    BY <1>8, CurrentSame DEF SetBlocksNotSent
  <2>2. \A b \in Block \ {p} : Excused(b) => Excused(b)'
    BY <1>8 DEF SetBlocksNotSent, Excused, ChangePending, Answered
  <2>3. \A b : Answered("GOTBLOCKS", b)' <=> Answered("GOTBLOCKS", b)
    BY <1>8 DEF SetBlocksNotSent, Answered
  <2>4. unmodified = NoBlock \/ raced' \/ (~ raced /\ unmodified # p)
    BY <1>8 DEF SetBlocksNotSent
  <2>. QED BY <1>8, <2>1, <2>2, <2>3, <2>4, NotSentKept DEF SetBlocksNotSent
<1>9. CASE SendBlock(p)
  <2>1. [p |-> p, content |-> map[p]] \in BlockData /\ map[p] \in Content
    BY DEF TypeOK, BlockData
  <2>2. blockdata \in Seq(BlockData)
    BY QueuesTyped
  <2>3. \A b \in Block : Newest(b)' = IF b = p THEN map[p] ELSE Newest(b)
    BY <1>9, <2>1, <2>2, NewestPut, NewestIs, NewestIsNext DEF SendBlock
  <2>4. Current(p)' /\ \A b \in Block \ {p} : Current(b)' <=> Current(b)
    BY <1>9, <2>1, <2>3, ContentIsThere DEF SendBlock, Current
  <2>5. \A b : Excused(b)' <=> Excused(b)
    BY <1>9 DEF SendBlock, Excused, ChangePending, Answered
  <2>6. \A b : OnTheWire(b)' <=> OnTheWire(b) \/ b = p
    BY <1>9, <2>1, WirePut DEF SendBlock
  <2>7. \A b : Underway(b)' <=> Underway(b) \/ b = p
    BY <1>9, <2>6 DEF SendBlock, Underway, Answered
  <2>8. Heeded'
    BY <1>9, <2>7 DEF SendBlock, SentBlock, Heeded
  <2>9. SentCurrent'
    BY <1>9, <2>4, <2>5 DEF SendBlock, SentBlock, SentCurrent, TypeOK
  <2>. QED BY <2>8, <2>9
<1>. QED BY <1>1, <1>2, <1>4, <1>5, <1>6, <1>7, <1>8, <1>9 DEF ServerStep

\* The client passes an answer on, or drops a block and says so.
LEMMA ClientSafe ==
    ASSUME IInv, NEW p \in Block, ClientStep(p) PROVE Heeded' /\ SentCurrent'
<1>. USE DEF IInv, server, tracked, network, client, EnvFree
<1>1. CASE DoUpdate(p)
  <2>1. m_queue_out' = [m_queue_out EXCEPT ![p] = @ + 1] /\ m_queue_out \in [Block -> Nat]
    BY <1>1 DEF DoUpdate, TypeOK
  <2>2. \A b \in Block : Underway(b)' <=> Underway(b)
    BY <1>1, <2>1 DEF DoUpdate, Underway, OnTheWire, Answered
  <2>3. \A b : Excused(b)' <=> Excused(b)
    BY <1>1 DEF DoUpdate, Excused, ChangePending, Answered
  <2>4. \A b : Current(b)' <=> Current(b)
    BY <1>1, CurrentSame DEF DoUpdate
  <2>. QED BY <1>1, <2>2, <2>3, <2>4, MarksKept DEF DoUpdate, Heeded, TypeOK
<1>2. CASE sendGotBlocks(p)
  <2>1. /\ m_queue_out' = [m_queue_out EXCEPT ![p] = @ - 1] /\ m_queue_out \in [Block -> Nat]
        /\ m_queue_out[p] > 0
    BY <1>2 DEF sendGotBlocks, TypeOK
  <2>2. [type |-> "GOTBLOCKS", p |-> p] \in AnswerData
    BY DEF AnswerData
  <2>3. \A type, b : Answered(type, b)' <=> Answered(type, b) \/ (type = "GOTBLOCKS" /\ b = p)
    BY <1>2, <2>2, AnswerPut DEF sendGotBlocks
  <2>4. \A b \in Block : Underway(b)' <=> Underway(b)
    BY <1>2, <2>1, <2>3 DEF sendGotBlocks, Underway, OnTheWire
  <2>5. \A b : Excused(b)' <=> Excused(b)
    BY <1>2, <2>3 DEF sendGotBlocks, Excused, ChangePending
  <2>6. \A b : Current(b)' <=> Current(b)
    BY <1>2, CurrentSame DEF sendGotBlocks
  <2>. QED BY <1>2, <2>4, <2>5, <2>6, MarksKept DEF sendGotBlocks, Heeded, TypeOK
<1>3. CASE sendDeletedBlocks(p)
  <2>1. [type |-> "DELETEDBLOCKS", p |-> p] \in AnswerData
    BY DEF AnswerData
  <2>2. \A type, b : Answered(type, b)' <=> Answered(type, b) \/ (type = "DELETEDBLOCKS" /\ b = p)
    BY <1>3, <2>1, AnswerPut DEF sendDeletedBlocks
  <2>3. \A b \in Block : Underway(b)' <=> Underway(b)
    BY <1>3, <2>2 DEF sendDeletedBlocks, Underway, OnTheWire
  <2>4. \A b \in Block : Excused(b)' <=> Excused(b) \/ b = p
    BY <1>3, <2>2 DEF sendDeletedBlocks, Excused, ChangePending
  <2>5. \A b \in Block \ {p} : Newest(b)' = Newest(b)
    BY <1>3 DEF sendDeletedBlocks, Newest, TypeOK
  <2>6. \A b \in Block \ {p} : Current(b)' <=> Current(b)
    BY <1>3, <2>5 DEF sendDeletedBlocks, Current
  <2>. QED BY <1>3, <2>3, <2>4, <2>6, MarksKept DEF sendDeletedBlocks, Heeded, TypeOK
<1>. QED BY <1>1, <1>2, <1>3 DEF ClientStep

\* SendMapEditEvent: a change of a whole block is told.
LEMMA EventSafe ==
    ASSUME IInv, SendMapEditEvent PROVE Heeded' /\ SentCurrent'
<1>. USE DEF IInv, server, tracked, network, client, EnvFree
<1> DEFINE event == Head(m_unsent_map_edit_queue)
<1>1. event \in Event /\ event.p \in Block
  <2>1. event \in Event
    BY QueuesTyped, QueueFacts DEF SendMapEditEvent
  <2>. QED BY <2>1 DEF Event
<1>2. \A b : Current(b)' <=> Current(b)
  BY CurrentSame DEF SendMapEditEvent
<1>3. \A b : MetOther(b) <=> MetOther(b)' \/ (event.type = "MEET_OTHER" /\ event.p = b)
  BY EventTaken DEF SendMapEditEvent
<1>4. \A b : event.type # "MEET_OTHER" \/ event.p # b => (Excused(b)' <=> Excused(b))
  BY <1>3, Pending, PendingNext DEF SendMapEditEvent, Excused, Answered
<1>5. \A b : /\ Underway(b)' <=> Underway(b)
             /\ Answered("GOTBLOCKS", b)' <=> Answered("GOTBLOCKS", b)
  BY UnderwaySame DEF SendMapEditEvent, Answered
<1>6. CASE SetBlockNotSent(event.p)
  BY <1>1, <1>2, <1>4, <1>5, <1>6, NotSentKept DEF SendMapEditEvent
<1>7. CASE event.type = "MEET_ADDNODE" /\ UNCHANGED tracked
  BY <1>2, <1>4, <1>5, <1>7, MarksKept DEF SendMapEditEvent
<1>. QED BY <1>6, <1>7 DEF SendMapEditEvent

\* The test of m_blocks_modified: an answer of an old version finds the block in it.
LEMMA GotBlockSafe ==
    ASSUME IInv, GotBlock PROVE Heeded' /\ SentCurrent'
<1>. USE DEF IInv, server, tracked, network, client, EnvFree
<1> DEFINE a == Head(answers)
<1>1. a \in AnswerData /\ a.p \in Block /\ a.p # NoBlock
  <2>1. a \in AnswerData
    BY QueuesTyped, QueueFacts DEF GotBlock
  <2>. QED BY <2>1, BlockSendingAssumption DEF AnswerData
<1>2. \A type, b : Answered(type, b) <=> Answered(type, b)' \/ (type = "GOTBLOCKS" /\ b = a.p)
  BY AnswerTaken DEF GotBlock
<1>3. \A b : Excused(b)' <=> Excused(b)
  BY <1>2 DEF GotBlock, Excused, ChangePending
<1>4. \A b : Current(b)' <=> Current(b)
  BY CurrentSame DEF GotBlock
<1>5. \A b \in m_blocks_sending : b # NoBlock
  BY BlockSendingAssumption DEF TypeOK
<1>6. \A b \in m_blocks_sending : Underway(b) => Underway(b)'
  BY <1>2, <1>5 DEF GotBlock, Underway, OnTheWire, Heeded
<1>7. \A b \in Block : b # NoBlock
  BY BlockSendingAssumption
<1>8. \A b \in Block : Underway(b)' => Underway(b)
  BY <1>1, <1>2, <1>7 DEF GotBlock, Underway, OnTheWire
<1>. QED BY <1>3, <1>4, <1>6, <1>8, MarksKept DEF GotBlock

\* What is marked as sent was unmodified at the test, and is still, unless a thread raced.
LEMMA MarkSentSafe ==
    ASSUME IInv, MarkSent PROVE Heeded' /\ SentCurrent'
<1>. USE DEF IInv, server, network, client
<1>1. unmodified \in Block /\ unmodified # NoBlock /\ unmodified' = NoBlock
  BY DEF MarkSent, TypeOK
<1>2. \A b \in Block : b # NoBlock
  BY BlockSendingAssumption
<1>3. \A b \in Block : Underway(b) <=> Underway(b)' \/ b = unmodified
  BY <1>1, <1>2 DEF MarkSent, Underway, OnTheWire, Answered
<1>4. \A b : Excused(b)' <=> Excused(b)
  BY DEF MarkSent, Excused, ChangePending, Answered
<1>5. \A b : Current(b)' <=> Current(b)
  BY CurrentSame DEF MarkSent
<1>6. unmodified \in m_blocks_sent \cup m_blocks_sending \/ raced
  BY <1>1, <1>3 DEF Heeded
<1>7. Excused(unmodified) \/ Current(unmodified)
  BY <1>6 DEF SentCurrent, Excused
<1>8. m_blocks_sent \subseteq Block /\ m_blocks_sending \subseteq Block
  BY DEF TypeOK
<1>9. Heeded'
  BY <1>1, <1>3, <1>8 DEF MarkSent, Heeded
<1>10. SentCurrent'
  BY <1>4, <1>5, <1>7 DEF MarkSent, SentCurrent
<1>. QED BY <1>9, <1>10

\* What the client dropped is not sent any more.
LEMMA DeletedBlocksSafe ==
    ASSUME IInv, DeletedBlocks PROVE Heeded' /\ SentCurrent'
<1>. USE DEF IInv, server, tracked, network, client, EnvFree
<1> DEFINE a == Head(answers)
<1>1. a \in AnswerData /\ a.p \in Block
  <2>1. a \in AnswerData
    BY QueuesTyped, QueueFacts DEF DeletedBlocks
  <2>. QED BY <2>1 DEF AnswerData
<1>2. \A type, b : Answered(type, b) <=> Answered(type, b)' \/ (type = "DELETEDBLOCKS" /\ b = a.p)
  BY AnswerTaken DEF DeletedBlocks
<1>3. \A b \in Block \ {a.p} : Excused(b)' <=> Excused(b)
  BY <1>2 DEF DeletedBlocks, Excused, ChangePending
<1>4. \A b : Current(b)' <=> Current(b)
  BY CurrentSame DEF DeletedBlocks
<1>5. \A b : Answered("GOTBLOCKS", b)' <=> Answered("GOTBLOCKS", b)
  BY <1>2
<1>. QED BY <1>1, <1>3, <1>4, <1>5, NotSentKept DEF DeletedBlocks

\* The client takes over a block, or an edit of a node.
LEMMA ReceiveSafe ==
    ASSUME IInv, ReceiveBlockData \/ ReceiveAddNode PROVE Heeded' /\ SentCurrent'
<1>. USE DEF IInv, server, tracked, network, client
<1>1. CASE ReceiveBlockData
  <2> DEFINE data == Head(blockdata)
  <2>1. data \in BlockData /\ data.p \in Block /\ blockdata \in Seq(BlockData)
    <3>1. data \in BlockData /\ blockdata \in Seq(BlockData)
      BY <1>1, QueuesTyped, QueueFacts DEF ReceiveBlockData
    <3>. QED BY <3>1 DEF BlockData
  <2>2. \A b : OnTheWire(b) <=> OnTheWire(b)' \/ b = data.p
    BY <1>1, WireTaken DEF ReceiveBlockData
  <2>3. \A b \in Block : Underway(b)' <=> Underway(b)
    BY <1>1, <2>2 DEF ReceiveBlockData, Underway, Answered
  <2>4. \A b : Excused(b)' <=> Excused(b)
    BY <1>1 DEF ReceiveBlockData, Excused, ChangePending, Answered
  <2>5. \A b \in Block : copy'[b] = IF data.p = b THEN data.content ELSE copy[b]
    BY <1>1, <2>1 DEF ReceiveBlockData, TypeOK
  <2>6. \A b \in Block : Newest(b)' = Newest(b)
    BY <1>1, <2>1, <2>5, NewestTaken, NewestIs, NewestIsNext DEF ReceiveBlockData
  <2>7. \A b \in Block : Current(b)' <=> Current(b)
    BY <1>1, <2>6 DEF ReceiveBlockData, Current
  <2>. QED BY <1>1, <2>3, <2>4, <2>7, MarksKept DEF ReceiveBlockData, Heeded, TypeOK
<1>2. CASE ReceiveAddNode
  <2> DEFINE data == Head(nodedata)
  <2>1. data \in NodeData /\ data.p \in Block
    <3>1. data \in NodeData
      BY <1>2, QueuesTyped, QueueFacts DEF ReceiveAddNode
    <3>. QED BY <3>1 DEF NodeData
  <2>2. \A b : Underway(b)' <=> Underway(b)
    BY <1>2, UnderwaySame DEF ReceiveAddNode
  <2>3. \A b : Excused(b)' <=> Excused(b)
    BY <1>2 DEF ReceiveAddNode, Excused, ChangePending, Answered
  <2>4. \A b \in Block : /\ copy'[b] = NotThere <=> copy[b] = NotThere
                         /\ copy[b] # NotThere => copy'[b].whole = copy[b].whole
    <3>1. CASE copy[data.p] = NotThere
      BY <1>2, <3>1 DEF ReceiveAddNode
    <3>2. CASE copy[data.p] # NotThere
      <4>1. copy[data.p] \in Content
        BY <2>1, <3>2 DEF TypeOK
      <4>2. copy' = [copy EXCEPT ![data.p] = [copy[data.p] EXCEPT !.node = data.n]]
        BY <1>2, <3>2 DEF ReceiveAddNode
      <4>3. data.n \in 0 .. MaxInteracts
        BY <2>1 DEF NodeData
      <4>4. /\ [copy[data.p] EXCEPT !.node = data.n] \in Content
            /\ [copy[data.p] EXCEPT !.node = data.n].whole = copy[data.p].whole
        BY <4>1, <4>3 DEF Content
      <4>5. [copy[data.p] EXCEPT !.node = data.n] # NotThere
        BY <4>4, ContentIsThere
      <4>. QED BY <3>2, <4>2, <4>4, <4>5 DEF TypeOK
    <3>. QED BY <3>1, <3>2
  <2>5. \A b \in Block : Current(b)' <=> Current(b)
    <3> SUFFICES ASSUME NEW b \in Block PROVE Current(b)' <=> Current(b)
      OBVIOUS
    <3>1. blockdata' = blockdata /\ map' = map
      BY <1>2 DEF ReceiveAddNode
    <3>2. CASE OnTheWire(b)
      <4>1. Newest(b)' = Newest(b)
        BY <3>1, <3>2 DEF Newest, OnTheWire
      <4>. QED BY <3>1, <4>1 DEF Current
    <3>3. CASE ~ OnTheWire(b)
      <4>1. Newest(b) = copy[b] /\ Newest(b)' = copy'[b]
        BY <3>1, <3>3, NoneIsNewest, NewestIs, NewestIsNext DEF OnTheWire
      <4>. QED BY <2>4, <3>1, <4>1 DEF Current
    <3>. QED BY <3>2, <3>3
  <2>. QED BY <1>2, <2>2, <2>3, <2>5, MarksKept DEF ReceiveAddNode, Heeded, TypeOK
<1>. QED BY <1>1, <1>2

\* Each step keeps the invariant ...
LEMMA StepKeeps == IInv /\ [Next]_vars => IInv'
<1> SUFFICES ASSUME IInv, [Next]_vars PROVE IInv'
  OBVIOUS
<1>1. Typed'
  BY TypesStep DEF IInv, Typed
<1>2. ASSUME UNCHANGED vars PROVE Heeded' /\ SentCurrent'
  <2>1. \A b : Current(b)' <=> Current(b)
    BY <1>2, CurrentSame DEF vars, client, network, server
  <2>2. \A b : Underway(b)' <=> Underway(b)
    BY <1>2, UnderwaySame DEF vars, client, network, server
  <2>3. \A b : Excused(b)' <=> Excused(b)
    BY <1>2 DEF vars, client, network, server, Excused, ChangePending, Answered
  <2>. QED BY <1>2, <2>1, <2>2, <2>3, MarksKept DEF vars, tracked, IInv, Heeded, TypeOK
<1>3. Heeded' /\ SentCurrent'
  BY <1>2, ServerSafe, ClientSafe, EventSafe, GotBlockSafe, MarkSentSafe, DeletedBlocksSafe,
     ReceiveSafe DEF Next
<1>. QED BY <1>1, <1>3 DEF IInv, Typed

\* ... which holds at first.
LEMMA InitHolds == Init => IInv
<1> SUFFICES ASSUME Init PROVE IInv
  OBVIOUS
<1>1. Typed
  BY TypesInit
<1>2. \A b \in Block : ~ Underway(b)
  BY BlockSendingAssumption DEF Init, Underway, OnTheWire, Answered
<1>. QED BY <1>1, <1>2 DEF Init, IInv, Typed, Heeded, SentCurrent

LEMMA InvariantHolds == Spec => []IInv
BY InitHolds, StepKeeps, PTL DEF Spec

\* The server (RemoteClient) takes a block for sent only when the client has it, or is
\* about to get it, with all changes of the block as a whole, unless somebody is yet
\* to tell it of a change or the client of having unloaded it: SetBlockNotSent and
\* SentBlock keep m_blocks_modified such that GotBlock takes no acknowledgement of an
\* old version for one of the new.
THEOREM SentBlocksAreCurrent == Spec => []SentBlocksCurrent
<1>1. IInv => SentBlocksCurrent
  BY DEF IInv, SentCurrent, SentBlocksCurrent, Excused, Current
<1>. QED BY <1>1, InvariantHolds, PTL

\* Whatever changes, gets lost to the player's sight or is made anew, a block counted
\* in m_blocks_sending has its acknowledgement coming, and GotBlock will heed it.
THEOREM SendingEnds == Spec => []SendingIsAnswered
<1>1. IInv => SendingIsAnswered
  BY DEF IInv, Heeded, Underway, OnTheWire, SendingIsAnswered
<1>. QED BY <1>1, InvariantHolds, PTL
=============================================================================
