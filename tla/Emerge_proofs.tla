---------------------------- MODULE Emerge_proofs ----------------------------
(***************************************************************************)
(* For any number of threads, peers, blocks and calls: the queues match,   *)
(* clients are kept current, and a script is answered once for each block. *)
(***************************************************************************)
EXTENDS Emerge, FiniteSetTheorems, SequenceTheorems, WellFoundedInduction, TLAPS

-----------------------------------------------------------------------------
(* The inductive invariant *)

Asker == Peer \cup {PEER_ID_INEXISTENT}

\* The queues of the threads hold each entry of the manager once.
Matched ==
    /\ \A t \in Thread : \A i \in DOMAIN m_block_queue[t] :
          m_block_queue[t][i] \in DOMAIN m_blocks_enqueued
    /\ \A t, u \in Thread :
          \A i \in DOMAIN m_block_queue[t], j \in DOMAIN m_block_queue[u] :
             m_block_queue[t][i] = m_block_queue[u][j] => t = u /\ i = j
    /\ \A p \in DOMAIN m_blocks_enqueued :
          \E t \in Thread : \E i \in DOMAIN m_block_queue[t] : m_block_queue[t][i] = p

Idle == {"new", "loop", "wait", "ended"}

\* The blocks that are generated or were until they were deleted.
Known == generated \cup deleted

\* What a thread works on fits the place where it is.
ItemsFit ==
    \A t \in Thread :
       /\ t \notin Started => pc[t] = "new"
       /\ pc[t] \in Idle => item[t] = NoItem
       /\ pc[t] \notin Idle => item[t].pos \in Pos
       /\ pc[t] \in {"get", "make"} => item[t].modified_blocks = {}
       /\ pc[t] \in {"store", "report", "delete"} => item[t].callbacks # <<>>
       /\ pc[t] \notin Idle \cup {"get", "make"} /\ item[t].action # "CANCELLED" =>
             item[t].pos \in Known

\* What is sent is generated, chunks are generated as a whole, and initBlockMake()
\* created all the blocks of the chunk, but for those deleted.
WorldFits ==
    /\ \A q \in Peer : held[q] \subseteq Known
    /\ \A p \in generated : ChunkOf(p) \subseteq Known
    /\ \A t \in Started : pc[t] = "make" => ChunkOf(item[t].pos) \subseteq there \cup deleted
    /\ nthreads = 1 => \A t \in Started :
          pc[t] = "make" /\ ChunkOf(item[t].pos) \cap deleted = {}
             => ChunkOf(item[t].pos) \cap generated = {}

Has(s, c) == \E i \in DOMAIN s : s[i] = c
Distinct(s) == \A i, j \in DOMAIN s : s[i] = s[j] => i = j

\* The callback of call c for block p waits to be queued, is in an entry of the
\* manager, is with a thread, or was run.
Waits(c, p) == p \in emerging /\ c = Len(calls)
Entered(c, p) == p \in DOMAIN m_blocks_enqueued /\ Has(m_blocks_enqueued[p].callbacks, c)
Works(t, c, p) == item[t].pos = p /\ Has(item[t].callbacks, c)
AnsweredBlocks(c) == {calls[c].answers[i].pos : i \in DOMAIN calls[c].answers}
Runs(t, c) == item[t].callbacks # <<>> /\ Head(item[t].callbacks) = c

\* It is at one of these places only.
OnePlace ==
    \A c \in DOMAIN calls, p \in Pos :
       /\ Waits(c, p) => ~ Entered(c, p)
       /\ Waits(c, p) \/ Entered(c, p) => p \notin AnsweredBlocks(c)
       /\ \A t \in Thread : Works(t, c, p) =>
             /\ ~ Waits(c, p) /\ ~ Entered(c, p)
             /\ p \in AnsweredBlocks(c) <=> pc[t] = "delete" /\ Runs(t, c)
             /\ \A u \in Thread : Works(u, c, p) => u = t

\* A callback is one of a call that asked for the block, and not there twice.
CallbacksFit ==
    /\ emerging # {} => calls # <<>> /\ emerging \subseteq calls[Len(calls)].area
    /\ \A p \in DOMAIN m_blocks_enqueued :
          /\ Distinct(m_blocks_enqueued[p].callbacks)
          /\ \A c \in 1 .. MaxCalls : Has(m_blocks_enqueued[p].callbacks, c) =>
                c \in DOMAIN calls /\ p \in calls[c].area
    /\ \A t \in Thread :
          /\ Distinct(item[t].callbacks)
          /\ \A c \in 1 .. MaxCalls : Has(item[t].callbacks, c) =>
                c \in DOMAIN calls /\ item[t].pos \in calls[c].area

AnswersFit ==
    \A c \in DOMAIN calls :
       /\ AnsweredBlocks(c) \subseteq calls[c].area
       /\ Cardinality(AnsweredBlocks(c)) = Len(calls[c].answers)

\* The blocks of a call whose callback has not yet stored the refcount.
Left(c) ==
    {p \in calls[c].area \ AnsweredBlocks(c) :
       ~ \E t \in Thread : pc[t] = "report" /\ Runs(t, c) /\ item[t].pos = p}

\* However the threads race, the refcount never falls below what is left.
RefcountsFit ==
    /\ \A c \in DOMAIN calls : /\ Cardinality(Left(c)) =< calls[c].refcount
                               /\ calls[c].refcount =< Cardinality(calls[c].area)
    /\ \A t \in Thread, c \in DOMAIN calls : pc[t] = "store" /\ Runs(t, c) =>
          Cardinality(Left(c)) =< loaded[t] /\ loaded[t] =< Cardinality(calls[c].area)

\* With one thread it is what is left.
OneThreadCounts ==
    nthreads = 1 =>
       /\ \A c \in DOMAIN calls :
             /\ calls[c].refcount = Cardinality(Left(c))
             /\ \A i \in DOMAIN calls[c].answers :
                   calls[c].answers[i].calls_remaining = Cardinality(calls[c].area) - i
             /\ calls[c].freed \in {0, 1}
             /\ calls[c].freed = 1 <=> /\ AnsweredBlocks(c) = calls[c].area
                                       /\ \A t \in Thread : ~ Has(item[t].callbacks, c)
       /\ \A t \in Thread, c \in DOMAIN calls :
             pc[t] = "store" /\ Runs(t, c) => loaded[t] = calls[c].refcount

IInv ==
    /\ TypeOK /\ Matched /\ PeerCountsRight
    /\ ItemsFit /\ WorldFits /\ ClientsCurrent
    /\ OnePlace /\ CallbacksFit /\ AnswersFit /\ RefcountsFit /\ OneThreadCounts

-----------------------------------------------------------------------------
(* Numbers and queues *)

\* Every set of numbers that is not empty has a least one.
LEMMA LeastNumber ==
    ASSUME NEW S \in SUBSET Nat, S # {} PROVE \E n \in S : \A m \in S : n =< m
<1> DEFINE R == OpToRel(<, Nat)
<1>1. \E n \in S : \A m \in S : ~ (<<m, n>> \in R)
  BY NatLessThanWellFounded, WFMin
<1>2. \A m, n \in Nat : m < n => <<m, n>> \in R
  BY DEF OpToRel
<1> HIDE DEF R
<1>3. PICK n \in S : \A m \in S : ~ (<<m, n>> \in R)
  BY <1>1
<1>4. \A m \in S : ~ (m < n)
  BY <1>2, <1>3
<1>. QED BY <1>4

\* A queue: its length, its head and tail, and what an append adds.
LEMMA QueueFacts ==
    ASSUME NEW S, NEW q \in Seq(S)
    PROVE  /\ Len(q) \in Nat /\ DOMAIN q = 1 .. Len(q) /\ \A i \in 1 .. Len(q) : q[i] \in S
           /\ \A e \in S : /\ Append(q, e) \in Seq(S)
                           /\ DOMAIN Append(q, e) = 1 .. Len(q) + 1
                           /\ Append(q, e)[Len(q) + 1] = e
                           /\ \A i \in 1 .. Len(q) : Append(q, e)[i] = q[i]
           /\ q # <<>> => /\ Len(q) > 0 /\ Head(q) = q[1] /\ Head(q) \in S
                         /\ Tail(q) \in Seq(S)
                         /\ DOMAIN Tail(q) = 1 .. Len(q) - 1
                         /\ \A i \in 1 .. Len(q) - 1 : Tail(q)[i] = q[i + 1]
<1>1. Len(q) \in Nat /\ DOMAIN q = 1 .. Len(q) /\ \A i \in 1 .. Len(q) : q[i] \in S
  BY LenProperties, ElementOfSeq
<1>2. ASSUME NEW e \in S
      PROVE  /\ Append(q, e) \in Seq(S)
             /\ DOMAIN Append(q, e) = 1 .. Len(q) + 1
             /\ Append(q, e)[Len(q) + 1] = e
             /\ \A i \in 1 .. Len(q) : Append(q, e)[i] = q[i]
  BY AppendProperties, LenProperties
<1>3. ASSUME q # <<>>
      PROVE  /\ Len(q) > 0 /\ Head(q) = q[1] /\ Head(q) \in S
             /\ Tail(q) \in Seq(S)
             /\ DOMAIN Tail(q) = 1 .. Len(q) - 1
             /\ \A i \in 1 .. Len(q) - 1 : Tail(q)[i] = q[i + 1]
  BY <1>3, HeadTailProperties, LenProperties, EmptySeq
<1>. QED BY <1>1, <1>2, <1>3

-----------------------------------------------------------------------------
(* The queues of the manager and of the threads *)

QueuesTyped ==
    /\ nthreads \in Thread
    /\ DOMAIN m_blocks_enqueued \subseteq Pos
    /\ \A p \in DOMAIN m_blocks_enqueued : m_blocks_enqueued[p] \in Entry
    /\ m_peer_queue_count \in [Asker -> Nat]
    /\ m_block_queue \in [Thread -> Seq(Pos)]

Queues == QueuesTyped /\ Matched /\ PeerCountsRight

\* getOptimalThread() finds a thread.
LEMMA OptimalThread ==
    ASSUME QueuesTyped PROVE getOptimalThread \in Thread
<1>1. /\ nthreads \in Nat \ {0} /\ Started \subseteq Thread /\ Started \in SUBSET Nat /\ 1 \in Started
      /\ MaxThreads \in Nat
  BY EmergeAssumption DEF QueuesTyped, Thread, Started
<1>2. \A t \in Thread : Len(m_block_queue[t]) \in Nat
  BY QueueFacts DEF QueuesTyped
<1> DEFINE lengths == {n \in Nat : \E t \in Started : Len(m_block_queue[t]) = n}
<1>3. lengths \in SUBSET Nat /\ lengths # {}
  BY <1>1, <1>2
<1>4. PICK n \in lengths : \A m \in lengths : n =< m
  BY <1>3, LeastNumber
<1> DEFINE shortest == {t \in Started : Len(m_block_queue[t]) = n}
<1>5. shortest \in SUBSET Nat /\ shortest # {}
  BY <1>1, <1>4
<1>6. PICK t \in shortest : \A u \in shortest : t =< u
  BY <1>5, LeastNumber
<1>7. ASSUME NEW u \in Started
      PROVE  \/ Len(m_block_queue[t]) < Len(m_block_queue[u])
             \/ Len(m_block_queue[t]) = Len(m_block_queue[u]) /\ t =< u
  <2>1. Len(m_block_queue[u]) \in Nat /\ Len(m_block_queue[t]) = n /\ n \in Nat
    BY <1>1, <1>2, <1>4, <1>6
  <2>2. n =< Len(m_block_queue[u])
    BY <1>4, <2>1
  <2>3. Len(m_block_queue[u]) = n => t =< u
    BY <1>6
  <2>. QED BY <2>1, <2>2, <2>3
<1>8. t \in Started
  BY <1>6
<1>9. getOptimalThread \in Started
  BY <1>7, <1>8 DEF getOptimalThread
<1>. QED BY <1>1, <1>9

\* m_blocks_enqueued is finite, so that entries can be counted.
LEMMA EntriesFinite ==
    ASSUME QueuesTyped
    PROVE  \A q : LET counted == {p \in DOMAIN m_blocks_enqueued :
                                     m_blocks_enqueued[p].peer_requested = q}
                  IN  IsFiniteSet(counted) /\ Cardinality(counted) \in Nat
<1>1. ASSUME NEW q
      PROVE  {p \in DOMAIN m_blocks_enqueued : m_blocks_enqueued[p].peer_requested = q}
                \in SUBSET Pos
  BY DEF QueuesTyped
<1>. QED BY <1>1, EmergeAssumption, FS_Subset, FS_CardinalityType

\* Steps that leave entries and queues alone keep them matched.
LEMMA QueuesSame ==
    ASSUME Queues, UNCHANGED <<nthreads, queues>> PROVE Queues'
  BY DEF Queues, QueuesTyped, Matched, PeerCountsRight, queues, Thread, Asker, Entry

\* pushBlockEmergeData() when the block has an entry.
LEMMA AddToEntryKept ==
    ASSUME Queues, NEW p, NEW flags \in SUBSET Flags, NEW callbacks \in Seq(1 .. MaxCalls),
           AddToEntry(p, flags, callbacks), UNCHANGED nthreads
    PROVE  Queues'
<1>. USE DEF Queues, AddToEntry
<1> DEFINE e == m_blocks_enqueued[p]
           f == [e EXCEPT !.flags = @ \cup flags, !.callbacks = @ \o callbacks]
<1>1. e \in Entry
  BY DEF QueuesTyped
<1>2. e.callbacks \o callbacks \in Seq(1 .. MaxCalls)
  BY <1>1, ConcatProperties DEF Entry
<1>3. f \in Entry /\ f.peer_requested = e.peer_requested
  BY <1>1, <1>2 DEF Entry
<1>4. m_blocks_enqueued' = [m_blocks_enqueued EXCEPT ![p] = f]
  OBVIOUS
<1> HIDE DEF f
<1>5. /\ DOMAIN m_blocks_enqueued' = DOMAIN m_blocks_enqueued
      /\ m_blocks_enqueued'[p] = f
      /\ \A b \in DOMAIN m_blocks_enqueued \ {p} : m_blocks_enqueued'[b] = m_blocks_enqueued[b]
  BY <1>4
<1>6. \A b \in DOMAIN m_blocks_enqueued :
         /\ m_blocks_enqueued'[b] \in Entry
         /\ m_blocks_enqueued'[b].peer_requested = m_blocks_enqueued[b].peer_requested
  BY <1>3, <1>5 DEF QueuesTyped
<1>7. QueuesTyped'
  BY <1>5, <1>6 DEF QueuesTyped, Thread, Asker, Entry
<1>8. Matched'
  BY <1>5 DEF Matched, Thread
<1>9. \A q : {b \in DOMAIN m_blocks_enqueued' : m_blocks_enqueued'[b].peer_requested = q}
               = {b \in DOMAIN m_blocks_enqueued : m_blocks_enqueued[b].peer_requested = q}
  BY <1>5, <1>6
<1>10. PeerCountsRight'
  BY <1>9 DEF PeerCountsRight
<1>. QED BY <1>7, <1>8, <1>10

\* pushBlockEmergeData() and getOptimalThread() when it has none.
LEMMA AddEntryKept ==
    ASSUME Queues, NEW p \in Pos, NEW q \in Asker, NEW flags \in SUBSET Flags,
           NEW callbacks \in Seq(1 .. MaxCalls),
           q \in Peer => "FORCE_QUEUE" \notin flags,
           WithinLimits(q, flags), AddEntry(p, q, flags, callbacks), UNCHANGED nthreads
    PROVE  Queues' /\ getOptimalThread \in Thread
<1>. USE DEF Queues, AddEntry
<1> DEFINE f == [peer_requested |-> q, flags |-> flags, callbacks |-> callbacks]
           u == getOptimalThread
           old == m_block_queue[u]
<1>1. u \in Thread
  BY OptimalThread
<1>2. f \in Entry /\ f.peer_requested = q
  BY DEF Entry, Asker
<1>3. /\ DOMAIN m_blocks_enqueued' = DOMAIN m_blocks_enqueued \cup {p}
      /\ m_blocks_enqueued'[p] = f
      /\ \A b \in DOMAIN m_blocks_enqueued : m_blocks_enqueued'[b] = m_blocks_enqueued[b]
      /\ p \notin DOMAIN m_blocks_enqueued
  OBVIOUS
<1>4. /\ m_block_queue \in [Thread -> Seq(Pos)]
      /\ m_block_queue' = [m_block_queue EXCEPT ![u] = Append(old, p)]
  BY DEF QueuesTyped
<1> HIDE DEF f, u
<1>5. /\ old \in Seq(Pos) /\ Append(old, p) \in Seq(Pos)
      /\ Len(old) \in Nat /\ DOMAIN old = 1 .. Len(old)
      /\ DOMAIN Append(old, p) = 1 .. Len(old) + 1 /\ Append(old, p)[Len(old) + 1] = p
      /\ \A i \in 1 .. Len(old) : Append(old, p)[i] = old[i]
  BY <1>1, <1>4, QueueFacts
<1> HIDE DEF old
<1>6. m_block_queue' \in [Thread -> Seq(Pos)]
  BY <1>1, <1>4, <1>5
<1>7. m_peer_queue_count' \in [Asker -> Nat] /\ m_peer_queue_count'[q] = m_peer_queue_count[q] + 1
      /\ \A r \in Asker \ {q} : m_peer_queue_count'[r] = m_peer_queue_count[r]
  BY DEF QueuesTyped
<1>8. QueuesTyped'
  BY <1>2, <1>3, <1>6, <1>7 DEF QueuesTyped, Thread, Asker, Entry
<1>9. Matched'
  <2>1. /\ m_block_queue'[u] = Append(old, p)
        /\ \A t \in Thread \ {u} : m_block_queue'[t] = m_block_queue[t]
        /\ m_block_queue[u] = old
    BY <1>1, <1>4 DEF old
  <2>2. ASSUME NEW t \in Thread, NEW i \in DOMAIN m_block_queue'[t]
        PROVE  \/ t = u /\ i = Len(old) + 1 /\ m_block_queue'[t][i] = p
               \/ /\ i \in DOMAIN m_block_queue[t]
                  /\ m_block_queue'[t][i] = m_block_queue[t][i]
                  /\ m_block_queue[t][i] \in DOMAIN m_blocks_enqueued
    BY <1>5, <2>1, <2>2 DEF Matched
  <2>3. \A t \in Thread : \A i \in DOMAIN m_block_queue[t] :
           i \in DOMAIN m_block_queue'[t] /\ m_block_queue'[t][i] = m_block_queue[t][i]
    BY <1>5, <2>1
  <2>4. Len(old) + 1 \in DOMAIN m_block_queue'[u] /\ m_block_queue'[u][Len(old) + 1] = p
    BY <1>5, <2>1
  <2>5. \A t \in Thread : \A i \in DOMAIN m_block_queue'[t] :
           m_block_queue'[t][i] \in DOMAIN m_blocks_enqueued'
    BY <1>3, <2>2
  <2>6. \A t, v \in Thread :
           \A i \in DOMAIN m_block_queue'[t], j \in DOMAIN m_block_queue'[v] :
              m_block_queue'[t][i] = m_block_queue'[v][j] => t = v /\ i = j
    BY <1>3, <2>2 DEF Matched
  <2>7. \A b \in DOMAIN m_blocks_enqueued' :
           \E t \in Thread : \E i \in DOMAIN m_block_queue'[t] : m_block_queue'[t][i] = b
    <3>1. SUFFICES ASSUME NEW b \in DOMAIN m_blocks_enqueued'
                   PROVE  \E t \in Thread : \E i \in DOMAIN m_block_queue'[t] :
                             m_block_queue'[t][i] = b
      OBVIOUS
    <3>2. CASE b = p
      BY <1>1, <2>4, <3>2
    <3>3. CASE b \in DOMAIN m_blocks_enqueued
      <4>1. PICK t \in Thread : \E i \in DOMAIN m_block_queue[t] : m_block_queue[t][i] = b
        BY <3>3 DEF Matched
      <4>2. PICK i \in DOMAIN m_block_queue[t] : m_block_queue[t][i] = b
        BY <4>1
      <4>3. i \in DOMAIN m_block_queue'[t] /\ m_block_queue'[t][i] = b
        BY <2>3, <4>2
      <4>. QED BY <4>3
    <3>. QED BY <1>3, <3>2, <3>3
  <2>8. Thread' = Thread
    BY DEF Thread
  <2>. QED BY <2>5, <2>6, <2>7, <2>8 DEF Matched
<1>10. PeerCountsRight'
  <2> DEFINE before(r) == {b \in DOMAIN m_blocks_enqueued :
                              m_blocks_enqueued[b].peer_requested = r}
             after(r) == {b \in DOMAIN m_blocks_enqueued' :
                              m_blocks_enqueued'[b].peer_requested = r}
  <2>1. after(q) = before(q) \cup {p} /\ p \notin before(q)
    BY <1>2, <1>3
  <2>2. \A r \in Asker \ {q} : after(r) = before(r)
    BY <1>2, <1>3
  <2>3. IsFiniteSet(before(q)) /\ Cardinality(before(q)) \in Nat
    BY EntriesFinite
  <2>4. m_peer_queue_count[q] = Cardinality(before(q))
    BY DEF PeerCountsRight, Asker
  <2> HIDE DEF before, after
  <2>5. Cardinality(after(q)) = Cardinality(before(q)) + 1
    BY <2>1, <2>3, FS_AddElement
  <2>6. \A r \in Asker : m_peer_queue_count'[r] = Cardinality(after(r))
    BY <1>7, <2>2, <2>4, <2>5 DEF PeerCountsRight, Asker, before
  <2>7. q \in Peer => \/ m_peer_queue_count[q] < m_qlimit_generate
                     \/ m_peer_queue_count[q] < m_qlimit_diskonly
    BY EmergeAssumption DEF WithinLimits
  <2>8. q \in Peer => \/ m_peer_queue_count'[q] =< m_qlimit_generate
                     \/ m_peer_queue_count'[q] =< m_qlimit_diskonly
    BY <1>7, <2>7, EmergeAssumption DEF QueuesTyped
  <2>9. \A r \in Peer : \/ m_peer_queue_count'[r] =< m_qlimit_generate
                        \/ m_peer_queue_count'[r] =< m_qlimit_diskonly
    BY <1>7, <2>8 DEF PeerCountsRight, Asker
  <2>. QED BY <2>6, <2>9 DEF PeerCountsRight, Asker, after
<1>. QED BY <1>1, <1>8, <1>9, <1>10 DEF u

\* popBlockEmerge() takes the first block of the queue of thread t.
Taken(t) ==
    /\ m_block_queue[t] # <<>>
    /\ m_block_queue' = [m_block_queue EXCEPT ![t] = Tail(@)]
    /\ popBlockEmergeData(Head(m_block_queue[t]))

\* The block that is taken has an entry.
LEMMA TakenHead ==
    ASSUME Queues, NEW t \in Thread, m_block_queue[t] # <<>>
    PROVE  /\ Head(m_block_queue[t]) \in DOMAIN m_blocks_enqueued
           /\ Head(m_block_queue[t]) \in Pos
           /\ m_blocks_enqueued[Head(m_block_queue[t])] \in Entry
<1>1. m_block_queue[t] \in Seq(Pos)
  BY DEF Queues, QueuesTyped
<1>2. 1 \in DOMAIN m_block_queue[t] /\ Head(m_block_queue[t]) = m_block_queue[t][1]
  BY <1>1, QueueFacts
<1>. QED BY <1>2 DEF Queues, QueuesTyped, Matched

\* The entry and its place in the queue go together, and the count of its peer.
LEMMA TakenKept ==
    ASSUME Queues, NEW t \in Thread, Taken(t), UNCHANGED nthreads
    PROVE  Queues'
<1>. USE DEF Queues, Taken, popBlockEmergeData
<1> DEFINE old == m_block_queue[t]
           p == Head(old)
           q == m_blocks_enqueued[p].peer_requested
<1>1. p \in DOMAIN m_blocks_enqueued /\ q \in Asker
  BY TakenHead DEF Entry, Asker
<1>2. /\ DOMAIN m_blocks_enqueued' = DOMAIN m_blocks_enqueued \ {p}
      /\ \A b \in DOMAIN m_blocks_enqueued' : m_blocks_enqueued'[b] = m_blocks_enqueued[b]
  OBVIOUS
<1>3. /\ m_block_queue \in [Thread -> Seq(Pos)]
      /\ m_block_queue' = [m_block_queue EXCEPT ![t] = Tail(old)]
  BY DEF QueuesTyped
<1>4. m_peer_queue_count' = [m_peer_queue_count EXCEPT ![q] = @ - 1]
  OBVIOUS
<1>5. /\ old \in Seq(Pos) /\ Tail(old) \in Seq(Pos) /\ old # <<>>
      /\ Len(old) \in Nat /\ Len(old) > 0 /\ DOMAIN old = 1 .. Len(old) /\ p = old[1]
      /\ DOMAIN Tail(old) = 1 .. Len(old) - 1
      /\ \A i \in 1 .. Len(old) - 1 : Tail(old)[i] = old[i + 1]
  BY <1>3, QueueFacts
<1> DEFINE before(r) == {b \in DOMAIN m_blocks_enqueued :
                            m_blocks_enqueued[b].peer_requested = r}
           after(r) == {b \in DOMAIN m_blocks_enqueued' :
                            m_blocks_enqueued'[b].peer_requested = r}
<1>6. after(q) = before(q) \ {p} /\ p \in before(q)
  BY <1>1, <1>2
<1>7. \A r : r # q => after(r) = before(r)
  BY <1>1, <1>2
<1>8. \A r : IsFiniteSet(before(r)) /\ Cardinality(before(r)) \in Nat
  BY EntriesFinite
<1>9. \A r \in Asker : m_peer_queue_count[r] = Cardinality(before(r))
  BY DEF PeerCountsRight, Asker
<1> HIDE DEF old, p, q, before, after
<1>10. /\ Cardinality(after(q)) = Cardinality(before(q)) - 1
       /\ Cardinality(before(q)) > 0
  <2>1. Cardinality(before(q)) # 0
    BY <1>6, <1>8, FS_EmptySet
  <2>2. Cardinality(after(q)) = Cardinality(before(q)) - 1
    BY <1>6, <1>8, FS_RemoveElement
  <2>. QED BY <1>8, <2>1, <2>2
<1>11. /\ m_peer_queue_count' \in [Asker -> Nat]
       /\ m_peer_queue_count'[q] = m_peer_queue_count[q] - 1
       /\ \A r \in Asker \ {q} : m_peer_queue_count'[r] = m_peer_queue_count[r]
  <2>1. m_peer_queue_count \in [Asker -> Nat] /\ m_peer_queue_count[q] - 1 \in Nat
    BY <1>1, <1>8, <1>9, <1>10 DEF QueuesTyped
  <2>. QED BY <1>1, <1>4, <2>1
<1>12. m_block_queue' \in [Thread -> Seq(Pos)]
  BY <1>3, <1>5
<1>13. QueuesTyped'
  BY <1>2, <1>11, <1>12 DEF QueuesTyped, Thread, Asker, Entry
<1>14. PeerCountsRight'
  <2>1. \A r \in Asker : m_peer_queue_count'[r] = Cardinality(after(r))
    BY <1>1, <1>7, <1>9, <1>10, <1>11
  <2>2. \A r \in Peer : m_peer_queue_count'[r] =< m_peer_queue_count[r]
    BY <1>1, <1>11 DEF QueuesTyped, Asker
  <2>3. \A r \in Peer : m_peer_queue_count[r] \in Nat /\ m_peer_queue_count'[r] \in Nat
    BY <1>11 DEF QueuesTyped, Asker
  <2>4. \A r \in Peer : \/ m_peer_queue_count'[r] =< m_qlimit_generate
                        \/ m_peer_queue_count'[r] =< m_qlimit_diskonly
    BY <2>2, <2>3, EmergeAssumption DEF PeerCountsRight
  <2>. QED BY <2>1, <2>4 DEF PeerCountsRight, Asker, after
<1>15. Matched'
  <2>1. /\ m_block_queue'[t] = Tail(old) /\ m_block_queue[t] = old
        /\ \A u \in Thread \ {t} : m_block_queue'[u] = m_block_queue[u]
    BY <1>3 DEF old
  <2>2. 1 \in DOMAIN m_block_queue[t] /\ m_block_queue[t][1] = p
    BY <1>5, <2>1
  <2> DEFINE was(u, i) == IF u = t THEN i + 1 ELSE i
  <2>3. ASSUME NEW u \in Thread, NEW i \in DOMAIN m_block_queue'[u]
        PROVE  /\ was(u, i) \in DOMAIN m_block_queue[u] /\ i \in Nat
               /\ m_block_queue'[u][i] = m_block_queue[u][was(u, i)]
               /\ u = t => was(u, i) # 1
    <3>1. CASE u = t
      BY <1>5, <2>1, <2>3, <3>1
    <3>2. CASE u # t
      <4>1. m_block_queue[u] \in Seq(Pos)
        BY <1>3
      <4>. QED BY <2>1, <2>3, <3>2, <4>1, QueueFacts
    <3>. QED BY <3>1, <3>2
  <2> HIDE DEF was
  <2>4. \A u \in Thread : \A i \in DOMAIN m_block_queue'[u] :
           m_block_queue'[u][i] \in DOMAIN m_blocks_enqueued'
    <3>1. SUFFICES ASSUME NEW u \in Thread, NEW i \in DOMAIN m_block_queue'[u]
                   PROVE  m_block_queue'[u][i] \in DOMAIN m_blocks_enqueued'
      OBVIOUS
    <3>2. m_block_queue'[u][i] \in DOMAIN m_blocks_enqueued
      BY <2>3 DEF Matched
    <3>3. m_block_queue'[u][i] # p
      <4>1. was(u, i) \in DOMAIN m_block_queue[u] /\ (u = t => was(u, i) # 1)
        BY <2>3
      <4>2. m_block_queue[u][was(u, i)] # m_block_queue[t][1]
        BY <2>2, <4>1 DEF Matched
      <4>. QED BY <2>2, <2>3, <4>2
    <3>. QED BY <1>2, <3>2, <3>3
  <2>5. \A u, v \in Thread :
           \A i \in DOMAIN m_block_queue'[u], j \in DOMAIN m_block_queue'[v] :
              m_block_queue'[u][i] = m_block_queue'[v][j] => u = v /\ i = j
    <3>1. SUFFICES ASSUME NEW u \in Thread, NEW v \in Thread,
                          NEW i \in DOMAIN m_block_queue'[u],
                          NEW j \in DOMAIN m_block_queue'[v],
                          m_block_queue'[u][i] = m_block_queue'[v][j]
                   PROVE  u = v /\ i = j
      OBVIOUS
    <3>2. u = v /\ was(u, i) = was(v, j)
      BY <2>3, <3>1 DEF Matched
    <3>. QED BY <2>3, <3>2 DEF was
  <2>6. \A b \in DOMAIN m_blocks_enqueued' :
           \E u \in Thread : \E i \in DOMAIN m_block_queue'[u] : m_block_queue'[u][i] = b
    <3>1. SUFFICES ASSUME NEW b \in DOMAIN m_blocks_enqueued'
                   PROVE  \E u \in Thread : \E i \in DOMAIN m_block_queue'[u] :
                             m_block_queue'[u][i] = b
      OBVIOUS
    <3>2. b \in DOMAIN m_blocks_enqueued /\ b # p
      BY <1>2
    <3>3. PICK u \in Thread : \E i \in DOMAIN m_block_queue[u] : m_block_queue[u][i] = b
      BY <3>2 DEF Matched
    <3>4. PICK i \in DOMAIN m_block_queue[u] : m_block_queue[u][i] = b
      BY <3>3
    <3>5. CASE u # t
      BY <2>1, <3>4, <3>5
    <3>6. CASE u = t
      <4>1. i # 1
        BY <2>2, <3>2, <3>4, <3>6
      <4>2. i - 1 \in DOMAIN m_block_queue'[t] /\ m_block_queue'[t][i - 1] = b
        BY <1>5, <2>1, <3>4, <3>6, <4>1
      <4>. QED BY <4>2
    <3>. QED BY <3>5, <3>6
  <2>7. Thread' = Thread
    BY DEF Thread
  <2>. QED BY <2>4, <2>5, <2>6, <2>7 DEF Matched
<1>. QED BY <1>13, <1>14, <1>15

-----------------------------------------------------------------------------
(* Every step keeps the queues *)

\* enqueueBlockEmergeEx(), with either outcome.
LEMMA EnqueueKept ==
    ASSUME Queues, NEW p \in Pos, NEW q \in Asker, NEW flags \in SUBSET Flags,
           NEW callbacks \in Seq(1 .. MaxCalls),
           q \in Peer => "FORCE_QUEUE" \notin flags,
           enqueueBlockEmergeEx(p, q, flags, callbacks), UNCHANGED nthreads
    PROVE  Queues' /\ (signalling' = signalling \/ signalling' = {getOptimalThread})
  BY AddToEntryKept, AddEntryKept DEF enqueueBlockEmergeEx, AddToEntry, AddEntry

\* The calls, as far as their numbers go.
CallsStarted ==
    /\ Len(calls) \in 0 .. MaxCalls /\ emerging \subseteq Pos
    /\ emerging # {} => Len(calls) > 0

\* Each action keeps entries, queues and counts.
LEMMA QueuesKept ==
    ASSUME Queues, CallsStarted, [Next]_vars PROVE Queues'
<1>. USE DEF queues, thread, server, world
<1>1. ASSUME NEW q \in Asker, NEW p \in Pos, NEW flags \in {{}, {"ALLOW_GEN"}},
             Request(q, p, flags)
      PROVE  Queues'
  <2>1. flags \in SUBSET Flags /\ "FORCE_QUEUE" \notin flags /\ <<>> \in Seq(1 .. MaxCalls)
    BY EmptySeq DEF Flags
  <2>. QED BY <1>1, <2>1, EnqueueKept DEF Request
<1>2. CASE EmergeAreaBlock
  <2>1. PICK p \in emerging :
           enqueueBlockEmergeEx(p, PEER_ID_INEXISTENT, Flags, <<Len(calls)>>)
    BY <1>2 DEF EmergeAreaBlock
  <2>2. p \in Pos /\ Len(calls) \in 1 .. MaxCalls
    BY <2>1, EmergeAssumption DEF CallsStarted
  <2>3. <<Len(calls)>> \in Seq(1 .. MaxCalls) /\ Flags \in SUBSET Flags
    BY <2>2
  <2>4. PEER_ID_INEXISTENT \in Asker /\ PEER_ID_INEXISTENT \notin Peer
    BY EmergeAssumption DEF Asker
  <2>. QED BY <1>2, <2>1, <2>2, <2>3, <2>4, EnqueueKept DEF EmergeAreaBlock
<1>3. ASSUME NEW t \in Started, Pop(t) PROVE Queues'
  <2>1. t \in Thread
    BY EmergeAssumption DEF Started, Thread, Queues, QueuesTyped
  <2>2. Taken(t)
    BY <1>3 DEF Pop, Taken
  <2>. QED BY <1>3, <2>1, <2>2, TakenKept DEF Pop
<1>4. ASSUME NEW t \in Started,
             \/ EndRun(t) \/ PopNothing(t) \/ Wait(t)
             \/ GetFromMemory(t) \/ GetFromDisk(t) \/ StartGen(t) \/ GetNothing(t)
             \/ FinishGen(t) \/ LoadRefcount(t) \/ StoreRefcount(t) \/ Report(t)
             \/ DeleteState(t) \/ SetBlocksNotSent(t)
      PROVE  UNCHANGED <<nthreads, queues>>
  BY <1>4 DEF EndRun, PopNothing, Wait, GetFromMemory, GetFromDisk, StartGen, GetNothing,
     Gets, FinishGen, LoadRefcount, StoreRefcount, Report, DeleteState, SetBlocksNotSent
<1>5. ASSUME \/ \E area \in Areas : StartEmergeArea(area)
             \/ \E t \in signalling : Signal(t)
             \/ startThreads \/ Shutdown \/ \E t \in Started : stopThreads(t)
             \/ \E q \in Peer, p \in Pos : SendBlock(q, p)
             \/ \E p \in Pos : Unload(p)
             \/ \E blocks \in SUBSET there : DeleteArea(blocks)
             \/ SendMapEdits
             \/ UNCHANGED vars
      PROVE  UNCHANGED <<nthreads, queues>>
  BY <1>5 DEF StartEmergeArea, Signal, startThreads, Shutdown, stopThreads, SendBlock, Unload,
     DeleteArea, SendMapEdits, vars
<1>. QED BY <1>1, <1>2, <1>3, <1>4, <1>5, QueuesSame DEF Next, ThreadStep, Asker

-----------------------------------------------------------------------------
(* The threads and the map *)

ThreadsTyped ==
    /\ nthreads \in Thread
    /\ pc \in [Thread -> Place] /\ item \in [Thread -> Item] /\ loaded \in [Thread -> Nat]
    /\ notified \in [Thread -> BOOLEAN] /\ stop \in [Thread -> BOOLEAN]
    /\ signalling \subseteq Thread /\ emerging \subseteq Pos /\ shutdown \in BOOLEAN

WorldTyped ==
    /\ memory \subseteq generated /\ generated \subseteq there /\ there \subseteq Pos
    /\ m_unsent_map_edit_queue \subseteq deleted /\ deleted \subseteq Pos
    /\ held \in [Peer -> SUBSET Pos] /\ stale \in [Peer -> SUBSET Pos]

BoundsTyped == events \in 0 .. MaxEvents

Worlds == ThreadsTyped /\ ItemsFit /\ WorldTyped /\ WorldFits /\ ClientsCurrent

\* What x must be for a thread to be at place to.
Fits(to, x, blocks) ==
    /\ to \in Idle => x = NoItem
    /\ to \notin Idle => x.pos \in Pos
    /\ to \in {"get", "make"} => x.modified_blocks = {}
    /\ to \in {"store", "report", "delete"} => x.callbacks # <<>>
    /\ to \notin Idle \cup {"get", "make"} /\ x.action # "CANCELLED" => x.pos \in blocks

LEMMA StartedThreads ==
    ASSUME nthreads \in Thread PROVE Started \subseteq Thread /\ (nthreads = 1 => Started = {1})
  BY EmergeAssumption DEF Started, Thread

LEMMA NoItemTyped == NoItem \in Item /\ NoItem.callbacks = <<>> /\ NoItem.modified_blocks = {}
<1>1. <<>> \in Seq(1 .. MaxCalls)
  BY EmptySeq
<1>. QED BY <1>1 DEF NoItem, Item, Action, Flags

\* Thread t goes to another place, and works on x there.
LEMMA ThreadGoes ==
    ASSUME ThreadsTyped, ItemsFit, NEW t \in Started, NEW to \in Place, NEW x \in Item,
           pc' = [pc EXCEPT ![t] = to], item' = [item EXCEPT ![t] = x],
           UNCHANGED nthreads, Known \subseteq Known', Fits(to, x, Known')
    PROVE  pc' \in [Thread -> Place] /\ item' \in [Thread -> Item] /\ ItemsFit'
<1>1. t \in Thread
  BY StartedThreads DEF ThreadsTyped
<1>2. /\ pc' \in [Thread -> Place] /\ item' \in [Thread -> Item]
      /\ pc'[t] = to /\ item'[t] = x
      /\ \A u \in Thread \ {t} : pc'[u] = pc[u] /\ item'[u] = item[u]
  BY <1>1 DEF ThreadsTyped
<1>3. Thread' = Thread /\ Started' = Started
  BY DEF Thread, Started
<1>4. \A u \in Thread \ {t} :
         /\ u \notin Started => pc'[u] = "new"
         /\ Fits(pc'[u], item'[u], Known')
  BY <1>2 DEF ItemsFit, Fits
<1>. QED BY <1>2, <1>3, <1>4 DEF ItemsFit, Fits

\* ... or goes on with what it works on.
LEMMA ThreadGoesOn ==
    ASSUME ThreadsTyped, ItemsFit, NEW t \in Started, NEW to \in Place,
           pc' = [pc EXCEPT ![t] = to], UNCHANGED item,
           UNCHANGED nthreads, Known \subseteq Known', Fits(to, item[t], Known')
    PROVE  pc' \in [Thread -> Place] /\ item' \in [Thread -> Item] /\ ItemsFit'
<1>1. t \in Thread
  BY StartedThreads DEF ThreadsTyped
<1>2. item[t] \in Item /\ item' = [item EXCEPT ![t] = item[t]]
  BY <1>1 DEF ThreadsTyped
<1>. QED BY <1>2, ThreadGoes

\* Clients keep current as long as neither a thread nor the queue of map edit
\* events forgets what it has to mark.
LEMMA ClientsKept ==
    ASSUME ClientsCurrent, UNCHANGED nthreads,
           m_unsent_map_edit_queue \subseteq m_unsent_map_edit_queue',
           \A t \in Started : item[t].modified_blocks \subseteq item'[t].modified_blocks,
           \A q \in Peer : \A b \in stale'[q] :
              \/ b \in stale[q] \/ b \in m_unsent_map_edit_queue'
              \/ \E t \in Started : b \in item'[t].modified_blocks
    PROVE  ClientsCurrent'
<1>1. Started' = Started
  BY DEF Started
<1>2. ASSUME NEW q \in Peer, NEW b \in stale'[q], b \notin m_unsent_map_edit_queue'
      PROVE  \E t \in Started : b \in item'[t].modified_blocks
  <2>1. CASE b \in stale[q]
    <3>1. PICK t \in Started : b \in item[t].modified_blocks
      BY <1>2, <2>1 DEF ClientsCurrent
    <3>. QED BY <3>1
  <2>. QED BY <1>2, <2>1
<1>. QED BY <1>1, <1>2 DEF ClientsCurrent

\* A block is in its chunk, and its chunk is that of all blocks in it.
LEMMA ChunkFacts ==
    ASSUME NEW p \in Pos
    PROVE  /\ p \in ChunkOf(p) /\ ChunkOf(p) \subseteq Pos
           /\ \A b \in ChunkOf(p) : ChunkOf(b) = ChunkOf(p)
  BY DEF ChunkOf

\* What initBlockMake() loads or creates holds the chunk.
LEMMA ChunkInArea ==
    ASSUME NEW p \in Pos PROVE ChunkOf(p) \subseteq FullAreaOf(p)
<1> DEFINE coff == chunksize \div 2
           min == getContainingChunk(p)
<1>1. chunksize \in Nat /\ chunksize > 0 /\ coff \in Int /\ Pos \subseteq Int
  BY EmergeAssumption
<1>2. SUFFICES ASSUME NEW b \in Pos, getContainingChunk(b) = min
               PROVE  b \in min - 1 .. min + chunksize
  BY DEF ChunkOf, FullAreaOf
<1>3. ASSUME NEW n \in Int, NEW d \in Nat, d > 0
      PROVE  n \div d \in Int /\ (n \div d) * d =< n /\ n < (n \div d) * d + d
  BY <1>3
<1>4. b + coff \in Int
  BY <1>1
<1> HIDE DEF coff, min
<1>5. min = ((b + coff) \div chunksize) * chunksize - coff
  BY <1>2 DEF getContainingChunk, getContainerPos, coff
<1>6. PICK m \in Int : m = ((b + coff) \div chunksize) * chunksize
  BY <1>1, <1>3, <1>4
<1>7. m =< b + coff /\ b + coff < m + chunksize /\ min = m - coff
  BY <1>1, <1>3, <1>4, <1>5, <1>6
<1>8. b \in Int /\ min \in Int /\ min =< b /\ b < min + chunksize
  BY <1>1, <1>6, <1>7
<1>. QED BY <1>1, <1>8

\* Nothing is generated, and of the map only blocks in memory are sent.
LEMMA WorldKept ==
    ASSUME Worlds, UNCHANGED nthreads,
           generated' \subseteq generated, Known \subseteq Known', deleted \subseteq deleted',
           there \cup deleted \subseteq there' \cup deleted',
           \A q \in Peer : held'[q] \subseteq held[q] \cup memory,
           \A t \in Started : /\ pc'[t] = "make" => pc[t] = "make"
                              /\ item'[t].pos = item[t].pos \/ pc'[t] # "make"
    PROVE  WorldFits'
<1>1. Started' = Started
  BY DEF Started
<1>2. \A b : ChunkOf(b)' = ChunkOf(b)
  BY DEF ChunkOf, getContainingChunk, getContainerPos
<1>3. \A q \in Peer : held'[q] \subseteq Known'
  <2>1. memory \subseteq Known
    BY DEF Worlds, WorldTyped, Known
  <2>. QED BY <2>1 DEF Worlds, WorldFits
<1>4. \A b \in generated' : ChunkOf(b) \subseteq Known'
  BY DEF Worlds, WorldFits
<1>5. \A t \in Started :
         pc'[t] = "make" => ChunkOf(item'[t].pos) \subseteq there' \cup deleted'
  BY DEF Worlds, WorldFits
<1>6. nthreads = 1 => \A t \in Started :
         pc'[t] = "make" /\ ChunkOf(item'[t].pos) \cap deleted' = {}
            => ChunkOf(item'[t].pos) \cap generated' = {}
  BY DEF Worlds, WorldFits
<1>. QED BY <1>1, <1>2, <1>3, <1>4, <1>5, <1>6 DEF WorldFits

CallsTyped == calls \in Seq(Call) /\ Len(calls) =< MaxCalls

\* The callback a thread runs belongs to a call.
LEMMA RunningCall ==
    ASSUME ThreadsTyped, CallsTyped, CallbacksFit, NEW t \in Thread, item[t].callbacks # <<>>
    PROVE  LET c == Head(item[t].callbacks)
           IN  /\ c \in DOMAIN calls /\ c \in 1 .. MaxCalls /\ calls[c] \in Call
               /\ Has(item[t].callbacks, c) /\ item[t].pos \in calls[c].area
<1> DEFINE c == Head(item[t].callbacks)
<1>1. item[t].callbacks \in Seq(1 .. MaxCalls)
  BY DEF ThreadsTyped, Item
<1>2. c \in 1 .. MaxCalls /\ c = item[t].callbacks[1] /\ 1 \in DOMAIN item[t].callbacks
  <2> DEFINE s == item[t].callbacks
  <2>1. s \in Seq(1 .. MaxCalls) /\ s # <<>>
    BY <1>1
  <2> HIDE DEF s
  <2>2. /\ Len(s) \in Nat /\ Len(s) > 0 /\ DOMAIN s = 1 .. Len(s)
        /\ Head(s) = s[1] /\ Head(s) \in 1 .. MaxCalls
    BY <2>1, QueueFacts
  <2>3. Head(s) \in 1 .. MaxCalls /\ Head(s) = s[1] /\ 1 \in DOMAIN s
    BY <2>2
  <2>. QED BY <2>3 DEF s
<1>3. Has(item[t].callbacks, c)
  BY <1>2 DEF Has
<1>4. c \in DOMAIN calls /\ item[t].pos \in calls[c].area
  BY <1>2, <1>3 DEF CallbacksFit
<1>5. calls[c] \in Call
  BY <1>4, QueueFacts DEF CallsTyped
<1>. QED BY <1>2, <1>3, <1>4, <1>5

\* The steps at the head of the loop of EmergeThread::run().
LEMMA LoopWorlds ==
    ASSUME Worlds, Queues, NEW t \in Started,
           EndRun(t) \/ PopNothing(t) \/ Wait(t) \/ Pop(t)
    PROVE  Worlds'
<1>. USE DEF Worlds, queues, server, world, Goes, Known
<1>1. t \in Thread
  BY StartedThreads DEF ThreadsTyped
<1>2. CASE EndRun(t) \/ PopNothing(t) \/ Wait(t)
  <2>1. PICK to \in {"loop", "wait", "ended"} :
           pc[t] \in {"loop", "wait"} /\ pc' = [pc EXCEPT ![t] = to]
    BY <1>2 DEF EndRun, PopNothing, Wait
  <2>2. UNCHANGED <<item, loaded, stop, signalling, emerging, shutdown, nthreads>>
        /\ UNCHANGED world
    BY <1>2 DEF EndRun, PopNothing, Wait
  <2>3. item[t] = NoItem /\ to \in Place /\ to \in Idle
    BY <1>1, <2>1 DEF ItemsFit, Idle, Place
  <2>4. Fits(to, item[t], Known')
    BY <2>1, <2>3 DEF Fits, Idle
  <2>5. pc' \in [Thread -> Place] /\ item' \in [Thread -> Item] /\ ItemsFit'
    BY <2>1, <2>2, <2>3, <2>4, ThreadGoesOn
  <2>6. notified' \in [Thread -> BOOLEAN]
    BY <1>2 DEF EndRun, PopNothing, Wait, ThreadsTyped
  <2>7. ThreadsTyped' /\ WorldTyped'
    BY <2>2, <2>5, <2>6 DEF ThreadsTyped, WorldTyped, Thread, Place, Item
  <2>8. ClientsCurrent'
    BY <2>2, ClientsKept
  <2>9. WorldFits'
    BY <1>1, <2>1, <2>2, WorldKept DEF ThreadsTyped
  <2>. QED BY <2>5, <2>7, <2>8, <2>9
<1>3. CASE Pop(t)
  <2> DEFINE p == Head(m_block_queue[t])
             e == m_blocks_enqueued[p]
             x == [NoItem EXCEPT !.pos = p, !.flags = e.flags, !.callbacks = e.callbacks]
  <2>1. p \in Pos /\ e \in Entry
    BY <1>1, <1>3, TakenHead DEF Pop
  <2>2. pc[t] = "loop" /\ item[t] = NoItem
    BY <1>1, <1>3 DEF Pop, ItemsFit, Idle
  <2>3. UNCHANGED <<notified, loaded, stop, signalling, emerging, shutdown, nthreads>>
        /\ UNCHANGED world
    BY <1>3 DEF Pop
  <2>4. x \in Item /\ x.pos \in Pos /\ x.modified_blocks = {}
    BY <2>1, NoItemTyped DEF NoItem, Item, Entry, Action
  <2> HIDE DEF x
  <2>5. \/ pc' = [pc EXCEPT ![t] = "loop"] /\ UNCHANGED item
        \/ pc' = [pc EXCEPT ![t] = "get"] /\ item' = [item EXCEPT ![t] = x]
    BY <1>3 DEF Pop, x
  <2>6. /\ pc' \in [Thread -> Place] /\ item' \in [Thread -> Item] /\ ItemsFit'
    <3>1. CASE pc' = [pc EXCEPT ![t] = "loop"] /\ UNCHANGED item
      <4>1. Fits("loop", item[t], Known') /\ "loop" \in Place
        BY <2>2 DEF Fits, Idle, Place
      <4>. QED BY <2>3, <3>1, <4>1, ThreadGoesOn
    <3>2. CASE pc' = [pc EXCEPT ![t] = "get"] /\ item' = [item EXCEPT ![t] = x]
      <4>1. Fits("get", x, Known') /\ "get" \in Place
        BY <2>4 DEF Fits, Idle, Place
      <4>. QED BY <2>3, <2>4, <3>2, <4>1, ThreadGoes
    <3>. QED BY <2>5, <3>1, <3>2
  <2>7. ThreadsTyped' /\ WorldTyped'
    BY <2>3, <2>6 DEF ThreadsTyped, WorldTyped, Thread, Place, Item
  <2>8. \A u \in Started : item[u].modified_blocks \subseteq item'[u].modified_blocks
    <3>1. ASSUME NEW u \in Started, u # t PROVE item'[u] = item[u]
      BY <2>5, <3>1, StartedThreads DEF ThreadsTyped
    <3>2. item[t].modified_blocks = {}
      BY <2>2, NoItemTyped
    <3>. QED BY <3>1, <3>2
  <2>9. ClientsCurrent'
    BY <2>3, <2>8, ClientsKept
  <2>10. \A u \in Started : /\ pc'[u] = "make" => pc[u] = "make"
                            /\ item'[u].pos = item[u].pos \/ pc'[u] # "make"
    BY <1>1, <2>5, StartedThreads DEF ThreadsTyped
  <2>11. WorldFits'
    BY <2>3, <2>10, WorldKept
  <2>. QED BY <2>6, <2>7, <2>9, <2>11
<1>. QED BY <1>2, <1>3

\* getBlockOrStartGen().
LEMMA GetWorlds ==
    ASSUME Worlds, NEW t \in Started,
           GetFromMemory(t) \/ GetFromDisk(t) \/ StartGen(t) \/ GetNothing(t)
    PROVE  Worlds'
<1>. USE DEF Worlds, queues, server, world, Goes
<1> DEFINE p == item[t].pos
<1>1. t \in Thread
  BY StartedThreads DEF ThreadsTyped
<1>2. pc[t] = "get" /\ p \in Pos /\ item[t] \in Item /\ item[t].modified_blocks = {}
  BY <1>1 DEF GetFromMemory, GetFromDisk, StartGen, GetNothing, Gets, ItemsFit, Idle,
     ThreadsTyped
<1>3. PICK a \in Action, modified_blocks \in {{}, {p}} :
         /\ Gets(t, a, modified_blocks)
         /\ a \in {"FROM_MEMORY", "FROM_DISK"} => p \in generated
         /\ a = "GENERATED" => /\ p \notin generated /\ modified_blocks = {}
                               /\ there' = there \cup FullAreaOf(p)
         /\ there \subseteq there' /\ there' \subseteq there \cup FullAreaOf(p)
         /\ memory' \subseteq memory \cup generated
  BY DEF GetFromMemory, GetFromDisk, StartGen, GetNothing, Action, WorldTyped
<1> DEFINE to == IF a = "GENERATED" THEN "make" ELSE "callback"
           x == [item[t] EXCEPT !.action = a, !.modified_blocks = modified_blocks]
<1>4. /\ UNCHANGED <<notified, loaded, stop, signalling, emerging, shutdown, nthreads,
                     generated, held, stale, m_unsent_map_edit_queue, deleted>>
      /\ pc' = [pc EXCEPT ![t] = to] /\ item' = [item EXCEPT ![t] = x]
  BY <1>3 DEF Gets
<1>5. /\ x \in Item /\ x.pos = p /\ x.action = a /\ x.modified_blocks = modified_blocks
  BY <1>2, <1>3 DEF Item
<1>6. to \in Place /\ Fits(to, x, Known')
  BY <1>2, <1>3, <1>4, <1>5 DEF Fits, Idle, Place, Action, Known
<1> HIDE DEF x, to
<1>7. pc' \in [Thread -> Place] /\ item' \in [Thread -> Item] /\ ItemsFit'
  BY <1>4, <1>5, <1>6, ThreadGoes DEF Known
<1>8. memory' \subseteq generated' /\ generated' \subseteq there' /\ there' \subseteq Pos
  BY <1>3, <1>4 DEF WorldTyped, FullAreaOf
<1>9. ThreadsTyped' /\ WorldTyped'
  BY <1>4, <1>7, <1>8 DEF ThreadsTyped, WorldTyped, Thread, Place, Item
<1>10. \A u \in Started : item[u].modified_blocks \subseteq item'[u].modified_blocks
  BY <1>2, <1>4, <1>5 DEF ThreadsTyped
<1>11. ClientsCurrent'
  BY <1>4, <1>10, ClientsKept
<1>12. WorldFits'
  <2>1. Started' = Started /\ Known' = Known
    BY <1>4 DEF Started, Known
  <2>2. \A b : ChunkOf(b)' = ChunkOf(b)
    BY DEF ChunkOf, getContainingChunk, getContainerPos
  <2>3. p \notin generated /\ ChunkOf(p) \cap deleted = {} => ChunkOf(p) \cap generated = {}
    BY <1>2, ChunkFacts DEF WorldFits, Known
  <2>4. pc'[t] = to /\ item'[t].pos = p
    BY <1>1, <1>4, <1>5 DEF ThreadsTyped
  <2>5. to = "make" => p \notin generated /\ there' = there \cup FullAreaOf(p)
    BY <1>3 DEF to
  <2>6. nthreads = 1 => \A u \in Started :
           pc'[u] = "make" /\ ChunkOf(item'[u].pos) \cap deleted = {}
              => ChunkOf(item'[u].pos) \cap generated = {}
    BY <1>1, <1>4, <2>3, <2>4, <2>5, StartedThreads DEF ThreadsTyped, Thread
  <2>7. ASSUME NEW u \in Started, pc'[u] = "make"
        PROVE  ChunkOf(item'[u].pos) \subseteq there' \cup deleted
    <3>1. CASE u = t
      BY <1>2, <2>4, <2>5, <2>7, <3>1, ChunkInArea
    <3>2. CASE u # t
      <4>1. pc[u] = "make" /\ item'[u] = item[u]
        BY <1>4, <2>7, <3>2, StartedThreads DEF ThreadsTyped
      <4>. QED BY <1>3, <4>1 DEF WorldFits
    <3>. QED BY <3>1, <3>2
  <2>. QED BY <1>4, <2>1, <2>2, <2>6, <2>7 DEF WorldFits
<1>. QED BY <1>7, <1>9, <1>11, <1>12

\* finishGen(): a chunk becomes generated, and old copies of it are to be marked.
LEMMA FinishGenWorlds ==
    ASSUME Worlds, NEW t \in Started, FinishGen(t)
    PROVE  Worlds'
<1>. USE DEF Worlds, queues, server, world, Goes
<1> DEFINE p == item[t].pos
           chunk == ChunkOf(p) \cap there
           area == FullAreaOf(p) \cap there
           x == [item[t] EXCEPT !.modified_blocks = area]
<1>1. t \in Thread
  BY StartedThreads DEF ThreadsTyped
<1>2. pc[t] = "make" /\ p \in Pos /\ item[t] \in Item /\ item[t].modified_blocks = {}
  BY <1>1 DEF FinishGen, ItemsFit, Idle, ThreadsTyped
<1>3. /\ UNCHANGED <<notified, loaded, stop, signalling, emerging, shutdown, nthreads, held,
                     there, m_unsent_map_edit_queue, deleted>>
      /\ pc' = [pc EXCEPT ![t] = "callback"] /\ item' = [item EXCEPT ![t] = x]
      /\ generated' = generated \cup chunk
      /\ memory' = memory \cup chunk \cup (FullAreaOf(p) \cap generated)
      /\ stale' = [q \in Peer |-> stale[q] \cup (held[q] \cap area)]
  BY DEF FinishGen
<1>4. p \in ChunkOf(p) /\ ChunkOf(p) \subseteq there \cup deleted /\ area \subseteq Pos
  BY <1>2, ChunkFacts DEF WorldFits, FullAreaOf
<1>5. Known' = Known \cup ChunkOf(p) /\ p \in Known'
  BY <1>3, <1>4 DEF Known
<1>6. x \in Item /\ x.pos = p /\ x.modified_blocks = area
  BY <1>2, <1>4 DEF Item
<1>7. "callback" \in Place /\ Fits("callback", x, Known')
  BY <1>2, <1>3, <1>6, <1>5 DEF Fits, Idle, Place
<1> HIDE DEF x
<1>8. pc' \in [Thread -> Place] /\ item' \in [Thread -> Item] /\ ItemsFit'
  BY <1>3, <1>6, <1>7, <1>5, ThreadGoes DEF Known
<1>9. WorldTyped'
  BY <1>3, <1>4 DEF WorldTyped
<1>10. ThreadsTyped'
  BY <1>3, <1>8 DEF ThreadsTyped, Thread, Place, Item
<1>11. item'[t].modified_blocks = area /\ pc'[t] = "callback"
  BY <1>1, <1>3, <1>6 DEF ThreadsTyped
<1>12. \A u \in Started : item[u].modified_blocks \subseteq item'[u].modified_blocks
  BY <1>2, <1>3, <1>6 DEF ThreadsTyped
<1>13. ClientsCurrent'
  BY <1>3, <1>11, <1>12, ClientsKept
<1>14. WorldFits'
  <2>1. Started' = Started
    BY <1>3 DEF Started
  <2>2. \A b : ChunkOf(b)' = ChunkOf(b)
    BY DEF ChunkOf, getContainingChunk, getContainerPos
  <2>3. \A b \in generated' : ChunkOf(b) \subseteq Known'
    BY <1>2, <1>3, <1>5, ChunkFacts DEF WorldFits
  <2>5. \A u \in Started :
           pc'[u] = "make" => ChunkOf(item'[u].pos) \subseteq there' \cup deleted'
    BY <1>3, <1>11, StartedThreads DEF WorldFits, ThreadsTyped
  <2>4. nthreads = 1 => \A u \in Started : pc'[u] # "make"
    BY <1>11, StartedThreads DEF ThreadsTyped
  <2>. QED BY <1>3, <1>5, <2>1, <2>2, <2>3, <2>4, <2>5 DEF WorldFits
<1>. QED BY <1>8, <1>9, <1>10, <1>13, <1>14

\* The steps of the callbacks, which leave the map alone.
LEMMA CallbackWorlds ==
    ASSUME Worlds, CallsTyped, CallbacksFit, NEW t \in Started,
           LoadRefcount(t) \/ StoreRefcount(t) \/ Report(t) \/ DeleteState(t)
    PROVE  Worlds'
<1>. USE DEF Worlds, queues, server, world, Goes, Known
<1>1. t \in Thread
  BY StartedThreads DEF ThreadsTyped
<1>2. item[t] \in Item /\ pc[t] \in {"callback", "store", "report", "delete"}
  BY <1>1 DEF LoadRefcount, StoreRefcount, Report, DeleteState, ThreadsTyped
<1>3. UNCHANGED <<notified, stop, signalling, emerging, shutdown, nthreads>>
      /\ UNCHANGED world
  BY DEF LoadRefcount, StoreRefcount, Report, DeleteState
<1>4. item[t].callbacks # <<>>
  BY <1>1 DEF LoadRefcount, StoreRefcount, Report, DeleteState, ItemsFit
<1> DEFINE x == [item[t] EXCEPT !.callbacks = Tail(@)]
<1>5. Tail(item[t].callbacks) \in Seq(1 .. MaxCalls)
  BY <1>2, <1>4, QueueFacts DEF Item
<1>6. /\ x \in Item /\ x.pos = item[t].pos /\ x.action = item[t].action
      /\ x.modified_blocks = item[t].modified_blocks
  BY <1>2, <1>5 DEF Item
<1>7. PICK to \in {"callback", "store", "report", "delete"} : pc' = [pc EXCEPT ![t] = to]
  BY DEF LoadRefcount, StoreRefcount, Report, DeleteState
<1>8. \/ UNCHANGED item
      \/ pc' = [pc EXCEPT ![t] = "callback"] /\ item' = [item EXCEPT ![t] = x]
  BY DEF LoadRefcount, StoreRefcount, Report, DeleteState
<1> HIDE DEF x
<1>9. pc' \in [Thread -> Place] /\ item' \in [Thread -> Item] /\ ItemsFit'
  <2>1. item[t].pos \in Pos /\ (item[t].action # "CANCELLED" => item[t].pos \in Known)
    BY <1>1, <1>2 DEF ItemsFit, Idle
  <2>2. CASE UNCHANGED item
    <3>1. to \in Place /\ Fits(to, item[t], Known')
      BY <1>3, <1>4, <2>1 DEF Place, Fits, Idle
    <3>. QED BY <1>3, <1>7, <2>2, <3>1, ThreadGoesOn
  <2>3. CASE pc' = [pc EXCEPT ![t] = "callback"] /\ item' = [item EXCEPT ![t] = x]
    <3>1. "callback" \in Place /\ Fits("callback", x, Known')
      BY <1>3, <1>6, <2>1 DEF Place, Fits, Idle
    <3>. QED BY <1>3, <1>6, <2>3, <3>1, ThreadGoes
  <2>. QED BY <1>8, <2>2, <2>3
<1>10. loaded' \in [Thread -> Nat]
  <2>1. CASE LoadRefcount(t)
    <3>1. calls[Head(item[t].callbacks)] \in Call
      BY <1>1, <1>4, RunningCall
    <3>2. calls[Head(item[t].callbacks)].refcount \in Nat
      BY <3>1 DEF Call
    <3>. QED BY <2>1, <3>2 DEF LoadRefcount, ThreadsTyped
  <2>2. CASE StoreRefcount(t)
    BY <2>2 DEF StoreRefcount, ThreadsTyped
  <2>3. CASE Report(t) \/ DeleteState(t)
    BY <2>3 DEF Report, DeleteState, ThreadsTyped
  <2>. QED BY <2>1, <2>2, <2>3
<1>11. ThreadsTyped' /\ WorldTyped'
  BY <1>3, <1>9, <1>10 DEF ThreadsTyped, WorldTyped, Thread, Place, Item
<1>12. \A u \in Started : item'[u].pos = item[u].pos
                          /\ item[u].modified_blocks = item'[u].modified_blocks
  BY <1>1, <1>6, <1>8, StartedThreads DEF ThreadsTyped
<1>13. ClientsCurrent'
  BY <1>3, <1>12, ClientsKept
<1>14. \A u \in Started : pc'[u] = "make" => pc[u] = "make"
  BY <1>1, <1>7, StartedThreads DEF ThreadsTyped
<1>15. WorldFits'
  BY <1>3, <1>12, <1>14, WorldKept
<1>. QED BY <1>9, <1>11, <1>13, <1>15

\* Server::SetBlocksNotSent().
LEMMA SetNotSentWorlds ==
    ASSUME Worlds, NEW t \in Started, SetBlocksNotSent(t)
    PROVE  Worlds'
<1>. USE DEF Worlds, queues, server, world, Goes, Known
<1>1. t \in Thread
  BY StartedThreads DEF ThreadsTyped
<1>2. /\ UNCHANGED <<notified, loaded, stop, signalling, emerging, shutdown, nthreads,
                     there, generated, memory, m_unsent_map_edit_queue, deleted>>
      /\ pc' = [pc EXCEPT ![t] = "loop"] /\ item' = [item EXCEPT ![t] = NoItem]
      /\ held' = [q \in Peer |-> held[q] \ item[t].modified_blocks]
      /\ stale' = [q \in Peer |-> stale[q] \ item[t].modified_blocks]
  BY DEF SetBlocksNotSent
<1>3. "loop" \in Place /\ Fits("loop", NoItem, Known')
  BY DEF Fits, Place, Idle
<1>4. pc' \in [Thread -> Place] /\ item' \in [Thread -> Item] /\ ItemsFit'
  BY <1>2, <1>3, NoItemTyped, ThreadGoes
<1>5. ThreadsTyped'
  BY <1>2, <1>4 DEF ThreadsTyped, Thread, Place, Item
<1>6. WorldTyped'
  BY <1>2 DEF WorldTyped
<1>7. ClientsCurrent'
  <2>1. \A u \in Started \ {t} : item'[u] = item[u]
    BY <1>2, StartedThreads DEF ThreadsTyped
  <2>2. ASSUME NEW q \in Peer, NEW b \in stale'[q], b \notin m_unsent_map_edit_queue'
        PROVE  \E u \in Started : b \in item'[u].modified_blocks
    <3>1. b \in stale[q] /\ b \notin item[t].modified_blocks
      BY <1>2, <2>2
    <3>2. PICK u \in Started : b \in item[u].modified_blocks
      BY <1>2, <2>2, <3>1 DEF ClientsCurrent
    <3>3. u # t
      BY <3>1, <3>2
    <3>. QED BY <2>1, <3>2, <3>3
  <2>3. Started' = Started
    BY <1>2 DEF Started
  <2>. QED BY <2>2, <2>3 DEF ClientsCurrent
<1>8. \A q \in Peer : held'[q] \subseteq held[q]
  BY <1>2
<1>9. \A u \in Started : /\ pc'[u] = "make" => pc[u] = "make"
                         /\ item'[u].pos = item[u].pos \/ pc'[u] # "make"
  BY <1>1, <1>2, StartedThreads DEF ThreadsTyped
<1>10. WorldFits'
  BY <1>2, <1>8, <1>9, WorldKept
<1>. QED BY <1>4, <1>5, <1>6, <1>7, <1>10

\* What the server thread does to the map and with the clients.
LEMMA ServerWorlds ==
    ASSUME Worlds, Queues, CallsStarted,
           \/ \E q \in Asker, p \in Pos, flags \in {{}, {"ALLOW_GEN"}} : Request(q, p, flags)
           \/ \E area \in Areas : StartEmergeArea(area)
           \/ EmergeAreaBlock
           \/ \E t \in signalling : Signal(t)
           \/ startThreads \/ Shutdown \/ \E t \in Started : stopThreads(t)
           \/ \E q \in Peer, p \in Pos : SendBlock(q, p)
           \/ \E p \in Pos : Unload(p)
           \/ \E blocks \in SUBSET there : DeleteArea(blocks)
           \/ SendMapEdits
           \/ UNCHANGED vars
    PROVE  Worlds'
<1>. USE DEF Worlds, queues, server, thread, world
<1>1. nthreads' = nthreads /\ item' = item /\ loaded' = loaded
      /\ generated' \subseteq generated /\ Known \subseteq Known'
      /\ deleted \subseteq deleted' /\ there \cup deleted \subseteq there' \cup deleted'
  BY DEF Request, StartEmergeArea, EmergeAreaBlock, Signal, startThreads, Shutdown,
     stopThreads, SendBlock, Unload, DeleteArea, SendMapEdits, vars, Known
<1>2. WorldTyped'
  BY DEF Request, StartEmergeArea, EmergeAreaBlock, Signal, startThreads, Shutdown,
     stopThreads, SendBlock, Unload, DeleteArea, SendMapEdits, vars, WorldTyped
<1>3. getOptimalThread \in Thread
  BY OptimalThread DEF Queues
<1>4. signalling' \subseteq Thread
  <2>1. CASE \E q \in Asker, p \in Pos, flags \in {{}, {"ALLOW_GEN"}} : Request(q, p, flags)
    <3>1. signalling' \subseteq signalling \cup {getOptimalThread}
      BY <2>1 DEF Request, enqueueBlockEmergeEx, AddToEntry, AddEntry
    <3>. QED BY <1>3, <3>1 DEF ThreadsTyped
  <2>2. CASE EmergeAreaBlock
    <3>1. signalling' \subseteq signalling \cup {getOptimalThread}
      BY <2>2 DEF EmergeAreaBlock, enqueueBlockEmergeEx, AddToEntry, AddEntry
    <3>. QED BY <1>3, <3>1 DEF ThreadsTyped
  <2>3. CASE \E t \in Started : stopThreads(t)
    BY <2>3, StartedThreads DEF stopThreads, ThreadsTyped
  <2>4. CASE \/ \E area \in Areas : StartEmergeArea(area)
             \/ \E t \in signalling : Signal(t)
             \/ startThreads \/ Shutdown
             \/ \E q \in Peer, p \in Pos : SendBlock(q, p)
             \/ \E p \in Pos : Unload(p)
             \/ \E blocks \in SUBSET there : DeleteArea(blocks)
             \/ SendMapEdits
             \/ UNCHANGED vars
    <3>1. signalling' \subseteq signalling
      BY <2>4 DEF StartEmergeArea, Signal, startThreads, Shutdown, SendBlock, Unload,
         DeleteArea, SendMapEdits, vars
    <3>. QED BY <3>1 DEF ThreadsTyped
  <2>. QED BY <2>1, <2>2, <2>3, <2>4
<1>5. emerging' \subseteq Pos
  BY EmergeAssumption DEF Request, StartEmergeArea, EmergeAreaBlock, Signal, startThreads,
     Shutdown, stopThreads, SendBlock, Unload, DeleteArea, SendMapEdits, vars, ThreadsTyped
<1>6. shutdown' \in BOOLEAN
  BY DEF Request, StartEmergeArea, EmergeAreaBlock, Signal, startThreads, Shutdown,
     stopThreads, SendBlock, Unload, DeleteArea, SendMapEdits, vars, ThreadsTyped
<1>7. notified' \in [Thread -> BOOLEAN] /\ stop' \in [Thread -> BOOLEAN]
  BY DEF Request, StartEmergeArea, EmergeAreaBlock, Signal, startThreads, Shutdown,
     stopThreads, SendBlock, Unload, DeleteArea, SendMapEdits, vars, ThreadsTyped
<1>8. pc' = pc
      \/ /\ \A t \in Thread : pc[t] = "new"
         /\ pc' = [t \in Thread |-> IF t \in Started THEN "loop" ELSE "new"]
  BY DEF Request, StartEmergeArea, EmergeAreaBlock, Signal, startThreads, Shutdown,
     stopThreads, SendBlock, Unload, DeleteArea, SendMapEdits, vars
<1>9. pc' \in [Thread -> Place] /\ \A t \in Thread : pc'[t] = "make" => pc[t] = "make"
  BY <1>8 DEF ThreadsTyped, Place
<1>10. ThreadsTyped'
  BY <1>1, <1>4, <1>5, <1>6, <1>7, <1>9 DEF ThreadsTyped, Thread, Place, Item
<1>11. Thread' = Thread /\ Started' = Started
  BY <1>1 DEF Thread, Started
<1>12. ItemsFit'
  <2>1. CASE pc' = pc
    BY <1>1, <1>11, <2>1 DEF ItemsFit
  <2>2. CASE /\ \A t \in Thread : pc[t] = "new"
             /\ pc' = [t \in Thread |-> IF t \in Started THEN "loop" ELSE "new"]
    BY <1>1, <1>11, <2>2 DEF ItemsFit, Idle
  <2>. QED BY <1>8, <2>1, <2>2
<1>13. ClientsCurrent'
  <2>1. CASE SendMapEdits
    <3>1. stale' = [q \in Peer |-> stale[q] \ m_unsent_map_edit_queue]
      BY <2>1 DEF SendMapEdits
    <3>. QED BY <1>1, <1>11, <3>1 DEF ClientsCurrent
  <2>2. CASE ~ SendMapEdits
    <3>1. /\ m_unsent_map_edit_queue \subseteq m_unsent_map_edit_queue'
          /\ \A q \in Peer : \A b \in stale'[q] :
                b \in stale[q] \/ b \in m_unsent_map_edit_queue'
      BY <2>2 DEF Request, StartEmergeArea, EmergeAreaBlock, Signal, startThreads, Shutdown,
         stopThreads, SendBlock, Unload, DeleteArea, vars, WorldTyped
    <3>. QED BY <1>1, <3>1, ClientsKept
  <2>. QED BY <2>1, <2>2
<1>14. \A q \in Peer : held'[q] \subseteq held[q] \cup memory
  BY DEF Request, StartEmergeArea, EmergeAreaBlock, Signal, startThreads, Shutdown,
     stopThreads, SendBlock, Unload, DeleteArea, SendMapEdits, vars, WorldTyped
<1>15. WorldFits'
  BY <1>1, <1>9, <1>14, StartedThreads, WorldKept DEF ThreadsTyped
<1>. QED BY <1>2, <1>10, <1>12, <1>13, <1>15

\* Each action keeps what concerns map, clients and the work of the threads.
LEMMA WorldsKept ==
    ASSUME Worlds, Queues, CallsStarted, CallsTyped, CallbacksFit, [Next]_vars PROVE Worlds'
  BY ServerWorlds, LoopWorlds, GetWorlds, FinishGenWorlds, CallbackWorlds, SetNotSentWorlds
     DEF Next, ThreadStep, Asker

-----------------------------------------------------------------------------
(* The calls of emerge_area() *)

CallsFit == OnePlace /\ CallbacksFit /\ AnswersFit /\ RefcountsFit /\ OneThreadCounts

State == Queues /\ Worlds /\ CallsTyped /\ CallsFit

\* A call has a finite area, and its answers are of different blocks.
LEMMA CallFacts ==
    ASSUME State, NEW c \in DOMAIN calls
    PROVE  /\ calls[c] \in Call /\ c \in 1 .. MaxCalls /\ c \in 1 .. Len(calls)
           /\ calls[c].area \subseteq Pos /\ IsFiniteSet(calls[c].area)
           /\ Cardinality(calls[c].area) \in Nat
           /\ Left(c) \subseteq calls[c].area
           /\ IsFiniteSet(Left(c)) /\ Cardinality(Left(c)) \in Nat
           /\ IsFiniteSet(AnsweredBlocks(c)) /\ Cardinality(AnsweredBlocks(c)) \in Nat
           /\ calls[c].refcount \in Nat
<1>1. Len(calls) \in Nat /\ DOMAIN calls = 1 .. Len(calls) /\ calls[c] \in Call
  BY QueueFacts DEF State, CallsTyped
<1>2. c \in 1 .. MaxCalls
  BY <1>1, EmergeAssumption DEF State, CallsTyped
<1>3. calls[c].area \in Areas /\ calls[c].refcount \in Nat
  BY <1>1 DEF Call
<1>4. calls[c].area \subseteq Pos
  BY <1>3, EmergeAssumption
<1>5. IsFiniteSet(calls[c].area) /\ Cardinality(calls[c].area) \in Nat
  BY <1>4, EmergeAssumption, FS_Subset, FS_CardinalityType
<1>6. Left(c) \subseteq calls[c].area
  BY DEF Left
<1>7. AnsweredBlocks(c) \subseteq calls[c].area
  BY DEF State, CallsFit, AnswersFit
<1>. QED BY <1>1, <1>2, <1>3, <1>4, <1>5, <1>6, <1>7, FS_Subset, FS_CardinalityType

\* What a thread does with callbacks that are not yet, or no longer, counted.
SameCounting ==
    /\ UNCHANGED <<nthreads, calls, loaded>>
    /\ \A t \in Thread :
          \/ pc[t] \notin {"store", "report"} /\ pc'[t] \notin {"store", "report"}
          \/ pc'[t] = pc[t] /\ item'[t] = item[t]

\* Steps that change no count keep what is said of the counts.
LEMMA CountsKept ==
    ASSUME State, SameCounting,
           \A c \in DOMAIN calls, t \in Thread : AnsweredBlocks(c) = calls[c].area =>
              (Has(item'[t].callbacks, c) <=> Has(item[t].callbacks, c))
    PROVE  AnswersFit' /\ RefcountsFit' /\ OneThreadCounts'
<1>. USE DEF SameCounting
<1>1. Thread' = Thread /\ calls' = calls /\ nthreads' = nthreads /\ loaded' = loaded
  BY DEF Thread
<1>2. \A c : AnsweredBlocks(c)' = AnsweredBlocks(c)
  BY <1>1 DEF AnsweredBlocks
<1>3. \A t \in Thread : \A c :
         /\ pc'[t] = "report" /\ Runs(t, c)' <=> pc[t] = "report" /\ Runs(t, c)
         /\ pc'[t] = "store" /\ Runs(t, c)' <=> pc[t] = "store" /\ Runs(t, c)
         /\ pc'[t] = "report" => item'[t] = item[t]
  BY DEF Runs
<1>4. \A c : Left(c)' = Left(c)
  BY <1>1, <1>2, <1>3 DEF Left
<1>5. AnswersFit'
  BY <1>1, <1>2 DEF State, CallsFit, AnswersFit
<1>6. RefcountsFit'
  BY <1>1, <1>3, <1>4 DEF State, CallsFit, RefcountsFit
<1>7. OneThreadCounts'
  <2>1. SUFFICES ASSUME nthreads = 1 PROVE OneThreadCounts'
    BY <1>1 DEF OneThreadCounts
  <2>2. ASSUME NEW c \in DOMAIN calls
        PROVE  /\ calls[c].freed \in {0, 1}
               /\ calls[c].freed = 1 <=> /\ AnsweredBlocks(c) = calls[c].area
                                         /\ \A t \in Thread : ~ Has(item'[t].callbacks, c)
    BY <2>1 DEF State, CallsFit, OneThreadCounts
  <2>3. \A t \in Thread, c \in DOMAIN calls :
           pc'[t] = "store" /\ Runs(t, c)' => loaded[t] = calls[c].refcount
    BY <1>3, <2>1 DEF State, CallsFit, OneThreadCounts
  <2>. QED BY <1>1, <1>2, <1>4, <2>1, <2>2, <2>3 DEF State, CallsFit, OneThreadCounts
<1>. QED BY <1>5, <1>6, <1>7

\* Entries and threads that keep their callbacks.
SameRoutes ==
    /\ UNCHANGED <<calls, emerging>>
    /\ \A p \in DOMAIN m_blocks_enqueued' :
          \/ m_blocks_enqueued'[p].callbacks = <<>>
          \/ /\ p \in DOMAIN m_blocks_enqueued
             /\ m_blocks_enqueued'[p].callbacks = m_blocks_enqueued[p].callbacks
    /\ \A p \in DOMAIN m_blocks_enqueued :
          /\ p \in DOMAIN m_blocks_enqueued'
          /\ m_blocks_enqueued'[p].callbacks = m_blocks_enqueued[p].callbacks
    /\ \A t \in Thread :
          \/ item'[t].callbacks = <<>> /\ item[t].callbacks = <<>>
          \/ item'[t].callbacks = item[t].callbacks /\ item'[t].pos = item[t].pos
    /\ \A t \in Thread : pc[t] = "delete" <=> pc'[t] = "delete"

LEMMA NoCallbacks == Distinct(<<>>) /\ \A c : ~ Has(<<>>, c)
  BY DEF Distinct, Has

\* Steps that move no callback leave each where it is.
LEMMA RoutesKept ==
    ASSUME State, SameRoutes PROVE OnePlace' /\ CallbacksFit'
<1>. USE DEF SameRoutes
<1>1. Thread' = Thread /\ calls' = calls /\ emerging' = emerging
  BY DEF Thread
<1>2. \A c, p : Entered(c, p)' <=> Entered(c, p)
  BY NoCallbacks DEF Entered
<1>3. \A c, p : Waits(c, p)' <=> Waits(c, p)
  BY <1>1 DEF Waits
<1>4. \A t \in Thread : \A c, p : Works(t, c, p)' <=> Works(t, c, p)
  BY NoCallbacks DEF Works
<1>5. \A t \in Thread : \A c : Runs(t, c)' <=> Runs(t, c)
  BY DEF Runs
<1>6. \A c : AnsweredBlocks(c)' = AnsweredBlocks(c)
  BY <1>1 DEF AnsweredBlocks
<1>7. OnePlace'
  BY <1>1, <1>2, <1>3, <1>4, <1>5, <1>6 DEF State, CallsFit, OnePlace
<1>8. CallbacksFit'
  BY <1>1, NoCallbacks DEF State, CallsFit, CallbacksFit
<1>. QED BY <1>7, <1>8

\* The steps that touch no callback.
LEMMA QuietKept ==
    ASSUME State, SameCounting, SameRoutes PROVE CallsTyped' /\ CallsFit'
<1>1. \A c, t : t \in Thread => (Has(item'[t].callbacks, c) <=> Has(item[t].callbacks, c))
  BY NoCallbacks DEF SameRoutes
<1>. QED BY <1>1, CountsKept, RoutesKept DEF State, CallsTyped, CallsFit, SameRoutes, Call

\* The steps of a thread that touch no callback.
LEMMA QuietThreadCalls ==
    ASSUME State, NEW t \in Started,
           \/ EndRun(t) \/ PopNothing(t) \/ Wait(t)
           \/ GetFromMemory(t) \/ GetFromDisk(t) \/ StartGen(t) \/ GetNothing(t)
           \/ FinishGen(t) \/ SetBlocksNotSent(t)
    PROVE  CallsTyped' /\ CallsFit'
<1>. USE DEF queues, server, Goes
<1>1. t \in Thread /\ item \in [Thread -> Item] /\ pc \in [Thread -> Place]
  BY StartedThreads DEF State, Worlds, ThreadsTyped
<1>2. UNCHANGED <<nthreads, m_blocks_enqueued, loaded, emerging, calls>>
  BY DEF EndRun, PopNothing, Wait, GetFromMemory, GetFromDisk, StartGen, GetNothing, Gets,
     FinishGen, SetBlocksNotSent
<1>3. /\ pc[t] \in {"loop", "wait", "get", "make", "callback"}
      /\ pc'[t] \in {"loop", "wait", "ended", "make", "callback"}
      /\ \A u \in Thread \ {t} : pc'[u] = pc[u]
  BY <1>1 DEF EndRun, PopNothing, Wait, GetFromMemory, GetFromDisk, StartGen, GetNothing, Gets,
     FinishGen, SetBlocksNotSent
<1>4. \A u \in Thread \ {t} : item'[u] = item[u]
  BY <1>1 DEF EndRun, PopNothing, Wait, GetFromMemory, GetFromDisk, StartGen, GetNothing, Gets,
     FinishGen, SetBlocksNotSent
<1>5. \/ item'[t].callbacks = <<>> /\ item[t].callbacks = <<>>
      \/ item'[t].callbacks = item[t].callbacks /\ item'[t].pos = item[t].pos
  <2>1. CASE EndRun(t) \/ PopNothing(t) \/ Wait(t)
    BY <2>1 DEF EndRun, PopNothing, Wait
  <2>2. CASE GetFromMemory(t) \/ GetFromDisk(t) \/ StartGen(t) \/ GetNothing(t) \/ FinishGen(t)
    <3>1. item[t] \in Item
      BY <1>1
    <3>2. PICK x : /\ item' = [item EXCEPT ![t] = x]
                   /\ x.callbacks = item[t].callbacks /\ x.pos = item[t].pos
      <4>1. CASE FinishGen(t)
        <5> DEFINE x == [item[t] EXCEPT !.modified_blocks = FullAreaOf(item[t].pos) \cap there]
        <5>1. item' = [item EXCEPT ![t] = x]
          BY <4>1 DEF FinishGen
        <5>2. x.callbacks = item[t].callbacks /\ x.pos = item[t].pos
          BY <3>1 DEF Item
        <5>. QED BY <5>1, <5>2
      <4>2. CASE GetFromMemory(t) \/ GetFromDisk(t) \/ StartGen(t) \/ GetNothing(t)
        <5>1. PICK a, modified_blocks : Gets(t, a, modified_blocks)
          BY <4>2 DEF GetFromMemory, GetFromDisk, StartGen, GetNothing
        <5> DEFINE x == [item[t] EXCEPT !.action = a, !.modified_blocks = modified_blocks]
        <5>2. item' = [item EXCEPT ![t] = x]
          BY <5>1 DEF Gets
        <5>3. x.callbacks = item[t].callbacks /\ x.pos = item[t].pos
          BY <3>1 DEF Item
        <5>. QED BY <5>2, <5>3
      <4>. QED BY <2>2, <4>1, <4>2
    <3>3. item'[t] = x
      BY <1>1, <3>2
    <3>. QED BY <3>2, <3>3
  <2>3. CASE SetBlocksNotSent(t)
    BY <1>1, <2>3, NoItemTyped DEF SetBlocksNotSent
  <2>. QED BY <2>1, <2>2, <2>3
<1>6. SameCounting
  BY <1>2, <1>3, <1>4 DEF SameCounting
<1>7. SameRoutes
  BY <1>2, <1>3, <1>4, <1>5 DEF SameRoutes
<1>. QED BY <1>6, <1>7, QuietKept

\* The steps of the server that touch no callback.
LEMMA QuietServerCalls ==
    ASSUME State,
           \/ \E q \in Asker, p \in Pos, flags \in {{}, {"ALLOW_GEN"}} : Request(q, p, flags)
           \/ \E t \in signalling : Signal(t)
           \/ startThreads \/ Shutdown \/ \E t \in Started : stopThreads(t)
           \/ \E q \in Peer, p \in Pos : SendBlock(q, p)
           \/ \E p \in Pos : Unload(p)
           \/ \E blocks \in SUBSET there : DeleteArea(blocks)
           \/ SendMapEdits
           \/ UNCHANGED vars
    PROVE  CallsTyped' /\ CallsFit'
<1>. USE DEF queues, server, thread
<1>1. UNCHANGED <<nthreads, loaded, item, emerging, calls>>
  BY DEF Request, Signal, startThreads, Shutdown, stopThreads, SendBlock, Unload,
     DeleteArea, SendMapEdits, vars
<1>2. \A t \in Thread : \/ pc'[t] = pc[t]
                        \/ pc[t] = "new" /\ pc'[t] \in {"new", "loop"}
  BY DEF Request, Signal, startThreads, Shutdown, stopThreads, SendBlock, Unload,
     DeleteArea, SendMapEdits, vars
<1>3. SameCounting
  BY <1>1, <1>2 DEF SameCounting
<1>4. /\ \A p \in DOMAIN m_blocks_enqueued' :
            \/ m_blocks_enqueued'[p].callbacks = <<>>
            \/ /\ p \in DOMAIN m_blocks_enqueued
               /\ m_blocks_enqueued'[p].callbacks = m_blocks_enqueued[p].callbacks
      /\ \A p \in DOMAIN m_blocks_enqueued :
            /\ p \in DOMAIN m_blocks_enqueued'
            /\ m_blocks_enqueued'[p].callbacks = m_blocks_enqueued[p].callbacks
  <2>1. CASE UNCHANGED m_blocks_enqueued
    BY <2>1
  <2>2. ASSUME NEW q \in Asker, NEW p \in Pos, NEW flags \in {{}, {"ALLOW_GEN"}},
               AddToEntry(p, flags, <<>>)
        PROVE  /\ DOMAIN m_blocks_enqueued' = DOMAIN m_blocks_enqueued
               /\ \A b \in DOMAIN m_blocks_enqueued :
                     m_blocks_enqueued'[b].callbacks = m_blocks_enqueued[b].callbacks
    <3>1. p \in DOMAIN m_blocks_enqueued /\ m_blocks_enqueued[p] \in Entry
      BY <2>2 DEF AddToEntry, State, Queues, QueuesTyped
    <3> DEFINE x == [m_blocks_enqueued[p] EXCEPT !.flags = @ \cup flags,
                                                 !.callbacks = @ \o <<>>]
    <3>2. m_blocks_enqueued[p].callbacks \o <<>> = m_blocks_enqueued[p].callbacks
      BY <3>1, ConcatEmptySeq DEF Entry
    <3>3. x.callbacks = m_blocks_enqueued[p].callbacks
      BY <3>1, <3>2 DEF Entry
    <3>4. m_blocks_enqueued' = [m_blocks_enqueued EXCEPT ![p] = x]
      BY <2>2 DEF AddToEntry
    <3> HIDE DEF x
    <3>. QED BY <3>1, <3>3, <3>4
  <2>3. ASSUME NEW q \in Asker, NEW p \in Pos, NEW flags \in {{}, {"ALLOW_GEN"}},
               AddEntry(p, q, flags, <<>>)
        PROVE  /\ DOMAIN m_blocks_enqueued' = DOMAIN m_blocks_enqueued \cup {p}
               /\ p \notin DOMAIN m_blocks_enqueued
               /\ m_blocks_enqueued'[p].callbacks = <<>>
               /\ \A b \in DOMAIN m_blocks_enqueued :
                     m_blocks_enqueued'[b] = m_blocks_enqueued[b]
    BY <2>3 DEF AddEntry
  <2>4. \/ UNCHANGED m_blocks_enqueued
        \/ \E q \in Asker, p \in Pos, flags \in {{}, {"ALLOW_GEN"}} :
              AddToEntry(p, flags, <<>>) \/ AddEntry(p, q, flags, <<>>)
    BY DEF Request, enqueueBlockEmergeEx, Signal, startThreads, Shutdown, stopThreads,
       SendBlock, Unload, DeleteArea, SendMapEdits, vars
  <2>. QED BY <2>1, <2>2, <2>3, <2>4
<1>5. SameRoutes
  BY <1>1, <1>2, <1>4 DEF SameRoutes
<1>. QED BY <1>3, <1>5, QuietKept

-----------------------------------------------------------------------------
(* Callbacks that move *)

\* A callback is added to others, or is the first of others and taken away.
LEMMA CallbackAdded ==
    ASSUME NEW s \in Seq(1 .. MaxCalls), NEW c \in 1 .. MaxCalls, ~ Has(s, c), Distinct(s)
    PROVE  Distinct(s \o <<c>>) /\ \A d : Has(s \o <<c>>, d) <=> Has(s, d) \/ d = c
<1>1. s \o <<c>> = Append(s, c)
  BY AppendIsConcat
<1> DEFINE a == Append(s, c)
<1>2. /\ Len(s) \in Nat /\ DOMAIN s = 1 .. Len(s) /\ DOMAIN a = 1 .. Len(s) + 1
      /\ a[Len(s) + 1] = c /\ \A i \in 1 .. Len(s) : a[i] = s[i]
  BY QueueFacts
<1> HIDE DEF a
<1>3. Distinct(a)
  BY <1>2 DEF Distinct, Has
<1>4. ASSUME NEW d PROVE Has(a, d) <=> Has(s, d) \/ d = c
  <2>1. Has(a, d) => Has(s, d) \/ d = c
    BY <1>2 DEF Has
  <2>2. Has(s, d) => Has(a, d)
    BY <1>2 DEF Has
  <2>3. Has(a, c)
    BY <1>2 DEF Has
  <2>. QED BY <2>1, <2>2, <2>3
<1>. QED BY <1>1, <1>3, <1>4 DEF a

LEMMA CallbackTaken ==
    ASSUME NEW s \in Seq(1 .. MaxCalls), s # <<>>, Distinct(s)
    PROVE  Distinct(Tail(s)) /\ \A d : Has(Tail(s), d) <=> Has(s, d) /\ d # Head(s)
<1> DEFINE a == Tail(s)
<1>1. /\ Len(s) \in Nat /\ Len(s) > 0 /\ DOMAIN s = 1 .. Len(s) /\ Head(s) = s[1]
      /\ DOMAIN a = 1 .. Len(s) - 1 /\ \A i \in 1 .. Len(s) - 1 : a[i] = s[i + 1]
  BY QueueFacts
<1> HIDE DEF a
<1>2. Distinct(a)
  BY <1>1 DEF Distinct
<1>3. ASSUME NEW d PROVE Has(a, d) <=> Has(s, d) /\ d # Head(s)
  <2>1. ASSUME Has(a, d) PROVE Has(s, d) /\ d # Head(s)
    <3>1. PICK i \in DOMAIN a : a[i] = d
      BY <2>1 DEF Has
    <3>2. i + 1 \in DOMAIN s /\ s[i + 1] = d /\ i + 1 # 1 /\ 1 \in DOMAIN s
      BY <1>1, <3>1
    <3>. QED BY <1>1, <3>2 DEF Has, Distinct
  <2>2. ASSUME Has(s, d), d # Head(s) PROVE Has(a, d)
    <3>1. PICK i \in DOMAIN s : s[i] = d
      BY <2>2 DEF Has
    <3>2. i - 1 \in DOMAIN a /\ a[i - 1] = d
      BY <1>1, <2>2, <3>1
    <3>. QED BY <3>2 DEF Has
  <2>. QED BY <2>1, <2>2
<1>. QED BY <1>2, <1>3 DEF a

\* emerge_area() of a script starts.
LEMMA StartCalls ==
    ASSUME State, NEW area \in Areas, StartEmergeArea(area)
    PROVE  CallsTyped' /\ CallsFit'
<1>. USE DEF queues, server, thread
<1> DEFINE new == [area |-> area, refcount |-> Cardinality(area), answers |-> <<>>, freed |-> 0]
<1>1. area \subseteq Pos /\ area # {} /\ IsFiniteSet(area) /\ Cardinality(area) \in Nat
  BY EmergeAssumption, FS_Subset, FS_CardinalityType
<1>2. /\ emerging = {} /\ emerging' = area /\ Len(calls) < MaxCalls
      /\ UNCHANGED <<nthreads, m_blocks_enqueued, pc, item, loaded>>
  BY DEF StartEmergeArea, ServerReady
<1>3. new \in Call
  <2>1. <<>> \in Seq([pos : Pos, action : Action, calls_remaining : Nat])
    BY EmptySeq
  <2>. QED BY <1>1, <2>1 DEF Call
<1>4. calls \in Seq(Call) /\ calls' = Append(calls, new)
  BY DEF StartEmergeArea, State, CallsTyped
<1>5. new.area = area /\ new.refcount = Cardinality(area) /\ new.answers = <<>> /\ new.freed = 0
  OBVIOUS
<1> HIDE DEF new
<1> PICK k : k = Len(calls) + 1
  OBVIOUS
<1>6. /\ Len(calls) \in Nat /\ DOMAIN calls = 1 .. Len(calls) /\ DOMAIN calls' = 1 .. k
      /\ calls'[k] = new /\ \A c \in DOMAIN calls : calls'[c] = calls[c]
      /\ k \notin DOMAIN calls /\ k \in 1 .. MaxCalls
      /\ calls' \in Seq(Call) /\ Len(calls') = k
  BY <1>2, <1>3, <1>4, QueueFacts, AppendProperties, EmergeAssumption
<1>7. CallsTyped'
  BY <1>6, EmergeAssumption DEF CallsTyped, Call
<1>8. Thread' = Thread
  BY DEF Thread
<1>9. /\ \A c, p : Entered(c, p)' <=> Entered(c, p)
      /\ \A t \in Thread : \A c, p : Works(t, c, p)' <=> Works(t, c, p)
      /\ \A t \in Thread : \A c : Runs(t, c)' <=> Runs(t, c)
  BY <1>2 DEF Entered, Works, Runs
<1>10. /\ \A c, p : ~ Waits(c, p)
       /\ \A c, p : Waits(c, p)' <=> c = k /\ p \in area
  BY <1>2, <1>6 DEF Waits
<1>11. /\ \A c \in DOMAIN calls : AnsweredBlocks(c)' = AnsweredBlocks(c)
       /\ AnsweredBlocks(k)' = {}
  BY <1>5, <1>6 DEF AnsweredBlocks
<1>12. /\ \A p : ~ Entered(k, p)
       /\ \A t \in Thread : ~ Has(item[t].callbacks, k)
  BY <1>6 DEF Entered, State, CallsFit, CallbacksFit
<1>13. \A t \in Thread : /\ \A p : ~ Works(t, k, p)
                         /\ pc[t] \in {"store", "report", "delete"} => ~ Runs(t, k)
  <2>1. SUFFICES ASSUME NEW t \in Thread, pc[t] \in {"store", "report", "delete"}, Runs(t, k)
                 PROVE  FALSE
    BY <1>12 DEF Works
  <2>2. item[t].callbacks # <<>>
    BY <2>1 DEF Runs
  <2>3. Head(item[t].callbacks) \in DOMAIN calls
    BY <2>1, <2>2, RunningCall DEF State, Worlds, CallsFit
  <2>. QED BY <1>6, <2>1, <2>3 DEF Runs
<1>14. OnePlace'
  BY <1>2, <1>6, <1>8, <1>9, <1>10, <1>11, <1>12, <1>13 DEF State, CallsFit, OnePlace
<1>15. CallbacksFit'
  <2>1. calls' # <<>> /\ emerging' \subseteq calls'[Len(calls')].area
    BY <1>2, <1>5, <1>6
  <2>. QED BY <1>2, <1>6, <1>8, <2>1 DEF State, CallsFit, CallbacksFit
<1>16. AnswersFit'
  <2>1. /\ {} \subseteq calls'[k].area
        /\ Cardinality({}) = Len(calls'[k].answers)
    BY <1>5, <1>6, FS_EmptySet
  <2>2. ASSUME NEW c \in DOMAIN calls'
        PROVE  /\ AnsweredBlocks(c)' \subseteq calls'[c].area
               /\ Cardinality(AnsweredBlocks(c)') = Len(calls'[c].answers)
    <3>1. CASE c = k
      BY <1>5, <1>6, <1>11, <2>1, <3>1
    <3>2. CASE c \in DOMAIN calls
      BY <1>6, <1>11, <3>2 DEF State, CallsFit, AnswersFit
    <3>. QED BY <1>6, <3>1, <3>2
  <2>. QED BY <2>2 DEF AnswersFit
<1>17. /\ \A c \in DOMAIN calls : Left(c)' = Left(c)
       /\ Left(k)' = area
  BY <1>2, <1>5, <1>6, <1>8, <1>9, <1>11, <1>13 DEF Left
<1>18. RefcountsFit'
  BY <1>1, <1>2, <1>5, <1>6, <1>8, <1>9, <1>13, <1>17 DEF State, CallsFit, RefcountsFit
<1>19. OneThreadCounts'
  <2>1. SUFFICES ASSUME nthreads = 1 PROVE OneThreadCounts'
    BY <1>2 DEF OneThreadCounts
  <2>2. \A t \in Thread, c \in DOMAIN calls' :
           pc[t] = "store" /\ Runs(t, c) => loaded[t] = calls'[c].refcount
    BY <1>6, <1>13, <2>1 DEF State, CallsFit, OneThreadCounts
  <2>3. ASSUME NEW c \in DOMAIN calls'
        PROVE  /\ calls'[c].refcount = Cardinality(Left(c)')
               /\ \A i \in DOMAIN calls'[c].answers :
                     calls'[c].answers[i].calls_remaining = Cardinality(calls'[c].area) - i
               /\ calls'[c].freed \in {0, 1}
               /\ calls'[c].freed = 1 <=> /\ AnsweredBlocks(c)' = calls'[c].area
                                          /\ \A t \in Thread : ~ Has(item[t].callbacks, c)
    <3>1. CASE c = k
      <4>1. AnsweredBlocks(k)' # calls'[k].area
        BY <1>5, <1>6, <1>11, EmergeAssumption
      <4>. QED BY <1>5, <1>6, <1>17, <3>1, <4>1
    <3>2. CASE c \in DOMAIN calls
      BY <1>6, <1>11, <1>17, <2>1, <3>2 DEF State, CallsFit, OneThreadCounts
    <3>. QED BY <1>6, <3>1, <3>2
  <2>. QED BY <1>2, <1>8, <1>9, <2>2, <2>3 DEF OneThreadCounts
<1>. QED BY <1>7, <1>14, <1>15, <1>16, <1>18, <1>19 DEF CallsFit

\* emerge_area() queues a block, and with it the callback.
LEMMA BlockCalls ==
    ASSUME State, EmergeAreaBlock
    PROVE  CallsTyped' /\ CallsFit'
<1>. USE DEF queues, server, thread
<1> PICK k : k = Len(calls)
  OBVIOUS
<1>1. PICK b \in emerging :
         /\ emerging' = emerging \ {b}
         /\ enqueueBlockEmergeEx(b, PEER_ID_INEXISTENT, Flags, <<k>>)
  BY DEF EmergeAreaBlock
<1>2. UNCHANGED <<nthreads, calls, pc, item, loaded>>
  BY DEF EmergeAreaBlock
<1>3. /\ k \in DOMAIN calls /\ k \in 1 .. MaxCalls
      /\ b \in Pos /\ b \in calls[k].area /\ Waits(k, b)
  <2>1. calls \in Seq(Call) /\ calls # <<>> /\ b \in calls[k].area
    BY <1>1 DEF State, CallsTyped, CallsFit, CallbacksFit
  <2>2. k \in DOMAIN calls
    BY <2>1, QueueFacts
  <2>3. calls[k].area \subseteq Pos /\ k \in 1 .. MaxCalls
    BY <2>2, CallFacts
  <2>. QED BY <1>1, <2>1, <2>2, <2>3 DEF Waits
<1>4. ~ Entered(k, b) /\ b \notin AnsweredBlocks(k) /\ \A t \in Thread : ~ Works(t, k, b)
  BY <1>3 DEF State, CallsFit, OnePlace
<1>5. /\ DOMAIN m_blocks_enqueued' = DOMAIN m_blocks_enqueued \cup {b}
      /\ \A p \in DOMAIN m_blocks_enqueued \ {b} :
            m_blocks_enqueued'[p] = m_blocks_enqueued[p]
      /\ Distinct(m_blocks_enqueued'[b].callbacks)
      /\ \A c : Has(m_blocks_enqueued'[b].callbacks, c) <=> Entered(c, b) \/ c = k
  <2>1. CASE AddToEntry(b, Flags, <<k>>)
    <3>1. b \in DOMAIN m_blocks_enqueued /\ m_blocks_enqueued[b] \in Entry
      BY <2>1 DEF AddToEntry, State, Queues, QueuesTyped
    <3> DEFINE s == m_blocks_enqueued[b].callbacks
               x == [m_blocks_enqueued[b] EXCEPT !.flags = @ \cup Flags,
                                                 !.callbacks = @ \o <<k>>]
    <3>2. s \in Seq(1 .. MaxCalls) /\ x.callbacks = s \o <<k>>
      BY <3>1 DEF Entry
    <3>3. m_blocks_enqueued' = [m_blocks_enqueued EXCEPT ![b] = x]
      BY <2>1 DEF AddToEntry
    <3> HIDE DEF x
    <3>4. ~ Has(s, k) /\ Distinct(s) /\ \A c : Entered(c, b) <=> Has(s, c)
      BY <1>4, <3>1 DEF Entered, State, CallsFit, CallbacksFit
    <3>5. Distinct(s \o <<k>>) /\ \A c : Has(s \o <<k>>, c) <=> Has(s, c) \/ c = k
      BY <1>3, <3>2, <3>4, CallbackAdded
    <3>. QED BY <3>1, <3>2, <3>3, <3>4, <3>5
  <2>2. CASE AddEntry(b, PEER_ID_INEXISTENT, Flags, <<k>>)
    <3>1. /\ DOMAIN m_blocks_enqueued' = DOMAIN m_blocks_enqueued \cup {b}
          /\ b \notin DOMAIN m_blocks_enqueued
          /\ \A p \in DOMAIN m_blocks_enqueued \ {b} :
                m_blocks_enqueued'[p] = m_blocks_enqueued[p]
          /\ m_blocks_enqueued'[b].callbacks = <<k>>
      BY <2>2 DEF AddEntry
    <3>2. Distinct(<<k>>) /\ \A c : Has(<<k>>, c) <=> c = k
      BY DEF Distinct, Has
    <3>. QED BY <3>1, <3>2 DEF Entered
  <2>. QED BY <1>1, <2>1, <2>2 DEF enqueueBlockEmergeEx
<1>6. Thread' = Thread
  BY DEF Thread
<1>7. /\ \A t \in Thread : \A c, p : Works(t, c, p)' <=> Works(t, c, p)
      /\ \A t \in Thread : \A c : Runs(t, c)' <=> Runs(t, c)
      /\ \A c : AnsweredBlocks(c)' = AnsweredBlocks(c)
  BY <1>2 DEF Works, Runs, AnsweredBlocks
<1>8. \A c, p : Waits(c, p)' <=> Waits(c, p) /\ p # b
  BY <1>1, <1>2 DEF Waits
<1>9. \A c, p : Waits(c, p) => c = k
  BY DEF Waits
<1>10. \A c, p : Entered(c, p)' <=> Entered(c, p) \/ (c = k /\ p = b)
  BY <1>5 DEF Entered
<1>11. OnePlace'
  BY <1>2, <1>4, <1>6, <1>7, <1>8, <1>9, <1>10 DEF State, CallsFit, OnePlace
<1>12. CallbacksFit'
  <2>1. emerging' \subseteq calls[k].area /\ calls # <<>>
    BY <1>1 DEF State, CallsFit, CallbacksFit
  <2>2. \A p \in DOMAIN m_blocks_enqueued' :
           /\ Distinct(m_blocks_enqueued'[p].callbacks)
           /\ \A c \in 1 .. MaxCalls : Has(m_blocks_enqueued'[p].callbacks, c) =>
                 c \in DOMAIN calls /\ p \in calls[c].area
    BY <1>3, <1>5 DEF Entered, State, CallsFit, CallbacksFit
  <2>. QED BY <1>2, <1>6, <2>1, <2>2 DEF State, CallsFit, CallbacksFit
<1>13. SameCounting
  BY <1>2 DEF SameCounting
<1>14. AnswersFit' /\ RefcountsFit' /\ OneThreadCounts'
  BY <1>2, <1>13, CountsKept
<1>. QED BY <1>2, <1>11, <1>12, <1>14 DEF State, CallsFit, CallsTyped, Call

\* A thread takes a block, and the callbacks with it, or drops them.
LEMMA PopCalls ==
    ASSUME State, NEW t \in Started, Pop(t)
    PROVE  CallsTyped' /\ CallsFit'
<1>. USE DEF server, Goes
<1>1. t \in Thread /\ item \in [Thread -> Item] /\ pc \in [Thread -> Place]
  BY StartedThreads DEF State, Worlds, ThreadsTyped
<1>2. UNCHANGED <<nthreads, loaded, emerging, calls>>
  BY DEF Pop
<1> PICK b : b = Head(m_block_queue[t])
  OBVIOUS
<1>3. b \in Pos /\ b \in DOMAIN m_blocks_enqueued /\ m_blocks_enqueued[b] \in Entry
  BY <1>1, TakenHead DEF Pop, State
<1>4. /\ DOMAIN m_blocks_enqueued' = DOMAIN m_blocks_enqueued \ {b}
      /\ \A p \in DOMAIN m_blocks_enqueued' : m_blocks_enqueued'[p] = m_blocks_enqueued[p]
  BY DEF Pop, popBlockEmergeData
<1>5. /\ pc[t] = "loop" /\ pc'[t] \in {"loop", "get"}
      /\ \A u \in Thread \ {t} : pc'[u] = pc[u] /\ item'[u] = item[u]
  BY <1>1 DEF Pop
<1>6. item[t] = NoItem
  BY <1>1, <1>5 DEF State, Worlds, ItemsFit, Idle
<1>7. \/ item'[t] = item[t]
      \/ item'[t].pos = b /\ item'[t].callbacks = m_blocks_enqueued[b].callbacks
  <2>1. ASSUME item' # item
        PROVE  item' = [item EXCEPT ![t] =
                 [NoItem EXCEPT !.pos = b, !.flags = m_blocks_enqueued[b].flags,
                                !.callbacks = m_blocks_enqueued[b].callbacks]]
    BY <2>1 DEF Pop
  <2> DEFINE x == [NoItem EXCEPT !.pos = b, !.flags = m_blocks_enqueued[b].flags,
                                 !.callbacks = m_blocks_enqueued[b].callbacks]
  <2>2. x.pos = b /\ x.callbacks = m_blocks_enqueued[b].callbacks
    BY DEF NoItem
  <2>3. item' # item => item' = [item EXCEPT ![t] = x]
    BY <2>1
  <2> HIDE DEF x
  <2>. QED BY <1>1, <2>2, <2>3
<1>8. Thread' = Thread
  BY DEF Thread
<1>9. \A c, p : Waits(c, p)' <=> Waits(c, p)
  BY <1>2 DEF Waits
<1>10. \A c : AnsweredBlocks(c)' = AnsweredBlocks(c)
  BY <1>2 DEF AnsweredBlocks
<1>11. \A c, p : Entered(c, p)' <=> Entered(c, p) /\ p # b
  BY <1>4 DEF Entered
<1>12. \A c, p : ~ Works(t, c, p)
  BY <1>6, NoItemTyped, NoCallbacks DEF Works
<1>13. \A c, p : Works(t, c, p)' => p = b /\ Entered(c, p)
  BY <1>3, <1>6, <1>7, NoItemTyped, NoCallbacks DEF Works, Entered
<1>14. \A u \in Thread \ {t} : \A c : /\ \A p : Works(u, c, p)' <=> Works(u, c, p)
                                      /\ Runs(u, c)' <=> Runs(u, c)
  BY <1>5 DEF Works, Runs
<1>15. OnePlace'
  <2>1. ASSUME NEW c \in DOMAIN calls, NEW p \in Pos, NEW u \in Thread, Works(u, c, p)'
        PROVE  /\ ~ Waits(c, p)' /\ ~ Entered(c, p)'
               /\ p \in AnsweredBlocks(c) <=> pc'[u] = "delete" /\ Runs(u, c)'
               /\ \A v \in Thread : Works(v, c, p)' => v = u
    <3>1. CASE u = t
      <4>1. p = b /\ Entered(c, p)
        BY <1>13, <2>1, <3>1
      <4>2. ~ Waits(c, p) /\ p \notin AnsweredBlocks(c) /\ \A v \in Thread : ~ Works(v, c, p)
        BY <4>1 DEF State, CallsFit, OnePlace
      <4>. QED BY <1>5, <1>9, <1>11, <1>14, <3>1, <4>1, <4>2
    <3>2. CASE u # t
      <4>1. /\ Works(u, c, p)
            /\ ~ Waits(c, p) /\ ~ Entered(c, p)
            /\ p \in AnsweredBlocks(c) <=> pc[u] = "delete" /\ Runs(u, c)
            /\ \A v \in Thread : Works(v, c, p) => v = u
        BY <1>14, <2>1, <3>2 DEF State, CallsFit, OnePlace
      <4>2. ~ Works(t, c, p)'
        BY <1>13, <4>1
      <4>. QED BY <1>5, <1>9, <1>11, <1>14, <3>2, <4>1, <4>2
    <3>. QED BY <3>1, <3>2
  <2>2. \A c \in DOMAIN calls, p \in Pos :
           /\ Waits(c, p)' => ~ Entered(c, p)'
           /\ Waits(c, p)' \/ Entered(c, p)' => p \notin AnsweredBlocks(c)
    BY <1>9, <1>11 DEF State, CallsFit, OnePlace
  <2>. QED BY <1>2, <1>8, <1>10, <2>1, <2>2 DEF OnePlace
<1>16. CallbacksFit'
  <2>1. \A p \in DOMAIN m_blocks_enqueued' :
           /\ Distinct(m_blocks_enqueued'[p].callbacks)
           /\ \A c \in 1 .. MaxCalls : Has(m_blocks_enqueued'[p].callbacks, c) =>
                 c \in DOMAIN calls /\ p \in calls[c].area
    BY <1>4 DEF State, CallsFit, CallbacksFit
  <2>2. \A u \in Thread :
           /\ Distinct(item'[u].callbacks)
           /\ \A c \in 1 .. MaxCalls : Has(item'[u].callbacks, c) =>
                 c \in DOMAIN calls /\ item'[u].pos \in calls[c].area
    BY <1>3, <1>5, <1>7 DEF State, CallsFit, CallbacksFit
  <2>. QED BY <1>2, <1>8, <2>1, <2>2 DEF State, CallsFit, CallbacksFit
<1>17. SameCounting
  BY <1>2, <1>5 DEF SameCounting
<1>18. \A c \in DOMAIN calls, u \in Thread : AnsweredBlocks(c) = calls[c].area =>
          (Has(item'[u].callbacks, c) <=> Has(item[u].callbacks, c))
  <2>1. SUFFICES ASSUME NEW c \in DOMAIN calls, Has(item'[t].callbacks, c),
                        ~ Has(item[t].callbacks, c)
                 PROVE  AnsweredBlocks(c) # calls[c].area
    <3>1. \A c : ~ Has(item[t].callbacks, c)
      BY <1>6, NoItemTyped, NoCallbacks
    <3>. QED BY <1>5, <3>1
  <2>2. Entered(c, b)
    BY <1>3, <1>7, <2>1 DEF Entered
  <2>3. b \notin AnsweredBlocks(c)
    BY <1>3, <2>2 DEF State, CallsFit, OnePlace
  <2>4. b \in calls[c].area
    BY <2>2, CallFacts DEF Entered, State, CallsFit, CallbacksFit
  <2>. QED BY <2>3, <2>4
<1>19. AnswersFit' /\ RefcountsFit' /\ OneThreadCounts'
  BY <1>17, <1>18, CountsKept
<1>. QED BY <1>2, <1>15, <1>16, <1>19 DEF State, CallsFit, CallsTyped, Call

-----------------------------------------------------------------------------
(* Callbacks that run *)

\* The callback that a thread runs is at no other place.
LEMMA RunningFacts ==
    ASSUME State, NEW t \in Started, item[t].callbacks # <<>>, pc[t] \notin Idle
    PROVE  LET k == Head(item[t].callbacks)
               b == item[t].pos
           IN  /\ k \in DOMAIN calls /\ k \in 1 .. MaxCalls
               /\ b \in Pos /\ b \in calls[k].area
               /\ Has(item[t].callbacks, k) /\ Runs(t, k) /\ Works(t, k, b)
               /\ b \in AnsweredBlocks(k) <=> pc[t] = "delete"
               /\ \A u \in Thread : Runs(u, k) /\ item[u].pos = b => u = t
               /\ b \in Left(k) <=> pc[t] \notin {"report", "delete"}
<1> DEFINE k == Head(item[t].callbacks)
           b == item[t].pos
<1>1. t \in Thread
  BY StartedThreads DEF State, Worlds, ThreadsTyped
<1>2. k \in DOMAIN calls /\ k \in 1 .. MaxCalls /\ Has(item[t].callbacks, k) /\ b \in calls[k].area
  BY <1>1, RunningCall DEF State, Worlds, CallsFit
<1>3. b \in Pos
  BY <1>1 DEF State, Worlds, ItemsFit
<1>4. Runs(t, k) /\ Works(t, k, b)
  BY <1>2 DEF Runs, Works
<1>5. /\ b \in AnsweredBlocks(k) <=> pc[t] = "delete"
      /\ \A u \in Thread : Works(u, k, b) => u = t
  BY <1>1, <1>2, <1>3, <1>4 DEF State, CallsFit, OnePlace
<1>6. ASSUME NEW u \in Thread, Runs(u, k), item[u].pos = b PROVE u = t
  <2>1. Has(item[u].callbacks, k)
    BY <1>6, RunningCall DEF Runs, State, Worlds, CallsFit
  <2>. QED BY <1>5, <1>6, <2>1 DEF Works
<1>7. b \in Left(k) <=> pc[t] \notin {"report", "delete"}
  BY <1>1, <1>2, <1>4, <1>5, <1>6 DEF Left
<1>. QED BY <1>2, <1>3, <1>4, <1>5, <1>6, <1>7

\* Only one thread is at work if only one was started.
LEMMA OneAtWork ==
    ASSUME State, nthreads = 1, NEW t \in Started
    PROVE  \A u \in Thread \ {t} : pc[u] = "new" /\ item[u] = NoItem
  BY StartedThreads DEF State, Worlds, ThreadsTyped, ItemsFit, Idle

\* LuaEmergeAreaCallback() reads the refcount ...
LEMMA LoadCalls ==
    ASSUME State, NEW t \in Started, LoadRefcount(t)
    PROVE  CallsTyped' /\ CallsFit'
<1>. USE DEF queues, server, Goes
<1>1. t \in Thread /\ pc \in [Thread -> Place] /\ loaded \in [Thread -> Nat]
  BY StartedThreads DEF State, Worlds, ThreadsTyped
<1> PICK k : k = Head(item[t].callbacks)
  OBVIOUS
<1>2. /\ UNCHANGED <<nthreads, m_blocks_enqueued, emerging, calls, item>>
      /\ item[t].callbacks # <<>> /\ pc[t] = "callback" /\ pc'[t] = "store"
      /\ loaded'[t] = calls[k].refcount
      /\ \A u \in Thread \ {t} : pc'[u] = pc[u] /\ loaded'[u] = loaded[u]
  BY <1>1 DEF LoadRefcount
<1>3. SameRoutes
  BY <1>2 DEF SameRoutes
<1>4. Thread' = Thread
  BY DEF Thread
<1>5. /\ \A c : AnsweredBlocks(c)' = AnsweredBlocks(c)
      /\ \A u \in Thread : \A c : Runs(u, c)' <=> Runs(u, c)
      /\ \A c : Runs(t, c) <=> c = k
  BY <1>2 DEF AnsweredBlocks, Runs
<1>6. \A u \in Thread : pc'[u] = "report" <=> pc[u] = "report"
  BY <1>2
<1>7. \A c : Left(c)' = Left(c)
  BY <1>2, <1>4, <1>5, <1>6 DEF Left
<1>8. AnswersFit'
  BY <1>2, <1>5 DEF State, CallsFit, AnswersFit
<1>9. RefcountsFit'
  <2>1. ASSUME NEW u \in Thread, NEW c \in DOMAIN calls, pc'[u] = "store", Runs(u, c)
        PROVE  Cardinality(Left(c)) =< loaded'[u] /\ loaded'[u] =< Cardinality(calls[c].area)
    BY <1>2, <1>5, <2>1 DEF State, CallsFit, RefcountsFit
  <2>2. \A c \in DOMAIN calls : /\ Cardinality(Left(c)) =< calls[c].refcount
                                /\ calls[c].refcount =< Cardinality(calls[c].area)
    BY DEF State, CallsFit, RefcountsFit
  <2>. QED BY <1>2, <1>4, <1>5, <1>7, <2>1, <2>2 DEF RefcountsFit
<1>10. OneThreadCounts'
  <2>1. SUFFICES ASSUME nthreads = 1 PROVE OneThreadCounts'
    BY <1>2 DEF OneThreadCounts
  <2>2. \A u \in Thread, c \in DOMAIN calls :
           pc'[u] = "store" /\ Runs(u, c) => loaded'[u] = calls[c].refcount
    BY <1>2, <1>5, <2>1 DEF State, CallsFit, OneThreadCounts
  <2>. QED BY <1>2, <1>4, <1>5, <1>7, <2>1, <2>2 DEF State, CallsFit, OneThreadCounts
<1>. QED BY <1>2, <1>3, <1>8, <1>9, <1>10, RoutesKept DEF State, CallsTyped, CallsFit, Call

\* One call changes.
LEMMA CallChanged ==
    ASSUME CallsTyped, NEW k \in DOMAIN calls, NEW x \in Call, calls' = [calls EXCEPT ![k] = x]
    PROVE  /\ DOMAIN calls' = DOMAIN calls /\ calls'[k] = x
           /\ \A c \in DOMAIN calls \ {k} : calls'[c] = calls[c]
           /\ Len(calls') = Len(calls)
           /\ calls # <<>> <=> calls' # <<>>
           /\ CallsTyped'
<1>1. calls \in [1 .. Len(calls) -> Call] /\ Len(calls) \in Nat
  BY LenProperties DEF CallsTyped
<1>2. calls' \in [1 .. Len(calls) -> Call]
  BY <1>1
<1>3. calls' \in Seq(Call)
  BY <1>1, <1>2 DEF Seq
<1>4. Len(calls') = Len(calls)
  BY <1>1, <1>2, <1>3, LenProperties
<1>5. calls # <<>> <=> calls' # <<>>
  BY <1>3, <1>4, EmptySeq DEF CallsTyped
<1>. QED BY <1>3, <1>4, <1>5 DEF CallsTyped, Call

\* ... stores it, one less ...
LEMMA StoreCalls ==
    ASSUME State, NEW t \in Started, StoreRefcount(t)
    PROVE  CallsTyped' /\ CallsFit'
<1>. USE DEF queues, server, Goes
<1>1. t \in Thread /\ pc \in [Thread -> Place] /\ loaded \in [Thread -> Nat]
  BY StartedThreads DEF State, Worlds, ThreadsTyped
<1> PICK k : k = Head(item[t].callbacks)
  OBVIOUS
<1> PICK b : b = item[t].pos
  OBVIOUS
<1>2. /\ UNCHANGED <<nthreads, m_blocks_enqueued, emerging, item>>
      /\ pc[t] = "store" /\ pc'[t] = "report"
      /\ calls' = [calls EXCEPT ![k].refcount = loaded[t] - 1]
      /\ \A u \in Thread \ {t} : pc'[u] = pc[u] /\ loaded'[u] = loaded[u]
  BY <1>1 DEF StoreRefcount
<1>3. item[t].callbacks # <<>> /\ pc[t] \notin Idle
  BY <1>1, <1>2 DEF State, Worlds, ItemsFit, Idle
<1>4. /\ k \in DOMAIN calls /\ b \in calls[k].area /\ Runs(t, k)
      /\ b \in Left(k) /\ \A u \in Thread : Runs(u, k) /\ item[u].pos = b => u = t
      /\ Has(item[t].callbacks, k)
  BY <1>2, <1>3, RunningFacts
<1>5. \A c \in DOMAIN calls :
         /\ calls[c] \in Call /\ IsFiniteSet(Left(c)) /\ Cardinality(Left(c)) \in Nat
         /\ Cardinality(calls[c].area) \in Nat /\ calls[c].refcount \in Nat
  BY CallFacts
<1>6. /\ Cardinality(Left(k)) =< loaded[t] /\ loaded[t] =< Cardinality(calls[k].area)
      /\ loaded[t] \in Nat
  BY <1>1, <1>2, <1>4 DEF State, CallsFit, RefcountsFit
<1>7. Cardinality(Left(k)) > 0
  BY <1>4, <1>5, FS_EmptySet
<1> DEFINE x == [calls[k] EXCEPT !.refcount = loaded[t] - 1]
<1>8. /\ x \in Call /\ x.refcount = loaded[t] - 1
      /\ x.area = calls[k].area /\ x.answers = calls[k].answers /\ x.freed = calls[k].freed
  <2>1. calls[k] \in Call /\ Cardinality(Left(k)) \in Nat
    BY <1>4, <1>5
  <2>2. loaded[t] - 1 \in Nat
    BY <1>6, <1>7, <2>1
  <2>. QED BY <2>1, <2>2 DEF Call
<1>9. calls' = [calls EXCEPT ![k] = x]
  BY <1>2
<1> HIDE DEF x
<1>10. /\ DOMAIN calls' = DOMAIN calls /\ calls'[k] = x
       /\ \A c \in DOMAIN calls \ {k} : calls'[c] = calls[c]
       /\ Len(calls') = Len(calls)
       /\ calls # <<>> <=> calls' # <<>>
       /\ CallsTyped'
  BY <1>4, <1>8, <1>9, CallChanged DEF State
<1>12. /\ Thread' = Thread
       /\ \A c \in DOMAIN calls : /\ calls'[c].area = calls[c].area
                                  /\ calls'[c].answers = calls[c].answers
                                  /\ calls'[c].freed = calls[c].freed
  BY <1>8, <1>10 DEF Thread
<1>13. /\ \A c \in DOMAIN calls : AnsweredBlocks(c)' = AnsweredBlocks(c)
       /\ \A u \in Thread : \A c : Runs(u, c)' <=> Runs(u, c)
       /\ \A c, p : Waits(c, p)' <=> Waits(c, p)
       /\ \A c, p : Entered(c, p)' <=> Entered(c, p)
       /\ \A u \in Thread : \A c, p : Works(u, c, p)' <=> Works(u, c, p)
  BY <1>2, <1>10, <1>12 DEF AnsweredBlocks, Runs, Waits, Entered, Works
<1>14. OnePlace'
  BY <1>2, <1>10, <1>12, <1>13 DEF State, CallsFit, OnePlace
<1>15. CallbacksFit'
  <2>1. emerging # {} => Len(calls) \in DOMAIN calls
    BY QueueFacts DEF State, CallsFit, CallbacksFit, CallsTyped
  <2>. QED BY <1>2, <1>10, <1>12, <2>1 DEF State, CallsFit, CallbacksFit
<1>16. AnswersFit'
  BY <1>10, <1>12, <1>13 DEF State, CallsFit, AnswersFit
<1>17. \A c : Runs(t, c) <=> c = k
  BY <1>3 DEF Runs
<1>18. /\ Left(k)' = Left(k) \ {b}
       /\ \A c \in DOMAIN calls \ {k} : Left(c)' = Left(c)
  <2>1. \A u \in Thread : \A p : \A c \in DOMAIN calls :
           pc'[u] = "report" /\ Runs(u, c)' /\ item'[u].pos = p <=>
              \/ pc[u] = "report" /\ Runs(u, c) /\ item[u].pos = p
              \/ u = t /\ c = k /\ p = b
    BY <1>2, <1>13, <1>17
  <2> DEFINE Reported(c, p) ==
                \E u \in Thread : pc[u] = "report" /\ Runs(u, c) /\ item[u].pos = p
             ReportedNext(c, p) ==
                \E u \in Thread : pc'[u] = "report" /\ Runs(u, c)' /\ item'[u].pos = p
  <2>2. \A c \in DOMAIN calls : \A p :
           ReportedNext(c, p) <=> Reported(c, p) \/ (c = k /\ p = b)
    <3>1. t \in Thread
      BY <1>1
    <3>2. SUFFICES ASSUME NEW c \in DOMAIN calls, NEW p
                   PROVE  ReportedNext(c, p) <=> Reported(c, p) \/ (c = k /\ p = b)
      OBVIOUS
    <3>3. \A u \in Thread : pc'[u] = "report" /\ Runs(u, c)' /\ item'[u].pos = p <=>
             (pc[u] = "report" /\ Runs(u, c) /\ item[u].pos = p) \/ (u = t /\ c = k /\ p = b)
      BY <2>1
    <3>. QED BY ONLY <3>1, <3>3
  <2>3. \A c \in DOMAIN calls : Left(c) =
           {p \in calls[c].area \ AnsweredBlocks(c) : ~ Reported(c, p)}
    BY DEF Left
  <2>4. \A c \in DOMAIN calls : Left(c)' =
           {p \in calls[c].area \ AnsweredBlocks(c) : ~ ReportedNext(c, p)}
    BY <1>10, <1>12, <1>13 DEF Left
  <2> HIDE DEF Reported, ReportedNext
  <2>. QED BY <1>4, <2>2, <2>3, <2>4
<1>19. Cardinality(Left(k)') = Cardinality(Left(k)) - 1
  BY <1>4, <1>5, <1>18, FS_RemoveElement
<1>20. RefcountsFit'
  <2>1. ASSUME NEW c \in DOMAIN calls
        PROVE  /\ Cardinality(Left(c)') =< calls'[c].refcount
               /\ calls'[c].refcount =< Cardinality(calls[c].area)
    <3>1. CASE c = k
      BY <1>5, <1>6, <1>8, <1>10, <1>19, <3>1
    <3>2. CASE c # k
      BY <1>10, <1>18, <3>2 DEF State, CallsFit, RefcountsFit
    <3>. QED BY <3>1, <3>2
  <2>2. ASSUME NEW u \in Thread, NEW c \in DOMAIN calls, pc'[u] = "store", Runs(u, c)
        PROVE  Cardinality(Left(c)') =< loaded'[u] /\ loaded'[u] =< Cardinality(calls[c].area)
    <3>1. u # t /\ loaded'[u] = loaded[u] /\ loaded[u] \in Nat
      BY <1>1, <1>2, <2>2
    <3>2. Cardinality(Left(c)) =< loaded[u] /\ loaded[u] =< Cardinality(calls[c].area)
      BY <1>2, <2>2, <3>1 DEF State, CallsFit, RefcountsFit
    <3>3. Cardinality(Left(c)') =< Cardinality(Left(c)) /\ Cardinality(Left(c)') \in Int
      BY <1>5, <1>18, <1>19
    <3>. QED BY <1>5, <3>1, <3>2, <3>3
  <2>. QED BY <1>10, <1>12, <1>13, <2>1, <2>2 DEF RefcountsFit
<1>21. OneThreadCounts'
  <2>1. SUFFICES ASSUME nthreads = 1 PROVE OneThreadCounts'
    BY <1>2 DEF OneThreadCounts
  <2>2. \A c \in DOMAIN calls : calls'[c].refcount = Cardinality(Left(c)')
    <3>1. loaded[t] = Cardinality(Left(k))
      BY <1>1, <1>2, <1>4, <2>1 DEF State, CallsFit, OneThreadCounts
    <3>2. \A c \in DOMAIN calls : calls[c].refcount = Cardinality(Left(c))
      BY <2>1 DEF State, CallsFit, OneThreadCounts
    <3>. QED BY <1>8, <1>10, <1>18, <1>19, <3>1, <3>2
  <2>3. \A u \in Thread : pc'[u] # "store"
    BY <1>2, <2>1, OneAtWork
  <2>4. \A c \in DOMAIN calls :
           /\ \A i \in DOMAIN calls[c].answers :
                 calls[c].answers[i].calls_remaining = Cardinality(calls[c].area) - i
           /\ calls[c].freed \in {0, 1}
           /\ calls[c].freed = 1 <=> /\ AnsweredBlocks(c) = calls[c].area
                                     /\ \A u \in Thread : ~ Has(item[u].callbacks, c)
    BY <2>1 DEF State, CallsFit, OneThreadCounts
  <2>. QED BY <1>2, <1>10, <1>12, <1>13, <2>2, <2>3, <2>4 DEF OneThreadCounts
<1>. QED BY <1>10, <1>14, <1>15, <1>16, <1>20, <1>21 DEF CallsFit

LEMMA RangeGrows ==
    \A n \in Nat : /\ \A i \in 1 .. n + 1 : i \in 1 .. n \/ i = n + 1
                   /\ \A i \in 1 .. n : i \in 1 .. n + 1
                   /\ n + 1 \in 1 .. n + 1
  OBVIOUS

\* ... tells the script ...
LEMMA ReportCalls ==
    ASSUME State, NEW t \in Started, Report(t)
    PROVE  CallsTyped' /\ CallsFit'
<1>. USE DEF queues, server, Goes
<1>1. t \in Thread /\ pc \in [Thread -> Place] /\ item \in [Thread -> Item]
  BY StartedThreads DEF State, Worlds, ThreadsTyped
<1> PICK k : k = Head(item[t].callbacks)
  OBVIOUS
<1> PICK b : b = item[t].pos
  OBVIOUS
<1> DEFINE answer == [pos |-> b, action |-> item[t].action, calls_remaining |-> calls[k].refcount]
           x == [calls[k] EXCEPT !.answers = Append(@, answer)]
<1>2. /\ UNCHANGED <<nthreads, m_blocks_enqueued, emerging, item, loaded>>
      /\ pc[t] = "report" /\ pc'[t] = "delete"
      /\ calls' = [calls EXCEPT ![k] = x]
      /\ \A u \in Thread \ {t} : pc'[u] = pc[u]
  BY <1>1 DEF Report
<1>3. item[t].callbacks # <<>> /\ pc[t] \notin Idle
  BY <1>1, <1>2 DEF State, Worlds, ItemsFit, Idle
<1>4. /\ k \in DOMAIN calls /\ b \in Pos /\ b \in calls[k].area /\ Runs(t, k)
      /\ b \notin Left(k) /\ b \notin AnsweredBlocks(k) /\ Has(item[t].callbacks, k)
      /\ \A u \in Thread : Runs(u, k) /\ item[u].pos = b => u = t
  BY <1>2, <1>3, RunningFacts
<1>5. \A c \in DOMAIN calls :
         /\ calls[c] \in Call /\ IsFiniteSet(Left(c)) /\ Cardinality(Left(c)) \in Nat
         /\ IsFiniteSet(AnsweredBlocks(c)) /\ Cardinality(AnsweredBlocks(c)) \in Nat
         /\ IsFiniteSet(calls[c].area)
         /\ Cardinality(calls[c].area) \in Nat /\ calls[c].refcount \in Nat
  BY CallFacts
<1> PICK n : n = Len(calls[k].answers)
  OBVIOUS
<1>6. /\ answer \in [pos : Pos, action : Action, calls_remaining : Nat]
      /\ answer.pos = b /\ answer.calls_remaining = calls[k].refcount
  BY <1>1, <1>4, <1>5 DEF Item
<1> HIDE DEF answer
<1>7. /\ calls[k].answers \in Seq([pos : Pos, action : Action, calls_remaining : Nat])
      /\ x.answers = Append(calls[k].answers, answer)
      /\ x.area = calls[k].area /\ x.refcount = calls[k].refcount /\ x.freed = calls[k].freed
  BY <1>4, <1>5 DEF Call
<1>8. /\ n \in Nat /\ DOMAIN calls[k].answers = 1 .. n
      /\ x.answers \in Seq([pos : Pos, action : Action, calls_remaining : Nat])
      /\ DOMAIN x.answers = 1 .. n + 1 /\ Len(x.answers) = n + 1
      /\ x.answers[n + 1] = answer
      /\ \A i \in 1 .. n : x.answers[i] = calls[k].answers[i]
  <2> DEFINE A == [pos : Pos, action : Action, calls_remaining : Nat]
  <2>1. calls[k].answers \in Seq(A) /\ answer \in A /\ x.answers = Append(calls[k].answers, answer)
    BY <1>6, <1>7
  <2> HIDE DEF A, x
  <2> DEFINE s == calls[k].answers
  <2>2. s \in Seq(A) /\ n = Len(s) /\ x.answers = Append(s, answer)
    BY <2>1
  <2> HIDE DEF s
  <2>3. n \in Nat /\ DOMAIN s = 1 .. n
    BY <2>2, QueueFacts
  <2>4. /\ Append(s, answer) \in Seq(A) /\ DOMAIN Append(s, answer) = 1 .. n + 1
        /\ Append(s, answer)[n + 1] = answer
        /\ \A i \in 1 .. n : Append(s, answer)[i] = s[i]
    BY <2>1, <2>2, QueueFacts
  <2>5. Len(Append(s, answer)) = n + 1
    BY <2>1, <2>2, AppendProperties
  <2>. QED BY <2>2, <2>3, <2>4, <2>5 DEF A, s
<1>9. x \in Call
  BY <1>4, <1>5, <1>8 DEF Call
<1> HIDE DEF x
<1>10. /\ DOMAIN calls' = DOMAIN calls /\ calls'[k] = x
       /\ \A c \in DOMAIN calls \ {k} : calls'[c] = calls[c]
       /\ Len(calls') = Len(calls)
       /\ calls # <<>> <=> calls' # <<>>
       /\ CallsTyped'
  BY <1>2, <1>4, <1>9, CallChanged DEF State
<1>11. /\ Thread' = Thread
       /\ \A c \in DOMAIN calls : /\ calls'[c].area = calls[c].area
                                  /\ calls'[c].refcount = calls[c].refcount
                                  /\ calls'[c].freed = calls[c].freed
  BY <1>7, <1>10 DEF Thread
<1>12. /\ AnsweredBlocks(k)' = AnsweredBlocks(k) \cup {b}
       /\ \A c \in DOMAIN calls \ {k} : AnsweredBlocks(c)' = AnsweredBlocks(c)
  <2>1. AnsweredBlocks(k)' = {x.answers[i].pos : i \in 1 .. n + 1}
    BY <1>8, <1>10 DEF AnsweredBlocks
  <2>2. AnsweredBlocks(k) = {x.answers[i].pos : i \in 1 .. n}
    BY <1>8 DEF AnsweredBlocks
  <2>3. {x.answers[i].pos : i \in 1 .. n + 1} = {x.answers[i].pos : i \in 1 .. n} \cup {b}
    <3>0. n \in Nat
      BY <1>8
    <3>1. /\ \A i \in 1 .. n + 1 : i \in 1 .. n \/ i = n + 1
          /\ \A i \in 1 .. n : i \in 1 .. n + 1
          /\ n + 1 \in 1 .. n + 1
      BY <3>0, RangeGrows
    <3>2. x.answers[n + 1].pos = b
      BY <1>6, <1>8
    <3>. QED BY <3>1, <3>2
  <2>4. \A c \in DOMAIN calls \ {k} : AnsweredBlocks(c)' = AnsweredBlocks(c)
    BY <1>10 DEF AnsweredBlocks
  <2>. QED BY <2>1, <2>2, <2>3, <2>4
<1>13. /\ \A u \in Thread : \A c : Runs(u, c)' <=> Runs(u, c)
       /\ \A c, p : Waits(c, p)' <=> Waits(c, p)
       /\ \A c, p : Entered(c, p)' <=> Entered(c, p)
       /\ \A u \in Thread : \A c, p : Works(u, c, p)' <=> Works(u, c, p)
  BY <1>2, <1>10 DEF Runs, Waits, Entered, Works
<1>14. \A c : Runs(t, c) <=> c = k
  BY <1>3 DEF Runs
<1>15. Works(t, k, b)
  BY <1>4 DEF Works
<1>16. OnePlace'
  <2>1. SUFFICES ASSUME NEW c \in DOMAIN calls, NEW p \in Pos
                 PROVE  /\ Waits(c, p) => ~ Entered(c, p)
                        /\ Waits(c, p) \/ Entered(c, p) => p \notin AnsweredBlocks(c)'
                        /\ \A u \in Thread : Works(u, c, p) =>
                              /\ ~ Waits(c, p) /\ ~ Entered(c, p)
                              /\ p \in AnsweredBlocks(c)' <=> pc'[u] = "delete" /\ Runs(u, c)
                              /\ \A v \in Thread : Works(v, c, p) => v = u
    BY <1>10, <1>11, <1>13 DEF OnePlace
  <2>2. /\ Waits(c, p) => ~ Entered(c, p)
        /\ Waits(c, p) \/ Entered(c, p) => p \notin AnsweredBlocks(c)
        /\ \A u \in Thread : Works(u, c, p) =>
              /\ ~ Waits(c, p) /\ ~ Entered(c, p)
              /\ p \in AnsweredBlocks(c) <=> pc[u] = "delete" /\ Runs(u, c)
              /\ \A v \in Thread : Works(v, c, p) => v = u
    BY DEF State, CallsFit, OnePlace
  <2>3. CASE c = k /\ p = b
    <3>1. ~ Waits(c, p) /\ ~ Entered(c, p) /\ \A v \in Thread : Works(v, c, p) => v = t
      BY <1>1, <1>15, <2>2, <2>3
    <3>2. p \in AnsweredBlocks(c)'
      BY <1>12, <2>3
    <3>. QED BY <1>1, <1>2, <1>4, <1>15, <2>3, <3>1, <3>2
  <2>4. CASE ~ (c = k /\ p = b)
    <3>1. p \in AnsweredBlocks(c)' <=> p \in AnsweredBlocks(c)
      BY <1>12, <2>4
    <3>2. ASSUME NEW u \in Thread, Works(u, c, p)
          PROVE  pc'[u] = "delete" /\ Runs(u, c) <=> pc[u] = "delete" /\ Runs(u, c)
      <4>1. CASE u = t
        <5>1. p = b
          BY <3>2, <4>1 DEF Works
        <5>. QED BY <1>14, <2>4, <4>1, <5>1
      <4>2. CASE u # t
        BY <1>2, <4>2
      <4>. QED BY <4>1, <4>2
    <3>. QED BY <2>2, <3>1, <3>2
  <2>. QED BY <2>3, <2>4
<1>17. CallbacksFit'
  <2>1. emerging # {} => Len(calls) \in DOMAIN calls
    BY QueueFacts DEF State, CallsFit, CallbacksFit, CallsTyped
  <2>. QED BY <1>2, <1>10, <1>11, <2>1 DEF State, CallsFit, CallbacksFit
<1>18. AnswersFit'
  <2>1. /\ AnsweredBlocks(k) \subseteq calls[k].area
        /\ Cardinality(AnsweredBlocks(k)) = n
    BY <1>4 DEF State, CallsFit, AnswersFit
  <2>2. Cardinality(AnsweredBlocks(k)') = n + 1
    <3> DEFINE told == AnsweredBlocks(k)
    <3>1. IsFiniteSet(told) /\ b \notin told /\ Cardinality(told) = n
      BY <1>4, <1>5, <2>1
    <3> HIDE DEF told
    <3>2. Cardinality(told \cup {b}) = n + 1
      BY <3>1, FS_AddElement
    <3>. QED BY <1>12, <3>2 DEF told
  <2>3. AnsweredBlocks(k)' \subseteq calls'[k].area /\ Len(calls'[k].answers) = n + 1
    BY <1>4, <1>8, <1>10, <1>11, <1>12, <2>1
  <2>4. \A c \in DOMAIN calls \ {k} :
           /\ AnsweredBlocks(c)' \subseteq calls'[c].area
           /\ Cardinality(AnsweredBlocks(c)') = Len(calls'[c].answers)
    BY <1>10, <1>12 DEF State, CallsFit, AnswersFit
  <2>. QED BY <1>10, <2>2, <2>3, <2>4 DEF AnswersFit
<1>19. \A c \in DOMAIN calls : Left(c)' = Left(c)
  <2> DEFINE Reported(c, p) ==
                \E u \in Thread : pc[u] = "report" /\ Runs(u, c) /\ item[u].pos = p
             ReportedNext(c, p) ==
                \E u \in Thread : pc'[u] = "report" /\ Runs(u, c)' /\ item'[u].pos = p
  <2>1. \A c \in DOMAIN calls : \A p :
           /\ ReportedNext(c, p) => Reported(c, p)
           /\ Reported(c, p) => ReportedNext(c, p) \/ (c = k /\ p = b)
    BY <1>1, <1>2, <1>13, <1>14
  <2>2. Reported(k, b)
    BY <1>1, <1>2, <1>4
  <2>3. \A c \in DOMAIN calls : Left(c) =
           {p \in calls[c].area \ AnsweredBlocks(c) : ~ Reported(c, p)}
    BY DEF Left
  <2>4. \A c \in DOMAIN calls : Left(c)' =
           {p \in calls[c].area \ AnsweredBlocks(c)' : ~ ReportedNext(c, p)}
    BY <1>10, <1>11 DEF Left
  <2> HIDE DEF Reported, ReportedNext
  <2>5. Left(k)' = Left(k)
    <3>1. \A p : p \in Left(k) <=>
             p \in calls[k].area /\ p \notin AnsweredBlocks(k) /\ ~ Reported(k, p)
      BY <1>4, <2>3
    <3>2. \A p : p \in Left(k)' <=>
             p \in calls[k].area /\ p \notin AnsweredBlocks(k)' /\ ~ ReportedNext(k, p)
      BY <1>4, <2>4
    <3>3. \A p : p \in AnsweredBlocks(k)' <=> p \in AnsweredBlocks(k) \/ p = b
      BY <1>12
    <3>4. \A p : p # b => (ReportedNext(k, p) <=> Reported(k, p))
      BY <1>4, <2>1
    <3>5. \A p : p \in Left(k)' <=> p \in Left(k)
      BY <2>2, <3>1, <3>2, <3>3, <3>4
    <3>. QED BY <2>3, <2>4, <1>4, <3>5
  <2>6. ASSUME NEW c \in DOMAIN calls, c # k PROVE Left(c)' = Left(c)
    <3>1. \A p : ReportedNext(c, p) <=> Reported(c, p)
      BY <2>1, <2>6
    <3>2. AnsweredBlocks(c)' = AnsweredBlocks(c)
      BY <1>12, <2>6
    <3>. QED BY <2>3, <2>4, <3>1, <3>2
  <2>. QED BY <2>5, <2>6
<1>20. RefcountsFit'
  <2>1. \A u \in Thread : pc'[u] = "store" => pc[u] = "store"
    BY <1>2
  <2>. QED BY <1>2, <1>10, <1>11, <1>13, <1>19, <2>1 DEF State, CallsFit, RefcountsFit
<1>21. OneThreadCounts'
  <2>1. SUFFICES ASSUME nthreads = 1 PROVE OneThreadCounts'
    BY <1>2 DEF OneThreadCounts
  <2>2. \A u \in Thread : pc'[u] # "store"
    BY <1>2, <2>1, OneAtWork
  <2>3. calls[k].refcount = Cardinality(calls[k].area) - (n + 1)
    <3>1. Left(k) = calls[k].area \ (AnsweredBlocks(k) \cup {b})
      <4>1. \A u \in Thread : \A p : pc[u] = "report" /\ Runs(u, k) /\ item[u].pos = p <=>
               u = t /\ p = b
        BY <1>1, <1>2, <1>4, <2>1, OneAtWork
      <4>. QED BY <1>1, <4>1 DEF Left
    <3> DEFINE told == AnsweredBlocks(k) \cup {b}
    <3>2. /\ told \in SUBSET calls[k].area /\ IsFiniteSet(told) /\ Cardinality(told) = n + 1
      <4> DEFINE before == AnsweredBlocks(k)
      <4>1. /\ IsFiniteSet(before) /\ b \notin before /\ Cardinality(before) = n
            /\ before \subseteq calls[k].area
        BY <1>4, <1>5 DEF State, CallsFit, AnswersFit
      <4> HIDE DEF before
      <4>2. IsFiniteSet(before \cup {b}) /\ Cardinality(before \cup {b}) = n + 1
        BY <4>1, FS_AddElement
      <4>. QED BY <1>4, <4>1, <4>2 DEF before
    <3> HIDE DEF told
    <3> DEFINE area == calls[k].area
    <3>3. area \cap told = told /\ IsFiniteSet(area)
      BY <1>4, <1>5, <3>2
    <3> HIDE DEF area
    <3>6. Cardinality(area \ told) = Cardinality(area) - Cardinality(area \cap told)
      BY <3>3, FS_Difference
    <3>7. Cardinality(area \ told) = Cardinality(area) - (n + 1)
      BY <3>2, <3>3, <3>6
    <3>4. Cardinality(calls[k].area \ told) = Cardinality(calls[k].area) - (n + 1)
      BY <3>7 DEF area
    <3>5. calls[k].refcount = Cardinality(Left(k))
      BY <1>4, <2>1 DEF State, CallsFit, OneThreadCounts
    <3>. QED BY <3>1, <3>4, <3>5 DEF told
  <2>4. ASSUME NEW c \in DOMAIN calls, NEW i \in DOMAIN calls'[c].answers
        PROVE  calls'[c].answers[i].calls_remaining = Cardinality(calls[c].area) - i
    <3>1. CASE c = k /\ i = n + 1
      BY <1>6, <1>8, <1>10, <2>3, <3>1
    <3>2. CASE c = k /\ i # n + 1
      <4>0. n \in Nat /\ i \in 1 .. n + 1
        BY <1>8, <1>10, <2>4, <3>2
      <4>2. i \in 1 .. n
        BY <3>2, <4>0
      <4>1. i \in DOMAIN calls[k].answers /\ calls'[k].answers[i] = calls[k].answers[i]
        BY <1>8, <1>10, <4>2
      <4>. QED BY <1>4, <2>1, <3>2, <4>1 DEF State, CallsFit, OneThreadCounts
    <3>3. CASE c # k
      BY <1>10, <2>1, <2>4, <3>3 DEF State, CallsFit, OneThreadCounts
    <3>. QED BY <3>1, <3>2, <3>3
  <2>5. calls[k].freed = 0
    BY <1>1, <1>4, <2>1 DEF State, CallsFit, OneThreadCounts
  <2>6. ASSUME NEW c \in DOMAIN calls
        PROVE  /\ calls[c].freed \in {0, 1}
               /\ calls[c].freed = 1 <=> /\ AnsweredBlocks(c)' = calls[c].area
                                         /\ \A u \in Thread : ~ Has(item[u].callbacks, c)
    <3>1. CASE c = k
      BY <1>1, <1>4, <2>5, <3>1
    <3>2. CASE c # k
      BY <1>12, <2>1, <3>2 DEF State, CallsFit, OneThreadCounts
    <3>. QED BY <3>1, <3>2
  <2>7. \A c \in DOMAIN calls : calls[c].refcount = Cardinality(Left(c)')
    BY <1>19, <2>1 DEF State, CallsFit, OneThreadCounts
  <2>. QED BY <1>2, <1>10, <1>11, <2>1, <2>2, <2>4, <2>6, <2>7 DEF OneThreadCounts
<1>. QED BY <1>10, <1>16, <1>17, <1>18, <1>20, <1>21 DEF CallsFit

\* ... and deletes the state, if none is left.
LEMMA DeleteCalls ==
    ASSUME State, NEW t \in Started, DeleteState(t)
    PROVE  CallsTyped' /\ CallsFit'
<1>. USE DEF queues, server, Goes
<1>1. t \in Thread /\ pc \in [Thread -> Place] /\ item \in [Thread -> Item]
  BY StartedThreads DEF State, Worlds, ThreadsTyped
<1> PICK k : k = Head(item[t].callbacks)
  OBVIOUS
<1> PICK b : b = item[t].pos
  OBVIOUS
<1> DEFINE x == [calls[k] EXCEPT !.freed = IF calls[k].refcount = 0 THEN @ + 1 ELSE @]
           y == [item[t] EXCEPT !.callbacks = Tail(@)]
<1>2. /\ UNCHANGED <<nthreads, m_blocks_enqueued, emerging, loaded>>
      /\ pc[t] = "delete" /\ pc'[t] = "callback"
      /\ calls' = [calls EXCEPT ![k] = x]
      /\ item' = [item EXCEPT ![t] = y]
      /\ \A u \in Thread \ {t} : pc'[u] = pc[u]
  BY <1>1 DEF DeleteState
<1>3. item[t].callbacks # <<>> /\ pc[t] \notin Idle
  BY <1>1, <1>2 DEF State, Worlds, ItemsFit, Idle
<1>4. /\ k \in DOMAIN calls /\ b \in AnsweredBlocks(k) /\ Has(item[t].callbacks, k)
      /\ Runs(t, k) /\ Works(t, k, b)
  BY <1>2, <1>3, RunningFacts
<1>5. calls[k] \in Call /\ IsFiniteSet(Left(k)) /\ calls[k].refcount \in Nat
  BY <1>4, CallFacts
<1>6. /\ x \in Call /\ x.area = calls[k].area /\ x.refcount = calls[k].refcount
      /\ x.answers = calls[k].answers
      /\ calls[k].refcount # 0 => x.freed = calls[k].freed
      /\ calls[k].refcount = 0 => x.freed = calls[k].freed + 1
  BY <1>5 DEF Call
<1>7. y.callbacks = Tail(item[t].callbacks) /\ y.pos = b
  BY <1>1 DEF Item
<1> HIDE DEF x, y
<1>8. /\ item'[t] = y /\ \A u \in Thread \ {t} : item'[u] = item[u]
  BY <1>1, <1>2
<1>9. /\ Distinct(item'[t].callbacks)
      /\ \A c : Has(item'[t].callbacks, c) <=> Has(item[t].callbacks, c) /\ c # k
  <2> DEFINE s == item[t].callbacks
  <2>1. s \in Seq(1 .. MaxCalls) /\ s # <<>> /\ Distinct(s)
    BY <1>1, <1>3 DEF Item, State, CallsFit, CallbacksFit
  <2> HIDE DEF s
  <2>2. Distinct(Tail(s)) /\ \A c : Has(Tail(s), c) <=> Has(s, c) /\ c # Head(s)
    BY <2>1, CallbackTaken
  <2>. QED BY <1>7, <1>8, <2>2 DEF s
<1>10. /\ DOMAIN calls' = DOMAIN calls /\ calls'[k] = x
       /\ \A c \in DOMAIN calls \ {k} : calls'[c] = calls[c]
       /\ Len(calls') = Len(calls)
       /\ calls # <<>> <=> calls' # <<>>
       /\ CallsTyped'
  BY <1>2, <1>4, <1>6, CallChanged DEF State
<1>11. /\ Thread' = Thread
       /\ \A c \in DOMAIN calls : /\ calls'[c].area = calls[c].area
                                  /\ calls'[c].refcount = calls[c].refcount
                                  /\ calls'[c].answers = calls[c].answers
  BY <1>6, <1>10 DEF Thread
<1>12. /\ \A c \in DOMAIN calls : AnsweredBlocks(c)' = AnsweredBlocks(c)
       /\ \A c, p : Waits(c, p)' <=> Waits(c, p)
       /\ \A c, p : Entered(c, p)' <=> Entered(c, p)
       /\ \A u \in Thread \ {t} : \A c : Runs(u, c)' <=> Runs(u, c)
       /\ \A u \in Thread \ {t} : \A c, p : Works(u, c, p)' <=> Works(u, c, p)
  BY <1>2, <1>8, <1>10, <1>11 DEF AnsweredBlocks, Runs, Waits, Entered, Works
<1>13. \A c, p : Works(t, c, p)' <=> Works(t, c, p) /\ c # k
  BY <1>7, <1>8, <1>9 DEF Works
<1>14. \A c : Runs(t, c) <=> c = k
  BY <1>3 DEF Runs
<1>15. OnePlace'
  <2>1. ASSUME NEW c \in DOMAIN calls, NEW p \in Pos, NEW u \in Thread, Works(u, c, p)'
        PROVE  /\ ~ Waits(c, p) /\ ~ Entered(c, p)
               /\ p \in AnsweredBlocks(c) <=> pc'[u] = "delete" /\ Runs(u, c)'
               /\ \A v \in Thread : Works(v, c, p)' => v = u
    <3>1. Works(u, c, p) /\ (u = t => c # k)
      BY <1>12, <1>13, <2>1
    <3>2. /\ ~ Waits(c, p) /\ ~ Entered(c, p)
          /\ p \in AnsweredBlocks(c) <=> pc[u] = "delete" /\ Runs(u, c)
          /\ \A v \in Thread : Works(v, c, p) => v = u
      BY <3>1 DEF State, CallsFit, OnePlace
    <3>3. \A v \in Thread : Works(v, c, p)' => v = u
      BY <1>12, <1>13, <3>2
    <3>4. pc[u] = "delete" /\ Runs(u, c) <=> pc'[u] = "delete" /\ Runs(u, c)'
      BY <1>2, <1>12, <1>14, <3>1
    <3>. QED BY <3>2, <3>3, <3>4
  <2>2. \A c \in DOMAIN calls, p \in Pos :
           /\ Waits(c, p) => ~ Entered(c, p)
           /\ Waits(c, p) \/ Entered(c, p) => p \notin AnsweredBlocks(c)
    BY DEF State, CallsFit, OnePlace
  <2>. QED BY <1>10, <1>11, <1>12, <2>1, <2>2 DEF OnePlace
<1>16. CallbacksFit'
  <2>1. emerging # {} => Len(calls) \in DOMAIN calls
    BY QueueFacts DEF State, CallsFit, CallbacksFit, CallsTyped
  <2>2. \A u \in Thread :
           /\ Distinct(item'[u].callbacks)
           /\ \A c \in 1 .. MaxCalls : Has(item'[u].callbacks, c) =>
                 c \in DOMAIN calls /\ item'[u].pos \in calls[c].area
    BY <1>7, <1>8, <1>9 DEF State, CallsFit, CallbacksFit
  <2>. QED BY <1>2, <1>10, <1>11, <2>1, <2>2 DEF State, CallsFit, CallbacksFit
<1>17. AnswersFit'
  BY <1>10, <1>11, <1>12 DEF State, CallsFit, AnswersFit
<1>18. \A u \in Thread : \A c, p :
          /\ pc'[u] = "report" /\ Runs(u, c)' /\ item'[u].pos = p
                <=> pc[u] = "report" /\ Runs(u, c) /\ item[u].pos = p
          /\ pc'[u] = "store" /\ Runs(u, c)' <=> pc[u] = "store" /\ Runs(u, c)
  <2>1. \A u \in Thread \ {t} : \A c, p :
          /\ pc'[u] = "report" /\ Runs(u, c)' /\ item'[u].pos = p
                <=> pc[u] = "report" /\ Runs(u, c) /\ item[u].pos = p
          /\ pc'[u] = "store" /\ Runs(u, c)' <=> pc[u] = "store" /\ Runs(u, c)
    BY <1>2, <1>8, <1>12
  <2>. QED BY <1>2, <2>1
<1>19. \A c \in DOMAIN calls : Left(c)' = Left(c)
  <2>1. ASSUME NEW c \in DOMAIN calls, NEW p
        PROVE  (\E u \in Thread : pc'[u] = "report" /\ Runs(u, c)' /\ item'[u].pos = p)
                  <=> \E u \in Thread : pc[u] = "report" /\ Runs(u, c) /\ item[u].pos = p
    BY <1>18
  <2>. QED BY <1>10, <1>11, <1>12, <2>1 DEF Left
<1>20. RefcountsFit'
  <2>1. \A c \in DOMAIN calls : /\ Cardinality(Left(c)) =< calls[c].refcount
                                /\ calls[c].refcount =< Cardinality(calls[c].area)
    BY DEF State, CallsFit, RefcountsFit
  <2>2. ASSUME NEW u \in Thread, NEW c \in DOMAIN calls, pc'[u] = "store", Runs(u, c)'
        PROVE  Cardinality(Left(c)) =< loaded[u] /\ loaded[u] =< Cardinality(calls[c].area)
    BY <1>18, <2>2 DEF State, CallsFit, RefcountsFit
  <2>. QED BY <1>2, <1>10, <1>11, <1>19, <2>1, <2>2 DEF RefcountsFit
<1>21. OneThreadCounts'
  <2>1. SUFFICES ASSUME nthreads = 1 PROVE OneThreadCounts'
    BY <1>2 DEF OneThreadCounts
  <2>2. ASSUME NEW c \in DOMAIN calls
        PROVE  /\ calls'[c].freed \in {0, 1}
               /\ calls'[c].freed = 1 <=> /\ AnsweredBlocks(c) = calls[c].area
                                          /\ \A u \in Thread : ~ Has(item'[u].callbacks, c)
    <3>2. /\ calls[c].freed \in {0, 1}
          /\ calls[c].freed = 1 <=> /\ AnsweredBlocks(c) = calls[c].area
                                    /\ \A u \in Thread : ~ Has(item[u].callbacks, c)
      BY <2>1 DEF State, CallsFit, OneThreadCounts
    <3>3. CASE c # k
      <4>1. \A u \in Thread : Has(item'[u].callbacks, c) <=> Has(item[u].callbacks, c)
        BY <1>8, <1>9, <3>3
      <4>. QED BY <1>10, <3>2, <3>3, <4>1
    <3>4. CASE c = k
      <4>1. calls[k].freed = 0
        BY <1>1, <1>4, <3>2, <3>4
      <4>2. calls[k].refcount = Cardinality(Left(k))
        BY <1>4, <2>1 DEF State, CallsFit, OneThreadCounts
      <4>3. CASE calls[k].refcount # 0
        <5>1. calls'[k].freed = 0
          BY <1>6, <1>10, <4>1, <4>3
        <5>2. Left(k) # {}
          BY <4>3, <4>2, FS_EmptySet
        <5>3. AnsweredBlocks(k) # calls[k].area
          BY <5>2 DEF Left
        <5>. QED BY <3>4, <5>1, <5>3
      <4>4. CASE calls[k].refcount = 0
        <5>1. calls'[k].freed = 1
          BY <1>6, <1>10, <4>1, <4>4
        <5>3. Left(k) = {}
          BY <1>5, <4>4, <4>2, FS_EmptySet
        <5>4. \A u \in Thread : pc[u] # "report"
          BY <1>2, <2>1, OneAtWork
        <5>5. AnsweredBlocks(k) = calls[k].area
          <6>1. calls[k].area \subseteq AnsweredBlocks(k)
            BY <5>3, <5>4 DEF Left
          <6>2. AnsweredBlocks(k) \subseteq calls[k].area
            BY <1>4 DEF State, CallsFit, AnswersFit
          <6>. QED BY <6>1, <6>2
        <5>6. \A u \in Thread : ~ Has(item'[u].callbacks, k)
          BY <1>8, <1>9, <2>1, OneAtWork, NoItemTyped, NoCallbacks
        <5>. QED BY <3>4, <5>1, <5>5, <5>6
      <4>. QED BY <4>3, <4>4
    <3>. QED BY <3>3, <3>4
  <2>3. \A u \in Thread : pc'[u] # "store"
    BY <1>2, <2>1, OneAtWork
  <2>4. \A c \in DOMAIN calls :
           /\ calls[c].refcount = Cardinality(Left(c))
           /\ \A i \in DOMAIN calls[c].answers :
                 calls[c].answers[i].calls_remaining = Cardinality(calls[c].area) - i
    BY <2>1 DEF State, CallsFit, OneThreadCounts
  <2>. QED BY <1>2, <1>10, <1>11, <1>12, <1>19, <2>1, <2>2, <2>3, <2>4 DEF OneThreadCounts
<1>. QED BY <1>10, <1>15, <1>16, <1>17, <1>20, <1>21 DEF CallsFit

-----------------------------------------------------------------------------
(* The invariant holds *)

\* Each action keeps what is said of the calls.
LEMMA CallsKept ==
    ASSUME State, [Next]_vars PROVE CallsTyped' /\ CallsFit'
  BY QuietServerCalls, StartCalls, BlockCalls, QuietThreadCalls, PopCalls, LoadCalls, StoreCalls,
     ReportCalls, DeleteCalls DEF Next, ThreadStep, Asker

LEMMA BoundsKept ==
    ASSUME BoundsTyped, nthreads \in Thread, [Next]_vars PROVE BoundsTyped'
<1>1. events' = events \/ (nthreads * events < MaxEvents /\ events' = events + 1)
  BY DEF Next, ThreadStep, Request, StartEmergeArea, EmergeAreaBlock, Signal, startThreads,
     Shutdown, stopThreads, EndRun, PopNothing, Wait, Pop, GetFromMemory, GetFromDisk, StartGen,
     GetNothing, Gets, FinishGen, LoadRefcount, StoreRefcount, Report, DeleteState,
     SetBlocksNotSent, SendBlock, Unload, DeleteArea, SendMapEdits, vars
<1>2. events \in Nat /\ nthreads \in Nat /\ nthreads >= 1 /\ MaxEvents \in Nat
  BY EmergeAssumption DEF BoundsTyped, Thread
<1>3. events =< nthreads * events
  BY <1>2
<1>. QED BY <1>1, <1>2, <1>3 DEF BoundsTyped

LEMMA InvariantParts == IInv <=> State /\ BoundsTyped
  BY DEF IInv, TypeOK, State, Queues, QueuesTyped, Worlds, ThreadsTyped, WorldTyped, CallsTyped,
     CallsFit, BoundsTyped, Asker

\* The invariant holds at first ...
LEMMA InitFits == Init => IInv
<1>. SUFFICES ASSUME Init PROVE State /\ BoundsTyped
  BY InvariantParts
<1>. USE DEF Init
<1>1. \A S : <<>> \in Seq(S) /\ Len(<<>>) = 0
  BY EmptySeq
<1>2. IsFiniteSet({}) /\ Cardinality({}) = 0
  BY FS_EmptySet
<1>3. QueuesTyped
  BY <1>1 DEF QueuesTyped, Asker
<1>4. Matched
  BY DEF Matched
<1>5. PeerCountsRight
  <2>1. \A q : {p \in DOMAIN m_blocks_enqueued : m_blocks_enqueued[p].peer_requested = q} = {}
    OBVIOUS
  <2>2. \A q \in Asker : m_peer_queue_count[q] = 0
    BY DEF Asker
  <2>. QED BY <1>2, <2>1, <2>2, EmergeAssumption DEF PeerCountsRight, Asker
<1>6. ThreadsTyped
  BY NoItemTyped DEF ThreadsTyped, Place
<1>7. ItemsFit
  BY DEF ItemsFit, Idle
<1>8. WorldTyped /\ WorldFits /\ ClientsCurrent
  BY EmergeAssumption DEF WorldTyped, WorldFits, ClientsCurrent, Started, Thread
<1>9. CallsTyped
  BY <1>1, EmergeAssumption DEF CallsTyped
<1>10. DOMAIN calls = {}
  OBVIOUS
<1>11. \A t \in Thread : item[t].callbacks = <<>>
  BY NoItemTyped
<1>12. OnePlace /\ AnswersFit /\ RefcountsFit /\ OneThreadCounts
  BY <1>10 DEF OnePlace, AnswersFit, RefcountsFit, OneThreadCounts
<1>13. CallbacksFit
  BY <1>11, NoCallbacks DEF CallbacksFit
<1>14. BoundsTyped
  BY EmergeAssumption DEF BoundsTyped
<1>. QED BY <1>3, <1>4, <1>5, <1>6, <1>7, <1>8, <1>9, <1>12, <1>13, <1>14
         DEF State, Queues, Worlds, CallsFit

LEMMA CallsAreStarted == ASSUME State PROVE CallsStarted
<1>1. calls \in Seq(Call) /\ Len(calls) =< MaxCalls /\ emerging \subseteq Pos
  BY DEF State, CallsTyped, Worlds, ThreadsTyped
<1>2. emerging # {} => calls # <<>>
  BY DEF State, CallsFit, CallbacksFit
<1>3. Len(calls) \in Nat /\ (calls # <<>> => Len(calls) > 0)
  BY <1>1, QueueFacts
<1>. QED BY <1>1, <1>2, <1>3, EmergeAssumption DEF CallsStarted

\* ... and is kept by each step.
LEMMA StepFits == IInv /\ [Next]_vars => IInv'
<1>. SUFFICES ASSUME IInv, [Next]_vars PROVE IInv'
  OBVIOUS
<1>1. State /\ BoundsTyped /\ CallsStarted
  BY InvariantParts, CallsAreStarted
<1>2. Queues'
  BY <1>1, QueuesKept DEF State
<1>3. Worlds'
  BY <1>1, WorldsKept DEF State, CallsFit
<1>4. CallsTyped' /\ CallsFit' /\ BoundsTyped'
  BY <1>1, CallsKept, BoundsKept DEF State, Worlds, ThreadsTyped
<1>5. State' /\ BoundsTyped'
  BY <1>2, <1>3, <1>4 DEF State
<1>. QED BY <1>5, InvariantParts, PTL

LEMMA InvariantHolds == Spec => []IInv
  BY InitFits, StepFits, PTL DEF Spec

-----------------------------------------------------------------------------
(* What holds of the emerge threads *)

\* The variables of the EmergeManager, of the threads, of the map and of the
\* calls of emerge_area() are what the code takes them for, for any number of
\* threads, peers, blocks and calls.
THEOREM EmergeTypesCorrect == Spec => []TypeOK
  BY InvariantHolds, PTL DEF IInv

\* enqueueBlockEmergeEx() and popBlockEmerge() keep m_blocks_enqueued and the
\* queues of the threads in step: no block is queued twice or left behind.
THEOREM QueuesAlwaysMatch == Spec => []QueuesMatch
<1>1. IInv => QueuesMatch
  <2>1. SUFFICES ASSUME Matched PROVE QueuesMatch
    BY DEF IInv
  <2>2. \A s \in Slots : /\ s[1] \in Thread /\ s[2] \in DOMAIN m_block_queue[s[1]]
                         /\ s = <<s[1], s[2]>>
    BY DEF Slots
  <2>3. \A t \in Thread : \A i \in DOMAIN m_block_queue[t] : <<t, i>> \in Slots
    BY DEF Slots
  <2>4. \A s \in Slots : m_block_queue[s[1]][s[2]] \in DOMAIN m_blocks_enqueued
    BY <2>1, <2>2 DEF Matched
  <2>5. ASSUME NEW p \in DOMAIN m_blocks_enqueued
        PROVE  \E s \in Slots : \A r \in Slots : m_block_queue[r[1]][r[2]] = p <=> r = s
    <3>1. PICK t \in Thread : \E i \in DOMAIN m_block_queue[t] : m_block_queue[t][i] = p
      BY <2>1 DEF Matched
    <3>2. PICK i \in DOMAIN m_block_queue[t] : m_block_queue[t][i] = p
      BY <3>1
    <3>3. ASSUME NEW r \in Slots
          PROVE  m_block_queue[r[1]][r[2]] = p <=> r = <<t, i>>
      <4>1. r = <<t, i>> => m_block_queue[r[1]][r[2]] = p
        BY <3>2
      <4>2. m_block_queue[r[1]][r[2]] = p => r[1] = t /\ r[2] = i
        BY <2>1, <2>2, <3>2 DEF Matched
      <4>. QED BY <2>2, <4>1, <4>2
    <3>. QED BY <2>3, <3>3
  <2>. QED BY <2>4, <2>5 DEF QueuesMatch
<1>. QED BY <1>1, InvariantHolds, PTL

\* m_peer_queue_count is the number of entries of each peer, and never above
\* the limits of pushBlockEmergeData().
THEOREM PeersCounted == Spec => []PeerCountsRight
  BY InvariantHolds, PTL DEF IInv

\* Whatever chunks the threads generate and however they are interleaved with
\* SendBlocks(), SetBlocksNotSent() reaches each client with an old version.
THEOREM ClientsKeptCurrent == Spec => []ClientsCurrent
  BY InvariantHolds, PTL DEF IInv

\* With one thread no block of a chunk was sent before finishGen() writes it, as
\* the comment there says, unless delete_area() deleted a block of the chunk.
THEOREM NothingSentBefore == Spec => []UnsentUntilGenerated
<1>1. IInv => UnsentUntilGenerated
  <2>1. SUFFICES ASSUME IInv, nthreads = 1, NEW t \in Started, NEW q \in Peer, pc[t] = "make",
                        ChunkOf(item[t].pos) \cap deleted = {}
                 PROVE  held[q] \cap ChunkOf(item[t].pos) = {}
    BY DEF UnsentUntilGenerated
  <2>2. ChunkOf(item[t].pos) \cap generated = {} /\ held[q] \subseteq generated \cup deleted
    BY <2>1 DEF IInv, WorldFits, Known
  <2>. QED BY <2>1, <2>2
<1>. QED BY <1>1, InvariantHolds, PTL

\* With one thread LuaEmergeAreaCallback() tells each callback how many blocks of
\* the area are unanswered, and the ScriptCallbackState is deleted when all were
\* answered, at once and once, when nobody has it any more.
THEOREM OneThreadCountsCalls == Spec => []CallsCounted
<1>1. IInv => CallsCounted
  <2>1. SUFFICES ASSUME IInv, NEW c \in DOMAIN calls, nthreads = 1 PROVE CallCounted(c)
    BY DEF CallsCounted
  <2>2. State
    BY <2>1, InvariantParts
  <2>3. /\ \A i \in DOMAIN calls[c].answers :
              calls[c].answers[i].calls_remaining = Cardinality(calls[c].area) - i
        /\ calls[c].freed \in {0, 1}
        /\ calls[c].freed = 1 <=> /\ AnsweredBlocks(c) = calls[c].area
                                  /\ \A t \in Thread : ~ Has(item[t].callbacks, c)
    BY <2>1 DEF IInv, OneThreadCounts
  <2>4. Len(calls[c].answers) = Cardinality(calls[c].area) <=> AnsweredBlocks(c) = calls[c].area
    <3>1. /\ AnsweredBlocks(c) \subseteq calls[c].area
          /\ Cardinality(AnsweredBlocks(c)) = Len(calls[c].answers)
      BY <2>1 DEF IInv, AnswersFit
    <3>. QED BY <2>2, <3>1, CallFacts, FS_Subset
  <2>5. Started \subseteq Thread /\ c \in 1 .. MaxCalls
    BY <2>1, <2>2, StartedThreads, CallFacts DEF State, Worlds, ThreadsTyped
  <2>6. ASSUME AnsweredBlocks(c) = calls[c].area, NEW t \in Thread
        PROVE  Has(item[t].callbacks, c) <=> pc[t] = "delete" /\ Runs(t, c)
    <3>1. Has(item[t].callbacks, c) => item[t].pos \in calls[c].area
      BY <2>1, <2>5 DEF IInv, CallbacksFit
    <3>2. Has(item[t].callbacks, c) => pc[t] = "delete" /\ Runs(t, c)
      BY <2>1, <2>2, <2>6, <3>1, CallFacts DEF IInv, OnePlace, Works
    <3>3. pc[t] = "delete" /\ Runs(t, c) => Has(item[t].callbacks, c)
      BY <2>2, RunningCall DEF State, Worlds, CallsFit, Runs
    <3>. QED BY <3>2, <3>3
  <2>7. ASSUME AnsweredBlocks(c) = calls[c].area, NEW p \in DOMAIN m_blocks_enqueued
        PROVE  ~ Has(m_blocks_enqueued[p].callbacks, c)
    <3>1. Has(m_blocks_enqueued[p].callbacks, c) => p \in calls[c].area
      BY <2>1, <2>5 DEF IInv, CallbacksFit
    <3>2. p \in calls[c].area => ~ Entered(c, p)
      BY <2>1, <2>2, <2>7, CallFacts DEF IInv, OnePlace
    <3>. QED BY <3>1, <3>2 DEF Entered
  <2>8. \A t \in Thread : pc[t] = "delete" /\ Runs(t, c) <=> t \in Started /\ LooksAtCount(t, c)
    BY <2>1, <2>5 DEF IInv, ItemsFit, LooksAtCount, Runs
  <2>9. \A s : c \in Range(s) <=> Has(s, c)
    BY DEF Range, Has
  <2>10. calls[c].freed = IF /\ Len(calls[c].answers) = Cardinality(calls[c].area)
                             /\ \A t \in Started : ~ LooksAtCount(t, c)
                          THEN 1 ELSE 0
    BY <2>3, <2>4, <2>5, <2>6, <2>8
  <2>11. calls[c].freed = 1 => ~ InUse(c)
    BY <2>3, <2>5, <2>7, <2>9 DEF InUse
  <2>. QED BY <2>3, <2>10, <2>11 DEF CallCounted
<1>. QED BY <1>1, InvariantHolds, PTL

\* The emerge threads keep the promise of emerge_area(): a callback runs at most
\* once for a block of its area, whichever thread and however often the block is
\* asked for, and no block is said to be there that neither is generated nor was
\* deleted.
THEOREM PromiseKept == Spec => ImplementsPromise
<1> DEFINE asked == [c \in DOMAIN calls |-> calls[c].area]
           answered == [c \in DOMAIN calls |-> calls[c].answers]
<1>1. Init => Promise!Init
  BY DEF Init, Promise!Init
<1>2. IInv /\ [Next]_vars => [Promise!Next]_<<generated, deleted, asked, answered>>
  <2> SUFFICES ASSUME State, [Next]_vars
               PROVE  Promise!Next \/ UNCHANGED <<generated, deleted, asked, answered>>
    BY InvariantParts
  <2>. USE DEF queues, thread, server, world, Goes
  <2>1. CASE UNCHANGED <<generated, deleted, calls>>
    BY <2>1
  <2>2. ASSUME NEW area \in Areas, StartEmergeArea(area) PROVE Promise!Next
    <3> DEFINE new == [area |-> area, refcount |-> Cardinality(area), answers |-> <<>>,
                       freed |-> 0]
    <3>1. /\ calls \in Seq(Call) /\ calls' = Append(calls, new) /\ UNCHANGED <<generated, deleted>>
          /\ new.area = area /\ new.answers = <<>>
      BY <2>2 DEF StartEmergeArea, State, CallsTyped
    <3> HIDE DEF new
    <3>2. asked' = Append(asked, area)
      BY <3>1
    <3>3. answered' = Append(answered, <<>>)
      BY <3>1
    <3>. QED BY <3>1, <3>2, <3>3 DEF Promise!Next, Promise!Ask
  <2>3. ASSUME NEW t \in Started, FinishGen(t) PROVE Promise!Next
    <3>1. /\ generated' = generated \cup (ChunkOf(item[t].pos) \cap there)
          /\ UNCHANGED <<deleted, calls>>
          /\ ChunkOf(item[t].pos) \cap there \in SUBSET Pos
      BY <2>3 DEF FinishGen, ChunkOf
    <3>2. asked' = asked /\ answered' = answered
      BY <3>1
    <3>. QED BY <3>1, <3>2 DEF Promise!Next, Promise!Generate
  <2>4. ASSUME NEW blocks \in SUBSET there, DeleteArea(blocks) PROVE Promise!Next
    <3>1. /\ generated' = generated \ blocks /\ deleted' = deleted \cup blocks
          /\ UNCHANGED calls /\ blocks \in SUBSET Pos
      BY <2>4 DEF DeleteArea, State, Worlds, WorldTyped
    <3>2. asked' = asked /\ answered' = answered
      BY <3>1
    <3>. QED BY <3>1, <3>2 DEF Promise!Next, Promise!Delete
  <2>5. ASSUME NEW t \in Started, Report(t) PROVE Promise!Next
    <3>1. t \in Thread /\ item[t] \in Item /\ pc[t] = "report"
      BY <2>5, StartedThreads DEF State, Worlds, ThreadsTyped, Report
    <3>2. item[t].callbacks # <<>> /\ pc[t] \notin Idle
      BY <3>1 DEF State, Worlds, ItemsFit, Idle
    <3> PICK k : k = Head(item[t].callbacks)
      OBVIOUS
    <3> PICK b : b = item[t].pos
      OBVIOUS
    <3> PICK a : a = item[t].action
      OBVIOUS
    <3> PICK n : n = calls[k].refcount
      OBVIOUS
    <3>3. /\ k \in DOMAIN calls /\ b \in Pos /\ b \in calls[k].area
          /\ b \notin AnsweredBlocks(k)
      BY <3>1, <3>2, RunningFacts
    <3>4. a \in Action /\ (a # "CANCELLED" => b \in generated \cup deleted)
      BY <3>1 DEF Item, State, Worlds, ItemsFit, Idle, Known
    <3>5. n \in 0 .. Cardinality(Pos)
      <4>1. n \in Nat /\ n =< Cardinality(calls[k].area) /\ calls[k].area \subseteq Pos
            /\ Cardinality(calls[k].area) \in Nat
        BY <3>3, CallFacts DEF State, CallsFit, RefcountsFit
      <4>2. Cardinality(calls[k].area) =< Cardinality(Pos) /\ Cardinality(Pos) \in Nat
        BY <4>1, EmergeAssumption, FS_Subset, FS_CardinalityType
      <4>. QED BY <4>1, <4>2
    <3> DEFINE answer == [pos |-> b, action |-> a, calls_remaining |-> n]
               x == [calls[k] EXCEPT !.answers = Append(@, answer)]
    <3>6. calls' = [calls EXCEPT ![k] = x] /\ UNCHANGED <<generated, deleted>>
      BY <2>5 DEF Report
    <3>7. x.area = calls[k].area /\ x.answers = Append(calls[k].answers, answer)
      BY <3>3, CallFacts DEF Call
    <3> HIDE DEF x, answer
    <3>8. asked' = asked
      BY <3>3, <3>6, <3>7
    <3>9. answered' = [answered EXCEPT ![k] = Append(@, answer)]
      BY <3>3, <3>6, <3>7
    <3>10. b \in asked[k] /\ \A i \in DOMAIN answered[k] : answered[k][i].pos # b
      BY <3>3 DEF AnsweredBlocks
    <3>11. Promise!Tell(k, b, a, n)
      BY <3>4, <3>6, <3>8, <3>9, <3>10 DEF Promise!Tell, answer
    <3>. QED BY <3>3, <3>4, <3>5, <3>11 DEF Promise!Next
  <2>6. ASSUME NEW t \in Started, StoreRefcount(t) \/ DeleteState(t)
        PROVE  UNCHANGED <<generated, deleted, asked, answered>>
    <3>1. t \in Thread /\ pc[t] \in {"store", "delete"} /\ item[t].callbacks # <<>>
      BY <2>6, StartedThreads DEF State, Worlds, ThreadsTyped, StoreRefcount, DeleteState, ItemsFit
    <3> PICK k : k = Head(item[t].callbacks)
      OBVIOUS
    <3>2. k \in DOMAIN calls /\ calls[k] \in Call
      BY <3>1, RunningCall DEF State, Worlds, CallsFit
    <3>3. PICK x : /\ calls' = [calls EXCEPT ![k] = x]
                   /\ x.area = calls[k].area /\ x.answers = calls[k].answers
      <4>1. CASE StoreRefcount(t)
        <5> DEFINE x == [calls[k] EXCEPT !.refcount = loaded[t] - 1]
        <5>1. calls' = [calls EXCEPT ![k] = x]
          BY <4>1 DEF StoreRefcount
        <5>2. x.area = calls[k].area /\ x.answers = calls[k].answers
          BY <3>2 DEF Call
        <5>. QED BY <5>1, <5>2
      <4>2. CASE DeleteState(t)
        <5> DEFINE x == [calls[k] EXCEPT !.freed = IF calls[k].refcount = 0 THEN @ + 1 ELSE @]
        <5>1. calls' = [calls EXCEPT ![k] = x]
          BY <4>2 DEF DeleteState
        <5>2. x.area = calls[k].area /\ x.answers = calls[k].answers
          BY <3>2 DEF Call
        <5>. QED BY <5>1, <5>2
      <4>. QED BY <2>6, <4>1, <4>2
    <3>4. UNCHANGED <<generated, deleted>>
      BY <2>6 DEF StoreRefcount, DeleteState
    <3>5. asked' = asked /\ answered' = answered
      BY <3>2, <3>3
    <3>. QED BY <3>4, <3>5
  <2>7. ASSUME NEW t \in Started,
               \/ EndRun(t) \/ PopNothing(t) \/ Wait(t) \/ Pop(t)
               \/ GetFromMemory(t) \/ GetFromDisk(t) \/ StartGen(t) \/ GetNothing(t)
               \/ LoadRefcount(t) \/ SetBlocksNotSent(t)
        PROVE  UNCHANGED <<generated, deleted, calls>>
    BY <2>7 DEF EndRun, PopNothing, Wait, Pop, GetFromMemory, GetFromDisk, StartGen, GetNothing,
       Gets, LoadRefcount, SetBlocksNotSent
  <2>8. ASSUME \/ \E q \in Peer \cup {PEER_ID_INEXISTENT}, p \in Pos,
                     flags \in {{}, {"ALLOW_GEN"}} : Request(q, p, flags)
               \/ EmergeAreaBlock
               \/ \E t \in signalling : Signal(t)
               \/ startThreads \/ Shutdown \/ \E t \in Started : stopThreads(t)
               \/ \E q \in Peer, p \in Pos : SendBlock(q, p)
               \/ \E p \in Pos : Unload(p)
               \/ SendMapEdits
               \/ UNCHANGED vars
        PROVE  UNCHANGED <<generated, deleted, calls>>
    BY <2>8 DEF Request, EmergeAreaBlock, Signal, startThreads, Shutdown, stopThreads, SendBlock,
       Unload, SendMapEdits, vars
  <2>. QED BY <2>1, <2>2, <2>3, <2>5, <2>6, <2>7, <2>8, <2>4 DEF Next, ThreadStep
<1>. QED BY <1>1, <1>2, InvariantHolds, PTL DEF Spec, ImplementsPromise, Promise!Spec
=============================================================================
