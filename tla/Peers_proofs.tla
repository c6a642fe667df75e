---------------------------- MODULE Peers_proofs ----------------------------
(***************************************************************************)
(* For any number of addresses, ids, datagrams and calls: no peer is used  *)
(* after it was freed, each is freed once, and none is left behind.        *)
(***************************************************************************)
EXTENDS Peers, FiniteSetTheorems, WellFoundedInduction, TLAPS

-----------------------------------------------------------------------------
(* The lives of the peers *)

\* What decides about them.
lives == <<m_peers, created, m_usage, m_pending_deletion, freed, helper, erased>>

LivesTyped ==
    /\ m_peers \in [Id -> Peer \cup {NULL}] /\ created \in 0 .. MaxDatagrams
    /\ m_usage \in [Peer -> Nat] /\ m_pending_deletion \subseteq Peer
    /\ freed \in [Peer -> Nat]
    /\ helper \in [Helper -> Peer \cup {NULL}]
    /\ erased \in [Thread -> Peer \cup {NULL}]

\* A peer is in the table, or a thread is deleting it.
Placed(p) == (\E i \in Id : m_peers[i] = p) \/ (\E t \in Thread : erased[t] = p)

\* It is so at one place only: nobody deletes a peer that somebody else can find or
\* deletes too.
OnePlace ==
    /\ \A i, j \in Id : m_peers[i] = m_peers[j] /\ m_peers[i] # NULL => i = j
    /\ \A i \in Id, t \in Thread : m_peers[i] = erased[t] => m_peers[i] = NULL
    /\ \A t, u \in Thread : erased[t] = erased[u] /\ erased[t] # NULL => t = u

\* A peer that is at no place is freed with its last use.
Lifetimes ==
    \A p \in Peer :
       /\ Placed(p) => p =< created /\ freed[p] = 0 /\ p \notin m_pending_deletion
       /\ p > created => freed[p] = 0 /\ m_usage[p] = 0 /\ p \notin m_pending_deletion
       /\ p =< created /\ ~ Placed(p) =>
             /\ m_usage[p] > 0 => p \in m_pending_deletion
             /\ freed[p] = IF m_usage[p] = 0 THEN 1 ELSE 0

Counted == \A p \in Peer : m_usage[p] = Cardinality(Using(p))

Lives == LivesTyped /\ OnePlace /\ Lifetimes /\ Counted

LEMMA UsingFinite ==
    \A p : IsFiniteSet(Using(p)) /\ Cardinality(Using(p)) \in Nat
<1>1. IsFiniteSet({"receive"})
  BY FS_Singleton
<1>2. IsFiniteSet({"receive"} \cup {"send"})
  BY <1>1, FS_AddElement
<1>3. IsFiniteSet(({"receive"} \cup {"send"}) \cup {"user"})
  BY <1>2, FS_AddElement
<1>4. ({"receive"} \cup {"send"}) \cup {"user"} = Helper
  BY DEF Helper
<1>5. IsFiniteSet(Helper)
  BY <1>3, <1>4
<1>6. \A p : Using(p) \in SUBSET Helper
  BY DEF Using
<1>. QED BY <1>5, <1>6, FS_Subset, FS_CardinalityType

\* A peer somebody has is one that is counted as used.
LEMMA UsedIsCounted ==
    ASSUME Lives
    PROVE  \A p \in Peer : (m_usage[p] > 0) <=> (\E h \in Helper : helper[h] = p)
<1> SUFFICES ASSUME NEW p \in Peer
             PROVE  (m_usage[p] > 0) <=> (\E h \in Helper : helper[h] = p)
  OBVIOUS
<1>1. Cardinality(Using(p)) = 0 <=> Using(p) = {}
  BY UsingFinite, FS_EmptySet
<1>2. m_usage[p] = Cardinality(Using(p)) /\ m_usage[p] \in Nat
  BY DEF Lives, LivesTyped, Counted
<1>. QED BY <1>1, <1>2 DEF Using

-----------------------------------------------------------------------------
(* What can happen to them *)

SameLives == UNCHANGED lives

Added(i) ==
    /\ m_peers[i] = NULL /\ created < MaxDatagrams
    /\ m_peers' = [m_peers EXCEPT ![i] = created + 1] /\ created' = created + 1
    /\ UNCHANGED <<life, helper, erased>>

Removed(t, i) ==
    /\ m_peers[i] # NULL /\ erased[t] = NULL
    /\ erased' = [erased EXCEPT ![t] = m_peers[i]]
    /\ m_peers' = [m_peers EXCEPT ![i] = NULL]
    /\ UNCHANGED <<created, life, helper>>

Dropped(t) ==
    /\ erased[t] # NULL
    /\ m_pending_deletion' = m_pending_deletion \cup {erased[t]}
    /\ FreeIfUnused(erased[t])
    /\ erased' = [erased EXCEPT ![t] = NULL]
    /\ UNCHANGED <<m_peers, created, m_usage, helper>>

Got(h, i) ==
    /\ helper[h] = NULL /\ getPeerNoEx(h, i)
    /\ UNCHANGED <<m_peers, created, erased>>

LetGo(h) ==
    /\ helper[h] # NULL /\ DecUseCount(h)
    /\ UNCHANGED <<m_peers, created, erased>>

AllDeleted ==
    /\ \A h \in Helper : helper[h] = NULL
    /\ freed' = [p \in Peer |-> freed[p] + Cardinality({i \in Id : m_peers[i] = p})]
    /\ m_peers' = [i \in Id |-> NULL]
    /\ UNCHANGED <<created, m_usage, m_pending_deletion, helper, erased>>

LEMMA SameKept ==
    ASSUME Lives, SameLives PROVE Lives'
  BY DEF SameLives, lives, Lives, LivesTyped, OnePlace, Placed, Lifetimes, Counted, Using

LEMMA AddedKept ==
    ASSUME Lives, NEW i \in Id, Added(i) PROVE Lives'
<1>. USE DEF Added, life, Lives
<1>1. created + 1 \in Peer /\ created + 1 # NULL
  BY PeersAssumption DEF LivesTyped, Peer, NULL
<1>2. ~ Placed(created + 1)
  BY <1>1 DEF LivesTyped, Lifetimes
<1>3. LivesTyped'
  BY <1>1, PeersAssumption DEF LivesTyped, Peer
<1>4. OnePlace'
  BY <1>1, <1>2 DEF OnePlace, LivesTyped, Placed
<1>5. \A p \in Peer : Placed(p)' <=> Placed(p) \/ p = created + 1
  BY <1>1 DEF Placed, LivesTyped, Peer, NULL
<1>6. Lifetimes'
  BY <1>1, <1>2, <1>5 DEF Lifetimes, LivesTyped, Peer
<1>7. Counted'
  BY DEF Counted, Using
<1>. QED BY <1>3, <1>4, <1>6, <1>7

LEMMA RemovedKept ==
    ASSUME Lives, NEW t \in Thread, NEW i \in Id, Removed(t, i) PROVE Lives'
<1>. USE DEF Removed, life, Lives
<1>1. LivesTyped'
  BY DEF LivesTyped, NULL
<1>2. OnePlace'
  BY DEF OnePlace, LivesTyped, NULL
<1>3. \A p \in Peer : Placed(p)' <=> Placed(p)
  BY DEF Placed, LivesTyped, OnePlace, Peer, NULL
<1>4. Lifetimes'
  BY <1>3 DEF Lifetimes
<1>5. Counted'
  BY DEF Counted, Using
<1>. QED BY <1>1, <1>2, <1>4, <1>5

LEMMA DroppedKept ==
    ASSUME Lives, NEW t \in Thread, Dropped(t) PROVE Lives'
<1>. USE DEF Dropped, Lives
<1> DEFINE q == erased[t]
<1>1. q \in Peer /\ Placed(q)
  BY DEF LivesTyped, Placed
<1>2. LivesTyped'
  BY <1>1 DEF LivesTyped, FreeIfUnused, NULL
<1>3. OnePlace'
  BY DEF OnePlace, LivesTyped, NULL
<1>4. \A p \in Peer : Placed(p)' <=> Placed(p) /\ p # q
  BY <1>1 DEF Placed, LivesTyped, OnePlace, Peer, NULL
<1>5. Lifetimes'
  BY <1>1, <1>4 DEF Lifetimes, LivesTyped, FreeIfUnused, Peer
<1>6. Counted'
  BY DEF Counted, Using
<1>. QED BY <1>2, <1>3, <1>5, <1>6

LEMMA GotKept ==
    ASSUME Lives, NEW h \in Helper, NEW i \in Id, Got(h, i) PROVE Lives'
<1>. USE DEF Got, Lives
<1> DEFINE q == IF m_peers[i] \in m_pending_deletion THEN NULL ELSE m_peers[i]
<1>1. /\ q \in Peer \cup {NULL} /\ helper' = [helper EXCEPT ![h] = q]
      /\ m_usage' = IF q = NULL THEN m_usage ELSE [m_usage EXCEPT ![q] = @ + 1]
      /\ UNCHANGED <<m_pending_deletion, freed>>
  BY DEF getPeerNoEx, LivesTyped
<1>2. q # NULL => Placed(q)
  BY DEF Placed
<1>3. LivesTyped'
  BY <1>1 DEF LivesTyped
<1>4. OnePlace'
  BY DEF OnePlace
<1>5. \A p \in Peer : Placed(p)' <=> Placed(p)
  BY DEF Placed
<1>6. \A p \in Peer : m_usage'[p] = m_usage[p] \/ (Placed(p) /\ p = q /\ p =< created)
  <2>1. ASSUME NEW p \in Peer, m_usage'[p] # m_usage[p]
        PROVE  Placed(p) /\ p = q /\ p =< created
    <3>1. p = q /\ q # NULL
      BY <1>1, <2>1 DEF LivesTyped
    <3>. QED BY <3>1, <1>2 DEF Lifetimes
  <2>. QED BY <2>1
<1>7. Lifetimes'
  BY <1>1, <1>5, <1>6 DEF Lifetimes, LivesTyped, Peer
<1>8. ASSUME NEW p \in Peer PROVE m_usage'[p] = Cardinality(Using(p)')
  <2>1. m_usage[p] = Cardinality(Using(p)) /\ IsFiniteSet(Using(p)) /\ 0 \notin Peer
    BY UsingFinite DEF Counted, Peer
  <2>2. CASE p = q
    <3>1. Using(p)' = Using(p) \cup {h} /\ h \notin Using(p)
      BY <1>1, <2>2 DEF Using, LivesTyped, Peer, NULL
    <3>2. m_usage'[p] = m_usage[p] + 1
      BY <1>1, <2>1, <2>2 DEF LivesTyped, NULL
    <3>3. Cardinality(Using(p) \cup {h}) = Cardinality(Using(p)) + 1
      BY <2>1, <3>1, FS_AddElement
    <3>. QED BY <2>1, <3>1, <3>2, <3>3
  <2>3. CASE p # q
    <3>1. Using(p)' = Using(p)
      BY <1>1, <2>3, <2>1 DEF Using, LivesTyped, NULL
    <3>2. m_usage'[p] = m_usage[p]
      BY <1>1, <2>3 DEF LivesTyped
    <3>. QED BY <2>1, <3>1, <3>2
  <2>. QED BY <2>2, <2>3
<1>. QED BY <1>3, <1>4, <1>7, <1>8 DEF Counted

LEMMA LetGoKept ==
    ASSUME Lives, NEW h \in Helper, LetGo(h) PROVE Lives'
<1>. USE DEF LetGo, Lives
<1> DEFINE q == helper[h]
<1>1. /\ q \in Peer /\ helper' = [helper EXCEPT ![h] = NULL]
      /\ m_usage' = [m_usage EXCEPT ![q] = @ - 1]
      /\ freed' = IF q \in m_pending_deletion /\ m_usage[q] = 1
                  THEN [freed EXCEPT ![q] = @ + 1] ELSE freed
      /\ UNCHANGED m_pending_deletion
  BY DEF DecUseCount, LivesTyped
<1>2. m_usage[q] > 0 /\ m_usage[q] \in Nat
  BY <1>1, UsedIsCounted DEF LivesTyped
<1>3. LivesTyped'
  BY <1>1, <1>2 DEF LivesTyped
<1>4. OnePlace'
  BY DEF OnePlace
<1>5. \A p \in Peer : Placed(p)' <=> Placed(p)
  BY DEF Placed
<1>6. Lifetimes'
  BY <1>1, <1>2, <1>5 DEF Lifetimes, LivesTyped, Peer
<1>7. ASSUME NEW p \in Peer PROVE m_usage'[p] = Cardinality(Using(p)')
  <2>1. m_usage[p] = Cardinality(Using(p)) /\ IsFiniteSet(Using(p)) /\ 0 \notin Peer
    BY UsingFinite DEF Counted, Peer
  <2>2. CASE p = q
    <3>1. Using(p)' = Using(p) \ {h} /\ h \in Using(p)
      BY <1>1, <2>1, <2>2 DEF Using, LivesTyped, NULL
    <3>2. m_usage'[p] = m_usage[p] - 1
      BY <1>1, <2>2 DEF LivesTyped
    <3>3. Cardinality(Using(p) \ {h}) = Cardinality(Using(p)) - 1
      BY <2>1, <3>1, FS_RemoveElement
    <3>. QED BY <2>1, <3>1, <3>2, <3>3
  <2>3. CASE p # q
    <3>1. Using(p)' = Using(p)
      BY <1>1, <2>1, <2>3 DEF Using, LivesTyped, NULL
    <3>2. m_usage'[p] = m_usage[p]
      BY <1>1, <2>3 DEF LivesTyped
    <3>. QED BY <2>1, <3>1, <3>2
  <2>. QED BY <2>2, <2>3
<1>. QED BY <1>3, <1>4, <1>6, <1>7 DEF Counted

LEMMA AllDeletedKept ==
    ASSUME Lives, AllDeleted PROVE Lives'
<1>. USE DEF AllDeleted, Lives
<1> DEFINE Places(p) == {i \in Id : m_peers[i] = p}
<1>1. ASSUME NEW p \in Peer
      PROVE  \/ Places(p) = {} /\ Cardinality(Places(p)) = 0
             \/ (\E i \in Id : m_peers[i] = p) /\ Cardinality(Places(p)) = 1
  <2>1. CASE Places(p) = {}
    BY <2>1, FS_EmptySet
  <2>2. ASSUME NEW i \in Id, m_peers[i] = p PROVE Places(p) = {i}
    BY <2>2 DEF OnePlace, Peer, NULL
  <2>3. \A i : Cardinality({i}) = 1
    BY FS_Singleton
  <2>. QED BY <2>1, <2>2, <2>3
<1>2. \A p \in Peer : m_usage[p] = 0
  <2>1. \A p \in Peer : m_usage[p] \in Nat /\ p # NULL
    BY DEF LivesTyped, Peer, NULL
  <2>. QED BY <2>1, UsedIsCounted
<1>3. \A p \in Peer :
         /\ ~ (\E i \in Id : m_peers'[i] = p)
         /\ Placed(p)' <=> (\E t \in Thread : erased[t] = p)
         /\ (\E i \in Id : m_peers[i] = p) => ~ Placed(p)' /\ freed'[p] = freed[p] + 1
         /\ ~ (\E i \in Id : m_peers[i] = p) => freed'[p] = freed[p]
  <2> SUFFICES ASSUME NEW p \in Peer
               PROVE  /\ ~ (\E i \in Id : m_peers'[i] = p)
                      /\ Placed(p)' <=> (\E t \in Thread : erased[t] = p)
                      /\ (\E i \in Id : m_peers[i] = p) => ~ Placed(p)' /\ freed'[p] = freed[p] + 1
                      /\ ~ (\E i \in Id : m_peers[i] = p) => freed'[p] = freed[p]
    OBVIOUS
  <2>1. p # NULL
    BY DEF Peer, NULL
  <2>2. ~ (\E i \in Id : m_peers'[i] = p) /\ erased' = erased
    BY <2>1
  <2>3. Placed(p)' <=> (\E t \in Thread : erased[t] = p)
    BY <2>2 DEF Placed
  <2>4. freed[p] \in Nat /\ freed'[p] = freed[p] + Cardinality(Places(p))
    BY DEF LivesTyped
  <2>5. (\E i \in Id : m_peers[i] = p) => ~ (\E t \in Thread : erased[t] = p)
    BY <2>1 DEF OnePlace
  <2>6. (\E i \in Id : m_peers[i] = p) <=> Places(p) # {}
    OBVIOUS
  <2>7. \/ Places(p) = {} /\ Cardinality(Places(p)) = 0
        \/ (\E i \in Id : m_peers[i] = p) /\ Cardinality(Places(p)) = 1
    BY <1>1
  <2> HIDE DEF Places
  <2>. QED BY <2>2, <2>3, <2>4, <2>5, <2>6, <2>7
<1>4. LivesTyped'
  BY <1>1 DEF LivesTyped
<1>5. OnePlace'
  BY DEF OnePlace, LivesTyped, NULL
<1>6. Lifetimes'
  <2> SUFFICES ASSUME NEW p \in Peer
               PROVE  /\ Placed(p)' => p =< created /\ freed'[p] = 0 /\ p \notin m_pending_deletion
                      /\ p > created => /\ freed'[p] = 0 /\ m_usage[p] = 0
                                        /\ p \notin m_pending_deletion
                      /\ p =< created /\ ~ Placed(p)' => freed'[p] = 1
    BY <1>2 DEF Lifetimes
  <2>1. CASE \E i \in Id : m_peers[i] = p
    <3>1. Placed(p) /\ freed'[p] = freed[p] + 1 /\ ~ Placed(p)'
      BY <2>1, <1>3 DEF Placed
    <3>2. p =< created /\ freed[p] = 0
      BY <3>1 DEF Lifetimes
    <3>. QED BY <3>1, <3>2 DEF LivesTyped, Peer
  <2>2. CASE ~ \E i \in Id : m_peers[i] = p
    <3>1. (Placed(p) <=> Placed(p)') /\ freed'[p] = freed[p]
      BY <2>2, <1>3 DEF Placed
    <3>. QED BY <3>1, <1>2 DEF Lifetimes
  <2>. QED BY <2>1, <2>2
<1>7. Counted'
  BY DEF Counted, Using
<1>. QED BY <1>4, <1>5, <1>6, <1>7

-----------------------------------------------------------------------------
(* The threads *)

Receiving ==
    [pc : {"idle", "create", "get", "process", "event", "release", "ended"},
     id : Id, from : Id, address : Address, type : {"DATA", "DISCO"}]

Sending ==
    [pc : {"run", "runTimeouts", "timeout", "commands", "CREATE_PEER",
           "DISCONNECT_PEER", "sendPackets", "quota", "packet", "ended"},
     peerIds : SUBSET Id, chosen : SUBSET Id, waiting : SUBSET Id, left : Nat]

QueuedCommand == [type : {"CREATE_PEER", "DISCONNECT_PEER", "ACK"}, id : Id]
QueuedPacket == [id : Id, ack : BOOLEAN]

RestTyped ==
    /\ m_next_remote_peer_id \in Id /\ peer \in [Peer -> [id : Id, address : Address]]
    /\ m_has_sent_with_id \subseteq Peer /\ m_pending_disconnect \subseteq Peer
    /\ told \subseteq Thread
    /\ m_command_queue \in Seq(QueuedCommand) /\ m_outgoing_queue \in Seq(QueuedPacket)
    /\ receiving \in Receiving /\ sending \in Sending
    /\ known \subseteq Id /\ connected \subseteq Id
    /\ event \in [type : {"NONE", "PEER_ADDED", "DATA_RECEIVED", "PEER_REMOVED"}, id : Id]
    /\ m_peer_id \in [Address -> Id] /\ offered \subseteq Peer
    /\ m_shutting_down \in BOOLEAN /\ crashed \in {"no", "quota", "rawSend"}
    /\ datagrams \in 0 .. MaxDatagrams /\ uses \in 0 .. MaxUses

\* Where a thread is tells whether it has a peer.
ThreadsHold ==
    /\ helper["receive"] # NULL <=> receiving.pc \in {"process", "event", "release"}
    /\ helper["send"] # NULL <=>
          sending.pc \in {"timeout", "CREATE_PEER", "DISCONNECT_PEER", "quota", "packet"}
    /\ m_shutting_down => helper["user"] = NULL
    /\ receiving.pc = "ended" \/ sending.pc = "ended" => m_shutting_down
    /\ \A t \in told : erased[t] # NULL

\* Each peer takes a datagram.
CreationsCounted ==
    /\ created =< datagrams
    /\ receiving.pc = "create" => created < datagrams

\* The loop over m_outgoing_queue never runs out of packets.
PacketsLeft ==
    /\ sending.left =< Len(m_outgoing_queue)
    /\ sending.pc = "packet" => sending.left > 0

Others == RestTyped /\ ThreadsHold /\ CreationsCounted /\ PacketsLeft

IInv == Lives /\ Others

LEMMA TypesTogether == LivesTyped /\ RestTyped <=> TypeOK
<1>1. created \in 0 .. MaxDatagrams <=> created \in Peer \cup {0}
  BY PeersAssumption DEF Peer
<1>. QED BY <1>1 DEF LivesTyped, RestTyped, TypeOK, Receiving, Sending, QueuedCommand, QueuedPacket

\* Every set of numbers that is not empty has a least one.
LEMMA LeastNumber ==
    ASSUME NEW S \in SUBSET Nat, S # {} PROVE \E n \in S : \A m \in S : n =< m
<1> DEFINE R == OpToRel(<, Nat)
<1>1. \E n \in S : \A m \in S : ~ (<<m, n>> \in R)
  BY NatLessThanWellFounded, WFMin
<1>2. \A m, n \in Nat : m < n => <<m, n>> \in R
  BY DEF OpToRel
<1> HIDE DEF R
<1>3. PICK n \in S : \A m \in S : ~ (<<m, n>> \in R)
  BY <1>1
<1>4. \A m \in S : ~ (m < n)
  BY <1>2, <1>3
<1>5. \A m \in S : n =< m
  BY <1>4
<1>. QED BY <1>5

LEMMA NewIdFree ==
    ASSUME LivesTyped, RestTyped, FreeIds # {}
    PROVE  NewId \in Id /\ m_peers[NewId] = NULL /\ (NewId + 1) % MAX_UDP_PEERS \in Id
<1>1. FreeIds \in SUBSET Nat
  BY PeersAssumption DEF FreeIds, RestTyped, Id
<1>2. \E n \in FreeIds : \A m \in FreeIds : n =< m
  BY <1>1, LeastNumber
<1>3. NewId \in FreeIds
  BY <1>2 DEF NewId
<1>4. NewId \in Id /\ m_peers[NewId] = NULL
  BY <1>3, PeersAssumption DEF FreeIds, InTable, Id, RestTyped
<1>5. (NewId + 1) % MAX_UDP_PEERS \in 0 .. MAX_UDP_PEERS - 1
  BY <1>4, PeersAssumption DEF Id
<1>. QED BY <1>4, <1>5, PeersAssumption DEF Id

Waiting(a) == {i \in InTable : m_peers[i] \notin m_has_sent_with_id
                               /\ peer[m_peers[i]].address = a}

LEMMA LookupPeer ==
    ASSUME NEW a
    PROVE  /\ lookupPeer(a) \in Id
           /\ \/ Waiting(a) = {} /\ lookupPeer(a) = PEER_ID_INEXISTENT
              \/ lookupPeer(a) \in Waiting(a)
<1>1. Waiting(a) \in SUBSET Nat /\ Waiting(a) \subseteq Id /\ PEER_ID_INEXISTENT \in Id
  BY PeersAssumption DEF Waiting, InTable, Id, PEER_ID_INEXISTENT
<1>2. Waiting(a) # {} => \E n \in Waiting(a) : \A m \in Waiting(a) : n =< m
  BY <1>1, LeastNumber
<1>3. lookupPeer(a) = IF Waiting(a) = {} THEN PEER_ID_INEXISTENT
                      ELSE CHOOSE i \in Waiting(a) : \A j \in Waiting(a) : i =< j
  BY DEF lookupPeer, Waiting
<1>4. Waiting(a) # {} => lookupPeer(a) \in Waiting(a)
  <2> HIDE DEF lookupPeer
  <2>. QED BY <1>2, <1>3
<1>. QED BY <1>1, <1>3, <1>4

LEMMA IdsAreIds ==
    ASSUME RestTyped, NEW a \in Address PROVE IdsOf(a) \subseteq Id
  BY PeersAssumption DEF IdsOf, RestTyped, Id, PEER_ID_INEXISTENT

LEMMA StartsTyped ==
    /\ Idle \in Receiving /\ Idle.pc = "idle"
    /\ Beginning \in Sending
    /\ Beginning.pc = "run" /\ Beginning.peerIds = {} /\ Beginning.left = 0
<1>1. Idle.address \in Address /\ PEER_ID_INEXISTENT \in Id
  BY PeersAssumption DEF Idle, Id, PEER_ID_INEXISTENT
<1>. QED BY <1>1 DEF Idle, Beginning, Receiving, Sending

LEMMA Initially == Init => IInv
<1> SUFFICES ASSUME Init PROVE IInv
  OBVIOUS
<1>. USE DEF Init
<1>1. Idle.address \in Address /\ 0 \in Id /\ 2 \in Id /\ PEER_ID_INEXISTENT = 0
  BY PeersAssumption DEF Idle, Id, PEER_ID_INEXISTENT
<1>2. LivesTyped
  BY PeersAssumption DEF LivesTyped, NULL
<1>3. OnePlace
  BY DEF OnePlace, NULL
<1>4. Lifetimes
  BY DEF Lifetimes, Placed, Peer, NULL
<1>5. Counted
  <2>1. \A p \in Peer : Using(p) = {}
    BY DEF Using, Peer, NULL
  <2>. QED BY <2>1, FS_EmptySet DEF Counted
<1>6. RestTyped
  <2>1. /\ receiving \in [pc : {"idle"}, id : Id, from : Id, address : Address, type : {"DATA"}]
        /\ sending \in [pc : {"run"}, peerIds : SUBSET Id, chosen : SUBSET Id,
                        waiting : SUBSET Id, left : Nat]
    BY <1>1 DEF Idle, Beginning
  <2>2. event \in [type : {"NONE"}, id : Id]
    BY <1>1 DEF NothingTold
  <2>3. m_command_queue \in Seq(QueuedCommand) /\ m_outgoing_queue \in Seq(QueuedPacket)
    OBVIOUS
  <2>4. 0 \in 0 .. MaxDatagrams /\ 0 \in 0 .. MaxUses
    BY PeersAssumption
  <2>5. m_peer_id \in [Address -> Id] /\ peer \in [Peer -> [id : Id, address : Address]]
    BY <1>1
  <2>6. /\ m_next_remote_peer_id \in Id /\ m_has_sent_with_id \subseteq Peer
        /\ m_pending_disconnect \subseteq Peer /\ told \subseteq Thread
        /\ known \subseteq Id /\ connected \subseteq Id /\ offered \subseteq Peer
        /\ m_shutting_down \in BOOLEAN /\ crashed \in {"no", "quota", "rawSend"}
        /\ datagrams \in 0 .. MaxDatagrams /\ uses \in 0 .. MaxUses
    BY <1>1, <2>4
  <2> HIDE DEF Init
  <2>. QED BY <2>1, <2>2, <2>3, <2>5, <2>6 DEF RestTyped, Receiving, Sending
<1>7. ThreadsHold
  BY DEF ThreadsHold, Idle, Beginning, Helper, NULL
<1>8. CreationsCounted
  BY DEF CreationsCounted, Idle
<1>9. PacketsLeft
  BY DEF PacketsLeft, Beginning
<1>. QED BY <1>2, <1>3, <1>4, <1>5, <1>6, <1>7, <1>8, <1>9 DEF IInv, Lives, Others

LEMMA QueueFacts ==
    ASSUME NEW S, NEW q \in Seq(S)
    PROVE  /\ \A e \in S : Append(q, e) \in Seq(S) /\ Len(Append(q, e)) = Len(q) + 1
           /\ q # <<>> => /\ Head(q) \in S /\ Tail(q) \in Seq(S)
                         /\ Len(Tail(q)) = Len(q) - 1
           /\ Len(q) > 0 => q # <<>>
           /\ Len(q) \in Nat
  OBVIOUS

LEMMA CommandPut ==
    ASSUME RestTyped, NEW c \in {"CREATE_PEER", "DISCONNECT_PEER", "ACK"}, NEW i \in Id,
           putCommand(c, i)
    PROVE  m_command_queue' \in Seq(QueuedCommand)
  BY QueueFacts DEF putCommand, RestTyped, QueuedCommand

\* A packet is taken from the front of m_outgoing_queue.
LEMMA NextPacket ==
    ASSUME RestTyped, PacketsLeft, sending.left > 0
    PROVE  /\ m_outgoing_queue # <<>> /\ sending.left - 1 \in Nat
           /\ Head(m_outgoing_queue) \in QueuedPacket /\ Head(m_outgoing_queue).id \in Id
           /\ Tail(m_outgoing_queue) \in Seq(QueuedPacket)
           /\ Len(Tail(m_outgoing_queue)) = Len(m_outgoing_queue) - 1
           /\ Append(Tail(m_outgoing_queue), Head(m_outgoing_queue)) \in Seq(QueuedPacket)
           /\ Len(Append(Tail(m_outgoing_queue), Head(m_outgoing_queue)))
                 = Len(m_outgoing_queue)
<1>1. m_outgoing_queue \in Seq(QueuedPacket) /\ sending.left \in Nat
      /\ Len(m_outgoing_queue) > 0
  BY QueueFacts DEF RestTyped, Sending, PacketsLeft
<1>2. m_outgoing_queue # <<>>
  BY <1>1, QueueFacts
<1>3. /\ Head(m_outgoing_queue) \in QueuedPacket
      /\ Tail(m_outgoing_queue) \in Seq(QueuedPacket)
      /\ Len(Tail(m_outgoing_queue)) = Len(m_outgoing_queue) - 1
  BY <1>1, <1>2, QueueFacts
<1>4. /\ Append(Tail(m_outgoing_queue), Head(m_outgoing_queue)) \in Seq(QueuedPacket)
      /\ Len(Append(Tail(m_outgoing_queue), Head(m_outgoing_queue)))
            = Len(m_outgoing_queue) - 1 + 1
  BY <1>3, QueueFacts
<1>5. Head(m_outgoing_queue).id \in Id
  BY <1>3 DEF QueuedPacket
<1>6. sending.left - 1 \in Nat
  BY <1>1
<1>. QED BY <1>1, <1>2, <1>3, <1>4, <1>5, <1>6

LEMMA StepKeeps == IInv /\ [Next]_vars => IInv'
<1> SUFFICES ASSUME IInv, [Next]_vars PROVE IInv'
  OBVIOUS
<1>. USE DEF IInv, Others, table, marks, life, delete, queues, threads, user, clients, control
<1>1. ASSUME NEW a \in Address, NEW from \in Id, NEW type \in {"DATA", "DISCO"},
             Receive(a, from, type)
      PROVE IInv'
  <2>a. created \in Nat /\ datagrams \in Nat /\ MaxDatagrams \in Nat
    BY PeersAssumption DEF Lives, LivesTyped, RestTyped
  <2>1. SameLives
    BY <1>1, LookupPeer, <2>a DEF Receive, At, Ready, SameLives, lives, ThreadsHold,
       PacketsLeft, RestTyped, Sending
  <2>2. Lives'
    BY <2>1, SameKept DEF Helper, Thread
  <2>3. RestTyped'
    BY <1>1, LookupPeer, <2>a DEF Receive, At, Ready, RestTyped, Receiving, Sending
  <2>4. ThreadsHold'
    BY <1>1, LookupPeer, <2>a, <2>2 DEF Receive, At, Ready, ThreadsHold, RestTyped, Receiving,
       Sending, Lives, LivesTyped, Helper, Thread
  <2>5. CreationsCounted'
    BY <1>1, LookupPeer, <2>a DEF Receive, At, Ready, CreationsCounted, RestTyped, Receiving
  <2>6. PacketsLeft'
    BY <1>1, LookupPeer, <2>a DEF Receive, At, Ready, PacketsLeft, RestTyped, Sending
  <2>. QED BY <2>2, <2>3, <2>4, <2>5, <2>6
<1>2. ASSUME PeerGone PROVE IInv'
  <2>1. SameLives
    BY <1>2, StartsTyped DEF PeerGone, At, Ready, SameLives, lives, ThreadsHold, PacketsLeft,
       RestTyped, Sending
  <2>2. Lives'
    BY <2>1, SameKept DEF Helper, Thread
  <2>3. RestTyped'
    BY <1>2, StartsTyped DEF PeerGone, At, Ready, RestTyped, Receiving, Sending
  <2>4. ThreadsHold'
    BY <1>2, StartsTyped, <2>2 DEF PeerGone, At, Ready, ThreadsHold, RestTyped, Receiving,
       Sending, Lives, LivesTyped, Helper, Thread
  <2>5. CreationsCounted'
    BY <1>2, StartsTyped DEF PeerGone, At, Ready, CreationsCounted, RestTyped, Receiving
  <2>6. PacketsLeft'
    BY <1>2, StartsTyped DEF PeerGone, At, Ready, PacketsLeft, RestTyped, Sending
  <2>. QED BY <2>2, <2>3, <2>4, <2>5, <2>6
<1>3. ASSUME Data PROVE IInv'
  <2>1. SameLives
    BY <1>3, StartsTyped DEF Data, At, Ready, SameLives, lives, ThreadsHold, PacketsLeft,
       RestTyped, Sending
  <2>2. Lives'
    BY <2>1, SameKept DEF Helper, Thread
  <2>3. RestTyped'
    <3>1. receiving' \in Receiving
      BY <1>3, StartsTyped DEF Data, At, Ready, RestTyped, Receiving
    <3>2. m_command_queue' \in Seq(QueuedCommand)
      BY <1>3, StartsTyped, CommandPut DEF Data, At, Ready, RestTyped, Receiving
    <3>. QED
      BY <1>3, StartsTyped, <3>1, <3>2 DEF Data, At, Ready, RestTyped
  <2>4. ThreadsHold'
    BY <1>3, StartsTyped, <2>2 DEF Data, At, Ready, ThreadsHold, RestTyped, Receiving, Sending,
       Lives, LivesTyped, Helper, Thread
  <2>5. CreationsCounted'
    BY <1>3, StartsTyped DEF Data, At, Ready, CreationsCounted, RestTyped, Receiving
  <2>6. PacketsLeft'
    BY <1>3, StartsTyped DEF Data, At, Ready, PacketsLeft, RestTyped, Sending
  <2>. QED BY <2>2, <2>3, <2>4, <2>5, <2>6
<1>4. ASSUME PutData PROVE IInv'
  <2>1. SameLives
    BY <1>4, StartsTyped DEF PutData, At, Ready, putEvent, SameLives, lives, ThreadsHold,
       PacketsLeft, RestTyped, Sending
  <2>2. Lives'
    BY <2>1, SameKept DEF Helper, Thread
  <2>3. RestTyped'
    BY <1>4, StartsTyped DEF PutData, At, Ready, putEvent, RestTyped, Receiving, Sending
  <2>4. ThreadsHold'
    BY <1>4, StartsTyped, <2>2 DEF PutData, At, Ready, putEvent, ThreadsHold, RestTyped,
       Receiving, Sending, Lives, LivesTyped, Helper, Thread
  <2>5. CreationsCounted'
    BY <1>4, StartsTyped DEF PutData, At, Ready, putEvent, CreationsCounted, RestTyped,
       Receiving
  <2>6. PacketsLeft'
    BY <1>4, StartsTyped DEF PutData, At, Ready, putEvent, PacketsLeft, RestTyped, Sending
  <2>. QED BY <2>2, <2>3, <2>4, <2>5, <2>6
<1>5. ASSUME ReceiveEnds PROVE IInv'
  <2>1. SameLives
    BY <1>5 DEF ReceiveEnds, At, Ready, SameLives, lives, ThreadsHold, PacketsLeft, RestTyped,
       Sending
  <2>2. Lives'
    BY <2>1, SameKept DEF Helper, Thread
  <2>3. RestTyped'
    BY <1>5 DEF ReceiveEnds, At, Ready, RestTyped, Receiving, Sending
  <2>4. ThreadsHold'
    BY <1>5, <2>2 DEF ReceiveEnds, At, Ready, ThreadsHold, RestTyped, Receiving, Sending, Lives,
       LivesTyped, Helper, Thread
  <2>5. CreationsCounted'
    BY <1>5 DEF ReceiveEnds, At, Ready, CreationsCounted, RestTyped, Receiving
  <2>6. PacketsLeft'
    BY <1>5 DEF ReceiveEnds, At, Ready, PacketsLeft, RestTyped, Sending
  <2>. QED BY <2>2, <2>3, <2>4, <2>5, <2>6
<1>6. ASSUME Release PROVE IInv'
  <2>1. LetGo("receive")
    BY <1>6, StartsTyped DEF Release, At, Ready, DecUseCount, LetGo, SameLives, lives,
       ThreadsHold, PacketsLeft, RestTyped, Sending
  <2>2. Lives'
    BY <2>1, LetGoKept DEF Helper, Thread
  <2>3. RestTyped'
    BY <1>6, StartsTyped DEF Release, At, Ready, DecUseCount, RestTyped, Receiving, Sending
  <2>4. ThreadsHold'
    BY <1>6, StartsTyped, <2>2 DEF Release, At, Ready, DecUseCount, LetGo, ThreadsHold,
       RestTyped, Receiving, Sending, Lives, LivesTyped, Helper, Thread
  <2>5. CreationsCounted'
    BY <1>6, StartsTyped DEF Release, At, Ready, DecUseCount, LetGo, CreationsCounted,
       RestTyped, Receiving
  <2>6. PacketsLeft'
    BY <1>6, StartsTyped DEF Release, At, Ready, DecUseCount, LetGo, PacketsLeft, RestTyped,
       Sending
  <2>. QED BY <2>2, <2>3, <2>4, <2>5, <2>6
<1>7. ASSUME NEW pc \in {"run", "commands"}, NEW next \in {"runTimeouts", "sendPackets"},
             NEW packets \in 0 .. Len(m_outgoing_queue), Begin(pc, next, packets)
      PROVE  IInv'
  <2>a. InTable \in SUBSET Id /\ packets \in Nat
    BY DEF InTable, RestTyped
  <2>1. SameLives
    BY <1>7, StartsTyped, <2>a DEF Begin, SendAt, Ready, SameLives, lives, ThreadsHold,
       PacketsLeft, RestTyped, Sending
  <2>2. Lives'
    BY <2>1, SameKept DEF Helper, Thread
  <2>3. RestTyped'
    <3>1. sending' \in Sending
      BY <1>7, StartsTyped, <2>a DEF Begin, SendAt, Ready, RestTyped, Sending
    <3>. QED
      BY <1>7, StartsTyped, <2>a, <3>1 DEF Begin, SendAt, Ready, RestTyped
  <2>4. ThreadsHold'
    BY <1>7, StartsTyped, <2>a, <2>2 DEF Begin, SendAt, Ready, ThreadsHold, RestTyped,
       Receiving, Sending, Lives, LivesTyped, Helper, Thread
  <2>5. CreationsCounted'
    BY <1>7, StartsTyped, <2>a DEF Begin, SendAt, Ready, CreationsCounted, RestTyped, Receiving
  <2>6. PacketsLeft'
    BY <1>7, StartsTyped, <2>a DEF Begin, SendAt, Ready, PacketsLeft, RestTyped, Sending
  <2>. QED BY <2>2, <2>3, <2>4, <2>5, <2>6
<1>8. ASSUME NEW pc \in {"runTimeouts", "sendPackets"}, NEW next \in {"timeout", "quota"},
             NextPeer(pc, next)
      PROVE  IInv'
  <2>1. \E i \in Id : Got("send", i)
    BY <1>8 DEF NextPeer, getPeerNoEx, SendAt, Ready, Got, SameLives, lives, ThreadsHold,
       PacketsLeft, RestTyped, Sending
  <2>2. Lives'
    BY <2>1, GotKept DEF Helper, Thread
  <2>3. RestTyped'
    <3>1. PICK i \in sending.peerIds :
             \/ sending' = [sending EXCEPT !.peerIds = @ \ {i}]
             \/ sending' = [sending EXCEPT !.peerIds = @ \ {i}, !.pc = next]
      <4>1. PICK i \in sending.peerIds :
               sending' = [sending EXCEPT !.peerIds = @ \ {i},
                                          !.pc = IF helper'["send"] = NULL THEN @ ELSE next]
        BY <1>8 DEF NextPeer
      <4>2. CASE helper'["send"] = NULL
        BY <4>1, <4>2 DEF RestTyped, Sending
      <4>3. CASE helper'["send"] # NULL
        BY <4>1, <4>3
      <4>. QED BY <4>2, <4>3
    <3>2. sending' \in Sending
      BY <3>1 DEF RestTyped, Sending
    <3>. QED
      BY <1>8, <3>2 DEF NextPeer, getPeerNoEx, SendAt, Ready, RestTyped
  <2>4. ThreadsHold'
    BY <1>8, <2>2 DEF NextPeer, getPeerNoEx, SendAt, Ready, Got, ThreadsHold, RestTyped,
       Receiving, Sending, Lives, LivesTyped, Helper, Thread
  <2>5. CreationsCounted'
    BY <1>8 DEF NextPeer, getPeerNoEx, SendAt, Ready, Got, CreationsCounted, RestTyped,
       Receiving
  <2>6. PacketsLeft'
    BY <1>8 DEF NextPeer, getPeerNoEx, SendAt, Ready, Got, PacketsLeft, RestTyped, Sending
  <2>. QED BY <2>2, <2>3, <2>4, <2>5, <2>6
<1>9. ASSUME TimedOut \/ NotTimedOut \/ Quota PROVE IInv'
  <2>a. helper["send"] \in Peer /\ peer[helper["send"]].id \in Id
    BY <1>9 DEF TimedOut, NotTimedOut, Quota, SendAt, ThreadsHold, Lives, LivesTyped, RestTyped,
       Helper
  <2>b. /\ sending.pc \in {"timeout", "quota"} /\ Ready("send")
        /\ \E pc \in {"runTimeouts", "sendPackets"}, ids \in SUBSET Id : Choose(pc, ids)
    BY <1>9, <2>a DEF TimedOut, NotTimedOut, Quota, SendAt
  <2>1. LetGo("send")
    BY <1>9, <2>a, <2>b DEF Choose, DecUseCount, LetGo, SameLives, lives, ThreadsHold,
       PacketsLeft, RestTyped, Sending
  <2>2. Lives'
    BY <2>1, LetGoKept DEF Helper, Thread
  <2>3. RestTyped'
    <3>1. PICK pc \in {"runTimeouts", "sendPackets"}, ids \in SUBSET Id :
             sending' = [sending EXCEPT !.pc = pc, !.chosen = @ \cup ids]
      BY <2>b DEF Choose
    <3>2. sending' \in Sending
      BY <3>1 DEF RestTyped, Sending
    <3>. QED
      BY <2>a, <2>b, <3>2 DEF Choose, DecUseCount, RestTyped
  <2>4. ThreadsHold'
    BY <1>9, <2>a, <2>b, <2>2 DEF Choose, DecUseCount, LetGo, ThreadsHold, RestTyped, Receiving,
       Sending, Lives, LivesTyped, Helper, Thread
  <2>5. CreationsCounted'
    BY <1>9, <2>a, <2>b DEF Choose, DecUseCount, LetGo, CreationsCounted, RestTyped, Receiving
  <2>6. PacketsLeft'
    BY <1>9, <2>a, <2>b DEF Choose, DecUseCount, LetGo, PacketsLeft, RestTyped, Sending
  <2>. QED BY <2>2, <2>3, <2>4, <2>5, <2>6
<1>10. ASSUME NoPeers PROVE IInv'
  <2>1. LetGo("send")
    BY <1>10, StartsTyped DEF NoPeers, DecUseCount, SendAt, Ready, LetGo, SameLives, lives,
       ThreadsHold, PacketsLeft, RestTyped, Sending
  <2>2. Lives'
    BY <2>1, LetGoKept DEF Helper, Thread
  <2>3. RestTyped'
    BY <1>10, StartsTyped DEF NoPeers, DecUseCount, SendAt, Ready, RestTyped, Receiving, Sending
  <2>4. ThreadsHold'
    BY <1>10, StartsTyped, <2>2 DEF NoPeers, DecUseCount, SendAt, Ready, LetGo, ThreadsHold,
       RestTyped, Receiving, Sending, Lives, LivesTyped, Helper, Thread
  <2>5. CreationsCounted'
    BY <1>10, StartsTyped DEF NoPeers, DecUseCount, SendAt, Ready, LetGo, CreationsCounted,
       RestTyped, Receiving
  <2>6. PacketsLeft'
    BY <1>10, StartsTyped DEF NoPeers, DecUseCount, SendAt, Ready, LetGo, PacketsLeft,
       RestTyped, Sending
  <2>. QED BY <2>2, <2>3, <2>4, <2>5, <2>6
<1>11. ASSUME NEW pc \in {"runTimeouts", "sendPackets"}, NEW next \in {"run", "commands"},
             Proceed(pc, next)
      PROVE  IInv'
  <2>1. SameLives
    BY <1>11, StartsTyped DEF Proceed, SendAt, Ready, SameLives, lives, ThreadsHold,
       PacketsLeft, RestTyped, Sending
  <2>2. Lives'
    BY <2>1, SameKept DEF Helper, Thread
  <2>3. RestTyped'
    BY <1>11, StartsTyped DEF Proceed, SendAt, Ready, RestTyped, Receiving, Sending
  <2>4. ThreadsHold'
    BY <1>11, StartsTyped, <2>2 DEF Proceed, SendAt, Ready, ThreadsHold, RestTyped, Receiving,
       Sending, Lives, LivesTyped, Helper, Thread
  <2>5. CreationsCounted'
    BY <1>11, StartsTyped DEF Proceed, SendAt, Ready, CreationsCounted, RestTyped, Receiving
  <2>6. PacketsLeft'
    BY <1>11, StartsTyped DEF Proceed, SendAt, Ready, PacketsLeft, RestTyped, Sending
  <2>. QED BY <2>2, <2>3, <2>4, <2>5, <2>6
<1>12. ASSUME OfferId PROVE IInv'
  <2>a. helper["send"] \in Peer /\ peer[helper["send"]].id \in Id
    BY <1>12 DEF OfferId, SendAt, ThreadsHold, Lives, LivesTyped, RestTyped, Helper
  <2>1. LetGo("send")
    BY <1>12, <2>a DEF OfferId, DecUseCount, SendAt, Ready, LetGo, SameLives, lives,
       ThreadsHold, PacketsLeft, RestTyped, Sending
  <2>2. Lives'
    BY <2>1, LetGoKept DEF Helper, Thread
  <2>3. RestTyped'
    BY <1>12, <2>a DEF OfferId, DecUseCount, SendAt, Ready, RestTyped, Receiving, Sending
  <2>4. ThreadsHold'
    BY <1>12, <2>a, <2>2 DEF OfferId, DecUseCount, SendAt, Ready, LetGo, ThreadsHold, RestTyped,
       Receiving, Sending, Lives, LivesTyped, Helper, Thread
  <2>5. CreationsCounted'
    BY <1>12, <2>a DEF OfferId, DecUseCount, SendAt, Ready, LetGo, CreationsCounted, RestTyped,
       Receiving
  <2>6. PacketsLeft'
    BY <1>12, <2>a DEF OfferId, DecUseCount, SendAt, Ready, LetGo, PacketsLeft, RestTyped,
       Sending
  <2>. QED BY <2>2, <2>3, <2>4, <2>5, <2>6
<1>13. ASSUME MarkDisconnect PROVE IInv'
  <2>a. helper["send"] \in Peer /\ peer[helper["send"]].id \in Id
    BY <1>13 DEF MarkDisconnect, SendAt, ThreadsHold, Lives, LivesTyped, RestTyped, Helper
  <2>1. LetGo("send")
    BY <1>13, <2>a DEF MarkDisconnect, DecUseCount, SendAt, Ready, LetGo, SameLives, lives,
       ThreadsHold, PacketsLeft, RestTyped, Sending
  <2>2. Lives'
    BY <2>1, LetGoKept DEF Helper, Thread
  <2>3. RestTyped'
    BY <1>13, <2>a DEF MarkDisconnect, DecUseCount, SendAt, Ready, RestTyped, Receiving, Sending
  <2>4. ThreadsHold'
    BY <1>13, <2>a, <2>2 DEF MarkDisconnect, DecUseCount, SendAt, Ready, LetGo, ThreadsHold,
       RestTyped, Receiving, Sending, Lives, LivesTyped, Helper, Thread
  <2>5. CreationsCounted'
    BY <1>13, <2>a DEF MarkDisconnect, DecUseCount, SendAt, Ready, LetGo, CreationsCounted,
       RestTyped, Receiving
  <2>6. PacketsLeft'
    BY <1>13, <2>a DEF MarkDisconnect, DecUseCount, SendAt, Ready, LetGo, PacketsLeft,
       RestTyped, Sending
  <2>. QED BY <2>2, <2>3, <2>4, <2>5, <2>6
<1>14. ASSUME QuotaOfNone PROVE IInv'
  <2>1. SameLives
    BY <1>14 DEF QuotaOfNone, SendAt, Ready, SameLives, lives, ThreadsHold, PacketsLeft,
       RestTyped, Sending
  <2>2. Lives'
    BY <2>1, SameKept DEF Helper, Thread
  <2>3. RestTyped'
    BY <1>14 DEF QuotaOfNone, SendAt, Ready, RestTyped, Receiving, Sending
  <2>4. ThreadsHold'
    BY <1>14, <2>2 DEF QuotaOfNone, SendAt, Ready, ThreadsHold, RestTyped, Receiving, Sending,
       Lives, LivesTyped, Helper, Thread
  <2>5. CreationsCounted'
    BY <1>14 DEF QuotaOfNone, SendAt, Ready, CreationsCounted, RestTyped, Receiving
  <2>6. PacketsLeft'
    BY <1>14 DEF QuotaOfNone, SendAt, Ready, PacketsLeft, RestTyped, Sending
  <2>. QED BY <2>2, <2>3, <2>4, <2>5, <2>6
<1>15. ASSUME Outgoing PROVE IInv'
  <2>a. PacketsLeft /\ sending.left > 0 /\ RestTyped /\ Len(m_outgoing_queue) \in Nat
    BY <1>15, QueueFacts DEF Outgoing, SendAt, PacketsLeft, RestTyped, Sending
  <2>1. Got("send", Head(m_outgoing_queue).id) /\ Head(m_outgoing_queue).id \in Id
    BY <1>15, <2>a, NextPacket DEF Outgoing, getPeerNoEx, SendAt, Ready, Got, SameLives, lives,
       ThreadsHold, PacketsLeft, RestTyped, Sending
  <2>2. Lives'
    BY <2>1, GotKept DEF Helper, Thread
  <2>3. RestTyped'
    <3>1. sending' \in Sending
      BY <1>15, <2>a, NextPacket DEF Outgoing, getPeerNoEx, SendAt, Ready, RestTyped, Sending
    <3>2. m_outgoing_queue' \in Seq(QueuedPacket)
      BY <1>15, <2>a, NextPacket DEF Outgoing, getPeerNoEx, SendAt, Ready, RestTyped
    <3>. QED
      BY <1>15, <2>a, NextPacket, <3>1, <3>2 DEF Outgoing, getPeerNoEx, SendAt, Ready, RestTyped
  <2>b. /\ SendAt("sendPackets") /\ sending \in Sending
        /\ helper' = [helper EXCEPT !["send"] = helper'["send"]]
        /\ UNCHANGED <<receiving, m_shutting_down, told, erased>>
        /\ \/ /\ helper'["send"] = NULL /\ m_outgoing_queue' = Tail(m_outgoing_queue)
              /\ sending' = [sending EXCEPT !.left = @ - 1]
           \/ /\ helper'["send"] # NULL /\ m_outgoing_queue' = m_outgoing_queue
              /\ sending' = [sending EXCEPT !.pc = "packet"]
    BY <1>15 DEF Outgoing, getPeerNoEx, RestTyped, Lives, LivesTyped, Helper
  <2>4. ThreadsHold'
    <3>1. helper'["send"] # NULL <=> sending'.pc = "packet"
      BY <2>b DEF SendAt, Sending
    <3>2. sending'.pc \in {"sendPackets", "packet"}
      BY <2>b DEF SendAt, Sending
    <3>3. helper'["receive"] = helper["receive"] /\ helper'["user"] = helper["user"]
      BY <2>b DEF Lives, LivesTyped, Helper
    <3>. QED
      BY <2>b, <3>1, <3>2, <3>3 DEF SendAt, ThreadsHold
  <2>5. CreationsCounted'
    BY <1>15, <2>a, NextPacket DEF Outgoing, getPeerNoEx, SendAt, Ready, Got, CreationsCounted,
       RestTyped, Receiving
  <2>6. PacketsLeft'
    <3>1. CASE helper'["send"] = NULL
      BY <2>a, <2>b, <3>1, NextPacket DEF PacketsLeft, SendAt, Sending
    <3>2. CASE helper'["send"] # NULL
      BY <2>a, <2>b, <3>2 DEF PacketsLeft, Sending
    <3>. QED BY <3>1, <3>2
  <2>. QED BY <2>2, <2>3, <2>4, <2>5, <2>6
<1>16. ASSUME Keep PROVE IInv'
  <2>a. PacketsLeft /\ sending.left > 0 /\ RestTyped /\ Len(m_outgoing_queue) \in Nat
    BY <1>16, QueueFacts DEF Keep, SendAt, PacketsLeft, RestTyped, Sending
  <2>1. LetGo("send")
    BY <1>16, <2>a, NextPacket DEF Keep, DecUseCount, SendAt, Ready, LetGo, SameLives, lives,
       ThreadsHold, PacketsLeft, RestTyped, Sending
  <2>2. Lives'
    BY <2>1, LetGoKept DEF Helper, Thread
  <2>3. RestTyped'
    <3>1. sending' \in Sending
      BY <1>16, <2>a, NextPacket DEF Keep, DecUseCount, SendAt, Ready, RestTyped, Sending
    <3>2. m_outgoing_queue' \in Seq(QueuedPacket)
      BY <1>16, <2>a, NextPacket DEF Keep, DecUseCount, SendAt, Ready, RestTyped
    <3>. QED
      BY <1>16, <2>a, NextPacket, <3>1, <3>2 DEF Keep, DecUseCount, SendAt, Ready, RestTyped
  <2>4. ThreadsHold'
    BY <1>16, <2>a, NextPacket, <2>2 DEF Keep, DecUseCount, SendAt, Ready, LetGo, ThreadsHold,
       RestTyped, Receiving, Sending, Lives, LivesTyped, Helper, Thread
  <2>5. CreationsCounted'
    BY <1>16, <2>a, NextPacket DEF Keep, DecUseCount, SendAt, Ready, LetGo, CreationsCounted,
       RestTyped, Receiving
  <2>6. PacketsLeft'
    BY <1>16, <2>a, NextPacket DEF Keep, DecUseCount, SendAt, Ready, LetGo, PacketsLeft,
       RestTyped, Sending
  <2>. QED BY <2>2, <2>3, <2>4, <2>5, <2>6
<1>17. ASSUME RawSend PROVE IInv'
  <2>a. PacketsLeft /\ sending.left > 0 /\ RestTyped /\ Len(m_outgoing_queue) \in Nat
    BY <1>17, QueueFacts DEF RawSend, SendAt, PacketsLeft, RestTyped, Sending
  <2>1. LetGo("send") \/ SameLives
    BY <1>17, <2>a, NextPacket DEF RawSend, DecUseCount, SendAt, Ready, LetGo, SameLives, lives,
       ThreadsHold, PacketsLeft, RestTyped, Sending
  <2>2. Lives'
    BY <2>1, LetGoKept, SameKept DEF Helper, Thread
  <2>3. RestTyped'
    <3>1. sending' \in Sending
      BY <1>17, <2>a, NextPacket DEF RawSend, DecUseCount, SendAt, Ready, RestTyped, Sending
    <3>2. m_outgoing_queue' \in Seq(QueuedPacket)
      BY <1>17, <2>a, NextPacket DEF RawSend, DecUseCount, SendAt, Ready, RestTyped
    <3>. QED
      BY <1>17, <2>a, NextPacket, <3>1, <3>2 DEF RawSend, DecUseCount, SendAt, Ready, RestTyped
  <2>4. ThreadsHold'
    BY <1>17, <2>a, NextPacket, <2>2 DEF RawSend, DecUseCount, SendAt, Ready, LetGo,
       ThreadsHold, RestTyped, Receiving, Sending, Lives, LivesTyped, Helper, Thread
  <2>5. CreationsCounted'
    BY <1>17, <2>a, NextPacket DEF RawSend, DecUseCount, SendAt, Ready, LetGo, CreationsCounted,
       RestTyped, Receiving
  <2>6. PacketsLeft'
    <3>1. \/ UNCHANGED <<m_outgoing_queue, sending>>
          \/ /\ m_outgoing_queue' = Tail(m_outgoing_queue)
             /\ sending' = [sending EXCEPT !.pc = "sendPackets", !.left = @ - 1]
      BY <1>17 DEF RawSend
    <3>2. CASE UNCHANGED <<m_outgoing_queue, sending>>
      BY <3>2 DEF PacketsLeft
    <3>3. CASE /\ m_outgoing_queue' = Tail(m_outgoing_queue)
               /\ sending' = [sending EXCEPT !.pc = "sendPackets", !.left = @ - 1]
      BY <2>a, <3>3, NextPacket DEF PacketsLeft, RestTyped, Sending
    <3>. QED BY <3>1, <3>2, <3>3
  <2>. QED BY <2>2, <2>3, <2>4, <2>5, <2>6
<1>18. ASSUME SendEnds PROVE IInv'
  <2>1. SameLives
    BY <1>18 DEF SendEnds, SendAt, Ready, SameLives, lives, ThreadsHold, PacketsLeft, RestTyped,
       Sending
  <2>2. Lives'
    BY <2>1, SameKept DEF Helper, Thread
  <2>3. RestTyped'
    BY <1>18 DEF SendEnds, SendAt, Ready, RestTyped, Receiving, Sending
  <2>4. ThreadsHold'
    BY <1>18, <2>2 DEF SendEnds, SendAt, Ready, ThreadsHold, RestTyped, Receiving, Sending,
       Lives, LivesTyped, Helper, Thread
  <2>5. CreationsCounted'
    BY <1>18 DEF SendEnds, SendAt, Ready, CreationsCounted, RestTyped, Receiving
  <2>6. PacketsLeft'
    BY <1>18 DEF SendEnds, SendAt, Ready, PacketsLeft, RestTyped, Sending
  <2>. QED BY <2>2, <2>3, <2>4, <2>5, <2>6
<1>19. ASSUME NEW i \in Id, DisconnectPeer(i) PROVE IInv'
  <2>1. SameLives
    BY <1>19, PeersAssumption DEF DisconnectPeer, UserReady, SameLives, lives, ThreadsHold,
       PacketsLeft, RestTyped, Sending
  <2>2. Lives'
    BY <2>1, SameKept DEF Helper, Thread
  <2>3. RestTyped'
    <3>1. m_command_queue' \in Seq(QueuedCommand)
      BY <1>19, PeersAssumption, CommandPut DEF DisconnectPeer, UserReady, RestTyped, Receiving
    <3>. QED
      BY <1>19, PeersAssumption, <3>1 DEF DisconnectPeer, UserReady, RestTyped
  <2>4. ThreadsHold'
    BY <1>19, PeersAssumption, <2>2 DEF DisconnectPeer, UserReady, ThreadsHold, RestTyped,
       Receiving, Sending, Lives, LivesTyped, Helper, Thread
  <2>5. CreationsCounted'
    BY <1>19, PeersAssumption DEF DisconnectPeer, UserReady, CreationsCounted, RestTyped,
       Receiving
  <2>6. PacketsLeft'
    BY <1>19, PeersAssumption DEF DisconnectPeer, UserReady, PacketsLeft, RestTyped, Sending
  <2>. QED BY <2>2, <2>3, <2>4, <2>5, <2>6
<1>20. ASSUME NEW i \in Id, GetPeerAddress(i) PROVE IInv'
  <2>1. Got("user", i)
    BY <1>20, PeersAssumption DEF GetPeerAddress, getPeerNoEx, UserReady, Got, SameLives, lives,
       ThreadsHold, PacketsLeft, RestTyped, Sending
  <2>2. Lives'
    BY <2>1, GotKept DEF Helper, Thread
  <2>3. RestTyped'
    BY <1>20, PeersAssumption DEF GetPeerAddress, getPeerNoEx, UserReady, RestTyped, Receiving,
       Sending
  <2>4. ThreadsHold'
    BY <1>20, PeersAssumption, <2>2 DEF GetPeerAddress, getPeerNoEx, UserReady, Got,
       ThreadsHold, RestTyped, Receiving, Sending, Lives, LivesTyped, Helper, Thread
  <2>5. CreationsCounted'
    BY <1>20, PeersAssumption DEF GetPeerAddress, getPeerNoEx, UserReady, Got, CreationsCounted,
       RestTyped, Receiving
  <2>6. PacketsLeft'
    BY <1>20, PeersAssumption DEF GetPeerAddress, getPeerNoEx, UserReady, Got, PacketsLeft,
       RestTyped, Sending
  <2>. QED BY <2>2, <2>3, <2>4, <2>5, <2>6
<1>21. ASSUME GotPeerAddress PROVE IInv'
  <2>1. LetGo("user")
    BY <1>21 DEF GotPeerAddress, DecUseCount, LetGo, SameLives, lives, ThreadsHold, PacketsLeft,
       RestTyped, Sending
  <2>2. Lives'
    BY <2>1, LetGoKept DEF Helper, Thread
  <2>3. RestTyped'
    BY <1>21 DEF GotPeerAddress, DecUseCount, RestTyped, Receiving, Sending
  <2>4. ThreadsHold'
    BY <1>21, <2>2 DEF GotPeerAddress, DecUseCount, LetGo, ThreadsHold, RestTyped, Receiving,
       Sending, Lives, LivesTyped, Helper, Thread
  <2>5. CreationsCounted'
    BY <1>21 DEF GotPeerAddress, DecUseCount, LetGo, CreationsCounted, RestTyped, Receiving
  <2>6. PacketsLeft'
    BY <1>21 DEF GotPeerAddress, DecUseCount, LetGo, PacketsLeft, RestTyped, Sending
  <2>. QED BY <2>2, <2>3, <2>4, <2>5, <2>6
<1>22. ASSUME Stop PROVE IInv'
  <2>1. SameLives
    BY <1>22 DEF Stop, UserReady, SameLives, lives, ThreadsHold, PacketsLeft, RestTyped, Sending
  <2>2. Lives'
    BY <2>1, SameKept DEF Helper, Thread
  <2>3. RestTyped'
    BY <1>22 DEF Stop, UserReady, RestTyped, Receiving, Sending
  <2>4. ThreadsHold'
    BY <1>22, <2>2 DEF Stop, UserReady, ThreadsHold, RestTyped, Receiving, Sending, Lives,
       LivesTyped, Helper, Thread
  <2>5. CreationsCounted'
    BY <1>22 DEF Stop, UserReady, CreationsCounted, RestTyped, Receiving
  <2>6. PacketsLeft'
    BY <1>22 DEF Stop, UserReady, PacketsLeft, RestTyped, Sending
  <2>. QED BY <2>2, <2>3, <2>4, <2>5, <2>6
<1>23. ASSUME Destroy PROVE IInv'
  <2>1. AllDeleted
    BY <1>23 DEF Destroy, AllDeleted, Helper, SameLives, lives, ThreadsHold, PacketsLeft,
       RestTyped, Sending
  <2>2. Lives'
    BY <2>1, AllDeletedKept DEF Helper, Thread
  <2>3. RestTyped'
    BY <1>23 DEF Destroy, RestTyped, Receiving, Sending
  <2>4. ThreadsHold'
    BY <1>23, <2>2 DEF Destroy, AllDeleted, Helper, ThreadsHold, RestTyped, Receiving, Sending,
       Lives, LivesTyped, Thread
  <2>5. CreationsCounted'
    BY <1>23 DEF Destroy, AllDeleted, Helper, CreationsCounted, RestTyped, Receiving
  <2>6. PacketsLeft'
    BY <1>23 DEF Destroy, AllDeleted, Helper, PacketsLeft, RestTyped, Sending
  <2>. QED BY <2>2, <2>3, <2>4, <2>5, <2>6
<1>24. ASSUME NEW t \in Thread, PutRemoved(t) PROVE IInv'
  <2>a. peer[erased[t]].id \in Id
    BY <1>24 DEF PutRemoved, Lives, LivesTyped, RestTyped
  <2>1. SameLives
    BY <1>24, <2>a DEF PutRemoved, putEvent, SameLives, lives, ThreadsHold, PacketsLeft,
       RestTyped, Sending
  <2>2. Lives'
    BY <2>1, SameKept DEF Helper, Thread
  <2>3. RestTyped'
    BY <1>24, <2>a DEF PutRemoved, putEvent, RestTyped, Receiving, Sending
  <2>4. ThreadsHold'
    BY <1>24, <2>a, <2>2 DEF PutRemoved, putEvent, ThreadsHold, RestTyped, Receiving, Sending,
       Lives, LivesTyped, Helper, Thread
  <2>5. CreationsCounted'
    BY <1>24, <2>a DEF PutRemoved, putEvent, CreationsCounted, RestTyped, Receiving
  <2>6. PacketsLeft'
    BY <1>24, <2>a DEF PutRemoved, putEvent, PacketsLeft, RestTyped, Sending
  <2>. QED BY <2>2, <2>3, <2>4, <2>5, <2>6
<1>25. ASSUME NEW t \in Thread, Drop(t) PROVE IInv'
  <2>1. Dropped(t)
    BY <1>25 DEF Drop, Dropped, Thread, SameLives, lives, ThreadsHold, PacketsLeft, RestTyped,
       Sending
  <2>2. Lives'
    BY <2>1, DroppedKept DEF Helper, Thread
  <2>3. RestTyped'
    BY <1>25 DEF Drop, RestTyped, Receiving, Sending
  <2>4. ThreadsHold'
    BY <1>25, <2>2 DEF Drop, Dropped, Thread, ThreadsHold, RestTyped, Receiving, Sending, Lives,
       LivesTyped, Helper
  <2>5. CreationsCounted'
    BY <1>25 DEF Drop, Dropped, Thread, CreationsCounted, RestTyped, Receiving
  <2>6. PacketsLeft'
    BY <1>25 DEF Drop, Dropped, Thread, PacketsLeft, RestTyped, Sending
  <2>. QED BY <2>2, <2>3, <2>4, <2>5, <2>6
<1>26. ASSUME CreatePeer PROVE IInv'
  <2>a. FreeIds # {} => /\ NewId \in Id /\ m_peers[NewId] = NULL
                        /\ (NewId + 1) % MAX_UDP_PEERS \in Id
    BY NewIdFree DEF Lives
  <2>b. created \in Nat /\ datagrams \in 0 .. MaxDatagrams /\ MaxDatagrams \in Nat
        /\ created < datagrams /\ created + 1 \in Peer
    BY <1>26, PeersAssumption DEF CreatePeer, At, Lives, LivesTyped, RestTyped,
       CreationsCounted, Peer
  <2>1. SameLives \/ (FreeIds # {} /\ Added(NewId))
    BY <1>26, <2>a, <2>b DEF CreatePeer, createPeer, At, Ready, putEvent, Added, SameLives,
       lives, ThreadsHold, PacketsLeft, RestTyped, Sending
  <2>2. Lives'
    BY <2>1, SameKept, AddedKept, <2>a DEF Helper, Thread
  <2>3. RestTyped'
    <3>1. receiving' \in Receiving
      BY <1>26, <2>a, <2>b DEF CreatePeer, createPeer, At, Ready, putEvent, RestTyped, Receiving
    <3>2. m_command_queue' \in Seq(QueuedCommand)
      <4>1. m_command_queue' = m_command_queue \/ (NewId \in Id /\ putCommand("CREATE_PEER", NewId))
        BY <1>26, <2>a DEF CreatePeer, createPeer
      <4>. QED BY <4>1, CommandPut DEF RestTyped
    <3>3. peer' \in [Peer -> [id : Id, address : Address]]
      <4>1. receiving.address \in Address
        BY DEF RestTyped, Receiving
      <4>2. \/ peer' = peer
            \/ /\ NewId \in Id
               /\ peer' = [peer EXCEPT ![created + 1] = [id |-> NewId, address |-> receiving.address]]
        BY <1>26, <2>a DEF CreatePeer, createPeer
      <4>. QED BY <4>1, <4>2, <2>b DEF RestTyped
    <3>4. event' \in [type : {"NONE", "PEER_ADDED", "DATA_RECEIVED", "PEER_REMOVED"}, id : Id]
      BY <1>26, <2>a, <2>b DEF CreatePeer, createPeer, At, Ready, putEvent, RestTyped, Receiving
    <3>. QED
      BY <1>26, <2>a, <2>b, <3>1, <3>2, <3>3, <3>4 DEF CreatePeer, createPeer, At, Ready,
         putEvent, RestTyped
  <2>4. ThreadsHold'
    BY <1>26, <2>a, <2>b, <2>2 DEF CreatePeer, createPeer, At, Ready, putEvent, Added,
       ThreadsHold, RestTyped, Receiving, Sending, Lives, LivesTyped, Helper, Thread
  <2>5. CreationsCounted'
    BY <1>26, <2>a, <2>b DEF CreatePeer, createPeer, At, Ready, putEvent, Added,
       CreationsCounted, RestTyped, Receiving
  <2>6. PacketsLeft'
    BY <1>26, <2>a, <2>b DEF CreatePeer, createPeer, At, Ready, putEvent, Added, PacketsLeft,
       RestTyped, Sending
  <2>. QED BY <2>2, <2>3, <2>4, <2>5, <2>6
<1>27. ASSUME GetPeer PROVE IInv'
  <2>a. /\ receiving.id \in Id /\ helper["receive"] = NULL
        /\ m_peers[receiving.id] # NULL => /\ m_peers[receiving.id] \in Peer
                                           /\ m_peers[receiving.id] \notin m_pending_deletion
    BY <1>27 DEF GetPeer, At, RestTyped, Receiving, ThreadsHold, Lives, LivesTyped, Lifetimes,
       Placed
  <2>1. SameLives \/ (Got("receive", receiving.id) /\ receiving.id \in Id)
    BY <1>27, StartsTyped, <2>a DEF GetPeer, getPeerNoEx, At, Ready, Got, SameLives, lives,
       ThreadsHold, PacketsLeft, RestTyped, Sending
  <2>2. Lives'
    BY <2>1, SameKept, GotKept DEF Helper, Thread
  <2>3. RestTyped'
    BY <1>27, StartsTyped, <2>a DEF GetPeer, getPeerNoEx, At, Ready, RestTyped, Receiving,
       Sending
  <2>4. ThreadsHold'
    <3>1. \/ helper'["receive"] # NULL /\ receiving'.pc = "process"
          \/ helper'["receive"] = NULL /\ receiving'.pc = "idle"
      BY <1>27, <2>a, StartsTyped DEF GetPeer, getPeerNoEx, Lives, LivesTyped, Helper, Receiving
    <3>2. helper'["send"] = helper["send"] /\ helper'["user"] = helper["user"]
      BY <1>27, <2>a DEF GetPeer, getPeerNoEx, Lives, LivesTyped, Helper
    <3>3. UNCHANGED <<sending, m_shutting_down, erased, told>>
      BY <1>27 DEF GetPeer
    <3>. QED BY <3>1, <3>2, <3>3 DEF ThreadsHold
  <2>5. CreationsCounted'
    BY <1>27, StartsTyped, <2>a DEF GetPeer, getPeerNoEx, At, Ready, Got, CreationsCounted,
       RestTyped, Receiving
  <2>6. PacketsLeft'
    BY <1>27, StartsTyped, <2>a DEF GetPeer, getPeerNoEx, At, Ready, Got, PacketsLeft,
       RestTyped, Sending
  <2>. QED BY <2>2, <2>3, <2>4, <2>5, <2>6
<1>28. ASSUME Disco PROVE IInv'
  <2>1. SameLives \/ (Removed("receive", receiving.id) /\ receiving.id \in Id)
    BY <1>28, StartsTyped DEF Disco, DeletePeer, Erase, At, Ready, Removed, Receiving,
       SameLives, lives, ThreadsHold, PacketsLeft, RestTyped, Sending
  <2>2. Lives'
    BY <2>1, SameKept, RemovedKept DEF Helper, Thread
  <2>3. RestTyped'
    BY <1>28, StartsTyped DEF Disco, DeletePeer, Erase, At, Ready, RestTyped, Receiving, Sending
  <2>4. ThreadsHold'
    BY <1>28, StartsTyped, <2>2 DEF Disco, DeletePeer, Erase, At, Ready, Removed, Receiving,
       ThreadsHold, RestTyped, Sending, Lives, LivesTyped, Helper, Thread
  <2>5. CreationsCounted'
    BY <1>28, StartsTyped DEF Disco, DeletePeer, Erase, At, Ready, Removed, Receiving,
       CreationsCounted, RestTyped
  <2>6. PacketsLeft'
    BY <1>28, StartsTyped DEF Disco, DeletePeer, Erase, At, Ready, Removed, Receiving,
       PacketsLeft, RestTyped, Sending
  <2>. QED BY <2>2, <2>3, <2>4, <2>5, <2>6
<1>29. ASSUME NEW pc \in {"runTimeouts", "sendPackets"}, DeleteChosen(pc) PROVE IInv'
  <2>1. SameLives \/ \E i \in Id : Removed("send", i)
    BY <1>29 DEF DeleteChosen, DeletePeer, Erase, SendAt, Ready, Removed, SameLives, lives,
       ThreadsHold, PacketsLeft, RestTyped, Sending
  <2>2. Lives'
    BY <2>1, SameKept, RemovedKept DEF Helper, Thread
  <2>3. RestTyped'
    <3>1. PICK i \in sending.chosen : sending' = [sending EXCEPT !.chosen = @ \ {i}]
      BY <1>29 DEF DeleteChosen
    <3>2. sending' \in Sending
      BY <3>1 DEF RestTyped, Sending
    <3>. QED
      BY <1>29, <3>2 DEF DeleteChosen, DeletePeer, Erase, SendAt, Ready, RestTyped
  <2>4. ThreadsHold'
    BY <1>29, <2>2 DEF DeleteChosen, DeletePeer, Erase, SendAt, Ready, Removed, ThreadsHold,
       RestTyped, Receiving, Sending, Lives, LivesTyped, Helper, Thread
  <2>5. CreationsCounted'
    BY <1>29 DEF DeleteChosen, DeletePeer, Erase, SendAt, Ready, Removed, CreationsCounted,
       RestTyped, Receiving
  <2>6. PacketsLeft'
    BY <1>29 DEF DeleteChosen, DeletePeer, Erase, SendAt, Ready, Removed, PacketsLeft,
       RestTyped, Sending
  <2>. QED BY <2>2, <2>3, <2>4, <2>5, <2>6
<1>30. ASSUME Command PROVE IInv'
  <2>a. /\ Head(m_command_queue) \in QueuedCommand /\ Head(m_command_queue).id \in Id
        /\ Head(m_command_queue).type \in {"CREATE_PEER", "DISCONNECT_PEER", "ACK"}
        /\ Tail(m_command_queue) \in Seq(QueuedCommand)
        /\ \A e \in QueuedPacket :
              /\ Append(m_outgoing_queue, e) \in Seq(QueuedPacket)
              /\ Len(Append(m_outgoing_queue, e)) = Len(m_outgoing_queue) + 1
        /\ Len(m_outgoing_queue) \in Nat
        /\ \A a \in BOOLEAN : [id |-> Head(m_command_queue).id, ack |-> a] \in QueuedPacket
    <3>1. /\ m_command_queue \in Seq(QueuedCommand) /\ m_command_queue # <<>>
          /\ m_outgoing_queue \in Seq(QueuedPacket)
      BY <1>30 DEF Command, RestTyped
    <3>2. /\ Head(m_command_queue) \in QueuedCommand
          /\ Tail(m_command_queue) \in Seq(QueuedCommand)
      BY <3>1, QueueFacts
    <3>3. /\ Head(m_command_queue).id \in Id
          /\ Head(m_command_queue).type \in {"CREATE_PEER", "DISCONNECT_PEER", "ACK"}
      BY <3>2 DEF QueuedCommand
    <3>4. \A a \in BOOLEAN : [id |-> Head(m_command_queue).id, ack |-> a] \in QueuedPacket
      BY <3>3 DEF QueuedPacket
    <3>5. /\ \A e \in QueuedPacket :
                /\ Append(m_outgoing_queue, e) \in Seq(QueuedPacket)
                /\ Len(Append(m_outgoing_queue, e)) = Len(m_outgoing_queue) + 1
          /\ Len(m_outgoing_queue) \in Nat
      BY <3>1, QueueFacts
    <3>. QED BY <3>2, <3>3, <3>4, <3>5
  <2>1. SameLives \/ \E i \in Id : Got("send", i)
    BY <1>30, <2>a DEF Command, getPeerNoEx, SendAt, Ready, Got, SameLives, lives, ThreadsHold,
       PacketsLeft, RestTyped, Sending
  <2>2. Lives'
    BY <2>1, SameKept, GotKept DEF Helper, Thread
  <2>3. RestTyped'
    <3>1. sending' \in Sending
      BY <1>30, <2>a DEF Command, getPeerNoEx, SendAt, Ready, RestTyped, Sending
    <3>2. m_outgoing_queue' \in Seq(QueuedPacket)
      BY <1>30, <2>a DEF Command, getPeerNoEx, SendAt, Ready, RestTyped
    <3>. QED
      BY <1>30, <2>a, <3>1, <3>2 DEF Command, getPeerNoEx, SendAt, Ready, RestTyped
  <2>4. ThreadsHold'
    BY <1>30, <2>a, <2>2 DEF Command, getPeerNoEx, SendAt, Ready, Got, ThreadsHold, RestTyped,
       Receiving, Sending, Lives, LivesTyped, Helper, Thread
  <2>5. CreationsCounted'
    BY <1>30, <2>a DEF Command, getPeerNoEx, SendAt, Ready, Got, CreationsCounted, RestTyped,
       Receiving
  <2>6. PacketsLeft'
    BY <1>30, <2>a DEF Command, getPeerNoEx, SendAt, Ready, Got, PacketsLeft, RestTyped, Sending
  <2>. QED BY <2>2, <2>3, <2>4, <2>5, <2>6
<1>31. CASE UNCHANGED vars
  <2>1. SameLives /\ Others'
    BY <1>31 DEF vars, SameLives, lives, RestTyped, ThreadsHold, CreationsCounted, PacketsLeft
  <2>. QED BY <2>1, SameKept
<1>. QED
  BY <1>1, <1>2, <1>3, <1>4, <1>5, <1>6, <1>7, <1>8, <1>9, <1>10, <1>11, <1>12, <1>13, <1>14,
     <1>15, <1>16, <1>17, <1>18, <1>19, <1>20, <1>21, <1>22, <1>23, <1>24, <1>25, <1>26, <1>27,
     <1>28, <1>29, <1>30, <1>31 DEF Next, ReceiveThread, ReceiveSteps, SendThread, User

LEMMA Invariant == Spec => []IInv
  BY Initially, StepKeeps, PTL DEF Spec

-----------------------------------------------------------------------------
(* What is promised *)

\* Every variable of the connection keeps its type; in particular the use count of a peer
\* is never taken below 0 (DecUseCount(), connection.cpp), and the loop of sendPackets()
\* never takes a packet from an empty m_outgoing_queue.
THEOREM PeersTypeCorrect == Spec => []TypeOK
<1>1. IInv => TypeOK
  BY TypesTogether DEF IInv, Lives, Others
<1>. QED BY <1>1, Invariant, PTL

\* Whoever has a peer, through the table, a PeerHelper or while he deletes it, has one that
\* was not freed, however the turns of the receive thread, the send thread and the user
\* mix; no peer is freed twice; and m_usage is the number of PeerHelpers that have it.
THEOREM FreedOnceUnused == Spec => []NoUseAfterFree
<1>1. IInv => NoUseAfterFree
  <2> SUFFICES ASSUME IInv, NEW p \in Peer
               PROVE  /\ InUse(p) => freed[p] = 0
                      /\ freed[p] =< 1
                      /\ m_usage[p] = Cardinality(Using(p))
    BY DEF NoUseAfterFree
  <2>. USE DEF IInv, Lives
  <2>1. m_usage[p] \in Nat /\ created \in Nat /\ p \in Nat
    BY DEF LivesTyped, Peer
  <2>2. m_usage[p] = Cardinality(Using(p))
    BY DEF Counted
  <2>3. InUse(p) => Placed(p) \/ m_usage[p] > 0
    BY UsedIsCounted DEF InUse, Placed
  <2>4. freed[p] = 0 \/ (freed[p] = 1 /\ ~ Placed(p) /\ m_usage[p] = 0)
    BY <2>1 DEF Lifetimes
  <2>. QED BY <2>1, <2>2, <2>3, <2>4
<1>. QED BY <1>1, Invariant, PTL

\* A peer that is in no table, that nobody deletes and that no PeerHelper has was freed:
\* of Drop() and the last DecUseCount() the one that is later does it, and ~Connection()
\* does it for those that are left.
THEOREM NoneIsLeaked == Spec => []NothingLeaked
<1>1. IInv => NothingLeaked
  <2> SUFFICES ASSUME IInv, NEW p \in 1 .. created
               PROVE  InUse(p) \/ freed[p] = 1
    BY DEF NothingLeaked
  <2>. USE DEF IInv, Lives
  <2>1. p \in Peer /\ p =< created /\ m_usage[p] \in Nat
    BY PeersAssumption DEF LivesTyped, Peer
  <2>2. Placed(p) \/ m_usage[p] > 0 => InUse(p)
    BY <2>1, UsedIsCounted DEF InUse, Placed
  <2>3. ~ Placed(p) /\ m_usage[p] = 0 => freed[p] = 1
    BY <2>1 DEF Lifetimes
  <2>. QED BY <2>1, <2>2, <2>3
<1>. QED BY <1>1, Invariant, PTL

=============================================================================
