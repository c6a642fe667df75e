---------------------------- MODULE Peers_safety ----------------------------
(***************************************************************************)
(* What a connection promises about the peers of an address, and in which  *)
(* order it tells its user of them.  The second holds while no peer id is  *)
(* given a second time: after some 65000 peers it need not.                *)
(***************************************************************************)
EXTENDS Peers_proofs

-----------------------------------------------------------------------------
(* Steps that make no peer *)

\* Peers leave the table, and the receive thread goes on with the one it has.
Quiet ==
    /\ UNCHANGED <<m_next_remote_peer_id, created, peer, m_has_sent_with_id, m_peer_id,
                   known, connected>>
    /\ \A i \in Id : m_peers'[i] \in {m_peers[i], NULL}
    /\ \A t \in Thread :
          erased'[t] # NULL /\ t \notin told' =>
             \/ \E i \in Id : m_peers[i] = erased'[t]
             \/ erased'[t] = erased[t] /\ t \notin told
    /\ \/ receiving' = receiving
       \/ receiving'.pc \in {"idle", "release", "ended"}
       \/ receiving.pc = "process" /\ receiving'.pc = "event" /\ receiving'.id = receiving.id

LEMMA ErasedIsQuiet ==
    ASSUME Lives, NEW t \in Thread, NEW i \in Id, Erase(t, i)
    PROVE  /\ \A j \in Id : m_peers'[j] \in {m_peers[j], NULL}
           /\ \A u \in Thread : erased'[u] # NULL /\ u \notin told' =>
                 \/ \E j \in Id : m_peers[j] = erased'[u]
                 \/ erased'[u] = erased[u] /\ u \notin told
           /\ UNCHANGED <<m_next_remote_peer_id, created, peer>>
  BY DEF Erase, Lives, LivesTyped

LEMMA QuietReceive ==
    ASSUME IInv, PeerGone \/ Data \/ PutData \/ Disco \/ Release \/ ReceiveEnds
    PROVE  Quiet /\ (event' = event \/ PutData)
<1>. USE DEF IInv, Lives, LivesTyped, Others, RestTyped, Receiving, At, Idle,
             table, marks, delete, user, clients
<1>1. ASSUME PeerGone \/ Release \/ ReceiveEnds PROVE Quiet /\ event' = event
  BY <1>1 DEF PeerGone, Release, ReceiveEnds, Quiet
<1>2. ASSUME Data PROVE Quiet /\ event' = event
  BY <1>2 DEF Data, Quiet
<1>3. ASSUME PutData PROVE Quiet
  BY <1>3 DEF PutData, putEvent, Quiet
<1>4. ASSUME Disco PROVE Quiet /\ event' = event
  <2>1. receiving.id \in Id /\ receiving'.pc = "release"
    BY <1>4 DEF Disco
  <2>2. CASE UNCHANGED <<table, delete>>
    BY <1>4, <2>1, <2>2 DEF Disco, Quiet
  <2>3. CASE Erase("receive", receiving.id)
    BY <1>4, <2>1, <2>3, ErasedIsQuiet DEF Disco, Quiet, Thread
  <2>. QED BY <1>4, <2>2, <2>3 DEF Disco, DeletePeer
<1>. QED BY <1>1, <1>2, <1>3, <1>4

LEMMA QuietSend ==
    ASSUME IInv, SendThread PROVE Quiet /\ event' = event
<1>. USE DEF IInv, Lives, LivesTyped, Others, RestTyped,
             table, marks, delete, threads, user, clients
<1>1. ASSUME NEW pc, DeleteChosen(pc) PROVE Quiet /\ event' = event
  <2>1. PICK i \in sending.chosen :
           IF i \in sending.waiting THEN UNCHANGED <<table, delete>> ELSE DeletePeer("send", i)
    BY <1>1 DEF DeleteChosen
  <2>2. i \in Id
    BY DEF Sending
  <2>3. UNCHANGED <<table, delete>> \/ Erase("send", i)
    BY <2>1 DEF DeletePeer
  <2>4. CASE UNCHANGED <<table, delete>>
    BY <1>1, <2>4 DEF DeleteChosen, Quiet
  <2>5. CASE Erase("send", i)
    BY <1>1, <2>2, <2>5, ErasedIsQuiet DEF DeleteChosen, Quiet, Thread
  <2>. QED BY <2>3, <2>4, <2>5
<1>2. ASSUME \/ \E pc, next, packets : Begin(pc, next, packets)
             \/ \E pc, next : NextPeer(pc, next) \/ Proceed(pc, next)
             \/ \E pc, ids : Choose(pc, ids)
      PROVE  Quiet /\ event' = event
  BY <1>2 DEF Begin, NextPeer, Proceed, Choose, Quiet
<1>3. ASSUME NoPeers \/ Command \/ OfferId \/ MarkDisconnect \/ QuotaOfNone
      PROVE  Quiet /\ event' = event
  BY <1>3 DEF NoPeers, Command, OfferId, MarkDisconnect, QuotaOfNone, Quiet
<1>4. ASSUME Outgoing \/ Keep \/ RawSend \/ SendEnds PROVE Quiet /\ event' = event
  BY <1>4 DEF Outgoing, Keep, RawSend, SendEnds, Quiet
<1>. QED
  BY <1>1, <1>2, <1>3, <1>4 DEF SendThread, TimedOut, NotTimedOut, Quota

LEMMA QuietRest ==
    ASSUME IInv, User \/ UNCHANGED vars \/ (\E t \in Thread : Drop(t))
    PROVE  Quiet /\ event' = event
<1>. USE DEF IInv, Lives, LivesTyped, Others, RestTyped,
             table, marks, delete, threads, user, clients
<1>1. ASSUME NEW t \in Thread, Drop(t) PROVE Quiet /\ event' = event
  BY <1>1 DEF Drop, Quiet
<1>2. ASSUME UNCHANGED vars PROVE Quiet /\ event' = event
  BY <1>2 DEF vars, Quiet
<1>3. ASSUME NEW i \in Id, DisconnectPeer(i) \/ GetPeerAddress(i)
      PROVE  Quiet /\ event' = event
  BY <1>3 DEF DisconnectPeer, GetPeerAddress, Quiet
<1>4. ASSUME GotPeerAddress \/ Stop \/ Destroy PROVE Quiet /\ event' = event
  BY <1>4 DEF GotPeerAddress, Stop, Destroy, Quiet
<1>. QED BY <1>1, <1>2, <1>3, <1>4 DEF User

LEMMA Kinds ==
    ASSUME IInv, [Next]_vars
    PROVE  \/ \E a \in Address, from \in Id, type \in {"DATA", "DISCO"} : Receive(a, from, type)
           \/ CreatePeer \/ GetPeer
           \/ \E t \in Thread : PutRemoved(t)
           \/ Quiet /\ (event' = event \/ PutData)
  BY QuietReceive, QuietSend, QuietRest DEF Next, ReceiveThread, ReceiveSteps

-----------------------------------------------------------------------------
(* No id is given twice *)

IdsSuffice == MaxDatagrams + 1 < MAX_UDP_PEERS

IdsInv ==
    /\ \A p \in 1 .. created : peer[p].id = p + 1
    /\ \A i \in InTable : i = m_peers[i] + 1
    /\ created < MaxDatagrams => m_next_remote_peer_id = created + 2

\* What the types and the lives of the peers say of those in the table.
LEMMA InTheTable ==
    ASSUME IInv
    PROVE  /\ \A i \in InTable : i \in Id /\ m_peers[i] \in 1 .. created
           /\ \A i, j \in InTable : m_peers[i] = m_peers[j] => i = j
           /\ \A t \in Thread : erased[t] # NULL => erased[t] \in 1 .. created
           /\ \A i \in Id, t \in Thread : m_peers[i] = erased[t] => m_peers[i] = NULL
           /\ 1 .. created \subseteq Peer /\ created \in Nat
<1>. USE DEF IInv, Lives
<1>1. 1 .. created \subseteq Peer /\ created \in Nat /\ Peer \subseteq Nat \ {0}
  BY PeersAssumption DEF LivesTyped, Peer
<1>2. \A p \in Peer : Placed(p) => p \in 1 .. created
  BY <1>1 DEF Lifetimes
<1>3. \A i \in InTable : i \in Id /\ m_peers[i] \in Peer /\ Placed(m_peers[i])
  BY DEF InTable, LivesTyped, Placed
<1>4. \A t \in Thread : erased[t] # NULL => erased[t] \in Peer /\ Placed(erased[t])
  BY DEF LivesTyped, Placed
<1>. QED BY <1>1, <1>2, <1>3, <1>4 DEF OnePlace, InTable

\* The least id that is free is the next one.
LEMMA NewPeer ==
    ASSUME IInv, IdsSuffice, IdsInv, CreatePeer
    PROVE  /\ NewId = created + 2 /\ NewId \in Id /\ m_peers[NewId] = NULL
           /\ created + 1 \in Peer
           /\ createPeer(receiving.address)
           /\ receiving' = [receiving EXCEPT !.pc = "get", !.id = NewId]
<1>1. created < MaxDatagrams /\ created \in Nat /\ created + 1 \in Peer
  BY PeersAssumption
     DEF IInv, Lives, LivesTyped, Others, CreationsCounted, RestTyped, CreatePeer, At, Peer
<1>2. created + 2 \in FreeIds /\ \A j \in FreeIds : created + 2 =< j
  <2>1. m_next_remote_peer_id = created + 2 /\ created + 2 =< MAX_UDP_PEERS
    BY <1>1, PeersAssumption DEF IdsInv, IdsSuffice
  <2>2. created + 2 \notin InTable
    BY <1>1, InTheTable DEF IdsInv
  <2>. QED BY <1>1, <2>1, <2>2, PeersAssumption DEF FreeIds
<1>3. \A j, k \in FreeIds : j =< k /\ k =< j => j = k
  BY <1>1, PeersAssumption DEF FreeIds, IdsInv
<1>4. NewId = created + 2
  BY <1>2, <1>3 DEF NewId
<1>5. NewId \in Id /\ m_peers[NewId] = NULL
  BY <1>1, <1>2, <1>4, PeersAssumption DEF FreeIds, InTable, Id, IdsInv
<1>6. FreeIds # {}
  BY <1>2
<1>. QED BY <1>1, <1>4, <1>5, <1>6 DEF CreatePeer

LEMMA IdsInitially == Init => IdsInv
  BY DEF Init, IdsInv, InTable

LEMMA IdsStep ==
    ASSUME IdsSuffice PROVE IInv /\ IdsInv /\ [Next]_vars => IdsInv'
<1> SUFFICES ASSUME IInv, IdsInv, [Next]_vars PROVE IdsInv'
  OBVIOUS
<1>1. ASSUME CreatePeer PROVE IdsInv'
  <2>1. /\ created' = created + 1 /\ m_peers' = [m_peers EXCEPT ![created + 2] = created + 1]
        /\ peer' = [peer EXCEPT ![created + 1] = [id |-> created + 2,
                                                  address |-> receiving.address]]
        /\ m_next_remote_peer_id' = (created + 3) % MAX_UDP_PEERS
        /\ created \in Nat /\ created + 1 \in Peer
        /\ m_peers \in [Id -> Peer \cup {NULL}]
        /\ peer \in [Peer -> [id : Id, address : Address]]
    <3>1. created \in Nat /\ (created + 2) + 1 = created + 3
      BY InTheTable
    <3>. QED
      BY <1>1, <3>1, NewPeer DEF createPeer, IInv, Lives, LivesTyped, Others, RestTyped
  <2>2. \A p \in 1 .. created' : peer'[p].id = p + 1
    BY <2>1, InTheTable DEF IdsInv
  <2>3. \A i \in InTable' : i = m_peers'[i] + 1
    BY <2>1 DEF IdsInv, InTable
  <2>4. created' < MaxDatagrams => m_next_remote_peer_id' = created' + 2
    <3>1. created' < MaxDatagrams => created + 3 < MAX_UDP_PEERS
      BY <2>1, PeersAssumption DEF IdsSuffice
    <3>2. \A n \in Nat : n < MAX_UDP_PEERS => n % MAX_UDP_PEERS = n
      BY PeersAssumption
    <3>. QED BY <2>1, <3>1, <3>2
  <2>. QED BY <2>2, <2>3, <2>4 DEF IdsInv
<1>2. ASSUME UNCHANGED table PROVE IdsInv'
  BY <1>2 DEF table, IdsInv, InTable
<1>3. ASSUME Quiet PROVE IdsInv'
  <2>1. \A i \in InTable' : i \in InTable /\ m_peers'[i] = m_peers[i]
    BY <1>3 DEF Quiet, InTable
  <2>. QED BY <1>3, <2>1 DEF Quiet, IdsInv
<1>. QED BY <1>1, <1>2, <1>3, Kinds DEF Receive, GetPeer, PutRemoved

-----------------------------------------------------------------------------
(* The peers of an address *)

\* A client uses one id; a first packet finds the peer that waits for it.
AddressInv ==
    /\ m_has_sent_with_id \subseteq 1 .. created
    /\ \A p \in m_has_sent_with_id : m_peer_id[peer[p].address] = peer[p].id
    /\ receiving.pc = "get" /\ receiving.from # PEER_ID_INEXISTENT =>
          receiving.id = receiving.from /\ m_peer_id[receiving.address] = receiving.from
    /\ receiving.pc = "create" =>
          receiving.from = PEER_ID_INEXISTENT /\ Waiting(receiving.address) = {}
    /\ \A i, j \in InTable :
          i # j /\ peer[m_peers[i]].address = peer[m_peers[j]].address
          => m_peers[i] \in m_has_sent_with_id \/ m_peers[j] \in m_has_sent_with_id

LEMMA AddressInitially == Init => AddressInv
  BY DEF Init, AddressInv, InTable, NULL, Idle

LEMMA AddressStep ==
    ASSUME IdsSuffice PROVE IInv /\ IdsInv /\ AddressInv /\ [Next]_vars => AddressInv'
<1> SUFFICES ASSUME IInv, IdsInv, AddressInv, [Next]_vars PROVE AddressInv'
  OBVIOUS
<1>. USE DEF AddressInv
<1>0. /\ m_peers \in [Id -> Peer \cup {NULL}] /\ peer \in [Peer -> [id : Id, address : Address]]
      /\ m_peer_id \in [Address -> Id] /\ receiving \in Receiving /\ receiving.address \in Address
      /\ \A p \in 1 .. created : p \in Peer /\ peer[p].id # PEER_ID_INEXISTENT
                                 /\ peer[p].address \in Address
  BY InTheTable DEF IInv, Lives, LivesTyped, Others, RestTyped, Receiving, IdsInv,
     PEER_ID_INEXISTENT
<1>1. ASSUME NEW a \in Address, NEW from \in Id, NEW type \in {"DATA", "DISCO"},
             Receive(a, from, type)
      PROVE  AddressInv'
  <2>1. /\ UNCHANGED <<m_peers, created, peer, m_has_sent_with_id>>
        /\ from \in IdsOf(a)
        /\ m_peer_id' = [m_peer_id EXCEPT ![a] = IF from = PEER_ID_INEXISTENT THEN @ ELSE from]
        /\ receiving'.from = from /\ receiving'.address = a
        /\ from # PEER_ID_INEXISTENT => receiving'.pc = "get" /\ receiving'.id = from
        /\ receiving'.pc = "create" =>
              from = PEER_ID_INEXISTENT /\ lookupPeer(a) = PEER_ID_INEXISTENT
    BY <1>1 DEF Receive, table, marks
  <2>2. \A b \in Address : m_peer_id[b] # PEER_ID_INEXISTENT => m_peer_id'[b] = m_peer_id[b]
    BY <2>1, <1>0 DEF IdsOf
  <2>3. from # PEER_ID_INEXISTENT => m_peer_id'[a] = from
    BY <2>1, <1>0
  <2>4. InTable' = InTable /\ Waiting(a)' = Waiting(a)
    BY <2>1 DEF InTable, Waiting
  <2>5. lookupPeer(a) = PEER_ID_INEXISTENT => Waiting(a) = {}
    <3>1. PEER_ID_INEXISTENT \notin Waiting(a)
      BY InTheTable DEF Waiting, IdsInv, PEER_ID_INEXISTENT
    <3>. QED BY <3>1, LookupPeer
  <2>6. \A p \in m_has_sent_with_id' : m_peer_id'[peer'[p].address] = peer'[p].id
    <3> SUFFICES ASSUME NEW p \in m_has_sent_with_id
                 PROVE  m_peer_id'[peer[p].address] = peer[p].id
      BY <2>1
    <3>1. /\ m_peer_id[peer[p].address] = peer[p].id /\ peer[p].address \in Address
          /\ peer[p].id # PEER_ID_INEXISTENT
      BY <1>0
    <3>. QED BY <3>1, <2>2
  <2>7. receiving'.pc = "get" /\ receiving'.from # PEER_ID_INEXISTENT =>
           /\ receiving'.id = receiving'.from
           /\ m_peer_id'[receiving'.address] = receiving'.from
    BY <2>1, <2>3
  <2>8. receiving'.pc = "create" =>
           receiving'.from = PEER_ID_INEXISTENT /\ Waiting(receiving.address)' = {}
    <3>1. ASSUME receiving'.pc = "create" PROVE Waiting(receiving.address)' = {}
      <4>1. receiving'.address = a /\ Waiting(a) = {}
        BY <2>1, <2>5, <3>1
      <4>. QED BY <4>1, <2>1 DEF Waiting, InTable
    <3>. QED BY <2>1, <3>1
  <2>. QED BY <2>1, <2>4, <2>6, <2>7, <2>8
<1>2. ASSUME CreatePeer PROVE AddressInv'
  <2>1. /\ created' = created + 1 /\ m_peers' = [m_peers EXCEPT ![created + 2] = created + 1]
        /\ peer' = [peer EXCEPT ![created + 1] = [id |-> created + 2,
                                                  address |-> receiving.address]]
        /\ receiving'.pc = "get" /\ receiving'.from = receiving.from
        /\ created \in Nat /\ created + 1 \in Peer /\ created + 2 \in Id
        /\ UNCHANGED <<m_has_sent_with_id, m_peer_id>>
    BY <1>2, <1>0, NewPeer, InTheTable DEF createPeer, CreatePeer, marks, clients, Receiving
  <2>2. receiving.from = PEER_ID_INEXISTENT /\ Waiting(receiving.address) = {}
    BY <1>2 DEF CreatePeer, At
  <2>3. \A p \in 1 .. created : peer'[p] = peer[p] /\ p \in 1 .. created'
    BY <2>1, <1>0
  <2>4. InTable' = InTable \cup {created + 2} /\ m_peers'[created + 2] = created + 1
    BY <2>1, <1>0 DEF InTable, NULL
  <2>5. \A i \in InTable : /\ i # created + 2 /\ m_peers'[i] = m_peers[i]
                           /\ peer'[m_peers[i]] = peer[m_peers[i]]
    BY <2>1, <2>3, <1>0, InTheTable DEF IdsInv, InTable
  <2>6. peer'[created + 1].address = receiving.address
    BY <2>1, <1>0
  <2>7. \A i \in InTable : peer[m_peers[i]].address = receiving.address
                           => m_peers[i] \in m_has_sent_with_id
    BY <2>2 DEF Waiting
  <2>. QED BY <2>1, <2>2, <2>3, <2>4, <2>5, <2>6, <2>7
<1>3. ASSUME GetPeer PROVE AddressInv'
  <2>1. UNCHANGED <<m_peers, created, peer, m_peer_id>> /\ receiving'.pc \in {"idle", "process"}
    BY <1>3, StartsTyped DEF GetPeer, table, clients, Receiving
  <2>2. \/ m_has_sent_with_id' = m_has_sent_with_id
        \/ /\ receiving.id \in InTable /\ peer[m_peers[receiving.id]].address = receiving.address
           /\ receiving.from # PEER_ID_INEXISTENT
           /\ m_has_sent_with_id' = m_has_sent_with_id \cup {m_peers[receiving.id]}
    BY <1>3, <1>0 DEF GetPeer, InTable, Receiving
  <2>3. receiving.from # PEER_ID_INEXISTENT =>
           receiving.id = receiving.from /\ m_peer_id[receiving.address] = receiving.from
    BY <1>3 DEF GetPeer, At
  <2>4. InTable' = InTable
    BY <2>1 DEF InTable
  <2>5. receiving.id \in InTable => /\ m_peers[receiving.id] \in 1 .. created
                                    /\ peer[m_peers[receiving.id]].id = receiving.id
    BY InTheTable DEF IdsInv
  <2>. QED BY <2>1, <2>2, <2>3, <2>4, <2>5
<1>4. ASSUME NEW t \in Thread, PutRemoved(t) PROVE AddressInv'
  BY <1>4 DEF PutRemoved, table, marks, threads, clients, InTable, Waiting
<1>5. ASSUME Quiet PROVE AddressInv'
  <2>1. InTable' \subseteq InTable /\ \A i \in InTable' : m_peers'[i] = m_peers[i]
    BY <1>5 DEF Quiet, InTable
  <2>2. \A b : Waiting(b)' \subseteq Waiting(b)
    BY <1>5, <2>1 DEF Quiet, Waiting
  <2>3. receiving' = receiving \/ receiving'.pc \notin {"get", "create"}
    BY <1>5 DEF Quiet
  <2>. QED BY <1>5, <2>1, <2>2, <2>3 DEF Quiet
<1>. QED BY <1>1, <1>2, <1>3, <1>4, <1>5, Kinds

\* However often the first packet of a client comes, before or after the client uses its
\* id, and whatever peers are deleted meanwhile: lookupPeer() and createPeer() keep one
\* peer of an address that uses its id and one that does not, at most.
THEOREM OnePeerOfAnAddress ==
    ASSUME IdsSuffice PROVE Spec => []OnePeerEach
<1>1. Spec => [](IInv /\ IdsInv /\ AddressInv)
  BY Initially, StepKeeps, IdsInitially, IdsStep, AddressInitially, AddressStep, PTL DEF Spec
<1>2. IInv /\ IdsInv /\ AddressInv => OnePeerEach
  BY InTheTable DEF IdsInv, AddressInv, OnePeerEach
<1>. QED BY <1>1, <1>2, PTL

-----------------------------------------------------------------------------
(* What the user is told *)

\* A peer is known from before anyone can find it until the event of its removal.
TellingInv ==
    /\ connected \subseteq known
    /\ \A i \in connected : i =< created + 1
    /\ InTable \subseteq connected
    /\ \A t \in Thread : erased[t] # NULL /\ t \notin told => erased[t] + 1 \in connected
    /\ receiving.pc \in {"process", "event"} => receiving.id \in known

heard == <<connected, known, event>>

LEMMA TellingInitially == Init => TellingInv /\ Promise!Init
  BY DEF Init, TellingInv, InTable, Idle, Promise!Init, Promise!Nothing, NothingTold

LEMMA TellingStep ==
    ASSUME IdsSuffice
    PROVE  IInv /\ IdsInv /\ TellingInv /\ [Next]_vars
           => TellingInv' /\ (Promise!Next \/ UNCHANGED heard)
<1> SUFFICES ASSUME IInv, IdsInv, TellingInv, [Next]_vars
             PROVE  TellingInv' /\ (Promise!Next \/ UNCHANGED heard)
  OBVIOUS
<1>. USE DEF TellingInv, heard
<1>0. /\ m_peers \in [Id -> Peer \cup {NULL}] /\ receiving \in Receiving
      /\ peer \in [Peer -> [id : Id, address : Address]]
      /\ erased \in [Thread -> Peer \cup {NULL}]
  BY DEF IInv, Lives, LivesTyped, Others, RestTyped
<1>1. ASSUME NEW a \in Address, NEW from \in Id, NEW type \in {"DATA", "DISCO"},
             Receive(a, from, type)
      PROVE  TellingInv' /\ UNCHANGED heard
  BY <1>1 DEF Receive, table, delete, user, InTable
<1>2. ASSUME CreatePeer PROVE TellingInv' /\ Promise!Next
  <2>1. /\ created' = created + 1 /\ m_peers' = [m_peers EXCEPT ![created + 2] = created + 1]
        /\ receiving'.pc = "get" /\ created \in Nat /\ created + 2 \in Id
        /\ putEvent("PEER_ADDED", created + 2)
        /\ UNCHANGED <<erased, told>>
    BY <1>2, <1>0, NewPeer, InTheTable DEF createPeer, CreatePeer, delete, Receiving
  <2>2. created + 2 \notin connected
    BY <2>1
  <2>3. InTable' \subseteq InTable \cup {created + 2}
    BY <2>1, <1>0 DEF InTable
  <2>4. connected \subseteq Id
    BY DEF IInv, Others, RestTyped
  <2>5. \A i \in connected' : i =< created' + 1
    BY <2>1, <2>4, PeersAssumption DEF putEvent, Id
  <2>. QED
    BY <2>1, <2>2, <2>3, <2>5 DEF putEvent, Promise!Next, Promise!peerAdded
<1>3. ASSUME GetPeer PROVE TellingInv' /\ UNCHANGED heard
  <2>1. /\ UNCHANGED <<m_peers, created, erased, told, connected, known, event>>
        /\ receiving'.pc = "idle" \/ (receiving'.id \in InTable)
    BY <1>3, StartsTyped, <1>0 DEF GetPeer, table, delete, user, Receiving, InTable
  <2>. QED BY <2>1 DEF InTable
<1>4. ASSUME NEW t \in Thread, PutRemoved(t) PROVE TellingInv' /\ Promise!Next
  <2> DEFINE q == erased[t]
  <2>1. /\ q # NULL /\ t \notin told /\ told' = told \cup {t}
        /\ putEvent("PEER_REMOVED", peer[q].id)
        /\ UNCHANGED <<m_peers, created, erased, receiving>>
    BY <1>4 DEF PutRemoved, table, threads
  <2>2. q \in 1 .. created /\ peer[q].id = q + 1 /\ q + 1 \in Id
    BY <2>1, <1>0, InTheTable DEF IdsInv
  <2>3. q + 1 \in connected
    BY <2>1
  <2>4. connected' = connected \ {q + 1} /\ known' = known
        /\ event' = [type |-> "PEER_REMOVED", id |-> q + 1]
    BY <2>1, <2>2 DEF putEvent
  <2>5. InTable' = InTable /\ q + 1 \notin InTable
    <3>1. \A i \in InTable : m_peers[i] # q /\ i = m_peers[i] + 1 /\ m_peers[i] \in Nat
      BY <2>1, InTheTable DEF IdsInv, InTable
    <3>. QED BY <3>1, <2>1, <2>2 DEF InTable
  <2>6. \A u \in Thread : erased[u] # NULL /\ u \notin told' => erased[u] + 1 # q + 1
    <3>1. \A u \in Thread : erased[u] = q => u = t
      BY <2>1 DEF IInv, Lives, OnePlace
    <3>2. \A u \in Thread : erased[u] # NULL => erased[u] \in Nat
      BY InTheTable
    <3>. QED BY <3>1, <3>2, <2>1, <2>2
  <2>. QED
    BY <2>1, <2>2, <2>3, <2>4, <2>5, <2>6 DEF Promise!Next, Promise!deletingPeer
<1>5. ASSUME Quiet, event' = event \/ PutData
      PROVE  TellingInv' /\ (Promise!Next \/ UNCHANGED heard)
  <2>1. InTable' \subseteq InTable
    BY <1>5 DEF Quiet, InTable
  <2>2. ASSUME NEW t \in Thread, erased'[t] # NULL, t \notin told'
        PROVE  erased'[t] + 1 \in connected
    <3>1. CASE \E i \in Id : m_peers[i] = erased'[t]
      <4>1. PICK i \in InTable : m_peers[i] = erased'[t]
        BY <2>2, <3>1 DEF InTable
      <4>. QED BY <4>1 DEF IdsInv
    <3>2. CASE erased'[t] = erased[t] /\ t \notin told
      BY <2>2, <3>2
    <3>. QED BY <1>5, <2>2, <3>1, <3>2 DEF Quiet
  <2>3. TellingInv'
    BY <1>5, <2>1, <2>2 DEF Quiet
  <2>4. ASSUME PutData PROVE Promise!Next
    <3>1. receiving.id \in known /\ receiving.id \in Id
      BY <2>4, <1>0 DEF PutData, At, Receiving
    <3>2. /\ event' = [type |-> "DATA_RECEIVED", id |-> receiving.id]
          /\ UNCHANGED <<connected, known>>
      BY <2>4 DEF PutData, putEvent
    <3>. QED BY <3>1, <3>2 DEF Promise!Next, Promise!dataReceived
  <2>. QED BY <1>5, <2>3, <2>4 DEF Quiet
<1>. QED BY <1>1, <1>2, <1>3, <1>4, <1>5, Kinds

\* The events that the receive thread and the send thread put, each on its own, tell the
\* user of a peer first, then of its data, and once that it is gone (createPeer(),
\* deletePeer(), and the end of receive()).
THEOREM ToldInOrder ==
    ASSUME IdsSuffice PROVE Spec => ImplementsPeerEvents
<1>1. Spec => [](IInv /\ IdsInv /\ TellingInv) /\ Promise!Init
  BY Initially, StepKeeps, IdsInitially, IdsStep, TellingInitially, TellingStep, PTL DEF Spec
<1>2. IInv /\ IdsInv /\ TellingInv /\ [Next]_vars => [Promise!Next]_heard
  BY TellingStep
<1>3. Spec => Promise!Init /\ [][Promise!Next]_heard
  BY <1>1, <1>2, PTL DEF Spec
<1>. QED BY <1>3 DEF ImplementsPeerEvents, Promise!Spec, Promise!vars, heard

=============================================================================
