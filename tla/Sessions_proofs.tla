-------------------------- MODULE Sessions_proofs ---------------------------
(***************************************************************************)
(* For any number of peers, names and password changes: a player always    *)
(* has its client, an active client its player, a player is held until its *)
(* peer is gone, and to the scripts players come and go one session after  *)
(* the other; and no honest client makes the client state machine throw.   *)
(***************************************************************************)
EXTENDS Sessions, TLAPS

States == {ClientState[i] : i \in DOMAIN ClientState} \cup {"ClientStateError"}

Event == {"CSE_Hello", "CSE_AuthAccept", "CSE_InitLegacy", "CSE_GotInit2", "CSE_SetDenied",
          "CSE_SetDefinitionsSent", "CSE_SetClientReady", "CSE_SudoSuccess", "CSE_SudoLeave",
          "CSE_Disconnect"}

\* The types most proofs use.  That m_state is never the error rests on what an honest
\* client sends when, and is proved at the end, from this invariant.
Typed ==
    /\ connection \in [Peer -> {"none", "up", "gone"}]
    /\ events \in Seq(PeerEvent \cup DataEvent)
    /\ playername \in [Peer -> Name]
    /\ thread \in [pc : {"step", "changes", "receive", "join"},
                   peer : Peer \cup {PEER_ID_INEXISTENT}]
    /\ m_peer_change_queue \in Seq(PeerEvent)
    /\ m_state \in [Peer -> States]
    /\ peer_id \in [Name -> Peer \cup {PEER_ID_INEXISTENT}]
    /\ joined \subseteq Peer

\* A peer is reported removed only when it is.
RemovedAreGone ==
    /\ \A i \in 1 .. Len(events) :
          events[i].type = "PEER_REMOVED" => connection[events[i].peer] = "gone"
    /\ \A i \in 1 .. Len(m_peer_change_queue) :
          m_peer_change_queue[i].type = "PEER_REMOVED" =>
              connection[m_peer_change_queue[i].peer] = "gone"

\* The scripts know only players that belong to a peer.
JoinedHold == \A p \in joined : peer_id[playername[p]] = p

\* Between the two halves of StageTwoClientInit() the player is the peer's, and the
\* scripts do not know yet.
JoiningHolds ==
    thread.pc = "join" =>
        /\ thread.peer \in Peer \ joined
        /\ peer_id[playername[thread.peer]] = thread.peer

IInv ==
    /\ Typed
    /\ RemovedAreGone
    /\ EveryPlayerHasItsClient
    /\ JoinedHold
    /\ JoiningHolds
    /\ ActiveHasPlayer

-----------------------------------------------------------------------------
(* The client state machine *)

Active == {"CS_Active", "CS_SudoMode"}
Ready == Active \cup {"CS_InitDone", "CS_DefinitionsSent"}

\* The comparisons by the order of the enum are memberships.
LEMMA AtLeastActive ==
    ASSUME NEW s PROVE AtLeast(s, "CS_Active") <=> s \in Active
  BY DEF AtLeast, ClientState, Active

LEMMA AtLeastInitDone ==
    ASSUME NEW s PROVE AtLeast(s, "CS_InitDone") <=> s \in Ready
  BY DEF AtLeast, ClientState, Active, Ready

LEMMA StatesAre ==
    States = {"CS_Invalid", "CS_Disconnecting", "CS_Denied", "CS_Created",
              "CS_AwaitingInit2", "CS_HelloSent", "CS_InitDone",
              "CS_DefinitionsSent", "CS_Active", "CS_SudoMode", "ClientStateError"}
  BY DEF States, ClientState

\* An event gives a state, never makes a client vanish, and only one event makes it active.
LEMMA NotifyFacts ==
    ASSUME NEW s \in States, NEW e \in Event
    PROVE  /\ notifyEvent(s, e) \in States
           /\ s # "CS_Invalid" => notifyEvent(s, e) # "CS_Invalid"
           /\ notifyEvent(s, e) \in Active /\ e # "CSE_SetClientReady" => s \in Active
  BY StatesAre DEF notifyEvent, Transition, Event, Active

-----------------------------------------------------------------------------
(* What the handlers of packets do to clients and players *)

\* No client vanishes and none becomes active.
Calm ==
    /\ m_state' \in [Peer -> States]
    /\ \A p \in Peer : m_state[p] # "CS_Invalid" => m_state'[p] # "CS_Invalid"
    /\ \A p \in Peer : m_state'[p] \in Active => m_state[p] \in Active

LEMMA NotifyCalm ==
    ASSUME Typed, NEW p \in Peer, NEW e \in Event \ {"CSE_SetClientReady"}, Notify(p, e)
    PROVE  Calm
<1>1. /\ notifyEvent(m_state[p], e) \in States
      /\ m_state[p] # "CS_Invalid" => notifyEvent(m_state[p], e) # "CS_Invalid"
      /\ notifyEvent(m_state[p], e) \in Active => m_state[p] \in Active
  BY NotifyFacts DEF Typed
<1>. QED BY <1>1 DEF Typed, Notify, Calm

LEMMA SameCalm ==
    ASSUME Typed, UNCHANGED m_state PROVE Calm
  BY DEF Typed, Calm

LEMMA DenyCalm ==
    ASSUME Typed, NEW p \in Peer, DenyAccess(p) PROVE Calm
  BY NotifyCalm DEF DenyAccess, Event

LEMMA FailCalm ==
    ASSUME Typed, NEW p \in Peer, Fail(p) PROVE Calm
  BY DenyCalm, SameCalm DEF Fail

LEMMA AcceptCalm ==
    ASSUME Typed, NEW p \in Peer, acceptAuth(p) PROVE Calm
  BY NotifyCalm DEF acceptAuth, Event

\* The handlers that have nothing to do with players.
LEMMA HandlersCalm ==
    ASSUME Typed, NEW p \in Peer,
           \/ Ignore \/ DenyAccess(p) \/ HandleInit(p) \/ HandleInitLegacy(p)
           \/ HandleFirstSrp(p) \/ HandleSrpBytesA(p) \/ HandleSrpBytesM(p)
    PROVE  Calm
<1>1. CASE Ignore
  BY <1>1, SameCalm DEF Ignore
<1>2. CASE DenyAccess(p)
  BY <1>2, DenyCalm
<1>3. CASE HandleInit(p)
  BY <1>3, DenyCalm, NotifyCalm, SameCalm DEF HandleInit, Ignore, Event
<1>4. CASE HandleInitLegacy(p)
  BY <1>4, DenyCalm, NotifyCalm, SameCalm DEF HandleInitLegacy, Ignore, Event
<1>5. CASE HandleFirstSrp(p)
  BY <1>5, DenyCalm, AcceptCalm, NotifyCalm, SameCalm DEF HandleFirstSrp, Ignore, Event
<1>6. CASE HandleSrpBytesA(p)
  BY <1>6, FailCalm, SameCalm DEF HandleSrpBytesA, Ignore
<1>7. CASE HandleSrpBytesM(p)
  BY <1>7, FailCalm, AcceptCalm, NotifyCalm, SameCalm DEF HandleSrpBytesM, Ignore, Event
<1>. QED BY <1>1, <1>2, <1>3, <1>4, <1>5, <1>6, <1>7

\* A handler leaves the players alone, or gives the peer its player.
Quiet ==
    /\ UNCHANGED peer_id
    /\ thread' = [pc |-> "step", peer |-> PEER_ID_INEXISTENT]

Emerges(p) ==
    /\ emergePlayer(p)
    /\ peer_id' = [peer_id EXCEPT ![playername[p]] = p]
    /\ thread' = [pc |-> "join", peer |-> p]
    /\ m_state'[p] \in Ready

\* StageTwoClientInit() with emergePlayer(), up to its look at the peer.
LEMMA StageTwo ==
    ASSUME Typed, NEW p \in Peer, NEW s \in States,
           m_state[p] # "CS_Invalid" => s # "CS_Invalid",
           s \in Active => m_state[p] \in Active,
           StageTwoClientInit(p, s)
    PROVE  Calm /\ (Quiet \/ Emerges(p))
<1>1. CASE AtLeast(s, "CS_InitDone") /\ emergePlayer(p)
  <2>1. /\ peer_id' = [peer_id EXCEPT ![playername[p]] = p]
        /\ m_state' = [m_state EXCEPT ![p] = s]
        /\ thread' = [pc |-> "join", peer |-> p]
    BY <1>1 DEF StageTwoClientInit
  <2>2. Calm
    BY <2>1 DEF Typed, Calm
  <2>3. s \in Ready
    BY <1>1, AtLeastInitDone
  <2>. QED BY <1>1, <2>1, <2>2, <2>3 DEF Emerges, Typed
<1>2. CASE ~(AtLeast(s, "CS_InitDone") /\ emergePlayer(p))
  <2>1. DenyAccess(p) /\ Back /\ UNCHANGED peer_id
    BY <1>2 DEF StageTwoClientInit
  <2>. QED BY <2>1, DenyCalm DEF Quiet, Back
<1>. QED BY <1>1, <1>2

\* TOSERVER_INIT2, by which old clients join.
LEMMA Init2 ==
    ASSUME Typed, NEW p \in Peer, HandleInit2(p)
    PROVE  Calm /\ (Quiet \/ Emerges(p))
<1> DEFINE s == notifyEvent(m_state[p], "CSE_GotInit2")
           t == notifyEvent(s, "CSE_SetDefinitionsSent")
<1>1. /\ s \in States
      /\ m_state[p] # "CS_Invalid" => s # "CS_Invalid"
      /\ s \in Active => m_state[p] \in Active
  BY NotifyFacts DEF Typed, Event
<1>2. /\ t \in States
      /\ s # "CS_Invalid" => t # "CS_Invalid"
      /\ t \in Active => s \in Active
  BY <1>1, NotifyFacts DEF Event
<1> HIDE DEF s, t
<1>3. CASE p \in Old
  <2>1. StageTwoClientInit(p, s)
    BY <1>3 DEF HandleInit2, s
  <2>. QED BY <2>1, <1>1, StageTwo
<1>4. CASE p \notin Old
  <2>1. m_state' = [m_state EXCEPT ![p] = t] /\ Back /\ UNCHANGED peer_id
    BY <1>4 DEF HandleInit2, s, t
  <2>2. Calm
    BY <2>1, <1>1, <1>2 DEF Typed, Calm
  <2>. QED BY <2>1, <2>2 DEF Quiet, Back
<1>. QED BY <1>3, <1>4

\* Every packet.
LEMMA Packets ==
    ASSUME Typed, NEW p \in Peer, NEW c, ProcessData(p, c)
    PROVE  Calm /\ (Quiet \/ Emerges(p))
<1>1. CASE \/ Stays(Ignore) \/ Stays(DenyAccess(p)) \/ Stays(HandleInit(p))
           \/ Stays(HandleInitLegacy(p)) \/ Stays(HandleFirstSrp(p))
           \/ Stays(HandleSrpBytesA(p)) \/ Stays(HandleSrpBytesM(p))
  BY <1>1, HandlersCalm DEF Stays, Back, Quiet
<1>2. CASE HandleInit2(p)
  BY <1>2, Init2
<1>3. CASE HandleClientReady(p)
  <2>1. CASE StageTwoClientInit(p, m_state[p])
    BY <2>1, StageTwo DEF Typed
  <2>2. CASE Stays(Ignore)
    BY <2>2, <1>1
  <2>. QED BY <1>3, <2>1, <2>2 DEF HandleClientReady
<1>. QED BY <1>1, <1>2, <1>3 DEF ProcessData

-----------------------------------------------------------------------------
(* The invariant *)

LEMMA Initially == Init => IInv
  BY StatesAre, AtLeastActive
  DEF Init, IInv, Typed, PeerEvent, DataEvent, RemovedAreGone, EveryPlayerHasItsClient, JoinedHold,
      JoiningHolds, ActiveHasPlayer, Active

\* A step that is calm and leaves players and joins alone keeps what is said of them.
LEMMA CalmKeeps ==
    ASSUME IInv, Typed', Calm, UNCHANGED <<playername, peer_id, joined>>
    PROVE  EveryPlayerHasItsClient' /\ JoinedHold' /\ ActiveHasPlayer'
<1>1. EveryPlayerHasItsClient'
  BY DEF IInv, Typed, Calm, EveryPlayerHasItsClient
<1>2. JoinedHold'
  BY DEF IInv, JoinedHold
<1>3. ActiveHasPlayer'
  BY AtLeastActive DEF IInv, Calm, ActiveHasPlayer
<1>. QED BY <1>1, <1>2, <1>3

\* Events are only added at the end, or taken from the front.
LEMMA QueueFacts ==
    ASSUME NEW S, NEW q \in Seq(S)
    PROVE  /\ \A e \in S : /\ Append(q, e) \in Seq(S)
                           /\ \A i \in 1 .. Len(Append(q, e)) :
                                 \/ i \in 1 .. Len(q) /\ Append(q, e)[i] = q[i]
                                 \/ Append(q, e)[i] = e
           /\ q # <<>> => /\ Head(q) \in S /\ Head(q) = q[1] /\ 1 \in 1 .. Len(q)
                         /\ Tail(q) \in Seq(S)
                         /\ \A i \in 1 .. Len(Tail(q)) :
                               i + 1 \in 1 .. Len(q) /\ Tail(q)[i] = q[i + 1]
  OBVIOUS

\* What a step does to the events and the peers.
NoNewRemoval ==
    /\ \A p \in Peer : connection[p] = "gone" => connection'[p] = "gone"
    /\ \A i \in 1 .. Len(events') :
          \/ \E j \in 1 .. Len(events) : events'[i] = events[j]
          \/ events'[i].type # "PEER_REMOVED"
          \/ connection'[events'[i].peer] = "gone"
    /\ \A i \in 1 .. Len(m_peer_change_queue') :
          \/ \E j \in 1 .. Len(m_peer_change_queue) :
                m_peer_change_queue'[i] = m_peer_change_queue[j]
          \/ m_peer_change_queue'[i].type # "PEER_REMOVED"
          \/ connection'[m_peer_change_queue'[i].peer] = "gone"

\* The removals of peers that wait in the queues are of peers that are gone.
LEMMA RemovalsKept ==
    ASSUME IInv, NoNewRemoval PROVE RemovedAreGone'
<1>1. /\ \A j \in 1 .. Len(events) : events[j].peer \in Peer
      /\ \A j \in 1 .. Len(m_peer_change_queue) : m_peer_change_queue[j].peer \in Peer
  <2>1. /\ \A j \in 1 .. Len(events) : events[j] \in PeerEvent \cup DataEvent
        /\ \A j \in 1 .. Len(m_peer_change_queue) : m_peer_change_queue[j] \in PeerEvent
    BY DEF IInv, Typed
  <2>. QED BY <2>1 DEF PeerEvent, DataEvent
<1>. QED BY <1>1 DEF IInv, RemovedAreGone, NoNewRemoval

\* Each step keeps the invariant.
LEMMA StepKeeps == IInv /\ [Next]_vars => IInv'
<1> SUFFICES ASSUME IInv, [Next]_vars PROVE IInv'
  OBVIOUS
<1>. USE DEF IInv
<1> DEFINE Q == m_peer_change_queue
<1>1. ASSUME UNCHANGED vars PROVE IInv'
  BY <1>1 DEF vars, network, remote, server, players, Typed, RemovedAreGone,
     EveryPlayerHasItsClient, JoinedHold, JoiningHolds, ActiveHasPlayer, AtLeast
<1>2. ASSUME ShortStep \/ LongStep \/ NoIncomingData \/ PeerNotFound PROVE IInv'
  <2>1. /\ UNCHANGED <<connection, events, playername, Q, m_state, peer_id, joined>>
        /\ thread' \in [pc : {"step", "changes", "receive", "join"},
                        peer : Peer \cup {PEER_ID_INEXISTENT}]
        /\ thread'.pc # "join"
    BY <1>2 DEF ShortStep, LongStep, NoIncomingData, PeerNotFound, Back, network, remote, server,
       players, Typed
  <2>2. Typed'
    BY <2>1 DEF Typed
  <2>3. Calm
    BY <2>1, SameCalm
  <2>4. RemovedAreGone'
    BY <2>1 DEF RemovedAreGone
  <2>5. JoiningHolds'
    BY <2>1 DEF JoiningHolds
  <2>. QED BY <2>1, <2>2, <2>3, <2>4, <2>5, CalmKeeps
<1>3. ASSUME handlePeerChanges PROVE IInv'
  <2>1. CASE Q = <<>>
    <3>1. /\ UNCHANGED <<connection, events, playername, Q, m_state, peer_id, joined>>
          /\ thread' = [thread EXCEPT !.pc = "receive"]
      BY <1>3, <2>1 DEF handlePeerChanges, network, remote, server, players
    <3>2. Typed' /\ Calm
      BY <3>1, SameCalm DEF Typed
    <3>3. RemovedAreGone' /\ JoiningHolds'
      BY <3>1 DEF Typed, RemovedAreGone, JoiningHolds
    <3>. QED BY <3>1, <3>2, <3>3, CalmKeeps
  <2>2. CASE Q # <<>>
    <3> DEFINE p == Head(Q).peer
    <3>1. /\ Q' = Tail(Q) /\ UNCHANGED <<connection, events, playername, thread>>
          /\ CreateClient(p) \/ DeleteClient(p)
          /\ thread.pc = "changes"
      BY <1>3, <2>2 DEF handlePeerChanges, network, remote, players
    <3>2. p \in Peer /\ Q' \in Seq(PeerEvent)
      <4>1. Head(Q) \in PeerEvent /\ Q' \in Seq(PeerEvent)
        BY <2>2, <3>1 DEF Typed
      <4>. QED BY <4>1 DEF PeerEvent
    <3>3. RemovedAreGone'
      <4>1. NoNewRemoval
        BY <2>2, <3>1, QueueFacts DEF Typed, NoNewRemoval
      <4>. QED BY <4>1, RemovalsKept
    <3>4. JoiningHolds'
      BY <3>1 DEF JoiningHolds
    <3>5. CASE CreateClient(p)
      <4>1. /\ UNCHANGED <<peer_id, joined>>
            /\ m_state' = [m_state EXCEPT ![p] = IF @ = "CS_Invalid" THEN "CS_Created" ELSE @]
        BY <3>5 DEF CreateClient, players
      <4>2. Typed' /\ Calm
        BY <3>1, <3>2, <4>1, StatesAre DEF Typed, Calm, Active
      <4>. QED BY <3>1, <3>3, <3>4, <4>1, <4>2, CalmKeeps
    <3>6. CASE DeleteClient(p)
      <4>1. /\ peer_id' = [n \in Name |->
                   IF peer_id[n] = p THEN PEER_ID_INEXISTENT ELSE peer_id[n]]
            /\ joined' = joined \ {p}
            /\ m_state' = [m_state EXCEPT ![p] = "CS_Invalid"]
        BY <3>6 DEF DeleteClient
      <4>2. Typed'
        BY <3>1, <3>2, <4>1, StatesAre DEF Typed
      <4>3. EveryPlayerHasItsClient'
        BY <3>1, <3>2, <4>1 DEF Typed, EveryPlayerHasItsClient
      <4>4. JoinedHold'
        BY <3>1, <3>2, <4>1 DEF Typed, JoinedHold
      <4>5. ActiveHasPlayer'
        BY <3>1, <3>2, <4>1, AtLeastActive DEF Typed, ActiveHasPlayer, Active
      <4>. QED BY <3>3, <3>4, <4>2, <4>3, <4>4, <4>5
    <3>. QED BY <3>1, <3>5, <3>6
  <2>. QED BY <2>1, <2>2
<1>4. ASSUME ReceivePeerEvent PROVE IInv'
  <2> DEFINE p == Head(events).peer
  <2>1. /\ events # <<>> /\ events' = Tail(events) /\ thread.pc = "receive"
        /\ UNCHANGED <<connection, playername, thread, peer_id, joined>>
    BY <1>4 DEF ReceivePeerEvent, network, remote, players
  <2>2. p \in Peer /\ events' \in Seq(PeerEvent \cup DataEvent)
    BY <2>1, QueueFacts DEF Typed, PeerEvent, DataEvent
  <2>3. JoiningHolds'
    BY <2>1 DEF JoiningHolds
  <2>4. CASE Head(events).type = "PEER_ADDED"
    <3>1. /\ Q' = Append(Q, [type |-> "PEER_ADDED", peer |-> p]) /\ UNCHANGED m_state
      BY <1>4, <2>4 DEF ReceivePeerEvent, peerAdded
    <3>2. Typed' /\ Calm
      BY <2>1, <2>2, <3>1, SameCalm, QueueFacts DEF Typed, PeerEvent
    <3>3. NoNewRemoval
      BY <2>1, <2>2, <3>1, QueueFacts DEF Typed, NoNewRemoval, PeerEvent
    <3>. QED BY <2>1, <2>3, <3>2, <3>3, RemovalsKept, CalmKeeps
  <2>5. CASE Head(events).type # "PEER_ADDED"
    <3>1. /\ Q' = Append(Q, [type |-> "PEER_REMOVED", peer |-> p])
          /\ Notify(p, "CSE_Disconnect")
          /\ Head(events).type = "PEER_REMOVED"
      BY <1>4, <2>1, <2>5, QueueFacts
      DEF ReceivePeerEvent, deletingPeer, Typed, PeerEvent, DataEvent
    <3>2. Calm
      BY <2>2, <3>1, NotifyCalm DEF Event
    <3>3. Typed'
      BY <2>1, <2>2, <3>1, <3>2, QueueFacts DEF Typed, PeerEvent, Calm
    <3>4. connection[p] = "gone"
      BY <2>1, <3>1, QueueFacts DEF Typed, RemovedAreGone
    <3>5. NoNewRemoval
      BY <2>1, <2>2, <3>1, <3>4, QueueFacts DEF Typed, NoNewRemoval, PeerEvent
    <3>. QED BY <2>1, <2>3, <3>2, <3>3, <3>5, RemovalsKept, CalmKeeps
  <2>. QED BY <2>4, <2>5
<1>5. ASSUME ReceiveData PROVE IInv'
  <2> DEFINE p == Head(events).peer
  <2>1. /\ events # <<>> /\ events' = Tail(events)
        /\ ProcessData(p, Head(events).command)
        /\ UNCHANGED <<connection, playername, Q, joined>>
    BY <1>5 DEF ReceiveData, remote
  <2>2. p \in Peer /\ events' \in Seq(PeerEvent \cup DataEvent)
    BY <2>1, QueueFacts DEF Typed, PeerEvent, DataEvent
  <2>3. Calm /\ (Quiet \/ Emerges(p))
    BY <2>1, <2>2, Packets
  <2>4. RemovedAreGone'
    <3>1. \A i \in 1 .. Len(events') : \E j \in 1 .. Len(events) : events'[i] = events[j]
      BY <2>1, QueueFacts DEF Typed
    <3>2. NoNewRemoval
      BY <2>1, <3>1 DEF NoNewRemoval
    <3>. QED BY <3>2, RemovalsKept
  <2>5. CASE Quiet
    <3>1. Typed'
      BY <2>1, <2>2, <2>3, <2>5 DEF Typed, Quiet, Calm
    <3>2. JoiningHolds'
      BY <2>5 DEF JoiningHolds, Quiet
    <3>. QED BY <2>1, <2>3, <2>4, <2>5, <3>1, <3>2, CalmKeeps DEF Quiet
  <2>6. CASE Emerges(p)
    <3>1. /\ peer_id' = [peer_id EXCEPT ![playername[p]] = p]
          /\ peer_id[playername[p]] = PEER_ID_INEXISTENT
          /\ \A n \in Name : peer_id[n] # p
          /\ thread' = [pc |-> "join", peer |-> p]
          /\ m_state'[p] # "CS_Invalid"
          /\ playername[p] \in Name
      BY <2>2, <2>6 DEF Emerges, emergePlayer, Holds, Ready, Active, Typed
    <3>2. Typed'
      BY <2>1, <2>2, <2>3, <3>1 DEF Typed, Calm
    <3>3. p \notin joined
      BY <3>1 DEF JoinedHold
    <3>4. \A q \in joined : playername[q] # playername[p] /\ q \in Peer /\ q # PEER_ID_INEXISTENT
      BY <3>1, SessionsAssumption DEF Typed, JoinedHold
    <3>5. JoiningHolds'
      BY <2>1, <2>2, <3>1, <3>3 DEF JoiningHolds, Typed
    <3>6. JoinedHold'
      BY <2>1, <2>2, <3>1, <3>4 DEF JoinedHold, Typed
    <3>7. EveryPlayerHasItsClient'
      BY <2>1, <2>2, <2>3, <3>1 DEF EveryPlayerHasItsClient, Typed, Calm
    <3>8. ActiveHasPlayer'
      BY <2>1, <2>3, <3>4, <3>6, AtLeastActive DEF ActiveHasPlayer, Calm, JoinedHold
    <3>. QED BY <2>4, <3>2, <3>5, <3>6, <3>7, <3>8
  <2>. QED BY <2>3, <2>5, <2>6
<1>6. ASSUME Joins PROVE IInv'
  <2> DEFINE p == thread.peer
             s == IF p \in Old THEN notifyEvent(m_state[p], "CSE_SetDefinitionsSent")
                              ELSE m_state[p]
             t == notifyEvent(s, "CSE_SetClientReady")
  <2>1. /\ p \in Peer \ joined /\ peer_id[playername[p]] = p
        /\ m_state' = [m_state EXCEPT ![p] = t]
        /\ joined' = joined \cup {p}
        /\ thread' = [pc |-> "step", peer |-> PEER_ID_INEXISTENT]
        /\ UNCHANGED <<connection, events, playername, Q, peer_id>>
    BY <1>6 DEF Joins, JoiningHolds, network, remote, Back
  <2>2. s \in States /\ (m_state[p] # "CS_Invalid" => s # "CS_Invalid")
    BY <2>1, NotifyFacts DEF Typed, Event
  <2>3. t \in States /\ (s # "CS_Invalid" => t # "CS_Invalid")
    BY <2>2, NotifyFacts DEF Event
  <2> HIDE DEF s, t
  <2>4. Typed'
    BY <2>1, <2>3 DEF Typed
  <2>5. RemovedAreGone' /\ JoiningHolds'
    BY <2>1 DEF RemovedAreGone, JoiningHolds
  <2>6. EveryPlayerHasItsClient'
    BY <2>1, <2>2, <2>3 DEF EveryPlayerHasItsClient, Typed
  <2>7. JoinedHold' /\ ActiveHasPlayer'
    BY <2>1, AtLeastActive DEF JoinedHold, ActiveHasPlayer, Typed
  <2>. QED BY <2>4, <2>5, <2>6, <2>7
<1>7. ASSUME NEW p \in Peer, Kick(p) PROVE IInv'
  <2>1. /\ DenyAccess(p) /\ thread.pc = "step"
        /\ UNCHANGED <<connection, events, playername, thread, Q, peer_id, joined>>
    BY <1>7 DEF Kick, remote, players
  <2>2. Calm
    BY <2>1, DenyCalm
  <2>3. Typed' /\ RemovedAreGone' /\ JoiningHolds'
    BY <2>1, <2>2 DEF Typed, Calm, RemovedAreGone, JoiningHolds
  <2>. QED BY <2>1, <2>2, <2>3, CalmKeeps
<1>8. ASSUME NEW p \in Peer, Connect(p) \/ PeerGone(p) \/ SendInit(p) \/ ClientReceives(p)
                              \/ sendChangePassword(p)
      PROVE  IInv'
  <2>1. UNCHANGED <<playername, thread, Q, m_state, peer_id, joined>>
    BY <1>8 DEF Connect, PeerGone, SendInit, ClientReceives, sendChangePassword, network, remote,
       server, players
  <2>2. \/ UNCHANGED <<connection, events>>
        \/ /\ connection[p] = "none" /\ connection' = [connection EXCEPT ![p] = "up"]
           /\ events' = Append(events, [type |-> "PEER_ADDED", peer |-> p])
        \/ /\ connection' = [connection EXCEPT ![p] = "gone"]
           /\ events' = Append(events, [type |-> "PEER_REMOVED", peer |-> p])
        \/ /\ UNCHANGED connection
           /\ \E c \in Command : events' = Append(events, Packet(p, c))
    <3>1. CASE SendInit(p)
      BY <3>1 DEF SendInit, network, Command
    <3>2. CASE ClientReceives(p)
      <4>1. /\ UNCHANGED connection
            /\ \/ UNCHANGED events
               \/ \E c \in Replies(p, Head(toClient[p])) : events' = Append(events, Packet(p, c))
        BY <3>2 DEF ClientReceives, network
      <4>2. Replies(p, Head(toClient[p])) \subseteq Command
        BY Zenon DEF Replies, Command
      <4>. QED BY <4>1, <4>2
    <3>3. CASE Connect(p)
      BY <3>3 DEF Connect
    <3>4. CASE PeerGone(p)
      BY <3>4 DEF PeerGone
    <3>5. CASE sendChangePassword(p)
      BY <3>5 DEF sendChangePassword, network, Command
    <3>. QED BY <1>8, <3>1, <3>2, <3>3, <3>4, <3>5
  <2>3. Typed' /\ NoNewRemoval
    <3>1. \A c \in Command : /\ Packet(p, c) \in PeerEvent \cup DataEvent
                             /\ Packet(p, c).type # "PEER_REMOVED"
      BY DEF Packet, DataEvent
    <3>2. /\ [type |-> "PEER_ADDED", peer |-> p] \in PeerEvent \cup DataEvent
          /\ [type |-> "PEER_REMOVED", peer |-> p] \in PeerEvent \cup DataEvent
      BY DEF PeerEvent
    <3> DEFINE S == PeerEvent \cup DataEvent
    <3> HIDE DEF S
    <3>3. events \in Seq(S) /\ connection \in [Peer -> {"none", "up", "gone"}]
      BY DEF Typed, S
    <3>4. /\ connection' \in [Peer -> {"none", "up", "gone"}]
          /\ \A q \in Peer : connection[q] = "gone" => connection'[q] = "gone"
      BY <2>2, <3>3
    <3>5. CASE UNCHANGED events
      <4>1. Typed'
        BY <2>1, <3>4, <3>5 DEF Typed
      <4>. QED BY <2>1, <3>4, <3>5, <4>1 DEF NoNewRemoval
    <3>6. ASSUME NEW e \in S, events' = Append(events, e),
                 e.type = "PEER_REMOVED" => connection'[e.peer] = "gone"
          PROVE  Typed' /\ NoNewRemoval
      <4>1. /\ events' \in Seq(S)
            /\ \A i \in 1 .. Len(events') :
                  \/ i \in 1 .. Len(events) /\ events'[i] = events[i]
                  \/ events'[i] = e
        BY <3>3, <3>6, QueueFacts
      <4>2. Typed'
        BY <2>1, <3>4, <4>1 DEF Typed, S
      <4>3. NoNewRemoval
        BY <2>1, <3>4, <3>6, <4>1 DEF NoNewRemoval
      <4>. QED BY <4>2, <4>3
    <3>7. CASE events' = Append(events, [type |-> "PEER_ADDED", peer |-> p])
      BY <3>2, <3>6, <3>7 DEF S
    <3>8. CASE /\ connection' = [connection EXCEPT ![p] = "gone"]
               /\ events' = Append(events, [type |-> "PEER_REMOVED", peer |-> p])
      BY <3>2, <3>3, <3>6, <3>8 DEF S
    <3>9. CASE \E c \in Command : events' = Append(events, Packet(p, c))
      BY <3>1, <3>6, <3>9 DEF S
    <3>. QED BY <2>2, <3>5, <3>7, <3>8, <3>9
  <2>4. Calm
    BY <2>1, SameCalm
  <2>5. RemovedAreGone' /\ JoiningHolds'
    BY <2>1, <2>3, RemovalsKept DEF JoiningHolds
  <2>. QED BY <2>1, <2>3, <2>4, <2>5, CalmKeeps
<1>. QED BY <1>1, <1>2, <1>3, <1>4, <1>5, <1>6, <1>7, <1>8 DEF Next, ServerThread

\* The invariant holds of every reachable state.
LEMMA Invariant == Spec => []IInv
<1>1. Init => IInv
  BY Initially
<1>2. IInv /\ [Next]_vars => IInv'
  BY StepKeeps
<1>. QED BY <1>1, <1>2, PTL DEF Spec

-----------------------------------------------------------------------------
(* What players go through *)

\* The steps that change players: one is allocated, announced, or given up with its
\* client, whose peer is gone.
LEMMA PlayerSteps ==
    ASSUME IInv, [Next]_vars
    PROVE  \/ UNCHANGED players
           \/ \E p \in Peer : Emerges(p) /\ UNCHANGED joined
           \/ Joins
           \/ \E p \in Peer : connection[p] = "gone" /\ DeleteClient(p)
<1> DEFINE Q == m_peer_change_queue
<1>1. CASE UNCHANGED vars
  BY <1>1 DEF vars, players
<1>2. CASE ShortStep \/ LongStep \/ NoIncomingData \/ PeerNotFound \/ ReceivePeerEvent
  BY <1>2 DEF ShortStep, LongStep, NoIncomingData, PeerNotFound, ReceivePeerEvent
<1>3. CASE handlePeerChanges
  <2>1. CASE Q = <<>>
    BY <1>3, <2>1 DEF handlePeerChanges
  <2>2. CASE Q # <<>> /\ Head(Q).type = "PEER_ADDED"
    BY <1>3, <2>2 DEF handlePeerChanges, CreateClient
  <2>3. CASE Q # <<>> /\ Head(Q).type # "PEER_ADDED"
    <3>1. DeleteClient(Head(Q).peer)
      BY <1>3, <2>3 DEF handlePeerChanges
    <3>2. Head(Q) \in PeerEvent /\ Head(Q) = Q[1] /\ 1 \in 1 .. Len(Q)
      BY <2>3 DEF IInv, Typed
    <3>3. Head(Q).peer \in Peer /\ Head(Q).type = "PEER_REMOVED"
      BY <2>3, <3>2 DEF PeerEvent
    <3>4. connection[Head(Q).peer] = "gone"
      BY <3>2, <3>3 DEF IInv, RemovedAreGone
    <3>. QED BY <3>1, <3>3, <3>4
  <2>. QED BY <2>1, <2>2, <2>3
<1>4. CASE ReceiveData
  <2> DEFINE p == Head(events).peer
  <2>1. events # <<>> /\ ProcessData(p, Head(events).command) /\ UNCHANGED joined
    BY <1>4 DEF ReceiveData
  <2>2. Head(events) \in PeerEvent \cup DataEvent
    BY <2>1 DEF IInv, Typed
  <2>3. p \in Peer
    BY <2>2 DEF PeerEvent, DataEvent
  <2>4. Quiet \/ Emerges(p)
    BY <2>1, <2>3, Packets DEF IInv
  <2>. QED BY <2>1, <2>3, <2>4 DEF Quiet, players
<1>5. CASE Joins
  BY <1>5
<1>6. ASSUME NEW p \in Peer,
             \/ Kick(p) \/ Connect(p) \/ PeerGone(p) \/ SendInit(p) \/ ClientReceives(p)
             \/ sendChangePassword(p)
      PROVE  UNCHANGED players
  BY <1>6 DEF Kick, Connect, PeerGone, SendInit, ClientReceives, sendChangePassword
<1>. QED BY <1>1, <1>2, <1>3, <1>4, <1>5, <1>6 DEF Next, ServerThread

\* Whether a step keeps every player with its peer until that is gone.
Held ==
    \A n \in Name :
        peer_id[n] # PEER_ID_INEXISTENT /\ peer_id'[n] # peer_id[n] =>
            connection[peer_id[n]] = "gone" /\ peer_id'[n] = PEER_ID_INEXISTENT

\* No step gives up a player whose peer is there.
LEMMA StepHolds ==
    ASSUME IInv, [Next]_vars PROVE Held
<1>1. CASE UNCHANGED players
  BY <1>1 DEF players, Held
<1>2. ASSUME NEW p \in Peer, Emerges(p) PROVE Held
  BY <1>2 DEF Emerges, emergePlayer, Held, IInv, Typed
<1>3. CASE Joins
  BY <1>3 DEF Joins, Held
<1>4. ASSUME NEW p \in Peer, connection[p] = "gone", DeleteClient(p) PROVE Held
  BY <1>4 DEF DeleteClient, Held
<1>. QED BY <1>1, <1>2, <1>3, <1>4, PlayerSteps

\* Each step is one of PlayerSessions, or none.
LEMMA StepImplements ==
    ASSUME IInv, [Next]_vars PROVE [PlayerSession!Next]_(PlayerSession!vars)
<1>. USE DEF PlayerSession!vars
<1>1. CASE UNCHANGED players
  BY <1>1 DEF players
<1>2. ASSUME NEW p \in Peer, Emerges(p), UNCHANGED joined PROVE PlayerSession!Next
  <2>1. playername[p] \in Name
    BY DEF IInv, Typed
  <2>2. PlayerSession!emergePlayer(playername[p], p)
    BY <1>2, <2>1 DEF Emerges, emergePlayer, Holds, PlayerSession!emergePlayer
  <2>. QED BY <2>1, <2>2 DEF PlayerSession!Next
<1>3. CASE Joins
  <2> DEFINE n == playername[thread.peer]
  <2>1. /\ thread.peer \in Peer \ joined /\ peer_id[n] = thread.peer
        /\ joined' = joined \cup {thread.peer} /\ UNCHANGED peer_id
    BY <1>3 DEF Joins, IInv, JoiningHolds
  <2>2. n \in Name
    BY <2>1 DEF IInv, Typed
  <2>3. PlayerSession!on_joinplayer(n)
    BY <2>1, SessionsAssumption DEF PlayerSession!on_joinplayer
  <2>. QED BY <2>2, <2>3 DEF PlayerSession!Next
<1>4. ASSUME NEW p \in Peer, DeleteClient(p)
      PROVE  PlayerSession!Next \/ UNCHANGED <<peer_id, joined>>
  <2> DEFINE n == playername[p]
  <2>1. /\ n \in Name /\ p # PEER_ID_INEXISTENT
        /\ \A m \in Name : peer_id[m] = p => m = n
    BY SessionsAssumption DEF IInv, Typed, EveryPlayerHasItsClient
  <2>2. /\ peer_id' = [m \in Name |-> IF peer_id[m] = p THEN PEER_ID_INEXISTENT ELSE peer_id[m]]
        /\ joined' = joined \ {p}
    BY <1>4 DEF DeleteClient
  <2>3. CASE peer_id[n] = p
    <3>1. peer_id' = [peer_id EXCEPT ![n] = PEER_ID_INEXISTENT]
      BY <2>1, <2>2, <2>3 DEF IInv, Typed
    <3>2. PlayerSession!on_leaveplayer(n)
      BY <2>1, <2>2, <2>3, <3>1 DEF PlayerSession!on_leaveplayer
    <3>. QED BY <2>1, <3>2 DEF PlayerSession!Next
  <2>4. CASE peer_id[n] # p
    <3>1. p \notin joined
      BY <2>4 DEF IInv, JoinedHold
    <3>2. peer_id' = peer_id
      BY <2>1, <2>2, <2>4 DEF IInv, Typed
    <3>. QED BY <2>2, <3>1, <3>2
  <2>. QED BY <2>3, <2>4
<1>. QED BY <1>1, <1>2, <1>3, <1>4, PlayerSteps

-----------------------------------------------------------------------------

\* No player is left behind by a client that is deleted, so that its name can be used
\* again (Server::DeleteClient, PlayerSAO::disconnected).
THEOREM PlayersHaveClients == Spec => []EveryPlayerHasItsClient
  BY Invariant, PTL DEF IInv

\* The handlers of game packets find a player for the peer of an active client, and the
\* scripts were told of it (the state checks of Server::ProcessData).
THEOREM ActiveClientsHavePlayers == Spec => []ActiveHasPlayer
  BY Invariant, PTL DEF IInv

\* A player is given up only after its own peer is gone, whoever else asks for the name
\* (Server::emergePlayer, Server::DeleteClient).
THEOREM PlayersAreHeld == Spec => HeldUntilGone
<1>1. IInv /\ [Next]_vars => [Held]_vars
  BY StepHolds
<1>. QED BY <1>1, Invariant, PTL DEF Spec, HeldUntilGone, Held

\* To the scripts players join and leave one session after the other.
THEOREM SessionsImplementPlayerSessions == Spec => ImplementsPlayerSessions
<1>1. Init => PlayerSession!Init
  BY DEF Init, PlayerSession!Init
<1>2. IInv /\ [Next]_vars => [PlayerSession!Next]_(PlayerSession!vars)
  BY StepImplements
<1>. QED BY <1>1, <1>2, Invariant, PTL DEF Spec, PlayerSession!Spec, ImplementsPlayerSessions

-----------------------------------------------------------------------------
(* Why notifyEvent() never throws: what an honest client has under way *)

ClientStates == {ClientState[i] : i \in DOMAIN ClientState}

\* The states in which a client is only waited for to go.
Ended == {"CS_Invalid", "CS_Disconnecting", "CS_Denied"}

Occurs(q, S) == \E i \in 1 .. Len(q) : q[i] \in S
Once(q, S) == \A i, j \in 1 .. Len(q) : q[i] \in S /\ q[j] \in S => i = j
Single(q, S, r, R) == Once(q, S) /\ Once(r, R) /\ ~(Occurs(q, S) /\ Occurs(r, R))

AddedEvent(p) == {[type |-> "PEER_ADDED", peer |-> p]}
Init2Packet(p) == {Packet(p, "INIT2")}
ReadyPacket(p) == {Packet(p, "CLIENT_READY")}

\* The answers to which a client sends INIT2.
Accepts == {"AUTH_ACCEPT", "INIT_LEGACY"}

\* The server is to create the client.
Announced(p) == Occurs(events, AddedEvent(p)) \/ Occurs(m_peer_change_queue, AddedEvent(p))

\* An INIT2 will come, or one is there.
Init2Due(p) == Occurs(events, Init2Packet(p)) \/ Occurs(toClient[p], Accepts)

\* A peer is announced once, and does nothing before; an INIT2 comes once, when it is
\* awaited or when it is ignored.
InSequence(p) ==
    /\ Single(events, AddedEvent(p), m_peer_change_queue, AddedEvent(p))
    /\ connection[p] = "none" => ~Announced(p)
    /\ connection[p] = "none" \/ Announced(p) => m_state[p] = "CS_Invalid" /\ ~Init2Due(p)
    /\ Init2Due(p) => m_state[p] \in Ended \cup {"CS_AwaitingInit2"}
    /\ m_state[p] = "CS_AwaitingInit2" => Single(events, Init2Packet(p), toClient[p], Accepts)
    /\ p \in Old => ~Occurs(events, ReadyPacket(p))
    /\ p \notin Old => m_state[p] # "CS_InitDone"

\* Between the two halves of StageTwoClientInit() the client has its state still.
JoinsFrom(p) == m_state[p] = IF p \in Old THEN "CS_InitDone" ELSE "CS_DefinitionsSent"

HonestInv ==
    /\ TypeOK
    /\ \A p \in Peer : InSequence(p)
    /\ thread.pc = "join" => JoinsFrom(thread.peer)

LEMMA ClientStatesAre ==
    ClientStates = {"CS_Invalid", "CS_Disconnecting", "CS_Denied", "CS_Created",
                    "CS_AwaitingInit2", "CS_HelloSent", "CS_InitDone",
                    "CS_DefinitionsSent", "CS_Active", "CS_SudoMode"}
  BY DEF ClientStates, ClientState

\* The events a client may have in each state.
LEMMA Transitions ==
    /\ \A s \in ClientStates : \A e \in {"CSE_SetDenied", "CSE_Disconnect"} :
          /\ notifyEvent(s, e) \in Ended
          /\ s = "CS_Invalid" => notifyEvent(s, e) = s
    /\ \A s \in Ended : \A e : notifyEvent(s, e) = s
    /\ notifyEvent("CS_Created", "CSE_Hello") = "CS_HelloSent"
    /\ notifyEvent("CS_Created", "CSE_InitLegacy") = "CS_AwaitingInit2"
    /\ notifyEvent("CS_HelloSent", "CSE_AuthAccept") = "CS_AwaitingInit2"
    /\ notifyEvent("CS_AwaitingInit2", "CSE_GotInit2") = "CS_InitDone"
    /\ notifyEvent("CS_InitDone", "CSE_SetDefinitionsSent") = "CS_DefinitionsSent"
    /\ notifyEvent("CS_DefinitionsSent", "CSE_SetClientReady") = "CS_Active"
    /\ notifyEvent("CS_Active", "CSE_SudoSuccess") = "CS_SudoMode"
    /\ notifyEvent("CS_SudoMode", "CSE_SudoLeave") = "CS_Active"
  BY DEF notifyEvent, Transition, Ended

\* What occurs, and how often, as a sequence grows and shrinks.
LEMMA AppendOccurs ==
    ASSUME NEW T, NEW q \in Seq(T), NEW e \in T, NEW S
    PROVE  /\ Occurs(Append(q, e), S) <=> Occurs(q, S) \/ e \in S
           /\ Once(Append(q, e), S) <=> Once(q, S) /\ (e \in S => ~Occurs(q, S))
<1>1. /\ Len(Append(q, e)) = Len(q) + 1 /\ Len(q) \in Nat
      /\ \A i \in 1 .. Len(q) : Append(q, e)[i] = q[i]
      /\ Append(q, e)[Len(q) + 1] = e
      /\ \A i \in 1 .. Len(q) + 1 : i \in 1 .. Len(q) \/ i = Len(q) + 1
  OBVIOUS
<1>. QED BY <1>1 DEF Occurs, Once

LEMMA TailOccurs ==
    ASSUME NEW T, NEW q \in Seq(T), q # <<>>, NEW S
    PROVE  /\ Occurs(q, S) <=> Head(q) \in S \/ Occurs(Tail(q), S)
           /\ Once(q, S) <=> Once(Tail(q), S) /\ (Head(q) \in S => ~Occurs(Tail(q), S))
<1>1. /\ Len(q) \in Nat \ {0} /\ Len(Tail(q)) = Len(q) - 1
      /\ \A i \in 1 .. Len(q) - 1 : Tail(q)[i] = q[i + 1]
      /\ Head(q) = q[1]
  OBVIOUS
<1>2. \A j \in 1 .. Len(q) : j = 1 \/ (j - 1 \in 1 .. Len(Tail(q)) /\ q[j] = Tail(q)[j - 1])
  BY <1>1
<1>3. \A i \in 1 .. Len(Tail(q)) : i + 1 \in 1 .. Len(q) /\ i + 1 # 1 /\ q[i + 1] = Tail(q)[i]
  BY <1>1
<1>4. Occurs(q, S) <=> Head(q) \in S \/ Occurs(Tail(q), S)
  <2>1. 1 \in 1 .. Len(q)
    BY <1>1
  <2>2. ASSUME NEW i \in 1 .. Len(q), q[i] \in S PROVE Head(q) \in S \/ Occurs(Tail(q), S)
    BY <1>1, <1>2, <2>2 DEF Occurs
  <2>3. ASSUME NEW i \in 1 .. Len(Tail(q)), Tail(q)[i] \in S PROVE Occurs(q, S)
    BY <1>3, <2>3 DEF Occurs
  <2>4. Head(q) \in S => Occurs(q, S)
    BY <1>1, <2>1 DEF Occurs
  <2>. QED BY <2>2, <2>3, <2>4 DEF Occurs
<1>5. ASSUME Once(q, S) PROVE Once(Tail(q), S) /\ (Head(q) \in S => ~Occurs(Tail(q), S))
  <2>1. \A i, j \in 1 .. Len(Tail(q)) : i + 1 = j + 1 => i = j
    BY <1>1
  <2>2. 1 \in 1 .. Len(q)
    BY <1>1
  <2>. QED BY <1>1, <1>3, <1>5, <2>1, <2>2 DEF Occurs, Once
<1>6. ASSUME Once(Tail(q), S), Head(q) \in S => ~Occurs(Tail(q), S) PROVE Once(q, S)
  <2>1. ASSUME NEW i \in 1 .. Len(q), NEW j \in 1 .. Len(q), q[i] \in S, q[j] \in S
        PROVE  i = j
    <3>1. CASE i = 1 \/ j = 1
      BY <1>1, <1>2, <1>6, <2>1, <3>1 DEF Occurs
    <3>2. CASE i # 1 /\ j # 1
      <4>1. i - 1 = j - 1
        BY <1>2, <1>6, <2>1, <3>2 DEF Once
      <4>. QED BY <1>1, <4>1
    <3>. QED BY <3>1, <3>2
  <2>. QED BY <2>1 DEF Once
<1>. QED BY <1>4, <1>5, <1>6

LEMMA EmptyOccurs == ASSUME NEW S PROVE ~Occurs(<<>>, S) /\ Once(<<>>, S)
  BY DEF Occurs, Once

\* Which event is what.
LEMMA PacketKinds ==
    ASSUME NEW p, NEW q, NEW c
    PROVE  /\ Packet(p, c) \notin AddedEvent(q)
           /\ Packet(p, c) \in Init2Packet(q) <=> p = q /\ c = "INIT2"
           /\ Packet(p, c) \in ReadyPacket(q) <=> p = q /\ c = "CLIENT_READY"
  BY DEF Packet, AddedEvent, Init2Packet, ReadyPacket

LEMMA PeerEventKinds ==
    ASSUME NEW p, NEW q, NEW t
    PROVE  /\ [type |-> t, peer |-> p] \in AddedEvent(q) <=> t = "PEER_ADDED" /\ p = q
           /\ t # "DATA_RECEIVED" => /\ [type |-> t, peer |-> p] \notin Init2Packet(q)
                                     /\ [type |-> t, peer |-> p] \notin ReadyPacket(q)
  BY DEF Packet, AddedEvent, Init2Packet, ReadyPacket


\* Only the answers of one peer change.
AnswersOnly(p) ==
    /\ toClient' \in [Peer -> Seq(Answer)]
    /\ \A q \in Peer \ {p} : toClient'[q] = toClient[q]

\* No new answer to which the client sends INIT2.
NoAccept(p) ==
    /\ Occurs(toClient'[p], Accepts) => Occurs(toClient[p], Accepts)
    /\ Once(toClient[p], Accepts) => Once(toClient'[p], Accepts)

\* How a handler moves its client on.
MovesOn(p, c) ==
    \/ /\ m_state'[p] \in Ended
       /\ m_state[p] = "CS_Invalid" => m_state'[p] = "CS_Invalid" /\ NoAccept(p)
    \/ m_state'[p] = m_state[p] /\ NoAccept(p)
    \/ /\ m_state[p] \notin Ended \cup {"CS_AwaitingInit2"}
       /\ m_state'[p] \notin Ended \cup {"CS_AwaitingInit2", "CS_InitDone"}
       /\ NoAccept(p)
    \/ /\ m_state[p] \in {"CS_Created", "CS_HelloSent"} /\ m_state'[p] = "CS_AwaitingInit2"
       /\ ~Occurs(toClient[p], Accepts) => Once(toClient'[p], Accepts)
    \/ /\ c = "INIT2" /\ m_state[p] = "CS_AwaitingInit2"
       /\ m_state'[p] = IF p \in Old THEN "CS_InitDone" ELSE "CS_DefinitionsSent"
       /\ NoAccept(p)

Handled(p, c) ==
    /\ AnswersOnly(p)
    /\ m_state' \in [Peer -> ClientStates]
    /\ \A q \in Peer \ {p} : m_state'[q] = m_state[q]
    /\ chosen_mech' \in [Peer -> {"NONE", "SRP"}]
    /\ disconnects' \subseteq Peer
    /\ MovesOn(p, c)

LEMMA SendFacts ==
    ASSUME TypeOK, NEW p \in Peer, NEW a \in Answer, Send(p, a)
    PROVE  /\ AnswersOnly(p)
           /\ a \notin Accepts => NoAccept(p)
           /\ ~Occurs(toClient[p], Accepts) => Once(toClient'[p], Accepts)
<1>1. toClient \in [Peer -> Seq(Answer)] /\ toClient[p] \in Seq(Answer)
  BY DEF TypeOK
<1>2. Append(toClient[p], a) \in Seq(Answer)
  BY <1>1
<1>3. \/ toClient' = toClient
      \/ toClient' = [toClient EXCEPT ![p] = Append(toClient[p], a)]
  BY DEF Send
<1>4. AnswersOnly(p) /\ (toClient'[p] = toClient[p] \/ toClient'[p] = Append(toClient[p], a))
  BY <1>1, <1>2, <1>3 DEF AnswersOnly
<1>5. ~Occurs(toClient[p], Accepts) => Once(toClient[p], Accepts)
  BY DEF Occurs, Once
<1>6. /\ Occurs(Append(toClient[p], a), Accepts) <=> Occurs(toClient[p], Accepts) \/ a \in Accepts
      /\ Once(Append(toClient[p], a), Accepts) <=>
            Once(toClient[p], Accepts) /\ (a \in Accepts => ~Occurs(toClient[p], Accepts))
  BY <1>1, AppendOccurs
<1>. QED BY <1>4, <1>5, <1>6 DEF NoAccept

LEMMA NoAnswerFacts ==
    ASSUME TypeOK, NEW p \in Peer, UNCHANGED toClient
    PROVE  AnswersOnly(p) /\ NoAccept(p)
  BY DEF TypeOK, AnswersOnly, NoAccept

LEMMA NotifyTyped ==
    ASSUME TypeOK, NEW p \in Peer, NEW e, Notify(p, e),
           notifyEvent(m_state[p], e) \in ClientStates
    PROVE  /\ m_state' \in [Peer -> ClientStates]
           /\ \A q \in Peer \ {p} : m_state'[q] = m_state[q]
           /\ m_state'[p] = notifyEvent(m_state[p], e)
  BY DEF TypeOK, Notify, ClientStates

LEMMA MechTyped ==
    ASSUME TypeOK, NEW p \in Peer, EndsAuth(p) \/ UNCHANGED chosen_mech
    PROVE  chosen_mech' \in [Peer -> {"NONE", "SRP"}]
  BY DEF TypeOK, EndsAuth

LEMMA StateTyped ==
    ASSUME TypeOK, NEW p \in Peer PROVE m_state[p] \in ClientStates
  BY DEF TypeOK, ClientStates

LEMMA EndedAre == Ended \subseteq ClientStates
  BY ClientStatesAre DEF Ended

\* A client that is denied ends in a state that ignores what comes.
LEMMA DenyHandled ==
    ASSUME TypeOK, NEW p \in Peer, NEW c, DenyAccess(p)
    PROVE  Handled(p, c)
<1>1. AnswersOnly(p) /\ NoAccept(p)
  BY SendFacts, NoAnswerFacts DEF DenyAccess, Answer, Accepts
<1>2. /\ notifyEvent(m_state[p], "CSE_SetDenied") \in Ended
      /\ m_state[p] = "CS_Invalid" => notifyEvent(m_state[p], "CSE_SetDenied") = m_state[p]
  BY StateTyped, Transitions
<1>3. /\ m_state' \in [Peer -> ClientStates]
      /\ \A q \in Peer \ {p} : m_state'[q] = m_state[q]
      /\ m_state'[p] = notifyEvent(m_state[p], "CSE_SetDenied")
  BY <1>2, NotifyTyped, EndedAre DEF DenyAccess
<1>4. chosen_mech' \in [Peer -> {"NONE", "SRP"}]
  BY MechTyped DEF DenyAccess
<1>5. disconnects' \subseteq Peer
  BY DEF TypeOK, DenyAccess
<1>. QED BY <1>1, <1>2, <1>3, <1>4, <1>5 DEF Handled, MovesOn

\* A packet that is dropped.
LEMMA IgnoreHandled ==
    ASSUME TypeOK, NEW p \in Peer, NEW c, Ignore
    PROVE  Handled(p, c)
  BY NoAnswerFacts DEF Ignore, Handled, MovesOn, TypeOK, ClientStates

\* An answer other than an acceptance, with or without a new verifier.
LEMMA AnswerHandled ==
    ASSUME TypeOK, NEW p \in Peer, NEW c, NEW a \in Answer \ Accepts,
           Send(p, a), UNCHANGED <<m_state, disconnects>>,
           chosen_mech' \in [Peer -> {"NONE", "SRP"}]
    PROVE  Handled(p, c)
  BY SendFacts DEF Handled, MovesOn, TypeOK, ClientStates

\* A handler that fails.
LEMMA FailHandled ==
    ASSUME TypeOK, NEW p \in Peer, NEW c, Fail(p)
    PROVE  Handled(p, c)
<1>1. CASE m_state[p] = "CS_Active"
  BY <1>1, AnswerHandled DEF Fail, Answer, Accepts, TypeOK
<1>2. CASE m_state[p] # "CS_Active"
  BY <1>2, DenyHandled DEF Fail
<1>. QED BY <1>1, <1>2

\* acceptAuth(): the one answer that makes the client send INIT2.
LEMMA AcceptHandled ==
    ASSUME TypeOK, NEW p \in Peer, NEW c, m_state[p] = "CS_HelloSent", acceptAuth(p)
    PROVE  Handled(p, c)
<1>1. AnswersOnly(p) /\ (~Occurs(toClient[p], Accepts) => Once(toClient'[p], Accepts))
  BY SendFacts DEF acceptAuth, Answer
<1>2. /\ m_state' \in [Peer -> ClientStates]
      /\ \A q \in Peer \ {p} : m_state'[q] = m_state[q]
      /\ m_state'[p] = "CS_AwaitingInit2"
  BY NotifyTyped, Transitions, ClientStatesAre DEF acceptAuth
<1>3. chosen_mech' \in [Peer -> {"NONE", "SRP"}]
  BY MechTyped DEF acceptAuth
<1>. QED BY <1>1, <1>2, <1>3 DEF Handled, MovesOn, acceptAuth, TypeOK

\* The handlers keep types and sequence: TOSERVER_INIT,
LEMMA InitHandled ==
    ASSUME TypeOK, NEW p \in Peer, NEW c, HandleInit(p)
    PROVE  Handled(p, c)
<1>1. CASE Ignore
  BY <1>1, IgnoreHandled
<1>2. CASE DenyAccess(p)
  BY <1>2, DenyHandled
<1>3. CASE /\ m_state[p] = "CS_Created"
           /\ Send(p, "HELLO") /\ Notify(p, "CSE_Hello") /\ UNCHANGED <<chosen_mech, disconnects>>
  <2>1. AnswersOnly(p) /\ NoAccept(p)
    BY <1>3, SendFacts DEF Answer, Accepts
  <2>2. /\ m_state' \in [Peer -> ClientStates]
        /\ \A q \in Peer \ {p} : m_state'[q] = m_state[q]
        /\ m_state'[p] = "CS_HelloSent"
    BY <1>3, NotifyTyped, Transitions, ClientStatesAre
  <2>. QED BY <1>3, <2>1, <2>2 DEF Handled, MovesOn, TypeOK, Ended
<1>. QED BY <1>1, <1>2, <1>3 DEF HandleInit

\* TOSERVER_INIT_LEGACY,
LEMMA InitLegacyHandled ==
    ASSUME TypeOK, NEW p \in Peer, NEW c, HandleInitLegacy(p)
    PROVE  Handled(p, c)
<1>1. CASE Ignore
  BY <1>1, IgnoreHandled
<1>2. CASE DenyAccess(p)
  BY <1>2, DenyHandled
<1>3. CASE /\ m_state[p] = "CS_Created"
           /\ Send(p, "INIT_LEGACY") /\ Notify(p, "CSE_InitLegacy")
           /\ UNCHANGED <<chosen_mech, disconnects>>
  <2>1. AnswersOnly(p) /\ (~Occurs(toClient[p], Accepts) => Once(toClient'[p], Accepts))
    BY <1>3, SendFacts DEF Answer
  <2>2. /\ m_state' \in [Peer -> ClientStates]
        /\ \A q \in Peer \ {p} : m_state'[q] = m_state[q]
        /\ m_state'[p] = "CS_AwaitingInit2"
    BY <1>3, NotifyTyped, Transitions, ClientStatesAre
  <2>. QED BY <1>3, <2>1, <2>2 DEF Handled, MovesOn, TypeOK
<1>4. CASE /\ m_state[p] = "CS_Created"
           /\ toClient' = [toClient EXCEPT ![p] = @ \o <<"ACCESS_DENIED", "INIT_LEGACY">>]
           /\ Notify(p, "CSE_SetDenied") /\ disconnects' = disconnects \cup {p}
           /\ UNCHANGED chosen_mech
  <2>1. toClient \in [Peer -> Seq(Answer)] /\ toClient[p] \o <<"ACCESS_DENIED", "INIT_LEGACY">>
                                              \in Seq(Answer)
    BY DEF TypeOK, Answer
  <2>2. AnswersOnly(p)
    BY <1>4, <2>1 DEF AnswersOnly
  <2>3. notifyEvent(m_state[p], "CSE_SetDenied") \in Ended
    BY StateTyped, Transitions
  <2>4. /\ m_state' \in [Peer -> ClientStates]
        /\ \A q \in Peer \ {p} : m_state'[q] = m_state[q]
        /\ m_state'[p] \in Ended
    BY <1>4, <2>3, NotifyTyped, EndedAre
  <2>. QED BY <1>4, <2>2, <2>4 DEF Handled, MovesOn, TypeOK
<1>. QED BY <1>1, <1>2, <1>3, <1>4 DEF HandleInitLegacy

\* the packets of SRP,
LEMMA SrpHandled ==
    ASSUME TypeOK, NEW p \in Peer, NEW c,
           HandleFirstSrp(p) \/ HandleSrpBytesA(p) \/ HandleSrpBytesM(p)
    PROVE  Handled(p, c)
<1>1. CASE Ignore \/ DenyAccess(p) \/ Fail(p)
  BY <1>1, IgnoreHandled, DenyHandled, FailHandled
<1>2. CASE m_state[p] = "CS_HelloSent" /\ acceptAuth(p)
  BY <1>2, AcceptHandled
<1>3. CASE /\ m_state[p] = "CS_SudoMode" /\ Notify(p, "CSE_SudoLeave")
           /\ UNCHANGED <<toClient, chosen_mech, disconnects>>
  <2>1. /\ m_state' \in [Peer -> ClientStates]
        /\ \A q \in Peer \ {p} : m_state'[q] = m_state[q]
        /\ m_state'[p] = "CS_Active"
    BY <1>3, NotifyTyped, Transitions, ClientStatesAre
  <2>. QED BY <1>3, <2>1, NoAnswerFacts DEF Handled, MovesOn, TypeOK, Ended
<1>4. CASE /\ chosen_mech' = [chosen_mech EXCEPT ![p] = "SRP"]
           /\ Send(p, "SRP_BYTES_S_B") /\ UNCHANGED <<m_state, disconnects>>
  <2>1. chosen_mech' \in [Peer -> {"NONE", "SRP"}]
    BY <1>4 DEF TypeOK
  <2>. QED BY <1>4, <2>1, AnswerHandled DEF Answer, Accepts
<1>5. CASE /\ m_state[p] = "CS_Active"
           /\ Send(p, "ACCEPT_SUDO_MODE") /\ Notify(p, "CSE_SudoSuccess") /\ EndsAuth(p)
           /\ UNCHANGED disconnects
  <2>1. AnswersOnly(p) /\ NoAccept(p)
    BY <1>5, SendFacts DEF Answer, Accepts
  <2>2. /\ m_state' \in [Peer -> ClientStates]
        /\ \A q \in Peer \ {p} : m_state'[q] = m_state[q]
        /\ m_state'[p] = "CS_SudoMode"
    BY <1>5, NotifyTyped, Transitions, ClientStatesAre
  <2>3. chosen_mech' \in [Peer -> {"NONE", "SRP"}]
    BY <1>5, MechTyped
  <2>. QED BY <1>5, <2>1, <2>2, <2>3 DEF Handled, MovesOn, TypeOK, Ended
<1>. QED BY <1>1, <1>2, <1>3, <1>4, <1>5 DEF HandleFirstSrp, HandleSrpBytesA, HandleSrpBytesM


\* Both halves of the joining start in the state the client has to have.
LEMMA StageTwoHandled ==
    ASSUME TypeOK, NEW p \in Peer, NEW c, NEW s, StageTwoClientInit(p, s),
           AtLeast(s, "CS_InitDone") /\ emergePlayer(p) =>
               /\ s = IF p \in Old THEN "CS_InitDone" ELSE "CS_DefinitionsSent"
               /\ s = m_state[p] \/ (c = "INIT2" /\ m_state[p] = "CS_AwaitingInit2")
    PROVE  Handled(p, c) /\ (thread'.pc = "join" => thread'.peer = p /\ JoinsFrom(p)')
<1>1. CASE AtLeast(s, "CS_InitDone") /\ emergePlayer(p)
  <2>1. /\ m_state' = [m_state EXCEPT ![p] = s]
        /\ thread' = [pc |-> "join", peer |-> p]
        /\ UNCHANGED <<toClient, chosen_mech, disconnects>>
    BY <1>1 DEF StageTwoClientInit
  <2>2. /\ s \in ClientStates
        /\ s = IF p \in Old THEN "CS_InitDone" ELSE "CS_DefinitionsSent"
    BY <1>1, ClientStatesAre
  <2>3. /\ m_state' \in [Peer -> ClientStates] /\ m_state'[p] = s
        /\ \A q \in Peer \ {p} : m_state'[q] = m_state[q]
    BY <2>1, <2>2 DEF TypeOK, ClientStates
  <2>4. MovesOn(p, c)
    BY <1>1, <2>1, <2>2, <2>3, NoAnswerFacts DEF MovesOn
  <2>5. Handled(p, c)
    BY <2>1, <2>3, <2>4, NoAnswerFacts DEF Handled, TypeOK
  <2>. QED BY <2>1, <2>2, <2>3, <2>5 DEF JoinsFrom
<1>2. CASE ~(AtLeast(s, "CS_InitDone") /\ emergePlayer(p))
  <2>1. DenyAccess(p) /\ thread'.pc = "step"
    BY <1>2 DEF StageTwoClientInit, Back
  <2>. QED BY <2>1, DenyHandled
<1>. QED BY <1>1, <1>2

\* TOSERVER_INIT2,
LEMMA Init2Handled ==
    ASSUME HonestInv, NEW p \in Peer, Occurs(events, Init2Packet(p)), HandleInit2(p)
    PROVE  Handled(p, "INIT2") /\ (thread'.pc = "join" => thread'.peer = p /\ JoinsFrom(p)')
<1>. USE DEF HonestInv
<1>1. m_state[p] \in Ended \cup {"CS_AwaitingInit2"}
  BY DEF InSequence, Init2Due
<1>2. PICK s : s = notifyEvent(m_state[p], "CSE_GotInit2")
  OBVIOUS
<1>3. /\ m_state[p] = "CS_AwaitingInit2" => s = "CS_InitDone"
      /\ m_state[p] \in Ended => s = m_state[p]
  BY <1>2, Transitions
<1>4. CASE p \in Old
  <2>1. StageTwoClientInit(p, s)
    BY <1>2, <1>4 DEF HandleInit2
  <2>2. AtLeast(s, "CS_InitDone") => m_state[p] = "CS_AwaitingInit2" /\ s = "CS_InitDone"
    BY <1>1, <1>3, AtLeastInitDone DEF Ended, Ready, Active
  <2>. QED BY <1>4, <2>1, <2>2, StageTwoHandled
<1>5. CASE p \notin Old
  <2>1. PICK t : t = notifyEvent(s, "CSE_SetDefinitionsSent")
    OBVIOUS
  <2>2. /\ m_state' = [m_state EXCEPT ![p] = t] /\ Send(p, "DEFINITIONS")
        /\ UNCHANGED <<chosen_mech, disconnects>> /\ thread'.pc = "step"
    BY <1>2, <1>5, <2>1 DEF HandleInit2, Back
  <2>3. /\ m_state[p] = "CS_AwaitingInit2" => t = "CS_DefinitionsSent"
        /\ m_state[p] \in Ended => t = m_state[p]
    BY <1>3, <2>1, Transitions
  <2>4. /\ m_state' \in [Peer -> ClientStates] /\ m_state'[p] = t
        /\ \A q \in Peer \ {p} : m_state'[q] = m_state[q]
    BY <1>1, <2>2, <2>3, EndedAre, ClientStatesAre DEF TypeOK, ClientStates
  <2>5. AnswersOnly(p) /\ NoAccept(p)
    BY <2>2, SendFacts DEF Answer, Accepts
  <2>6. MovesOn(p, "INIT2")
    BY <1>1, <1>5, <2>3, <2>4, <2>5 DEF MovesOn
  <2>. QED BY <2>2, <2>4, <2>5, <2>6 DEF Handled, TypeOK
<1>. QED BY <1>4, <1>5

\* TOSERVER_CLIENT_READY,
LEMMA ClientReadyHandled ==
    ASSUME IInv, HonestInv, NEW p \in Peer, Occurs(events, ReadyPacket(p)), HandleClientReady(p)
    PROVE  Handled(p, "CLIENT_READY")
           /\ (thread'.pc = "join" => thread'.peer = p /\ JoinsFrom(p)')
<1>. USE DEF HonestInv
<1>1. p \notin Old /\ m_state[p] # "CS_InitDone"
  BY DEF InSequence
<1>2. emergePlayer(p) => m_state[p] \notin Active
  BY AtLeastActive DEF emergePlayer, Holds, IInv, ActiveHasPlayer, Typed
<1>3. AtLeast(m_state[p], "CS_InitDone") /\ emergePlayer(p) =>
          m_state[p] = "CS_DefinitionsSent"
  BY <1>1, <1>2, AtLeastInitDone DEF Ready
<1>4. CASE StageTwoClientInit(p, m_state[p])
  BY <1>1, <1>3, <1>4, StageTwoHandled
<1>5. CASE Stays(Ignore)
  BY <1>5, IgnoreHandled DEF Stays, Back
<1>. QED BY <1>4, <1>5 DEF HandleClientReady

\* any packet.
LEMMA DataHandled ==
    ASSUME IInv, HonestInv, NEW p \in Peer, NEW c \in Command,
           events # <<>>, Head(events) = Packet(p, c), ProcessData(p, c)
    PROVE  Handled(p, c) /\ (thread'.pc = "join" => thread'.peer = p /\ JoinsFrom(p)')
<1>. USE DEF HonestInv
<1>2. \A S : Head(events) \in S => Occurs(events, S)
  <2>1. events \in Seq(PeerEvent \cup DataEvent)
    BY DEF TypeOK
  <2>. QED BY <2>1, TailOccurs
<1>3. CASE \/ Stays(Ignore) \/ Stays(DenyAccess(p)) \/ Stays(HandleInit(p))
           \/ Stays(HandleInitLegacy(p)) \/ Stays(HandleFirstSrp(p))
           \/ Stays(HandleSrpBytesA(p)) \/ Stays(HandleSrpBytesM(p))
  <2>1. \/ Ignore \/ DenyAccess(p) \/ HandleInit(p) \/ HandleInitLegacy(p)
        \/ HandleFirstSrp(p) \/ HandleSrpBytesA(p) \/ HandleSrpBytesM(p)
    BY <1>3 DEF Stays
  <2>2. thread'.pc # "join"
    BY <1>3 DEF Stays, Back
  <2>. QED BY <2>1, <2>2, IgnoreHandled, DenyHandled, InitHandled, InitLegacyHandled, SrpHandled
<1>4. CASE c = "INIT2" /\ HandleInit2(p)
  <2>1. Occurs(events, Init2Packet(p))
    BY <1>2, <1>4, PacketKinds
  <2>. QED BY <1>4, <2>1, Init2Handled
<1>5. CASE c = "CLIENT_READY" /\ HandleClientReady(p)
  <2>1. Occurs(events, ReadyPacket(p))
    BY <1>2, <1>5, PacketKinds
  <2>. QED BY <1>5, <2>1, ClientReadyHandled
<1>. QED BY <1>3, <1>4, <1>5 DEF ProcessData

\* What adding and taking an event does to the packets of each peer.
LEMMA EventAdded ==
    ASSUME TypeOK, NEW e \in PeerEvent \cup DataEvent, events' = Append(events, e)
    PROVE  /\ events' \in Seq(PeerEvent \cup DataEvent)
           /\ \A S : /\ Occurs(events', S) <=> Occurs(events, S) \/ e \in S
                     /\ Once(events', S) <=> Once(events, S) /\ (e \in S => ~Occurs(events, S))
<1>1. events \in Seq(PeerEvent \cup DataEvent)
  BY DEF TypeOK
<1>2. events' \in Seq(PeerEvent \cup DataEvent)
  BY <1>1
<1>. QED BY <1>1, <1>2, AppendOccurs

LEMMA EventTaken ==
    ASSUME TypeOK, events # <<>>, events' = Tail(events)
    PROVE  /\ events' \in Seq(PeerEvent \cup DataEvent)
           /\ Head(events) \in PeerEvent \cup DataEvent
           /\ \A S : /\ Occurs(events, S) <=> Head(events) \in S \/ Occurs(events', S)
                     /\ Once(events, S) <=>
                           Once(events', S) /\ (Head(events) \in S => ~Occurs(events', S))
<1>1. events \in Seq(PeerEvent \cup DataEvent)
  BY DEF TypeOK
<1>2. events' \in Seq(PeerEvent \cup DataEvent) /\ Head(events) \in PeerEvent \cup DataEvent
  BY <1>1
<1>. QED BY <1>1, <1>2, TailOccurs


\* Nothing more of a peer is under way.
FewerEvents(q) ==
    \A S \in {AddedEvent(q), Init2Packet(q), ReadyPacket(q)} :
        /\ Occurs(events', S) => Occurs(events, S)
        /\ Once(events, S) => Once(events', S)

FewerChanges(q) ==
    /\ Occurs(m_peer_change_queue', AddedEvent(q)) => Occurs(m_peer_change_queue, AddedEvent(q))
    /\ Once(m_peer_change_queue, AddedEvent(q)) => Once(m_peer_change_queue', AddedEvent(q))

LEMMA SameFewer ==
    ASSUME NEW q \in Peer
    PROVE  /\ UNCHANGED events => FewerEvents(q)
           /\ UNCHANGED m_peer_change_queue => FewerChanges(q)
           /\ UNCHANGED toClient => NoAccept(q)
           /\ toClient'[q] = toClient[q] => NoAccept(q)
  BY DEF FewerEvents, FewerChanges, NoAccept

\* A step after which fewer packets wait, and no state changes, keeps the sequence.
LEMMA FewerKept ==
    ASSUME NEW q \in Peer, InSequence(q), FewerEvents(q), FewerChanges(q), NoAccept(q),
           connection'[q] = "none" => connection[q] = "none",
           \/ m_state'[q] = m_state[q]
           \/ m_state'[q] \in Ended /\ (m_state[q] = "CS_Invalid" => m_state'[q] = "CS_Invalid")
    PROVE  InSequence(q)'
<1>1. /\ Announced(q)' => Announced(q)
      /\ Init2Due(q)' => Init2Due(q)
      /\ Occurs(events', ReadyPacket(q)) => Occurs(events, ReadyPacket(q))
  BY DEF FewerEvents, FewerChanges, NoAccept, Announced, Init2Due
<1>2. /\ Single(events', AddedEvent(q), m_peer_change_queue', AddedEvent(q))
      /\ Single(events, Init2Packet(q), toClient[q], Accepts) =>
            Single(events', Init2Packet(q), toClient'[q], Accepts)
  BY DEF InSequence, FewerEvents, FewerChanges, NoAccept, Single
<1>3. m_state'[q] = m_state[q] \/ m_state'[q] \notin {"CS_AwaitingInit2", "CS_InitDone"}
  BY DEF Ended
<1>. QED BY <1>1, <1>2, <1>3 DEF InSequence, Ended

\* A handler that moves its client on keeps it in sequence.
LEMMA MovedKept ==
    ASSUME NEW q \in Peer, NEW c, InSequence(q), FewerEvents(q), MovesOn(q, c),
           c = "INIT2" => /\ Occurs(events, Init2Packet(q))
                          /\ Once(events, Init2Packet(q)) => ~Occurs(events', Init2Packet(q)),
           UNCHANGED <<connection, m_peer_change_queue>>
    PROVE  InSequence(q)'
<1>. USE SameFewer
<1>1. /\ Announced(q)' => Announced(q)
      /\ Occurs(events', ReadyPacket(q)) => Occurs(events, ReadyPacket(q))
      /\ Single(events', AddedEvent(q), m_peer_change_queue', AddedEvent(q))
  BY DEF InSequence, FewerEvents, FewerChanges, Announced, Single
<1>2. NoAccept(q) => (Init2Due(q)' => Init2Due(q))
  BY DEF FewerEvents, NoAccept, Init2Due
<1>3. CASE /\ m_state'[q] \in Ended
           /\ m_state[q] = "CS_Invalid" => m_state'[q] = "CS_Invalid" /\ NoAccept(q)
  <2>1. m_state'[q] \notin {"CS_AwaitingInit2", "CS_InitDone"}
    BY <1>3 DEF Ended
  <2>. QED BY <1>1, <1>2, <1>3, <2>1 DEF InSequence
<1>4. CASE m_state'[q] = m_state[q] /\ NoAccept(q)
  BY <1>4, FewerKept
<1>5. CASE /\ m_state[q] \notin Ended \cup {"CS_AwaitingInit2"}
           /\ m_state'[q] \notin Ended \cup {"CS_AwaitingInit2", "CS_InitDone"}
           /\ NoAccept(q)
  BY <1>1, <1>2, <1>5 DEF InSequence, Ended
<1>6. CASE /\ m_state[q] \in {"CS_Created", "CS_HelloSent"}
           /\ m_state'[q] = "CS_AwaitingInit2"
           /\ ~Occurs(toClient[q], Accepts) => Once(toClient'[q], Accepts)
  <2>1. m_state[q] \notin Ended \cup {"CS_AwaitingInit2"}
    BY <1>6 DEF Ended
  <2>2. ~Occurs(events, Init2Packet(q)) /\ ~Occurs(toClient[q], Accepts)
    BY <2>1 DEF InSequence, Init2Due
  <2>3. ~Occurs(events', Init2Packet(q)) /\ Once(events', Init2Packet(q))
    BY <2>2 DEF FewerEvents, Occurs, Once
  <2>4. Single(events', Init2Packet(q), toClient'[q], Accepts)
    BY <1>6, <2>2, <2>3 DEF Single
  <2>. QED BY <1>1, <1>6, <2>1, <2>4 DEF InSequence, Ended
<1>7. CASE /\ c = "INIT2" /\ m_state[q] = "CS_AwaitingInit2"
           /\ m_state'[q] = IF q \in Old THEN "CS_InitDone" ELSE "CS_DefinitionsSent"
           /\ NoAccept(q)
  <2>1. Single(events, Init2Packet(q), toClient[q], Accepts)
    BY <1>7 DEF InSequence
  <2>2. ~Init2Due(q)'
    BY <1>7, <2>1 DEF Single, Init2Due, NoAccept
  <2>. QED BY <1>1, <1>7, <2>2 DEF InSequence, Ended
<1>. QED BY <1>3, <1>4, <1>5, <1>6, <1>7 DEF MovesOn


LEMMA HonestInitially == Init => HonestInv
<1> SUFFICES ASSUME Init PROVE HonestInv
  OBVIOUS
<1>1. TypeOK
  <2>1. "CS_Invalid" \in ClientStates
    BY ClientStatesAre
  <2>. QED BY <2>1, SessionsAssumption DEF Init, TypeOK, ClientStates
<1>2. ASSUME NEW p \in Peer PROVE InSequence(p)
  <2>1. /\ m_state[p] = "CS_Invalid" /\ connection[p] = "none" /\ events = <<>>
        /\ m_peer_change_queue = <<>> /\ toClient[p] = <<>>
    BY DEF Init
  <2>. QED BY <2>1, EmptyOccurs DEF InSequence, Single, Announced, Init2Due, Ended
<1>3. thread.pc # "join"
  BY DEF Init
<1>. QED BY <1>1, <1>2, <1>3 DEF HonestInv

\* An event that is no announcement, no INIT2 and no CLIENT_READY of a peer.
LEMMA OtherEvent ==
    ASSUME TypeOK, NEW q \in Peer, NEW e \in PeerEvent \cup DataEvent,
           events' = Append(events, e),
           e \notin AddedEvent(q), e \notin Init2Packet(q), e \notin ReadyPacket(q)
    PROVE  FewerEvents(q)
  BY EventAdded DEF FewerEvents

LEMMA TakenFewer ==
    ASSUME TypeOK, NEW q \in Peer, events # <<>>, events' = Tail(events)
    PROVE  FewerEvents(q)
  BY EventTaken DEF FewerEvents

\* A change taken from the queue, or added to it.
LEMMA ChangeTaken ==
    ASSUME TypeOK, m_peer_change_queue # <<>>,
           m_peer_change_queue' = Tail(m_peer_change_queue)
    PROVE  /\ m_peer_change_queue' \in Seq(PeerEvent)
           /\ Head(m_peer_change_queue) \in PeerEvent
           /\ \A q \in Peer : FewerChanges(q)
           /\ \A q \in Peer :
                 Head(m_peer_change_queue) \in AddedEvent(q)
                     /\ Once(m_peer_change_queue, AddedEvent(q)) =>
                 /\ Occurs(m_peer_change_queue, AddedEvent(q))
                 /\ ~Occurs(m_peer_change_queue', AddedEvent(q))
<1>1. m_peer_change_queue \in Seq(PeerEvent)
  BY DEF TypeOK
<1>2. m_peer_change_queue' \in Seq(PeerEvent) /\ Head(m_peer_change_queue) \in PeerEvent
  BY <1>1
<1>. QED BY <1>1, <1>2, TailOccurs DEF FewerChanges

LEMMA ChangeAdded ==
    ASSUME TypeOK, NEW e \in PeerEvent, m_peer_change_queue' = Append(m_peer_change_queue, e)
    PROVE  /\ m_peer_change_queue' \in Seq(PeerEvent)
           /\ \A S : /\ Occurs(m_peer_change_queue', S) <=>
                           Occurs(m_peer_change_queue, S) \/ e \in S
                     /\ Once(m_peer_change_queue', S) <=>
                           Once(m_peer_change_queue, S)
                               /\ (e \in S => ~Occurs(m_peer_change_queue, S))
<1>1. m_peer_change_queue \in Seq(PeerEvent)
  BY DEF TypeOK
<1>2. m_peer_change_queue' \in Seq(PeerEvent)
  BY <1>1
<1>. QED BY <1>1, <1>2, AppendOccurs

\* The changes of the queue: a client is made for a peer that was announced once, or
\* it is deleted.
LEMMA ChangesHonest ==
    ASSUME HonestInv, handlePeerChanges PROVE HonestInv'
<1>. USE DEF HonestInv
<1> DEFINE Q == m_peer_change_queue
<1>1. CASE Q = <<>>
  <2>1. /\ thread' = [thread EXCEPT !.pc = "receive"]
        /\ UNCHANGED <<network, events, toClient, remote, server, players>>
    BY <1>1 DEF handlePeerChanges
  <2>2. TypeOK'
    BY <2>1 DEF TypeOK, network, remote, server, players
  <2>3. thread'.pc # "join"
    BY <2>1 DEF TypeOK
  <2>4. \A p \in Peer : InSequence(p)'
    BY <2>1, SameFewer, FewerKept DEF network, server
  <2>. QED BY <2>2, <2>3, <2>4
<1>2. CASE Q # <<>>
  <2>1. PICK h : h = Head(Q)
    OBVIOUS
  <2>2. PICK p : p = h.peer
    OBVIOUS
  <2>3. /\ Q' = Tail(Q) /\ UNCHANGED <<network, events, toClient, remote, thread>>
        /\ thread.pc = "changes"
        /\ IF h.type = "PEER_ADDED" THEN CreateClient(p) ELSE DeleteClient(p)
    BY <1>2, <2>1, <2>2 DEF handlePeerChanges
  <2>4. /\ Q' \in Seq(PeerEvent) /\ h \in PeerEvent
        /\ \A q \in Peer : FewerChanges(q)
        /\ \A q \in Peer : h \in AddedEvent(q) /\ Once(Q, AddedEvent(q)) =>
              Occurs(Q, AddedEvent(q)) /\ ~Occurs(Q', AddedEvent(q))
    BY <1>2, <2>1, <2>3, ChangeTaken
  <2>5. p \in Peer /\ h = [type |-> h.type, peer |-> p]
    BY <2>2, <2>4 DEF PeerEvent
  <2>6. CASE h.type = "PEER_ADDED"
    <3>1. h \in AddedEvent(p)
      BY <2>5, <2>6 DEF AddedEvent
    <3>2. /\ Occurs(Q, AddedEvent(p)) /\ ~Occurs(Q', AddedEvent(p))
          /\ ~Occurs(events, AddedEvent(p))
      BY <2>4, <2>5, <3>1 DEF InSequence, Single
    <3>3. m_state[p] = "CS_Invalid" /\ ~Init2Due(p) /\ connection[p] # "none"
      BY <2>5, <3>2 DEF InSequence, Announced
    <3>4. /\ m_state' = [m_state EXCEPT ![p] = "CS_Created"]
          /\ UNCHANGED <<chosen_mech, players>>
      BY <2>3, <2>6, <3>3, <2>5 DEF CreateClient, TypeOK
    <3>5. TypeOK'
      <4>1. m_state' \in [Peer -> ClientStates]
        BY <2>5, <3>4, ClientStatesAre DEF TypeOK, ClientStates
      <4>. QED BY <2>3, <2>4, <3>4, <4>1 DEF TypeOK, network, remote, players, ClientStates
    <3>6. ASSUME NEW q \in Peer \ {p} PROVE InSequence(q)'
      <4>1. m_state'[q] = m_state[q]
        BY <2>5, <3>4 DEF TypeOK
      <4>. QED BY <2>3, <2>4, <4>1, SameFewer, FewerKept DEF network
    <3>7. InSequence(p)'
      <4>1. m_state'[p] = "CS_Created"
        BY <2>5, <3>4 DEF TypeOK
      <4>2. /\ UNCHANGED <<connection, events, toClient>>
            /\ FewerChanges(p) /\ InSequence(p)
        BY <2>3, <2>4, <2>5 DEF network
      <4>. QED BY <3>2, <3>3, <4>1, <4>2
           DEF InSequence, Single, Announced, Init2Due, Ended, FewerChanges
    <3>. QED BY <2>3, <3>5, <3>6, <3>7
  <2>7. CASE h.type # "PEER_ADDED"
    <3>1. /\ DeleteClient(p)
          /\ m_state' = [m_state EXCEPT ![p] = "CS_Invalid"]
          /\ EndsAuth(p)
      BY <2>3, <2>7 DEF DeleteClient
    <3>2. TypeOK'
      <4>1. m_state' \in [Peer -> ClientStates]
        BY <2>5, <3>1, ClientStatesAre DEF TypeOK, ClientStates
      <4>2. chosen_mech' \in [Peer -> {"NONE", "SRP"}]
        BY <2>5, <3>1, MechTyped
      <4>3. peer_id' \in [Name -> Peer \cup {PEER_ID_INEXISTENT}] /\ joined' \subseteq Peer
        BY <3>1 DEF DeleteClient, TypeOK
      <4>. QED BY <2>3, <2>4, <4>1, <4>2, <4>3 DEF TypeOK, network, remote, ClientStates
    <3>3. ASSUME NEW q \in Peer PROVE InSequence(q)'
      <4>1. m_state'[q] = m_state[q] \/ m_state'[q] = "CS_Invalid"
        BY <3>1, <2>5 DEF TypeOK
      <4>. QED BY <2>3, <2>4, <4>1, SameFewer, FewerKept DEF network, Ended
    <3>. QED BY <2>3, <3>2, <3>3
  <2>. QED BY <2>6, <2>7
<1>. QED BY <1>1, <1>2


\* An announcement goes from one queue to the other; a removal ends the client.
LEMMA PeerEventsHonest ==
    ASSUME HonestInv, ReceivePeerEvent PROVE HonestInv'
<1>. USE DEF HonestInv
<1> DEFINE Q == m_peer_change_queue
<1>1. PICK h : h = Head(events)
  OBVIOUS
<1>2. PICK p : p = h.peer
  OBVIOUS
<1>3. /\ thread.pc = "receive" /\ events # <<>> /\ events' = Tail(events)
      /\ h.type # "DATA_RECEIVED"
      /\ IF h.type = "PEER_ADDED" THEN peerAdded(p) ELSE deletingPeer(p)
      /\ UNCHANGED <<network, toClient, remote, thread, chosen_mech, players>>
  BY <1>1, <1>2 DEF ReceivePeerEvent
<1>4. /\ events' \in Seq(PeerEvent \cup DataEvent)
      /\ h \in PeerEvent \cup DataEvent
      /\ \A S : /\ Occurs(events, S) <=> h \in S \/ Occurs(events', S)
                /\ Once(events, S) <=> Once(events', S) /\ (h \in S => ~Occurs(events', S))
  BY <1>1, <1>3, EventTaken
<1>5. h \in PeerEvent
  BY <1>3, <1>4 DEF DataEvent
<1>6. p \in Peer /\ h = [type |-> h.type, peer |-> p]
  BY <1>2, <1>5 DEF PeerEvent
<1>7. \A q \in Peer : FewerEvents(q)
  BY <1>4 DEF FewerEvents
<1>8. CASE h.type = "PEER_ADDED"
  <2>1. Q' = Append(Q, h) /\ UNCHANGED m_state
    BY <1>3, <1>6, <1>8 DEF peerAdded
  <2>2. /\ Q' \in Seq(PeerEvent)
        /\ \A S : /\ Occurs(Q', S) <=> Occurs(Q, S) \/ h \in S
                  /\ Once(Q', S) <=> Once(Q, S) /\ (h \in S => ~Occurs(Q, S))
    BY <1>5, <2>1, ChangeAdded
  <2>3. TypeOK'
    BY <1>3, <1>4, <2>1, <2>2 DEF TypeOK, network, remote, players
  <2>4. h \in AddedEvent(p) /\ \A q \in Peer \ {p} : h \notin AddedEvent(q)
    BY <1>6, <1>8 DEF AddedEvent
  <2>5. ASSUME NEW q \in Peer \ {p} PROVE InSequence(q)'
    <3>1. FewerChanges(q)
      BY <2>2, <2>4 DEF FewerChanges
    <3>. QED BY <1>3, <1>7, <2>1, <3>1, SameFewer, FewerKept DEF network
  <2>6. InSequence(p)'
    <3>1. /\ Announced(p)' <=> Announced(p)
          /\ Single(events, AddedEvent(p), Q, AddedEvent(p)) =>
                Single(events', AddedEvent(p), Q', AddedEvent(p))
      BY <1>4, <2>2, <2>4 DEF Announced, Single
    <3>2. /\ Init2Due(p)' => Init2Due(p)
          /\ Occurs(events', ReadyPacket(p)) => Occurs(events, ReadyPacket(p))
          /\ Single(events, Init2Packet(p), toClient[p], Accepts) =>
                Single(events', Init2Packet(p), toClient'[p], Accepts)
      BY <1>3, <1>4 DEF Init2Due, Single
    <3>3. InSequence(p) /\ UNCHANGED <<connection, m_state>>
      BY <1>3, <1>6, <2>1 DEF network
    <3>. QED BY <3>1, <3>2, <3>3 DEF InSequence
  <2>. QED BY <1>3, <1>6, <2>1, <2>3, <2>5, <2>6
<1>9. CASE h.type # "PEER_ADDED"
  <2>1. Q' = Append(Q, [type |-> "PEER_REMOVED", peer |-> p]) /\ Notify(p, "CSE_Disconnect")
    BY <1>3, <1>9 DEF deletingPeer
  <2>2. /\ Q' \in Seq(PeerEvent)
        /\ \A S : /\ Occurs(Q', S) <=> Occurs(Q, S) \/ [type |-> "PEER_REMOVED", peer |-> p] \in S
                  /\ Once(Q', S) <=> Once(Q, S) /\ ([type |-> "PEER_REMOVED", peer |-> p] \in S =>
                                                        ~Occurs(Q, S))
    <3>1. [type |-> "PEER_REMOVED", peer |-> p] \in PeerEvent
      BY <1>6 DEF PeerEvent
    <3>. QED BY <2>1, <3>1, ChangeAdded
  <2>3. \A q \in Peer : FewerChanges(q)
    BY <2>2, PeerEventKinds DEF FewerChanges
  <2>4. /\ notifyEvent(m_state[p], "CSE_Disconnect") \in Ended
        /\ m_state[p] = "CS_Invalid" => notifyEvent(m_state[p], "CSE_Disconnect") = m_state[p]
    BY <1>6, StateTyped, Transitions
  <2>5. /\ m_state' \in [Peer -> ClientStates]
        /\ \A q \in Peer \ {p} : m_state'[q] = m_state[q]
        /\ m_state'[p] = notifyEvent(m_state[p], "CSE_Disconnect")
    BY <1>6, <2>1, <2>4, NotifyTyped, EndedAre
  <2>6. TypeOK'
    BY <1>3, <1>4, <2>2, <2>5 DEF TypeOK, network, remote, players, ClientStates
  <2>7. ASSUME NEW q \in Peer PROVE InSequence(q)'
    BY <1>3, <1>7, <2>3, <2>4, <2>5, SameFewer, FewerKept DEF network
  <2>. QED BY <1>3, <2>6, <2>7
<1>. QED BY <1>8, <1>9

\* A packet of a peer that is up is handled in sequence; one of a peer that is gone is
\* dropped.
LEMMA DataHonest ==
    ASSUME IInv, HonestInv, ReceiveData PROVE HonestInv'
<1>. USE DEF HonestInv
<1>1. PICK h : h = Head(events)
  OBVIOUS
<1>2. PICK p, c : p = h.peer /\ c = h.command
  OBVIOUS
<1>3. /\ events # <<>> /\ events' = Tail(events) /\ h.type = "DATA_RECEIVED"
      /\ ProcessData(p, c)
      /\ UNCHANGED <<connection, remote, m_peer_change_queue, joined>>
  BY <1>1, <1>2 DEF ReceiveData
<1>4. /\ events' \in Seq(PeerEvent \cup DataEvent)
      /\ h \in PeerEvent \cup DataEvent
      /\ \A S : /\ Occurs(events, S) <=> h \in S \/ Occurs(events', S)
                /\ Once(events, S) <=> Once(events', S) /\ (h \in S => ~Occurs(events', S))
  BY <1>1, <1>3, EventTaken
<1>5. h \in DataEvent
  BY <1>3, <1>4 DEF PeerEvent
<1>6. p \in Peer /\ c \in Command /\ h = Packet(p, c)
  BY <1>2, <1>3, <1>5 DEF DataEvent, Packet
<1>7. \A q \in Peer : FewerEvents(q)
  BY <1>4 DEF FewerEvents
<1>8. Handled(p, c) /\ (thread'.pc = "join" => thread'.peer = p /\ JoinsFrom(p)')
  BY <1>1, <1>3, <1>6, DataHandled
<1>9. Quiet \/ Emerges(p)
  BY <1>3, <1>6, Packets DEF IInv
<1>10. /\ peer_id' \in [Name -> Peer \cup {PEER_ID_INEXISTENT}]
       /\ thread' \in [pc : {"step", "changes", "receive", "join"},
                       peer : Peer \cup {PEER_ID_INEXISTENT}]
  <2>1. CASE Quiet
    BY <2>1 DEF Quiet, TypeOK
  <2>2. CASE Emerges(p)
    BY <1>6, <2>2 DEF Emerges, TypeOK
  <2>. QED BY <1>9, <2>1, <2>2
<1>11. TypeOK'
  BY <1>3, <1>4, <1>8, <1>10 DEF TypeOK, Handled, AnswersOnly, remote, ClientStates
<1>12. ASSUME NEW q \in Peer \ {p} PROVE InSequence(q)'
  <2>1. m_state'[q] = m_state[q] /\ toClient'[q] = toClient[q]
    BY <1>8 DEF Handled, AnswersOnly
  <2>. QED BY <1>3, <1>7, <2>1, SameFewer, FewerKept
<1>13. InSequence(p)'
  <2>1. c = "INIT2" => h \in Init2Packet(p)
    BY <1>6, PacketKinds
  <2>2. c = "INIT2" => /\ Occurs(events, Init2Packet(p))
                       /\ Once(events, Init2Packet(p)) => ~Occurs(events', Init2Packet(p))
    BY <1>4, <2>1
  <2>. QED BY <1>3, <1>6, <1>7, <1>8, <2>2, MovedKept DEF Handled
<1>. QED BY <1>8, <1>11, <1>12, <1>13

LEMMA JoinsHonest ==
    ASSUME HonestInv, JoiningHolds, Joins PROVE HonestInv'
<1>. USE DEF HonestInv
<1>1. PICK p : p = thread.peer
  OBVIOUS
<1>2. PICK s : s = IF p \in Old THEN notifyEvent(m_state[p], "CSE_SetDefinitionsSent")
                               ELSE m_state[p]
  OBVIOUS
<1>3. /\ m_state' = [m_state EXCEPT ![p] = notifyEvent(s, "CSE_SetClientReady")]
      /\ IF p \in Old THEN Send(p, "DEFINITIONS") ELSE UNCHANGED toClient
      /\ joined' = joined \cup {p} /\ Back /\ thread.pc = "join"
      /\ UNCHANGED <<network, events, remote, m_peer_change_queue, chosen_mech, peer_id>>
  BY <1>1, <1>2 DEF Joins
<1>4. p \in Peer /\ JoinsFrom(p)
  BY <1>1, <1>3 DEF JoiningHolds
<1>5. s = "CS_DefinitionsSent" /\ notifyEvent(s, "CSE_SetClientReady") = "CS_Active"
  BY <1>2, <1>4, Transitions DEF JoinsFrom
<1>6. /\ m_state' \in [Peer -> ClientStates] /\ m_state'[p] = "CS_Active"
      /\ \A q \in Peer \ {p} : m_state'[q] = m_state[q]
  BY <1>3, <1>4, <1>5, ClientStatesAre DEF TypeOK, ClientStates
<1>7. AnswersOnly(p) /\ NoAccept(p)
  BY <1>3, <1>4, SendFacts, NoAnswerFacts DEF Answer, Accepts
<1>8. thread' \in [pc : {"step", "changes", "receive", "join"},
                   peer : Peer \cup {PEER_ID_INEXISTENT}] /\ thread'.pc # "join"
  BY <1>3 DEF Back
<1>9. TypeOK'
  BY <1>3, <1>4, <1>6, <1>7, <1>8 DEF TypeOK, AnswersOnly, network, remote, ClientStates
<1>10. ASSUME NEW q \in Peer \ {p} PROVE InSequence(q)'
  <2>1. m_state'[q] = m_state[q] /\ toClient'[q] = toClient[q]
    BY <1>6, <1>7 DEF AnswersOnly
  <2>. QED BY <1>3, <2>1, SameFewer, FewerKept DEF network
<1>11. InSequence(p)'
  <2>1. MovesOn(p, "INIT")
    BY <1>4, <1>6, <1>7 DEF MovesOn, JoinsFrom, Ended
  <2>. QED BY <1>3, <1>4, <2>1, SameFewer, MovedKept DEF network
<1>. QED BY <1>8, <1>9, <1>10, <1>11

\* A client is kicked.
LEMMA KickHonest ==
    ASSUME HonestInv, NEW p \in Peer, Kick(p) PROVE HonestInv'
<1>. USE DEF HonestInv
<1>1. /\ Handled(p, "INIT") /\ thread.pc = "step"
      /\ UNCHANGED <<connection, events, remote, thread, m_peer_change_queue, players>>
  BY DenyHandled DEF Kick
<1>2. TypeOK'
  BY <1>1 DEF TypeOK, Handled, AnswersOnly, remote, players, ClientStates
<1>3. ASSUME NEW q \in Peer \ {p} PROVE InSequence(q)'
  <2>1. m_state'[q] = m_state[q] /\ toClient'[q] = toClient[q]
    BY <1>1 DEF Handled, AnswersOnly
  <2>. QED BY <1>1, <2>1, SameFewer, FewerKept
<1>4. InSequence(p)'
  BY <1>1, SameFewer, MovedKept DEF Handled
<1>. QED BY <1>1, <1>2, <1>3, <1>4


\* What the clients and the connection do leaves the server's part alone.
LEMMA OutsideHonest ==
    ASSUME HonestInv, NEW p \in Peer,
           \/ Connect(p) \/ PeerGone(p) \/ SendInit(p) \/ ClientReceives(p)
           \/ sendChangePassword(p)
    PROVE  HonestInv'
<1>. USE DEF HonestInv
<1>1. UNCHANGED <<thread, server, players, playername>>
  BY DEF Connect, PeerGone, SendInit, ClientReceives, sendChangePassword, remote
<1>2. thread'.pc = "join" => JoinsFrom(thread.peer)'
  BY <1>1 DEF server, JoinsFrom
<1>3. \A q \in Peer : FewerChanges(q) /\ m_state'[q] = m_state[q]
  BY <1>1, SameFewer DEF server
<1>4. CASE Connect(p)
  <2>1. PICK e : e = [type |-> "PEER_ADDED", peer |-> p]
    OBVIOUS
  <2>2. /\ connection[p] = "none" /\ connection' = [connection EXCEPT ![p] = "up"]
        /\ events' = Append(events, e)
        /\ UNCHANGED <<disconnects, toClient, remote>>
    BY <1>4, <2>1 DEF Connect
  <2>3. e \in PeerEvent \cup DataEvent
    BY <2>1 DEF PeerEvent
  <2>4. /\ events' \in Seq(PeerEvent \cup DataEvent)
        /\ \A S : /\ Occurs(events', S) <=> Occurs(events, S) \/ e \in S
                  /\ Once(events', S) <=> Once(events, S) /\ (e \in S => ~Occurs(events, S))
    BY <2>2, <2>3, EventAdded
  <2>5. TypeOK'
    BY <1>1, <2>2, <2>4 DEF TypeOK, remote, server, players
  <2>6. \A q : /\ e \notin Init2Packet(q) /\ e \notin ReadyPacket(q)
               /\ e \in AddedEvent(q) <=> q = p
    BY <2>1, PeerEventKinds
  <2>7. ASSUME NEW q \in Peer \ {p} PROVE InSequence(q)'
    <3>1. FewerEvents(q)
      BY <2>4, <2>6 DEF FewerEvents
    <3>2. connection'[q] = connection[q]
      BY <2>2 DEF TypeOK
    <3>. QED BY <1>3, <2>2, <3>1, <3>2, SameFewer, FewerKept
  <2>8. InSequence(p)'
    <3>1. connection'[p] = "up"
      BY <2>2 DEF TypeOK
    <3>2. /\ ~Announced(p) /\ ~Init2Due(p) /\ m_state[p] = "CS_Invalid" /\ InSequence(p)
      BY <2>2 DEF InSequence
    <3>3. /\ Single(events', AddedEvent(p), m_peer_change_queue', AddedEvent(p))
          /\ ~Init2Due(p)'
          /\ Occurs(events', ReadyPacket(p)) => Occurs(events, ReadyPacket(p))
      BY <1>1, <2>2, <2>4, <2>6, <3>2 DEF InSequence, Single, Announced, Init2Due, server
    <3>. QED BY <1>3, <3>1, <3>2, <3>3 DEF InSequence, Ended
  <2>. QED BY <1>1, <1>2, <2>5, <2>7, <2>8
<1>5. CASE PeerGone(p)
  <2>1. PICK e : e = [type |-> "PEER_REMOVED", peer |-> p]
    OBVIOUS
  <2>2. /\ connection' = [connection EXCEPT ![p] = "gone"]
        /\ disconnects' = disconnects \ {p}
        /\ events' = Append(events, e)
        /\ toClient' = [toClient EXCEPT ![p] = <<>>]
        /\ UNCHANGED remote
    BY <1>5, <2>1 DEF PeerGone
  <2>3. e \in PeerEvent \cup DataEvent
    BY <2>1 DEF PeerEvent
  <2>4. events' \in Seq(PeerEvent \cup DataEvent)
    BY <2>2, <2>3, EventAdded
  <2>5. TypeOK'
    BY <1>1, <2>2, <2>4 DEF TypeOK, remote, server, players
  <2>6. ASSUME NEW q \in Peer PROVE InSequence(q)'
    <3>1. FewerEvents(q)
      <4>1. e \notin AddedEvent(q) /\ e \notin Init2Packet(q) /\ e \notin ReadyPacket(q)
        BY <2>1, PeerEventKinds
      <4>. QED BY <2>2, <2>3, <4>1, OtherEvent
    <3>2. connection'[q] = connection[q] \/ connection'[q] = "gone"
      BY <2>2 DEF TypeOK
    <3>3. toClient'[q] = toClient[q] \/ toClient'[q] = <<>>
      BY <2>2 DEF TypeOK
    <3>4. NoAccept(q)
      BY <3>3, EmptyOccurs DEF NoAccept
    <3>. QED BY <1>3, <3>1, <3>2, <3>4, FewerKept
  <2>. QED BY <1>1, <1>2, <2>5, <2>6
<1>6. ASSUME NEW c \in Command \ {"INIT2", "CLIENT_READY"}, events' = Append(events, Packet(p, c)),
             UNCHANGED <<network, toClient, localState>>, changes' \in 0 .. MaxChanges
      PROVE  HonestInv'
  <2>1. Packet(p, c) \in PeerEvent \cup DataEvent
    BY <1>6 DEF Packet, DataEvent
  <2>2. events' \in Seq(PeerEvent \cup DataEvent)
    BY <1>6, <2>1, EventAdded
  <2>3. TypeOK'
    BY <1>1, <1>6, <2>2 DEF TypeOK, network, server, players
  <2>4. ASSUME NEW q \in Peer PROVE InSequence(q)'
    <3>1. FewerEvents(q)
      BY <1>6, <2>1, PacketKinds, OtherEvent
    <3>. QED BY <1>3, <1>6, <3>1, SameFewer, FewerKept DEF network
  <2>. QED BY <1>1, <1>2, <2>3, <2>4
<1>7. CASE SendInit(p)
  <2>1. /\ \E c \in Command \ {"INIT2", "CLIENT_READY"} : events' = Append(events, Packet(p, c))
        /\ UNCHANGED <<network, toClient, localState, changes>>
    BY <1>7 DEF SendInit, Command, remote
  <2>. QED BY <1>6, <2>1 DEF TypeOK
<1>8. CASE sendChangePassword(p)
  <2>1. /\ events' = Append(events, Packet(p, "SRP_BYTES_A"))
        /\ UNCHANGED <<network, toClient, localState>>
        /\ changes' = changes + 1 /\ changes < MaxChanges
    BY <1>8 DEF sendChangePassword
  <2>2. changes' \in 0 .. MaxChanges
    BY <2>1, SessionsAssumption DEF TypeOK
  <2>3. "SRP_BYTES_A" \in Command \ {"INIT2", "CLIENT_READY"}
    BY DEF Command
  <2>. QED BY <1>6, <2>1, <2>2, <2>3
<1>9. CASE ClientReceives(p)
  <2>1. PICK a : a = Head(toClient[p])
    OBVIOUS
  <2>2. PICK answers : answers = toClient[p]
    OBVIOUS
  <2>3. /\ answers # <<>> /\ toClient' = [toClient EXCEPT ![p] = Tail(answers)]
        /\ \/ UNCHANGED events
           \/ \E c \in Replies(p, a) : events' = Append(events, Packet(p, c))
        /\ localState' = [localState EXCEPT ![p] = IF @ = "denied" THEN @ ELSE StateAfter(p, a)]
        /\ UNCHANGED <<network, playername, changes>>
    BY <1>9, <2>1, <2>2 DEF ClientReceives
  <2>4. /\ answers \in Seq(Answer) /\ a \in Answer /\ Tail(answers) \in Seq(Answer)
        /\ toClient \in [Peer -> Seq(Answer)]
    BY <2>1, <2>2, <2>3 DEF TypeOK
  <2>5. /\ toClient' \in [Peer -> Seq(Answer)] /\ toClient'[p] = Tail(answers)
        /\ \A q \in Peer \ {p} : toClient'[q] = toClient[q]
    BY <2>3, <2>4
  <2>6. localState' \in [Peer -> {"LC_Created", "LC_Init", "LC_Ready", "denied"}]
    <3>1. StateAfter(p, a) \in {"LC_Created", "LC_Init", "LC_Ready", "denied"}
      BY DEF StateAfter, TypeOK
    <3>. QED BY <2>3, <3>1 DEF TypeOK
  <2>7. \A c \in Replies(p, a) : /\ c \in Command
                                 /\ c = "INIT2" => a \in Accepts
                                 /\ c = "CLIENT_READY" => p \notin Old
    BY <2>4 DEF Replies, Command, Accepts, Answer
  <2>8. \A c \in Command : Packet(p, c) \in PeerEvent \cup DataEvent
    BY DEF Packet, DataEvent
  <2>9. events' \in Seq(PeerEvent \cup DataEvent)
    <3>1. events \in Seq(PeerEvent \cup DataEvent)
      BY DEF TypeOK
    <3>. QED BY <2>3, <2>7, <2>8, <3>1, EventAdded
  <2>10. TypeOK'
    BY <1>1, <2>3, <2>5, <2>6, <2>9 DEF TypeOK, network, server, players
  <2>11. ASSUME NEW q \in Peer \ {p} PROVE InSequence(q)'
    <3>1. FewerEvents(q)
      <4>1. CASE UNCHANGED events
        BY <4>1, SameFewer
      <4>2. ASSUME NEW c \in Replies(p, a), events' = Append(events, Packet(p, c))
            PROVE  FewerEvents(q)
        BY <2>7, <2>8, <4>2, PacketKinds, OtherEvent
      <4>. QED BY <2>3, <4>1, <4>2
    <3>. QED BY <1>3, <2>3, <2>5, <3>1, SameFewer, FewerKept DEF network
  <2>12. InSequence(p)'
    <3>1. /\ Occurs(toClient[p], Accepts) <=> a \in Accepts \/ Occurs(toClient'[p], Accepts)
          /\ Once(toClient[p], Accepts) <=>
                Once(toClient'[p], Accepts) /\ (a \in Accepts => ~Occurs(toClient'[p], Accepts))
      BY <2>1, <2>2, <2>3, <2>4, <2>5, TailOccurs
    <3>2. NoAccept(p)
      BY <3>1 DEF NoAccept
    <3>3. CASE UNCHANGED events
      BY <1>3, <2>3, <3>2, <3>3, SameFewer, FewerKept DEF network
    <3>4. ASSUME NEW c \in Replies(p, a), events' = Append(events, Packet(p, c))
          PROVE  InSequence(p)'
      <4>1. c \in Command /\ Packet(p, c) \in PeerEvent \cup DataEvent
        BY <2>7, <2>8
      <4>2. \A S : /\ Occurs(events', S) <=> Occurs(events, S) \/ Packet(p, c) \in S
                   /\ Once(events', S) <=>
                         Once(events, S) /\ (Packet(p, c) \in S => ~Occurs(events, S))
        BY <3>4, <4>1, EventAdded
      <4>3. CASE c = "INIT2"
        <5>1. /\ Packet(p, c) \in Init2Packet(p) /\ Packet(p, c) \notin ReadyPacket(p)
              /\ Packet(p, c) \notin AddedEvent(p)
          BY <4>3, PacketKinds
        <5>2. Init2Due(p) /\ a \in Accepts
          BY <2>7, <3>1, <4>3 DEF Init2Due
        <5>3. /\ Single(events, Init2Packet(p), toClient[p], Accepts) =>
                    Single(events', Init2Packet(p), toClient'[p], Accepts)
              /\ Single(events', AddedEvent(p), m_peer_change_queue', AddedEvent(p))
              /\ Announced(p)' => Announced(p)
              /\ Occurs(events', ReadyPacket(p)) => Occurs(events, ReadyPacket(p))
          BY <1>1, <3>1, <4>2, <5>1, <5>2 DEF InSequence, Single, Announced, server
        <5>. QED BY <1>3, <2>3, <5>2, <5>3 DEF InSequence, network
      <4>4. CASE c = "CLIENT_READY"
        <5>1. /\ Packet(p, c) \notin Init2Packet(p) /\ Packet(p, c) \notin AddedEvent(p)
              /\ p \notin Old
          BY <2>7, <4>4, PacketKinds
        <5>2. /\ Single(events, Init2Packet(p), toClient[p], Accepts) =>
                    Single(events', Init2Packet(p), toClient'[p], Accepts)
              /\ Single(events', AddedEvent(p), m_peer_change_queue', AddedEvent(p))
              /\ Announced(p)' => Announced(p)
              /\ Init2Due(p)' => Init2Due(p)
          BY <1>1, <3>1, <4>2, <5>1 DEF InSequence, Single, Announced, Init2Due, server
        <5>. QED BY <1>3, <2>3, <5>1, <5>2 DEF InSequence, network
      <4>5. CASE c \notin {"INIT2", "CLIENT_READY"}
        <5>1. FewerEvents(p)
          BY <3>4, <4>1, <4>5, PacketKinds, OtherEvent
        <5>. QED BY <1>3, <2>3, <3>2, <5>1, FewerKept DEF network
      <4>. QED BY <4>3, <4>4, <4>5
    <3>. QED BY <2>3, <3>3, <3>4
  <2>. QED BY <1>1, <1>2, <2>10, <2>11, <2>12
<1>. QED BY <1>4, <1>5, <1>7, <1>8, <1>9

\* Each step keeps types and sequence.
LEMMA HonestKept == IInv /\ HonestInv /\ [Next]_vars => HonestInv'
<1> SUFFICES ASSUME IInv, HonestInv, [Next]_vars PROVE HonestInv'
  OBVIOUS
<1>1. ASSUME UNCHANGED <<network, events, toClient, remote, server, players>>,
             thread' \in [pc : {"step", "changes", "receive", "join"},
                          peer : Peer \cup {PEER_ID_INEXISTENT}],
             thread' = thread \/ thread'.pc # "join"
      PROVE  HonestInv'
  <2>1. TypeOK'
    BY <1>1 DEF HonestInv, TypeOK, network, remote, server, players
  <2>2. \A p \in Peer : InSequence(p)'
    BY <1>1, SameFewer, FewerKept DEF HonestInv, network, server
  <2>3. (thread.pc = "join" => JoinsFrom(thread.peer))'
    BY <1>1 DEF HonestInv, JoinsFrom, server
  <2>. QED BY <2>1, <2>2, <2>3 DEF HonestInv
<1>2. CASE UNCHANGED vars
  BY <1>1, <1>2 DEF vars, HonestInv, TypeOK
<1>3. CASE ShortStep \/ LongStep \/ NoIncomingData \/ PeerNotFound
  BY <1>1, <1>3
  DEF ShortStep, LongStep, NoIncomingData, PeerNotFound, Back, HonestInv, TypeOK
<1>4. CASE handlePeerChanges
  BY <1>4, ChangesHonest
<1>5. CASE ReceivePeerEvent
  BY <1>5, PeerEventsHonest
<1>6. CASE ReceiveData
  BY <1>6, DataHonest
<1>7. CASE Joins
  BY <1>7, JoinsHonest DEF IInv
<1>8. ASSUME NEW p \in Peer,
             \/ Kick(p) \/ Connect(p) \/ PeerGone(p) \/ SendInit(p) \/ ClientReceives(p)
             \/ sendChangePassword(p)
      PROVE  HonestInv'
  BY <1>8, KickHonest, OutsideHonest
<1>. QED BY <1>2, <1>3, <1>4, <1>5, <1>6, <1>7, <1>8 DEF Next, ServerThread

\* Types are kept, and with them the promise that no step of an honest client, denied,
\* kicked or late, is a ClientStateError (ClientInterface::event, RemoteClient::notifyEvent).
THEOREM SessionsTypesCorrect == Spec => []TypeOK
<1>1. Init => HonestInv
  BY HonestInitially
<1>2. IInv /\ HonestInv /\ [Next]_vars => HonestInv'
  BY HonestKept
<1>3. HonestInv => TypeOK
  BY DEF HonestInv
<1>. QED BY <1>1, <1>2, <1>3, Invariant, PTL DEF Spec
=============================================================================
