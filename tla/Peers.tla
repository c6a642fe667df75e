------------------------------- MODULE Peers --------------------------------
(***************************************************************************)
(* The peers of a connection (network/connection.h, connection.cpp): how   *)
(* they are found, made, used and deleted by the receive thread, the send  *)
(* thread and the user's thread, and what the user is told of them.        *)
(*                                                                         *)
(* A peer is an object; the table has it under its id.  A PeerHelper       *)
(* counts as a use of the object and is named here by the variable of the  *)
(* code that it is.  Everything under m_peers_mutex or under the mutex of  *)
(* a peer is one step.  Events pass through a queue with one reader; as    *)
(* nothing here depends on when he reads it, he is told when it is put.    *)
(***************************************************************************)
EXTENDS Integers, Sequences, FiniteSets

CONSTANTS
    Address,
    MAX_UDP_PEERS,
    MaxDatagrams,    \* bound: datagrams that arrive, each of which may make a peer
    MaxUses          \* bound: calls of DisconnectPeer() and GetPeerAddress()

ASSUME PeersAssumption ==
    /\ Address # {}
    /\ MAX_UDP_PEERS \in Nat /\ MAX_UDP_PEERS > 2
    /\ {MaxDatagrams, MaxUses} \subseteq Nat

PEER_ID_INEXISTENT == 0
NULL   == 0
Id     == 0 .. MAX_UDP_PEERS
Peer   == 1 .. MaxDatagrams
Thread == {"send", "receive"}

\* The PeerHelpers of receive(), of the send thread and of GetPeerAddress().  Those of
\* processPacket() and rawSendAsPacket() begin and end while their caller's is there.
Helper == {"receive", "send", "user"}

VARIABLES
    m_peers, m_next_remote_peer_id,
    created,                     \* how many peers were made
    peer,                        \* id and address of each
    m_has_sent_with_id, m_pending_disconnect,           \* the peers that have it set
    m_usage, m_pending_deletion,
    freed,                       \* how often each was freed
    helper,                      \* what each PeerHelper holds
    erased, told,                \* the peer that a thread deletes; its event was put
    m_command_queue, m_outgoing_queue,
    receiving, sending,          \* where the threads are, with their local variables
    known, connected, event,     \* what the user has been told, event by event
    m_peer_id, offered,          \* the id a client has; peers whose id was sent to them
    m_shutting_down,             \* the user destroys the connection
    crashed,                     \* where the program has failed
    datagrams, uses              \* how many there were

table   == <<m_peers, m_next_remote_peer_id, created, peer>>
marks   == <<m_has_sent_with_id, m_pending_disconnect>>
life    == <<m_usage, m_pending_deletion, freed>>
delete  == <<erased, told>>
queues  == <<m_command_queue, m_outgoing_queue>>
threads == <<receiving, sending>>
user    == <<known, connected, event>>
clients == <<m_peer_id, offered>>
control == <<m_shutting_down, crashed>>
vars == <<table, marks, life, helper, delete, queues, threads, user, clients,
          control, datagrams, uses>>

Idle == [pc |-> "idle", id |-> PEER_ID_INEXISTENT, from |-> PEER_ID_INEXISTENT,
         address |-> CHOOSE a \in Address : TRUE, type |-> "DATA"]

Beginning == [pc |-> "run", peerIds |-> {}, chosen |-> {}, waiting |-> {}, left |-> 0]

NothingTold == [type |-> "NONE", id |-> 0]

Init ==
    /\ m_peers = [i \in Id |-> NULL] /\ m_next_remote_peer_id = 2
    /\ created = 0
    /\ peer = [p \in Peer |-> [id |-> 0, address |-> Idle.address]]
    /\ m_has_sent_with_id = {} /\ m_pending_disconnect = {}
    /\ m_usage = [p \in Peer |-> 0] /\ m_pending_deletion = {}
    /\ freed = [p \in Peer |-> 0]
    /\ helper = [h \in Helper |-> NULL]
    /\ erased = [t \in Thread |-> NULL] /\ told = {}
    /\ m_command_queue = <<>> /\ m_outgoing_queue = <<>>
    /\ receiving = Idle
    /\ sending = Beginning
    /\ known = {} /\ connected = {} /\ event = NothingTold
    /\ m_peer_id = [a \in Address |-> PEER_ID_INEXISTENT] /\ offered = {}
    /\ m_shutting_down = FALSE /\ crashed = "no" /\ datagrams = 0 /\ uses = 0

-----------------------------------------------------------------------------
(* Finding, making and deleting peers *)

InTable == {i \in Id : m_peers[i] # NULL}

\* Fault for NoUseAfterFree: a peer is freed although it is in use.
FreeIfUnusedAlways(p) == freed' = [freed EXCEPT ![p] = @ + 1]

FreeIfUnused(p) ==
    freed' = IF m_usage[p] = 0 THEN [freed EXCEPT ![p] = @ + 1] ELSE freed

\* Fault for TypeOK: the use is not counted.
getPeerNoExUncounted(h, i) ==
    /\ helper' = [helper EXCEPT ![h] = m_peers[i]]
    /\ UNCHANGED life

\* PeerHelper h of getPeerNoEx(i): IncUseCount(), unless the peer is to be deleted.
getPeerNoEx(h, i) ==
    LET p == IF m_peers[i] \in m_pending_deletion THEN NULL ELSE m_peers[i]
    IN  /\ helper' = [helper EXCEPT ![h] = p]
        /\ m_usage' = IF p = NULL THEN m_usage ELSE [m_usage EXCEPT ![p] = @ + 1]
        /\ UNCHANGED <<m_pending_deletion, freed>>

\* Fault for NothingLeaked: who is last does not free the peer.
DecUseCountOnly(h) ==
    LET p == helper[h]
    IN  /\ helper' = [helper EXCEPT ![h] = NULL]
        /\ m_usage' = [m_usage EXCEPT ![p] = @ - 1]
        /\ UNCHANGED <<freed, m_pending_deletion>>

DecUseCount(h) ==
    LET p == helper[h]
    IN  /\ helper' = [helper EXCEPT ![h] = NULL]
        /\ m_usage' = [m_usage EXCEPT ![p] = @ - 1]
        /\ freed' = IF p \in m_pending_deletion /\ m_usage[p] = 1
                    THEN [freed EXCEPT ![p] = @ + 1] ELSE freed
        /\ UNCHANGED m_pending_deletion

\* Fault for OnePeerEach: a peer that has not used its id yet is not found.
lookupPeerActive(a) ==
    LET found == {i \in InTable : m_peers[i] \in m_has_sent_with_id
                                  /\ peer[m_peers[i]].address = a}
    IN  IF found = {} THEN PEER_ID_INEXISTENT
        ELSE CHOOSE i \in found : \A j \in found : i =< j

lookupPeer(a) ==
    LET found == {i \in InTable : m_peers[i] \notin m_has_sent_with_id
                                  /\ peer[m_peers[i]].address = a}
    IN  IF found = {} THEN PEER_ID_INEXISTENT
        ELSE CHOOSE i \in found : \A j \in found : i =< j

\* The search goes up and does not wrap around.
FreeIds == (m_next_remote_peer_id .. MAX_UDP_PEERS) \ InTable

NewId == CHOOSE i \in FreeIds : \A j \in FreeIds : i =< j

putEvent(type, i) ==
    /\ event' = [type |-> type, id |-> i]
    /\ known' = IF type = "PEER_ADDED" THEN known \cup {i} ELSE known
    /\ connected' = IF type = "PEER_ADDED" THEN connected \cup {i}
                    ELSE IF type = "PEER_REMOVED" THEN connected \ {i} ELSE connected

putCommand(type, i) ==
    m_command_queue' = IF m_shutting_down THEN m_command_queue
                       ELSE Append(m_command_queue, [type |-> type, id |-> i])

\* Fault for ImplementsPeerEvents: the announcement is not made.
createPeerQuietly(a) ==
    /\ created' = created + 1
    /\ m_peers' = [m_peers EXCEPT ![NewId] = created + 1]
    /\ peer' = [peer EXCEPT ![created + 1] = [id |-> NewId, address |-> a]]
    /\ m_next_remote_peer_id' = (NewId + 1) % MAX_UDP_PEERS
    /\ putCommand("CREATE_PEER", NewId)
    /\ UNCHANGED user

\* Command and event are put under m_peers_mutex.
createPeer(a) ==
    /\ created' = created + 1
    /\ m_peers' = [m_peers EXCEPT ![NewId] = created + 1]
    /\ peer' = [peer EXCEPT ![created + 1] = [id |-> NewId, address |-> a]]
    /\ m_next_remote_peer_id' = (NewId + 1) % MAX_UDP_PEERS
    /\ putCommand("CREATE_PEER", NewId)
    /\ putEvent("PEER_ADDED", NewId)

\* deletePeer() in three steps, first: out of the table.
Erase(t, i) ==
    /\ erased' = [erased EXCEPT ![t] = m_peers[i]]
    /\ m_peers' = [m_peers EXCEPT ![i] = NULL]
    /\ UNCHANGED <<m_next_remote_peer_id, created, peer, told>>

DeletePeer(t, i) ==
    IF m_peers[i] = NULL THEN UNCHANGED <<table, delete>> ELSE Erase(t, i)

\* Second: the event.
PutRemoved(t) ==
    /\ erased[t] # NULL /\ t \notin told
    /\ told' = told \cup {t}
    /\ putEvent("PEER_REMOVED", peer[erased[t]].id)
    /\ UNCHANGED <<table, marks, life, helper, erased, queues, threads, clients, control,
                   datagrams, uses>>

\* Third: Drop().
Drop(t) ==
    /\ t \in told
    /\ m_pending_deletion' = m_pending_deletion \cup {erased[t]}
    /\ FreeIfUnused(erased[t])
    /\ erased' = [erased EXCEPT ![t] = NULL] /\ told' = told \ {t}
    /\ UNCHANGED <<table, marks, m_usage, helper, queues, threads, user, clients,
                   control, datagrams, uses>>

Ready(t) == crashed = "no" /\ erased[t] = NULL

-----------------------------------------------------------------------------
(* The receive thread *)

At(pc) == Ready("receive") /\ receiving.pc = pc

\* The ids a client may put in its datagrams: the one it has been given, if any, which
\* it never changes; none in a first packet, sent again or delayed.
IdsOf(a) ==
    {PEER_ID_INEXISTENT} \cup
    (IF m_peer_id[a] = PEER_ID_INEXISTENT
     THEN {peer[p].id : p \in {q \in offered : peer[q].address = a}}
     ELSE {m_peer_id[a]})

\* A datagram is read, and its peer looked up by address if it has no id.
Receive(a, from, type) ==
    /\ At("idle") /\ datagrams < MaxDatagrams /\ from \in IdsOf(a)
    /\ datagrams' = datagrams + 1
    /\ m_peer_id' = [m_peer_id EXCEPT ![a] = IF from = PEER_ID_INEXISTENT THEN @ ELSE from]
    /\ LET id == IF from = PEER_ID_INEXISTENT THEN lookupPeer(a) ELSE from
       IN  receiving' = [pc |-> IF id = PEER_ID_INEXISTENT THEN "create" ELSE "get",
                         id |-> id, from |-> from, address |-> a, type |-> type]
    /\ UNCHANGED <<table, marks, life, helper, delete, queues, sending, user, offered,
                   control, uses>>

CreatePeer ==
    /\ At("create")
    /\ IF FreeIds = {} THEN UNCHANGED <<table, m_command_queue, user>>
                       ELSE createPeer(receiving.address)
    /\ receiving' = [receiving EXCEPT !.pc = "get",
                                      !.id = IF FreeIds = {} THEN @ ELSE NewId]
    /\ UNCHANGED <<marks, life, helper, delete, m_outgoing_queue, sending, clients,
                   control, datagrams, uses>>

\* receive() gets the peer and validates its address.
GetPeer ==
    /\ At("get")
    /\ LET p == m_peers[receiving.id]
           valid == p # NULL /\ peer[p].address = receiving.address
       IN  \/ /\ valid
              /\ getPeerNoEx("receive", receiving.id)
              /\ m_has_sent_with_id' = IF receiving.from = PEER_ID_INEXISTENT
                                       THEN m_has_sent_with_id ELSE m_has_sent_with_id \cup {p}
              /\ receiving' = [Idle EXCEPT !.pc = "process", !.id = receiving.id,
                                           !.type = receiving.type]
           \/ /\ ~ valid
              /\ receiving' = Idle
              /\ UNCHANGED <<life, helper, m_has_sent_with_id>>
    /\ UNCHANGED <<table, m_pending_disconnect, delete, queues, sending, user, clients,
                   control, datagrams, uses>>

\* processPacket() gets the peer again, which may be gone.
PeerGone ==
    /\ At("process") /\ m_peers[receiving.id] = NULL
    /\ receiving' = [Idle EXCEPT !.pc = "release"]
    /\ UNCHANGED <<table, marks, life, helper, delete, queues, sending, user, clients,
                   control, datagrams, uses>>

\* Data is acknowledged; it is handed over unless it came before.
Data ==
    /\ At("process") /\ receiving.type = "DATA" /\ m_peers[receiving.id] # NULL
    /\ putCommand("ACK", receiving.id)
    /\ \/ receiving' = [receiving EXCEPT !.pc = "event"]
       \/ receiving' = [Idle EXCEPT !.pc = "release"]
    /\ UNCHANGED <<table, marks, life, helper, delete, m_outgoing_queue, sending, user,
                   clients, control, datagrams, uses>>

\* The event is put when processPacket() has returned.
PutData ==
    /\ At("event")
    /\ putEvent("DATA_RECEIVED", receiving.id)
    /\ receiving' = [Idle EXCEPT !.pc = "release"]
    /\ UNCHANGED <<table, marks, life, helper, delete, queues, sending, clients, control,
                   datagrams, uses>>

Disco ==
    /\ At("process") /\ receiving.type = "DISCO" /\ m_peers[receiving.id] # NULL
    /\ DeletePeer("receive", receiving.id)
    /\ receiving' = [Idle EXCEPT !.pc = "release"]
    /\ UNCHANGED <<marks, life, helper, queues, sending, user, clients, control,
                   datagrams, uses>>

\* The turn of receive() ends.
Release ==
    /\ At("release")
    /\ DecUseCount("receive")
    /\ receiving' = Idle
    /\ UNCHANGED <<table, marks, delete, queues, sending, user, clients, control,
                   datagrams, uses>>

ReceiveEnds ==
    /\ At("idle") /\ m_shutting_down
    /\ receiving' = [receiving EXCEPT !.pc = "ended"]
    /\ UNCHANGED <<table, marks, life, helper, delete, queues, sending, user, clients,
                   control, datagrams, uses>>

ReceiveSteps ==
    \/ CreatePeer \/ GetPeer \/ PeerGone \/ Data \/ PutData \/ Disco \/ Release
    \/ ReceiveEnds

ReceiveThread ==
    \/ ReceiveSteps
    \/ \E a \in Address, from \in Id, type \in {"DATA", "DISCO"} : Receive(a, from, type)

-----------------------------------------------------------------------------
(* The send thread *)

SendAt(pc) == Ready("send") /\ sending.pc = pc

\* The loops of runTimeouts() and sendPackets(), over a copy of the ids; in the second
\* one, also over the packets queued.
Begin(pc, next, packets) ==
    /\ SendAt(pc)
    /\ sending' = [Beginning EXCEPT !.pc = next, !.peerIds = InTable, !.left = packets]
    /\ UNCHANGED <<table, marks, life, helper, delete, queues, receiving, user, clients,
                   control, datagrams, uses>>

NextPeer(pc, next) ==
    /\ SendAt(pc)
    /\ \E i \in sending.peerIds :
          /\ getPeerNoEx("send", i)
          /\ sending' = [sending EXCEPT !.peerIds = @ \ {i},
                                        !.pc = IF helper'["send"] = NULL THEN @ ELSE next]
    /\ UNCHANGED <<table, marks, delete, queues, receiving, user, clients, control,
                   datagrams, uses>>

\* A peer is chosen by its id.
Choose(pc, ids) ==
    /\ DecUseCount("send")
    /\ sending' = [sending EXCEPT !.pc = pc, !.chosen = @ \cup ids]
    /\ UNCHANGED <<table, marks, delete, queues, receiving, user, clients, control,
                   datagrams, uses>>

\* Fault for AllGoneInTheEnd: the peer does not get into the list.
TimedOutIgnored == SendAt("timeout") /\ Choose("runTimeouts", {})

TimedOut == SendAt("timeout") /\ Choose("runTimeouts", {peer[helper["send"]].id})

NotTimedOut == SendAt("timeout") /\ InTable # {} /\ Choose("runTimeouts", {})

\* numpeers == 0: runTimeouts() returns.
NoPeers ==
    /\ SendAt("timeout") /\ InTable = {}
    /\ DecUseCount("send")
    /\ sending' = [Beginning EXCEPT !.pc = "commands"]
    /\ UNCHANGED <<table, marks, delete, queues, receiving, user, clients, control,
                   datagrams, uses>>

\* Then the chosen ones are deleted, unless they have packets waiting.
DeleteChosen(pc) ==
    /\ SendAt(pc) /\ sending.peerIds = {} /\ sending.left = 0
    /\ \E i \in sending.chosen :
          /\ IF i \in sending.waiting THEN UNCHANGED <<table, delete>> ELSE DeletePeer("send", i)
          /\ sending' = [sending EXCEPT !.chosen = @ \ {i}]
    /\ UNCHANGED <<marks, life, helper, queues, receiving, user, clients, control,
                   datagrams, uses>>

Proceed(pc, next) ==
    /\ SendAt(pc) /\ sending.peerIds = {} /\ sending.left = 0 /\ sending.chosen = {}
    /\ sending' = [Beginning EXCEPT !.pc = next]
    /\ UNCHANGED <<table, marks, life, helper, delete, queues, receiving, user, clients,
                   control, datagrams, uses>>

\* A command is taken; rawSendAsPacket() or disconnect_peer() gets the peer.
Command ==
    /\ SendAt("commands") /\ m_command_queue # <<>>
    /\ LET c == Head(m_command_queue)
       IN  /\ m_command_queue' = Tail(m_command_queue)
           /\ m_outgoing_queue' =
                 IF c.type = "CREATE_PEER" THEN m_outgoing_queue
                 ELSE Append(m_outgoing_queue, [id |-> c.id, ack |-> c.type = "ACK"])
           /\ IF c.type = "ACK" THEN UNCHANGED <<helper, life>> ELSE getPeerNoEx("send", c.id)
           /\ sending' = [sending EXCEPT !.pc =
                             IF c.type # "ACK" /\ helper'["send"] # NULL THEN c.type ELSE @]
    /\ UNCHANGED <<table, marks, delete, receiving, user, clients, control,
                   datagrams, uses>>

\* SET_PEER_ID is sent.
OfferId ==
    /\ SendAt("CREATE_PEER")
    /\ offered' = offered \cup {helper["send"]}
    /\ DecUseCount("send")
    /\ sending' = [sending EXCEPT !.pc = "commands"]
    /\ UNCHANGED <<table, marks, delete, queues, receiving, user, m_peer_id, control,
                   datagrams, uses>>

MarkDisconnect ==
    /\ SendAt("DISCONNECT_PEER")
    /\ m_pending_disconnect' = m_pending_disconnect \cup {helper["send"]}
    /\ DecUseCount("send")
    /\ sending' = [sending EXCEPT !.pc = "commands"]
    /\ UNCHANGED <<table, m_has_sent_with_id, delete, queues, receiving, user, clients,
                   control, datagrams, uses>>

\* sendPackets() divides the quota by the number of peers.
Quota ==
    /\ SendAt("quota") /\ InTable # {}
    /\ Choose("sendPackets", IF helper["send"] \in m_pending_disconnect
                             THEN {peer[helper["send"]].id} ELSE {})

QuotaOfNone ==
    /\ SendAt("quota") /\ InTable = {}
    /\ crashed' = "quota"
    /\ UNCHANGED <<table, marks, life, helper, delete, queues, threads, user, clients,
                   m_shutting_down, datagrams, uses>>

\* A packet whose peer is gone is dropped, any other is kept or sent.
Outgoing ==
    /\ SendAt("sendPackets") /\ sending.peerIds = {} /\ sending.left > 0
    /\ getPeerNoEx("send", Head(m_outgoing_queue).id)
    /\ IF helper'["send"] = NULL
       THEN /\ m_outgoing_queue' = Tail(m_outgoing_queue)
            /\ sending' = [sending EXCEPT !.left = @ - 1]
       ELSE /\ sending' = [sending EXCEPT !.pc = "packet"]
            /\ UNCHANGED m_outgoing_queue
    /\ UNCHANGED <<table, marks, delete, m_command_queue, receiving, user,
                   clients, control, datagrams, uses>>

\* The quota of the peer is used up.
Keep ==
    /\ SendAt("packet") /\ ~ Head(m_outgoing_queue).ack /\ ~ m_shutting_down
    /\ m_outgoing_queue' = Append(Tail(m_outgoing_queue), Head(m_outgoing_queue))
    /\ DecUseCount("send")
    /\ sending' = [sending EXCEPT !.pc = "sendPackets", !.left = @ - 1,
                                  !.waiting = @ \cup {Head(m_outgoing_queue).id}]
    /\ UNCHANGED <<table, marks, delete, m_command_queue, receiving, user,
                   clients, control, datagrams, uses>>

\* rawSendAsPacket() gets the peer again and does not stand it being gone.  (Its own
\* PeerHelper ends before this one.)
RawSend ==
    /\ SendAt("packet")
    /\ \/ /\ m_peers[Head(m_outgoing_queue).id] = NULL
          /\ crashed' = "rawSend"
          /\ UNCHANGED <<helper, life, m_outgoing_queue, sending>>
       \/ /\ m_peers[Head(m_outgoing_queue).id] # NULL
          /\ DecUseCount("send")
          /\ m_outgoing_queue' = Tail(m_outgoing_queue)
          /\ sending' = [sending EXCEPT !.pc = "sendPackets", !.left = @ - 1]
          /\ UNCHANGED crashed
    /\ UNCHANGED <<table, marks, delete, m_command_queue, receiving, user, clients,
                   m_shutting_down, datagrams, uses>>

packetsQueued == m_outgoing_queue # <<>> /\ InTable # {}

SendEnds ==
    /\ SendAt("run") /\ m_shutting_down /\ ~ packetsQueued
    /\ sending' = [sending EXCEPT !.pc = "ended"]
    /\ UNCHANGED <<table, marks, life, helper, delete, queues, receiving, user, clients,
                   control, datagrams, uses>>

SendThread ==
    \/ (~ m_shutting_down \/ packetsQueued) /\ Begin("run", "runTimeouts", 0)
    \/ NextPeer("runTimeouts", "timeout") \/ TimedOut \/ NotTimedOut \/ NoPeers
    \/ DeleteChosen("runTimeouts") \/ Proceed("runTimeouts", "commands")
    \/ Command \/ OfferId \/ MarkDisconnect
    \/ m_command_queue = <<>> /\ Begin("commands", "sendPackets", Len(m_outgoing_queue))
    \/ NextPeer("sendPackets", "quota") \/ Quota \/ QuotaOfNone
    \/ Outgoing \/ Keep \/ RawSend
    \/ DeleteChosen("sendPackets") \/ Proceed("sendPackets", "run")
    \/ SendEnds

-----------------------------------------------------------------------------
(* The user's thread *)

UserReady == crashed = "no" /\ ~ m_shutting_down /\ helper["user"] = NULL

\* The user may not know yet that the peer is gone.
DisconnectPeer(i) ==
    /\ UserReady /\ uses < MaxUses /\ i \in known
    /\ uses' = uses + 1
    /\ putCommand("DISCONNECT_PEER", i)
    /\ UNCHANGED <<table, marks, life, helper, delete, m_outgoing_queue,
                   threads, user, clients, control, datagrams>>

GetPeerAddress(i) ==
    /\ UserReady /\ uses < MaxUses /\ i \in known
    /\ uses' = uses + 1
    /\ getPeerNoEx("user", i)
    /\ UNCHANGED <<table, marks, delete, queues, threads, user, clients, control, datagrams>>

GotPeerAddress ==
    /\ crashed = "no" /\ helper["user"] # NULL
    /\ DecUseCount("user")
    /\ UNCHANGED <<table, marks, delete, queues, threads, user, clients, control,
                   datagrams, uses>>

\* ~Connection(): the threads are told to stop and waited for, the peers deleted.
Stop ==
    /\ UserReady
    /\ m_shutting_down' = TRUE
    /\ UNCHANGED <<table, marks, life, helper, delete, queues, threads, user, clients,
                   crashed, datagrams, uses>>

Destroyed == receiving.pc = "ended" /\ sending.pc = "ended" /\ InTable = {}

Destroy ==
    /\ receiving.pc = "ended" /\ sending.pc = "ended" /\ InTable # {}
    /\ freed' = [p \in Peer |-> freed[p] + Cardinality({i \in Id : m_peers[i] = p})]
    /\ m_peers' = [i \in Id |-> NULL]
    /\ UNCHANGED <<m_next_remote_peer_id, created, peer, marks, m_usage, m_pending_deletion,
                   helper, delete, queues, threads, user, clients, control, datagrams, uses>>

User ==
    \/ \E i \in Id : DisconnectPeer(i) \/ GetPeerAddress(i)
    \/ GotPeerAddress \/ Stop \/ Destroy

-----------------------------------------------------------------------------
Next ==
    \/ ReceiveThread \/ SendThread \/ User
    \/ \E t \in Thread : PutRemoved(t) \/ Drop(t)

Spec == Init /\ [][Next]_vars

\* The threads go on, and a peer that is no longer heard of
\* times out at some turn.
Fairness ==
    /\ WF_vars(ReceiveSteps) /\ WF_vars(SendThread) /\ SF_vars(TimedOut)
    /\ WF_vars(GotPeerAddress) /\ WF_vars(Destroy)
    /\ \A t \in Thread : WF_vars(PutRemoved(t) \/ Drop(t))

FairSpec == Spec /\ Fairness

-----------------------------------------------------------------------------
(* Properties *)

\* Every variable has its type.
TypeOK ==
    /\ m_peers \in [Id -> Peer \cup {NULL}] /\ m_next_remote_peer_id \in Id
    /\ created \in Peer \cup {0} /\ peer \in [Peer -> [id : Id, address : Address]]
    /\ m_has_sent_with_id \subseteq Peer /\ m_pending_disconnect \subseteq Peer
    /\ m_usage \in [Peer -> Nat] /\ m_pending_deletion \subseteq Peer
    /\ freed \in [Peer -> Nat]
    /\ helper \in [Helper -> Peer \cup {NULL}]
    /\ erased \in [Thread -> Peer \cup {NULL}] /\ told \subseteq Thread
    /\ m_command_queue \in Seq([type : {"CREATE_PEER", "DISCONNECT_PEER", "ACK"}, id : Id])
    /\ m_outgoing_queue \in Seq([id : Id, ack : BOOLEAN])
    /\ receiving \in [pc : {"idle", "create", "get", "process", "event",
                            "release", "ended"},
                      id : Id, from : Id, address : Address, type : {"DATA", "DISCO"}]
    /\ sending \in [pc : {"run", "runTimeouts", "timeout", "commands", "CREATE_PEER",
                          "DISCONNECT_PEER", "sendPackets", "quota", "packet",
                          "ended"},
                    peerIds : SUBSET Id, chosen : SUBSET Id, waiting : SUBSET Id, left : Nat]
    /\ known \subseteq Id /\ connected \subseteq Id
    /\ event \in [type : {"NONE", "PEER_ADDED", "DATA_RECEIVED", "PEER_REMOVED"}, id : Id]
    /\ m_peer_id \in [Address -> Id] /\ offered \subseteq Peer
    /\ m_shutting_down \in BOOLEAN /\ crashed \in {"no", "quota", "rawSend"}
    /\ datagrams \in 0 .. MaxDatagrams /\ uses \in 0 .. MaxUses

Using(p) == {h \in Helper : helper[h] = p}

InUse(p) ==
    \/ \E i \in Id : m_peers[i] = p
    \/ \E t \in Thread : erased[t] = p
    \/ \E h \in Helper : helper[h] = p

\* No thread has, or can get, a peer that was freed; a peer is freed once; and its use
\* count is the number of its uses, so ~Peer() never finds it to be other than 0.
NoUseAfterFree ==
    \A p \in Peer :
       /\ InUse(p) => freed[p] = 0
       /\ freed[p] =< 1
       /\ m_usage[p] = Cardinality(Using(p))

\* A peer that is in no table and that no thread has was freed, whichever thread was last.
NothingLeaked == \A p \in 1 .. created : InUse(p) \/ freed[p] = 1

\* One address has at most one peer that uses its id and one that does not: however often
\* a first packet comes again, no third peer is made.
OnePeerEach ==
    \A i, j \in InTable :
       i # j /\ peer[m_peers[i]].address = peer[m_peers[j]].address
       => (m_peers[i] \in m_has_sent_with_id) # (m_peers[j] \in m_has_sent_with_id)

\* The user is told of each peer that it was added, then of its data, then that it was
\* removed, whichever threads put these events.
Promise == INSTANCE PeerEvents
ImplementsPeerEvents == Promise!Spec

\* Every peer, also one made by a late copy of a first packet, is removed and freed in
\* the end, and the user is told; or he destroys the connection, and that ends.
AllGoneInTheEnd ==
    <>[](\/ crashed # "no"
         \/ /\ \A p \in 1 .. created : freed[p] = 1
            /\ IF m_shutting_down THEN Destroyed ELSE connected = {})

\* rawSendAsPacket() declares a packet to a peer that is gone a fatal error: it is never met.
RawSendFindsPeer == crashed # "rawSend"
=============================================================================
