------------------------------ MODULE Sessions ------------------------------
(***************************************************************************)
(* How a peer becomes a client, a client a player, and how each goes away  *)
(* again (server.cpp, clientiface.cpp, network/serverpackethandler.cpp).   *)
(*                                                                         *)
(* One server thread alternates AsyncRunStep(), which turns peer changes   *)
(* into clients when time has passed, and Receive(), which takes events    *)
(* from the connection up to the first packet and handles that one.  The   *)
(* threads of the connection add events and remove peers meanwhile.  A     *)
(* client repeats its first packet every two seconds until it is answered; *)
(* everything else is sent once.                                           *)
(***************************************************************************)
EXTENDS Naturals, Sequences, FiniteSets

CONSTANTS
    Peer,                  \* peer ids, each used for one connection
    Name,                  \* player names
    Old,                   \* the peers whose client has protocol version 22 or less
    PEER_ID_INEXISTENT,
    MaxChanges             \* password changes tried, all clients together

ASSUME SessionsAssumption ==
    /\ Old \subseteq Peer
    /\ PEER_ID_INEXISTENT \notin Peer
    /\ MaxChanges \in Nat

VARIABLES
    connection,            \* what the connection knows of a peer
    events,                \* its event queue, to the server
    disconnects,           \* DisconnectPeer() commands not carried out
    toClient,              \* answers on their way to each client
    localState,            \* m_state of each client program
    playername,            \* the name each client asks for
    changes,               \* password changes tried
    thread,                \* where the server thread is
    m_peer_change_queue,
    m_state,               \* of the RemoteClient; CS_Invalid if there is none
    chosen_mech,
    peer_id,               \* of the players
    joined                 \* peers between on_joinplayer and on_leaveplayer

network == <<connection, disconnects>>
remote == <<localState, playername, changes>>
server == <<m_peer_change_queue, m_state, chosen_mech>>
players == <<peer_id, joined>>
vars == <<network, events, toClient, remote, thread, server, players>>

\* In the order of the enum, which the handlers compare by.
ClientState == <<"CS_Invalid", "CS_Disconnecting", "CS_Denied", "CS_Created",
                 "CS_AwaitingInit2", "CS_HelloSent", "CS_InitDone",
                 "CS_DefinitionsSent", "CS_Active", "CS_SudoMode">>

AtLeast(s, min_state) ==
    \E i, j \in DOMAIN ClientState :
        i >= j /\ ClientState[i] = s /\ ClientState[j] = min_state

Command == {"INIT", "INIT_LEGACY", "FIRST_SRP", "SRP_BYTES_A", "SRP_BYTES_M", "INIT2",
            "CLIENT_READY"}
Answer == {"HELLO", "SRP_BYTES_S_B", "AUTH_ACCEPT", "INIT_LEGACY", "DEFINITIONS",
           "ACCEPT_SUDO_MODE", "DENY_SUDO_MODE", "ACCESS_DENIED"}
PeerEvent == [type : {"PEER_ADDED", "PEER_REMOVED"}, peer : Peer]
DataEvent == [type : {"DATA_RECEIVED"}, peer : Peer, command : Command]

Init ==
    /\ connection = [p \in Peer |-> "none"]
    /\ events = <<>>
    /\ disconnects = {}
    /\ toClient = [p \in Peer |-> <<>>]
    /\ localState = [p \in Peer |-> "LC_Created"]
    /\ playername \in [Peer -> Name]
    /\ changes = 0
    /\ thread = [pc |-> "step", peer |-> PEER_ID_INEXISTENT]
    /\ m_peer_change_queue = <<>>
    /\ m_state = [p \in Peer |-> "CS_Invalid"]
    /\ chosen_mech = [p \in Peer |-> "NONE"]
    /\ peer_id = [n \in Name |-> PEER_ID_INEXISTENT]
    /\ joined = {}

-----------------------------------------------------------------------------
(* The client state machine *)

\* The transitions of notifyEvent(); ClientStateError is the exception.
Transition(s, event) ==
    CASE event = "CSE_SetDenied" -> "CS_Denied"
      [] event = "CSE_Disconnect" -> "CS_Disconnecting"
      [] s = "CS_Created" /\ event = "CSE_Hello" -> "CS_HelloSent"
      [] s = "CS_Created" /\ event = "CSE_InitLegacy" -> "CS_AwaitingInit2"
      [] s = "CS_HelloSent" /\ event = "CSE_AuthAccept" -> "CS_AwaitingInit2"
      [] s = "CS_AwaitingInit2" /\ event = "CSE_GotInit2" -> "CS_InitDone"
      [] s = "CS_InitDone" /\ event = "CSE_SetDefinitionsSent" -> "CS_DefinitionsSent"
      [] s = "CS_DefinitionsSent" /\ event = "CSE_SetClientReady" -> "CS_Active"
      [] s = "CS_Active" /\ event = "CSE_SudoSuccess" -> "CS_SudoMode"
      [] s = "CS_SudoMode" /\ event = "CSE_SudoLeave" -> "CS_Active"
      [] OTHER -> "ClientStateError"

\* Fault for TypeOK: a denied client that still sends is an error.
notifyEventStrict(s, event) ==
    IF s \in {"CS_Invalid", "CS_Disconnecting"} THEN s ELSE Transition(s, event)

\* A client that is denied or disconnecting stays so.
notifyEvent(s, event) ==
    IF s \in {"CS_Invalid", "CS_Denied", "CS_Disconnecting"} THEN s ELSE Transition(s, event)

Notify(p, event) == m_state' = [m_state EXCEPT ![p] = notifyEvent(@, event)]

\* An authentication that ends lets go of its verifier.
EndsAuth(p) == chosen_mech' = [chosen_mech EXCEPT ![p] = "NONE"]

\* Answers to a peer that is gone are dropped.
Send(p, answer) ==
    toClient' = IF connection[p] = "up" THEN [toClient EXCEPT ![p] = Append(@, answer)]
                                        ELSE toClient

\* A second denial sends its message again, which is left out here.
DenyAccess(p) ==
    /\ IF p \in disconnects THEN UNCHANGED toClient ELSE Send(p, "ACCESS_DENIED")
    /\ Notify(p, "CSE_SetDenied")
    /\ IF m_state[p] = "CS_HelloSent" THEN EndsAuth(p) ELSE UNCHANGED chosen_mech
    /\ disconnects' = disconnects \cup {p}

-----------------------------------------------------------------------------
(* Joining: from a client to a player *)

Holds(p) == \E n \in Name : peer_id[n] = p

Back == thread' = [pc |-> "step", peer |-> PEER_ID_INEXISTENT]

\* Fault for ActiveHasPlayer: the name is not looked up among the players.
emergePlayerAnyway(p) == ~Holds(p)

\* Whether emergePlayer() gives the peer the player of its name.
emergePlayer(p) == peer_id[playername[p]] = PEER_ID_INEXISTENT /\ ~Holds(p)

\* The player is allocated; the rest follows in Joins or PeerNotFound.
StageTwoClientInit(p, s) ==
    IF AtLeast(s, "CS_InitDone") /\ emergePlayer(p)
    THEN /\ peer_id' = [peer_id EXCEPT ![playername[p]] = p]
         /\ m_state' = [m_state EXCEPT ![p] = s]
         /\ thread' = [pc |-> "join", peer |-> p]
         /\ UNCHANGED <<toClient, chosen_mech, disconnects>>
    ELSE DenyAccess(p) /\ Back /\ UNCHANGED peer_id

\* The peer is still there: the client is made ready, and the scripts are told.
Joins ==
    LET p == thread.peer
        s == IF p \in Old THEN notifyEvent(m_state[p], "CSE_SetDefinitionsSent")
                          ELSE m_state[p]
    IN  /\ thread.pc = "join" /\ connection[p] = "up"
        /\ m_state' = [m_state EXCEPT ![p] = notifyEvent(s, "CSE_SetClientReady")]
        /\ IF p \in Old THEN Send(p, "DEFINITIONS") ELSE UNCHANGED toClient
        /\ joined' = joined \cup {p}
        /\ Back
        /\ UNCHANGED <<network, events, remote, m_peer_change_queue, chosen_mech, peer_id>>

\* The peer went away since the packet was taken up: getPeerAddress() throws
\* past the rest of the handler, on_joinplayer included.
PeerNotFound ==
    /\ thread.pc = "join" /\ connection[thread.peer] # "up"
    /\ Back
    /\ UNCHANGED <<network, events, toClient, remote, server, players>>

-----------------------------------------------------------------------------
(* The packets *)

Ignore == UNCHANGED <<toClient, m_state, chosen_mech, disconnects>>

\* Refused for its version, its name, the number of users or by a script, or
\* asked for its password.
HandleInit(p) ==
    IF m_state[p] # "CS_Created" THEN Ignore
    ELSE \/ DenyAccess(p)
         \/ Send(p, "HELLO") /\ Notify(p, "CSE_Hello") /\ UNCHANGED <<chosen_mech, disconnects>>

\* An old client's first packet has the password.  A name in use is refused,
\* and the answer is sent all the same.
HandleInitLegacy(p) ==
    IF m_state[p] # "CS_Created" THEN Ignore
    ELSE \/ DenyAccess(p)
         \/ /\ peer_id[playername[p]] = PEER_ID_INEXISTENT
            /\ Send(p, "INIT_LEGACY") /\ Notify(p, "CSE_InitLegacy")
            /\ UNCHANGED <<chosen_mech, disconnects>>
         \/ /\ peer_id[playername[p]] # PEER_ID_INEXISTENT
            /\ toClient' = [toClient EXCEPT ![p] = @ \o <<"ACCESS_DENIED", "INIT_LEGACY">>]
            /\ Notify(p, "CSE_SetDenied") /\ disconnects' = disconnects \cup {p}
            /\ UNCHANGED chosen_mech

acceptAuth(p) ==
    /\ Send(p, "AUTH_ACCEPT") /\ Notify(p, "CSE_AuthAccept") /\ EndsAuth(p)
    /\ UNCHANGED disconnects

\* A first password, or a new one in sudo mode.
HandleFirstSrp(p) ==
    \/ m_state[p] = "CS_HelloSent" /\ (acceptAuth(p) \/ DenyAccess(p))
    \/ /\ m_state[p] = "CS_SudoMode"
       /\ Notify(p, "CSE_SudoLeave") /\ UNCHANGED <<toClient, chosen_mech, disconnects>>
    \/ m_state[p] \notin {"CS_HelloSent", "CS_SudoMode"} /\ Ignore

\* A failed proof denies an active client sudo mode, another all access.
Fail(p) ==
    IF m_state[p] = "CS_Active"
    THEN Send(p, "DENY_SUDO_MODE") /\ UNCHANGED <<m_state, chosen_mech, disconnects>>
    ELSE DenyAccess(p)

Proves(p) == m_state[p] \in {"CS_HelloSent", "CS_Active"}

\* Refused while an authentication is going on, and never begun anew in a session
\* whose sudo mode was denied: DenySudoAccess() leaves chosen_mech.
HandleSrpBytesA(p) ==
    \/ ~Proves(p) /\ Ignore
    \/ Proves(p) /\ chosen_mech[p] # "NONE" /\ Fail(p)
    \/ /\ Proves(p) /\ chosen_mech[p] = "NONE"
       /\ chosen_mech' = [chosen_mech EXCEPT ![p] = "SRP"]
       /\ Send(p, "SRP_BYTES_S_B")
       /\ UNCHANGED <<m_state, disconnects>>

\* The password is wrong or right.
HandleSrpBytesM(p) ==
    \/ ~Proves(p) /\ Ignore
    \/ Proves(p) /\ Fail(p)
    \/ m_state[p] = "CS_HelloSent" /\ chosen_mech[p] # "NONE" /\ acceptAuth(p)
    \/ /\ m_state[p] = "CS_Active" /\ chosen_mech[p] # "NONE"
       /\ Send(p, "ACCEPT_SUDO_MODE") /\ Notify(p, "CSE_SudoSuccess") /\ EndsAuth(p)
       /\ UNCHANGED disconnects

Stays(handler) == handler /\ Back /\ UNCHANGED peer_id

\* An old client becomes a player at once, another is sent the definitions first.
HandleInit2(p) ==
    LET s == notifyEvent(m_state[p], "CSE_GotInit2")
    IN  IF p \in Old THEN StageTwoClientInit(p, s)
        ELSE /\ m_state' = [m_state EXCEPT ![p] = notifyEvent(s, "CSE_SetDefinitionsSent")]
             /\ Send(p, "DEFINITIONS") /\ Back
             /\ UNCHANGED <<chosen_mech, disconnects, peer_id>>

\* Only for a client that has got so far.
HandleClientReady(p) ==
    IF AtLeast(m_state[p], "CS_InitDone") THEN StageTwoClientInit(p, m_state[p])
                                          ELSE Stays(Ignore)

\* A packet of a peer that is gone is dropped; one from a banned address is answered
\* with a denial; else its handler runs.
ProcessData(p, command) ==
    \/ connection[p] # "up" /\ Stays(Ignore)
    \/ connection[p] = "up" /\ Stays(DenyAccess(p))
    \/ /\ connection[p] = "up"
       /\ \/ command = "INIT" /\ Stays(HandleInit(p))
          \/ command = "INIT_LEGACY" /\ Stays(HandleInitLegacy(p))
          \/ command = "FIRST_SRP" /\ Stays(HandleFirstSrp(p))
          \/ command = "SRP_BYTES_A" /\ Stays(HandleSrpBytesA(p))
          \/ command = "SRP_BYTES_M" /\ Stays(HandleSrpBytesM(p))
          \/ command = "INIT2" /\ HandleInit2(p)
          \/ command = "CLIENT_READY" /\ HandleClientReady(p)

-----------------------------------------------------------------------------
(* The server thread *)

\* AsyncRunStep() returns early when no time has passed since the last step.
ShortStep ==
    /\ thread.pc = "step"
    /\ thread' = [thread EXCEPT !.pc = "receive"]
    /\ UNCHANGED <<network, events, toClient, remote, server, players>>

LongStep ==
    /\ thread.pc = "step"
    /\ thread' = [thread EXCEPT !.pc = "changes"]
    /\ UNCHANGED <<network, events, toClient, remote, server, players>>

CreateClient(p) ==
    /\ m_state' = [m_state EXCEPT ![p] = IF @ = "CS_Invalid" THEN "CS_Created" ELSE @]
    /\ UNCHANGED <<chosen_mech, players>>

\* Fault for EveryPlayerHasItsClient: the player is left to its peer.
DeleteClientOnly(p) ==
    /\ joined' = joined \ {p}
    /\ m_state' = [m_state EXCEPT ![p] = "CS_Invalid"]
    /\ EndsAuth(p)
    /\ UNCHANGED peer_id

\* Fault for HeldUntilGone: the player is looked up by the name of the client.
DeleteClientByName(p) ==
    /\ peer_id' = [peer_id EXCEPT ![playername[p]] = PEER_ID_INEXISTENT]
    /\ joined' = joined \ {p}
    /\ m_state' = [m_state EXCEPT ![p] = "CS_Invalid"]
    /\ EndsAuth(p)

\* The player of the peer, if there is one, leaves.
DeleteClient(p) ==
    /\ peer_id' = [n \in Name |-> IF peer_id[n] = p THEN PEER_ID_INEXISTENT ELSE peer_id[n]]
    /\ joined' = joined \ {p}
    /\ m_state' = [m_state EXCEPT ![p] = "CS_Invalid"]
    /\ EndsAuth(p)

handlePeerChanges ==
    /\ thread.pc = "changes"
    /\ IF m_peer_change_queue = <<>>
       THEN /\ thread' = [thread EXCEPT !.pc = "receive"]
            /\ UNCHANGED <<server, players>>
       ELSE LET c == Head(m_peer_change_queue)
            IN  /\ IF c.type = "PEER_ADDED" THEN CreateClient(c.peer) ELSE DeleteClient(c.peer)
                /\ m_peer_change_queue' = Tail(m_peer_change_queue)
                /\ UNCHANGED thread
    /\ UNCHANGED <<network, events, toClient, remote>>

peerAdded(p) ==
    /\ m_peer_change_queue' =
           Append(m_peer_change_queue, [type |-> "PEER_ADDED", peer |-> p])
    /\ UNCHANGED m_state

\* Fault for SettledInTheEnd: the client is marked, and left to be found later.
deletingPeerMarks(p) ==
    /\ Notify(p, "CSE_Disconnect")
    /\ UNCHANGED m_peer_change_queue

deletingPeer(p) ==
    /\ Notify(p, "CSE_Disconnect")
    /\ m_peer_change_queue' =
           Append(m_peer_change_queue, [type |-> "PEER_REMOVED", peer |-> p])

\* Connection::Receive() goes on to the next event after one about a peer.
ReceivePeerEvent ==
    /\ thread.pc = "receive" /\ events # <<>> /\ Head(events).type # "DATA_RECEIVED"
    /\ IF Head(events).type = "PEER_ADDED" THEN peerAdded(Head(events).peer)
                                           ELSE deletingPeer(Head(events).peer)
    /\ events' = Tail(events)
    /\ UNCHANGED <<network, toClient, remote, thread, chosen_mech, players>>

ReceiveData ==
    /\ thread.pc = "receive" /\ events # <<>> /\ Head(events).type = "DATA_RECEIVED"
    /\ events' = Tail(events)
    /\ ProcessData(Head(events).peer, Head(events).command)
    /\ UNCHANGED <<connection, remote, m_peer_change_queue, joined>>

NoIncomingData ==
    /\ thread.pc = "receive" /\ events = <<>>
    /\ Back
    /\ UNCHANGED <<network, events, toClient, remote, server, players>>

\* A script or an operator throws a player out.
Kick(p) ==
    /\ thread.pc = "step" /\ Holds(p)
    /\ DenyAccess(p)
    /\ UNCHANGED <<connection, events, remote, thread, m_peer_change_queue, players>>

-----------------------------------------------------------------------------
(* The connection and the clients *)

Connect(p) ==
    /\ connection[p] = "none"
    /\ connection' = [connection EXCEPT ![p] = "up"]
    /\ events' = Append(events, [type |-> "PEER_ADDED", peer |-> p])
    /\ UNCHANGED <<disconnects, toClient, remote, thread, server, players>>

\* The peer is disconnected by the server, leaves or times out.
PeerGone(p) ==
    /\ connection[p] = "up"
    /\ connection' = [connection EXCEPT ![p] = "gone"]
    /\ disconnects' = disconnects \ {p}
    /\ events' = Append(events, [type |-> "PEER_REMOVED", peer |-> p])
    /\ toClient' = [toClient EXCEPT ![p] = <<>>]
    /\ UNCHANGED <<remote, thread, server, players>>

Packet(p, command) == [type |-> "DATA_RECEIVED", peer |-> p, command |-> command]

\* A client's first packet is unreliable: it is sent again until there is an answer,
\* and a copy may come late.  One of them is on its way at a time.
SendInit(p) ==
    LET packet == Packet(p, IF p \in Old THEN "INIT_LEGACY" ELSE "INIT")
    IN  /\ connection[p] = "up"
        /\ \A i \in DOMAIN events : events[i] # packet
        /\ events' = Append(events, packet)
        /\ UNCHANGED <<network, toClient, remote, thread, server, players>>

\* What a client may send for an answer.
Replies(p, answer) ==
    CASE answer = "HELLO" -> {"FIRST_SRP", "SRP_BYTES_A"}
      [] answer = "SRP_BYTES_S_B" -> {"SRP_BYTES_M"}
      [] answer \in {"AUTH_ACCEPT", "INIT_LEGACY"} -> {"INIT2"}
      [] answer = "DEFINITIONS" /\ p \notin Old -> {"CLIENT_READY"}
      [] answer = "ACCEPT_SUDO_MODE" -> {"FIRST_SRP"}
      [] OTHER -> {}

\* The state of the client program after an answer.
StateAfter(p, answer) ==
    CASE answer \in {"AUTH_ACCEPT", "INIT_LEGACY"} -> "LC_Init"
      [] answer = "DEFINITIONS" -> "LC_Ready"
      [] answer = "ACCESS_DENIED" -> "denied"
      [] OTHER -> localState[p]

ClientReceives(p) ==
    /\ connection[p] = "up" /\ toClient[p] # <<>>
    /\ LET answer == Head(toClient[p])
            replies == IF localState[p] = "denied" THEN {} ELSE Replies(p, answer)
       IN  /\ IF replies = {} THEN UNCHANGED events
              ELSE \E command \in replies : events' = Append(events, Packet(p, command))
           /\ localState' = [localState EXCEPT
                  ![p] = IF @ = "denied" THEN @ ELSE StateAfter(p, answer)]
    /\ toClient' = [toClient EXCEPT ![p] = Tail(@)]
    /\ UNCHANGED <<network, playername, changes, thread, server, players>>

\* A player changes its password: it has to prove the old one first.
sendChangePassword(p) ==
    /\ connection[p] = "up" /\ localState[p] = "LC_Ready" /\ p \notin Old
    /\ changes < MaxChanges
    /\ changes' = changes + 1
    /\ events' = Append(events, Packet(p, "SRP_BYTES_A"))
    /\ UNCHANGED <<network, toClient, localState, playername, thread, server, players>>

-----------------------------------------------------------------------------

ServerThread ==
    \/ ShortStep \/ LongStep \/ handlePeerChanges
    \/ ReceivePeerEvent \/ ReceiveData \/ NoIncomingData
    \/ Joins \/ PeerNotFound

Next ==
    \/ ServerThread
    \/ \E p \in Peer :
          \/ Kick(p)
          \/ Connect(p) \/ PeerGone(p)
          \/ SendInit(p) \/ ClientReceives(p) \/ sendChangePassword(p)

Spec == Init /\ [][Next]_vars

\* The server thread goes on and time passes, so that steps are long again and again
\* (Server::step adds to m_step_dtime); the connection carries out its commands; a
\* client that stays goes on with what it does.
Fairness ==
    /\ WF_vars(ServerThread) /\ SF_vars(LongStep)
    /\ \A p \in Peer :
          /\ WF_vars(p \in disconnects /\ PeerGone(p))
          /\ WF_vars(localState[p] = "LC_Created" /\ SendInit(p))
          /\ WF_vars(ClientReceives(p))

FairSpec == Spec /\ Fairness

-----------------------------------------------------------------------------

\* Every variable keeps its type; in particular no step of an honest client is a
\* ClientStateError, denied and late clients included.
TypeOK ==
    /\ connection \in [Peer -> {"none", "up", "gone"}]
    /\ events \in Seq(PeerEvent \cup DataEvent)
    /\ disconnects \subseteq Peer
    /\ toClient \in [Peer -> Seq(Answer)]
    /\ localState \in [Peer -> {"LC_Created", "LC_Init", "LC_Ready", "denied"}]
    /\ playername \in [Peer -> Name]
    /\ changes \in 0 .. MaxChanges
    /\ thread \in [pc : {"step", "changes", "receive", "join"},
                   peer : Peer \cup {PEER_ID_INEXISTENT}]
    /\ m_peer_change_queue \in Seq(PeerEvent)
    /\ m_state \in [Peer -> {ClientState[i] : i \in DOMAIN ClientState}]
    /\ chosen_mech \in [Peer -> {"NONE", "SRP"}]
    /\ peer_id \in [Name -> Peer \cup {PEER_ID_INEXISTENT}]
    /\ joined \subseteq Peer

\* An active client has the player of its name, and the scripts know: the handlers of
\* game packets find a player for the peer (getPlayer(peer_id)).
ActiveHasPlayer ==
    \A p \in Peer :
        AtLeast(m_state[p], "CS_Active") => peer_id[playername[p]] = p /\ p \in joined

\* No player is left behind by a client that is deleted: its name would be refused
\* to everybody until the server is restarted.
EveryPlayerHasItsClient ==
    \A n \in Name :
        peer_id[n] # PEER_ID_INEXISTENT =>
            playername[peer_id[n]] = n /\ m_state[peer_id[n]] # "CS_Invalid"

\* A player is given up only after its own peer is gone, whatever clients of the
\* same name do meanwhile, and whether or not the client was denied.
HeldUntilGone ==
    [][\A n \in Name :
          peer_id[n] # PEER_ID_INEXISTENT /\ peer_id'[n] # peer_id[n] =>
              connection[peer_id[n]] = "gone" /\ peer_id'[n] = PEER_ID_INEXISTENT]_vars

PlayerSession == INSTANCE PlayerSessions

\* To the scripts players join and leave one session after the other.
ImplementsPlayerSessions == PlayerSession!Spec

\* In the end every peer is in the game, or it is gone and nothing of it is left:
\* no first packet is lost for good, no denied client stays connected, and the name
\* of one that vanished is free again.
SettledInTheEnd ==
    <>[](\A p \in Peer :
            \/ connection[p] = "none"
            \/ connection[p] = "up" /\ AtLeast(m_state[p], "CS_Active")
            \/ connection[p] = "gone" /\ m_state[p] = "CS_Invalid" /\ ~Holds(p))
=============================================================================
