----------------------------- MODULE PeerEvents -----------------------------
(***************************************************************************)
(* What a connection promises its user about peers (PeerHandler and        *)
(* Connection::Receive in network/connection.h): a peer is announced, then *)
(* sends data, then is reported gone.  Data may still come after that, but *)
(* never before the announcement.                                          *)
(***************************************************************************)
EXTENDS Integers

CONSTANT Id

VARIABLES
    connected,     \* peers announced and not reported gone
    known,         \* peers ever announced
    event          \* what the user was last told

vars == <<connected, known, event>>

Nothing == [type |-> "NONE", id |-> 0]

Init == connected = {} /\ known = {} /\ event = Nothing

peerAdded(i) ==
    /\ i \notin connected
    /\ connected' = connected \cup {i}
    /\ known' = known \cup {i}
    /\ event' = [type |-> "PEER_ADDED", id |-> i]

dataReceived(i) ==
    /\ i \in known
    /\ event' = [type |-> "DATA_RECEIVED", id |-> i]
    /\ UNCHANGED <<connected, known>>

deletingPeer(i) ==
    /\ i \in connected
    /\ connected' = connected \ {i}
    /\ event' = [type |-> "PEER_REMOVED", id |-> i]
    /\ UNCHANGED known

Next == \E i \in Id : peerAdded(i) \/ dataReceived(i) \/ deletingPeer(i)

Spec == Init /\ [][Next]_vars
=============================================================================
