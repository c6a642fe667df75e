--------------------------- MODULE PlayerSessions ---------------------------
(***************************************************************************)
(* What the server promises its scripts about players: a player belongs to *)
(* one peer at a time and a peer has one player; the player is announced   *)
(* (on_joinplayer) at most once for each time it is allocated, and is      *)
(* given up (on_leaveplayer) before another peer can have it.              *)
(***************************************************************************)
EXTENDS Naturals

CONSTANTS Peer, Name, PEER_ID_INEXISTENT

VARIABLES
    peer_id,      \* the peer each player belongs to
    joined        \* peers whose player the scripts were told of

vars == <<peer_id, joined>>

Init ==
    /\ peer_id = [n \in Name |-> PEER_ID_INEXISTENT]
    /\ joined = {}

emergePlayer(n, p) ==
    /\ peer_id[n] = PEER_ID_INEXISTENT
    /\ \A m \in Name : peer_id[m] # p
    /\ peer_id' = [peer_id EXCEPT ![n] = p]
    /\ UNCHANGED joined

on_joinplayer(n) ==
    /\ peer_id[n] \notin joined \cup {PEER_ID_INEXISTENT}
    /\ joined' = joined \cup {peer_id[n]}
    /\ UNCHANGED peer_id

on_leaveplayer(n) ==
    /\ peer_id[n] # PEER_ID_INEXISTENT
    /\ joined' = joined \ {peer_id[n]}
    /\ peer_id' = [peer_id EXCEPT ![n] = PEER_ID_INEXISTENT]

Next ==
    \E n \in Name :
        \/ \E p \in Peer : emergePlayer(n, p)
        \/ on_joinplayer(n)
        \/ on_leaveplayer(n)

Spec == Init /\ [][Next]_vars
=============================================================================
