----------------------------- MODULE EmergeArea -----------------------------
(***************************************************************************)
(* What emerge_area() promises the script that calls it with a callback:   *)
(* one answer for each block of the area, and a block said to be there is, *)
(* or was until it was deleted.                                            *)
(***************************************************************************)
EXTENDS Naturals, Sequences

CONSTANTS Block, Area, Answer, Cancelled, Remaining

VARIABLES there,      \* the blocks of the map that are generated
          deleted,    \* the blocks that were deleted at some time
          asked,      \* the area of each call
          answered    \* the answers to each call, in order

Init == there = {} /\ deleted = {} /\ asked = <<>> /\ answered = <<>>

Ask(area) ==
    /\ asked' = Append(asked, area)
    /\ answered' = Append(answered, <<>>)
    /\ UNCHANGED <<there, deleted>>

Generate(blocks) ==
    /\ there' = there \cup blocks
    /\ UNCHANGED <<deleted, asked, answered>>

Delete(blocks) ==
    /\ there' = there \ blocks
    /\ deleted' = deleted \cup blocks
    /\ UNCHANGED <<asked, answered>>

\* n is what the script is told of the answers to come: no promise is made here.
Tell(c, b, a, n) ==
    /\ b \in asked[c]
    /\ \A i \in DOMAIN answered[c] : answered[c][i].pos # b
    /\ a # Cancelled => b \in there \cup deleted
    /\ answered' = [answered EXCEPT ![c] =
                      Append(@, [pos |-> b, action |-> a, calls_remaining |-> n])]
    /\ UNCHANGED <<there, deleted, asked>>

Next ==
    \/ \E area \in Area : Ask(area)
    \/ \E blocks \in SUBSET Block : Generate(blocks) \/ Delete(blocks)
    \/ \E c \in DOMAIN asked, b \in Block, a \in Answer, n \in Remaining :
          Tell(c, b, a, n)

Spec == Init /\ [][Next]_<<there, deleted, asked, answered>>
=============================================================================
