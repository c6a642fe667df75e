---------------------------- MODULE PacketBuffer ----------------------------
(***************************************************************************)
(* ReliablePacketBuffer (src/src/network/connection.cpp): a list of        *)
(* packets kept in the order of their sequence numbers as seen from        *)
(* next_expected.  A packet is a record with a field seq.  The methods     *)
(* hold m_list_mutex throughout, so each is one operator.                  *)
(***************************************************************************)
EXTENDS SeqNum, SequencesExt

CONSTANT MAX_RELIABLE_WINDOW_SIZE

\* 0x8000, half of all numbers.
ASSUME MaxReliableWindowAssumption ==
    MAX_RELIABLE_WINDOW_SIZE \in Nat /\ 2 * MAX_RELIABLE_WINDOW_SIZE = SEQNUM_MAX + 1

\* Fault for ListsSorted: the numbers are compared as if they did not wrap.
GoesBeforeFlat(s, seqnum, next_expected) == s < seqnum

\* The condition under which the search of insert moves past an entry s.
GoesBefore(s, seqnum, next_expected) ==
    IF seqnum < next_expected THEN s < seqnum \/ s >= next_expected
                              ELSE s < seqnum /\ s >= next_expected

\* Where the search stops: the first entry it does not move past, or the end.
InsertPosition(list, seqnum, next_expected) ==
    CHOOSE i \in 1 .. Len(list) + 1 :
        /\ \A j \in 1 .. i - 1 : GoesBefore(list[j].seq, seqnum, next_expected)
        /\ i =< Len(list) => ~ GoesBefore(list[i].seq, seqnum, next_expected)

\* insert(): a packet outside the window, equal to next_expected or already
\* in the list leaves the list as it is.
insert(list, p, next_expected) ==
    LET i == InsertPosition(list, p.seq, next_expected)
    IN  IF \/ ~ seqnum_in_window(p.seq, next_expected, MAX_RELIABLE_WINDOW_SIZE)
           \/ p.seq = next_expected
           \/ i =< Len(list) /\ list[i].seq = p.seq
        THEN list
        ELSE InsertAt(list, i, p)

\* getFirstSeqnum() returns seqnum.
FirstSeqnumIs(list, seqnum) == list # <<>> /\ list[1].seq = seqnum

\* findPacket() finds an entry, and popSeqnum() without that entry.
Holds(list, seqnum) == \E i \in DOMAIN list : list[i].seq = seqnum

\* Fault for NothingForgotten: the first entry goes, whichever was asked for.
popFirstInstead(list, seqnum) == Tail(list)

popSeqnum(list, seqnum) ==
    RemoveAt(list, CHOOSE i \in DOMAIN list :
                       /\ list[i].seq = seqnum
                       /\ \A j \in 1 .. i - 1 : list[j].seq # seqnum)

-----------------------------------------------------------------------------
(* Packets also have a field idx, their place in the history of the channel,
   which no operator above looks at: what a list is to hold is told by it.   *)

\* The packets of a list.
Listed(list) == {list[i].idx : i \in DOMAIN list}

\* Oldest first.
Sorted(list) == \A i, j \in DOMAIN list : i < j => list[i].idx < list[j].idx
=============================================================================
