------------------------------- MODULE SeqNum -------------------------------
(***************************************************************************)
(* The 16-bit sequence numbers of the reliable UDP protocol and the two    *)
(* comparisons the code makes on them (src/src/network/connection.h).      *)
(* SEQNUM_MAX is 65535 in the program and small when TLC runs.             *)
(***************************************************************************)
EXTENDS Integers

CONSTANT SEQNUM_MAX

ASSUME SeqnumMaxAssumption == SEQNUM_MAX \in Nat /\ SEQNUM_MAX % 2 = 1

Seqnum == 0 .. SEQNUM_MAX

\* The conversion of an int to the u16 that holds a sequence number.
u16(n) == n % (SEQNUM_MAX + 1)

\* Is totest ahead of base, taking the shorter way round the circle?
seqnum_higher(totest, base) ==
    IF totest > base THEN totest - base =< SEQNUM_MAX \div 2
                     ELSE base - totest > SEQNUM_MAX \div 2

\* Fault for ReceiverJudgesRight: the window is taken not to wrap around.
seqnum_in_window_flat(seqnum, next, window_size) ==
    seqnum >= next /\ seqnum < next + window_size

\* Is seqnum one of the window_size numbers that start at next?
seqnum_in_window(seqnum, next, window_size) ==
    LET window_end == u16(next + window_size)
    IN  IF next < window_end THEN seqnum >= next /\ seqnum < window_end
                             ELSE seqnum < window_end \/ seqnum >= next
=============================================================================
