------------------------- MODULE PacketBuffer_proofs -------------------------
(***************************************************************************)
(* Facts about sequence numbers and the list of packets, for every         *)
(* SEQNUM_MAX.  A sequence number is given as u16(e + x): x places after   *)
(* that of some e, less than a whole circle.  As long as the packets are   *)
(* less than a whole circle of numbers apart, insert() keeps them oldest   *)
(* first and popSeqnum() removes the packet asked for.                     *)
(***************************************************************************)
EXTENDS PacketBuffer, SequenceTheorems, FiniteSetTheorems, TLAPS

LEMMA CircleSize == SEQNUM_MAX + 1 \in Nat \ {0} /\ SEQNUM_MAX \in Nat
BY SeqnumMaxAssumption

\* The quotient and remainder of a division by m.
LEMMA DivMod ==
    ASSUME NEW a \in Int, NEW m \in Nat \ {0}
    PROVE  /\ a \div m \in Int
           /\ a % m \in 0 .. m - 1
           /\ a = m * (a \div m) + (a % m)
BY SMT

LEMMA Multiples ==
    ASSUME NEW m \in Nat \ {0}, NEW d \in Int
    PROVE  /\ m * d \in Int
           /\ d >= 2 => m * d >= 2 * m
           /\ d =< -1 => m * d =< -m
BY SMT

LEMMA ModStep ==
    ASSUME NEW a \in Int, NEW m \in Nat \ {0}, NEW x \in 0 .. m - 1
    PROVE  (a + x) % m = IF (a % m) + x < m THEN (a % m) + x
                                            ELSE (a % m) + x - m
<1> DEFINE q == a \div m
           p == (a + x) \div m
           r == a % m
           s == (a + x) % m
<1>1. q \in Int /\ p \in Int /\ r \in 0 .. m - 1 /\ s \in 0 .. m - 1
  BY DivMod
<1>2. a = m * q + r /\ a + x = m * p + s
  BY DivMod
<1> HIDE DEF q, p, r, s
<1>3. m * (p - q) = r + x - s
  BY <1>1, <1>2
<1>4. p - q \in {0, 1}
  BY <1>1, <1>3, Multiples
<1>5. s = r + x \/ s = r + x - m
  BY <1>1, <1>3, <1>4
<1> QED BY <1>1, <1>5 DEF r, s

-----------------------------------------------------------------------------
LEMMA NumberType == ASSUME NEW e \in Int PROVE u16(e) \in Seqnum
BY DivMod, CircleSize DEF u16, Seqnum

\* Going x places on from the number of e, less than once around.
LEMMA NumberStep ==
    ASSUME NEW e \in Int, NEW x \in 0 .. SEQNUM_MAX
    PROVE  /\ u16(e) \in 0 .. SEQNUM_MAX
           /\ u16(e + x) = IF u16(e) + x =< SEQNUM_MAX THEN u16(e) + x
                           ELSE u16(e) + x - (SEQNUM_MAX + 1)
<1> DEFINE m == SEQNUM_MAX + 1
<1>1. m \in Nat \ {0} /\ x \in 0 .. m - 1 /\ m - 1 = SEQNUM_MAX
  BY CircleSize
<1> HIDE DEF m
<1>2. e % m \in 0 .. SEQNUM_MAX
  BY <1>1, DivMod
<1>3. (e + x) % m = IF (e % m) + x < m THEN (e % m) + x ELSE (e % m) + x - m
  BY <1>1, ModStep
<1>4. u16(e) = e % m /\ u16(e + x) = (e + x) % m
  BY DEF u16, m
<1> QED BY <1>1, <1>2, <1>3, <1>4 DEF m

\* Adding to a number that was already cut to 16 bits.
LEMMA NumberOfSum ==
    ASSUME NEW e \in Int, NEW x \in 0 .. SEQNUM_MAX
    PROVE  u16(u16(e) + x) = u16(e + x)
<1>1. u16(e) \in 0 .. SEQNUM_MAX
  BY NumberType DEF Seqnum
<1>2. u16(u16(e)) = u16(e)
  <2> DEFINE a == u16(e)
             m == SEQNUM_MAX + 1
  <2>1. m \in Nat \ {0} /\ a \in 0 .. m - 1
    BY <1>1, CircleSize
  <2> HIDE DEF a, m
  <2>2. a % m = a
    BY <2>1, SMT
  <2>3. u16(a) = a % m
    BY DEF u16, m
  <2> QED BY <2>2, <2>3 DEF a
<1>3. u16(u16(e) + x) = IF u16(u16(e)) + x =< SEQNUM_MAX THEN u16(u16(e)) + x
                        ELSE u16(u16(e)) + x - (SEQNUM_MAX + 1)
  <2> DEFINE a == u16(e)
  <2>1. a \in Int
    BY <1>1
  <2> HIDE DEF a
  <2>2. u16(a + x) = IF u16(a) + x =< SEQNUM_MAX THEN u16(a) + x
                     ELSE u16(a) + x - (SEQNUM_MAX + 1)
    BY <2>1, NumberStep
  <2> QED BY <2>2 DEF a
<1>4. u16(e + x) = IF u16(e) + x =< SEQNUM_MAX THEN u16(e) + x
                   ELSE u16(e) + x - (SEQNUM_MAX + 1)
  BY NumberStep
<1> QED BY <1>2, <1>3, <1>4

\* Two numbers less than a circle apart are equal only if they are the same.
LEMMA NumberInjective ==
    ASSUME NEW e \in Int, NEW x \in 0 .. SEQNUM_MAX
    PROVE  u16(e + x) = u16(e) <=> x = 0
<1>1. u16(e) \in 0 .. SEQNUM_MAX
  BY NumberStep
<1>2. u16(e + x) = IF u16(e) + x =< SEQNUM_MAX THEN u16(e) + x
                   ELSE u16(e) + x - (SEQNUM_MAX + 1)
  BY NumberStep
<1> QED BY <1>1, <1>2, CircleSize

\* The window that starts at the number of e holds the next w numbers.
LEMMA WindowIsPrefix ==
    ASSUME NEW e \in Int, NEW x \in 0 .. SEQNUM_MAX, NEW w \in 1 .. SEQNUM_MAX
    PROVE  seqnum_in_window(u16(e + x), u16(e), w) <=> x < w
<1>1. u16(u16(e) + w) = u16(e + w)
  BY NumberOfSum, CircleSize
<1>2. u16(e) \in 0 .. SEQNUM_MAX
  BY NumberType DEF Seqnum
<1>3. u16(e + w) = IF u16(e) + w =< SEQNUM_MAX THEN u16(e) + w
                   ELSE u16(e) + w - (SEQNUM_MAX + 1)
  BY NumberStep, CircleSize
<1>4. u16(e + x) = IF u16(e) + x =< SEQNUM_MAX THEN u16(e) + x
                   ELSE u16(e) + x - (SEQNUM_MAX + 1)
  BY NumberStep
<1> QED BY <1>1, <1>2, <1>3, <1>4, CircleSize DEF seqnum_in_window

\* A number up to half a circle behind another does not seem higher.
LEMMA BehindIsNotHigher ==
    ASSUME NEW e \in Int, NEW x \in 1 .. (SEQNUM_MAX \div 2)
    PROVE  ~ seqnum_higher(u16(e), u16(e + x))
<1>1. SEQNUM_MAX \div 2 \in Nat /\ 2 * (SEQNUM_MAX \div 2) + 1 = SEQNUM_MAX
  BY SeqnumMaxAssumption
<1>2. x \in 0 .. SEQNUM_MAX /\ u16(e) \in 0 .. SEQNUM_MAX
  BY <1>1, NumberType DEF Seqnum
<1>3. u16(e + x) = IF u16(e) + x =< SEQNUM_MAX THEN u16(e) + x
                   ELSE u16(e) + x - (SEQNUM_MAX + 1)
  BY <1>2, NumberStep
<1> QED BY <1>1, <1>2, <1>3 DEF seqnum_higher

\* Whole circles do not matter.
LEMMA ModCircles ==
    ASSUME NEW m \in Nat \ {0}, NEW q \in Int, NEW z \in Int
    PROVE  (m * q + z) % m = z % m
<1> DEFINE a == m * q + z
           p == z \div m
           s == z % m
           t == a \div m
           u == a % m
<1>0. m * q \in Int /\ a \in Int
  BY Multiples
<1>1. p \in Int /\ s \in 0 .. m - 1 /\ z = m * p + s
  BY DivMod
<1>2. t \in Int /\ u \in 0 .. m - 1 /\ a = m * t + u
  <2> HIDE DEF a
  <2> QED BY <1>0, DivMod
<1>3. a = m * q + z
  OBVIOUS
<1> HIDE DEF a, p, s, t, u
<1>4. m * (q + p - t) = u - s
  BY <1>1, <1>2, <1>3
<1> DEFINE d == q + p - t
<1>5. d \in Int
  BY <1>1, <1>2
<1>6. m * d = u - s
  BY <1>4
<1> HIDE DEF d
<1>7. d = 0
  <2>1. /\ d >= 1 => m * d >= m
        /\ d =< -1 => m * d =< -m
    BY <1>5, SMT
  <2> QED BY <2>1, <1>1, <1>2, <1>5, <1>6
<1>8. m * d = 0
  BY <1>7
<1>9. u = s
  BY <1>8, <1>6, <1>1, <1>2
<1> QED BY <1>9 DEF u, s, a

\* A number may be moved by any distance.
LEMMA NumberMoved ==
    ASSUME NEW e \in Int, NEW y \in Int
    PROVE  u16(u16(e) + y) = u16(e + y)
<1> DEFINE m == SEQNUM_MAX + 1
           q == e \div m
           r == e % m
<1>1. m \in Nat \ {0}
  BY CircleSize
<1> HIDE DEF m
<1>2. q \in Int /\ r \in 0 .. m - 1 /\ e = m * q + r
  BY <1>1, DivMod
<1> HIDE DEF q, r
<1> DEFINE z == r + y
<1>3. z \in Int /\ e + y = m * q + z
  <2>1. m * q \in Int
    BY <1>1, <1>2, Multiples
  <2> QED BY <1>1, <1>2, <2>1
<1> HIDE DEF z
<1>4. (m * q + z) % m = z % m
  BY <1>1, <1>2, <1>3, ModCircles
<1>5. u16(e) = r
  BY DEF u16, r, m
<1>6. u16(u16(e) + y) = z % m
  BY <1>5 DEF u16, z, m
<1>7. u16(e + y) = (m * q + z) % m
  BY <1>3 DEF u16, m
<1> QED BY <1>4, <1>6, <1>7

\* Numbers of places less than a circle apart tell the places apart.
LEMMA NumbersDiffer ==
    ASSUME NEW a \in Int, NEW b \in Int, a - b =< SEQNUM_MAX, b - a =< SEQNUM_MAX,
           u16(a) = u16(b)
    PROVE  a = b
<1>1. SEQNUM_MAX \in Nat
  BY CircleSize
<1>2. CASE a >= b
  <2> DEFINE x == a - b
  <2>1. x \in 0 .. SEQNUM_MAX /\ a = b + x
    BY <1>1, <1>2
  <2> HIDE DEF x
  <2>2. x = 0
    BY <2>1, NumberInjective
  <2> QED BY <2>1, <2>2
<1>3. CASE ~ (a >= b)
  <2> DEFINE x == b - a
  <2>1. x \in 0 .. SEQNUM_MAX /\ b = a + x
    BY <1>1, <1>3
  <2> HIDE DEF x
  <2>2. x = 0
    BY <2>1, NumberInjective
  <2> QED BY <2>1, <2>2
<1> QED BY <1>2, <1>3

LEMMA NumberOnceAround ==
    ASSUME NEW e \in Int
    PROVE  u16(e + (SEQNUM_MAX + 1)) = u16(e)
<1> DEFINE m == SEQNUM_MAX + 1
           q == 1
<1>1. m \in Nat \ {0} /\ q \in Int /\ m * q = m
  BY CircleSize
<1> HIDE DEF m, q
<1>2. (m * q + e) % m = e % m
  BY <1>1, ModCircles
<1>3. e + m = m * q + e
  BY <1>1
<1>4. u16(e + m) = (e + m) % m /\ u16(e) = e % m
  BY DEF u16, m
<1>5. u16(e + m) = u16(e)
  BY <1>2, <1>3, <1>4
<1> QED BY <1>5 DEF m

-----------------------------------------------------------------------------
(* The list of packets *)

LEMMA InsertAtProperties ==
    ASSUME NEW S, NEW s \in Seq(S), NEW i \in 1 .. Len(s) + 1, NEW e \in S
    PROVE  /\ InsertAt(s, i, e) \in Seq(S)
           /\ Len(InsertAt(s, i, e)) = Len(s) + 1
           /\ \A j \in 1 .. Len(s) + 1 :
                 InsertAt(s, i, e)[j] = IF j < i THEN s[j]
                                        ELSE IF j = i THEN e ELSE s[j - 1]
<1> DEFINE a == SubSeq(s, 1, i - 1)
           b == <<e>>
           c == SubSeq(s, i, Len(s))
<1>0. Len(s) \in Nat /\ \A j \in 1 .. Len(s) : s[j] \in S
  BY LenProperties, ElementOfSeq
<1>1. /\ a \in Seq(S) /\ Len(a) = i - 1
      /\ \A j \in 1 .. i - 1 : a[j] = s[j]
  <2>1. \A j \in 1 .. i - 1 : s[j] \in S
    BY <1>0
  <2> QED BY <1>0, <2>1, SubSeqProperties
<1>2. /\ c \in Seq(S) /\ Len(c) = Len(s) - i + 1
      /\ \A j \in 1 .. Len(s) - i + 1 : c[j] = s[i + j - 1]
  <2>1. \A j \in i .. Len(s) : s[j] \in S
    BY <1>0
  <2> QED BY <1>0, <2>1, SubSeqProperties
<1>3. b \in Seq(S) /\ Len(b) = 1 /\ b[1] = e
  OBVIOUS
<1> HIDE DEF a, b, c
<1>4. /\ a \o b \in Seq(S) /\ Len(a \o b) = i
      /\ \A j \in 1 .. i : (a \o b)[j] = IF j =< i - 1 THEN a[j] ELSE b[j - (i - 1)]
  <2>1. /\ a \o b \in Seq(S)
        /\ Len(a \o b) = Len(a) + Len(b)
        /\ \A j \in 1 .. Len(a) + Len(b) : (a \o b)[j] =
              IF j =< Len(a) THEN a[j] ELSE b[j - Len(a)]
    BY <1>1, <1>3, ConcatProperties
  <2> QED BY <2>1, <1>0, <1>1, <1>3
<1>5. /\ (a \o b) \o c \in Seq(S) /\ Len((a \o b) \o c) = Len(s) + 1
      /\ \A j \in 1 .. Len(s) + 1 :
            ((a \o b) \o c)[j] = IF j =< i THEN (a \o b)[j] ELSE c[j - i]
  <2>1. /\ (a \o b) \o c \in Seq(S)
        /\ Len((a \o b) \o c) = Len((a \o b)) + Len(c)
        /\ \A j \in 1 .. Len((a \o b)) + Len(c) : ((a \o b) \o c)[j] =
              IF j =< Len((a \o b)) THEN (a \o b)[j] ELSE c[j - Len((a \o b))]
    BY <1>2, <1>4, ConcatProperties
  <2> QED BY <2>1, <1>0, <1>2, <1>4
<1> DEFINE u == a \o b
           t == u \o c
<1>6. InsertAt(s, i, e) = t
  BY DEF InsertAt, a, b, c
<1>7. /\ \A j \in 1 .. i : u[j] = IF j =< i - 1 THEN a[j] ELSE b[j - (i - 1)]
      /\ \A j \in 1 .. Len(s) + 1 : t[j] = IF j =< i THEN u[j] ELSE c[j - i]
  BY <1>4, <1>5
<1> HIDE DEF u, t
<1>8. ASSUME NEW j \in 1 .. Len(s) + 1
      PROVE  t[j] = IF j < i THEN s[j] ELSE IF j = i THEN e ELSE s[j - 1]
  <2>0. i \in Int /\ j \in Int
    BY <1>0
  <2>1. CASE j < i
    <3>1. j \in 1 .. i /\ j \in 1 .. i - 1 /\ j =< i
      BY <1>0, <2>1
    <3> QED BY <3>1, <2>1, <1>1, <1>7
  <2>2. CASE j = i
    <3>1. j \in 1 .. i /\ j =< i /\ ~ (j =< i - 1) /\ j - (i - 1) = 1 /\ ~ (j < i)
      BY <1>0, <2>2
    <3>2. t[j] = u[j]
      BY <3>1, <1>7
    <3>3. u[j] = b[1]
      BY <3>1, <1>7
    <3> QED BY <3>1, <3>2, <3>3, <2>2, <1>3
  <2>3. CASE j > i
    <3>1. /\ j - i \in 1 .. Len(s) - i + 1 /\ i + (j - i) - 1 = j - 1
          /\ ~ (j =< i) /\ ~ (j < i) /\ j # i
      BY <1>0, <2>3
    <3> QED BY <3>1, <1>2, <1>7
  <2> QED BY <2>0, <2>1, <2>2, <2>3
<1>9. t \in Seq(S) /\ Len(t) = Len(s) + 1
  BY <1>5 DEF t, u
<1> QED BY <1>6, <1>8, <1>9

LEMMA RemoveAtProperties ==
    ASSUME NEW S, NEW s \in Seq(S), NEW i \in 1 .. Len(s)
    PROVE  /\ RemoveAt(s, i) \in Seq(S)
           /\ Len(RemoveAt(s, i)) = Len(s) - 1
           /\ \A j \in 1 .. Len(s) - 1 :
                 RemoveAt(s, i)[j] = IF j < i THEN s[j] ELSE s[j + 1]
<1> DEFINE a == SubSeq(s, 1, i - 1)
           c == SubSeq(s, i + 1, Len(s))
<1>0. Len(s) \in Nat /\ \A j \in 1 .. Len(s) : s[j] \in S
  BY LenProperties, ElementOfSeq
<1>1. /\ a \in Seq(S) /\ Len(a) = i - 1
      /\ \A j \in 1 .. i - 1 : a[j] = s[j]
  <2>1. \A j \in 1 .. i - 1 : s[j] \in S
    BY <1>0
  <2> QED BY <1>0, <2>1, SubSeqProperties
<1>2. /\ c \in Seq(S) /\ Len(c) = Len(s) - i
      /\ \A j \in 1 .. Len(s) - i : c[j] = s[i + j]
  <2>1. \A j \in i + 1 .. Len(s) : s[j] \in S
    BY <1>0
  <2> QED BY <1>0, <2>1, SubSeqProperties
<1> HIDE DEF a, c
<1>3. /\ a \o c \in Seq(S) /\ Len(a \o c) = Len(s) - 1
      /\ \A j \in 1 .. Len(s) - 1 :
            (a \o c)[j] = IF j =< i - 1 THEN a[j] ELSE c[j - (i - 1)]
  <2>1. /\ a \o c \in Seq(S)
        /\ Len(a \o c) = Len(a) + Len(c)
        /\ \A j \in 1 .. Len(a) + Len(c) : (a \o c)[j] =
              IF j =< Len(a) THEN a[j] ELSE c[j - Len(a)]
    BY <1>1, <1>2, ConcatProperties
  <2> QED BY <2>1, <1>0, <1>1, <1>2
<1> DEFINE t == a \o c
<1>4. RemoveAt(s, i) = t
  BY DEF RemoveAt, a, c
<1>5. /\ t \in Seq(S) /\ Len(t) = Len(s) - 1
      /\ \A j \in 1 .. Len(s) - 1 : t[j] = IF j =< i - 1 THEN a[j] ELSE c[j - (i - 1)]
  BY <1>3
<1> HIDE DEF t
<1>6. ASSUME NEW j \in 1 .. Len(s) - 1
      PROVE  t[j] = IF j < i THEN s[j] ELSE s[j + 1]
  <2>0. i \in Int /\ j \in Int
    BY <1>0
  <2>1. CASE j < i
    <3>1. j \in 1 .. i - 1 /\ j =< i - 1
      BY <1>0, <2>1
    <3> QED BY <3>1, <2>1, <1>1, <1>5
  <2>2. CASE ~ (j < i)
    <3>1. /\ j - (i - 1) \in 1 .. Len(s) - i /\ i + (j - (i - 1)) = j + 1
          /\ ~ (j =< i - 1)
      BY <1>0, <2>2
    <3>2. t[j] = c[j - (i - 1)]
      BY <3>1, <1>5
    <3> QED BY <3>1, <3>2, <2>2, <1>2
  <2> QED BY <2>1, <2>2
<1> QED BY <1>4, <1>5, <1>6

-----------------------------------------------------------------------------
\* A set of numbers from 1 to n without gaps below is an interval.
LEMMA PrefixLength ==
    ASSUME NEW n \in Nat, NEW D \in SUBSET (1 .. n),
           \A x \in D : \A y \in 1 .. x : y \in D
    PROVE  \E c \in 0 .. n : D = 1 .. c
<1>1. IsFiniteSet(1 .. n) /\ Cardinality(1 .. n) = n
  BY FS_Interval
<1>2. IsFiniteSet(D) /\ Cardinality(D) =< n
  BY <1>1, FS_Subset
<1> DEFINE c == Cardinality(D)
<1>3. c \in 0 .. n
  BY <1>2, FS_CardinalityType
<1>4. IsFiniteSet(1 .. c) /\ Cardinality(1 .. c) = c
  BY <1>3, FS_Interval
<1>5. ASSUME NEW x \in D PROVE x =< c
  <2>1. x \in Nat /\ IsFiniteSet(1 .. x) /\ Cardinality(1 .. x) = x
    BY FS_Interval
  <2>2. 1 .. x \subseteq D
    OBVIOUS
  <2>3. Cardinality(1 .. x) =< Cardinality(D)
    BY <2>2, <1>2, FS_Subset
  <2> QED BY <2>1, <2>3
<1>6. D \subseteq 1 .. c
  BY <1>3, <1>5
<1>7. D = 1 .. c
  BY <1>4, <1>6, FS_Subset
<1> QED BY <1>3, <1>7

\* The first place of a set of places, or the place after them all.
LEMMA FirstPlace ==
    ASSUME NEW n \in Nat, NEW B \in SUBSET (1 .. n)
    PROVE  \E i \in 1 .. n + 1 : /\ \A j \in 1 .. i - 1 : j \notin B
                                 /\ i =< n => i \in B
<1> DEFINE D == {x \in 1 .. n : \A y \in 1 .. x : y \notin B}
<1>1. D \in SUBSET (1 .. n) /\ \A x \in D : \A y \in 1 .. x : y \in D
  OBVIOUS
<1> HIDE DEF D
<1>2. PICK c \in 0 .. n : D = 1 .. c
  BY <1>1, PrefixLength
<1>3. \A j \in 1 .. (c + 1) - 1 : j \notin B
  BY <1>2 DEF D
<1>4. ASSUME c + 1 =< n PROVE c + 1 \in B
  <2>1. c + 1 \in 1 .. n /\ c + 1 \notin D
    BY <1>2, <1>4
  <2>2. PICK y \in 1 .. c + 1 : y \in B
    BY <2>1 DEF D
  <2>3. y = c + 1
    BY <2>2, <1>3
  <2> QED BY <2>2, <2>3
<1> QED BY <1>2, <1>3, <1>4

-----------------------------------------------------------------------------
LEMMA InsertPositionExists ==
    ASSUME NEW S, NEW list \in Seq(S), NEW seqnum, NEW next_expected
    PROVE  LET i == InsertPosition(list, seqnum, next_expected)
           IN  /\ i \in 1 .. Len(list) + 1
               /\ \A j \in 1 .. i - 1 : GoesBefore(list[j].seq, seqnum, next_expected)
               /\ i =< Len(list) => ~ GoesBefore(list[i].seq, seqnum, next_expected)
<1> DEFINE B == {j \in 1 .. Len(list) : ~ GoesBefore(list[j].seq, seqnum, next_expected)}
<1>1. Len(list) \in Nat
  BY LenProperties
<1>2. B \in SUBSET (1 .. Len(list))
  OBVIOUS
<1>3. \E i \in 1 .. Len(list) + 1 : /\ \A j \in 1 .. i - 1 : j \notin B
                                    /\ i =< Len(list) => i \in B
  <2> HIDE DEF B
  <2> QED BY <1>1, <1>2, FirstPlace
<1>4. \E i \in 1 .. Len(list) + 1 :
         /\ \A j \in 1 .. i - 1 : GoesBefore(list[j].seq, seqnum, next_expected)
         /\ i =< Len(list) => ~ GoesBefore(list[i].seq, seqnum, next_expected)
  BY <1>1, <1>3
<1> QED BY <1>4 DEF InsertPosition

LEMMA InsertType ==
    ASSUME NEW S, NEW list \in Seq(S), NEW p \in S, NEW next_expected
    PROVE  insert(list, p, next_expected) \in Seq(S)
<1> DEFINE i == InsertPosition(list, p.seq, next_expected)
<1>1. i \in 1 .. Len(list) + 1
  BY InsertPositionExists
<1> HIDE DEF i
<1>2. InsertAt(list, i, p) \in Seq(S)
  BY <1>1, InsertAtProperties
<1> QED BY <1>2 DEF insert, i

\* popSeqnum() on a list that holds the packet removes an entry with its number.
LEMMA PopSeqnumRemoves ==
    ASSUME NEW S, NEW list \in Seq(S), NEW seqnum, Holds(list, seqnum)
    PROVE  \E i \in 1 .. Len(list) :
              list[i].seq = seqnum /\ popSeqnum(list, seqnum) = RemoveAt(list, i)
<1> DEFINE B == {j \in 1 .. Len(list) : list[j].seq = seqnum}
<1>1. Len(list) \in Nat /\ DOMAIN list = 1 .. Len(list)
  BY LenProperties
<1>2. B \in SUBSET (1 .. Len(list)) /\ \E j \in 1 .. Len(list) : j \in B
  BY <1>1 DEF Holds
<1>3. PICK i \in 1 .. Len(list) + 1 : /\ \A j \in 1 .. i - 1 : j \notin B
                                      /\ i =< Len(list) => i \in B
  <2> HIDE DEF B
  <2> QED BY <1>1, <1>2, FirstPlace
<1>4. i \in 1 .. Len(list)
  <2> HIDE DEF B
  <2> QED BY <1>1, <1>2, <1>3
<1>5. \E k \in DOMAIN list : /\ list[k].seq = seqnum
                             /\ \A j \in 1 .. k - 1 : list[j].seq # seqnum
  <2>1. \A j \in 1 .. i - 1 : list[j].seq # seqnum
    BY <1>1, <1>3, <1>4
  <2> QED BY <1>1, <1>3, <1>4, <2>1
<1> QED BY <1>1, <1>5 DEF popSeqnum

LEMMA PopSeqnumType ==
    ASSUME NEW S, NEW list \in Seq(S), NEW seqnum, Holds(list, seqnum)
    PROVE  popSeqnum(list, seqnum) \in Seq(S)
BY PopSeqnumRemoves, RemoveAtProperties

-----------------------------------------------------------------------------
(* Packets with a place idx in the history: seq is the number of that place. *)

\* Seen from base, what goes before a packet is what is older.
LEMMA GoesBeforeIsOlder ==
    ASSUME NEW e \in Int, NEW x \in 0 .. SEQNUM_MAX, NEW y \in 0 .. SEQNUM_MAX
    PROVE  GoesBefore(u16(e + x), u16(e + y), u16(e)) <=> x < y
<1>1. u16(e) \in 0 .. SEQNUM_MAX
  BY NumberType DEF Seqnum
<1>2. /\ u16(e + x) = IF u16(e) + x =< SEQNUM_MAX THEN u16(e) + x
                      ELSE u16(e) + x - (SEQNUM_MAX + 1)
      /\ u16(e + y) = IF u16(e) + y =< SEQNUM_MAX THEN u16(e) + y
                      ELSE u16(e) + y - (SEQNUM_MAX + 1)
  BY NumberStep
<1> DEFINE r == u16(e)
           s == u16(e + x)
           t == u16(e + y)
<1>3. /\ r \in 0 .. SEQNUM_MAX
      /\ s = IF r + x =< SEQNUM_MAX THEN r + x ELSE r + x - (SEQNUM_MAX + 1)
      /\ t = IF r + y =< SEQNUM_MAX THEN r + y ELSE r + y - (SEQNUM_MAX + 1)
  BY <1>1, <1>2
<1> HIDE DEF r, s, t
<1>4. GoesBefore(s, t, r) <=> x < y
  BY <1>3, CircleSize DEF GoesBefore
<1> QED BY <1>4 DEF r, s, t

\* The same for places i and j of the history, at most a circle after base.
LEMMA OlderGoesBefore ==
    ASSUME NEW origin \in Int, NEW base \in Int, NEW i \in Int, NEW j \in Int,
           i - base \in 0 .. SEQNUM_MAX, j - base \in 0 .. SEQNUM_MAX
    PROVE  GoesBefore(u16(origin + i), u16(origin + j), u16(origin + base)) <=> i < j
<1> DEFINE e == origin + base
           x == i - base
           y == j - base
<1>1. e \in Int /\ x \in 0 .. SEQNUM_MAX /\ y \in 0 .. SEQNUM_MAX
  OBVIOUS
<1>2. origin + i = e + x /\ origin + j = e + y /\ (i < j <=> x < y)
  OBVIOUS
<1> HIDE DEF x, y
<1>3. GoesBefore(u16(e + x), u16(e + y), u16(e)) <=> x < y
  <2> HIDE DEF e
  <2> QED BY <1>1, GoesBeforeIsOlder
<1> QED BY <1>2, <1>3

\* insert() in the middle keeps the order.
LEMMA InsertAtKeepsOrder ==
    ASSUME NEW S, NEW list \in Seq(S), NEW p \in S,
           \A q \in S : q.idx \in Int,
           Sorted(list),
           NEW i \in 1 .. Len(list) + 1,
           \A j \in 1 .. i - 1 : list[j].idx < p.idx,
           i =< Len(list) => p.idx < list[i].idx
    PROVE  LET l == InsertAt(list, i, p)
           IN  /\ Sorted(l)
               /\ Listed(l) = Listed(list) \cup {p.idx}
               /\ \A k \in DOMAIN l : l[k] = p \/ \E j \in DOMAIN list : l[k] = list[j]
<1> DEFINE l == InsertAt(list, i, p)
           n == Len(list)
<1>1. /\ n \in Nat /\ DOMAIN list = 1 .. n
      /\ \A j \in 1 .. n : list[j] \in S /\ list[j].idx \in Int
      /\ p.idx \in Int /\ i \in Int
  BY LenProperties, ElementOfSeq
<1>2. /\ l \in Seq(S) /\ Len(l) = n + 1
      /\ \A k \in 1 .. n + 1 :
            l[k] = IF k < i THEN list[k] ELSE IF k = i THEN p ELSE list[k - 1]
  BY InsertAtProperties
<1>3. DOMAIN l = 1 .. n + 1
  BY <1>2, LenProperties
<1> HIDE DEF l, n
<1>4. \A j, k \in 1 .. n : j < k => list[j].idx < list[k].idx
  BY <1>1 DEF Sorted
<1>5. ASSUME NEW k \in 1 .. n + 1
      PROVE  /\ k < i => l[k] = list[k] /\ k \in 1 .. n
             /\ k = i => l[k] = p
             /\ k > i => l[k] = list[k - 1] /\ k - 1 \in 1 .. n
  <2>1. CASE k < i
    <3>1. k \in 1 .. n /\ ~ (k = i) /\ ~ (k > i)
      BY <1>1, <2>1 DEF n
    <3> QED BY <3>1, <2>1, <1>2
  <2>2. CASE k = i
    <3>1. ~ (k < i) /\ ~ (k > i)
      BY <1>1, <2>2
    <3> QED BY <3>1, <2>2, <1>2
  <2>3. CASE k > i
    <3>1. k - 1 \in 1 .. n /\ ~ (k = i) /\ ~ (k < i)
      BY <1>1, <2>3
    <3> QED BY <3>1, <2>3, <1>2
  <2> QED BY <1>1, <2>1, <2>2, <2>3
<1>6. \A k \in 1 .. n : k >= i => p.idx < list[k].idx
  <2> SUFFICES ASSUME NEW k \in 1 .. n, k >= i PROVE p.idx < list[k].idx
    OBVIOUS
  <2>1. i \in 1 .. n /\ p.idx < list[i].idx
    BY <1>1 DEF n
  <2>2. k = i \/ list[i].idx < list[k].idx
    BY <2>1, <1>1, <1>4
  <2> QED BY <2>1, <2>2, <1>1
<1>7. \A k \in 1 .. n : k < i => list[k].idx < p.idx
  BY <1>1
<1>8. Sorted(l)
  <2> SUFFICES ASSUME NEW j \in 1 .. n + 1, NEW k \in 1 .. n + 1, j < k
               PROVE  l[j].idx < l[k].idx
    BY <1>3 DEF Sorted
  <2>1. CASE k < i
    <3>1. j < i
      BY <1>1, <2>1
    <3> QED BY <3>1, <2>1, <1>4, <1>5
  <2>2. CASE k = i
    <3>1. j < i
      BY <1>1, <2>2
    <3> QED BY <3>1, <2>2, <1>5, <1>7
  <2>3. CASE k > i /\ j < i
    <3>1. l[k] = list[k - 1] /\ k - 1 \in 1 .. n /\ k - 1 >= i
      BY <1>1, <1>5, <2>3
    <3>2. l[j] = list[j] /\ j \in 1 .. n
      BY <1>5, <2>3
    <3>3. p.idx < list[k - 1].idx /\ list[j].idx < p.idx
      BY <3>1, <3>2, <1>6, <1>7, <2>3
    <3> QED BY <3>1, <3>2, <3>3, <1>1
  <2>4. CASE k > i /\ j = i
    <3>1. l[k] = list[k - 1] /\ k - 1 \in 1 .. n /\ k - 1 >= i
      BY <1>1, <1>5, <2>4
    <3> QED BY <3>1, <1>5, <1>6, <2>4
  <2>5. CASE k > i /\ j > i
    <3>1. l[k] = list[k - 1] /\ k - 1 \in 1 .. n
      BY <1>5, <2>5
    <3>2. l[j] = list[j - 1] /\ j - 1 \in 1 .. n /\ j - 1 < k - 1
      BY <1>5, <2>5
    <3> QED BY <3>1, <3>2, <1>4
  <2> QED BY <1>1, <2>1, <2>2, <2>3, <2>4, <2>5
<1>9. \A k \in DOMAIN l : l[k] = p \/ \E j \in DOMAIN list : l[k] = list[j]
  BY <1>1, <1>3, <1>5
<1>10. Listed(l) = Listed(list) \cup {p.idx}
  <2>1. \A k \in DOMAIN l : l[k].idx \in Listed(list) \cup {p.idx}
    BY <1>9 DEF Listed
  <2>2. \A k \in DOMAIN list : \E j \in DOMAIN l : l[j] = list[k]
    <3> SUFFICES ASSUME NEW k \in 1 .. n PROVE \E j \in 1 .. n + 1 : l[j] = list[k]
      BY <1>1, <1>3
    <3>1. CASE k < i
      <4>1. k \in 1 .. n + 1
        BY <1>1
      <4> QED BY <4>1, <3>1, <1>5
    <3>2. CASE ~ (k < i)
      <4>1. k + 1 \in 1 .. n + 1 /\ k + 1 > i /\ (k + 1) - 1 = k
        BY <1>1, <3>2
      <4> QED BY <4>1, <1>5
    <3> QED BY <3>1, <3>2
  <2>3. \E j \in DOMAIN l : l[j] = p
    BY <1>3, <1>5 DEF n
  <2> QED BY <2>1, <2>2, <2>3 DEF Listed
<1> QED BY <1>8, <1>9, <1>10 DEF l

\* Removing an entry keeps the order and takes nothing but that packet out.
LEMMA RemoveAtKeepsOrder ==
    ASSUME NEW S, NEW list \in Seq(S),
           \A q \in S : q.idx \in Int,
           Sorted(list),
           NEW i \in 1 .. Len(list)
    PROVE  LET l == RemoveAt(list, i)
           IN  /\ Sorted(l)
               /\ Listed(l) = Listed(list) \ {list[i].idx}
               /\ \A k \in DOMAIN l : \E j \in DOMAIN list : l[k] = list[j]
<1> DEFINE l == RemoveAt(list, i)
           n == Len(list)
<1>1. /\ n \in Nat /\ DOMAIN list = 1 .. n
      /\ \A j \in 1 .. n : list[j].idx \in Int
      /\ i \in Int /\ i \in 1 .. n
  BY LenProperties, ElementOfSeq
<1>2. /\ l \in Seq(S) /\ Len(l) = n - 1
      /\ \A k \in 1 .. n - 1 : l[k] = IF k < i THEN list[k] ELSE list[k + 1]
  BY RemoveAtProperties
<1>3. DOMAIN l = 1 .. n - 1
  BY <1>2, LenProperties
<1> HIDE DEF l, n
<1>4. \A j, k \in 1 .. n : j < k => list[j].idx < list[k].idx
  BY <1>1 DEF Sorted
<1>5. ASSUME NEW k \in 1 .. n - 1
      PROVE  /\ k < i => l[k] = list[k] /\ k \in 1 .. n /\ k # i
             /\ ~ (k < i) => l[k] = list[k + 1] /\ k + 1 \in 1 .. n /\ k + 1 # i
  BY <1>1, <1>2
<1>6. Sorted(l)
  <2> SUFFICES ASSUME NEW j \in 1 .. n - 1, NEW k \in 1 .. n - 1, j < k
               PROVE  l[j].idx < l[k].idx
    BY <1>3 DEF Sorted
  <2>1. CASE k < i
    <3>1. j < i
      BY <1>1, <2>1
    <3> QED BY <3>1, <2>1, <1>4, <1>5
  <2>2. CASE ~ (k < i) /\ j < i
    <3>1. l[k] = list[k + 1] /\ k + 1 \in 1 .. n /\ l[j] = list[j] /\ j \in 1 .. n
      BY <1>5, <2>2
    <3>2. j < k + 1
      BY <1>1
    <3> QED BY <3>1, <3>2, <1>4
  <2>3. CASE ~ (k < i) /\ ~ (j < i)
    <3>1. l[k] = list[k + 1] /\ k + 1 \in 1 .. n /\ l[j] = list[j + 1] /\ j + 1 \in 1 .. n
      BY <1>5, <2>3
    <3>2. j + 1 < k + 1
      BY <1>1
    <3> QED BY <3>1, <3>2, <1>4
  <2> QED BY <2>1, <2>2, <2>3
<1>7. \A k \in DOMAIN l : \E j \in DOMAIN list : j # i /\ l[k] = list[j]
  BY <1>1, <1>3, <1>5
<1>8. \A j \in DOMAIN list : j # i => list[j].idx # list[i].idx
  BY <1>1, <1>4
<1>9. \A j \in DOMAIN list : j # i => \E k \in DOMAIN l : l[k] = list[j]
  <2> SUFFICES ASSUME NEW j \in 1 .. n, j # i PROVE \E k \in 1 .. n - 1 : l[k] = list[j]
    BY <1>1, <1>3
  <2>1. CASE j < i
    <3>1. j \in 1 .. n - 1
      BY <1>1, <2>1
    <3> QED BY <3>1, <2>1, <1>5
  <2>2. CASE ~ (j < i)
    <3>1. j - 1 \in 1 .. n - 1 /\ ~ (j - 1 < i) /\ (j - 1) + 1 = j
      BY <1>1, <2>2
    <3> QED BY <3>1, <1>5
  <2> QED BY <2>1, <2>2
<1>10. Listed(l) = Listed(list) \ {list[i].idx}
  <2>1. \A k \in DOMAIN l : l[k].idx \in Listed(list) \ {list[i].idx}
    BY <1>7, <1>8 DEF Listed
  <2>2. \A j \in DOMAIN list : list[j].idx # list[i].idx => list[j].idx \in Listed(l)
    BY <1>9 DEF Listed
  <2> QED BY <2>1, <2>2 DEF Listed
<1> QED BY <1>6, <1>7, <1>10 DEF l

LEMMA TailKeepsOrder ==
    ASSUME NEW S, NEW list \in Seq(S),
           \A q \in S : q.idx \in Int,
           Sorted(list),
           list # <<>>
    PROVE  /\ Sorted(Tail(list))
           /\ Listed(Tail(list)) = Listed(list) \ {list[1].idx}
           /\ \A k \in DOMAIN Tail(list) : \E j \in DOMAIN list : Tail(list)[k] = list[j]
<1>1. Len(list) \in Nat /\ Len(list) # 0
  BY EmptySeq, LenProperties
<1>2. 1 \in 1 .. Len(list)
  BY <1>1
<1>3. Tail(list) = RemoveAt(list, 1)
  <2>1. /\ Tail(list) \in Seq(S) /\ Len(Tail(list)) = Len(list) - 1
        /\ \A i \in 1 .. Len(Tail(list)) : Tail(list)[i] = list[i + 1]
    BY HeadTailProperties
  <2> DEFINE t == Tail(list)
             r == RemoveAt(list, 1)
  <2>2. /\ r \in Seq(S) /\ Len(r) = Len(list) - 1
        /\ \A j \in 1 .. Len(list) - 1 : r[j] = IF j < 1 THEN list[j] ELSE list[j + 1]
    BY <1>2, RemoveAtProperties
  <2>3. t \in Seq(S) /\ Len(t) = Len(r) /\ \A i \in 1 .. Len(t) : t[i] = list[i + 1]
    BY <2>1, <2>2
  <2> HIDE DEF t, r
  <2>4. \A i \in 1 .. Len(t) : t[i] = r[i]
    BY <1>1, <2>2, <2>3
  <2>5. t = r
    BY <2>2, <2>3, <2>4, SeqEqual
  <2> QED BY <2>5 DEF t, r
<1> DEFINE i == 1
<1>4. i \in 1 .. Len(list)
  BY <1>2
<1> HIDE DEF i
<1>5. LET l == RemoveAt(list, i)
      IN  /\ Sorted(l)
          /\ Listed(l) = Listed(list) \ {list[i].idx}
          /\ \A k \in DOMAIN l : \E j \in DOMAIN list : l[k] = list[j]
  BY <1>4, RemoveAtKeepsOrder
<1> QED BY <1>3, <1>5 DEF i

\* A list in order, less than a circle ahead of base, and a packet in the
\* window that starts at base; place i has the number of origin + i.
Insertable(list, p, origin, base) ==
    /\ Sorted(list)
    /\ \A j \in DOMAIN list : /\ list[j].seq = u16(origin + list[j].idx)
                              /\ list[j].idx - base \in 0 .. SEQNUM_MAX
    /\ p.seq = u16(origin + p.idx)
    /\ p.idx - base \in 1 .. MAX_RELIABLE_WINDOW_SIZE - 1

\* l is list in order with p in it.
Inserted(l, list, p) ==
    /\ Sorted(l)
    /\ Listed(l) = Listed(list) \cup {p.idx}
    /\ \A k \in DOMAIN l : l[k] = p \/ \E j \in DOMAIN list : l[k] = list[j]

\* insert() puts a packet of the window that starts after base at its place,
\* once, if all packets of the list are less than a circle ahead of base.
LEMMA InsertKeepsOrder ==
    ASSUME NEW S, NEW list \in Seq(S), NEW p \in S,
           \A q \in S : q.idx \in Int,
           NEW origin \in Int, NEW base \in Int,
           Insertable(list, p, origin, base)
    PROVE  Inserted(insert(list, p, u16(origin + base)), list, p)
<1> SUFFICES LET l == insert(list, p, u16(origin + base))
             IN  /\ Sorted(l)
                 /\ Listed(l) = Listed(list) \cup {p.idx}
                 /\ \A k \in DOMAIN l : l[k] = p \/ \E j \in DOMAIN list : l[k] = list[j]
  BY DEF Inserted
<1>0. /\ Sorted(list)
      /\ \A j \in DOMAIN list : /\ list[j].seq = u16(origin + list[j].idx)
                                /\ list[j].idx - base \in 0 .. SEQNUM_MAX
      /\ p.seq = u16(origin + p.idx)
      /\ p.idx - base \in 1 .. MAX_RELIABLE_WINDOW_SIZE - 1
  BY DEF Insertable
<1> USE <1>0
<1> DEFINE next_expected == u16(origin + base)
           i == InsertPosition(list, p.seq, next_expected)
           n == Len(list)
           w == MAX_RELIABLE_WINDOW_SIZE
<1>1. /\ n \in Nat /\ DOMAIN list = 1 .. n
      /\ \A j \in 1 .. n : list[j].idx \in Int
      /\ p.idx \in Int
  BY LenProperties, ElementOfSeq
<1>2. w \in 1 .. SEQNUM_MAX /\ SEQNUM_MAX \in Nat
  BY MaxReliableWindowAssumption, CircleSize
<1>3. p.idx - base \in 0 .. SEQNUM_MAX
  BY <1>2
<1>4. /\ i \in 1 .. n + 1
      /\ \A j \in 1 .. i - 1 : GoesBefore(list[j].seq, p.seq, next_expected)
      /\ i =< n => ~ GoesBefore(list[i].seq, p.seq, next_expected)
  BY InsertPositionExists
<1>5. \A j \in 1 .. n : GoesBefore(list[j].seq, p.seq, next_expected)
                           <=> list[j].idx < p.idx
  <2> SUFFICES ASSUME NEW j \in 1 .. n
               PROVE  GoesBefore(list[j].seq, p.seq, next_expected) <=> list[j].idx < p.idx
    OBVIOUS
  <2> DEFINE x == list[j].idx
             y == p.idx
  <2>1. x \in Int /\ y \in Int /\ x - base \in 0 .. SEQNUM_MAX /\ y - base \in 0 .. SEQNUM_MAX
    BY <1>1, <1>3
  <2>2. list[j].seq = u16(origin + x) /\ p.seq = u16(origin + y)
    BY <1>1
  <2> HIDE DEF x, y
  <2>3. GoesBefore(u16(origin + x), u16(origin + y), u16(origin + base)) <=> x < y
    BY <2>1, OlderGoesBefore
  <2> QED BY <2>2, <2>3 DEF x, y
<1>6. seqnum_in_window(p.seq, next_expected, w) /\ p.seq # next_expected
  <2> DEFINE e == origin + base
             x == p.idx - base
  <2>1. e \in Int /\ x \in 0 .. SEQNUM_MAX /\ x < w /\ x # 0 /\ origin + p.idx = e + x
    BY <1>1, <1>2, <1>3
  <2>2. p.seq = u16(e + x)
    BY <2>1
  <2> HIDE DEF e, x, w
  <2>3. seqnum_in_window(u16(e + x), u16(e), w)
    BY <1>2, <2>1, WindowIsPrefix
  <2>4. u16(e + x) # u16(e)
    BY <2>1, NumberInjective
  <2> QED BY <2>2, <2>3, <2>4 DEF e
<1> HIDE DEF i, n, w, next_expected
<1>7. \A j \in 1 .. i - 1 : list[j].idx < p.idx
  <2>1. \A j \in 1 .. i - 1 : j \in 1 .. n
    BY <1>1, <1>4
  <2> QED BY <2>1, <1>4, <1>5
<1>8. i =< n => i \in 1 .. n /\ ~ (list[i].idx < p.idx)
  BY <1>1, <1>4, <1>5
<1>9. CASE i =< n /\ list[i].seq = p.seq
  <2>1. i \in 1 .. n /\ list[i].idx = p.idx
    <3>1. i \in 1 .. n
      BY <1>8, <1>9
    <3> DEFINE x == list[i].idx
               y == p.idx
               a == origin + x
               b == origin + y
    <3>2. x \in Int /\ y \in Int /\ x - base \in 0 .. SEQNUM_MAX /\ y - base \in 0 .. SEQNUM_MAX
      BY <1>1, <1>3, <3>1
    <3>3. u16(a) = u16(b)
      BY <1>1, <1>9, <3>1
    <3> HIDE DEF x, y
    <3>4. a \in Int /\ b \in Int /\ a - b =< SEQNUM_MAX /\ b - a =< SEQNUM_MAX
      BY <1>2, <3>2
    <3>5. a = b => x = y
      BY <3>2
    <3> HIDE DEF a, b
    <3>6. a = b
      BY <3>3, <3>4, NumbersDiffer
    <3>7. x = y
      BY <3>5, <3>6
    <3> QED BY <3>1, <3>7 DEF x, y
  <2>2. insert(list, p, next_expected) = list
    BY <1>9 DEF insert, i, n
  <2>3. p.idx \in Listed(list)
    BY <2>1, <1>1 DEF Listed
  <2>4. Listed(list) = Listed(list) \cup {p.idx}
    BY <2>3
  <2> QED BY <2>2, <2>4 DEF next_expected
<1>10. CASE ~ (i =< n /\ list[i].seq = p.seq)
  <2>1. insert(list, p, next_expected) = InsertAt(list, i, p)
    BY <1>6, <1>10 DEF insert, i, n, w
  <2>2. i =< n => p.idx < list[i].idx
    <3>1. SUFFICES ASSUME i =< n PROVE p.idx < list[i].idx
      OBVIOUS
    <3>2. i \in 1 .. n /\ ~ (list[i].idx < p.idx) /\ list[i].seq # p.seq
      BY <3>1, <1>8, <1>10
    <3>3. list[i].idx # p.idx
      BY <3>2, <1>1
    <3> QED BY <3>2, <3>3, <1>1
  <2>3. LET l == InsertAt(list, i, p)
        IN  /\ Sorted(l)
            /\ Listed(l) = Listed(list) \cup {p.idx}
            /\ \A k \in DOMAIN l : l[k] = p \/ \E j \in DOMAIN list : l[k] = list[j]
    BY <1>4, <1>7, <2>2, InsertAtKeepsOrder DEF n
  <2> QED BY <2>1, <2>3 DEF next_expected
<1> QED BY <1>9, <1>10
=============================================================================
