----------------------------- MODULE TCPTahoeProofs ----------------------------
(***************************************************************************)
(* The sender of TCPTahoe, for every payload, segment size, window, number  *)
(* of timeouts and of duplicated packets: the two contexts number the bytes *)
(* alike, every segment carries the bytes of its sequence number, the       *)
(* retransmission timer covers exactly what is outstanding, and what is     *)
(* outstanding fits in the congestion window.                               *)
(*                                                                          *)
(* The reliability context numbers the segments when they leave the queue,  *)
(* the congestion control context cuts them out of the send buffer when it  *)
(* puts them there.  The invariant therefore numbers the events of the      *)
(* queue: the first segment gets SND.NXT of the reliability context, and    *)
(* the number after the last is SND.NXT of congestion control.              *)
(***************************************************************************)
EXTENDS TCPTahoe, SeqSpaceProofs, SequenceTheorems, FiniteSetTheorems

\* The streams for which the theorems hold.  The container's constructor passes 1
\* as the initial sequence number, so with fewer than 2^31 bytes the numbers of a
\* stream do not wrap around.  The bytes 22 and 23 stand for SYN and FIN in the
\* send buffer.
StreamFits(P) ==
    /\ P \in Seq(Nat)
    /\ Iss + Len(P) + 3 <= IntMax
    /\ \A i \in 1 .. Len(P) : P[i] # SynByte /\ P[i] # FinByte

StreamsFit ==
    /\ Iss \in Nat \ {0}
    /\ Mss >= 2
    /\ SendLengths \subseteq Nat /\ RecvLengths \subseteq Nat
    /\ SynByte \in Nat /\ FinByte \in Nat
    /\ \A h \in Hosts : StreamFits(Payload[h])

-------------------------------------------------------------------------------
\* Numbers below half the range: sums, differences and comparisons are the usual.

\* A sum that does not leave the lower half.
LEMMA SmallPlus ==
    ASSUME NEW a \in Nat, NEW n \in Nat, a + n <= IntMax
    PROVE  Plus(a, n) = a + n
<1>1. IntMax \in Nat /\ Modulus = 2 * (IntMax + 1) BY IntMaxAssumption DEF Modulus
<1>2. a + n \in 0 .. (Modulus - 1) BY <1>1
<1> QED BY <1>1, <1>2, ModSmall DEF Plus

\* A difference that does not become negative.
LEMMA SmallMinus ==
    ASSUME NEW a \in Nat, NEW b \in Nat, b <= a, a <= IntMax
    PROVE  Minus(a, b) = a - b
<1>1. IntMax \in Nat /\ Modulus = 2 * (IntMax + 1) BY IntMaxAssumption DEF Modulus
<1>2. a - b \in 0 .. (Modulus - 1) BY <1>1
<1> QED BY <1>1, <1>2, ModSmall DEF Minus

\* The circular comparison is the usual one.
LEMMA SmallLess ==
    ASSUME NEW a \in Nat, NEW b \in Nat, a <= IntMax, b <= IntMax
    PROVE  less_than(a, b) <=> a < b
BY IntMaxAssumption DEF less_than

\* Sums are sequence numbers.
LEMMA PlusType ==
    ASSUME NEW a \in Int, NEW n \in Int
    PROVE  Plus(a, n) \in SeqNum
<1>1. IntMax \in Nat /\ Modulus \in Nat \ {0} BY IntMaxAssumption DEF Modulus
<1>2. PICK x \in Int : x = a + n OBVIOUS
<1>3. x % Modulus \in 0 .. (Modulus - 1) BY <1>1
<1> QED BY <1>2, <1>3 DEF Plus, SeqNum

\* The tests of an acknowledgement, between two numbers below half the range.
LEMMA AckRange ==
    ASSUME NEW u \in Nat, NEW m \in Nat, u <= m, m <= IntMax, NEW a \in SeqNum
    PROVE  /\ between_equal_right(u, a, m) <=> u < a /\ a <= m
           /\ between_equal(u, a, m) <=> u <= a /\ a <= m
<1>1. IntMax \in Nat /\ a \in 0 .. (2 * IntMax + 1) BY IntMaxAssumption DEF Modulus, SeqNum
<1> QED BY <1>1 DEF between_equal_right, between_equal, less_than_or_equal, less_than

\* What the assumptions on the constants say.
LEMMA Constants ==
    ASSUME StreamsFit
    PROVE  /\ IntMax \in Nat \ {0} /\ Iss \in Nat \ {0} /\ Mss \in Nat /\ Mss >= 2
           /\ MaxReceiveWindow \in Nat /\ MaxReceiveWindow >= 2 * Mss /\ MaxReceiveWindow <= IntMax
           /\ MaxSendBuffer \in Nat \ {0}
           /\ Rfc3390Bytes \in Nat /\ InitialSsthresh \in Nat
           /\ SynByte \in Nat /\ FinByte \in Nat /\ SynByte # FinByte
           /\ Client # Server
BY IntMaxAssumption, TCPAssumption, HostsAssumption DEF StreamsFit

-------------------------------------------------------------------------------
\* The packets of the network, and the reassembly buffer of whatever packets
\* passed the test of their sequence number.

Packets ==
    [seq : SeqNum, ackno : SeqNum, ack : BOOLEAN, wnd : 0 .. MaxReceiveWindow,
     syn : BOOLEAN, fin : BOOLEAN, data : Seq(Nat)]
Buffers == [started : BOOLEAN, first : SeqNum, packets : Seq(Packets)]

\* Sequence numbers are numbers.
LEMMA SeqNumInt ==
    ASSUME NEW a \in SeqNum
    PROVE  a \in Int
BY IntMaxAssumption DEF SeqNum, Modulus

\* Differences are numbers.
LEMMA MinusType ==
    ASSUME NEW a \in Int, NEW b \in Int
    PROVE  Minus(a, b) \in Nat
<1>1. IntMax \in Nat /\ Modulus \in Nat \ {0} BY IntMaxAssumption DEF Modulus
<1>2. PICK x \in Int : x = a - b OBVIOUS
<1>3. x % Modulus \in 0 .. (Modulus - 1) BY <1>1
<1>4. x % Modulus \in Nat BY <1>1, <1>3
<1> QED BY <1>2, <1>4 DEF Minus

\* At most all bytes of a packet are new.
LEMMA NewBytesType ==
    ASSUME NEW seq \in SeqNum, NEW p \in Packets
    PROVE  /\ NewBytesTouching(seq, p) \in Int
           /\ NewBytesTouching(seq, p) <= Len(p.data)
           /\ Len(p.data) \in Nat
<1>1. p.seq \in Int /\ seq \in Int /\ Len(p.data) \in Nat
  <2>1. p.seq \in SeqNum /\ p.data \in Seq(Nat) BY DEF Packets
  <2>2. p.seq \in Int /\ seq \in Int BY <2>1, SeqNumInt
  <2> QED BY <2>1, <2>2
<1>2. PICK m \in Nat : m = Minus(seq, p.seq) BY <1>1, MinusType
<1>3. PICK l \in Nat : l = Len(p.data) BY <1>1
<1>4. NewBytesTouching(seq, p) \in {l, l - m, 0} BY <1>2, <1>3 DEF NewBytesTouching
<1> QED BY <1>2, <1>3, <1>4

\* How far size() has come: the next number, and the bytes counted so far.
Counts == [seq : SeqNum, total : Int]

\* The rounds of size() are those its definition says, and count with integers.
LEMMA CountRun ==
    ASSUME NEW b \in Buffers
    PROVE  /\ CountRounds(b)[0] = [seq |-> b.first, total |-> 0]
           /\ \A k \in 1 .. Len(b.packets) :
                 CountRounds(b)[k] = CountPacket(CountRounds(b)[k - 1], b.packets[k])
           /\ \A k \in 0 .. Len(b.packets) : CountRounds(b)[k] \in Counts
<1>1. PICK q \in Seq(Packets) : q = b.packets BY DEF Buffers
<1>2. PICK N \in Nat : N = Len(q) OBVIOUS
<1>3. PICK S : S = Counts OBVIOUS
<1>4. PICK z : z = [seq |-> b.first, total |-> 0] OBVIOUS
<1>5. z \in S BY <1>3, <1>4 DEF Buffers, Counts
<1>6. ASSUME NEW k \in 1 .. N, NEW a \in S PROVE CountPacket(a, q[k]) \in S
  <2>1. PICK p \in Packets : p = q[k] BY <1>2
  <2>2. a.seq \in SeqNum /\ a.total \in Int BY <1>3 DEF Counts
  <2>3. PICK n \in Int : n = IF IsGap(a.seq, p) THEN Len(p.data) ELSE NewBytesTouching(a.seq, p)
    BY <2>2, NewBytesType
  <2>4. PICK from \in Int : from = IF IsGap(a.seq, p) THEN p.seq ELSE a.seq
    BY <2>2, SeqNumInt DEF Packets
  <2>5. CountPacket(a, p) = [seq |-> Plus(from, n), total |-> a.total + n] BY <2>3, <2>4 DEF CountPacket
  <2>6. Plus(from, n) \in SeqNum /\ a.total + n \in Int BY <2>2, PlusType
  <2> QED BY <1>3, <2>1, <2>5, <2>6 DEF Counts
<1>7. PICK R : R = [k \in 1 .. N |-> [a \in S |-> CountPacket(a, q[k])]] OBVIOUS
<1>8. R \in RoundsOver(S, N) BY <1>6, <1>7 DEF RoundsOver
<1>9. PICK f : IsLoop(f, S, z, N, R) BY <1>5, <1>8, LoopRuns
<1>10. f \in [0 .. N -> S] /\ f[0] = z /\ \A k \in 1 .. N : f[k] = R[k][f[k - 1]] BY <1>9 DEF IsLoop
<1>11. \A k \in 1 .. N : f[k] = CountPacket(f[k - 1], q[k])
  <2> TAKE k \in 1 .. N
  <2>1. k - 1 \in 0 .. N OBVIOUS
  <2>2. f[k - 1] \in S BY <1>10, <2>1
  <2> QED BY <1>7, <1>10, <2>2
<1> DEFINE E(g) == [k \in 0 .. N |-> IF k = 0 THEN z ELSE CountPacket(g[k - 1], q[k])]
<1>12. f = E(f) BY <1>10, <1>11
<1>13. CountRounds(b) = CHOOSE g : g = E(g) BY <1>1, <1>2, <1>4 DEF CountRounds
<1> HIDE DEF E
<1>14. CountRounds(b) = E(CountRounds(b)) BY <1>12, <1>13
<1>15. PICK g : g = CountRounds(b) OBVIOUS
<1>16. g[0] = z /\ \A k \in 1 .. N : g[k] = CountPacket(g[k - 1], q[k])
  <2>1. PICK h : h = E(g) OBVIOUS
  <2>2. h[0] = z /\ \A k \in 1 .. N : h[k] = CountPacket(g[k - 1], q[k]) BY <2>1 DEF E
  <2> QED BY <1>14, <1>15, <2>1, <2>2
<1> DEFINE G == {k \in Nat : k <= N => g[k] \in S}
<1>17. 0 \in G BY <1>5, <1>16
<1>18. ASSUME NEW k \in Nat, k \in G PROVE k + 1 \in G
  <2> SUFFICES ASSUME k + 1 <= N PROVE g[k + 1] \in S OBVIOUS
  <2>1. PICK j \in 1 .. N : j = k + 1 OBVIOUS
  <2>2. g[k] \in S /\ k = j - 1 BY <1>18, <2>1
  <2> QED BY <1>6, <1>16, <2>1, <2>2
<1>19. \A k \in Nat : k \in G
  <2> HIDE DEF G
  <2> QED BY <1>17, <1>18, SetInduction
<1>20. \A k \in 0 .. N : g[k] \in S BY <1>19
<1> QED BY <1>1, <1>2, <1>3, <1>4, <1>15, <1>16, <1>20

\* size() counts with integers.
LEMMA SizeType ==
    ASSUME NEW b \in Buffers
    PROVE  size(b) \in Int
<1>1. PICK N \in Nat : N = Len(b.packets) BY DEF Buffers
<1>2. CountRounds(b)[N] \in Counts
  <2>1. \A k \in 0 .. N : CountRounds(b)[k] \in Counts BY <1>1, CountRun
  <2> QED BY <2>1
<1> QED BY <1>1, <1>2 DEF size, Counts

\* lower_bound finds a place in the list or its end.
LEMMA LowerBoundType ==
    ASSUME NEW b \in Buffers, NEW p
    PROVE  LowerBound(b, p) \in 0 .. Len(b.packets)
<1>1. PICK q \in Seq(Packets) : q = b.packets BY DEF Buffers
<1>2. PICK N \in Nat : N = Len(q) /\ DOMAIN q = 1 .. N OBVIOUS
<1>3. PICK B : B = {i \in DOMAIN q : less_than(q[i].seq, p.seq)} OBVIOUS
<1>4. B \in SUBSET (1 .. N) BY <1>2, <1>3
<1>5. IsFiniteSet(1 .. N) /\ Cardinality(1 .. N) = IF 1 > N THEN 0 ELSE N - 1 + 1
  <2>1. 1 \in Int /\ N \in Int OBVIOUS
  <2> QED BY <2>1, FS_Interval
<1>6. Cardinality(1 .. N) = N BY <1>5
<1>7. IsFiniteSet(B) /\ Cardinality(B) <= Cardinality(1 .. N) BY <1>4, <1>5, FS_Subset
<1>8. Cardinality(B) \in Nat BY <1>7, FS_CardinalityType
<1>9. Cardinality(B) \in 0 .. N BY <1>6, <1>7, <1>8
<1>10. LowerBound(b, p) = Cardinality(B) BY <1>1, <1>3 DEF LowerBound
<1> QED BY <1>1, <1>2, <1>9, <1>10

\* b with the list q.
WithList(b, q) == [started |-> b.started, first |-> b.first, packets |-> q]

\* A packet of a set S put into a list of packets of S.
LEMMA PlacedOver ==
    ASSUME NEW b \in Buffers, NEW S, S \subseteq Packets, b.packets \in Seq(S), NEW p \in S
    PROVE  \E q \in Seq(S) : Placed(b, p) = WithList(b, q)
<1>1. PICK q \in Seq(S) : q = b.packets OBVIOUS
<1>2. PICK N \in Nat : N = Len(q) /\ DOMAIN q = 1 .. N OBVIOUS
<1>3. PICK i \in 1 .. (N + 1) : i = LowerBound(b, p) + 1
  <2>1. LowerBound(b, p) \in 0 .. N BY <1>1, <1>2, LowerBoundType
  <2> QED BY <2>1
<1>4. PICK r : r = InsertAt(q, i, p) OBVIOUS
<1>5. r \in Seq(S)
  <2>1. SubSeq(q, 1, i - 1) \in Seq(S) BY <1>2
  <2>2. SubSeq(q, i, Len(q)) \in Seq(S) BY <1>2
  <2>3. PICK x \in Seq(S) : x = SubSeq(q, 1, i - 1) BY <2>1
  <2>4. PICK y \in Seq(S) : y = SubSeq(q, i, Len(q)) BY <2>2
  <2>5. <<p>> \in Seq(S) OBVIOUS
  <2>6. x \o <<p>> \in Seq(S) BY <2>5
  <2>7. (x \o <<p>>) \o y \in Seq(S) BY <2>6
  <2> QED BY <1>4, <2>3, <2>4, <2>7 DEF InsertAt
<1>6. [b EXCEPT !.packets = InsertAt(@, i, p)] = WithList(b, r) BY <1>1, <1>4 DEF Buffers, WithList
<1>7. ASSUME AlreadyInserted(b, p) PROVE \E t \in Seq(S) : [b EXCEPT !.packets[i] = p] = WithList(b, t)
  <2>1. i \in 1 .. N BY <1>1, <1>2, <1>3, <1>7 DEF AlreadyInserted
  <2>2. [q EXCEPT ![i] = p] \in Seq(S) BY <1>2, <2>1
  <2>3. PICK t \in Seq(S) : t = [q EXCEPT ![i] = p] BY <2>2
  <2>4. [b EXCEPT !.packets[i] = p] = [b EXCEPT !.packets = t] BY <1>1, <2>3
  <2>5. [b EXCEPT !.packets = t] = WithList(b, t) BY DEF Buffers, WithList
  <2> QED BY <2>4, <2>5
<1>8. PICK x : x = [b EXCEPT !.packets[i] = p] OBVIOUS
<1>9. PICK y : y = [b EXCEPT !.packets = InsertAt(@, i, p)] OBVIOUS
<1>10. Placed(b, p) = IF AlreadyInserted(b, p)
                      THEN IF Len(b.packets[i].data) <= Len(p.data) THEN x ELSE b ELSE y
  BY <1>3, <1>8, <1>9 DEF Placed
<1>11. b = WithList(b, q) BY <1>1 DEF Buffers, WithList
<1>12. y = WithList(b, r) BY <1>6, <1>9
<1>13. AlreadyInserted(b, p) => \E t \in Seq(S) : x = WithList(b, t) BY <1>7, <1>8
<1> QED BY <1>5, <1>10, <1>11, <1>12, <1>13

\* A packet put into the list.
LEMMA PlacedType ==
    ASSUME NEW b \in Buffers, NEW p \in Packets
    PROVE  Placed(b, p) \in Buffers
<1>1. b.packets \in Seq(Packets) BY DEF Buffers
<1>2. PICK q \in Seq(Packets) : Placed(b, p) = WithList(b, q) BY <1>1, PlacedOver
<1> QED BY <1>2 DEF WithList, Buffers

\* insert() keeps the buffer's type, and what it returns is a number.
LEMMA InsertType ==
    ASSUME NEW b \in Buffers, NEW p \in Packets
    PROVE  insert(b, p) \in Buffers /\ num_inserted(b, p) \in Int
<1>1. PICK r \in Buffers : r = Placed(b, p) BY PlacedType
<1>2. size(r) \in Int /\ size(b) \in Int BY SizeType
<1> QED BY <1>1, <1>2 DEF insert, num_inserted

\* How far get_continuous_data() has come.
Scans == [seq : SeqNum, used : Nat, hole : BOOLEAN, data : Seq(Nat)]

\* The rounds of get_continuous_data() are those its definition says.
LEMMA TakeRun ==
    ASSUME NEW b \in Buffers
    PROVE  /\ TakeRounds(b)[0] = [seq |-> b.first, used |-> 0, hole |-> FALSE, data |-> <<>>]
           /\ \A k \in 1 .. Len(b.packets) :
                 TakeRounds(b)[k] = TakePacket(TakeRounds(b)[k - 1], b.packets[k])
           /\ \A k \in 0 .. Len(b.packets) : TakeRounds(b)[k] \in Scans
<1>1. PICK q \in Seq(Packets) : q = b.packets BY DEF Buffers
<1>2. PICK N \in Nat : N = Len(q) OBVIOUS
<1>3. PICK S : S = Scans OBVIOUS
<1>4. PICK z : z = [seq |-> b.first, used |-> 0, hole |-> FALSE, data |-> <<>>] OBVIOUS
<1>5. z \in S
  <2>1. <<>> \in Seq(Nat) OBVIOUS
  <2> QED BY <1>3, <1>4, <2>1 DEF Buffers, Scans
<1>6. ASSUME NEW k \in 1 .. N, NEW a \in S PROVE TakePacket(a, q[k]) \in S
  <2>1. PICK p \in Packets : p = q[k] BY <1>2
  <2>2. a.seq \in SeqNum /\ a.used \in Nat /\ a.hole \in BOOLEAN /\ a.data \in Seq(Nat) BY <1>3 DEF Scans
  <2>3. PICK n \in Int : n = NewBytesTouching(a.seq, p) /\ n <= Len(p.data) BY <2>2, NewBytesType
  <2>4. PICK d \in Seq(Nat) : d = SubSeq(p.data, Len(p.data) - n + 1, Len(p.data))
    <3>1. PICK s \in Seq(Nat) : s = p.data BY DEF Packets
    <3>2. PICK l \in Nat : l = Len(s) OBVIOUS
    <3>3. PICK f \in Int : f = l - n + 1 /\ f >= 1 BY <2>3, <3>1, <3>2
    <3>4. SubSeq(s, f, l) \in Seq(Nat) BY <3>2, <3>3
    <3> QED BY <3>1, <3>2, <3>3, <3>4
  <2>5. PICK x \in SeqNum : x = Plus(a.seq, n) BY <2>2, PlusType, SeqNumInt
  <2>6. PICK y \in Seq(Nat) : y = a.data \o d
    <3>1. a.data \o d \in Seq(Nat) BY <2>2
    <3> QED BY <3>1
  <2>7. TakePacket(a, p) = IF a.hole \/ IsGap(a.seq, p) THEN [a EXCEPT !.hole = TRUE]
                           ELSE [seq |-> x, used |-> a.used + 1, hole |-> FALSE, data |-> y]
    BY <2>3, <2>4, <2>5, <2>6 DEF TakePacket
  <2>8. [a EXCEPT !.hole = TRUE] \in S BY <1>3 DEF Scans
  <2>9. [seq |-> x, used |-> a.used + 1, hole |-> FALSE, data |-> y] \in S BY <1>3, <2>2 DEF Scans
  <2> QED BY <2>1, <2>7, <2>8, <2>9
<1>7. PICK R : R = [k \in 1 .. N |-> [a \in S |-> TakePacket(a, q[k])]] OBVIOUS
<1>8. R \in RoundsOver(S, N) BY <1>6, <1>7 DEF RoundsOver
<1>9. PICK f : IsLoop(f, S, z, N, R) BY <1>5, <1>8, LoopRuns
<1>10. f \in [0 .. N -> S] /\ f[0] = z /\ \A k \in 1 .. N : f[k] = R[k][f[k - 1]] BY <1>9 DEF IsLoop
<1>11. \A k \in 1 .. N : f[k] = TakePacket(f[k - 1], q[k])
  <2> TAKE k \in 1 .. N
  <2>1. k - 1 \in 0 .. N OBVIOUS
  <2>2. f[k - 1] \in S BY <1>10, <2>1
  <2> QED BY <1>7, <1>10, <2>2
<1> DEFINE E(g) == [k \in 0 .. N |-> IF k = 0 THEN z ELSE TakePacket(g[k - 1], q[k])]
<1>12. f = E(f) BY <1>10, <1>11
<1>13. TakeRounds(b) = CHOOSE g : g = E(g) BY <1>1, <1>2, <1>4 DEF TakeRounds
<1> HIDE DEF E
<1>14. TakeRounds(b) = E(TakeRounds(b)) BY <1>12, <1>13
<1>15. PICK g : g = TakeRounds(b) OBVIOUS
<1>16. g[0] = z /\ \A k \in 1 .. N : g[k] = TakePacket(g[k - 1], q[k])
  <2>1. PICK h : h = E(g) OBVIOUS
  <2>2. h[0] = z /\ \A k \in 1 .. N : h[k] = TakePacket(g[k - 1], q[k]) BY <2>1 DEF E
  <2> QED BY <1>14, <1>15, <2>1, <2>2
<1> DEFINE G == {k \in Nat : k <= N => g[k] \in S}
<1>17. 0 \in G BY <1>5, <1>16
<1>18. ASSUME NEW k \in Nat, k \in G PROVE k + 1 \in G
  <2> SUFFICES ASSUME k + 1 <= N PROVE g[k + 1] \in S OBVIOUS
  <2>1. PICK j \in 1 .. N : j = k + 1 OBVIOUS
  <2>2. g[k] \in S /\ k = j - 1 BY <1>18, <2>1
  <2> QED BY <1>6, <1>16, <2>1, <2>2
<1>19. \A k \in Nat : k \in G
  <2> HIDE DEF G
  <2> QED BY <1>17, <1>18, SetInduction
<1>20. \A k \in 0 .. N : g[k] \in S BY <1>19
<1> QED BY <1>1, <1>2, <1>3, <1>4, <1>15, <1>16, <1>20

\* What get_continuous_data() takes from the buffer and what it leaves there.
LEMMA ScanType ==
    ASSUME NEW b \in Buffers
    PROVE  /\ continuous_data(b) \in Seq(Nat) /\ after_continuous_data(b) \in Buffers
           /\ ContinuousScan(b) \in Scans
           /\ \A a \in Scans : a = ContinuousScan(b) =>
                 after_continuous_data(b) =
                     [b EXCEPT !.first = a.seq,
                               !.packets = SubSeq(b.packets, a.used + 1, Len(b.packets))]
<1>1. PICK q \in Seq(Packets) : q = b.packets BY DEF Buffers
<1>2. PICK N \in Nat : N = Len(q) OBVIOUS
<1>3. TakeRounds(b)[N] \in Scans
  <2>1. \A k \in 0 .. N : TakeRounds(b)[k] \in Scans BY <1>1, <1>2, TakeRun
  <2> QED BY <2>1
<1>20. PICK a \in Scans : a = ContinuousScan(b) BY <1>1, <1>2, <1>3 DEF ContinuousScan
<1>21. a.seq \in SeqNum /\ a.used \in Nat /\ a.data \in Seq(Nat) BY DEF Scans
<1>22. PICK r \in Seq(Packets) : r = SubSeq(q, a.used + 1, N)
  <2>1. SubSeq(q, a.used + 1, N) \in Seq(Packets) BY <1>2, <1>21
  <2> QED BY <2>1
<1>23. after_continuous_data(b) = [b EXCEPT !.first = a.seq, !.packets = r]
  BY <1>1, <1>2, <1>20, <1>22 DEF after_continuous_data, Buffers
<1>24. [b EXCEPT !.first = a.seq, !.packets = r] \in Buffers BY <1>21 DEF Buffers
<1> QED BY <1>1, <1>2, <1>20, <1>21, <1>22, <1>23, <1>24 DEF continuous_data

-------------------------------------------------------------------------------
\* The queue of a host.

Segments == [syn : BOOLEAN, ack : BOOLEAN, fin : BOOLEAN, data : Seq(Nat)]
Events == [event : ProtocolEvents, p : Segments]

\* The sequence numbers an event takes when it is handled.
EventLength(x) == IF x.event = "send_packet" THEN SegmentLength(x.p) ELSE 0

\* An event that touches neither the send buffer nor SND.NXT.
Plain(x) ==
    /\ x \in Events
    /\ x.event \notin {"resend_packet", "send_buffer_not_empty", "send_buffer_not_full"}
    /\ x.event = "send_packet" => ~x.p.syn /\ ~x.p.fin /\ x.p.data = <<>>

\* x may be handled when SND.NXT is s, with n bytes of P accepted: a SYN has the
\* first number, a FIN (only when closing) the one after the data, and data are
\* the bytes that belong to s.
FitsAt(x, s, P, n, closing) ==
    /\ x \in Events
    /\ x.event # "resend_packet"
    /\ x.event = "send_packet" =>
        /\ x.p.syn => s = Iss /\ ~x.p.fin /\ x.p.data = <<>>
        /\ x.p.fin => closing /\ s = Iss + n + 1 /\ ~x.p.syn /\ x.p.data = <<>>
        /\ x.p.data # <<>> =>
            /\ s > Iss /\ s + Len(x.p.data) <= Iss + n + 1
            /\ x.p.data = SubSeq(P, s - Iss, s - Iss + Len(x.p.data) - 1)

\* The events of q take the numbers from .. to - 1, each the right ones.
NumbersOf(q, pos, from, to, P, n, closing) ==
    /\ pos \in [1 .. (Len(q) + 1) -> Nat]
    /\ pos[1] = from /\ pos[Len(q) + 1] = to
    /\ \A i \in 1 .. Len(q) : /\ from <= pos[i] /\ pos[i] <= to
                              /\ pos[i + 1] = pos[i] + EventLength(q[i])
                              /\ FitsAt(q[i], pos[i], P, n, closing)
Numbered(q, from, to, P, n, closing) ==
    /\ q \in Seq(Events) /\ from \in Nat /\ to \in Nat /\ from <= to
    /\ \E pos : NumbersOf(q, pos, from, to, P, n, closing)

\* The length of an event, and of one that leaves the sender alone.
LEMMA EventLengthType ==
    ASSUME NEW x \in Events
    PROVE  /\ EventLength(x) \in Nat
           /\ Plain(x) => EventLength(x) = 0
BY DEF EventLength, SegmentLength, Plain, Events, Segments

\* An empty queue takes no number.
LEMMA NumberedEmpty ==
    ASSUME NEW s \in Nat, NEW P, NEW n, NEW closing
    PROVE  Numbered(<<>>, s, s, P, n, closing)
<1>1. PICK pos : pos = [i \in 1 .. 1 |-> s] OBVIOUS
<1>2. NumbersOf(<<>>, pos, s, s, P, n, closing) BY <1>1 DEF NumbersOf
<1> QED BY <1>2 DEF Numbered

\* An event that fits after the last number can be put at the end.
LEMMA NumberedAppend ==
    ASSUME NEW q, NEW from, NEW to, NEW P, NEW n, NEW closing, NEW x,
           Numbered(q, from, to, P, n, closing), FitsAt(x, to, P, n, closing)
    PROVE  Numbered(Append(q, x), from, to + EventLength(x), P, n, closing)
<1>1. q \in Seq(Events) /\ from \in Nat /\ to \in Nat /\ from <= to BY DEF Numbered
<1>2. PICK pos : NumbersOf(q, pos, from, to, P, n, closing) BY DEF Numbered
<1>3. x \in Events BY DEF FitsAt
<1>4. PICK l \in Nat : l = EventLength(x) BY <1>3, EventLengthType
<1>5. PICK r : r = Append(q, x) /\ r \in Seq(Events)
  <2>1. Append(q, x) \in Seq(Events) BY <1>1, <1>3
  <2> QED BY <2>1
<1>6. Len(r) = Len(q) + 1 /\ Len(q) \in Nat BY <1>1, <1>5
<1>7. PICK np : np = [i \in 1 .. (Len(q) + 2) |-> IF i = Len(q) + 2 THEN to + l ELSE pos[i]] OBVIOUS
<1>8. ASSUME NEW i \in 1 .. Len(r)
      PROVE  /\ from <= np[i] /\ np[i] <= to + l
             /\ np[i + 1] = np[i] + EventLength(r[i])
             /\ FitsAt(r[i], np[i], P, n, closing)
  <2>1. CASE i = Len(r)
    <3>1. r[i] = x /\ np[i] = to /\ np[i + 1] = to + l BY <1>1, <1>2, <1>5, <1>6, <1>7, <2>1 DEF NumbersOf
    <3> QED BY <1>1, <1>4, <3>1
  <2>2. CASE i # Len(r)
    <3>1. i \in 1 .. Len(q) BY <1>6, <2>2
    <3>2. r[i] = q[i] /\ np[i] = pos[i] /\ np[i + 1] = pos[i + 1] BY <1>1, <1>5, <1>6, <1>7, <3>1
    <3>3. /\ pos[i] \in Nat /\ from <= pos[i] /\ pos[i] <= to
          /\ pos[i + 1] = pos[i] + EventLength(q[i])
          /\ FitsAt(q[i], pos[i], P, n, closing)
      BY <1>2, <3>1 DEF NumbersOf
    <3> QED BY <1>1, <1>4, <3>2, <3>3
  <2> QED BY <2>1, <2>2
<1>9. np \in [1 .. (Len(r) + 1) -> Nat] /\ np[1] = from /\ np[Len(r) + 1] = to + l
  BY <1>1, <1>2, <1>4, <1>6, <1>7 DEF NumbersOf
<1>10. NumbersOf(r, np, from, to + l, P, n, closing) BY <1>8, <1>9 DEF NumbersOf
<1>11. Numbered(r, from, to + l, P, n, closing) BY <1>1, <1>4, <1>5, <1>10 DEF Numbered
<1> QED BY <1>4, <1>5, <1>11

\* The first event fits at the first number, and the others follow it.
LEMMA NumberedTail ==
    ASSUME NEW q, NEW from, NEW to, NEW P, NEW n, NEW closing,
           Numbered(q, from, to, P, n, closing), q # <<>>
    PROVE  /\ FitsAt(Head(q), from, P, n, closing)
           /\ from + EventLength(Head(q)) <= to
           /\ Numbered(Tail(q), from + EventLength(Head(q)), to, P, n, closing)
<1>1. q \in Seq(Events) /\ from \in Nat /\ to \in Nat /\ from <= to BY DEF Numbered
<1>2. PICK pos : NumbersOf(q, pos, from, to, P, n, closing) BY DEF Numbered
<1>3. Len(q) \in Nat /\ Len(q) >= 1 /\ Head(q) = q[1] /\ q[1] \in Events BY <1>1
<1>4. PICK l \in Nat : l = EventLength(q[1]) BY <1>3, EventLengthType
<1>5. PICK r : r = Tail(q) /\ r \in Seq(Events)
  <2>1. Tail(q) \in Seq(Events) BY <1>1
  <2> QED BY <2>1
<1>6. Len(r) = Len(q) - 1 /\ \A i \in 1 .. Len(r) : r[i] = q[i + 1] BY <1>1, <1>5
<1>7. PICK np : np = [i \in 1 .. Len(q) |-> pos[i + 1]] OBVIOUS
<1>8. pos[1] = from /\ pos[2] = from + l /\ FitsAt(q[1], from, P, n, closing)
  BY <1>2, <1>3, <1>4 DEF NumbersOf
<1>9. ASSUME NEW i \in 1 .. Len(q) PROVE pos[i + 1] >= from + l /\ pos[i + 1] <= to
  <2>1. DEFINE G == {k \in Nat : k + 1 <= Len(q) => pos[k + 2] >= from + l}
  <2>2. 0 \in G BY <1>1, <1>4, <1>8
  <2>3. ASSUME NEW k \in Nat, k \in G PROVE k + 1 \in G
    <3> SUFFICES ASSUME k + 2 <= Len(q) PROVE pos[k + 3] >= from + l BY <1>3
    <3>1. PICK j : j = k + 2 OBVIOUS
    <3>2. j \in 1 .. Len(q) /\ q[j] \in Events BY <1>1, <3>1
    <3>3. pos[j + 1] = pos[j] + EventLength(q[j]) /\ pos[j] \in Nat BY <1>2, <3>2 DEF NumbersOf
    <3>4. EventLength(q[j]) \in Nat BY <3>2, EventLengthType
    <3>5. pos[j] >= from + l BY <2>3, <3>1, <1>3
    <3>6. pos[j + 1] >= from + l
      <4>1. PICK a \in Nat : a = EventLength(q[j]) BY <3>4
      <4> QED BY <1>1, <1>4, <3>3, <3>5, <4>1
    <3> QED BY <3>1, <3>6
  <2>4. \A k \in Nat : k \in G
    <3> HIDE DEF G
    <3> QED BY <2>2, <2>3, SetInduction
  <2>5. PICK k \in Nat : k = i - 1 OBVIOUS
  <2>6. k \in G BY <2>4
  <2>7. pos[k + 2] >= from + l BY <2>5, <2>6
  <2>8. pos[i + 1] <= to BY <1>2, <1>3 DEF NumbersOf
  <2> QED BY <2>5, <2>7, <2>8
<1>10. from + l <= to
  <2>1. pos[1 + 1] >= from + l /\ pos[1 + 1] <= to BY <1>3, <1>9
  <2> QED BY <1>1, <1>4, <1>8, <2>1
<1>11. ASSUME NEW i \in 1 .. Len(r)
      PROVE  /\ from + l <= np[i] /\ np[i] <= to
             /\ np[i + 1] = np[i] + EventLength(r[i])
             /\ FitsAt(r[i], np[i], P, n, closing)
  <2>1. i \in 1 .. Len(q) /\ i + 1 \in 1 .. Len(q) BY <1>3, <1>6
  <2>2. PICK j : j = i + 1 OBVIOUS
  <2>3. j \in 1 .. Len(q) /\ np[i] = pos[j] /\ np[i + 1] = pos[j + 1] /\ r[i] = q[j]
    BY <1>6, <1>7, <2>1, <2>2
  <2>4. pos[j] >= from + l /\ pos[j] <= to BY <1>9, <2>1, <2>2
  <2>5. pos[j + 1] = pos[j] + EventLength(q[j]) /\ FitsAt(q[j], pos[j], P, n, closing)
    BY <1>2, <2>3 DEF NumbersOf
  <2> QED BY <2>3, <2>4, <2>5
<1>12. np \in [1 .. (Len(r) + 1) -> Nat] /\ np[1] = from + l /\ np[Len(r) + 1] = to
  BY <1>1, <1>2, <1>3, <1>6, <1>7, <1>8 DEF NumbersOf
<1>13. NumbersOf(r, np, from + l, to, P, n, closing) BY <1>11, <1>12 DEF NumbersOf
<1>14. Numbered(r, from + l, to, P, n, closing) BY <1>1, <1>4, <1>5, <1>10, <1>13 DEF Numbered
<1> QED BY <1>3, <1>4, <1>5, <1>8, <1>10, <1>14

\* r is q with events at its end that leave the sender alone.
Grown(q, r) ==
    /\ q \in Seq(Events) /\ r \in Seq(Events)
    /\ Len(q) <= Len(r)
    /\ \A i \in 1 .. Len(q) : r[i] = q[i]
    /\ \A i \in (Len(q) + 1) .. Len(r) : Plain(r[i])

\* No event at all is added.
LEMMA GrownRefl ==
    ASSUME NEW q \in Seq(Events)
    PROVE  Grown(q, q)
BY DEF Grown

\* Events are added twice.
LEMMA GrownTrans ==
    ASSUME NEW q, NEW r, NEW t, Grown(q, r), Grown(r, t)
    PROVE  Grown(q, t)
<1> USE DEF Grown
<1>1. Len(q) \in Nat /\ Len(r) \in Nat /\ Len(t) \in Nat OBVIOUS
<1>2. ASSUME NEW i \in 1 .. Len(q) PROVE t[i] = q[i] BY <1>1
<1>3. ASSUME NEW i \in (Len(q) + 1) .. Len(t) PROVE Plain(t[i])
  <2>1. CASE i \in 1 .. Len(r) BY <1>1, <2>1
  <2>2. CASE i \notin 1 .. Len(r) BY <1>1, <2>2
  <2> QED BY <2>1, <2>2
<1> QED BY <1>1, <1>2, <1>3

\* One event is added.
LEMMA GrownAppend ==
    ASSUME NEW q \in Seq(Events), NEW x, Plain(x)
    PROVE  Grown(q, Append(q, x))
<1>1. x \in Events BY DEF Plain
<1>2. /\ Append(q, x) \in Seq(Events) /\ Len(Append(q, x)) = Len(q) + 1 /\ Len(q) \in Nat
      /\ \A i \in 1 .. Len(q) : Append(q, x)[i] = q[i]
      /\ Append(q, x)[Len(q) + 1] = x
  BY <1>1
<1> QED BY <1>2 DEF Grown

\* Events that leave the sender alone take no number.
LEMMA NumberedGrown ==
    ASSUME NEW q, NEW r, Grown(q, r), NEW from, NEW to, NEW P, NEW n, NEW closing,
           Numbered(q, from, to, P, n, closing)
    PROVE  Numbered(r, from, to, P, n, closing)
<1>1. q \in Seq(Events) /\ r \in Seq(Events) /\ from \in Nat /\ to \in Nat /\ from <= to
  BY DEF Numbered, Grown
<1>2. PICK pos : NumbersOf(q, pos, from, to, P, n, closing) BY DEF Numbered
<1>3. Len(q) \in Nat /\ Len(r) \in Nat /\ Len(q) <= Len(r) BY <1>1 DEF Grown
<1>4. PICK np : np = [i \in 1 .. (Len(r) + 1) |-> IF i <= Len(q) THEN pos[i] ELSE to] OBVIOUS
<1>5. \A i \in 1 .. (Len(q) + 1) : np[i] = pos[i] BY <1>2, <1>3, <1>4 DEF NumbersOf
<1>6. ASSUME NEW i \in 1 .. Len(r)
      PROVE  /\ from <= np[i] /\ np[i] <= to
             /\ np[i + 1] = np[i] + EventLength(r[i])
             /\ FitsAt(r[i], np[i], P, n, closing)
  <2>1. CASE i \in 1 .. Len(q)
    <3>1. i + 1 \in 1 .. (Len(q) + 1) /\ i \in 1 .. (Len(q) + 1) BY <1>3, <2>1
    <3>2. r[i] = q[i] /\ np[i] = pos[i] /\ np[i + 1] = pos[i + 1] BY <1>5, <2>1, <3>1 DEF Grown
    <3> QED BY <1>2, <2>1, <3>2 DEF NumbersOf
  <2>2. CASE i \notin 1 .. Len(q)
    <3>1. i \in (Len(q) + 1) .. Len(r) BY <1>3, <2>2
    <3>2. Plain(r[i]) BY <3>1 DEF Grown
    <3>3. r[i] \in Events /\ EventLength(r[i]) = 0 BY <3>2, EventLengthType DEF Plain
    <3>4. np[i] = to /\ np[i + 1] = to BY <1>3, <1>4, <3>1
    <3>5. FitsAt(r[i], to, P, n, closing) BY <3>2 DEF Plain, FitsAt
    <3> QED BY <1>1, <3>3, <3>4, <3>5
  <2> QED BY <2>1, <2>2
<1>7. np \in [1 .. (Len(r) + 1) -> Nat]
  <2>1. pos \in [1 .. (Len(q) + 1) -> Nat] BY <1>2 DEF NumbersOf
  <2> QED BY <1>1, <1>3, <1>4, <2>1
<1>8. np[1] = from /\ np[Len(r) + 1] = to
  <2>1. pos[1] = from /\ pos[Len(q) + 1] = to BY <1>2 DEF NumbersOf
  <2>2. np[1] = pos[1] BY <1>3, <1>5
  <2> QED BY <1>3, <1>4, <2>1, <2>2
<1>9. NumbersOf(r, np, from, to, P, n, closing) BY <1>6, <1>7, <1>8 DEF NumbersOf
<1> QED BY <1>1, <1>9 DEF Numbered

\* More bytes accepted, and the begin of closing, leave the numbers as they are.
LEMMA NumberedLater ==
    ASSUME NEW q, NEW from, NEW to, NEW P, NEW n \in Nat, NEW m \in Nat, n <= m, NEW closing,
           Iss \in Nat, Numbered(q, from, to, P, n, FALSE)
    PROVE  Numbered(q, from, to, P, m, closing)
<1>1. PICK pos : NumbersOf(q, pos, from, to, P, n, FALSE) BY DEF Numbered
<1>2. ASSUME NEW i \in 1 .. Len(q) PROVE FitsAt(q[i], pos[i], P, m, closing)
  <2>1. FitsAt(q[i], pos[i], P, n, FALSE) BY <1>1 DEF NumbersOf
  <2>2. q \in Seq(Events) BY DEF Numbered
  <2>3. pos[i] \in Nat /\ q[i] \in Events BY <1>1, <2>2 DEF NumbersOf
  <2>4. q[i].event = "send_packet" => q[i].p.data \in Seq(Nat) /\ Len(q[i].p.data) \in Nat
    BY <2>3 DEF Events, Segments
  <2> QED BY <2>1, <2>3, <2>4, SMTT(20) DEF FitsAt
<1>3. NumbersOf(q, pos, from, to, P, m, closing) BY <1>1, <1>2 DEF NumbersOf
<1> QED BY <1>3 DEF Numbered

SynQueued(q) == \E i \in 1 .. Len(q) : q[i].event = "send_packet" /\ q[i].p.syn
SendEvents(q) ==
    \E i \in 1 .. Len(q) : q[i].event \in {"send_buffer_not_empty", "send_buffer_not_full"}

\* Neither a SYN nor a call to send is among the events added.
LEMMA GrownSyn ==
    ASSUME NEW q, NEW r, Grown(q, r)
    PROVE  /\ SynQueued(r) => SynQueued(q)
           /\ SendEvents(r) => SendEvents(q)
<1>1. Len(q) \in Nat /\ Len(r) \in Nat /\ Len(q) <= Len(r) BY DEF Grown
<1>2. ASSUME NEW i \in 1 .. Len(r), i \notin 1 .. Len(q) PROVE Plain(r[i]) BY <1>1, <1>2 DEF Grown
<1>3. \A i \in 1 .. Len(q) : r[i] = q[i] BY DEF Grown
<1> QED BY <1>2, <1>3 DEF SynQueued, SendEvents, Plain

\* The first event is taken from the queue: none is added.
LEMMA TailSyn ==
    ASSUME NEW q \in Seq(Events), q # <<>>
    PROVE  /\ SynQueued(Tail(q)) => SynQueued(q)
           /\ SendEvents(Tail(q)) => SendEvents(q)
<1>1. PICK r : r = Tail(q) OBVIOUS
<1>2. Len(r) = Len(q) - 1 /\ Len(q) \in Nat /\ \A i \in 1 .. Len(r) : i + 1 \in 1 .. Len(q) /\ r[i] = q[i + 1]
  BY <1>1
<1>3. ASSUME SynQueued(r) PROVE SynQueued(q)
  <2>1. PICK i \in 1 .. Len(r) : r[i].event = "send_packet" /\ r[i].p.syn BY <1>3 DEF SynQueued
  <2>2. PICK j : j = i + 1 OBVIOUS
  <2>3. j \in 1 .. Len(q) /\ q[j].event = "send_packet" /\ q[j].p.syn BY <1>2, <2>1, <2>2
  <2> QED BY <2>3 DEF SynQueued
<1>4. ASSUME SendEvents(r) PROVE SendEvents(q)
  <2>1. PICK i \in 1 .. Len(r) : r[i].event \in {"send_buffer_not_empty", "send_buffer_not_full"}
    BY <1>4 DEF SendEvents
  <2>2. PICK j : j = i + 1 OBVIOUS
  <2>3. j \in 1 .. Len(q) /\ q[j].event \in {"send_buffer_not_empty", "send_buffer_not_full"}
    BY <1>2, <2>1, <2>2
  <2> QED BY <2>3 DEF SendEvents
<1> QED BY <1>1, <1>3, <1>4

-------------------------------------------------------------------------------
\* The socket record.

Shape(c) ==
    /\ DOMAIN c =
        {"state", "connection_type", "time_wait_timer", "rc", "ccc", "send_buffer",
         "receive_buffer", "saved_send", "saved_close", "saved_fin", "redispatched", "queue",
         "exists", "connected", "closed", "stuck", "accepted", "delivered", "aborted"}
    /\ DOMAIN c.rc =
        {"initialized", "rcv_nxt", "rcv_wnd", "timer", "duplicate_ack_number", "duplicates",
         "receive_event", "receive_index", "receive_window", "snd_una", "snd_nxt", "snd_max"}
    /\ DOMAIN c.ccc =
        {"snd_wnd", "snd_wnd1", "snd_wnd2", "cwnd", "ssthreshold", "state", "data_sent",
         "probe_timer", "snd_una", "snd_nxt", "snd_max"}

\* The states in which the FIN has been handed to the queue.
Ending == {"FinWait1", "FinWait2", "Closing", "LastAck", "TimeWait", "Closed"}
Live == States \ {"Listen"}

\* What the sender reads and writes.
SameSend(c, d) ==
    /\ d.rc.initialized = c.rc.initialized /\ d.rc.timer = c.rc.timer
    /\ d.rc.snd_una = c.rc.snd_una /\ d.rc.snd_nxt = c.rc.snd_nxt /\ d.rc.snd_max = c.rc.snd_max
    /\ d.ccc = c.ccc
    /\ d.send_buffer = c.send_buffer /\ d.saved_send = c.saved_send /\ d.accepted = c.accepted

SameCalls(c, d) ==
    /\ d.connection_type = c.connection_type
    /\ d.saved_close = c.saved_close /\ d.closed = c.closed /\ d.exists = c.exists

SameState(c, d) ==
    /\ d.state = c.state /\ d.time_wait_timer = c.time_wait_timer /\ d.connected = c.connected

\* What the receiver reads and writes.
SameReceive(c, d) ==
    /\ d.rc.rcv_nxt = c.rc.rcv_nxt /\ d.rc.rcv_wnd = c.rc.rcv_wnd
    /\ d.rc.receive_index = c.rc.receive_index /\ d.rc.receive_window = c.rc.receive_window
    /\ d.rc.receive_event = c.rc.receive_event /\ d.rc.duplicates = c.rc.duplicates
    /\ d.receive_buffer = c.receive_buffer
    /\ d.saved_fin = c.saved_fin /\ d.redispatched = c.redispatched

\* What the receiver and the timer of TimeWait keep, within their types.
ReceiverOK(c) ==
    /\ c.rc.rcv_nxt \in SeqNum /\ c.rc.rcv_wnd \in 0 .. MaxReceiveWindow
    /\ c.rc.receive_index \in Int /\ c.rc.receive_event \in Int /\ c.rc.duplicates \in Int
    /\ c.rc.receive_window \in Buffers /\ c.receive_buffer \in Seq(Nat)
    /\ c.saved_fin \subseteq Packets /\ c.redispatched \subseteq Packets
    /\ c.time_wait_timer => c.state = "TimeWait"

\* What is the same is within the same types.
LEMMA ReceiverSame ==
    ASSUME NEW c, NEW d, ReceiverOK(c), SameState(c, d), SameReceive(c, d)
    PROVE  ReceiverOK(d)
BY DEF ReceiverOK, SameState, SameReceive

Formed(c) == Shape(c) /\ c.queue \in Seq(Events) /\ ReceiverOK(c)

\* Once aborted, aborted.
AbortKept(c, d) == d.aborted = None => c.aborted = None

\* d is c after something that leaves the sender alone.
Beside(c, d) ==
    /\ Shape(d) /\ ReceiverOK(d) /\ SameSend(c, d) /\ SameCalls(c, d) /\ AbortKept(c, d)
    /\ d.state \in Ending <=> c.state \in Ending
    /\ c.state \in Live => d.state \in Live
    /\ Grown(c.queue, d.queue)

\* The sender is left alone twice.
LEMMA BesideTrans ==
    ASSUME NEW c, NEW d, NEW e, Beside(c, d), Beside(d, e)
    PROVE  Beside(c, e)
<1>1. Grown(c.queue, e.queue) BY GrownTrans DEF Beside
<1> QED BY <1>1 DEF Beside, SameSend, SameCalls, AbortKept

\* Doing nothing leaves the sender alone.
LEMMA BesideRefl ==
    ASSUME NEW c, Formed(c)
    PROVE  Beside(c, c)
BY GrownRefl DEF Beside, Formed, SameSend, SameCalls, AbortKept

\* The socket keeps its form.
LEMMA BesideQueue ==
    ASSUME NEW c, NEW d, Beside(c, d)
    PROVE  Formed(d)
BY DEF Beside, Grown, Formed

PlainEvents ==
    ProtocolEvents \ {"resend_packet", "send_buffer_not_empty", "send_buffer_not_full", "send_packet"}

\* What enqueue and enqueue_send leave alone.
LEMMA Enqueue ==
    ASSUME NEW c, Shape(c), NEW event
    PROVE  LET d == enqueue(c, event) IN
           /\ Shape(d) /\ SameSend(c, d) /\ SameCalls(c, d) /\ SameState(c, d) /\ SameReceive(c, d)
           /\ d.aborted = c.aborted /\ d.rc = c.rc
           /\ d.queue = Append(c.queue, [event |-> event, p |-> NakedSegment])
BY DEF Shape, SameSend, SameCalls, SameState, SameReceive, enqueue

\* What enqueue_send leaves alone.
LEMMA EnqueueSend ==
    ASSUME NEW c, Shape(c), NEW s
    PROVE  LET d == enqueue_send(c, s) IN
           /\ Shape(d) /\ SameSend(c, d) /\ SameCalls(c, d) /\ SameState(c, d) /\ SameReceive(c, d)
           /\ d.aborted = c.aborted /\ d.rc = c.rc
           /\ d.queue = Append(c.queue, [event |-> "send_packet", p |-> s])
BY DEF Shape, SameSend, SameCalls, SameState, SameReceive, enqueue_send

\* The empty segment is a segment.
LEMMA NakedIsSegment == NakedSegment \in Segments
<1>1. <<>> \in Seq(Nat) OBVIOUS
<1> QED BY <1>1 DEF NakedSegment, Segment, Segments

\* An event that leaves the sender alone is raised.
LEMMA EnqueueBeside ==
    ASSUME NEW c, Formed(c), NEW event \in PlainEvents
    PROVE  Beside(c, enqueue(c, event))
<1>1. PICK x : x = [event |-> event, p |-> NakedSegment] OBVIOUS
<1>2. x.event = event /\ x.p = NakedSegment /\ x \in Events
  BY <1>1, NakedIsSegment DEF PlainEvents, Events
<1>3. Plain(x) BY <1>2 DEF Plain, PlainEvents
<1>4. Grown(c.queue, Append(c.queue, x)) BY <1>3, GrownAppend DEF Formed
<1>5. PICK d : d = enqueue(c, event) OBVIOUS
<1>6. /\ Shape(d) /\ SameSend(c, d) /\ SameCalls(c, d) /\ SameState(c, d) /\ SameReceive(c, d)
      /\ d.aborted = c.aborted /\ d.queue = Append(c.queue, x)
  BY <1>1, <1>5, Enqueue DEF Formed
<1>7. ReceiverOK(d) BY <1>6, ReceiverSame DEF Formed
<1> QED BY <1>4, <1>5, <1>6, <1>7 DEF Beside, SameState, AbortKept

\* A segment that takes no sequence number.
LEMMA EnqueueSendBeside ==
    ASSUME NEW c, Formed(c), NEW s \in Segments,
           ~s.syn, ~s.fin, s.data = <<>>
    PROVE  Beside(c, enqueue_send(c, s))
<1>1. PICK x : x = [event |-> "send_packet", p |-> s] OBVIOUS
<1>2. x.event = "send_packet" /\ x.p = s /\ x \in Events BY <1>1 DEF ProtocolEvents, Events
<1>3. Plain(x) BY <1>2 DEF Plain
<1>4. Grown(c.queue, Append(c.queue, x)) BY <1>3, GrownAppend DEF Formed
<1>5. PICK d : d = enqueue_send(c, s) OBVIOUS
<1>6. /\ Shape(d) /\ SameSend(c, d) /\ SameCalls(c, d) /\ SameState(c, d) /\ SameReceive(c, d)
      /\ d.aborted = c.aborted /\ d.queue = Append(c.queue, x)
  BY <1>1, <1>5, EnqueueSend DEF Formed
<1>7. ReceiverOK(d) BY <1>6, ReceiverSame DEF Formed
<1> QED BY <1>4, <1>5, <1>6, <1>7 DEF Beside, SameState, AbortKept

\* create_and_dispatch_ack sends a segment that takes no sequence number.
LEMMA AckBeside ==
    ASSUME NEW c, Formed(c)
    PROVE  Beside(c, create_and_dispatch_ack(c))
<1>1. NakedSegment \in Segments /\ ~NakedSegment.syn /\ ~NakedSegment.fin /\ NakedSegment.data = <<>>
  BY NakedIsSegment DEF NakedSegment, Segment
<1> QED BY <1>1, EnqueueSendBeside DEF create_and_dispatch_ack

-------------------------------------------------------------------------------
\* The handlers of the receiver.

\* c and d differ only in what the receiver alone uses.
ReceiverOnly(c, d) ==
    /\ Shape(d) /\ SameSend(c, d) /\ SameCalls(c, d) /\ SameState(c, d) /\ AbortKept(c, d)
    /\ d.queue = c.queue

\* A handler that changes only what the receiver uses leaves the sender alone.
LEMMA ReceiverBeside ==
    ASSUME NEW c, NEW d, Formed(c), ReceiverOnly(c, d), ReceiverOK(d)
    PROVE  Beside(c, d)
BY GrownRefl DEF Formed, ReceiverOnly, Beside, SameState

\* The window that is advertised has 16 bits.
LEMMA UShortType ==
    ASSUME NEW x \in Int
    PROVE  UShort(x) \in 0 .. MaxReceiveWindow
<1>1. PICK m \in Nat : m = MaxReceiveWindow BY TCPAssumption
<1>2. x % (m + 1) \in 0 .. m OBVIOUS
<1> QED BY <1>1, <1>2 DEF UShort

\* handle_control_bits counts a SYN or a FIN of the peer.
LEMMA HandleControlBits ==
    ASSUME NEW c, Formed(c), NEW p \in Packets
    PROVE  Beside(c, handle_control_bits(c, p))
<1>1. PICK d : d = handle_control_bits(c, p) OBVIOUS
<1>2. PICK next \in SeqNum : next = Plus(p.seq, 1)
  <2>1. p.seq \in SeqNum BY DEF Packets
  <2>2. p.seq \in Int /\ 1 \in Int BY <2>1, SeqNumInt
  <2> QED BY <2>2, PlusType
<1>3. PICK b : b = set_first_sequence_number(c.rc.receive_window, next) OBVIOUS
<1>4. d = IF p.syn THEN [c EXCEPT !.rc.rcv_nxt = next, !.rc.receive_window = b]
          ELSE [c EXCEPT !.rc.rcv_nxt = next]
  BY <1>1, <1>2, <1>3 DEF handle_control_bits, Formed, Shape
<1>5. ReceiverOnly(c, d)
  BY <1>4 DEF ReceiverOnly, Formed, Shape, SameSend, SameCalls, SameState, AbortKept
<1>6. b \in Buffers BY <1>3 DEF Formed, ReceiverOK, Buffers, set_first_sequence_number
<1>7. ReceiverOK(d) BY <1>4, <1>6 DEF Formed, Shape, ReceiverOK
<1> QED BY <1>1, <1>5, <1>7, ReceiverBeside

\* insert_data puts the packet into the reassembly buffer.
LEMMA InsertData ==
    ASSUME NEW c, Formed(c), NEW p \in Packets
    PROVE  Beside(c, insert_data(c, p))
<1>1. PICK d : d = insert_data(c, p) OBVIOUS
<1>2. ReceiverOnly(c, d)
  BY <1>1, ZenonT(20) DEF ReceiverOnly, Formed, Shape, SameSend, SameCalls, SameState, AbortKept, insert_data,
     Require, Abort, None
<1>3. PICK w \in Buffers : w = c.rc.receive_window BY DEF Formed, ReceiverOK
<1>4. PICK n \in Int : n = num_inserted(w, p) BY InsertType
<1>5. PICK b \in Buffers : b = insert(w, p) BY InsertType
<1>6. PICK r \in Int : r = c.rc.rcv_wnd BY TCPAssumption DEF Formed, ReceiverOK
<1>7. UShort(r - n) \in 0 .. MaxReceiveWindow BY UShortType
<1>8. d.rc.rcv_wnd = UShort(r - n) /\ d.rc.receive_window = b
  BY <1>1, <1>3, <1>4, <1>5, <1>6 DEF Formed, Shape, insert_data, Require, Abort
<1>9. /\ d.rc.rcv_nxt = c.rc.rcv_nxt /\ d.rc.receive_index = c.rc.receive_index
      /\ d.rc.receive_event = c.rc.receive_event /\ d.rc.duplicates = c.rc.duplicates
      /\ d.receive_buffer = c.receive_buffer /\ d.saved_fin = c.saved_fin
      /\ d.redispatched = c.redispatched /\ d.time_wait_timer = c.time_wait_timer /\ d.state = c.state
  BY <1>1, ZenonT(20) DEF Formed, Shape, insert_data, Require, Abort
<1>10. ReceiverOK(d) BY <1>7, <1>8, <1>9 DEF Formed, ReceiverOK
<1> QED BY <1>1, <1>2, <1>10, ReceiverBeside

\* take_continuous_data moves what is in order to the receive buffer.
LEMMA TakeContinuousData ==
    ASSUME NEW c, Formed(c)
    PROVE  Beside(c, take_continuous_data(c))
<1> DEFINE window == c.rc.receive_window
           data == continuous_data(window)
           checked == Require(c, window.packets = <<>> \/ window.first = c.rc.rcv_nxt,
                              "continuous_data_first")
           moved == [checked EXCEPT !.rc.receive_window = after_continuous_data(@),
                                    !.rc.rcv_nxt = Plus(@, Len(data)),
                                    !.receive_buffer = @ \o data]
<1>1. ReceiverOnly(c, moved)
  BY DEF ReceiverOnly, Formed, Shape, SameSend, SameCalls, SameState, AbortKept, Require, Abort, None
<1>2. PICK m : m = moved OBVIOUS
<1>3. ReceiverOK(m)
  <2>1. PICK w \in Buffers : w = window BY DEF Formed, ReceiverOK
  <2>2. PICK x \in Seq(Nat) : x = data BY <2>1, ScanType
  <2>3. PICK b \in Buffers : b = after_continuous_data(w) BY ScanType
  <2>4. PICK r \in SeqNum : r = c.rc.rcv_nxt BY DEF Formed, ReceiverOK
  <2>5. Plus(r, Len(x)) \in SeqNum
    <3>1. r \in Int BY SeqNumInt
    <3>2. Len(x) \in Int OBVIOUS
    <3> QED BY <3>1, <3>2, PlusType
  <2>6. PICK y \in Seq(Nat) : y = c.receive_buffer \o x
    <3>1. c.receive_buffer \in Seq(Nat) BY DEF Formed, ReceiverOK
    <3>2. c.receive_buffer \o x \in Seq(Nat) BY <3>1
    <3> QED BY <3>2
  <2>7. m.rc.rcv_nxt = Plus(r, Len(x)) /\ m.rc.receive_window = b /\ m.receive_buffer = y
    BY <1>2, <2>1, <2>2, <2>3, <2>4, <2>6 DEF Formed, Shape, Require, Abort
  <2>8. /\ m.rc.rcv_wnd = c.rc.rcv_wnd /\ m.rc.receive_index = c.rc.receive_index
        /\ m.rc.receive_event = c.rc.receive_event /\ m.rc.duplicates = c.rc.duplicates
        /\ m.saved_fin = c.saved_fin /\ m.redispatched = c.redispatched
        /\ m.time_wait_timer = c.time_wait_timer /\ m.state = c.state
    BY <1>2 DEF Formed, Shape, Require, Abort
  <2> QED BY <2>5, <2>7, <2>8 DEF Formed, ReceiverOK
<1>4. take_continuous_data(c) = IF data # <<>> THEN enqueue(moved, "receive_buffer_not_empty") ELSE moved
  BY DEF take_continuous_data
<1> HIDE DEF moved, data
<1>5. Beside(c, moved) BY <1>1, <1>2, <1>3, ReceiverBeside
<1>6. Formed(moved) BY <1>5, BesideQueue
<1>7. "receive_buffer_not_empty" \in PlainEvents BY DEF PlainEvents, ProtocolEvents
<1>8. Beside(moved, enqueue(moved, "receive_buffer_not_empty")) BY <1>6, <1>7, EnqueueBeside
<1> QED BY <1>4, <1>5, <1>8, BesideTrans

\* handle_data: the two steps before, or an assertion that fails.
LEMMA HandleData ==
    ASSUME NEW c, Formed(c), NEW p \in Packets
    PROVE  Beside(c, handle_data(c, p))
<1>1. PICK d : d = insert_data(c, p) OBVIOUS
<1>2. Beside(c, d) BY <1>1, InsertData
<1>3. Formed(d) BY <1>2, BesideQueue
<1>4. PICK e : e = take_continuous_data(d) OBVIOUS
<1>5. Beside(d, e) BY <1>3, <1>4, TakeContinuousData
<1>6. Beside(e, create_and_dispatch_ack(e)) BY <1>5, BesideQueue, AckBeside
<1>7. handle_data(c, p) = create_and_dispatch_ack(e) BY <1>1, <1>4 DEF handle_data
<1> QED BY <1>2, <1>5, <1>6, <1>7, BesideTrans

\* The control bits, then the data.
LEMMA ControlBitsAndData ==
    ASSUME NEW c, Formed(c), NEW p \in Packets
    PROVE  Beside(c, handle_control_bits_and_data(c, p))
<1>1. Beside(c, handle_control_bits(c, p)) BY HandleControlBits
<1>2. Beside(c, handle_data(c, p)) BY HandleData
<1>3. Beside(c, c) BY BesideRefl
<1> QED BY <1>1, <1>2, <1>3 DEF handle_control_bits_and_data

\* create_and_dispatch_received_data answers a recv().
LEMMA ReceivedData ==
    ASSUME NEW c, Formed(c), NEW n \in Int
    PROVE  Beside(c, create_and_dispatch_received_data(c, n))
<1> DEFINE length == Lesser(Len(c.receive_buffer) - c.rc.receive_index, n)
           index == c.rc.receive_index + length
           c1 == IF c.rc.rcv_wnd + length >= 2 * c.rc.rcv_wnd
                 THEN create_and_dispatch_ack(c) ELSE c
           c2 == [c1 EXCEPT !.rc.rcv_wnd = UShort(@ + length),
                            !.rc.receive_index = index,
                            !.delivered = @ \o SubSeq(c.receive_buffer,
                                                      c.rc.receive_index + 1, index)]
           c3 == IF index >= Len(c.receive_buffer)
                 THEN [c2 EXCEPT !.receive_buffer = <<>>, !.rc.receive_index = 0]
                 ELSE c2
<1>1. create_and_dispatch_received_data(c, n) = enqueue(c3, "receive_buffer_not_full")
  BY DEF create_and_dispatch_received_data
<1>2. Beside(c, c1) BY AckBeside, BesideRefl
<1>3. length \in Int /\ index \in Int
  <2>1. PICK b \in Seq(Nat) : b = c.receive_buffer BY DEF Formed, ReceiverOK
  <2>2. PICK i \in Int : i = c.rc.receive_index BY DEF Formed, ReceiverOK
  <2>3. Len(b) - i \in Int BY <2>1
  <2>4. length \in Int BY <2>1, <2>2, <2>3 DEF Lesser
  <2> QED BY <2>2, <2>4
<1> HIDE DEF c1, length, index
<1>4. Formed(c1) BY <1>2, BesideQueue
<1>5. ReceiverOnly(c1, c3)
  BY <1>4 DEF ReceiverOnly, Formed, Shape, SameSend, SameCalls, SameState, AbortKept
<1>6. PICK z : z = c3 OBVIOUS
<1>7. ReceiverOK(z)
  <2>1. PICK r \in Int : r = c1.rc.rcv_wnd BY <1>4, TCPAssumption DEF Formed, ReceiverOK
  <2>2. UShort(r + length) \in 0 .. MaxReceiveWindow BY <1>3, UShortType
  <2>3. <<>> \in Seq(Nat) OBVIOUS
  <2>4. /\ z.rc.rcv_wnd = UShort(r + length)
        /\ z.rc.receive_index \in {index, 0} /\ z.receive_buffer \in {c1.receive_buffer, <<>>}
    BY <1>4, <1>6, <2>1 DEF Formed, Shape
  <2>5. /\ z.rc.rcv_nxt = c1.rc.rcv_nxt /\ z.rc.receive_event = c1.rc.receive_event
        /\ z.rc.duplicates = c1.rc.duplicates /\ z.rc.receive_window = c1.rc.receive_window
        /\ z.saved_fin = c1.saved_fin /\ z.redispatched = c1.redispatched
        /\ z.time_wait_timer = c1.time_wait_timer /\ z.state = c1.state
    BY <1>4, <1>6 DEF Formed, Shape
  <2>6. ReceiverOK(c1) BY <1>4 DEF Formed
  <2>7. c1.receive_buffer \in Seq(Nat) BY <2>6 DEF ReceiverOK
  <2>8. z.rc.receive_index \in Int BY <1>3, <2>4
  <2>9. z.receive_buffer \in Seq(Nat) BY <2>3, <2>4, <2>7
  <2> QED BY <2>2, <2>4, <2>5, <2>6, <2>8, <2>9 DEF ReceiverOK
<1> HIDE DEF c3
<1>8. Beside(c1, c3) BY <1>4, <1>5, <1>6, <1>7, ReceiverBeside
<1>9. "receive_buffer_not_full" \in PlainEvents BY DEF PlainEvents, ProtocolEvents
<1>10. Beside(c3, enqueue(c3, "receive_buffer_not_full")) BY <1>8, <1>9, BesideQueue, EnqueueBeside
<1> QED BY <1>1, <1>2, <1>8, <1>10, BesideTrans

\* recv(): answered at once or kept.
LEMMA RcReceive ==
    ASSUME NEW c, Formed(c), NEW n \in Int
    PROVE  Beside(c, rc_receive(c, n))
<1> DEFINE d == [Require(c, c.rc.receive_event = 0, "receive_event") EXCEPT !.rc.receive_event = n]
<1>1. ReceiverOnly(c, d)
  BY DEF ReceiverOnly, Formed, Shape, SameSend, SameCalls, SameState, AbortKept, Require, Abort, None
<1>2. Beside(c, d)
  <2>1. ReceiverOK(d) BY DEF Formed, Shape, ReceiverOK, Require, Abort
  <2> HIDE DEF d
  <2> QED BY <1>1, <2>1, ReceiverBeside
<1> HIDE DEF d
<1>3. Beside(c, create_and_dispatch_received_data(c, n)) BY ReceivedData
<1>4. rc_receive(c, n) \in {create_and_dispatch_received_data(c, n), d} BY DEF rc_receive, d
<1> QED BY <1>2, <1>3, <1>4

\* Bytes for a recv() that waits.
LEMMA RcReceiveBufferNotEmpty ==
    ASSUME NEW c, Formed(c)
    PROVE  Beside(c, rc_receive_buffer_not_empty(c))
<1>1. PICK d : d = create_and_dispatch_received_data(c, c.rc.receive_event) OBVIOUS
<1>2. Beside(c, d)
  <2>1. c.rc.receive_event \in Int BY DEF Formed, ReceiverOK
  <2> QED BY <1>1, <2>1, ReceivedData
<1>3. Formed(d) BY <1>2, BesideQueue
<1>4. /\ ReceiverOnly(d, [d EXCEPT !.rc.receive_event = 0])
      /\ ReceiverOK([d EXCEPT !.rc.receive_event = 0])
  <2>1. ReceiverOnly(d, [d EXCEPT !.rc.receive_event = 0])
    BY <1>3 DEF ReceiverOnly, Formed, Shape, SameSend, SameCalls, SameState, AbortKept
  <2>2. PICK e : e = [d EXCEPT !.rc.receive_event = 0] OBVIOUS
  <2>3. /\ e.rc.rcv_nxt = d.rc.rcv_nxt /\ e.rc.rcv_wnd = d.rc.rcv_wnd
        /\ e.rc.receive_index = d.rc.receive_index /\ e.rc.receive_event = 0
        /\ e.rc.duplicates = d.rc.duplicates /\ e.rc.receive_window = d.rc.receive_window
        /\ e.receive_buffer = d.receive_buffer
        /\ e.saved_fin = d.saved_fin /\ e.redispatched = d.redispatched
        /\ e.time_wait_timer = d.time_wait_timer /\ e.state = d.state
    BY <1>3, <2>2 DEF Formed, Shape
  <2>4. ReceiverOK(e) BY <1>3, <2>3 DEF Formed, ReceiverOK
  <2> QED BY <2>1, <2>2, <2>4
<1>5. Beside(c, [d EXCEPT !.rc.receive_event = 0]) BY <1>2, <1>3, <1>4, ReceiverBeside, BesideTrans
<1>6. rc_receive_buffer_not_empty(c) \in {[d EXCEPT !.rc.receive_event = 0], c}
  BY <1>1 DEF rc_receive_buffer_not_empty
<1> QED BY <1>5, <1>6, BesideRefl

\* The saved FIN is dispatched again.
LEMMA ReceiveBufferNotFullBeside ==
    ASSUME NEW c, Formed(c)
    PROVE  Beside(c, receive_buffer_not_full(c))
<1>1. ReceiverOnly(c, receive_buffer_not_full(c))
  BY DEF ReceiverOnly, Formed, Shape, SameSend, SameCalls, SameState, AbortKept, receive_buffer_not_full
<1>2. ReceiverOK(receive_buffer_not_full(c)) BY DEF Formed, Shape, ReceiverOK, receive_buffer_not_full
<1> QED BY <1>1, <1>2, ReceiverBeside

-------------------------------------------------------------------------------
\* The handlers of the connection manager.

\* A move between two states of which both or neither come after the FIN.
LEMMA SetState ==
    ASSUME NEW c, Formed(c), NEW state \in Live,
           state \in Ending <=> c.state \in Ending
    PROVE  Beside(c, set_state(c, state))
<1>1. PICK d : d = set_state(c, state) OBVIOUS
<1>2. /\ Shape(d) /\ SameSend(c, d) /\ SameCalls(c, d) /\ AbortKept(c, d)
      /\ d.state = state /\ d.queue = c.queue
  BY <1>1 DEF Formed, Shape, SameSend, SameCalls, AbortKept, set_state
<1>3. ReceiverOK(d) BY <1>1 DEF Formed, Shape, ReceiverOK, set_state
<1> QED BY <1>1, <1>2, <1>3, GrownRefl DEF Beside, Formed

\* The end of the handshake.
LEMMA EnterEstablishedBeside ==
    ASSUME NEW c, Formed(c), c.state \notin Ending, NEW trap
    PROVE  Beside(c, EnterEstablished(c, trap))
<1>1. PICK d : d = set_state(c, "Established") OBVIOUS
<1>2. Beside(c, d) BY <1>1, SetState DEF Live, States, Ending
<1>3. Formed(d) BY <1>2, BesideQueue
<1>4. PICK e : e = EnterEstablished(c, trap) OBVIOUS
<1>5. e = IF c.connection_type = "ACTIVE_OPEN" THEN [d EXCEPT !.connected = TRUE]
          ELSE Require(d, ~trap, "established_connect_event")
  BY <1>1, <1>4 DEF EnterEstablished
<1>6. /\ Shape(e) /\ SameSend(d, e) /\ SameCalls(d, e) /\ AbortKept(d, e)
      /\ e.state = d.state /\ e.queue = d.queue
  BY <1>3, <1>5 DEF Formed, Shape, SameSend, SameCalls, AbortKept, Require, Abort, None
<1>7. ReceiverOK(e) BY <1>3, <1>5 DEF Formed, Shape, ReceiverOK, Require, Abort
<1>8. Beside(d, e) BY <1>3, <1>6, <1>7, GrownRefl DEF Beside, Formed
<1> QED BY <1>2, <1>4, <1>8, BesideTrans

\* The acknowledgement is a segment that takes no sequence number.
LEMMA AckIsSegment == Ack \in Segments /\ ~Ack.syn /\ ~Ack.fin /\ Ack.data = <<>>
<1>1. <<>> \in Seq(Nat) OBVIOUS
<1> QED BY <1>1 DEF Ack, Segment, Segments

\* The peer's FIN is answered.
LEMMA TakeFinBeside ==
    ASSUME NEW c, Formed(c), NEW state \in Live,
           state \in Ending <=> c.state \in Ending
    PROVE  Beside(c, TakeFin(c, state))
<1>1. PICK d : d = enqueue_send(c, NakedSegment) OBVIOUS
<1>2. Beside(c, d) BY <1>1, AckBeside DEF create_and_dispatch_ack
<1>3. Formed(d) BY <1>2, BesideQueue
<1>4. state \in Ending <=> d.state \in Ending BY <1>2 DEF Beside
<1>5. Beside(d, set_state(d, state)) BY <1>3, <1>4, SetState
<1> QED BY <1>1, <1>2, <1>5, BesideTrans DEF TakeFin

\* The last acknowledgement deletes the socket.
LEMMA DeleteBeside ==
    ASSUME NEW c, Formed(c), c.state \in Ending
    PROVE  Beside(c, set_state(enqueue(c, "delete_socket"), "Closed"))
<1>1. PICK d : d = enqueue(c, "delete_socket") OBVIOUS
<1>2. Beside(c, d) BY <1>1, EnqueueBeside DEF PlainEvents, ProtocolEvents
<1>3. Formed(d) /\ d.state \in Ending BY <1>2, BesideQueue DEF Beside
<1>4. Beside(d, set_state(d, "Closed")) BY <1>3, SetState DEF Live, States, Ending
<1> QED BY <1>1, <1>2, <1>4, BesideTrans

\* A packet moves the connection manager, and answers a FIN, without touching
\* the sender: the FIN of this host comes from close() alone.
LEMMA CmReceive ==
    ASSUME NEW c, Formed(c), c.state \in Live, NEW p, NEW trap
    PROVE  Beside(c, cm_receive_packet(c, p, trap))
<1> USE DEF Ending, Live, States
<1>1. Beside(c, c) BY BesideRefl
<1>2. CASE c.state = "SynSent"
  <2>1. cm_receive_packet(c, p, trap) = SynSent_receive(c, p, trap) BY <1>2 DEF cm_receive_packet
  <2>2. PICK d : d = enqueue_send(c, Ack) OBVIOUS
  <2>3. Beside(c, d) BY <2>2, AckIsSegment, EnqueueSendBeside
  <2>4. Formed(d) BY <2>3, BesideQueue
  <2>5. d.state \notin Ending BY <1>2, <2>3 DEF Beside
  <2>6. Beside(d, EnterEstablished(d, trap)) BY <2>4, <2>5, EnterEstablishedBeside
  <2>7. Beside(c, EnterEstablished(d, trap)) BY <2>3, <2>6, BesideTrans
  <2> QED BY <1>1, <2>1, <2>2, <2>7 DEF SynSent_receive
<1>3. CASE c.state = "SynReceived"
  <2>1. cm_receive_packet(c, p, trap) = SynReceived_receive(c, p, trap) BY <1>3 DEF cm_receive_packet
  <2>2. PICK d : d = enqueue(c, "connection_established") OBVIOUS
  <2>3. Beside(c, d) BY <2>2, EnqueueBeside DEF PlainEvents, ProtocolEvents
  <2>4. Formed(d) BY <2>3, BesideQueue
  <2>5. d.state \notin Ending BY <1>3, <2>3 DEF Beside
  <2>6. Beside(d, EnterEstablished(d, trap)) BY <2>4, <2>5, EnterEstablishedBeside
  <2>7. Beside(c, EnterEstablished(d, trap)) BY <2>3, <2>6, BesideTrans
  <2> QED BY <1>1, <2>1, <2>2, <2>7 DEF SynReceived_receive
<1>4. CASE c.state = "Established"
  <2>1. Beside(c, TakeFin(c, "CloseWait")) BY <1>4, TakeFinBeside
  <2> QED BY <1>1, <1>4, <2>1 DEF cm_receive_packet, Established_receive
<1>5. CASE c.state = "FinWait1"
  <2>1. Beside(c, TakeFin(c, "TimeWait")) BY <1>5, TakeFinBeside
  <2>2. Beside(c, set_state(c, "FinWait2")) BY <1>5, SetState
  <2>3. cm_receive_packet(c, p, trap) = FinWait1_receive(c, p) BY <1>5 DEF cm_receive_packet
  <2>4. FinWait1_receive(c, p) \in {TakeFin(c, "TimeWait"), set_state(c, "FinWait2"), c}
    BY Zenon DEF FinWait1_receive
  <2> QED BY <1>1, <2>1, <2>2, <2>3, <2>4
<1>6. CASE c.state = "FinWait2"
  <2>1. Beside(c, TakeFin(c, "TimeWait")) BY <1>6, TakeFinBeside
  <2> QED BY <1>1, <1>6, <2>1 DEF cm_receive_packet, FinWait2_receive
<1>7. CASE c.state = "Closing"
  <2>1. Beside(c, set_state(c, "TimeWait")) BY <1>7, SetState
  <2> QED BY <1>1, <1>7, <2>1 DEF cm_receive_packet, Closing_receive
<1>8. CASE c.state = "LastAck"
  <2>1. Beside(c, set_state(enqueue(c, "delete_socket"), "Closed")) BY <1>8, DeleteBeside
  <2> QED BY <1>1, <1>8, <2>1 DEF cm_receive_packet, LastAck_receive
<1>9. CASE c.state = "TimeWait"
  <2>1. Beside(c, enqueue_send(c, NakedSegment)) BY AckBeside DEF create_and_dispatch_ack
  <2> QED BY <1>1, <1>9, <2>1 DEF cm_receive_packet, TimeWait_receive
<1>10. CASE c.state \in {"Closed", "CloseWait"}
  <2>1. cm_receive_packet(c, p, trap) = c BY <1>10 DEF cm_receive_packet
  <2> QED BY <1>1, <2>1
<1> QED BY <1>2, <1>3, <1>4, <1>5, <1>6, <1>7, <1>8, <1>9, <1>10

-------------------------------------------------------------------------------
\* The invariant of a sender whose SYN has been numbered.

BufferEnd(c) == c.rc.snd_una + Len(c.send_buffer)

\* The stream as the send buffer has it: SYN, the bytes accepted, FIN.
StreamByte(P, n, k) == IF k = 0 THEN SynByte ELSE IF k <= n THEN P[k] ELSE FinByte

\* The bytes of B are those of the stream from place o on.
HoldsFrom(B, P, n, o) == \A i \in 1 .. Len(B) : B[i] = StreamByte(P, n, o + (i - 1))

\* The FIN is or was in the send buffer.
FinBuffered(c) == BufferEnd(c) = Iss + c.accepted + 2

Counters(c) ==
    /\ c.rc.snd_una \in Nat /\ c.rc.snd_nxt \in Nat /\ c.rc.snd_max \in Nat
    /\ c.ccc.snd_una = c.rc.snd_una /\ c.ccc.snd_nxt \in Nat /\ c.ccc.snd_max \in Nat
    /\ Iss <= c.rc.snd_una /\ c.rc.snd_una <= c.rc.snd_nxt
    /\ c.rc.snd_nxt <= c.rc.snd_max /\ c.rc.snd_max <= BufferEnd(c)
    /\ Iss + 1 <= c.ccc.snd_nxt /\ c.ccc.snd_nxt <= c.ccc.snd_max
    /\ c.ccc.snd_max <= BufferEnd(c) + 1
    /\ c.rc.snd_max <= c.ccc.snd_max
    /\ \/ BufferEnd(c) = Iss + c.accepted + 1
       \/ FinBuffered(c) /\ c.state \in Ending /\ Len(c.send_buffer) <= 1

Bytes(c, P) ==
    /\ c.send_buffer \in Seq(Nat) /\ Len(c.send_buffer) <= MaxSendBuffer
    /\ c.accepted \in Nat /\ c.accepted <= Len(P)
    /\ HoldsFrom(c.send_buffer, P, c.accepted, c.rc.snd_una - Iss)

\* A resend waits at the front of the queue: congestion control has not gone back
\* yet, and nothing else in the queue takes a number.
Resending(c) ==
    /\ c.queue # <<>> /\ c.queue[1].event = "resend_packet"
    /\ c.rc.snd_nxt = c.rc.snd_una /\ c.rc.snd_una < BufferEnd(c)
    /\ c.state \in Ending => FinBuffered(c)
    /\ \A i \in 2 .. Len(c.queue) : Plain(c.queue[i])

\* The queue takes the numbers up to e, where congestion control is.
Sending(c, P, e) ==
    /\ Numbered(c.queue, c.rc.snd_nxt, e, P, c.accepted, c.state \in Ending)
    /\ c.state \notin Ending => c.ccc.snd_nxt = e /\ e <= BufferEnd(c)
    /\ c.state \in Ending /\ ~FinBuffered(c) =>
          c.send_buffer = <<>> /\ c.ccc.snd_nxt = BufferEnd(c) /\ e <= BufferEnd(c) + 1
    /\ c.state \in Ending /\ FinBuffered(c) =>
          /\ c.ccc.snd_nxt >= BufferEnd(c) /\ e <= BufferEnd(c)
          /\ e > c.rc.snd_nxt => c.ccc.snd_nxt = BufferEnd(c)
    /\ SynQueued(c.queue) => e = Iss + 1 /\ ~SendEvents(c.queue)
    /\ c.rc.timer /\ c.rc.snd_nxt = c.rc.snd_una => e > c.rc.snd_nxt

\* The calls of the application that wait.
Calls(c, P) ==
    /\ c.saved_close => c.closed
    /\ c.closed => c.saved_send = <<>>
    /\ c.state \in Ending => c.closed
    /\ c.saved_send \in Seq(Nat)
    /\ c.accepted + Len(c.saved_send) <= Len(P)
    /\ c.saved_send = SubSeq(P, c.accepted + 1, c.accepted + Len(c.saved_send))

Window(c) ==
    /\ c.ccc.cwnd \in Nat /\ c.ccc.cwnd >= Mss
    /\ c.ccc.snd_wnd \in Nat
    /\ c.ccc.state \in {"SlowStart", "CongestionAvoidance"}
    /\ c.ccc.probe_timer \/ c.ccc.snd_nxt <= c.rc.snd_una + c.ccc.cwnd

SenderOK(c, P) ==
    /\ c.state \in Live /\ c.connection_type # None
    /\ c.rc.timer \in BOOLEAN /\ c.rc.initialized = TRUE
    /\ Counters(c) /\ Bytes(c, P) /\ Calls(c, P) /\ Window(c)
    /\ c.rc.snd_nxt # c.rc.snd_una => c.rc.timer
    /\ c.queue \in Seq(Events)
    /\ Resending(c) \/ \E e : Sending(c, P, e)

\* What leaves the sender alone leaves the numbers of the queue as they are.
LEMMA BesideSending ==
    ASSUME NEW c, NEW d, NEW P, NEW e, Sending(c, P, e), Beside(c, d)
    PROVE  Sending(d, P, e)
<1>1. SameSend(c, d) /\ (d.state \in Ending <=> c.state \in Ending) /\ Grown(c.queue, d.queue) BY DEF Beside
<1>2. Numbered(c.queue, c.rc.snd_nxt, e, P, c.accepted, c.state \in Ending) BY DEF Sending
<1>3. Numbered(d.queue, c.rc.snd_nxt, e, P, c.accepted, c.state \in Ending)
  BY <1>1, <1>2, NumberedGrown
<1>4. (c.state \in Ending) = (d.state \in Ending) BY <1>1
<1>5. Numbered(d.queue, d.rc.snd_nxt, e, P, d.accepted, d.state \in Ending)
  BY <1>1, <1>3, <1>4 DEF SameSend
<1>6. SynQueued(d.queue) => SynQueued(c.queue) BY <1>1, GrownSyn
<1>7. SendEvents(d.queue) => SendEvents(c.queue) BY <1>1, GrownSyn
<1> QED BY <1>1, <1>5, <1>6, <1>7 DEF Sending, SameSend, BufferEnd, FinBuffered

\* What leaves the sender alone keeps its invariant.
LEMMA BesideKeeps ==
    ASSUME NEW c, NEW d, NEW P, SenderOK(c, P), Beside(c, d)
    PROVE  SenderOK(d, P)
<1>1. SameSend(c, d) /\ SameCalls(c, d) /\ d.state \in Live /\ (d.state \in Ending <=> c.state \in Ending)
  BY DEF Beside, SenderOK
<1>2. Grown(c.queue, d.queue) BY DEF Beside
<1>3. d.queue \in Seq(Events) /\ c.queue \in Seq(Events) BY <1>2 DEF Grown
<1>4. Counters(d) BY <1>1 DEF SenderOK, Counters, SameSend, BufferEnd, FinBuffered
<1>5. Bytes(d, P) BY <1>1 DEF SenderOK, Bytes, SameSend
<1>6. Calls(d, P) BY <1>1 DEF SenderOK, Calls, SameSend, SameCalls
<1>7. Window(d) BY <1>1 DEF SenderOK, Window, SameSend
<1>8. CASE Resending(c)
  <2>1. c.queue # <<>> /\ Len(c.queue) >= 1 /\ Len(d.queue) \in Nat /\ Len(c.queue) \in Nat
    BY <1>3, <1>8 DEF Resending
  <2>2. d.queue # <<>> /\ d.queue[1] = c.queue[1] BY <1>2, <1>3, <2>1 DEF Grown
  <2>3. ASSUME NEW i \in 2 .. Len(d.queue) PROVE Plain(d.queue[i])
    <3>1. CASE i \in 2 .. Len(c.queue)
      <4>1. d.queue[i] = c.queue[i] BY <1>2, <3>1, <2>1 DEF Grown
      <4> QED BY <1>8, <3>1, <4>1 DEF Resending
    <3>2. CASE i \notin 2 .. Len(c.queue) BY <1>2, <2>1, <3>2 DEF Grown
    <3> QED BY <3>1, <3>2
  <2>4. Resending(d) BY <1>1, <1>8, <2>2, <2>3 DEF Resending, SameSend, BufferEnd, FinBuffered
  <2> QED BY <1>1, <1>3, <1>4, <1>5, <1>6, <1>7, <2>4 DEF SenderOK, SameSend, SameCalls
<1>9. CASE \E e : Sending(c, P, e)
  <2>1. PICK e : Sending(c, P, e) BY <1>9
  <2>2. Sending(d, P, e) BY <2>1, BesideSending
  <2> QED BY <1>1, <1>3, <1>4, <1>5, <1>6, <1>7, <2>2 DEF SenderOK, SameSend, SameCalls
<1> QED BY <1>8, <1>9 DEF SenderOK

\* d is c with the first event taken from the queue.
Taken(c, d) ==
    /\ Shape(d) /\ SameSend(c, d) /\ SameCalls(c, d) /\ SameState(c, d) /\ SameReceive(c, d)
    /\ d.aborted = c.aborted /\ d.rc = c.rc
    /\ d.queue = Tail(c.queue)

\* The first event is taken from the queue.
LEMMA Dequeue ==
    ASSUME NEW c, Shape(c)
    PROVE  Taken(c, [c EXCEPT !.queue = Tail(@)])
BY DEF Taken, Shape, SameSend, SameCalls, SameState, SameReceive

\* An event that takes no number is taken from the queue.
LEMMA TakenKeeps ==
    ASSUME NEW c, NEW d, NEW P, SenderOK(c, P), Taken(c, d), c.queue # <<>>,
           Head(c.queue).event # "resend_packet", EventLength(Head(c.queue)) = 0
    PROVE  /\ SenderOK(d, P) /\ \E e : Sending(d, P, e)
           /\ Head(c.queue).event \in {"send_buffer_not_empty", "send_buffer_not_full"} => ~SynQueued(d.queue)
<1>1. SameSend(c, d) /\ SameCalls(c, d) /\ SameState(c, d) /\ d.queue = Tail(c.queue) BY DEF Taken
<1>2. c.queue \in Seq(Events) BY DEF SenderOK
<1>3. d.queue \in Seq(Events) BY <1>1, <1>2
<1>4. Counters(d) BY <1>1 DEF SenderOK, Counters, SameSend, SameState, BufferEnd, FinBuffered
<1>5. Bytes(d, P) BY <1>1 DEF SenderOK, Bytes, SameSend
<1>6. Calls(d, P) BY <1>1 DEF SenderOK, Calls, SameSend, SameCalls, SameState
<1>7. Window(d) BY <1>1 DEF SenderOK, Window, SameSend
<1>8. ~Resending(c) BY <1>2 DEF Resending
<1>9. PICK e : Sending(c, P, e) BY <1>8 DEF SenderOK
<1>10. Numbered(c.queue, c.rc.snd_nxt, e, P, c.accepted, c.state \in Ending) BY <1>9 DEF Sending
<1>11. c.rc.snd_nxt \in Nat BY DEF SenderOK, Counters
<1>12. Numbered(Tail(c.queue), c.rc.snd_nxt + EventLength(Head(c.queue)), e, P, c.accepted, c.state \in Ending)
  BY <1>10, NumberedTail
<1>13. Numbered(d.queue, d.rc.snd_nxt, e, P, d.accepted, d.state \in Ending)
  BY <1>1, <1>11, <1>12 DEF SameSend, SameState
<1>14. /\ SynQueued(d.queue) => SynQueued(c.queue)
       /\ SendEvents(d.queue) => SendEvents(c.queue)
  BY <1>1, <1>2, TailSyn
<1>15. Sending(d, P, e) BY <1>1, <1>9, <1>13, <1>14 DEF Sending, SameSend, SameState, BufferEnd, FinBuffered
<1>16. SenderOK(d, P)
  BY <1>1, <1>3, <1>4, <1>5, <1>6, <1>7, <1>15 DEF SenderOK, SameSend, SameCalls, SameState
<1>17. ASSUME Head(c.queue).event \in {"send_buffer_not_empty", "send_buffer_not_full"} PROVE ~SynQueued(d.queue)
  <2>1. Head(c.queue) = c.queue[1] /\ 1 \in 1 .. Len(c.queue) BY <1>2
  <2>2. SendEvents(c.queue) BY <1>17, <2>1 DEF SendEvents
  <2> QED BY <1>9, <1>14, <2>2 DEF Sending
<1> QED BY <1>15, <1>16, <1>17

-------------------------------------------------------------------------------
\* Sending from the buffer.

\* s is the piece of n bytes of P that starts at k.
PieceOf(s, P, k, n) == s \in Seq(Nat) /\ Len(s) = n /\ s = SubSeq(P, k, k + n - 1)

\* A piece of the buffer that lies within the data is that piece of the stream.
LEMMA StreamSlice ==
    ASSUME NEW B \in Seq(Nat), NEW P \in Seq(Nat), NEW a \in Nat, a <= Len(P), NEW o \in Nat,
           HoldsFrom(B, P, a, o),
           NEW i \in Nat, NEW n \in Nat, i + n <= Len(B), o + i >= 1, o + i + n <= a + 1
    PROVE  PieceOf(SubSeq(B, i + 1, i + n), P, o + i, n)
<1>1. Len(B) \in Nat /\ Len(P) \in Nat OBVIOUS
<1>2. PICK f \in Nat : f = i + 1 OBVIOUS
<1>3. PICK g \in Nat : g = i + n OBVIOUS
<1>4. PICK k \in Nat : k = o + i OBVIOUS
<1>5. PICK l \in Int : l = o + i + n - 1 OBVIOUS
<1>6. \A j \in f .. g : B[j] \in Nat BY <1>1, <1>2, <1>3
<1>7. \A j \in k .. l : P[j] \in Nat BY <1>1, <1>4, <1>5
<1>8. PICK s : s = SubSeq(B, f, g) OBVIOUS
<1>9. PICK t : t = SubSeq(P, k, l) OBVIOUS
<1>10. /\ s \in Seq(Nat) /\ Len(s) = (IF f <= g THEN g - f + 1 ELSE 0)
       /\ \A j \in 1 .. (g - f + 1) : s[j] = B[f + j - 1]
  BY <1>6, <1>8, SubSeqProperties
<1>11. /\ t \in Seq(Nat) /\ Len(t) = (IF k <= l THEN l - k + 1 ELSE 0)
       /\ \A j \in 1 .. (l - k + 1) : t[j] = P[k + j - 1]
  BY <1>7, <1>9, SubSeqProperties
<1>12. Len(s) = n /\ Len(t) = n /\ g - f + 1 = n /\ l - k + 1 = n
  BY <1>2, <1>3, <1>4, <1>5, <1>10, <1>11
<1>13. ASSUME NEW j \in 1 .. n PROVE s[j] = t[j]
  <2>1. PICK m \in Nat : m = f + j - 1 BY <1>2
  <2>2. PICK q \in Nat : q = k + j - 1 BY <1>4
  <2>3. s[j] = B[m] /\ t[j] = P[q] BY <1>10, <1>11, <1>12, <2>1, <2>2
  <2>4. m \in 1 .. Len(B) /\ o + (m - 1) = q /\ q # 0 /\ q <= a BY <1>1, <1>2, <1>4, <2>1, <2>2
  <2>5. B[m] = StreamByte(P, a, q) BY <2>4 DEF HoldsFrom
  <2> QED BY <2>3, <2>4, <2>5 DEF StreamByte
<1>14. s = t BY <1>10, <1>11, <1>12, <1>13
<1>15. l = k + n - 1 BY <1>4, <1>5
<1> QED BY <1>2, <1>3, <1>4, <1>8, <1>9, <1>10, <1>12, <1>14, <1>15 DEF PieceOf

\* What may be sent is at most the congestion window.
LEMMA MaxAllowed ==
    ASSUME NEW x, x.cwnd \in Nat, x.snd_wnd \in Nat, Mss \in Nat, Mss >= 2
    PROVE  /\ get_max_allowed_to_send(x) \in Nat
           /\ get_max_allowed_to_send(x) <= x.cwnd
<1>1. PICK space : space = Lesser(x.snd_wnd, x.cwnd) OBVIOUS
<1>2. space \in Nat /\ space <= x.cwnd BY <1>1 DEF Lesser
<1>3. space % Mss \in Nat /\ space % Mss <= space BY <1>2
<1>4. get_max_allowed_to_send(x) = space - (space % Mss) BY <1>1 DEF get_max_allowed_to_send
<1> QED BY <1>2, <1>3, <1>4

\* The numbers of a sender stay in the lower half.
LEMMA SenderRange ==
    ASSUME NEW c, NEW P, SenderOK(c, P), StreamsFit, StreamFits(P)
    PROVE  /\ BufferEnd(c) \in Nat /\ BufferEnd(c) + 1 <= IntMax
           /\ Len(c.send_buffer) \in Nat /\ Len(P) \in Nat
           /\ c.accepted \in Nat
<1>1. Counters(c) /\ c.send_buffer \in Seq(Nat) /\ c.accepted \in Nat /\ c.accepted <= Len(P)
  BY DEF SenderOK, Bytes
<1>2. P \in Seq(Nat) /\ Iss + Len(P) + 3 <= IntMax BY DEF StreamFits
<1>3. Len(P) \in Nat /\ Len(c.send_buffer) \in Nat BY <1>1, <1>2
<1>4. IntMax \in Nat /\ Iss \in Nat BY Constants
<1>5. /\ BufferEnd(c) = Iss + c.accepted + 1 \/ BufferEnd(c) = Iss + c.accepted + 2
  BY <1>1 DEF Counters, FinBuffered
<1> QED BY <1>1, <1>2, <1>3, <1>4, <1>5

\* What is outstanding and what is unsent, counted from SND.UNA.
LEMMA SendingOutstanding ==
    ASSUME NEW c, NEW P, NEW e, SenderOK(c, P), Sending(c, P, e), StreamsFit, StreamFits(P)
    PROVE  /\ e \in Nat /\ c.rc.snd_nxt <= e
           /\ c.ccc.snd_nxt >= c.rc.snd_una
           /\ get_num_outstanding(c.ccc) = c.ccc.snd_nxt - c.rc.snd_una
           /\ num_unsent(c) = BufferEnd(c) - c.ccc.snd_nxt
<1>1. e \in Nat /\ c.rc.snd_nxt <= e BY DEF Sending, Numbered
<1>2. Counters(c) BY DEF SenderOK
<1>3. BufferEnd(c) \in Nat /\ BufferEnd(c) + 1 <= IntMax /\ Len(c.send_buffer) \in Nat /\ IntMax \in Nat
  BY SenderRange, Constants
<1>4. c.ccc.snd_nxt >= c.rc.snd_una BY <1>1, <1>2, <1>3, SMTT(20) DEF Sending, Counters
<1>5. c.ccc.snd_nxt <= IntMax BY <1>2, <1>3 DEF Counters
<1>6. get_num_outstanding(c.ccc) = c.ccc.snd_nxt - c.rc.snd_una
  BY <1>2, <1>4, <1>5, SmallMinus DEF get_num_outstanding, Counters
<1>7. AsInt(c.ccc.snd_nxt - c.rc.snd_una) = c.ccc.snd_nxt - c.rc.snd_una
  BY <1>2, <1>3, <1>4, <1>5 DEF AsInt, Counters
<1>8. num_unsent(c) = BufferEnd(c) - c.ccc.snd_nxt
  BY <1>2, <1>3, <1>6, <1>7 DEF num_unsent, BufferEnd, Counters
<1> QED BY <1>1, <1>4, <1>6, <1>8

\* set_snd_nxt raises SND.MAX with SND.NXT.
LEMMA SetSndNxt ==
    ASSUME NEW x, {"snd_nxt", "snd_max"} \subseteq DOMAIN x, NEW n \in Nat, n <= IntMax,
           x.snd_max \in Nat, x.snd_max <= IntMax
    PROVE  LET y == set_snd_nxt(x, n) IN
           /\ DOMAIN y = DOMAIN x /\ y.snd_nxt = n
           /\ y.snd_max = IF x.snd_max < n THEN n ELSE x.snd_max
           /\ \A f \in DOMAIN x \ {"snd_nxt", "snd_max"} : y[f] = x[f]
BY SmallLess DEF set_snd_nxt

\* What sending one packet leaves alone.
SameButSent(c, d) ==
    /\ Shape(d) /\ SameCalls(c, d) /\ SameState(c, d) /\ SameReceive(c, d) /\ d.rc = c.rc
    /\ d.send_buffer = c.send_buffer /\ d.saved_send = c.saved_send /\ d.accepted = c.accepted

\* send_one_packet cuts the next bytes of the buffer and queues them with their number.
LEMMA SendOnePacket ==
    ASSUME NEW c, NEW P, NEW e, NEW ignore \in BOOLEAN, StreamsFit, StreamFits(P), Shape(c),
           SenderOK(c, P), Sending(c, P, e), ~SynQueued(c.queue),
           ignore => c.ccc.probe_timer,
           get_send_data_length(c, ignore) > 0
    PROVE  LET d == send_one_packet(c, ignore) IN
           /\ SameButSent(c, d) /\ d.aborted = c.aborted
           /\ SenderOK(d, P) /\ (\E f : Sending(d, P, f)) /\ ~SynQueued(d.queue)
<1> DEFINE index == get_num_outstanding(c.ccc)
           length == get_send_data_length(c, ignore)
           data == SubSeq(c.send_buffer, index + 1, index + length)
           s == Segment(FALSE, FALSE, FALSE, data)
           ccc2 == set_snd_nxt(c.ccc, Plus(c.ccc.snd_nxt, length))
<1>1. PICK d : d = send_one_packet(c, ignore) OBVIOUS
<1>2. /\ SameButSent(c, d) /\ d.ccc = ccc2
      /\ d.queue = Append(c.queue, [event |-> "send_packet", p |-> s])
      /\ d.aborted = c.aborted /\ length > 0
  BY <1>1 DEF Shape, SameButSent, SameCalls, SameState, SameReceive, send_one_packet, Require, Abort, None,
     enqueue_send, set_snd_nxt
<1> HIDE DEF length
<1>3. Counters(c) /\ Bytes(c, P) /\ Window(c) /\ Calls(c, P) /\ c.queue \in Seq(Events) BY DEF SenderOK
<1>4. PICK u \in Nat : u = c.rc.snd_una BY <1>3 DEF Counters
<1>5. PICK cn \in Nat : cn = c.ccc.snd_nxt BY <1>3 DEF Counters
<1>6. PICK cm \in Nat : cm = c.ccc.snd_max BY <1>3 DEF Counters
<1>7. PICK w \in Nat : w = c.ccc.cwnd BY <1>3 DEF Window
<1>8. PICK end \in Nat : end = BufferEnd(c) /\ end + 1 <= IntMax BY SenderRange
<1>9. PICK l \in Nat : l = Len(c.send_buffer) /\ end = u + l BY <1>4, <1>8, SenderRange DEF BufferEnd
<1>10. PICK a \in Nat : a = c.accepted /\ a <= Len(P) BY <1>3 DEF Bytes
<1>11. IntMax \in Nat /\ Iss \in Nat /\ Mss \in Nat /\ MaxReceiveWindow \in Nat BY Constants
<1>12. Iss <= u /\ Iss + 1 <= cn /\ cn <= cm /\ cm <= end + 1
  BY <1>3, <1>4, <1>5, <1>6, <1>8 DEF Counters
<1>13. PICK i \in Nat : i = index /\ i = cn - u /\ num_unsent(c) = end - cn /\ cn >= u
  BY <1>4, <1>5, <1>8, SendingOutstanding
<1>14. e \in Nat /\ c.rc.snd_nxt <= e BY SendingOutstanding
<1>15. PICK max \in Nat : max = get_max_allowed_to_send(c.ccc) /\ max <= w
  BY <1>3, <1>7, MaxAllowed, Constants DEF Window
<1>16. /\ length \in Int /\ length <= end - cn /\ (~ignore => length <= max - i)
  BY <1>5, <1>8, <1>11, <1>13, <1>15 DEF length, get_send_data_length, Lesser
<1>17. PICK n \in Nat : n = length /\ n >= 1 /\ n <= end - cn /\ (~ignore => n <= max - i)
  BY <1>2, <1>16
<1>18. c.state \notin Ending /\ e = cn
  BY <1>5, <1>8, <1>17 DEF Sending
<1>19. end = Iss + a + 1 /\ ~FinBuffered(c) BY <1>3, <1>8, <1>10, <1>11, <1>18, SMTT(20) DEF Counters, FinBuffered
<1>20. Plus(cn, n) = cn + n BY <1>8, <1>11, <1>17, SmallPlus
<1>21. /\ d.ccc.snd_nxt = cn + n
       /\ d.ccc.snd_max = (IF cm < cn + n THEN cn + n ELSE cm)
       /\ d.ccc.snd_una = c.ccc.snd_una /\ d.ccc.cwnd = c.ccc.cwnd
       /\ d.ccc.snd_wnd = c.ccc.snd_wnd /\ d.ccc.probe_timer = c.ccc.probe_timer
       /\ d.ccc.state = c.ccc.state
  <2>1. cn + n \in Nat /\ cn + n <= IntMax /\ cm <= IntMax BY <1>8, <1>11, <1>12, <1>17
  <2>2. {"snd_nxt", "snd_max"} \subseteq DOMAIN c.ccc BY DEF Shape
  <2>3. {"snd_una", "cwnd", "snd_wnd", "probe_timer", "state"} \subseteq DOMAIN c.ccc \ {"snd_nxt", "snd_max"}
    BY DEF Shape
  <2>4. d.ccc = set_snd_nxt(c.ccc, cn + n) BY <1>2, <1>5, <1>17, <1>20
  <2>5. PICK k \in Nat : k = cn + n OBVIOUS
  <2>6. k <= IntMax BY <2>1, <2>5
  <2>7. /\ d.ccc.snd_nxt = k /\ d.ccc.snd_max = (IF cm < k THEN k ELSE cm)
        /\ \A f \in DOMAIN c.ccc \ {"snd_nxt", "snd_max"} : d.ccc[f] = c.ccc[f]
    BY <1>6, <2>1, <2>2, <2>4, <2>5, <2>6, SetSndNxt
  <2> QED BY <2>3, <2>5, <2>7
<1>22. data = SubSeq(P, cn - Iss, cn - Iss + n - 1) /\ data \in Seq(Nat) /\ Len(data) = n
  <2>1. P \in Seq(Nat) /\ c.send_buffer \in Seq(Nat) BY <1>3 DEF StreamFits, Bytes
  <2>2. PICK o \in Nat : o = u - Iss BY <1>11, <1>12
  <2>3. i + n <= Len(c.send_buffer) /\ o + i >= 1 /\ o + i + n <= a + 1 /\ o + i = cn - Iss
    BY <1>9, <1>11, <1>12, <1>13, <1>17, <1>19, <2>2
  <2>4. HoldsFrom(c.send_buffer, P, a, o) BY <1>3, <1>4, <1>10, <2>2 DEF Bytes
  <2>5. PieceOf(SubSeq(c.send_buffer, i + 1, i + n), P, o + i, n)
    BY <1>10, <2>1, <2>3, <2>4, StreamSlice
  <2> QED BY <1>13, <1>17, <2>3, <2>5 DEF PieceOf
<1> HIDE DEF index, data
<1>23. PICK x : x = [event |-> "send_packet", p |-> s] OBVIOUS
<1>24. /\ x.event = "send_packet" /\ x.p.syn = FALSE /\ x.p.fin = FALSE /\ x.p.data = data
       /\ x \in Events
  BY <1>22, <1>23 DEF Segment, Events, Segments, ProtocolEvents
<1>25. EventLength(x) = n BY <1>22, <1>24 DEF EventLength, SegmentLength
<1>26. FitsAt(x, e, P, c.accepted, c.state \in Ending)
  <2>1. cn > Iss /\ cn + n <= Iss + a + 1 BY <1>11, <1>12, <1>17, <1>19
  <2> QED BY <1>10, <1>18, <1>22, <1>24, <2>1 DEF FitsAt
<1>27. Numbered(c.queue, c.rc.snd_nxt, e, P, c.accepted, c.state \in Ending) BY DEF Sending
<1>28. Numbered(d.queue, d.rc.snd_nxt, cn + n, P, d.accepted, d.state \in Ending)
  BY <1>2, <1>18, <1>23, <1>25, <1>26, <1>27, NumberedAppend DEF SameButSent, SameState
<1>29. ~SynQueued(d.queue)
  <2>1. Len(Append(c.queue, x)) = Len(c.queue) + 1 /\ Len(c.queue) \in Nat BY <1>3, <1>24
  <2>2. \A j \in 1 .. (Len(c.queue) + 1) :
          Append(c.queue, x)[j] = IF j = Len(c.queue) + 1 THEN x ELSE c.queue[j]
    BY <1>3, <1>24
  <2>3. ASSUME NEW j \in 1 .. Len(d.queue), d.queue[j].event = "send_packet", d.queue[j].p.syn PROVE FALSE
    <3>1. CASE j = Len(c.queue) + 1
      <4>1. d.queue[j] = x BY <1>2, <1>23, <2>1, <2>2, <3>1
      <4> QED BY <1>24, <2>3, <4>1
    <3>2. CASE j # Len(c.queue) + 1
      <4>1. j \in 1 .. Len(c.queue) /\ d.queue[j] = c.queue[j] BY <1>2, <1>23, <2>1, <2>2, <3>2
      <4> QED BY <2>3, <4>1 DEF SynQueued
    <3> QED BY <3>1, <3>2
  <2> QED BY <2>3 DEF SynQueued
<1>30. BufferEnd(d) = end /\ ~FinBuffered(d) /\ d.state \notin Ending
  BY <1>2, <1>8, <1>18, <1>19 DEF BufferEnd, FinBuffered, SameButSent, SameState
<1>31. d.rc = c.rc /\ d.accepted = c.accepted BY <1>2 DEF SameButSent
<1>32. Sending(d, P, cn + n)
  <2>1. cn + n <= end BY <1>17
  <2>2. c.rc.timer /\ c.rc.snd_nxt = c.rc.snd_una => e > c.rc.snd_nxt BY DEF Sending
  <2>3. c.rc.snd_nxt \in Nat BY <1>3 DEF Counters
  <2>4. c.rc.timer /\ c.rc.snd_nxt = c.rc.snd_una => cn + n > c.rc.snd_nxt
    BY <1>18, <2>2, <2>3
  <2> QED BY <1>21, <1>28, <1>29, <1>30, <1>31, <2>1, <2>4 DEF Sending
<1>33. Counters(d)
  <2>1. cn + n <= end /\ Iss + 1 <= cn + n BY <1>11, <1>12, <1>17
  <2>2. /\ d.ccc.snd_max \in Nat /\ cn + n <= d.ccc.snd_max
        /\ d.ccc.snd_max <= end + 1 /\ cm <= d.ccc.snd_max
    <3>1. PICK top \in Nat : top = IF cm < cn + n THEN cn + n ELSE cm OBVIOUS
    <3>2. cn + n <= top /\ top <= end + 1 /\ cm <= top BY <1>12, <2>1, <3>1
    <3>3. d.ccc.snd_max = top BY <1>21, <3>1
    <3> QED BY <3>2, <3>3
  <2>3. c.rc.snd_max \in Nat /\ c.rc.snd_max <= cm /\ c.rc.snd_max <= end BY <1>3, <1>6, <1>8 DEF Counters
  <2>4. c.rc.snd_max <= d.ccc.snd_max BY <2>2, <2>3
  <2>5. BufferEnd(d) = Iss + d.accepted + 1 BY <1>10, <1>19, <1>30, <1>31
  <2> QED BY <1>3, <1>11, <1>21, <1>30, <1>31, <2>1, <2>2, <2>3, <2>4, <2>5 DEF Counters
<1>34. Window(d)
  <2>1. CASE ignore BY <1>3, <1>21, <2>1 DEF Window
  <2>2. CASE ~ignore
    <3>1. cn + n <= u + w BY <1>13, <1>15, <1>17, <2>2
    <3> QED BY <1>3, <1>4, <1>7, <1>21, <1>31, <3>1 DEF Window
  <2> QED BY <2>1, <2>2
<1>35. Bytes(d, P) BY <1>2, <1>3 DEF Bytes, SameButSent
<1>36. Calls(d, P) BY <1>2, <1>3 DEF Calls, SameButSent, SameCalls, SameState
<1>37. d.queue \in Seq(Events) BY <1>28 DEF Numbered
<1>38. SenderOK(d, P)
  BY <1>2, <1>31, <1>32, <1>33, <1>34, <1>35, <1>36, <1>37 DEF SenderOK, SameCalls, SameState, SameButSent
<1> QED BY <1>1, <1>2, <1>29, <1>32, <1>38

\* c0 after some rounds of send_packets.
AfterRounds(c0, c, P) ==
    /\ SameButSent(c0, c) /\ c.aborted = c0.aborted
    /\ SenderOK(c, P) /\ (\E e : Sending(c, P, e)) /\ ~SynQueued(c.queue)

\* One round of the loop of send_packets.
LEMMA RoundKeeps ==
    ASSUME NEW c0, NEW c, NEW P, StreamsFit, StreamFits(P), AfterRounds(c0, c, P)
    PROVE  AfterRounds(c0, SendRound(c), P)
<1>1. Shape(c) /\ SameButSent(c0, c) /\ c.aborted = c0.aborted /\ SenderOK(c, P) /\ ~SynQueued(c.queue)
  BY DEF AfterRounds, SameButSent
<1>2. PICK e : Sending(c, P, e) BY DEF AfterRounds
<1>3. CASE ~(num_unsent(c) > 0 /\ get_num_outstanding(c.ccc) < get_max_allowed_to_send(c.ccc))
  <2>1. SendRound(c) = c BY <1>3, Zenon DEF SendRound
  <2> QED BY <2>1
<1>4. CASE num_unsent(c) > 0 /\ get_num_outstanding(c.ccc) < get_max_allowed_to_send(c.ccc)
  <2>1. SendRound(c) = send_one_packet(c, FALSE) BY <1>4, Zenon DEF SendRound
  <2>2. c.ccc.cwnd \in Nat /\ c.ccc.snd_wnd \in Nat BY <1>1 DEF SenderOK, Window
  <2>3. PICK max \in Nat : max = get_max_allowed_to_send(c.ccc) BY <2>2, MaxAllowed, Constants
  <2>4. /\ get_num_outstanding(c.ccc) = c.ccc.snd_nxt - c.rc.snd_una
        /\ num_unsent(c) = BufferEnd(c) - c.ccc.snd_nxt
    BY <1>1, <1>2, SendingOutstanding
  <2>5. c.rc.snd_una \in Nat /\ c.ccc.snd_nxt \in Nat /\ BufferEnd(c) \in Nat
    BY <1>1, SenderRange DEF SenderOK, Counters
  <2>6. PICK i \in Int : i = get_num_outstanding(c.ccc) BY <2>4, <2>5
  <2>7. PICK n \in Int : n = num_unsent(c) BY <2>4, <2>5
  <2>8. get_send_data_length(c, FALSE) > 0
    <3>1. n > 0 /\ i < max BY <1>4, <2>3, <2>6, <2>7
    <3>2. get_send_data_length(c, FALSE) = Lesser(Lesser(Lesser(n, Mss), MaxReceiveWindow), max - i)
      BY <2>3, <2>6, <2>7 DEF get_send_data_length
    <3>3. Mss \in Nat /\ Mss >= 2 /\ MaxReceiveWindow \in Nat /\ MaxReceiveWindow >= 2 * Mss BY Constants
    <3>4. Mss > 0 /\ MaxReceiveWindow > 0 BY <3>3
    <3>5. PICK v \in Int : v = max - i /\ v > 0 BY <3>1
    <3>6. Lesser(n, Mss) \in Int /\ Lesser(n, Mss) > 0 BY <3>1, <3>3, <3>4 DEF Lesser
    <3>7. PICK y \in Int : y = Lesser(n, Mss) /\ y > 0 BY <3>6
    <3>8. Lesser(y, MaxReceiveWindow) \in Int /\ Lesser(y, MaxReceiveWindow) > 0 BY <3>3, <3>4, <3>7 DEF Lesser
    <3>9. PICK z \in Int : z = Lesser(y, MaxReceiveWindow) /\ z > 0 BY <3>8
    <3>10. Lesser(z, v) > 0 BY <3>5, <3>9 DEF Lesser
    <3> QED BY <3>2, <3>5, <3>7, <3>9, <3>10
  <2>9. PICK d : d = send_one_packet(c, FALSE) OBVIOUS
  <2>10. /\ SameButSent(c, d) /\ d.aborted = c.aborted
         /\ SenderOK(d, P) /\ (\E f : Sending(d, P, f)) /\ ~SynQueued(d.queue)
    BY <1>1, <1>2, <2>8, <2>9, SendOnePacket
  <2>11. SameButSent(c0, d) BY <1>1, <2>10 DEF SameButSent, SameCalls, SameState, SameReceive
  <2> QED BY <1>1, <2>1, <2>9, <2>10, <2>11 DEF AfterRounds
<1> QED BY <1>3, <1>4

\* The loop of send_packets has its values.
LEMMA SendRoundsRun ==
    ASSUME NEW c, Len(c.send_buffer) \in Nat
    PROVE  /\ SendRounds(c)[0] = c
           /\ \A k \in 1 .. Len(c.send_buffer) : SendRounds(c)[k] = SendRound(SendRounds(c)[k - 1])
<1>1. PICK N \in Nat : N = Len(c.send_buffer) OBVIOUS
<1> DEFINE Good(n, f) ==
        DOMAIN f = 0 .. n /\ f[0] = c /\ \A k \in 1 .. n : f[k] = SendRound(f[k - 1])
           G == {n \in Nat : \E f : Good(n, f)}
<1>2. 0 \in G
  <2>1. PICK f : f = [k \in 0 .. 0 |-> c] OBVIOUS
  <2>2. Good(0, f) BY <2>1
  <2> HIDE DEF Good
  <2> QED BY <2>2
<1>3. ASSUME NEW n \in Nat, n \in G PROVE n + 1 \in G
  <2>1. PICK f : Good(n, f)
    <3> HIDE DEF Good
    <3> QED BY <1>3
  <2>2. PICK v : v = SendRound(f[n]) OBVIOUS
  <2>3. PICK g : g = [k \in 0 .. (n + 1) |-> IF k = n + 1 THEN v ELSE f[k]] OBVIOUS
  <2>4. DOMAIN g = 0 .. (n + 1) /\ g[n + 1] = v /\ \A k \in 0 .. n : g[k] = f[k] BY <2>3
  <2>5. ASSUME NEW k \in 1 .. (n + 1) PROVE g[k] = SendRound(g[k - 1])
    <3>1. CASE k = n + 1
      <4>1. k - 1 = n /\ n \in 0 .. n BY <3>1
      <4>2. g[k - 1] = f[n] BY <2>4, <4>1
      <4> QED BY <2>2, <2>4, <3>1, <4>2
    <3>2. CASE k # n + 1
      <4>1. k \in 1 .. n /\ k - 1 \in 0 .. n /\ k \in 0 .. n BY <3>2
      <4>2. g[k] = f[k] /\ g[k - 1] = f[k - 1] BY <2>4, <4>1
      <4> QED BY <2>1, <4>1, <4>2
    <3> QED BY <3>1, <3>2
  <2>6. g[0] = c BY <2>1, <2>4
  <2>7. Good(n + 1, g) BY <2>4, <2>5, <2>6
  <2> HIDE DEF Good
  <2> QED BY <2>7
<1>4. \A n \in Nat : n \in G
  <2> HIDE DEF G
  <2> QED BY <1>2, <1>3, SetInduction
<1>5. PICK f0 : Good(N, f0)
  <2>1. N \in G BY <1>4
  <2> HIDE DEF Good
  <2> QED BY <2>1
<1> DEFINE E(g) == [k \in 0 .. N |-> IF k = 0 THEN c ELSE SendRound(g[k - 1])]
<1>6. PICK f : f = [k \in 0 .. N |-> f0[k]] OBVIOUS
<1>7. f = E(f)
  <2>1. ASSUME NEW k \in 0 .. N PROVE f[k] = IF k = 0 THEN c ELSE SendRound(f[k - 1])
    <3>1. CASE k = 0 BY <1>5, <1>6, <3>1
    <3>2. CASE k # 0
      <4>1. k \in 1 .. N /\ k - 1 \in 0 .. N BY <3>2
      <4> QED BY <1>5, <1>6, <3>2, <4>1
    <3> QED BY <3>1, <3>2
  <2>2. PICK g : g = E(f) OBVIOUS
  <2>3. g = [k \in 0 .. N |-> IF k = 0 THEN c ELSE SendRound(f[k - 1])] BY <2>2
  <2>4. f = g BY <1>6, <2>1, <2>3
  <2> QED BY <2>2, <2>4
<1>8. SendRounds(c) = CHOOSE g : g = E(g) BY <1>1 DEF SendRounds
<1> HIDE DEF E
<1>9. SendRounds(c) = E(SendRounds(c)) BY <1>7, <1>8
<1>10. PICK g : g = SendRounds(c) OBVIOUS
<1>11. g = E(g) BY <1>9, <1>10
<1>12. g[0] = c /\ \A k \in 1 .. N : g[k] = SendRound(g[k - 1])
  <2>1. PICK h : h = E(g) OBVIOUS
  <2>2. h[0] = c /\ \A k \in 1 .. N : h[k] = SendRound(g[k - 1]) BY <2>1 DEF E
  <2> QED BY <1>11, <2>1, <2>2
<1> QED BY <1>1, <1>10, <1>12

\* send_packets sends as long as the window and the buffer allow.
LEMMA SendPackets ==
    ASSUME NEW c, NEW P, StreamsFit, StreamFits(P), Shape(c),
           SenderOK(c, P), NEW e, Sending(c, P, e), ~SynQueued(c.queue)
    PROVE  AfterRounds(c, send_packets(c), P)
<1>1. PICK N \in Nat : N = Len(c.send_buffer) BY SenderRange
<1>2. PICK g : g = SendRounds(c) OBVIOUS
<1>3. g[0] = c /\ \A k \in 1 .. N : g[k] = SendRound(g[k - 1]) BY <1>1, <1>2, SendRoundsRun
<1> DEFINE G == {k \in Nat : k <= N => AfterRounds(c, g[k], P)}
<1>4. 0 \in G
  <2>1. SameButSent(c, c) BY DEF SameButSent, SameCalls, SameState, SameReceive
  <2>2. AfterRounds(c, c, P) BY <2>1 DEF AfterRounds
  <2> QED BY <1>3, <2>2
<1>5. ASSUME NEW k \in Nat, k \in G PROVE k + 1 \in G
  <2> SUFFICES ASSUME k + 1 <= N PROVE AfterRounds(c, g[k + 1], P) OBVIOUS
  <2>1. AfterRounds(c, g[k], P) BY <1>5
  <2>2. PICK j \in Nat : j = k + 1 OBVIOUS
  <2>3. j \in 1 .. N /\ j - 1 = k BY <2>2
  <2>4. g[j] = SendRound(g[k]) BY <1>3, <2>3
  <2> QED BY <2>1, <2>2, <2>4, RoundKeeps
<1>6. \A k \in Nat : k \in G
  <2> HIDE DEF G
  <2> QED BY <1>4, <1>5, SetInduction
<1>7. AfterRounds(c, g[N], P) BY <1>6
<1> QED BY <1>1, <1>2, <1>7 DEF send_packets

-------------------------------------------------------------------------------
\* A segment leaves the queue.

\* What numbering a segment leaves alone.
SameRest(c, d) ==
    /\ Shape(d) /\ SameCalls(c, d) /\ SameState(c, d) /\ SameReceive(c, d)
    /\ d.queue = c.queue /\ d.saved_send = c.saved_send /\ d.accepted = c.accepted

\* d is c after the reliability context has counted segment s and started the
\* timer for it.
Counted(c, s, d) ==
    /\ SameRest(c, d) /\ d.ccc = c.ccc /\ d.send_buffer = c.send_buffer
    /\ d.aborted = c.aborted
    /\ d.rc.initialized = TRUE /\ d.rc.snd_una = c.rc.snd_una
    /\ d.rc.snd_nxt = c.rc.snd_nxt + SegmentLength(s)
    /\ d.rc.snd_max = Greater(c.rc.snd_max, c.rc.snd_nxt + SegmentLength(s))
    /\ d.rc.timer = IF SegmentLength(s) > 0 THEN TRUE ELSE c.rc.timer

Countable(c, s) ==
    /\ Shape(c) /\ c.rc.initialized = TRUE
    /\ SegmentLength(s) \in Nat /\ c.rc.snd_nxt \in Nat /\ c.rc.snd_max \in Nat
    /\ c.rc.snd_nxt + SegmentLength(s) <= IntMax /\ c.rc.snd_max <= IntMax

\* The reliability context numbers the segment that leaves the queue.
LEMMA NumberSegment ==
    ASSUME NEW c, NEW s, Countable(c, s)
    PROVE  Counted(c, s, check_and_start_timer(set_sequence_number(c, s), s))
<1> USE DEF Countable
<1>1. PICK l \in Nat : l = SegmentLength(s) OBVIOUS
<1>2. PICK n \in Nat : n = c.rc.snd_nxt OBVIOUS
<1>3. PICK m \in Nat : m = c.rc.snd_max OBVIOUS
<1>4. n + l <= IntMax /\ m <= IntMax BY <1>1, <1>2, <1>3
<1>5. Plus(n, l) = n + l BY <1>4, SmallPlus
<1>6. PICK k \in Nat : k = n + l OBVIOUS
<1>7. less_than(m, k) <=> m < k BY <1>6, <1>4, SmallLess
<1>8. PICK e : e = set_sequence_number(c, s) OBVIOUS
<1>9. e = [c EXCEPT !.rc = set_snd_nxt(@, k)] BY <1>5, <1>6, <1>8, <1>1, <1>2 DEF set_sequence_number
<1>10. /\ SameRest(c, e) /\ e.ccc = c.ccc /\ e.send_buffer = c.send_buffer /\ e.aborted = c.aborted
      /\ e.rc.initialized = TRUE /\ e.rc.snd_una = c.rc.snd_una /\ e.rc.timer = c.rc.timer
      /\ e.rc.snd_nxt = k /\ e.rc.snd_max = (IF m < k THEN k ELSE m)
  BY <1>7, <1>9, <1>3 DEF SameRest, Shape, SameCalls, SameState, SameReceive, set_snd_nxt
<1>11. PICK d : d = check_and_start_timer(e, s) OBVIOUS
<1>12. d = IF l > 0 THEN [e EXCEPT !.rc.timer = TRUE] ELSE e
  BY <1>11, <1>1 DEF check_and_start_timer, start_timer
<1>13. /\ SameRest(c, d) /\ d.ccc = c.ccc /\ d.send_buffer = c.send_buffer /\ d.aborted = c.aborted
      /\ d.rc.initialized = TRUE /\ d.rc.snd_una = c.rc.snd_una
      /\ d.rc.snd_nxt = k /\ d.rc.snd_max = (IF m < k THEN k ELSE m)
      /\ d.rc.timer = IF l > 0 THEN TRUE ELSE c.rc.timer
  BY <1>10, <1>12 DEF SameRest, Shape, SameCalls, SameState, SameReceive
<1> QED BY <1>6, <1>8, <1>11, <1>13, <1>1, <1>2, <1>3 DEF Counted, Greater

\* Congestion control sees the segment: it counts a SYN and a FIN itself.
LEMMA CountControlByte ==
    ASSUME NEW c, Shape(c), NEW s \in Segments, NEW cn \in Nat, cn = c.ccc.snd_nxt, NEW cm \in Nat, cm = c.ccc.snd_max,
           cn <= cm, cm <= IntMax, s.fin => cn + 1 <= IntMax, Iss \in Nat, ~(s.syn /\ s.fin),
           s.syn => c.ccc.snd_una = Iss /\ cn = Iss + 1
    PROVE  LET d == cc_send_packet(c, s) IN
           /\ SameRest(c, d) /\ d.rc = c.rc /\ d.send_buffer = c.send_buffer /\ d.aborted = c.aborted
           /\ d.ccc.snd_una = c.ccc.snd_una /\ d.ccc.cwnd = c.ccc.cwnd
           /\ d.ccc.snd_wnd = c.ccc.snd_wnd /\ d.ccc.probe_timer = c.ccc.probe_timer
           /\ d.ccc.state = c.ccc.state
           /\ ~s.fin => d.ccc.snd_nxt = cn
           /\ s.fin => d.ccc.snd_nxt = cn + 1
           /\ d.ccc.snd_max = IF cm < d.ccc.snd_nxt THEN d.ccc.snd_nxt ELSE cm
<1> DEFINE ccc == CASE s.syn -> set_snd_nxt([c.ccc EXCEPT !.snd_una = Iss], Plus(Iss, 1))
                     [] ~s.syn /\ s.fin -> set_snd_nxt(c.ccc, Plus(c.ccc.snd_nxt, 1))
                     [] OTHER -> c.ccc
<1>1. s.syn \in BOOLEAN /\ s.fin \in BOOLEAN BY DEF Segments
<1>2. PICK k \in Nat : k = IF s.fin THEN cn + 1 ELSE cn OBVIOUS
<1>3. k <= IntMax /\ (less_than(cm, k) <=> cm < k)
  <2>1. k <= IntMax BY <1>1, <1>2, IntMaxAssumption
  <2> QED BY <2>1, SmallLess
<1>4. ASSUME s.syn PROVE Plus(Iss, 1) = k
  <2>1. k = Iss + 1 BY <1>1, <1>2, <1>4
  <2>2. Iss + 1 <= IntMax BY <1>3, <2>1
  <2> QED BY <2>1, <2>2, SmallPlus
<1>5. ASSUME s.fin PROVE Plus(cn, 1) = k
  <2>1. k = cn + 1 BY <1>1, <1>2, <1>5
  <2>2. cn + 1 <= IntMax BY <1>5
  <2> QED BY <2>1, <2>2, SmallPlus
<1>6. PICK x : x = ccc OBVIOUS
<1>7. /\ s.syn => x = set_snd_nxt([c.ccc EXCEPT !.snd_una = Iss], k)
      /\ s.fin => x = set_snd_nxt(c.ccc, k)
      /\ ~s.syn /\ ~s.fin => x = c.ccc
  BY <1>4, <1>5, <1>6
<1>8. /\ DOMAIN x = DOMAIN c.ccc
      /\ x.snd_una = c.ccc.snd_una /\ x.cwnd = c.ccc.cwnd
      /\ x.snd_wnd = c.ccc.snd_wnd /\ x.probe_timer = c.ccc.probe_timer
      /\ x.state = c.ccc.state
      /\ x.snd_nxt = k /\ x.snd_max = IF cm < k THEN k ELSE cm
  <2>1. DOMAIN c.ccc = {"snd_wnd", "snd_wnd1", "snd_wnd2", "cwnd", "ssthreshold", "state", "data_sent",
                        "probe_timer", "snd_una", "snd_nxt", "snd_max"}
    BY DEF Shape
  <2>2. CASE s.syn
    <3>1. x = set_snd_nxt([c.ccc EXCEPT !.snd_una = Iss], k) BY <1>7, <2>2
    <3> QED BY <1>3, <2>1, <2>2, <3>1 DEF set_snd_nxt
  <2>3. CASE s.fin
    <3>1. x = set_snd_nxt(c.ccc, k) BY <1>7, <2>3
    <3> QED BY <1>3, <2>1, <2>3, <3>1 DEF set_snd_nxt
  <2>4. CASE ~s.syn /\ ~s.fin
    <3>1. k = cn BY <1>1, <1>2, <2>4
    <3> QED BY <1>7, <2>4, <3>1
  <2> QED BY <1>1, <2>2, <2>3, <2>4
<1>9. PICK d : d = cc_send_packet(c, s) OBVIOUS
<1>10. d = [c EXCEPT !.ccc = [x EXCEPT !.data_sent = @ \/ s.data # <<>>]] BY <1>6, <1>9 DEF cc_send_packet
<1>11. /\ SameRest(c, d) /\ d.rc = c.rc /\ d.send_buffer = c.send_buffer /\ d.aborted = c.aborted
       /\ d.ccc.snd_una = c.ccc.snd_una /\ d.ccc.cwnd = c.ccc.cwnd
       /\ d.ccc.snd_wnd = c.ccc.snd_wnd /\ d.ccc.probe_timer = c.ccc.probe_timer
       /\ d.ccc.state = c.ccc.state
       /\ d.ccc.snd_nxt = k /\ d.ccc.snd_max = IF cm < k THEN k ELSE cm
  BY <1>8, <1>10 DEF SameRest, Shape, SameCalls, SameState, SameReceive
<1> QED BY <1>2, <1>9, <1>11

\* A control byte is already in the buffer, or the buffer is empty and takes it.
LEMMA AppendControlByte ==
    ASSUME NEW c, Shape(c), NEW s \in Segments, ~(s.syn /\ s.fin),
           s.syn => StartsWith(c.send_buffer, SynByte),
           s.fin => c.send_buffer = <<>> \/ EndsWith(c.send_buffer, FinByte)
    PROVE  LET d == append_control_bytes_to_send_buffer(c, s) IN
           /\ SameRest(c, d) /\ d.rc = c.rc /\ d.ccc = c.ccc /\ d.aborted = c.aborted
           /\ d.send_buffer = IF s.fin /\ c.send_buffer = <<>> THEN <<FinByte>> ELSE c.send_buffer
<1>1. s.syn \in BOOLEAN /\ s.fin \in BOOLEAN BY DEF Segments
<1>2. PICK d : d = append_control_bytes_to_send_buffer(c, s) OBVIOUS
<1>3. CASE s.fin /\ c.send_buffer = <<>>
  <2>1. ~EndsWith(c.send_buffer, FinByte) BY <1>3 DEF EndsWith
  <2>2. d = [c EXCEPT !.send_buffer = Append(@, FinByte)]
    BY <1>1, <1>2, <1>3, <2>1, Zenon DEF append_control_bytes_to_send_buffer
  <2>3. Append(<<>>, FinByte) = <<FinByte>> OBVIOUS
  <2>4. /\ SameRest(c, d) /\ d.rc = c.rc /\ d.ccc = c.ccc /\ d.aborted = c.aborted
        /\ d.send_buffer = Append(c.send_buffer, FinByte)
    BY <2>2 DEF SameRest, Shape, SameCalls, SameState, SameReceive
  <2> QED BY <1>2, <1>3, <2>3, <2>4
<1>4. CASE ~(s.fin /\ c.send_buffer = <<>>)
  <2>1. s.fin => EndsWith(c.send_buffer, FinByte) BY <1>4
  <2>2. d = c BY <1>1, <1>2, <2>1, Zenon DEF append_control_bytes_to_send_buffer
  <2>3. SameRest(c, c) BY DEF SameRest, SameCalls, SameState, SameReceive
  <2> QED BY <1>2, <1>4, <2>2, <2>3
<1> QED BY <1>3, <1>4

\* The data of a packet are the bytes of P that belong to its sequence number.
CarriesStream(p, P) ==
    LET from == Minus(p.seq, Plus(Iss, 1))
    IN p.data = SubSeq(P, from + 1, from + Len(p.data))

\* A segment whose bytes belong to SND.NXT becomes a packet that carries the stream.
LEMMA SegmentCarries ==
    ASSUME NEW c, NEW P, NEW s \in Segments, Iss \in Nat,
           NEW n \in Nat, n = SequenceNumberOf(c), Iss + 1 <= IntMax, n <= IntMax, P \in Seq(Nat),
           s.data # <<>> => n > Iss /\ s.data = SubSeq(P, n - Iss, n - Iss + Len(s.data) - 1)
    PROVE  CarriesStream(OutgoingPacket(c, s), P)
<1>1. Plus(Iss, 1) = Iss + 1 BY SmallPlus
<1>2. PICK p : p = OutgoingPacket(c, s) OBVIOUS
<1>3. p.seq = n /\ p.data = s.data BY <1>2 DEF OutgoingPacket
<1>4. s.data \in Seq(Nat) BY DEF Segments
<1>5. CASE s.data # <<>>
  <2>1. PICK o \in Nat : o = n - (Iss + 1) BY <1>5
  <2>2. Minus(n, Iss + 1) = o BY <1>5, <2>1, SmallMinus
  <2>3. PICK k \in Nat : k = Len(s.data) BY <1>4
  <2>4. o + 1 = n - Iss /\ o + k = n - Iss + k - 1
    <3>1. PICK i \in Nat : i = Iss OBVIOUS
    <3>2. o = n - (i + 1) BY <2>1, <3>1
    <3>3. o + 1 = n - i BY ONLY <3>2, n \in Nat, i \in Nat, o \in Nat
    <3>4. o + k = n - i + k - 1 BY ONLY <3>2, n \in Nat, i \in Nat, o \in Nat, k \in Nat
    <3> QED BY <3>1, <3>3, <3>4
  <2>5. s.data = SubSeq(P, o + 1, o + Len(s.data)) BY <1>5, <2>3, <2>4
  <2> QED BY <1>1, <1>2, <1>3, <2>2, <2>5 DEF CarriesStream
<1>6. CASE s.data = <<>>
  <2>1. PICK o : o = Minus(n, Iss + 1) OBVIOUS
  <2>2. IntMax \in Nat /\ Modulus \in Nat \ {0} BY IntMaxAssumption DEF Modulus
  <2>3. o \in Int
    <3>1. PICK x \in Int : x = n - (Iss + 1) OBVIOUS
    <3>2. x % Modulus \in Int BY <2>2
    <3> QED BY <2>1, <3>1, <3>2 DEF Minus
  <2>4. SubSeq(P, o + 1, o) = <<>> BY <2>3
  <2>5. Len(s.data) = 0 BY <1>6
  <2>6. o + Len(s.data) = o BY <2>3, <2>5
  <2> QED BY <1>1, <1>2, <1>3, <1>6, <2>1, <2>4, <2>6 DEF CarriesStream
<1> QED BY <1>5, <1>6

\* A data segment or a naked one leaves the queue.
LEMMA SendSegment ==
    ASSUME NEW c, NEW P, StreamsFit, StreamFits(P), Shape(c), SenderOK(c, P),
           c.queue # <<>>, Head(c.queue).event = "send_packet",
           NEW d, Taken(c, d), NEW s, s = Head(c.queue).p
    PROVE  LET t == send_packet(d, s) IN
           /\ Shape(t) /\ SameCalls(c, t) /\ SameState(c, t) /\ SameReceive(c, t)
           /\ t.aborted = c.aborted /\ t.queue = Tail(c.queue)
           /\ t.ccc.probe_timer = c.ccc.probe_timer /\ t.accepted = c.accepted
           /\ t.rc.snd_una = c.rc.snd_una
           /\ SenderOK(t, P)
           /\ s \in Segments /\ CarriesStream(OutgoingPacket(d, s), P)
<1>1. c.queue \in Seq(Events) BY DEF SenderOK
<1>2. Head(c.queue) = c.queue[1] /\ c.queue[1] \in Events BY <1>1
<1>3. ~Resending(c) BY <1>2 DEF Resending
<1>4. PICK e : Sending(c, P, e) BY <1>3 DEF SenderOK
<1>5. Counters(c) /\ Bytes(c, P) /\ Window(c) /\ Calls(c, P) BY DEF SenderOK
<1>6. PICK u \in Nat : u = c.rc.snd_una BY <1>5 DEF Counters
<1>7. PICK n \in Nat : n = c.rc.snd_nxt BY <1>5 DEF Counters
<1>8. PICK m \in Nat : m = c.rc.snd_max BY <1>5 DEF Counters
<1>9. PICK cn \in Nat : cn = c.ccc.snd_nxt BY <1>5 DEF Counters
<1>10. PICK cm \in Nat : cm = c.ccc.snd_max BY <1>5 DEF Counters
<1>11. PICK w \in Nat : w = c.ccc.cwnd BY <1>5 DEF Window
<1>12. PICK end \in Nat : end = BufferEnd(c) /\ end + 1 <= IntMax BY SenderRange
<1>13. PICK k \in Nat : k = Len(c.send_buffer) /\ end = u + k BY <1>6, <1>12, SenderRange DEF BufferEnd
<1>14. PICK a \in Nat : a = c.accepted /\ a <= Len(P) BY <1>5 DEF Bytes
<1>15. IntMax \in Nat /\ Iss \in Nat /\ Mss \in Nat /\ Mss >= 2 /\ FinByte \in Nat /\ MaxSendBuffer \in Nat \ {0}
  BY Constants
<1>16. /\ Iss <= u /\ u <= n /\ n <= m /\ m <= end
       /\ Iss + 1 <= cn /\ cn <= cm /\ cm <= end + 1 /\ m <= cm
  BY <1>5, <1>6, <1>7, <1>8, <1>9, <1>10, <1>12 DEF Counters
<1>17. e \in Nat /\ n <= e BY <1>4, <1>7, SendingOutstanding
<1> DEFINE closing == c.state \in Ending
           fb == end = Iss + a + 2
<1>18. FinBuffered(c) <=> fb BY <1>12, <1>14 DEF FinBuffered
<1>19. end = Iss + a + 1 \/ (fb /\ closing /\ k <= 1)
  BY <1>5, <1>12, <1>13, <1>14, <1>18 DEF Counters
<1>20. /\ ~closing => cn = e /\ e <= end
       /\ closing /\ ~fb => c.send_buffer = <<>> /\ cn = end /\ e <= end + 1
       /\ closing /\ fb => cn >= end /\ e <= end /\ (e > n => cn = end)
       /\ SynQueued(c.queue) => e = Iss + 1
  BY <1>4, <1>7, <1>9, <1>12, <1>18 DEF Sending
<1>21. s \in Segments BY <1>2 DEF Events
<1>22. s.syn \in BOOLEAN /\ s.fin \in BOOLEAN /\ s.data \in Seq(Nat) /\ Len(s.data) \in Nat BY <1>21 DEF Segments
<1>23. PICK l \in Nat : l = EventLength(Head(c.queue)) /\ l = SegmentLength(s)
  BY <1>2, EventLengthType DEF EventLength
<1>24. Numbered(c.queue, n, e, P, a, closing) BY <1>4, <1>7, <1>14 DEF Sending
<1>25. FitsAt(Head(c.queue), n, P, a, closing) /\ n + l <= e /\ Numbered(Tail(c.queue), n + l, e, P, a, closing)
  <2> HIDE DEF closing
  <2> QED BY <1>23, <1>24, NumberedTail
<1>26. /\ s.syn => n = Iss /\ ~s.fin /\ s.data = <<>>
       /\ s.fin => closing /\ n = Iss + a + 1 /\ ~s.syn /\ s.data = <<>>
       /\ s.data # <<>> => /\ n > Iss /\ n + Len(s.data) <= Iss + a + 1
                           /\ s.data = SubSeq(P, n - Iss, n - Iss + Len(s.data) - 1)
  BY <1>25 DEF FitsAt
<1>27. l = IF s.syn \/ s.fin THEN 1 ELSE Len(s.data) BY <1>23 DEF SegmentLength
<1>28. c.send_buffer \in Seq(Nat) /\ HoldsFrom(c.send_buffer, P, a, u - Iss) BY <1>5, <1>6, <1>14 DEF Bytes
\* A SYN is at the front of the buffer, and no FIN is under way.
<1>29. ASSUME s.syn
       PROVE  u = Iss /\ cn = Iss + 1 /\ ~closing /\ StartsWith(c.send_buffer, SynByte)
  <2>1. u = Iss /\ n = Iss BY <1>15, <1>16, <1>26, <1>29
  <2>2. k >= 1 BY <1>13, <1>15, <1>19, <2>1
  <2>3. c.send_buffer[1] = StreamByte(P, a, (u - Iss) + (1 - 1)) BY <1>13, <1>28, <2>2 DEF HoldsFrom
  <2>4. (u - Iss) + (1 - 1) = 0 BY <1>15, <2>1
  <2>5. c.send_buffer[1] = SynByte BY <2>3, <2>4 DEF StreamByte
  <2>6. c.send_buffer # <<>> BY <1>13, <2>2
  <2>7. SynQueued(c.queue)
    <3>1. 1 \in 1 .. Len(c.queue) BY <1>1
    <3> QED BY <1>2, <1>29, <3>1 DEF SynQueued
  <2>8. ~closing
    <3>1. closing /\ ~fb => k = 0 BY <1>13, <1>20
    <3>2. fb => k >= 2 BY <1>13, <1>15, <2>1
    <3>3. ~fb
      <4>1. fb => end # Iss + a + 1 BY <1>15
      <4>2. fb => k <= 1 BY <1>19, <4>1
      <4> QED BY <3>2, <4>2
    <3>4. ~(k = 0) BY <2>2
    <3> QED BY <3>1, <3>3, <3>4
  <2> QED BY <1>20, <2>1, <2>5, <2>6, <2>7, <2>8 DEF StartsWith
\* A FIN is the only byte of the buffer, or about to become it.
<1>30. ASSUME s.fin, fb
       PROVE  k = 1 /\ cn = end /\ n + 1 = end /\ EndsWith(c.send_buffer, FinByte)
  <2>1. closing /\ n + 1 = end /\ l = 1 BY <1>15, <1>22, <1>26, <1>27, <1>30
  <2>2. k = 1
    <3>1. k >= 1 BY <1>13, <1>16, <2>1
    <3>2. end # Iss + a + 1 BY <1>15, <1>30
    <3>3. k <= 1 BY <1>19, <3>2
    <3> QED BY <3>1, <3>3
  <2>3. cn = end BY <1>17, <1>20, <1>25, <1>30, <2>1
  <2>4. c.send_buffer[1] = StreamByte(P, a, (u - Iss) + (1 - 1)) BY <1>13, <1>28, <2>2 DEF HoldsFrom
  <2>5. (u - Iss) + (1 - 1) = a + 1 BY <1>13, <1>15, <1>30, <2>2
  <2>6. c.send_buffer[1] = FinByte BY <2>4, <2>5 DEF StreamByte
  <2>7. c.send_buffer # <<>>
    <3>1. Len(c.send_buffer) = 1 BY <1>13, <2>2
    <3>2. Len(c.send_buffer) # 0 BY <3>1
    <3> QED BY <3>2
  <2> QED BY <1>13, <2>1, <2>2, <2>3, <2>6, <2>7 DEF EndsWith
<1>31. ASSUME s.fin, ~fb
       PROVE  c.send_buffer = <<>> /\ k = 0 /\ cn = end /\ n = end /\ u = end
  <2>1. closing BY <1>22, <1>26, <1>31
  <2>2. c.send_buffer = <<>> /\ cn = end /\ k = 0 BY <1>13, <1>20, <1>31, <2>1
  <2>3. n = end /\ u = end BY <1>13, <1>15, <1>19, <1>26, <1>31, <2>2
  <2> QED BY <2>2, <2>3
<1>32. n + l <= IntMax /\ m <= IntMax /\ cm <= IntMax /\ (s.fin => cn + 1 <= IntMax)
  <2>1. e <= end + 1 BY <1>17, <1>20
  <2>2. n + l <= IntMax BY <1>12, <1>15, <1>17, <1>25, <2>1
  <2>3. s.fin => cn = end BY <1>30, <1>31
  <2> QED BY <1>12, <1>15, <1>16, <2>2, <2>3
<1>33. /\ Shape(d) /\ SameCalls(c, d) /\ SameState(c, d) /\ SameReceive(c, d) /\ d.aborted = c.aborted /\ d.rc = c.rc
       /\ d.queue = Tail(c.queue) /\ d.ccc = c.ccc
       /\ d.send_buffer = c.send_buffer /\ d.saved_send = c.saved_send /\ d.accepted = c.accepted
  BY DEF Taken, SameSend
<1>34. PICK r : r = check_and_start_timer(set_sequence_number(d, s), s) OBVIOUS
<1>35. /\ SameRest(d, r) /\ r.ccc = c.ccc /\ r.send_buffer = c.send_buffer /\ r.aborted = c.aborted
       /\ r.rc.initialized = TRUE /\ r.rc.snd_una = u
       /\ r.rc.snd_nxt = n + l /\ r.rc.snd_max = (IF m < n + l THEN n + l ELSE m)
       /\ r.rc.timer = IF l > 0 THEN TRUE ELSE c.rc.timer
  <2>1. d.rc.initialized = TRUE /\ n = d.rc.snd_nxt /\ m = d.rc.snd_max
    BY <1>7, <1>8, <1>33 DEF SenderOK
  <2>2. Countable(d, s) BY <1>23, <1>32, <1>33, <2>1 DEF Countable
  <2>3. Counted(d, s, r) BY <1>34, <2>2, NumberSegment
  <2> QED BY <1>6, <1>23, <1>33, <2>1, <2>3 DEF Counted, Greater
<1>36. PICK b : b = append_control_bytes_to_send_buffer(r, s) OBVIOUS
<1> DEFINE longer == s.fin /\ ~fb
<1>37. PICK buffer : buffer = IF longer THEN <<FinByte>> ELSE c.send_buffer OBVIOUS
<1>38. SameRest(r, b) /\ b.rc = r.rc /\ b.ccc = c.ccc /\ b.aborted = c.aborted /\ b.send_buffer = buffer
  <2>1. Shape(r) /\ ~(s.syn /\ s.fin) BY <1>26, <1>35 DEF SameRest
  <2>2. s.syn => StartsWith(r.send_buffer, SynByte) BY <1>29, <1>35
  <2>3. s.fin => r.send_buffer = <<>> \/ EndsWith(r.send_buffer, FinByte) BY <1>30, <1>31, <1>35
  <2>4. /\ SameRest(r, b) /\ b.rc = r.rc /\ b.ccc = r.ccc /\ b.aborted = r.aborted
        /\ b.send_buffer = IF s.fin /\ r.send_buffer = <<>> THEN <<FinByte>> ELSE r.send_buffer
    BY <1>21, <1>36, <2>1, <2>2, <2>3, AppendControlByte
  <2>5. s.fin => (r.send_buffer = <<>> <=> ~fb)
    <3>1. c.send_buffer = <<>> => k = 0 BY <1>13
    <3> QED BY <1>30, <1>31, <1>35, <3>1
  <2> QED BY <1>35, <1>37, <2>4, <2>5
<1>39. PICK t : t = cc_send_packet(b, s) OBVIOUS
<1>40. PICK cn1 \in Nat : cn1 = IF s.fin THEN cn + 1 ELSE cn OBVIOUS
<1>41. /\ SameRest(b, t) /\ t.rc = b.rc /\ t.send_buffer = buffer /\ t.aborted = c.aborted
       /\ t.ccc.snd_una = c.ccc.snd_una /\ t.ccc.cwnd = c.ccc.cwnd
       /\ t.ccc.snd_wnd = c.ccc.snd_wnd /\ t.ccc.probe_timer = c.ccc.probe_timer
       /\ t.ccc.state = c.ccc.state
       /\ t.ccc.snd_nxt = cn1 /\ t.ccc.snd_max = IF cm < cn1 THEN cn1 ELSE cm
  <2>1. Shape(b) /\ ~(s.syn /\ s.fin) BY <1>26, <1>38 DEF SameRest
  <2>2. s.syn => b.ccc.snd_una = Iss /\ cn = Iss + 1 BY <1>5, <1>6, <1>29, <1>38 DEF Counters
  <2>3. cn = b.ccc.snd_nxt /\ cm = b.ccc.snd_max BY <1>9, <1>10, <1>38
  <2>4. /\ SameRest(b, t) /\ t.rc = b.rc /\ t.send_buffer = b.send_buffer /\ t.aborted = b.aborted
        /\ t.ccc.snd_una = b.ccc.snd_una /\ t.ccc.cwnd = b.ccc.cwnd
        /\ t.ccc.snd_wnd = b.ccc.snd_wnd /\ t.ccc.probe_timer = b.ccc.probe_timer
        /\ t.ccc.state = b.ccc.state
        /\ ~s.fin => t.ccc.snd_nxt = cn
        /\ s.fin => t.ccc.snd_nxt = cn + 1
        /\ t.ccc.snd_max = IF cm < t.ccc.snd_nxt THEN t.ccc.snd_nxt ELSE cm
    <3>1. cn <= cm /\ cm <= IntMax /\ (s.fin => cn + 1 <= IntMax) /\ Iss \in Nat BY <1>15, <1>16, <1>32
    <3> QED BY <1>21, <1>39, <2>1, <2>2, <2>3, <3>1, CountControlByte
  <2>5. t.ccc.snd_nxt = cn1 BY <1>22, <1>40, <2>4
  <2> QED BY <1>38, <2>4, <2>5
<1>42. t = send_packet(d, s) BY <1>34, <1>36, <1>39 DEF send_packet, rc_send_packet
<1>43. /\ Shape(t) /\ SameCalls(c, t) /\ SameState(c, t) /\ SameReceive(c, t)
       /\ t.queue = Tail(c.queue) /\ t.saved_send = c.saved_send /\ t.accepted = c.accepted
  BY <1>33, <1>35, <1>38, <1>41 DEF SameRest, SameCalls, SameState, SameReceive
<1>44. /\ t.rc.initialized = TRUE /\ t.rc.snd_una = u
       /\ t.rc.snd_nxt = n + l /\ t.rc.snd_max = (IF m < n + l THEN n + l ELSE m)
       /\ t.rc.timer = IF l > 0 THEN TRUE ELSE c.rc.timer
  BY <1>35, <1>38, <1>41
<1>45. (t.state \in Ending) = closing BY <1>43 DEF SameState
\* The end of the buffer.
<1>46. PICK end1 \in Nat : end1 = (IF s.fin /\ ~fb THEN end + 1 ELSE end) OBVIOUS
<1>47. buffer \in Seq(Nat) /\ Len(buffer) = end1 - u /\ Len(buffer) <= MaxSendBuffer
  <2>1. CASE s.fin /\ ~fb
    <3>1. buffer = <<FinByte>> BY <1>37, <2>1
    <3>2. <<FinByte>> \in Seq(Nat) /\ Len(<<FinByte>>) = 1 BY <1>15
    <3>3. end1 - u = 1 BY <1>31, <1>46, <2>1
    <3> QED BY <1>15, <3>1, <3>2, <3>3
  <2>2. CASE ~(s.fin /\ ~fb)
    <3>1. buffer = c.send_buffer BY <1>37, <2>2
    <3>2. end1 = end BY <1>46, <2>2
    <3>3. Len(c.send_buffer) <= MaxSendBuffer BY <1>5 DEF Bytes
    <3> QED BY <1>13, <1>28, <3>1, <3>2, <3>3
  <2> QED BY <2>1, <2>2
<1>48. HoldsFrom(buffer, P, a, u - Iss)
  <2>1. CASE s.fin /\ ~fb
    <3>1. buffer = <<FinByte>> BY <1>37, <2>1
    <3>2. u - Iss = a + 1 BY <1>15, <1>19, <1>31, <2>1
    <3> SUFFICES ASSUME NEW i \in 1 .. Len(<<FinByte>>)
                 PROVE  <<FinByte>>[i] = StreamByte(P, a, (u - Iss) + (i - 1))
      BY <3>1 DEF HoldsFrom
    <3>3. i = 1 /\ (u - Iss) + (i - 1) = a + 1 BY <1>15, <3>2
    <3> QED BY <3>3 DEF StreamByte
  <2>2. CASE ~(s.fin /\ ~fb) BY <1>28, <1>37, <2>2
  <2> QED BY <2>1, <2>2
<1>49. BufferEnd(t) = end1 BY <1>41, <1>44, <1>47 DEF BufferEnd
<1>50. FinBuffered(t) <=> s.fin \/ fb
  <2>1. FinBuffered(t) <=> end1 = Iss + a + 2 BY <1>14, <1>43, <1>49 DEF FinBuffered
  <2>2. s.fin /\ ~fb => end1 = Iss + a + 2 BY <1>15, <1>19, <1>46
  <2> QED BY <1>22, <1>46, <2>1, <2>2
\* The numbers.
<1>51. n + l <= end1
  <2>1. CASE s.fin BY <1>22, <1>27, <1>30, <1>31, <1>46, <2>1
  <2>2. CASE s.syn
    <3>1. l = 1 /\ n = Iss /\ end1 = end BY <1>22, <1>26, <1>27, <1>46, <2>2
    <3> QED BY <1>15, <1>19, <3>1
  <2>3. CASE ~s.fin /\ ~s.syn
    <3>1. l = Len(s.data) /\ end1 = end BY <1>22, <1>27, <1>46, <2>3
    <3>2. CASE s.data = <<>>
      <4>1. l = 0 BY <3>1, <3>2
      <4> QED BY <1>16, <3>1, <4>1
    <3>3. CASE s.data # <<>>
      <4>1. n + l <= Iss + a + 1 BY <1>26, <3>1, <3>3
      <4>2. Iss + a + 1 <= end BY <1>15, <1>19
      <4> QED BY <1>15, <3>1, <4>1, <4>2
    <3> QED BY <3>2, <3>3
  <2> QED BY <1>22, <2>1, <2>2, <2>3
<1>52. n + l <= cm \/ n + l <= cn1
  <2>1. CASE s.fin BY <1>22, <1>27, <1>30, <1>31, <1>40, <2>1
  <2>2. CASE ~s.fin /\ l = 0 BY <1>16, <2>2
  <2>3. CASE ~s.fin /\ l > 0
    <3>1. CASE ~closing BY <1>16, <1>17, <1>20, <1>25, <3>1
    <3>2. CASE closing /\ fb BY <1>16, <1>17, <1>20, <1>25, <2>3, <3>2
    <3>3. CASE closing /\ ~fb
      <4>1. end1 = end /\ cn = end BY <1>20, <1>46, <2>3, <3>3
      <4> QED BY <1>16, <1>51, <4>1
    <3> QED BY <3>1, <3>2, <3>3
  <2> QED BY <1>22, <2>1, <2>2, <2>3
<1>53. /\ cn1 <= end1 + 1 /\ Iss + 1 <= cn1 /\ end <= end1 /\ cn <= cn1
  <2>1. CASE s.fin BY <1>15, <1>16, <1>22, <1>30, <1>31, <1>40, <1>46, <2>1
  <2>2. CASE ~s.fin
    <3>1. cn1 = cn /\ end1 = end BY <1>40, <1>46, <2>2
    <3> QED BY <1>16, <3>1
  <2> QED BY <1>22, <2>1, <2>2
<1>54. PICK m1 \in Nat : m1 = IF m < n + l THEN n + l ELSE m OBVIOUS
<1>55. PICK cm1 \in Nat : cm1 = IF cm < cn1 THEN cn1 ELSE cm OBVIOUS
<1>56. n + l <= m1 /\ m1 <= end1 /\ cn1 <= cm1 /\ cm1 <= end1 + 1 /\ m1 <= cm1
  BY <1>16, <1>51, <1>52, <1>53, <1>54, <1>55
<1>57. Counters(t)
  <2>1. t.rc.snd_nxt = n + l /\ t.rc.snd_max = m1 /\ t.ccc.snd_nxt = cn1 /\ t.ccc.snd_max = cm1
    BY <1>41, <1>44, <1>54, <1>55
  <2>2. t.ccc.snd_una = u BY <1>5, <1>6, <1>41 DEF Counters
  <2>3. u <= n + l BY <1>16
  <2>4. \/ BufferEnd(t) = Iss + t.accepted + 1
        \/ FinBuffered(t) /\ t.state \in Ending /\ Len(t.send_buffer) <= 1
    <3>1. CASE s.fin
      <4>1. FinBuffered(t) BY <1>50, <3>1
      <4>2. t.state \in Ending BY <1>22, <1>26, <1>45, <3>1
      <4>3. end1 - u <= 1
        <5>1. CASE fb
          <6>1. k = 1 BY <1>30, <3>1, <5>1
          <6>2. end1 = end BY <1>46, <5>1
          <6>3. end = u + 1 BY <1>13, <6>1
          <6> QED BY <6>2, <6>3
        <5>2. CASE ~fb BY <1>31, <1>46, <3>1, <5>2
        <5> QED BY <5>1, <5>2
      <4> QED BY <1>41, <1>47, <4>1, <4>2, <4>3
    <3>2. CASE ~s.fin
      <4>1. end1 = end BY <1>46, <3>2
      <4> QED BY <1>13, <1>14, <1>19, <1>41, <1>43, <1>45, <1>47, <1>49, <1>50, <3>2, <4>1
    <3> QED BY <1>22, <3>1, <3>2
  <2> QED BY <1>15, <1>16, <1>44, <1>49, <1>53, <1>56, <2>1, <2>2, <2>3, <2>4 DEF Counters
<1>58. Bytes(t, P) BY <1>5, <1>14, <1>41, <1>43, <1>44, <1>47, <1>48 DEF Bytes
<1>59. Calls(t, P) BY <1>5, <1>43 DEF Calls, SameCalls, SameState
<1>60. Window(t)
  <2>1. c.ccc.probe_timer \/ cn1 <= u + w
    <3>1. CASE s.fin
      <4>1. cn + 1 <= u + 2
        <5>1. CASE fb
          <6>1. k = 1 /\ cn = end BY <1>30, <3>1, <5>1
          <6>2. end = u + 1 BY <1>13, <6>1
          <6> QED BY <6>1, <6>2
        <5>2. CASE ~fb BY <1>31, <3>1, <5>2
        <5> QED BY <5>1, <5>2
      <4>2. w >= 2 BY <1>5, <1>11, <1>15 DEF Window
      <4> QED BY <1>22, <1>40, <3>1, <4>1, <4>2
    <3>2. CASE ~s.fin BY <1>5, <1>6, <1>9, <1>11, <1>40, <3>2 DEF Window
    <3> QED BY <1>22, <3>1, <3>2
  <2> QED BY <1>5, <1>11, <1>41, <1>44, <2>1 DEF Window
<1>61. t.queue \in Seq(Events) BY <1>1, <1>43
<1>62. t.rc.timer \in BOOLEAN /\ (t.rc.snd_nxt # t.rc.snd_una => t.rc.timer)
  <2>1. c.rc.timer \in BOOLEAN /\ (n # u => c.rc.timer) BY <1>6, <1>7 DEF SenderOK
  <2>2. CASE l > 0 BY <1>44, <2>2
  <2>3. CASE ~(l > 0)
    <3>1. l = 0 BY <2>3
    <3>2. t.rc.timer = c.rc.timer /\ t.rc.snd_nxt = n BY <1>44, <3>1
    <3> QED BY <1>44, <2>1, <3>2
  <2> QED BY <2>2, <2>3
<1>63. Sending(t, P, e)
  <2>1. Numbered(t.queue, t.rc.snd_nxt, e, P, t.accepted, t.state \in Ending)
    <3> HIDE DEF closing
    <3> QED BY <1>14, <1>25, <1>43, <1>44, <1>45
  <2>2. t.state \notin Ending => t.ccc.snd_nxt = e /\ e <= BufferEnd(t)
    <3>1. t.state \notin Ending => ~closing /\ ~s.fin BY <1>22, <1>26, <1>45
    <3> QED BY <1>20, <1>40, <1>41, <1>46, <1>49, <3>1
  <2>3. t.state \in Ending /\ ~FinBuffered(t) =>
          t.send_buffer = <<>> /\ t.ccc.snd_nxt = BufferEnd(t) /\ e <= BufferEnd(t) + 1
    <3>1. t.state \in Ending /\ ~FinBuffered(t) => closing /\ ~s.fin /\ ~fb BY <1>45, <1>50
    <3> QED BY <1>20, <1>40, <1>41, <1>46, <1>49, <1>37, <3>1
  <2>4. ASSUME t.state \in Ending, FinBuffered(t)
        PROVE  /\ t.ccc.snd_nxt >= BufferEnd(t) /\ e <= BufferEnd(t)
               /\ e > t.rc.snd_nxt => t.ccc.snd_nxt = BufferEnd(t)
    <3>1. closing BY <1>45, <2>4
    <3>2. CASE s.fin
      <4>1. e <= end1 /\ cn1 >= end1 /\ n + l = end1
        BY <1>17, <1>20, <1>22, <1>27, <1>30, <1>31, <1>40, <1>46, <3>1, <3>2
      <4> QED BY <1>17, <1>41, <1>44, <1>49, <4>1
    <3>3. CASE ~s.fin
      <4>1. fb /\ cn1 = cn /\ end1 = end BY <1>40, <1>46, <1>50, <2>4, <3>3
      <4> QED BY <1>17, <1>20, <1>41, <1>44, <1>49, <3>1, <4>1
    <3> QED BY <1>22, <3>2, <3>3
  <2>5. SynQueued(t.queue) => e = Iss + 1 /\ ~SendEvents(t.queue)
    <3>1. /\ SynQueued(t.queue) => SynQueued(c.queue)
          /\ SendEvents(t.queue) => SendEvents(c.queue)
      BY <1>1, <1>43, TailSyn
    <3> QED BY <1>4, <3>1 DEF Sending
  <2>6. t.rc.timer /\ t.rc.snd_nxt = t.rc.snd_una => e > t.rc.snd_nxt
    <3>1. CASE l = 0
      <4>1. c.rc.timer /\ n = u => e > n BY <1>4, <1>6, <1>7 DEF Sending
      <4> QED BY <1>44, <3>1, <4>1
    <3>2. CASE l # 0 BY <1>16, <1>44, <3>2
    <3> QED BY <3>1, <3>2
  <2> QED BY <2>1, <2>2, <2>3, <2>4, <2>5, <2>6 DEF Sending
<1>64. SenderOK(t, P)
  <2>1. t.state \in Live /\ t.connection_type # None BY <1>43 DEF SenderOK, SameState, SameCalls
  <2> QED BY <1>44, <1>57, <1>58, <1>59, <1>60, <1>61, <1>62, <1>63, <2>1 DEF SenderOK
<1>65. CarriesStream(OutgoingPacket(d, s), P)
  <2>1. n = SequenceNumberOf(d) /\ n <= IntMax /\ Iss + 1 <= IntMax /\ P \in Seq(Nat)
    BY <1>7, <1>12, <1>15, <1>16, <1>33 DEF SenderOK, StreamFits, SequenceNumberOf
  <2> QED BY <1>15, <1>21, <1>26, <2>1, SegmentCarries
<1> QED BY <1>6, <1>21, <1>41, <1>42, <1>43, <1>44, <1>64, <1>65

-------------------------------------------------------------------------------
\* Going back: the segment that starts at SND.UNA.

\* An event at the end adds a SYN or a call to send only when it is one.
LEMMA AppendSyn ==
    ASSUME NEW q \in Seq(Events), NEW x \in Events
    PROVE  /\ SynQueued(Append(q, x)) => SynQueued(q) \/ (x.event = "send_packet" /\ x.p.syn)
           /\ SendEvents(Append(q, x)) =>
                SendEvents(q) \/ x.event \in {"send_buffer_not_empty", "send_buffer_not_full"}
<1>1. PICK r : r = Append(q, x) OBVIOUS
<1>2. /\ Len(r) = Len(q) + 1 /\ Len(q) \in Nat
      /\ \A j \in 1 .. Len(r) : (j = Len(q) + 1 /\ r[j] = x) \/ (j \in 1 .. Len(q) /\ r[j] = q[j])
  BY <1>1
<1>3. SynQueued(r) => SynQueued(q) \/ (x.event = "send_packet" /\ x.p.syn)
  BY <1>2, Zenon DEF SynQueued
<1>4. SendEvents(r) => SendEvents(q) \/ x.event \in {"send_buffer_not_empty", "send_buffer_not_full"}
  BY <1>2, Zenon DEF SendEvents
<1> QED BY <1>1, <1>3, <1>4

\* Congestion control has gone back to SND.UNA with a window of one segment.
WentBack(c) == [c EXCEPT !.ccc = set_snd_nxt(resend(@), @.snd_una)]

\* What WentBack leaves alone, and where it puts SND.NXT.
LEMMA GoBack ==
    ASSUME NEW c, Shape(c), NEW u \in Nat, u = c.ccc.snd_una, NEW cm \in Nat, cm = c.ccc.snd_max,
           u <= cm, cm <= IntMax
    PROVE  LET b == WentBack(c) IN
           /\ SameButSent(c, b) /\ b.queue = c.queue /\ b.aborted = c.aborted
           /\ b.ccc.snd_una = u /\ b.ccc.snd_nxt = u /\ b.ccc.snd_max = cm
           /\ b.ccc.cwnd = Mss /\ b.ccc.snd_wnd = c.ccc.snd_wnd /\ b.ccc.state = "SlowStart"
           /\ b.ccc.probe_timer = c.ccc.probe_timer
<1>1. ~less_than(cm, u) BY SmallLess, IntMaxAssumption
<1> QED BY <1>1 DEF WentBack, set_snd_nxt, resend, Shape, SameButSent, SameCalls, SameState, SameReceive

\* The segment, with the assertions it passed.
LEMMA ResendFields ==
    ASSUME NEW c, Shape(c), cc_resend_packet(c).aborted = None
    PROVE  LET b == WentBack(c)
               s == ResentSegment(b)
               length == IF ~s.syn /\ ~s.fin THEN Len(s.data) ELSE 1
               t == cc_resend_packet(c)
           IN /\ SameButSent(c, t) /\ c.aborted = None
              /\ ~s.syn /\ ~s.fin => s.data # <<>>
              /\ t.ccc = set_snd_nxt(b.ccc, Plus(b.ccc.snd_una, length))
              /\ t.queue = Append(c.queue, [event |-> "send_packet", p |-> s])
<1> DEFINE b == WentBack(c)
           s == ResentSegment(b)
           isData == ~s.syn /\ ~s.fin
           c1 == Require(b, b.send_buffer # <<>>, "resend_empty_buffer")
           c2 == Require(c1, isData /\ b.send_buffer # <<>>
                                 => get_resend_data_length(b) > 0, "resend_data_length")
           c3 == Require(c2, isData => s.data # <<>>, "resend_no_data")
           length == IF isData THEN Len(s.data) ELSE 1
<1>1. PICK t : t = cc_resend_packet(c) OBVIOUS
<1>2. t = enqueue_send([c3 EXCEPT !.ccc = set_snd_nxt(@, Plus(@.snd_una, length))], s)
  BY <1>1 DEF cc_resend_packet, WentBack
<1>3. SameButSent(c, b) /\ b.queue = c.queue /\ b.aborted = c.aborted
  BY DEF WentBack, set_snd_nxt, resend, Shape, SameButSent, SameCalls, SameState, SameReceive
<1> HIDE DEF b, s, length
<1>4. /\ DOMAIN c3 = DOMAIN b
      /\ \A f \in DOMAIN b \ {"aborted"} : c3[f] = b[f]
      /\ c3.aborted = None => b.aborted = None /\ (isData => s.data # <<>>)
  <2>1. DOMAIN b = DOMAIN c BY <1>3 DEF SameButSent, Shape
  <2>2. "aborted" \in DOMAIN b BY <2>1 DEF Shape
  <2>3. /\ DOMAIN c1 = DOMAIN b /\ (\A f \in DOMAIN b \ {"aborted"} : c1[f] = b[f])
        /\ c1.aborted = None => b.aborted = None
    BY <2>2 DEF Require, Abort, None
  <2> HIDE DEF c1
  <2>4. /\ DOMAIN c2 = DOMAIN b /\ (\A f \in DOMAIN b \ {"aborted"} : c2[f] = b[f])
        /\ c2.aborted = None => b.aborted = None
    BY <2>2, <2>3 DEF Require, Abort, None
  <2> HIDE DEF c2
  <2> QED BY <2>2, <2>4 DEF Require, Abort, None
<1> HIDE DEF c3
<1>5. Shape(b) BY <1>3 DEF SameButSent
<1>6. SameButSent(c, c3) /\ c3.queue = c.queue /\ c3.ccc = b.ccc
  BY <1>3, <1>4, <1>5 DEF Shape, SameButSent, SameCalls, SameState, SameReceive
<1>7. /\ SameButSent(c3, t) /\ t.aborted = c3.aborted
      /\ t.ccc = set_snd_nxt(c3.ccc, Plus(c3.ccc.snd_una, length))
      /\ t.queue = Append(c3.queue, [event |-> "send_packet", p |-> s])
  BY <1>2, <1>6 DEF enqueue_send, set_snd_nxt, Shape, SameButSent, SameCalls, SameState, SameReceive
<1>8. SameButSent(c, t) BY <1>6, <1>7 DEF SameButSent, SameCalls, SameState, SameReceive
<1>9. c3.aborted = None BY <1>1, <1>7
<1>10. c.aborted = None /\ (isData => s.data # <<>>) BY <1>3, <1>4, <1>9
<1> QED BY <1>1, <1>6, <1>7, <1>8, <1>10 DEF b, s, length

\* Which byte of the stream is a control byte.
LEMMA ControlPlace ==
    ASSUME NEW P, StreamsFit, StreamFits(P), NEW a \in Nat, a <= Len(P), NEW o \in Nat
    PROVE  /\ StreamByte(P, a, o) = SynByte <=> o = 0
           /\ StreamByte(P, a, o) = FinByte <=> o > a
<1>1. P \in Seq(Nat) /\ Len(P) \in Nat /\ \A i \in 1 .. Len(P) : P[i] # SynByte /\ P[i] # FinByte
  BY DEF StreamFits
<1>2. SynByte # FinByte BY Constants
<1>3. o # 0 /\ o <= a => P[o] # SynByte /\ P[o] # FinByte BY <1>1
<1>4. CASE o = 0 BY <1>2, <1>4 DEF StreamByte
<1>5. CASE o # 0 /\ o <= a BY <1>3, <1>5 DEF StreamByte
<1>6. CASE o # 0 /\ ~(o <= a) BY <1>2, <1>6 DEF StreamByte
<1> QED BY <1>4, <1>5, <1>6

\* b sends again everything in its buffer, which is the stream from place o on, and
\* s is the segment that passed one of the assertions.
ResendsFrom(b, s, P, a, o) ==
    /\ b.send_buffer \in Seq(Nat) /\ b.send_buffer # <<>> /\ HoldsFrom(b.send_buffer, P, a, o)
    /\ num_unsent(b) = Len(b.send_buffer) /\ get_max_allowed_to_send(b.ccc) \in Nat
    /\ \/ o + Len(b.send_buffer) = a + 1
       \/ o + Len(b.send_buffer) = a + 2 /\ Len(b.send_buffer) = 1
    /\ s = ResentSegment(b)
    /\ ~s.syn /\ ~s.fin => s.data # <<>> \/ get_resend_data_length(b) > 0

ResentFrom(b, s, P, a, o) ==
    /\ s \in Segments
    /\ o = 0 => s = Syn
    /\ o = a + 1 => s = Fin
    /\ o # 0 /\ o <= a =>
         /\ ~s.syn /\ ~s.fin /\ Len(s.data) \in 1 .. Len(b.send_buffer) /\ Len(s.data) <= Mss
         /\ PieceOf(s.data, P, o, Len(s.data))
    /\ o <= a + 1

\* What the resent segment is, by the place of SND.UNA in the stream, and how many
\* numbers it takes.
LEMMA ResentPlace ==
    ASSUME NEW b, NEW P, StreamsFit, StreamFits(P), NEW a \in Nat, a <= Len(P), NEW o \in Nat,
           NEW s, ResendsFrom(b, s, P, a, o)
    PROVE  ResentFrom(b, s, P, a, o)
<1> USE DEF ResendsFrom, ResentFrom
<1>1. PICK B \in Seq(Nat) : B = b.send_buffer OBVIOUS
<1>2. PICK k \in Nat : k = Len(B) /\ k >= 1 BY <1>1
<1>3. o + k = a + 1 \/ (o + k = a + 2 /\ k = 1) BY <1>1, <1>2
<1>4. o <= a + 1 /\ (o <= a => o + k = a + 1) BY <1>2, <1>3, SMTT(20)
<1>5. \A i \in 1 .. k : B[i] = StreamByte(P, a, o + (i - 1)) BY <1>1, <1>2 DEF HoldsFrom
<1>6. B[1] = StreamByte(P, a, o)
  <2>1. 1 \in 1 .. k /\ o + (1 - 1) = o BY <1>2
  <2> QED BY <1>5, <2>1
<1>7. /\ B[1] = SynByte <=> o = 0
      /\ B[1] = FinByte <=> o > a
  BY <1>6, ControlPlace
<1>8. B # <<>> BY <1>1
<1>9. CASE o = 0
  <2>1. s = Segment(TRUE, FALSE, FALSE, <<>>)
    <3>1. b.send_buffer # <<>> /\ b.send_buffer[1] = SynByte BY <1>1, <1>7, <1>8, <1>9
    <3>2. b.send_buffer[1] # FinByte BY <3>1, Constants
    <3> QED BY <3>1, <3>2 DEF ResentSegment
  <2>2. <<>> \in Seq(Nat) OBVIOUS
  <2> QED BY <1>4, <1>9, <2>1, <2>2 DEF Syn, Segment, Segments
<1>10. CASE o = a + 1
  <2>1. o # 0 /\ o > a BY <1>10
  <2>2. B[1] # SynByte /\ B[1] = FinByte BY <1>7, <2>1
  <2>3. s = Segment(FALSE, FALSE, TRUE, <<>>)
    <3>1. b.send_buffer # <<>> /\ b.send_buffer[1] # SynByte /\ b.send_buffer[1] = FinByte BY <1>1, <1>8, <2>2
    <3> QED BY <3>1 DEF ResentSegment
  <2>4. <<>> \in Seq(Nat) OBVIOUS
  <2> QED BY <1>4, <1>10, <2>1, <2>3, <2>4 DEF Fin, Segment, Segments
<1>11. CASE o # 0 /\ o <= a
  <2>1. B[1] # SynByte /\ B[1] # FinByte BY <1>7, <1>11
  <2>2. PICK n : n = ResendLength(b) OBVIOUS
  <2>3. s = Segment(FALSE, FALSE, FALSE, SubSeq(B, 1, n))
    <3>1. b.send_buffer # <<>> /\ b.send_buffer[1] # SynByte /\ b.send_buffer[1] # FinByte BY <1>1, <1>8, <2>1
    <3> QED BY <1>1, <2>2, <3>1 DEF ResentSegment
  <2>4. B[k] # FinByte
    <3>1. k \in 1 .. k BY <1>2
    <3>2. PICK j \in Nat : j = o + (k - 1)
      <4>1. o + (k - 1) \in Nat BY <1>2
      <4> QED BY <4>1
    <3>3. B[k] = StreamByte(P, a, j) BY <1>5, <3>1, <3>2
    <3>4. ~(j > a) BY <1>4, <1>11, <3>2
    <3>5. StreamByte(P, a, j) = FinByte <=> j > a BY ControlPlace
    <3> QED BY <3>3, <3>4, <3>5
  <2>5. n = get_resend_data_length(b)
    <3>1. PICK z : z = get_resend_data_length(b) OBVIOUS
    <3>2. PICK g \in Nat : g = get_max_allowed_to_send(b.ccc) OBVIOUS
    <3>3. MaxReceiveWindow \in Nat /\ Mss \in Nat BY Constants
    <3>4. z = Lesser(Lesser(k, Mss), Lesser(g, MaxReceiveWindow))
      BY <1>1, <1>2, <3>1, <3>2 DEF get_resend_data_length
    <3>5. z \in Nat BY <3>3, <3>4 DEF Lesser
    <3>6. n = z - 0 BY <1>1, <1>2, <2>2, <2>4, <3>1 DEF ResendLength
    <3> QED BY <3>1, <3>5, <3>6
  <2>6. n \in Nat /\ n <= k /\ n <= Mss
    <3>1. PICK g \in Nat : g = get_max_allowed_to_send(b.ccc) OBVIOUS
    <3>2. MaxReceiveWindow \in Nat /\ Mss \in Nat BY Constants
    <3>3. n = Lesser(Lesser(k, Mss), Lesser(g, MaxReceiveWindow))
      BY <1>1, <1>2, <2>5, <3>1 DEF get_resend_data_length
    <3> QED BY <3>2, <3>3 DEF Lesser
  <2>7. PieceOf(SubSeq(B, 0 + 1, 0 + n), P, o + 0, n)
    <3>1. 0 + n <= Len(B) /\ o + 0 >= 1 /\ o + 0 + n <= a + 1 BY <1>2, <1>4, <1>11, <2>6
    <3>2. P \in Seq(Nat) /\ HoldsFrom(B, P, a, o) BY <1>1 DEF StreamFits
    <3> QED BY <2>6, <3>1, <3>2, StreamSlice
  <2>8. PieceOf(SubSeq(B, 1, n), P, o, n) BY <2>6, <2>7
  <2>9. s.data = SubSeq(B, 1, n) /\ ~s.syn /\ ~s.fin
    <3>1. PICK v : v = SubSeq(B, 1, n) OBVIOUS
    <3>2. s.data = v
      <4>1. s = Segment(FALSE, FALSE, FALSE, v) BY <2>3, <3>1
      <4> QED BY <4>1 DEF Segment
    <3>3. s.syn = FALSE /\ s.fin = FALSE BY <2>3 DEF Segment
    <3> QED BY <3>1, <3>2, <3>3
  <2>10. s.data \in Seq(Nat) /\ Len(s.data) = n BY <2>8, <2>9 DEF PieceOf
  <2>11. n # 0 BY <2>5, <2>9, <2>10
  <2>12. s \in Segments BY <2>3, <2>9, <2>10 DEF Segment, Segments
  <2> QED BY <1>1, <1>2, <1>4, <1>11, <2>6, <2>8, <2>9, <2>10, <2>11, <2>12, SMTT(20)
<1> QED BY <1>4, <1>9, <1>10, <1>11

\* d is c with the resend taken from the front of the queue: when one of the assertions
\* holds, the resend starts where the buffer does.
LEMMA ResendStarts ==
    ASSUME NEW c, NEW P, StreamsFit, StreamFits(P), Shape(c), SenderOK(c, P), Resending(c),
           NEW d, Taken(c, d)
    PROVE  LET b == WentBack(d)
               s == ResentSegment(b)
           IN /\ b.send_buffer = c.send_buffer /\ b.send_buffer # <<>>
              /\ c.accepted \in Nat /\ c.accepted <= Len(P) /\ c.rc.snd_una - Iss \in Nat
              /\ (~s.syn /\ ~s.fin => s.data # <<>> \/ get_resend_data_length(b) > 0)
                      => ResendsFrom(b, s, P, c.accepted, c.rc.snd_una - Iss)
<1>1. Counters(c) /\ Bytes(c, P) /\ Window(c) /\ Calls(c, P) /\ c.queue \in Seq(Events) BY DEF SenderOK
<1>2. PICK u \in Nat : u = c.rc.snd_una /\ u = c.rc.snd_nxt /\ u = c.ccc.snd_una BY <1>1 DEF Counters, Resending
<1>3. PICK m \in Nat : m = c.rc.snd_max BY <1>1 DEF Counters
<1>4. PICK cm \in Nat : cm = c.ccc.snd_max BY <1>1 DEF Counters
<1>5. PICK end \in Nat : end = BufferEnd(c) /\ end + 1 <= IntMax BY SenderRange
<1>6. PICK k \in Nat : k = Len(c.send_buffer) /\ end = u + k BY <1>2, <1>5, SenderRange DEF BufferEnd
<1>7. PICK a \in Nat : a = c.accepted /\ a <= Len(P) BY <1>1 DEF Bytes
<1>8. IntMax \in Nat /\ Iss \in Nat /\ Mss \in Nat /\ Mss >= 2 BY Constants
<1>9. Iss <= u /\ u <= m /\ m <= end /\ cm <= end + 1 /\ m <= cm /\ u < end
  BY <1>1, <1>2, <1>3, <1>4, <1>5 DEF Counters, Resending
<1>10. \/ end = Iss + a + 1 /\ c.state \notin Ending
       \/ end = Iss + a + 2 /\ c.state \in Ending /\ k = 1
  <2>1. FinBuffered(c) <=> end = Iss + a + 2 BY <1>5, <1>7 DEF FinBuffered
  <2>2. end = Iss + a + 1 => ~(end = Iss + a + 2) BY <1>8
  <2>3. c.state \in Ending => FinBuffered(c) BY DEF Resending
  <2>4. \/ end = Iss + a + 1
        \/ FinBuffered(c) /\ c.state \in Ending /\ k <= 1
    BY <1>1, <1>5, <1>6, <1>7 DEF Counters
  <2>5. k >= 1 BY <1>6, <1>9
  <2>6. k <= 1 => k = 1 BY <2>5
  <2> QED BY <2>1, <2>2, <2>3, <2>4, <2>6
<1>11. /\ Shape(d) /\ SameCalls(c, d) /\ SameState(c, d) /\ SameReceive(c, d) /\ d.aborted = c.aborted /\ d.rc = c.rc
       /\ d.queue = Tail(c.queue) /\ d.ccc = c.ccc
       /\ d.send_buffer = c.send_buffer /\ d.saved_send = c.saved_send /\ d.accepted = c.accepted
  BY DEF Taken, SameSend
<1>12. PICK b : b = WentBack(d) OBVIOUS
<1>13. /\ SameButSent(d, b)
       /\ b.ccc.snd_una = u /\ b.ccc.snd_nxt = u /\ b.ccc.snd_max = cm
       /\ b.ccc.cwnd = Mss /\ b.ccc.snd_wnd = c.ccc.snd_wnd /\ b.ccc.state = "SlowStart"
       /\ b.ccc.probe_timer = c.ccc.probe_timer
  <2>1. u = d.ccc.snd_una /\ cm = d.ccc.snd_max BY <1>2, <1>4, <1>11
  <2>2. u <= cm /\ cm <= IntMax BY <1>5, <1>8, <1>9
  <2> QED BY <1>11, <1>12, <2>1, <2>2, GoBack
<1>14. PICK o \in Nat : o = u - Iss BY <1>8, <1>9
<1>15. b.send_buffer = c.send_buffer /\ b.send_buffer \in Seq(Nat) BY <1>1, <1>11, <1>13 DEF SameButSent, Bytes
<1>16. b.send_buffer # <<>>
  <2>1. Len(b.send_buffer) # 0 BY <1>6, <1>9, <1>15
  <2> QED BY <2>1
<1>17. HoldsFrom(b.send_buffer, P, a, o) BY <1>1, <1>2, <1>7, <1>14, <1>15 DEF Bytes
<1>18. num_unsent(b) = Len(b.send_buffer)
  <2>1. Minus(u, u) = 0
    <3>1. u <= IntMax BY <1>5, <1>8, <1>9
    <3> QED BY <3>1, SmallMinus
  <2>2. AsInt(0) = 0 BY <1>8 DEF AsInt
  <2> QED BY <1>6, <1>13, <1>15, <2>1, <2>2 DEF num_unsent, get_num_outstanding
<1>19. get_max_allowed_to_send(b.ccc) \in Nat
  <2>1. b.ccc.cwnd \in Nat /\ b.ccc.snd_wnd \in Nat BY <1>1, <1>8, <1>13 DEF Window
  <2> QED BY <1>8, <2>1, MaxAllowed
<1>20. \/ o + Len(b.send_buffer) = a + 1
       \/ o + Len(b.send_buffer) = a + 2 /\ Len(b.send_buffer) = 1
  <2>1. o + k = end - Iss BY <1>6, <1>8, <1>14
  <2>2. \/ o + k = a + 1
        \/ o + k = a + 2 /\ k = 1
    BY <1>8, <1>10, <2>1
  <2> QED BY <1>6, <1>15, <2>2
<1>21. PICK s : s = ResentSegment(b) OBVIOUS
<1>22. (~s.syn /\ ~s.fin => s.data # <<>> \/ get_resend_data_length(b) > 0) => ResendsFrom(b, s, P, a, o)
  BY <1>15, <1>16, <1>17, <1>18, <1>19, <1>20, <1>21 DEF ResendsFrom
<1> QED BY <1>2, <1>7, <1>12, <1>14, <1>15, <1>16, <1>21, <1>22

\* d is c with the resend taken from the front of the queue; when the assertions
\* of the resend hold, the sender is where its queue says again.
LEMMA ResendKeeps ==
    ASSUME NEW c, NEW P, StreamsFit, StreamFits(P), Shape(c), SenderOK(c, P), Resending(c),
           NEW d, Taken(c, d), cc_resend_packet(d).aborted = None
    PROVE  LET t == cc_resend_packet(d) IN
           /\ Shape(t) /\ SameCalls(c, t) /\ SameState(c, t) /\ SameReceive(c, t) /\ t.rc = c.rc
           /\ t.ccc.probe_timer = c.ccc.probe_timer /\ t.accepted = c.accepted
           /\ SenderOK(t, P)
           /\ \E s : /\ t.queue = Append(Tail(c.queue), [event |-> "send_packet", p |-> s])
                     /\ c.rc.snd_una = Iss => s = Syn
<1>1. Counters(c) /\ Bytes(c, P) /\ Window(c) /\ Calls(c, P) /\ c.queue \in Seq(Events) BY DEF SenderOK
<1>2. PICK u \in Nat : u = c.rc.snd_una /\ u = c.rc.snd_nxt /\ u = c.ccc.snd_una BY <1>1 DEF Counters, Resending
<1>3. PICK m \in Nat : m = c.rc.snd_max BY <1>1 DEF Counters
<1>4. PICK cm \in Nat : cm = c.ccc.snd_max BY <1>1 DEF Counters
<1>5. PICK end \in Nat : end = BufferEnd(c) /\ end + 1 <= IntMax BY SenderRange
<1>6. PICK k \in Nat : k = Len(c.send_buffer) /\ end = u + k BY <1>2, <1>5, SenderRange DEF BufferEnd
<1>7. PICK a \in Nat : a = c.accepted /\ a <= Len(P) BY <1>1 DEF Bytes
<1>8. IntMax \in Nat /\ Iss \in Nat /\ Mss \in Nat /\ Mss >= 2 BY Constants
<1>9. Iss <= u /\ u <= m /\ m <= end /\ cm <= end + 1 /\ m <= cm /\ u < end
  BY <1>1, <1>2, <1>3, <1>4, <1>5 DEF Counters, Resending
<1>10. \/ end = Iss + a + 1 /\ c.state \notin Ending
       \/ end = Iss + a + 2 /\ c.state \in Ending /\ k = 1
  <2>1. FinBuffered(c) <=> end = Iss + a + 2 BY <1>5, <1>7 DEF FinBuffered
  <2>2. end = Iss + a + 1 => ~(end = Iss + a + 2) BY <1>8
  <2>3. c.state \in Ending => FinBuffered(c) BY DEF Resending
  <2>4. \/ end = Iss + a + 1
        \/ FinBuffered(c) /\ c.state \in Ending /\ k <= 1
    BY <1>1, <1>5, <1>6, <1>7 DEF Counters
  <2>5. k >= 1 BY <1>6, <1>9
  <2>6. k <= 1 => k = 1 BY <2>5
  <2> QED BY <2>1, <2>2, <2>3, <2>4, <2>6
<1>11. /\ Shape(d) /\ SameCalls(c, d) /\ SameState(c, d) /\ SameReceive(c, d) /\ d.aborted = c.aborted /\ d.rc = c.rc
       /\ d.queue = Tail(c.queue) /\ d.ccc = c.ccc
       /\ d.send_buffer = c.send_buffer /\ d.saved_send = c.saved_send /\ d.accepted = c.accepted
  BY DEF Taken, SameSend
<1>12. PICK b : b = WentBack(d) OBVIOUS
<1>13. /\ SameButSent(d, b)
       /\ b.ccc.snd_una = u /\ b.ccc.snd_nxt = u /\ b.ccc.snd_max = cm
       /\ b.ccc.cwnd = Mss /\ b.ccc.snd_wnd = c.ccc.snd_wnd /\ b.ccc.state = "SlowStart"
       /\ b.ccc.probe_timer = c.ccc.probe_timer
  <2>1. u = d.ccc.snd_una /\ cm = d.ccc.snd_max BY <1>2, <1>4, <1>11
  <2>2. u <= cm /\ cm <= IntMax BY <1>5, <1>8, <1>9
  <2> QED BY <1>11, <1>12, <2>1, <2>2, GoBack
<1>14. PICK s : s = ResentSegment(b) OBVIOUS
<1>15. PICK length : length = IF ~s.syn /\ ~s.fin THEN Len(s.data) ELSE 1 OBVIOUS
<1>16. PICK t : t = cc_resend_packet(d) OBVIOUS
<1>17. /\ SameButSent(d, t)
       /\ ~s.syn /\ ~s.fin => s.data # <<>>
       /\ t.ccc = set_snd_nxt(b.ccc, Plus(u, length))
       /\ t.queue = Append(d.queue, [event |-> "send_packet", p |-> s])
  BY <1>11, <1>12, <1>13, <1>14, <1>15, <1>16, ResendFields
<1>18. PICK o \in Nat : o = u - Iss BY <1>8, <1>9
\* The segment.
<1>19. /\ s \in Segments
       /\ o = 0 => s = Syn
       /\ o = a + 1 => s = Fin
       /\ o # 0 /\ o <= a =>
            /\ ~s.syn /\ ~s.fin /\ Len(s.data) \in 1 .. k /\ Len(s.data) <= Mss
            /\ PieceOf(s.data, P, o, Len(s.data))
       /\ o <= a + 1
  <2>1. b.send_buffer = c.send_buffer /\ ResendsFrom(b, s, P, a, o)
    BY <1>2, <1>7, <1>12, <1>14, <1>17, <1>18, ResendStarts
  <2>2. ResentFrom(b, s, P, a, o) BY <1>7, <2>1, ResentPlace
  <2> QED BY <1>6, <2>1, <2>2 DEF ResentFrom
<1>20. PICK x : x = [event |-> "send_packet", p |-> s] OBVIOUS
<1>21. x.event = "send_packet" /\ x.p = s /\ x \in Events
  BY <1>19, <1>20 DEF Events, ProtocolEvents
<1>22. /\ Syn.syn = TRUE /\ Syn.fin = FALSE /\ Syn.data = <<>>
       /\ Fin.syn = FALSE /\ Fin.fin = TRUE /\ Fin.data = <<>>
  BY DEF Syn, Fin, Segment
\* It takes at least one number, at most the rest of the buffer, and fits there.
<1>23. /\ length \in Nat /\ length >= 1 /\ length <= k /\ length <= Mss /\ EventLength(x) = length
       /\ FitsAt(x, u, P, a, c.state \in Ending)
       /\ o # 0 => ~s.syn
       /\ o = 0 => length = 1
  <2>1. CASE o = 0
    <3>1. s = Syn /\ length = 1 BY <1>15, <1>19, <1>22, <2>1
    <3>2. EventLength(x) = 1 BY <1>21, <1>22, <3>1 DEF EventLength, SegmentLength
    <3>3. u = Iss BY <1>8, <1>18, <2>1
    <3>4. FitsAt(x, u, P, a, c.state \in Ending) BY <1>21, <1>22, <3>1, <3>3 DEF FitsAt
    <3> QED BY <1>6, <1>8, <1>9, <2>1, <3>1, <3>2, <3>4
  <2>2. CASE o = a + 1
    <3>1. s = Fin /\ length = 1 BY <1>15, <1>19, <1>22, <2>2
    <3>2. EventLength(x) = 1 BY <1>21, <1>22, <3>1 DEF EventLength, SegmentLength
    <3>3. u = Iss + a + 1 BY <1>8, <1>18, <2>2
    <3>4. c.state \in Ending BY <1>8, <1>9, <1>10, <3>3
    <3>5. FitsAt(x, u, P, a, c.state \in Ending) BY <1>21, <1>22, <3>1, <3>3, <3>4 DEF FitsAt
    <3> QED BY <1>6, <1>8, <1>9, <1>22, <2>2, <3>1, <3>2, <3>5
  <2>3. CASE o # 0 /\ o <= a
    <3>1. PICK n \in Nat : n = Len(s.data) /\ n >= 1 /\ n <= k /\ n <= Mss BY <1>19, <2>3
    <3>2. ~s.syn /\ ~s.fin /\ s.data = SubSeq(P, o, o + n - 1) BY <1>19, <2>3, <3>1 DEF PieceOf
    <3>3. length = n BY <1>15, <3>1, <3>2
    <3>4. EventLength(x) = n BY <1>21, <3>1, <3>2 DEF EventLength, SegmentLength
    <3>5. end = Iss + a + 1
      <4>1. k = 1 => end = Iss + o + 1 BY <1>6, <1>8, <1>18
      <4>2. k = 1 => end # Iss + a + 2 BY <1>8, <2>3, <4>1
      <4> QED BY <1>10, <4>2
    <3>6. u > Iss /\ u + n <= Iss + a + 1 /\ u - Iss = o /\ u - Iss + n - 1 = o + n - 1
      BY <1>6, <1>8, <1>9, <1>18, <2>3, <3>1, <3>5
    <3>7. FitsAt(x, u, P, a, c.state \in Ending) BY <1>21, <3>1, <3>2, <3>6 DEF FitsAt
    <3> QED BY <2>3, <3>1, <3>2, <3>3, <3>4, <3>7
  <2> QED BY <1>19, <2>1, <2>2, <2>3
<1>24. PICK e \in Nat : e = u + length /\ e > u /\ e <= u + Mss
  <2>1. PICK l \in Nat : l = length /\ l >= 1 /\ l <= Mss BY <1>23
  <2>2. u + l \in Nat /\ u + l > u /\ u + l <= u + Mss BY <1>8, <2>1
  <2> QED BY <2>1, <2>2
<1>25. Plus(u, length) = e /\ e <= end
  <2>1. e <= end BY <1>6, <1>23, <1>24
  <2> QED BY <1>5, <1>8, <1>23, <1>24, <2>1, SmallPlus
<1>26. PICK cm1 \in Nat : cm1 = IF cm < e THEN e ELSE cm OBVIOUS
<1>27. /\ t.ccc.snd_una = u /\ t.ccc.snd_nxt = e /\ t.ccc.snd_max = cm1
       /\ t.ccc.cwnd = Mss /\ t.ccc.snd_wnd = c.ccc.snd_wnd /\ t.ccc.state = "SlowStart"
       /\ t.ccc.probe_timer = c.ccc.probe_timer
  <2>1. Shape(b) BY <1>13 DEF SameButSent
  <2>2. less_than(cm, e) <=> cm < e
    <3>1. cm <= IntMax /\ e <= IntMax BY <1>5, <1>8, <1>9, <1>25
    <3> QED BY <3>1, SmallLess
  <2> QED BY <1>13, <1>17, <1>25, <1>26, <2>1, <2>2 DEF set_snd_nxt, Shape
<1>28. /\ Shape(t) /\ SameCalls(c, t) /\ SameState(c, t) /\ SameReceive(c, t) /\ t.rc = c.rc
       /\ t.send_buffer = c.send_buffer /\ t.saved_send = c.saved_send /\ t.accepted = c.accepted
  BY <1>11, <1>17 DEF SameButSent, SameCalls, SameState, SameReceive
<1>29. BufferEnd(t) = end /\ (FinBuffered(t) <=> end = Iss + a + 2) /\ ((t.state \in Ending) = (c.state \in Ending))
  BY <1>5, <1>7, <1>28 DEF BufferEnd, FinBuffered, SameState
\* The queue.
<1>30. PICK q : q = Tail(c.queue) OBVIOUS
<1>31. Grown(<<>>, q)
  <2>1. q \in Seq(Events) /\ Len(q) = Len(c.queue) - 1 /\ \A i \in 1 .. Len(q) : q[i] = c.queue[i + 1]
    BY <1>1, <1>30 DEF Resending
  <2>2. ASSUME NEW i \in 1 .. Len(q) PROVE Plain(q[i])
    <3>1. PICK j : j = i + 1 OBVIOUS
    <3>2. j \in 2 .. Len(c.queue) BY <1>1, <2>1, <3>1
    <3> QED BY <2>1, <3>1, <3>2 DEF Resending
  <2>3. <<>> \in Seq(Events) /\ Len(<<>>) = 0 OBVIOUS
  <2>4. Len(q) \in Nat BY <2>1
  <2> QED BY <2>1, <2>2, <2>3, <2>4 DEF Grown
<1>32. Numbered(q, u, u, P, a, c.state \in Ending) BY <1>31, NumberedEmpty, NumberedGrown
<1>33. Numbered(Append(q, x), u, u + EventLength(x), P, a, c.state \in Ending) BY <1>23, <1>32, NumberedAppend
<1>34. t.queue = Append(q, x) BY <1>11, <1>17, <1>20, <1>30
<1>35. Numbered(t.queue, t.rc.snd_nxt, e, P, t.accepted, t.state \in Ending)
  BY <1>2, <1>7, <1>23, <1>24, <1>28, <1>29, <1>33, <1>34
<1>36. t.queue \in Seq(Events) BY <1>35 DEF Numbered
<1>37. ~SynQueued(q) /\ ~SendEvents(q)
  <2>1. ~SynQueued(<<>>) /\ ~SendEvents(<<>>) BY DEF SynQueued, SendEvents
  <2> QED BY <1>31, <2>1, GrownSyn
<1>38. SynQueued(t.queue) => e = Iss + 1
  <2>1. SynQueued(t.queue) => s.syn BY <1>21, <1>31, <1>34, <1>37, AppendSyn DEF Grown
  <2>2. o = 0 => e = Iss + 1 BY <1>8, <1>18, <1>23, <1>24
  <2> QED BY <1>23, <2>1, <2>2
<1>39. ~SendEvents(t.queue) BY <1>21, <1>31, <1>34, <1>37, AppendSyn DEF Grown
<1>40. Sending(t, P, e)
  <2>1. t.state \notin Ending => t.ccc.snd_nxt = e /\ e <= BufferEnd(t) BY <1>25, <1>27, <1>29
  <2>2. ~(t.state \in Ending /\ ~FinBuffered(t))
    BY <1>10, <1>29
  <2>3. t.state \in Ending /\ FinBuffered(t) =>
          /\ t.ccc.snd_nxt >= BufferEnd(t) /\ e <= BufferEnd(t)
          /\ e > t.rc.snd_nxt => t.ccc.snd_nxt = BufferEnd(t)
    <3>1. t.state \in Ending => k = 1 BY <1>10, <1>29
    <3>2. k = 1 => e = end BY <1>6, <1>23, <1>24
    <3> QED BY <1>27, <1>29, <3>1, <3>2
  <2>4. e > t.rc.snd_nxt BY <1>2, <1>24, <1>28
  <2> QED BY <1>35, <1>38, <1>39, <2>1, <2>2, <2>3, <2>4 DEF Sending
<1>41. Counters(t)
  <2>1. e <= cm1 /\ cm1 <= end + 1 /\ m <= cm1 /\ Iss + 1 <= e BY <1>8, <1>9, <1>23, <1>24, <1>25, <1>26
  <2>2. t.rc.snd_una = u /\ t.rc.snd_nxt = u /\ t.rc.snd_max = m BY <1>2, <1>3, <1>28
  <2>3. \/ BufferEnd(t) = Iss + t.accepted + 1
        \/ FinBuffered(t) /\ t.state \in Ending /\ Len(t.send_buffer) <= 1
    <3>1. k = 1 => Len(t.send_buffer) <= 1 BY <1>6, <1>28
    <3> QED BY <1>7, <1>10, <1>28, <1>29, <3>1
  <2> QED BY <1>9, <1>27, <1>29, <2>1, <2>2, <2>3 DEF Counters
<1>42. Bytes(t, P) BY <1>1, <1>28 DEF Bytes
<1>43. Calls(t, P) BY <1>1, <1>28 DEF Calls, SameCalls, SameState
<1>44. Window(t)
  <2>1. c.ccc.snd_wnd \in Nat BY <1>1 DEF Window
  <2>2. t.ccc.snd_nxt <= t.rc.snd_una + t.ccc.cwnd BY <1>2, <1>24, <1>27, <1>28
  <2> QED BY <1>8, <1>27, <2>1, <2>2 DEF Window
<1>45. SenderOK(t, P)
  BY <1>28, <1>36, <1>40, <1>41, <1>42, <1>43, <1>44 DEF SenderOK, SameCalls, SameState
<1>46. c.rc.snd_una = Iss => s = Syn
  <2>1. u = Iss => o = 0 BY <1>8, <1>18
  <2> QED BY <1>2, <1>19, <2>1
<1> QED BY <1>16, <1>20, <1>27, <1>28, <1>30, <1>34, <1>45, <1>46

-------------------------------------------------------------------------------
\* Bytes of the application enter the send buffer.

\* t is d after n bytes of data were taken into the buffer, and nothing waits.
TookBytes(d, t, data, n) ==
    /\ Shape(t) /\ SameCalls(d, t) /\ SameState(d, t) /\ t.rc = d.rc /\ t.ccc = d.ccc
    /\ t.send_buffer = d.send_buffer \o SubSeq(data, 1, n)
    /\ t.accepted = d.accepted + n
    /\ t.saved_send = <<>>
    /\ t.queue = Append(d.queue, [event |-> "send_buffer_not_empty", p |-> NakedSegment])

\* data are the next bytes of P.
NextBytes(d, P, data) ==
    /\ data \in Seq(Nat) /\ d.accepted + Len(data) <= Len(P)
    /\ data = SubSeq(P, d.accepted + 1, d.accepted + Len(data))

\* Bytes of the application enter the send buffer.
LEMMA TookBytesKeeps ==
    ASSUME NEW d, NEW P, NEW e, StreamsFit, StreamFits(P), SenderOK(d, P), Sending(d, P, e),
           ~SynQueued(d.queue), d.state \notin Ending,
           NEW data, NextBytes(d, P, data),
           NEW n \in Nat, n <= Len(data), Len(d.send_buffer) + n <= MaxSendBuffer,
           NEW t, TookBytes(d, t, data, n)
    PROVE  SenderOK(t, P)
<1>1. Counters(d) /\ Bytes(d, P) /\ Window(d) /\ Calls(d, P) /\ d.queue \in Seq(Events) BY DEF SenderOK
<1>2. PICK u \in Nat : u = d.rc.snd_una BY <1>1 DEF Counters
<1>3. PICK a \in Nat : a = d.accepted /\ a <= Len(P) BY <1>1 DEF Bytes
<1>4. PICK k \in Nat : k = Len(d.send_buffer) BY SenderRange
<1>5. IntMax \in Nat /\ Iss \in Nat BY Constants
<1>6. P \in Seq(Nat) /\ Len(P) \in Nat BY DEF StreamFits
<1>7. BufferEnd(d) = u + k BY <1>2, <1>4 DEF BufferEnd
<1>8. u + k = Iss + a + 1 /\ ~FinBuffered(d)
  <2>1. BufferEnd(d) = Iss + d.accepted + 1 BY <1>1 DEF Counters
  <2> QED BY <1>3, <1>5, <1>7, <2>1 DEF FinBuffered
<1>9. data \in Seq(Nat) /\ a + Len(data) <= Len(P) /\ data = SubSeq(P, a + 1, a + Len(data)) BY <1>3 DEF NextBytes
<1>10. PICK l \in Nat : l = Len(data)
  <2>1. data \in Seq(Nat) BY DEF NextBytes
  <2>2. Len(data) \in Nat BY <2>1
  <2> QED BY <2>2
<1>11. PICK s : s = SubSeq(data, 1, n) OBVIOUS
<1>12. /\ s \in Seq(Nat) /\ Len(s) = n
       /\ \A j \in 1 .. n : s[j] = data[j]
  <2>1. \A j \in 1 .. n : data[j] \in Nat BY <1>9, <1>10
  <2>2. /\ s \in Seq(Nat) /\ Len(s) = (IF 1 <= n THEN n - 1 + 1 ELSE 0)
        /\ \A j \in 1 .. (n - 1 + 1) : s[j] = data[1 + j - 1]
    BY <1>11, <2>1, SubSeqProperties
  <2>3. Len(s) = n /\ n - 1 + 1 = n BY <2>2
  <2>4. ASSUME NEW j \in 1 .. n PROVE s[j] = data[j]
    <3>1. 1 + j - 1 = j OBVIOUS
    <3> QED BY <2>2, <2>3, <3>1
  <2> QED BY <2>2, <2>3, <2>4
<1>13. \A j \in 1 .. n : data[j] = P[a + j]
  <2>1. \A j \in (a + 1) .. (a + l) : P[j] \in Nat BY <1>6, <1>9, <1>10, SMTT(20)
  <2>2. /\ Len(SubSeq(P, a + 1, a + l)) = (IF a + 1 <= a + l THEN (a + l) - (a + 1) + 1 ELSE 0)
        /\ \A j \in 1 .. ((a + l) - (a + 1) + 1) : SubSeq(P, a + 1, a + l)[j] = P[(a + 1) + j - 1]
    BY <2>1, SubSeqProperties
  <2>3. \A j \in 1 .. l : data[j] = P[(a + 1) + j - 1]
    <3>1. (a + l) - (a + 1) + 1 = l OBVIOUS
    <3> QED BY <1>9, <1>10, <2>2, <3>1
  <2>4. ASSUME NEW j \in 1 .. n PROVE data[j] = P[a + j]
    <3>1. j \in 1 .. l /\ (a + 1) + j - 1 = a + j BY <1>10
    <3> QED BY <2>3, <3>1
  <2> QED BY <2>4
<1>14. PICK B : B = d.send_buffer \o s OBVIOUS
<1>15. /\ B \in Seq(Nat) /\ Len(B) = k + n
       /\ \A i \in 1 .. k : B[i] = d.send_buffer[i]
       /\ \A j \in 1 .. n : B[k + j] = s[j]
  <2>1. PICK A \in Seq(Nat) : A = d.send_buffer BY <1>1 DEF Bytes
  <2>2. B = A \o s /\ Len(A) = k BY <1>4, <1>14, <2>1
  <2>3. s \in Seq(Nat) /\ Len(s) = n BY <1>12
  <2>4. B \in Seq(Nat) /\ Len(B) = k + n BY <2>3, <2>2, ConcatProperties
  <2>5. \A i \in 1 .. k : B[i] = A[i] BY <1>12, <2>2
  <2>6. ASSUME NEW j \in 1 .. n PROVE B[k + j] = s[j]
    <3>1. k + j \in 1 .. (Len(A) + Len(s)) /\ k + j > Len(A) /\ (k + j) - Len(A) = j BY <1>12, <2>2
    <3> QED BY <1>12, <2>2, <3>1
  <2> QED BY <2>1, <2>4, <2>5, <2>6
<1>16. t.send_buffer = B /\ t.accepted = a + n /\ t.rc = d.rc /\ t.ccc = d.ccc /\ t.saved_send = <<>>
  BY <1>3, <1>11, <1>14 DEF TookBytes
<1>17. HoldsFrom(B, P, a + n, u - Iss)
  <2>1. HoldsFrom(d.send_buffer, P, a, u - Iss) BY <1>1, <1>2, <1>3 DEF Bytes
  <2> SUFFICES ASSUME NEW i \in 1 .. (k + n) PROVE B[i] = StreamByte(P, a + n, (u - Iss) + (i - 1))
    BY <1>15 DEF HoldsFrom
  <2>2. u >= Iss BY <1>1, <1>2 DEF Counters
  <2>3. PICK x \in Nat : x = (u - Iss) + (i - 1) BY <1>5, <2>2
  <2>4. CASE i <= k
    <3>1. B[i] = StreamByte(P, a, x) BY <1>4, <1>15, <2>1, <2>3, <2>4 DEF HoldsFrom
    <3>2. x <= a /\ x <= a + n BY <1>5, <1>8, <2>3, <2>4
    <3> QED BY <2>3, <3>1, <3>2 DEF StreamByte
  <2>5. CASE ~(i <= k)
    <3>1. PICK j \in 1 .. n : i = k + j
      <4>1. i - k \in 1 .. n /\ i = k + (i - k) BY <2>5
      <4> QED BY <4>1
    <3>2. B[i] = P[a + j] BY <1>12, <1>13, <1>15, <3>1
    <3>3. x = a + j /\ x # 0 /\ x <= a + n BY <1>5, <1>8, <2>3, <3>1
    <3> QED BY <2>3, <3>2, <3>3 DEF StreamByte
  <2> QED BY <2>4, <2>5
<1>18. a + n <= Len(P) /\ k + n <= MaxSendBuffer
  <2>1. PICK z \in Nat : z = Len(P) BY <1>6
  <2>2. n <= l /\ a + l <= z BY <1>9, <1>10, <2>1
  <2>3. a + n <= z BY <2>2
  <2> QED BY <1>4, <2>1, <2>3
<1>19. Bytes(t, P)
  <2>1. t.send_buffer \in Seq(Nat) /\ Len(t.send_buffer) = k + n BY <1>15, <1>16
  <2>2. t.accepted \in Nat /\ t.accepted <= Len(P) BY <1>16, <1>18
  <2>3. HoldsFrom(t.send_buffer, P, t.accepted, t.rc.snd_una - Iss) BY <1>2, <1>16, <1>17
  <2> QED BY <1>18, <2>1, <2>2, <2>3 DEF Bytes
<1>20. SameCalls(d, t) /\ SameState(d, t) /\ t.state \notin Ending BY DEF TookBytes, SameState
<1>21. BufferEnd(t) = u + k + n /\ BufferEnd(t) = Iss + t.accepted + 1 /\ BufferEnd(t) >= BufferEnd(d)
  <2>1. BufferEnd(t) = u + (k + n) BY <1>2, <1>15, <1>16 DEF BufferEnd
  <2> QED BY <1>5, <1>7, <1>8, <1>16, <2>1
<1>22. Counters(t)
  <2>1. PICK end \in Nat : end = BufferEnd(t) BY <1>21
  <2>2. PICK end0 \in Nat : end0 = BufferEnd(d) /\ end0 <= end BY <1>7, <1>21, <2>1
  <2> QED BY <1>1, <1>16, <1>21, <2>1, <2>2, SMTT(20) DEF Counters
<1>23. Window(t) BY <1>1, <1>16 DEF Window
<1>24. Calls(t, P)
  <2>1. <<>> = SubSeq(P, (a + n) + 1, (a + n) + 0) BY <1>6
  <2>2. Len(<<>>) = 0 /\ <<>> \in Seq(Nat) OBVIOUS
  <2>3. (a + n) + 0 <= Len(P) BY <1>18
  <2>4. /\ t.saved_close => t.closed
        /\ t.state \in Ending => t.closed
    BY <1>1, <1>20 DEF Calls, SameCalls, SameState
  <2> QED BY <1>16, <2>1, <2>2, <2>3, <2>4 DEF Calls
<1>25. PICK x : x = [event |-> "send_buffer_not_empty", p |-> NakedSegment] OBVIOUS
<1>26. x \in Events /\ x.event = "send_buffer_not_empty" /\ EventLength(x) = 0
  BY <1>25, NakedIsSegment DEF Events, ProtocolEvents, EventLength
<1>27. t.queue = Append(d.queue, x) BY <1>25 DEF TookBytes
<1>28. Numbered(d.queue, d.rc.snd_nxt, e, P, a, FALSE)
  <2>1. (d.state \in Ending) = FALSE OBVIOUS
  <2> QED BY <1>3, <2>1 DEF Sending
<1>29. Numbered(d.queue, d.rc.snd_nxt, e, P, a + n, FALSE)
  <2>1. a <= a + n /\ a + n \in Nat OBVIOUS
  <2> QED BY <1>5, <1>28, <2>1, NumberedLater
<1>30. FitsAt(x, e, P, a + n, FALSE) BY <1>26 DEF FitsAt
<1>31. Numbered(t.queue, d.rc.snd_nxt, e + EventLength(x), P, a + n, FALSE)
  BY <1>27, <1>29, <1>30, NumberedAppend
<1>32. e \in Nat BY DEF Sending, Numbered
<1>33. Numbered(t.queue, t.rc.snd_nxt, e, P, t.accepted, t.state \in Ending)
  <2>1. (t.state \in Ending) = FALSE BY <1>20
  <2>2. e + EventLength(x) = e BY <1>26, <1>32
  <2> QED BY <1>16, <1>31, <2>1, <2>2
<1>34. ~SynQueued(t.queue) BY <1>1, <1>26, <1>27, AppendSyn
<1>35. Sending(t, P, e)
  <2>1. t.ccc.snd_nxt = e /\ e <= BufferEnd(d) BY <1>16 DEF Sending
  <2>2. e <= BufferEnd(t) BY <1>7, <1>21, <1>32, <2>1
  <2>3. t.rc.timer /\ t.rc.snd_nxt = t.rc.snd_una => e > t.rc.snd_nxt BY <1>16 DEF Sending
  <2> QED BY <1>20, <1>33, <1>34, <2>1, <2>2, <2>3 DEF Sending
<1>36. t.queue \in Seq(Events) BY <1>33 DEF Numbered
<1>37. t.connection_type = d.connection_type /\ t.state = d.state BY DEF TookBytes, SameCalls, SameState
<1> QED BY <1>16, <1>19, <1>22, <1>23, <1>24, <1>35, <1>36, <1>37 DEF SenderOK

-------------------------------------------------------------------------------
\* A host whose SYN has been numbered, and the events of its queue.

HostOK(c, P) == Shape(c) /\ ReceiverOK(c) /\ SenderOK(c, P)

\* Such a host is a socket record with a queue of events.
LEMMA HostFormed ==
    ASSUME NEW c, NEW P, HostOK(c, P)
    PROVE  Formed(c)
BY DEF HostOK, SenderOK, Formed

\* What leaves the sender alone leaves the host in order.
LEMMA BesideHost ==
    ASSUME NEW c, NEW d, NEW P, HostOK(c, P), Beside(c, d)
    PROVE  HostOK(d, P)
BY BesideKeeps DEF HostOK, Beside

\* So does what leaves the receiver alone and the sender in order.
LEMMA SenderHost ==
    ASSUME NEW c, NEW d, NEW P, HostOK(c, P), Shape(d), SameState(c, d), SameReceive(c, d),
           SenderOK(d, P)
    PROVE  HostOK(d, P)
BY ReceiverSame DEF HostOK

\* An event that takes no number leaves the queue.
LEMMA TakenHost ==
    ASSUME NEW c, NEW d, NEW P, HostOK(c, P), Taken(c, d), c.queue # <<>>,
           Head(c.queue).event \notin {"resend_packet", "send_packet"}
    PROVE  /\ HostOK(d, P) /\ \E e : Sending(d, P, e)
           /\ Head(c.queue).event \in {"send_buffer_not_empty", "send_buffer_not_full"} => ~SynQueued(d.queue)
<1>1. EventLength(Head(c.queue)) = 0 BY DEF EventLength
<1>2. SenderOK(c, P) BY DEF HostOK
<1>3. /\ SenderOK(d, P) /\ \E e : Sending(d, P, e)
      /\ Head(c.queue).event \in {"send_buffer_not_empty", "send_buffer_not_full"} => ~SynQueued(d.queue)
  BY <1>1, <1>2, TakenKeeps
<1>4. Shape(d) /\ SameState(c, d) /\ SameReceive(c, d) BY DEF Taken
<1>5. HostOK(d, P) BY <1>3, <1>4, SenderHost
<1> QED BY <1>3, <1>5

\* send_buffer_not_empty: what the windows allow goes to the queue.
LEMMA NotEmptyHost ==
    ASSUME NEW c, NEW d, NEW P, StreamsFit, StreamFits(P), HostOK(c, P), Taken(c, d),
           c.queue # <<>>, Head(c.queue).event = "send_buffer_not_empty"
    PROVE  HostOK(send_packets(d), P)
<1>1. HostOK(d, P) /\ ~SynQueued(d.queue) /\ \E e : Sending(d, P, e) BY TakenHost
<1>2. PICK e : Sending(d, P, e) BY <1>1
<1>3. Shape(d) /\ SenderOK(d, P) BY <1>1 DEF HostOK
<1>4. AfterRounds(d, send_packets(d), P) BY <1>1, <1>2, <1>3, SendPackets
<1> QED BY <1>1, <1>4, SenderHost DEF AfterRounds, SameButSent

\* The next bytes of the application fill the send buffer.
LEMMA FilledHost ==
    ASSUME NEW d, NEW P, NEW e, StreamsFit, StreamFits(P), HostOK(d, P), Sending(d, P, e),
           ~SynQueued(d.queue), d.state \notin Ending,
           NEW data, NextBytes(d, P, data), get_available_room_in_send_buffer(d) > 0,
           NEW t, SameReceive(d, t),
           TookBytes(d, t, data, Lesser(get_available_room_in_send_buffer(d), Len(data)))
    PROVE  HostOK(t, P)
<1>1. SenderOK(d, P) BY DEF HostOK
<1>2. PICK k \in Nat : k = Len(d.send_buffer) BY <1>1, SenderRange
<1>3. PICK l \in Nat : l = Len(data)
  <2>1. data \in Seq(Nat) BY DEF NextBytes
  <2>2. Len(data) \in Nat BY <2>1
  <2> QED BY <2>2
<1>4. MaxSendBuffer \in Nat BY Constants
<1>5. PICK n \in Nat : /\ n = Lesser(get_available_room_in_send_buffer(d), Len(data))
                       /\ n <= l /\ k + n <= MaxSendBuffer
  <2>1. PICK r \in Nat : r = get_available_room_in_send_buffer(d) /\ r = MaxSendBuffer - k
    <3>1. MaxSendBuffer - k > 0 /\ get_available_room_in_send_buffer(d) = MaxSendBuffer - k
      BY <1>2 DEF get_available_room_in_send_buffer
    <3>2. MaxSendBuffer - k \in Nat BY <1>4, <3>1
    <3> QED BY <3>1, <3>2
  <2>2. CASE r < l
    <3>1. Lesser(r, l) = r BY <2>2 DEF Lesser
    <3> QED BY <1>3, <1>4, <2>1, <2>2, <3>1
  <2>3. CASE ~(r < l)
    <3>1. Lesser(r, l) = l BY <2>3 DEF Lesser
    <3> QED BY <1>3, <1>4, <2>1, <2>3, <3>1
  <2> QED BY <2>2, <2>3
<1>6. TookBytes(d, t, data, n) /\ n <= Len(data) /\ Len(d.send_buffer) + n <= MaxSendBuffer BY <1>2, <1>3, <1>5
<1>7. SenderOK(t, P) BY <1>1, <1>6, TookBytesKeeps
<1> QED BY <1>7, SenderHost DEF TookBytes

\* send_buffer_not_full: a send() that waited gets the room.
LEMMA NotFullHost ==
    ASSUME NEW c, NEW d, NEW P, StreamsFit, StreamFits(P), HostOK(c, P), Taken(c, d),
           c.queue # <<>>, Head(c.queue).event = "send_buffer_not_full"
    PROVE  HostOK(send_buffer_not_full(d), P)
<1>1. HostOK(d, P) /\ ~SynQueued(d.queue) /\ \E e : Sending(d, P, e) BY TakenHost
<1>2. PICK e : Sending(d, P, e) BY <1>1
<1>3. CASE ~(d.saved_send # <<>> /\ get_available_room_in_send_buffer(d) > 0)
  BY <1>1, <1>3 DEF send_buffer_not_full
<1>4. CASE d.saved_send # <<>> /\ get_available_room_in_send_buffer(d) > 0
  <2>1. Calls(d, P) /\ Shape(d) BY <1>1 DEF HostOK, SenderOK
  <2>2. NextBytes(d, P, d.saved_send) BY <2>1 DEF Calls, NextBytes
  <2>3. d.state \notin Ending BY <1>4, <2>1 DEF Calls
  <2>4. PICK t : t = send_buffer_not_full(d) OBVIOUS
  <2>5. PICK n : n = Lesser(get_available_room_in_send_buffer(d), Len(d.saved_send)) OBVIOUS
  <2>6. t = [enqueue([d EXCEPT !.send_buffer = @ \o SubSeq(d.saved_send, 1, n), !.accepted = @ + n],
                     "send_buffer_not_empty") EXCEPT !.saved_send = <<>>]
    BY <1>4, <2>4, <2>5 DEF send_buffer_not_full, save_in_buffer_and_send_events
  <2>7. /\ Shape(t) /\ SameCalls(d, t) /\ SameState(d, t) /\ SameReceive(d, t) /\ t.rc = d.rc /\ t.ccc = d.ccc
        /\ t.send_buffer = d.send_buffer \o SubSeq(d.saved_send, 1, n)
        /\ t.accepted = d.accepted + n
        /\ t.saved_send = <<>>
        /\ t.queue = Append(d.queue, [event |-> "send_buffer_not_empty", p |-> NakedSegment])
    BY <2>1, <2>6 DEF enqueue, Shape, SameCalls, SameState, SameReceive
  <2>8. TookBytes(d, t, d.saved_send, n) BY <2>7 DEF TookBytes
  <2> QED BY <1>1, <1>2, <1>4, <2>2, <2>3, <2>4, <2>5, <2>7, <2>8, FilledHost
<1> QED BY <1>3, <1>4

-------------------------------------------------------------------------------
\* The calls of the application, which come when the queue is empty.

\* Between events congestion control is where the reliability context is, and the
\* retransmission timer runs while something is outstanding.
LEMMA QuietFacts ==
    ASSUME NEW c, NEW P, SenderOK(c, P), c.queue = <<>>
    PROVE  /\ Sending(c, P, c.rc.snd_nxt) /\ ~SynQueued(c.queue)
           /\ c.rc.timer <=> c.rc.snd_una # c.rc.snd_nxt
           /\ c.state \notin Ending => c.ccc.snd_nxt = c.rc.snd_nxt
<1>1. ~Resending(c) BY DEF Resending
<1>2. PICK e : Sending(c, P, e) BY <1>1 DEF SenderOK
<1>3. Numbered(c.queue, c.rc.snd_nxt, e, P, c.accepted, c.state \in Ending) BY <1>2 DEF Sending
<1>4. PICK pos : NumbersOf(c.queue, pos, c.rc.snd_nxt, e, P, c.accepted, c.state \in Ending)
  BY <1>3 DEF Numbered
<1>5. pos[1] = c.rc.snd_nxt /\ pos[Len(c.queue) + 1] = e BY <1>4 DEF NumbersOf
<1>6. Len(c.queue) + 1 = 1 OBVIOUS
<1>7. e = c.rc.snd_nxt BY <1>5, <1>6
<1>8. ~SynQueued(c.queue) BY DEF SynQueued
<1>9. c.rc.snd_nxt \in Nat BY DEF SenderOK, Counters
<1>10. c.rc.timer /\ c.rc.snd_nxt = c.rc.snd_una => FALSE
  <2>1. c.rc.timer /\ c.rc.snd_nxt = c.rc.snd_una => e > c.rc.snd_nxt BY <1>2 DEF Sending
  <2> QED BY <1>7, <1>9, <2>1
<1>11. c.rc.snd_nxt # c.rc.snd_una => c.rc.timer BY DEF SenderOK
<1>12. c.state \notin Ending => c.ccc.snd_nxt = c.rc.snd_nxt BY <1>2, <1>7 DEF Sending
<1>13. c.rc.timer \in BOOLEAN BY DEF SenderOK
<1> QED BY <1>2, <1>7, <1>8, <1>10, <1>11, <1>12, <1>13

\* The bytes that one send() offers are the next ones.
LEMMA OfferedBytes ==
    ASSUME NEW c, NEW P, SenderOK(c, P), StreamFits(P), NEW n \in Nat
    PROVE  NextBytes(c, P, SubSeq(P, c.accepted + 1, Lesser(c.accepted + n, Len(P))))
<1>1. PICK a \in Nat : a = c.accepted /\ a <= Len(P) BY DEF SenderOK, Bytes
<1>2. PICK z \in Nat : z = Len(P) /\ P \in Seq(Nat)
  <2>1. P \in Seq(Nat) BY DEF StreamFits
  <2>2. Len(P) \in Nat BY <2>1
  <2> QED BY <2>1, <2>2
<1>3. PICK hi \in Nat : hi = Lesser(a + n, z) /\ a <= hi /\ hi <= z
  <2>1. CASE a + n < z BY <1>1, <1>2, <2>1, SMTT(20) DEF Lesser
  <2>2. CASE ~(a + n < z) BY <1>1, <1>2, <2>2 DEF Lesser
  <2> QED BY <2>1, <2>2
<1>4. PICK s : s = SubSeq(P, a + 1, hi) OBVIOUS
<1>5. s \in Seq(Nat) /\ Len(s) = hi - a
  <2>1. \A j \in (a + 1) .. hi : P[j] \in Nat BY <1>2, <1>3
  <2>2. s \in Seq(Nat) /\ Len(s) = (IF a + 1 <= hi THEN hi - (a + 1) + 1 ELSE 0)
    BY <1>4, <2>1, SubSeqProperties
  <2> QED BY <1>3, <2>2
<1>6. a + Len(s) = hi BY <1>3, <1>5
<1>7. s = SubSeq(P, a + 1, a + Len(s)) /\ a + Len(s) <= Len(P) BY <1>2, <1>3, <1>4, <1>6
<1> QED BY <1>1, <1>2, <1>3, <1>4, <1>5, <1>7 DEF NextBytes

\* send(): the bytes enter the buffer, or the call waits for room.
LEMMA SendHost ==
    ASSUME NEW c, NEW P, StreamsFit, StreamFits(P), HostOK(c, P), c.queue = <<>>,
           c.saved_send = <<>>, ~c.closed, NEW data, NextBytes(c, P, data)
    PROVE  HostOK(tahoe_send(c, data), P)
<1>1. Shape(c) /\ SenderOK(c, P) BY DEF HostOK
<1>2. Sending(c, P, c.rc.snd_nxt) /\ ~SynQueued(c.queue) BY <1>1, QuietFacts
<1>3. Counters(c) /\ Bytes(c, P) /\ Window(c) /\ Calls(c, P) BY <1>1 DEF SenderOK
<1>4. c.state \notin Ending BY <1>3 DEF Calls
<1>5. get_available_room_in_send_buffer(c) >= 0
  <2>1. PICK k \in Nat : k = Len(c.send_buffer) /\ k <= MaxSendBuffer BY <1>1, <1>3, SenderRange DEF Bytes
  <2>2. MaxSendBuffer \in Nat BY Constants
  <2> QED BY <2>1, <2>2 DEF get_available_room_in_send_buffer
<1>6. Require(c, get_available_room_in_send_buffer(c) >= 0, "send_buffer_room") = c BY <1>5 DEF Require
<1>7. CASE get_available_room_in_send_buffer(c) > 0
  <2>1. PICK t : t = tahoe_send(c, data) OBVIOUS
  <2>2. PICK n : n = Lesser(get_available_room_in_send_buffer(c), Len(data)) OBVIOUS
  <2>3. t = enqueue([c EXCEPT !.send_buffer = @ \o SubSeq(data, 1, n), !.accepted = @ + n],
                    "send_buffer_not_empty")
    BY <1>6, <1>7, <2>1, <2>2 DEF tahoe_send, save_in_buffer_and_send_events
  <2>4. /\ Shape(t) /\ SameCalls(c, t) /\ SameState(c, t) /\ SameReceive(c, t) /\ t.rc = c.rc /\ t.ccc = c.ccc
        /\ t.send_buffer = c.send_buffer \o SubSeq(data, 1, n)
        /\ t.accepted = c.accepted + n
        /\ t.saved_send = c.saved_send
        /\ t.queue = Append(c.queue, [event |-> "send_buffer_not_empty", p |-> NakedSegment])
    BY <1>1, <2>3 DEF enqueue, Shape, SameCalls, SameState, SameReceive
  <2>5. TookBytes(c, t, data, n) BY <2>4 DEF TookBytes
  <2> QED BY <1>2, <1>4, <1>7, <2>1, <2>2, <2>4, <2>5, FilledHost
<1>8. CASE ~(get_available_room_in_send_buffer(c) > 0)
  <2>1. PICK t : t = tahoe_send(c, data) OBVIOUS
  <2>2. t = [c EXCEPT !.saved_send = data] BY <1>6, <1>8, <2>1 DEF tahoe_send
  <2>3. /\ Shape(t) /\ SameCalls(c, t) /\ SameState(c, t) /\ SameReceive(c, t) /\ t.rc = c.rc /\ t.ccc = c.ccc
        /\ t.send_buffer = c.send_buffer /\ t.accepted = c.accepted /\ t.queue = c.queue
        /\ t.saved_send = data
    BY <1>1, <2>2 DEF Shape, SameCalls, SameState, SameReceive
  <2>4. Counters(t) BY <1>3, <2>3 DEF Counters, BufferEnd, FinBuffered, SameState
  <2>5. Bytes(t, P) BY <1>3, <2>3 DEF Bytes
  <2>6. Window(t) BY <1>3, <2>3 DEF Window
  <2>7. Calls(t, P) BY <1>3, <1>4, <2>3 DEF Calls, NextBytes, SameCalls, SameState
  <2>8. Sending(t, P, c.rc.snd_nxt) BY <1>2, <2>3 DEF Sending, BufferEnd, FinBuffered, SameState
  <2>9. SenderOK(t, P) BY <1>1, <2>3, <2>4, <2>5, <2>6, <2>7, <2>8 DEF SenderOK, SameCalls, SameState
  <2> QED BY <2>1, <2>3, <2>9, SenderHost
<1> QED BY <1>7, <1>8

\* No SYN waits in a queue whose numbers start behind that of the SYN.
LEMMA NumberedNoSyn ==
    ASSUME NEW q, NEW from, NEW to, NEW P, NEW n, NEW closing, Iss \in Nat,
           Numbered(q, from, to, P, n, closing), from > Iss
    PROVE  ~SynQueued(q)
<1>1. from \in Nat BY DEF Numbered
<1>2. PICK pos : NumbersOf(q, pos, from, to, P, n, closing) BY DEF Numbered
<1> SUFFICES ASSUME NEW i \in 1 .. Len(q), q[i].event = "send_packet" /\ q[i].p.syn PROVE FALSE
  BY DEF SynQueued
<1>3. FitsAt(q[i], pos[i], P, n, closing) /\ from <= pos[i] BY <1>2 DEF NumbersOf
<1>4. pos[i] = Iss BY <1>3 DEF FitsAt
<1> QED BY <1>1, <1>3, <1>4

\* t is c after a close() with nothing left to send: the FIN goes to the queue, or
\* the state has no use for the call.
CloseTaken(c, t) ==
    /\ Shape(t) /\ SameReceive(c, t) /\ t.rc = c.rc /\ t.ccc = c.ccc
    /\ t.send_buffer = c.send_buffer /\ t.saved_send = c.saved_send /\ t.accepted = c.accepted
    /\ t.connection_type = c.connection_type /\ t.exists = c.exists
    /\ t.closed
    /\ \/ SameState(c, t) /\ t.queue = c.queue
       \/ /\ c.state \in {"Established", "CloseWait"} /\ t.state \in {"FinWait1", "LastAck"}
          /\ t.time_wait_timer = FALSE
          /\ t.queue = Append(c.queue, [event |-> "send_packet", p |-> Fin])

\* The number of the FIN is the one after the last byte, which has been sent and
\* acknowledged.
LEMMA CloseTakenHost ==
    ASSUME NEW c, NEW t, NEW P, StreamsFit, StreamFits(P), HostOK(c, P),
           c.send_buffer = <<>>, c.saved_send = <<>>, CloseTaken(c, t)
    PROVE  HostOK(t, P)
<1>1. Shape(c) /\ SenderOK(c, P) /\ ReceiverOK(c) BY DEF HostOK
<1>2. Counters(c) /\ Bytes(c, P) /\ Window(c) /\ Calls(c, P) /\ c.queue \in Seq(Events) BY <1>1 DEF SenderOK
<1>3. /\ Shape(t) /\ SameReceive(c, t) /\ t.rc = c.rc /\ t.ccc = c.ccc
      /\ t.send_buffer = c.send_buffer /\ t.saved_send = c.saved_send /\ t.accepted = c.accepted
      /\ t.connection_type = c.connection_type /\ t.closed
  BY DEF CloseTaken
<1>4. PICK u \in Nat : u = c.rc.snd_una BY <1>2 DEF Counters
<1>5. PICK a \in Nat : a = c.accepted BY <1>2 DEF Bytes
<1>6. Iss \in Nat /\ IntMax \in Nat BY Constants
<1>7. BufferEnd(c) = u
  <2>1. Len(c.send_buffer) = 0 OBVIOUS
  <2> QED BY <1>4, <2>1 DEF BufferEnd
<1>8. ~Resending(c) BY <1>4, <1>7 DEF Resending
<1>9. PICK e : Sending(c, P, e) BY <1>1, <1>8 DEF SenderOK
<1>10. Bytes(t, P) BY <1>2, <1>3 DEF Bytes
<1>11. Window(t) BY <1>2, <1>3 DEF Window
<1>12. Calls(t, P) BY <1>2, <1>3 DEF Calls
<1>13. t.rc.timer \in BOOLEAN /\ t.rc.initialized = TRUE /\ (t.rc.snd_nxt # t.rc.snd_una => t.rc.timer)
  BY <1>1, <1>3 DEF SenderOK
<1>14. BufferEnd(t) = BufferEnd(c) /\ (FinBuffered(t) <=> FinBuffered(c)) BY <1>3 DEF BufferEnd, FinBuffered
<1>15. CASE SameState(c, t) /\ t.queue = c.queue
  <2>1. Counters(t) BY <1>2, <1>3, <1>14, <1>15 DEF Counters, SameState
  <2>2. Sending(t, P, e) BY <1>3, <1>9, <1>14, <1>15 DEF Sending, SameState
  <2>3. SenderOK(t, P)
    BY <1>1, <1>2, <1>3, <1>10, <1>11, <1>12, <1>13, <1>15, <2>1, <2>2 DEF SenderOK, SameState
  <2> QED BY <1>3, <1>15, <2>3, SenderHost
<1>16. CASE /\ c.state \in {"Established", "CloseWait"} /\ t.state \in {"FinWait1", "LastAck"}
            /\ t.time_wait_timer = FALSE
            /\ t.queue = Append(c.queue, [event |-> "send_packet", p |-> Fin])
  <2>1. c.state \notin Ending /\ t.state \in Ending /\ t.state \in Live BY <1>16 DEF Ending, Live, States
  <2>2. u = Iss + a + 1 /\ ~FinBuffered(c)
    <3>1. BufferEnd(c) = Iss + c.accepted + 1 BY <1>2, <2>1 DEF Counters
    <3> QED BY <1>4, <1>5, <1>6, <1>7, <3>1 DEF FinBuffered
  <2>3. c.rc.snd_nxt = u /\ c.rc.snd_max = u BY <1>2, <1>4, <1>7 DEF Counters
  <2>4. e = u /\ c.ccc.snd_nxt = u
    <3>1. c.ccc.snd_nxt = e /\ e <= u BY <1>7, <1>9, <2>1 DEF Sending
    <3>2. e \in Nat /\ u <= e BY <1>9, <2>3 DEF Sending, Numbered
    <3> QED BY <1>4, <3>1, <3>2
  <2>5. Numbered(c.queue, u, u, P, a, FALSE)
    <3>1. (c.state \in Ending) = FALSE BY <2>1
    <3>2. Numbered(c.queue, c.rc.snd_nxt, e, P, c.accepted, c.state \in Ending) BY <1>9 DEF Sending
    <3> QED BY <1>5, <2>3, <2>4, <3>1, <3>2
  <2>6. Numbered(c.queue, u, u, P, a, TRUE)
    <3>1. a <= a OBVIOUS
    <3> QED BY <1>6, <2>5, <3>1, NumberedLater
  <2>7. PICK x : x = [event |-> "send_packet", p |-> Fin] OBVIOUS
  <2>8. /\ x \in Events /\ x.event = "send_packet" /\ x.p = Fin
        /\ Fin.syn = FALSE /\ Fin.fin = TRUE /\ Fin.data = <<>>
    <3>1. <<>> \in Seq(Nat) OBVIOUS
    <3> QED BY <2>7, <3>1 DEF Events, ProtocolEvents, Segments, Fin, Segment
  <2>9. EventLength(x) = 1 /\ FitsAt(x, u, P, a, TRUE) BY <2>2, <2>8 DEF EventLength, SegmentLength, FitsAt
  <2>10. Numbered(t.queue, u, u + 1, P, a, TRUE) BY <1>16, <2>6, <2>7, <2>9, NumberedAppend
  <2>11. Numbered(t.queue, t.rc.snd_nxt, u + 1, P, t.accepted, t.state \in Ending)
    <3>1. (t.state \in Ending) = TRUE BY <2>1
    <3> QED BY <1>3, <1>5, <2>3, <2>10, <3>1
  <2>12. ~SynQueued(t.queue)
    <3>1. u > Iss BY <1>6, <2>2
    <3> QED BY <1>6, <2>10, <3>1, NumberedNoSyn
  <2>13. u + 1 > u /\ u + 1 <= u + 1 OBVIOUS
  <2>14. Sending(t, P, u + 1)
    BY <1>3, <1>7, <1>14, <2>1, <2>2, <2>3, <2>4, <2>11, <2>12, <2>13 DEF Sending
  <2>15. Counters(t) BY <1>2, <1>3, <1>14, <2>1 DEF Counters
  <2>16. t.queue \in Seq(Events) BY <2>10 DEF Numbered
  <2>17. SenderOK(t, P)
    BY <1>1, <1>3, <1>10, <1>11, <1>12, <1>13, <2>1, <2>14, <2>15, <2>16 DEF SenderOK
  <2>18. ReceiverOK(t) BY <1>1, <1>3, <1>16 DEF ReceiverOK, SameReceive
  <2> QED BY <1>3, <2>17, <2>18 DEF HostOK
<1> QED BY <1>15, <1>16 DEF CloseTaken

\* cm_close(), for a socket that the application has closed.
LEMMA CmCloseTaken ==
    ASSUME NEW c, Shape(c), c.state \in Live, c.send_buffer = <<>>, NEW t,
           NEW f \in {"closed", "saved_close"}, NEW v \in BOOLEAN, t = [cm_close(c) EXCEPT ![f] = v],
           f = "closed" => v = TRUE, f = "saved_close" => c.closed
    PROVE  CloseTaken(c, t)
<1>1. CASE c.state = "Established"
  <2>1. cm_close(c) = enqueue_send(set_state(c, "FinWait1"), Fin) BY <1>1 DEF cm_close, Established_close
  <2>2. CASE f = "closed" BY <1>1, <2>1, <2>2, ZenonT(20) DEF set_state, enqueue_send, Shape, CloseTaken, SameReceive
  <2>3. CASE f = "saved_close" BY <1>1, <2>1, <2>3, ZenonT(20) DEF set_state, enqueue_send, Shape, CloseTaken, SameReceive
  <2> QED BY <2>2, <2>3
<1>2. CASE c.state = "CloseWait"
  <2>1. cm_close(c) = set_state(enqueue_send(c, Fin), "LastAck") BY <1>2 DEF cm_close, CloseWait_close
  <2>2. CASE f = "closed" BY <1>2, <2>1, <2>2, ZenonT(20) DEF set_state, enqueue_send, Shape, CloseTaken, SameReceive
  <2>3. CASE f = "saved_close" BY <1>2, <2>1, <2>3, ZenonT(20) DEF set_state, enqueue_send, Shape, CloseTaken, SameReceive
  <2> QED BY <2>2, <2>3
<1>3. CASE c.state \notin {"Established", "CloseWait"}
  <2>1. c.state # "Listen" BY DEF Live
  <2>2. cm_close(c) = c BY <1>3, <2>1 DEF cm_close
  <2>3. CASE f = "closed" BY <2>2, <2>3 DEF Shape, CloseTaken, SameReceive, SameState
  <2>4. CASE f = "saved_close" BY <2>2, <2>4 DEF Shape, CloseTaken, SameReceive, SameState
  <2> QED BY <2>3, <2>4
<1> QED BY <1>1, <1>2, <1>3

\* close(): the FIN goes out, or waits until everything has been acknowledged.
LEMMA CloseHost ==
    ASSUME NEW c, NEW P, StreamsFit, StreamFits(P), HostOK(c, P), c.queue = <<>>,
           c.saved_send = <<>>
    PROVE  HostOK(tahoe_close(c), P)
<1>1. Shape(c) /\ SenderOK(c, P) BY DEF HostOK
<1>2. CASE MayClose(c)
  <2>1. PICK t : t = [cm_close(c) EXCEPT !["closed"] = TRUE] OBVIOUS
  <2>2. t = tahoe_close(c) BY <1>2, <2>1 DEF tahoe_close
  <2>3. c.state \in Live /\ c.send_buffer = <<>> BY <1>1, <1>2 DEF SenderOK, MayClose
  <2>4. CloseTaken(c, t) BY <1>1, <2>1, <2>3, CmCloseTaken
  <2> QED BY <2>2, <2>3, <2>4, CloseTakenHost
<1>3. CASE ~MayClose(c)
  <2>1. PICK t : t = tahoe_close(c) OBVIOUS
  <2>2. t = [[c EXCEPT !.saved_close = TRUE] EXCEPT !.closed = TRUE] BY <1>3, <2>1 DEF tahoe_close
  <2>3. /\ Shape(t) /\ SameState(c, t) /\ SameReceive(c, t) /\ t.rc = c.rc /\ t.ccc = c.ccc
        /\ t.send_buffer = c.send_buffer /\ t.accepted = c.accepted /\ t.queue = c.queue
        /\ t.saved_send = c.saved_send /\ t.connection_type = c.connection_type /\ t.closed = TRUE
    BY <1>1, <2>2 DEF Shape, SameState, SameReceive
  <2>4. Counters(t) BY <1>1, <2>3 DEF SenderOK, Counters, BufferEnd, FinBuffered, SameState
  <2>5. Bytes(t, P) BY <1>1, <2>3 DEF SenderOK, Bytes
  <2>6. Window(t) BY <1>1, <2>3 DEF SenderOK, Window
  <2>7. Calls(t, P) BY <1>1, <2>3 DEF SenderOK, Calls
  <2>8. Sending(c, P, c.rc.snd_nxt) BY <1>1, QuietFacts
  <2>9. Sending(t, P, c.rc.snd_nxt) BY <2>3, <2>8 DEF Sending, BufferEnd, FinBuffered, SameState
  <2>10. SenderOK(t, P) BY <1>1, <2>3, <2>4, <2>5, <2>6, <2>7, <2>9 DEF SenderOK, SameState
  <2> QED BY <2>1, <2>3, <2>10, SenderHost
<1> QED BY <1>2, <1>3

\* A close() that waited is taken up when nothing is left to send.
LEMMA SavedCloseHost ==
    ASSUME NEW c, NEW P, StreamsFit, StreamFits(P), HostOK(c, P)
    PROVE  HostOK(FinishSavedClose(c), P)
<1>1. Shape(c) /\ SenderOK(c, P) /\ Calls(c, P) BY DEF HostOK, SenderOK
<1>2. CASE c.saved_close /\ MayClose(c)
  <2>1. PICK t : t = [cm_close(c) EXCEPT !["saved_close"] = FALSE] OBVIOUS
  <2>2. t = FinishSavedClose(c) BY <1>2, <2>1 DEF FinishSavedClose
  <2>3. c.state \in Live /\ c.send_buffer = <<>> /\ c.saved_send = <<>> BY <1>1, <1>2 DEF SenderOK, MayClose
  <2>4. c.closed BY <1>1, <1>2 DEF Calls
  <2>5. CloseTaken(c, t) BY <1>1, <2>1, <2>3, <2>4, CmCloseTaken
  <2> QED BY <2>2, <2>3, <2>5, CloseTakenHost
<1>3. CASE ~(c.saved_close /\ MayClose(c)) BY <1>3 DEF FinishSavedClose
<1> QED BY <1>2, <1>3

-------------------------------------------------------------------------------
\* Timers, and acknowledgements of nothing new.

\* t is c after SND.NXT has gone back and the resend has been queued.
ResendQueued(c, t) ==
    /\ Shape(t) /\ ReceiverOK(t) /\ SameCalls(c, t) /\ SameState(c, t) /\ t.ccc = c.ccc
    /\ t.send_buffer = c.send_buffer /\ t.saved_send = c.saved_send /\ t.accepted = c.accepted
    /\ t.rc.initialized = c.rc.initialized /\ t.rc.timer \in BOOLEAN
    /\ t.rc.snd_una = c.rc.snd_una /\ t.rc.snd_nxt = c.rc.snd_una /\ t.rc.snd_max = c.rc.snd_max
    /\ t.queue = Append(c.queue, [event |-> "resend_packet", p |-> NakedSegment])

\* With something outstanding there is something to resend.
LEMMA ResendQueuedHost ==
    ASSUME NEW c, NEW t, NEW P, StreamsFit, StreamFits(P), HostOK(c, P), c.queue = <<>>,
           c.rc.snd_una # c.rc.snd_nxt, ResendQueued(c, t)
    PROVE  HostOK(t, P) /\ Resending(t)
<1>1. Shape(c) /\ SenderOK(c, P) BY DEF HostOK
<1>2. Counters(c) /\ Bytes(c, P) /\ Window(c) /\ Calls(c, P) BY <1>1 DEF SenderOK
<1>3. /\ Shape(t) /\ ReceiverOK(t) /\ SameCalls(c, t) /\ SameState(c, t) /\ t.ccc = c.ccc
      /\ t.send_buffer = c.send_buffer /\ t.saved_send = c.saved_send /\ t.accepted = c.accepted
      /\ t.rc.initialized = c.rc.initialized /\ t.rc.timer \in BOOLEAN
      /\ t.rc.snd_una = c.rc.snd_una /\ t.rc.snd_nxt = c.rc.snd_una /\ t.rc.snd_max = c.rc.snd_max
  BY DEF ResendQueued
<1>4. Sending(c, P, c.rc.snd_nxt) BY <1>1, QuietFacts
<1>5. BufferEnd(t) = BufferEnd(c) /\ (FinBuffered(t) <=> FinBuffered(c)) BY <1>3 DEF BufferEnd, FinBuffered
<1>6. PICK u \in Nat : u = c.rc.snd_una BY <1>2 DEF Counters
<1>7. PICK n \in Nat : n = c.rc.snd_nxt BY <1>2 DEF Counters
<1>8. PICK m \in Nat : m = c.rc.snd_max BY <1>2 DEF Counters
<1>9. PICK end \in Nat : end = BufferEnd(c) BY <1>1, SenderRange
<1>10. u < n /\ n <= m /\ m <= end BY <1>2, <1>6, <1>7, <1>8, <1>9 DEF Counters
<1>11. Counters(t) BY <1>2, <1>3, <1>5, <1>6, <1>7, <1>8, <1>9, <1>10 DEF Counters, SameState
<1>12. Bytes(t, P) BY <1>2, <1>3 DEF Bytes
<1>13. Window(t) BY <1>2, <1>3 DEF Window
<1>14. Calls(t, P) BY <1>2, <1>3 DEF Calls, SameCalls, SameState
<1>15. PICK x : x = [event |-> "resend_packet", p |-> NakedSegment] OBVIOUS
<1>16. x \in Events /\ x.event = "resend_packet" BY <1>15, NakedIsSegment DEF Events, ProtocolEvents
<1>17. t.queue = <<x>>
  <2>1. t.queue = Append(<<>>, x) BY <1>15 DEF ResendQueued
  <2> QED BY <2>1
<1>18. t.queue \in Seq(Events) /\ Len(t.queue) = 1 /\ t.queue # <<>> /\ t.queue[1] = x BY <1>16, <1>17
<1>19. c.state \in Ending => FinBuffered(c)
  <2>1. c.state \in Ending /\ ~FinBuffered(c) => c.send_buffer = <<>> BY <1>4 DEF Sending
  <2>2. c.send_buffer = <<>> => end = u
    <3>1. c.send_buffer = <<>> => Len(c.send_buffer) = 0 OBVIOUS
    <3> QED BY <1>6, <1>9, <3>1 DEF BufferEnd
  <2> QED BY <1>10, <2>1, <2>2
<1>20. t.rc.snd_una < BufferEnd(t) BY <1>3, <1>5, <1>6, <1>9, <1>10
<1>21. Resending(t)
  <2>1. \A i \in 2 .. Len(t.queue) : Plain(t.queue[i]) BY <1>18
  <2> QED BY <1>3, <1>5, <1>16, <1>18, <1>19, <1>20, <2>1 DEF Resending, SameState
<1>22. SenderOK(t, P)
  BY <1>1, <1>3, <1>11, <1>12, <1>13, <1>14, <1>18, <1>21 DEF SenderOK, SameCalls, SameState
<1> QED BY <1>3, <1>21, <1>22 DEF HostOK

\* resend_data() of the reliability context goes back to SND.UNA.
LEMMA ResendData ==
    ASSUME NEW b, Shape(b), b.rc.snd_una \in Nat, b.rc.snd_max \in Nat,
           b.rc.snd_una <= b.rc.snd_max, b.rc.snd_max <= IntMax
    PROVE  LET t == resend_data(b) IN
           /\ Shape(t) /\ SameCalls(b, t) /\ SameState(b, t) /\ SameReceive(b, t) /\ t.ccc = b.ccc
           /\ t.send_buffer = b.send_buffer /\ t.saved_send = b.saved_send /\ t.accepted = b.accepted
           /\ t.rc.initialized = b.rc.initialized /\ t.rc.timer = b.rc.timer
           /\ t.rc.snd_una = b.rc.snd_una /\ t.rc.snd_nxt = b.rc.snd_una /\ t.rc.snd_max = b.rc.snd_max
           /\ t.queue = Append(b.queue, [event |-> "resend_packet", p |-> NakedSegment])
           /\ t.aborted = b.aborted
<1>1. PICK u \in Nat : u = b.rc.snd_una OBVIOUS
<1>2. PICK m \in Nat : m = b.rc.snd_max OBVIOUS
<1>3. ~less_than(m, u)
  <2>1. u <= m /\ m <= IntMax /\ IntMax \in Nat BY <1>1, <1>2, IntMaxAssumption
  <2>2. u <= IntMax BY <2>1
  <2>3. less_than(m, u) <=> m < u BY <2>1, <2>2, SmallLess
  <2> QED BY <2>1, <2>3
<1>4. PICK r : r = set_snd_nxt(b.rc, b.rc.snd_una) OBVIOUS
<1>5. r = [b.rc EXCEPT !.snd_nxt = u, !.snd_max = m] BY <1>1, <1>2, <1>3, <1>4 DEF set_snd_nxt, Shape
<1>6. resend_data(b) = enqueue([b EXCEPT !.rc = r], "resend_packet") BY <1>4 DEF resend_data, Shape
<1>7. /\ DOMAIN r = DOMAIN b.rc /\ r.snd_una = b.rc.snd_una /\ r.snd_nxt = b.rc.snd_una /\ r.snd_max = b.rc.snd_max
      /\ r.initialized = b.rc.initialized /\ r.timer = b.rc.timer
      /\ r.rcv_nxt = b.rc.rcv_nxt /\ r.rcv_wnd = b.rc.rcv_wnd
      /\ r.receive_index = b.rc.receive_index /\ r.receive_window = b.rc.receive_window
      /\ r.receive_event = b.rc.receive_event /\ r.duplicates = b.rc.duplicates
  BY <1>1, <1>2, <1>5 DEF Shape
<1>8. PICK t : t = resend_data(b) OBVIOUS
<1>9. /\ DOMAIN t = DOMAIN b /\ t.rc = r /\ t.ccc = b.ccc
      /\ SameCalls(b, t) /\ SameState(b, t) /\ t.receive_buffer = b.receive_buffer
      /\ t.saved_fin = b.saved_fin /\ t.redispatched = b.redispatched
      /\ t.send_buffer = b.send_buffer /\ t.saved_send = b.saved_send /\ t.accepted = b.accepted
      /\ t.queue = Append(b.queue, [event |-> "resend_packet", p |-> NakedSegment])
      /\ t.aborted = b.aborted
  BY <1>6, <1>8 DEF enqueue, Shape, SameCalls, SameState
<1>10. Shape(t) /\ SameReceive(b, t) BY <1>7, <1>9 DEF Shape, SameReceive
<1> QED BY <1>7, <1>8, <1>9, <1>10

\* The retransmission timer.
LEMMA TimerHost ==
    ASSUME NEW c, NEW P, StreamsFit, StreamFits(P), HostOK(c, P), c.queue = <<>>, c.rc.timer
    PROVE  HostOK(rc_timer_fired(c), P)
<1>1. Shape(c) /\ SenderOK(c, P) /\ ReceiverOK(c) BY DEF HostOK
<1>2. c.rc.snd_una # c.rc.snd_nxt BY <1>1, QuietFacts
<1>3. PICK b : b = cancel_timer(c) OBVIOUS
<1>4. /\ Shape(b) /\ SameCalls(c, b) /\ SameState(c, b) /\ SameReceive(c, b) /\ b.ccc = c.ccc
      /\ b.send_buffer = c.send_buffer /\ b.saved_send = c.saved_send /\ b.accepted = c.accepted
      /\ b.rc.initialized = c.rc.initialized /\ b.rc.timer = FALSE
      /\ b.rc.snd_una = c.rc.snd_una /\ b.rc.snd_max = c.rc.snd_max
      /\ b.queue = c.queue
  BY <1>1, <1>3 DEF cancel_timer, Shape, SameCalls, SameState, SameReceive
<1>5. /\ b.rc.snd_una \in Nat /\ b.rc.snd_max \in Nat
      /\ b.rc.snd_una <= b.rc.snd_max /\ b.rc.snd_max <= IntMax
  <2>1. PICK u \in Nat : u = c.rc.snd_una BY <1>1 DEF SenderOK, Counters
  <2>2. PICK n \in Nat : n = c.rc.snd_nxt BY <1>1 DEF SenderOK, Counters
  <2>3. PICK m \in Nat : m = c.rc.snd_max BY <1>1 DEF SenderOK, Counters
  <2>4. PICK end \in Nat : end = BufferEnd(c) /\ end + 1 <= IntMax BY <1>1, SenderRange
  <2>5. u <= n /\ n <= m /\ m <= end BY <1>1, <2>1, <2>2, <2>3, <2>4 DEF SenderOK, Counters
  <2>6. IntMax \in Nat BY Constants
  <2> QED BY <1>4, <2>1, <2>3, <2>4, <2>5, <2>6
<1>6. PICK t : t = resend_data(b) OBVIOUS
<1>7. /\ Shape(t) /\ SameCalls(b, t) /\ SameState(b, t) /\ SameReceive(b, t) /\ t.ccc = b.ccc
      /\ t.send_buffer = b.send_buffer /\ t.saved_send = b.saved_send /\ t.accepted = b.accepted
      /\ t.rc.initialized = b.rc.initialized /\ t.rc.timer = b.rc.timer
      /\ t.rc.snd_una = b.rc.snd_una /\ t.rc.snd_nxt = b.rc.snd_una /\ t.rc.snd_max = b.rc.snd_max
      /\ t.queue = Append(b.queue, [event |-> "resend_packet", p |-> NakedSegment])
  BY <1>4, <1>5, <1>6, ResendData
<1>8. ReceiverOK(t) BY <1>1, <1>4, <1>7 DEF ReceiverOK, SameReceive, SameState
<1>9. ResendQueued(c, t) BY <1>4, <1>7, <1>8, ZenonT(20) DEF ResendQueued, SameCalls, SameState
<1>10. HostOK(t, P) BY <1>2, <1>9, ResendQueuedHost
<1> QED BY <1>3, <1>6, <1>10 DEF rc_timer_fired

\* The probe timer sends past the window, when there is something to send.
LEMMA ProbeHost ==
    ASSUME NEW c, NEW P, StreamsFit, StreamFits(P), HostOK(c, P), c.queue = <<>>,
           cc_timer_fired(c).aborted = None
    PROVE  HostOK(cc_timer_fired(c), P)
<1>1. Shape(c) /\ SenderOK(c, P) BY DEF HostOK
<1>2. PICK b : b = [c EXCEPT !.ccc.probe_timer = TRUE] OBVIOUS
<1>3. /\ Shape(b) /\ SameCalls(c, b) /\ SameState(c, b) /\ SameReceive(c, b) /\ b.rc = c.rc
      /\ b.send_buffer = c.send_buffer /\ b.saved_send = c.saved_send /\ b.accepted = c.accepted
      /\ b.queue = c.queue /\ b.ccc.probe_timer = TRUE
      /\ b.ccc.snd_una = c.ccc.snd_una /\ b.ccc.snd_nxt = c.ccc.snd_nxt /\ b.ccc.snd_max = c.ccc.snd_max
      /\ b.ccc.cwnd = c.ccc.cwnd /\ b.ccc.snd_wnd = c.ccc.snd_wnd /\ b.ccc.state = c.ccc.state
  BY <1>1, <1>2 DEF Shape, SameCalls, SameState, SameReceive
<1>4. Window(b) BY <1>1, <1>3 DEF SenderOK, Window
<1>5. Counters(b) BY <1>1, <1>3 DEF SenderOK, Counters, BufferEnd, FinBuffered, SameState
<1>6. Bytes(b, P) /\ Calls(b, P) BY <1>1, <1>3 DEF SenderOK, Bytes, Calls, SameCalls, SameState
<1>7. Sending(c, P, c.rc.snd_nxt) /\ ~SynQueued(c.queue) BY <1>1, QuietFacts
<1>8. Sending(b, P, c.rc.snd_nxt) BY <1>3, <1>7 DEF Sending, BufferEnd, FinBuffered, SameState
<1>9. SenderOK(b, P) BY <1>1, <1>3, <1>4, <1>5, <1>6, <1>8 DEF SenderOK, SameCalls, SameState
<1>10. HostOK(b, P) BY <1>3, <1>9, SenderHost
<1>11. get_send_data_length(b, TRUE) > 0
  <2>1. SUFFICES ASSUME ~(get_send_data_length(b, TRUE) > 0) PROVE FALSE OBVIOUS
  <2>2. PICK r : r = Abort(b, "send_data_length") OBVIOUS
  <2>3. Shape(r) /\ r.aborted # None
    <3>1. "send_data_length" # None BY DEF None
    <3> QED BY <1>3, <2>2, <3>1 DEF Abort, Shape
  <2>4. r = Require(b, get_send_data_length(b, TRUE) > 0, "send_data_length") BY <2>1, <2>2 DEF Require
  <2>5. send_one_packet(b, TRUE).aborted = r.aborted BY <2>3, <2>4 DEF send_one_packet, enqueue_send, Shape
  <2> QED BY <1>2, <2>3, <2>5 DEF cc_timer_fired
<1>12. PICK t : t = send_one_packet(b, TRUE) OBVIOUS
<1>13. SameButSent(b, t) /\ SenderOK(t, P)
  <2>1. TRUE \in BOOLEAN /\ (TRUE => b.ccc.probe_timer) /\ ~SynQueued(b.queue) BY <1>3, <1>7
  <2> QED BY <1>3, <1>8, <1>9, <1>11, <1>12, <2>1, SendOnePacket
<1>14. HostOK(t, P) BY <1>10, <1>13, SenderHost DEF SameButSent
<1> QED BY <1>2, <1>12, <1>14 DEF cc_timer_fired

\* Counting a duplicate acknowledgement leaves the sender alone.
LEMMA CountDuplicateBeside ==
    ASSUME NEW c, Formed(c), NEW p
    PROVE  LET b == CountDuplicate(c, p) IN
           /\ Beside(c, b) /\ b.queue = c.queue /\ SameState(c, b)
           /\ b.rc.duplicates = 3 => c.rc.duplicate_ack_number = p.ackno /\ c.rc.duplicates + 1 >= 3
<1>1. Shape(c) /\ ReceiverOK(c) BY DEF Formed
<1>2. PICK k \in Int : k = c.rc.duplicates BY <1>1 DEF ReceiverOK
<1>3. PICK b : b = CountDuplicate(c, p) OBVIOUS
<1>4. CASE c.rc.duplicate_ack_number = p.ackno
  <2>1. b = [c EXCEPT !.rc.duplicates = Lesser(k + 1, 4)] BY <1>1, <1>2, <1>3, <1>4 DEF CountDuplicate, Shape
  <2>2. ReceiverOnly(c, b) BY <1>1, <2>1 DEF Shape, ReceiverOnly, SameSend, SameCalls, SameState, AbortKept
  <2>3. b.rc.duplicates = Lesser(k + 1, 4) /\ b.rc.duplicates \in Int BY <1>1, <1>2, <2>1 DEF Shape, Lesser
  <2>4. /\ b.rc.rcv_nxt = c.rc.rcv_nxt /\ b.rc.rcv_wnd = c.rc.rcv_wnd
        /\ b.rc.receive_index = c.rc.receive_index /\ b.rc.receive_window = c.rc.receive_window
        /\ b.rc.receive_event = c.rc.receive_event
        /\ b.receive_buffer = c.receive_buffer
        /\ b.saved_fin = c.saved_fin /\ b.redispatched = c.redispatched
        /\ SameState(c, b)
    BY <1>1, <2>1 DEF Shape, SameState
  <2>5. ReceiverOK(b) BY <1>1, <2>3, <2>4 DEF ReceiverOK, SameState
  <2>6. b.rc.duplicates = 3 => k + 1 >= 3 BY <2>3 DEF Lesser
  <2> QED BY <1>2, <1>3, <1>4, <2>2, <2>4, <2>5, <2>6, ReceiverBeside DEF ReceiverOnly
<1>5. CASE c.rc.duplicate_ack_number # p.ackno
  <2>1. b = [c EXCEPT !.rc.duplicate_ack_number = p.ackno, !.rc.duplicates = 0]
    BY <1>3, <1>5 DEF CountDuplicate
  <2>2. ReceiverOnly(c, b) BY <1>1, <2>1 DEF Shape, ReceiverOnly, SameSend, SameCalls, SameState, AbortKept
  <2>3. b.rc.duplicates = 0 BY <1>1, <2>1 DEF Shape
  <2>4. /\ b.rc.rcv_nxt = c.rc.rcv_nxt /\ b.rc.rcv_wnd = c.rc.rcv_wnd
        /\ b.rc.receive_index = c.rc.receive_index /\ b.rc.receive_window = c.rc.receive_window
        /\ b.rc.receive_event = c.rc.receive_event
        /\ b.receive_buffer = c.receive_buffer
        /\ b.saved_fin = c.saved_fin /\ b.redispatched = c.redispatched
        /\ SameState(c, b)
    BY <1>1, <2>1 DEF Shape, SameState
  <2>5. ReceiverOK(b) BY <1>1, <2>3, <2>4 DEF ReceiverOK, SameState
  <2> QED BY <1>3, <2>2, <2>3, <2>4, <2>5, ReceiverBeside DEF ReceiverOnly
<1> QED BY <1>4, <1>5

\* An acknowledgement of nothing new leaves the sender alone, or is the third
\* duplicate, which congestion control does not see.
LEMMA NothingNew ==
    ASSUME NEW c, NEW P, StreamsFit, StreamFits(P), HostOK(c, P), c.queue = <<>>, NEW p \in Packets,
           ~(p.ack /\ between_equal_right(c.rc.snd_una, p.ackno, c.rc.snd_max))
    PROVE  LET d == rc_receive_packet(c, p) IN
           \/ Beside(c, d)
           \/ HostOK(d, P) /\ is_duplicate_ack(c, p)
<1>1. Shape(c) /\ SenderOK(c, P) /\ ReceiverOK(c) /\ Formed(c) BY HostFormed DEF HostOK
<1>2. p.ack \in BOOLEAN BY DEF Packets
<1>3. CASE AcksUnsent(c, p)
  <2>1. rc_receive_packet(c, p) = create_and_dispatch_ack(c) BY <1>3 DEF rc_receive_packet
  <2> QED BY <1>1, <2>1, AckBeside
<1>4. ASSUME ~AcksUnsent(c, p), NEW b, b = handle_ack(c, p), Beside(c, b)
      PROVE  Beside(c, rc_receive_packet(c, p))
  <2>1. rc_receive_packet(c, p) = handle_control_bits_and_data(b, p) BY <1>4 DEF rc_receive_packet
  <2>2. Formed(b) BY <1>4, BesideQueue
  <2>3. Beside(b, handle_control_bits_and_data(b, p)) BY <2>2, ControlBitsAndData
  <2> QED BY <1>4, <2>1, <2>3, BesideTrans
<1>5. CASE ~AcksUnsent(c, p) /\ ~p.ack
  <2>1. handle_ack(c, p) = c BY <1>5 DEF handle_ack
  <2>2. Beside(c, c) BY <1>1, BesideRefl
  <2> QED BY <1>4, <1>5, <2>1, <2>2
<1>6. CASE ~AcksUnsent(c, p) /\ p.ack /\ ~between_equal_left(p.ackno, c.rc.snd_una, c.rc.snd_nxt)
  <2>1. handle_ack(c, p) = c BY <1>6 DEF handle_ack
  <2>2. Beside(c, c) BY <1>1, BesideRefl
  <2> QED BY <1>4, <1>6, <2>1, <2>2
<1>7. CASE ~AcksUnsent(c, p) /\ p.ack /\ between_equal_left(p.ackno, c.rc.snd_una, c.rc.snd_nxt)
  <2>1. PICK b : b = CountDuplicate(c, p) OBVIOUS
  <2>2. /\ Beside(c, b) /\ b.queue = c.queue /\ SameState(c, b)
        /\ b.rc.duplicates = 3 => c.rc.duplicate_ack_number = p.ackno /\ c.rc.duplicates + 1 >= 3
    BY <1>1, <2>1, CountDuplicateBeside
  <2>3. handle_ack(c, p) = handle_duplicate_ack(c, p) BY <1>7 DEF handle_ack
  <2>4. CASE b.rc.duplicates # 3
    <3>1. handle_duplicate_ack(c, p) = b BY <2>1, <2>4 DEF handle_duplicate_ack
    <3> QED BY <1>4, <1>7, <2>2, <2>3, <3>1
  <2>5. CASE b.rc.duplicates = 3
    <3>1. is_duplicate_ack(c, p) BY <1>7, <2>2, <2>5 DEF is_duplicate_ack
    <3>2. PICK t : t = resend_data(b) OBVIOUS
    <3>3. handle_duplicate_ack(c, p) = t BY <2>1, <2>5, <3>2 DEF handle_duplicate_ack
    <3>4. PICK u \in Nat : u = c.rc.snd_una BY <1>1 DEF SenderOK, Counters
    <3>5. PICK n \in Nat : n = c.rc.snd_nxt BY <1>1 DEF SenderOK, Counters
    <3>6. PICK m \in Nat : m = c.rc.snd_max BY <1>1 DEF SenderOK, Counters
    <3>7. PICK end \in Nat : end = BufferEnd(c) /\ end + 1 <= IntMax BY <1>1, SenderRange
    <3>8. u <= n /\ n <= m /\ m <= end BY <1>1, <3>4, <3>5, <3>6, <3>7 DEF SenderOK, Counters
    <3>9. IntMax \in Nat BY Constants
    <3>10. u # n
      <4>1. less_than(u, n) BY <1>7, <3>4, <3>5 DEF between_equal_left
      <4> QED BY <3>4, <3>5, <4>1, <3>9 DEF less_than
    <3>11. Shape(b) /\ ReceiverOK(b) /\ SameSend(c, b) /\ SameCalls(c, b) BY <2>2 DEF Beside
    <3>12. /\ b.rc.snd_una \in Nat /\ b.rc.snd_max \in Nat
           /\ b.rc.snd_una <= b.rc.snd_max /\ b.rc.snd_max <= IntMax
      BY <3>4, <3>6, <3>7, <3>8, <3>9, <3>11 DEF SameSend
    <3>13. /\ Shape(t) /\ SameCalls(b, t) /\ SameState(b, t) /\ SameReceive(b, t) /\ t.ccc = b.ccc
           /\ t.send_buffer = b.send_buffer /\ t.saved_send = b.saved_send /\ t.accepted = b.accepted
           /\ t.rc.initialized = b.rc.initialized /\ t.rc.timer = b.rc.timer
           /\ t.rc.snd_una = b.rc.snd_una /\ t.rc.snd_nxt = b.rc.snd_una /\ t.rc.snd_max = b.rc.snd_max
           /\ t.queue = Append(b.queue, [event |-> "resend_packet", p |-> NakedSegment])
      BY <3>2, <3>11, <3>12, ResendData
    <3>14. ReceiverOK(t) BY <3>11, <3>13, ReceiverSame
    <3>15. c.rc.timer \in BOOLEAN BY <1>1 DEF SenderOK
    <3>16. ResendQueued(c, t)
      BY <2>2, <3>11, <3>13, <3>14, <3>15 DEF ResendQueued, SameCalls, SameState, SameSend
    <3>17. HostOK(t, P) BY <3>4, <3>5, <3>10, <3>16, ResendQueuedHost
    <3>18. rc_receive_packet(c, p) = handle_control_bits_and_data(t, p)
      BY <1>7, <2>3, <3>3 DEF rc_receive_packet
    <3>19. Beside(t, handle_control_bits_and_data(t, p)) BY <3>17, HostFormed, ControlBitsAndData
    <3> QED BY <3>1, <3>17, <3>18, <3>19, BesideHost
  <2> QED BY <2>4, <2>5
<1> QED BY <1>2, <1>3, <1>5, <1>6, <1>7

-------------------------------------------------------------------------------
\* An acknowledgement of something new.

\* What the buffer holds when its first j bytes are taken away.
LEMMA HoldsRest ==
    ASSUME NEW B \in Seq(Nat), NEW P, NEW a, NEW o \in Nat, HoldsFrom(B, P, a, o),
           NEW j \in Nat, j <= Len(B)
    PROVE  LET R == SubSeq(B, j + 1, Len(B)) IN
           R \in Seq(Nat) /\ Len(R) = Len(B) - j /\ HoldsFrom(R, P, a, o + j)
<1>1. PICK k \in Nat : k = Len(B) OBVIOUS
<1>2. PICK R : R = SubSeq(B, j + 1, k) OBVIOUS
<1>3. \A i \in (j + 1) .. k : B[i] \in Nat BY <1>1
<1>4. /\ R \in Seq(Nat) /\ Len(R) = (IF j + 1 <= k THEN k - (j + 1) + 1 ELSE 0)
      /\ \A i \in 1 .. (k - (j + 1) + 1) : R[i] = B[(j + 1) + i - 1]
  BY <1>2, <1>3, SubSeqProperties
<1>5. Len(R) = k - j BY <1>1, <1>4
<1>6. ASSUME NEW i \in 1 .. Len(R) PROVE R[i] = StreamByte(P, a, (o + j) + (i - 1))
  <2>1. i \in 1 .. (k - (j + 1) + 1) /\ (j + 1) + i - 1 = j + i /\ j + i \in 1 .. k BY <1>1, <1>5
  <2>2. R[i] = B[j + i] BY <1>4, <2>1
  <2>3. B[j + i] = StreamByte(P, a, o + ((j + i) - 1)) BY <1>1, <2>1 DEF HoldsFrom
  <2>4. o + ((j + i) - 1) = (o + j) + (i - 1) OBVIOUS
  <2> QED BY <2>2, <2>3, <2>4
<1> QED BY <1>1, <1>2, <1>4, <1>5, <1>6 DEF HoldsFrom

\* Congestion control after it has moved its SND.UNA, its window as yet unchecked.
Advanced(ccc, p) == [AdvanceUna(ccc, p) EXCEPT !.probe_timer = TRUE]

\* Both contexts move SND.UNA, and with it SND.NXT when it lies behind.
LEMMA Moves ==
    ASSUME NEW x, {"snd_una", "snd_nxt", "snd_max"} \subseteq DOMAIN x,
           NEW A \in Nat, NEW n \in Nat, n = x.snd_nxt, NEW m \in Nat, m = x.snd_max,
           A <= m, n <= m, m <= IntMax
    PROVE  LET advanced == [x EXCEPT !.snd_una = A]
               y == IF less_than(advanced.snd_nxt, A) THEN set_snd_nxt(advanced, A) ELSE advanced
           IN /\ DOMAIN y = DOMAIN x /\ y.snd_una = A /\ y.snd_nxt = Greater(n, A) /\ y.snd_max = m
              /\ \A f \in DOMAIN x \ {"snd_una", "snd_nxt", "snd_max"} : y[f] = x[f]
<1>1. IntMax \in Nat /\ A <= IntMax /\ n <= IntMax BY IntMaxAssumption
<1>2. PICK z : z = [x EXCEPT !.snd_una = A] OBVIOUS
<1>3. /\ DOMAIN z = DOMAIN x /\ z.snd_una = A /\ z.snd_nxt = n /\ z.snd_max = m
      /\ \A f \in DOMAIN x \ {"snd_una"} : z[f] = x[f]
  BY <1>2
<1>4. less_than(n, A) <=> n < A BY <1>1, SmallLess
<1>5. CASE n < A
  <2>1. PICK y : y = set_snd_nxt(z, A) OBVIOUS
  <2>2. ~less_than(m, A)
    <3>1. less_than(m, A) <=> m < A BY <1>1, SmallLess
    <3> QED BY <3>1
  <2>3. y = [z EXCEPT !.snd_nxt = A, !.snd_max = m] BY <1>3, <2>1, <2>2 DEF set_snd_nxt
  <2>4. /\ DOMAIN y = DOMAIN x /\ y.snd_una = A /\ y.snd_nxt = A /\ y.snd_max = m
        /\ \A f \in DOMAIN x \ {"snd_una", "snd_nxt", "snd_max"} : y[f] = x[f]
    BY <1>3, <2>3
  <2>5. Greater(n, A) = A BY <1>5 DEF Greater
  <2> QED BY <1>2, <1>3, <1>4, <1>5, <2>1, <2>4, <2>5
<1>6. CASE ~(n < A)
  <2>1. Greater(n, A) = n BY <1>6 DEF Greater
  <2> QED BY <1>2, <1>3, <1>4, <1>6, <2>1
<1> QED BY <1>5, <1>6

\* d is c after the reliability context has taken an acknowledgement of A.
AckTaken(c, d, A) ==
    /\ Shape(d) /\ SameCalls(c, d) /\ SameState(c, d) /\ SameReceive(c, d) /\ d.aborted = c.aborted
    /\ d.ccc = c.ccc /\ d.saved_send = c.saved_send /\ d.accepted = c.accepted
    /\ d.rc.initialized = c.rc.initialized
    /\ d.rc.snd_una = A /\ d.rc.snd_nxt = Greater(c.rc.snd_nxt, A) /\ d.rc.snd_max = c.rc.snd_max
    /\ d.rc.timer = (d.rc.snd_nxt # A)
    /\ d.send_buffer = SubSeq(c.send_buffer, (A - c.rc.snd_una) + 1, Len(c.send_buffer))
    /\ d.queue = Append(c.queue, [event |-> "send_buffer_not_full", p |-> NakedSegment])

\* A valid acknowledgement raises SND.UNA and drops what it covers from the buffer.
LEMMA ValidAckTaken ==
    ASSUME NEW c, NEW p, Shape(c), NEW A \in Nat, A = p.ackno, NEW u \in Nat, u = c.rc.snd_una,
           NEW n \in Nat, n = c.rc.snd_nxt, NEW m \in Nat, m = c.rc.snd_max,
           u <= A, A <= m, n <= m, m <= IntMax
    PROVE  AckTaken(c, handle_valid_ack(c, p), A)
<1>1. PICK advanced : advanced = [c.rc EXCEPT !.snd_una = A] OBVIOUS
<1>2. PICK y : y = IF less_than(advanced.snd_nxt, A) THEN set_snd_nxt(advanced, A) ELSE advanced OBVIOUS
<1>3. {"snd_una", "snd_nxt", "snd_max"} \subseteq DOMAIN c.rc BY DEF Shape
<1>4. /\ DOMAIN y = DOMAIN c.rc /\ y.snd_una = A /\ y.snd_nxt = Greater(n, A) /\ y.snd_max = m
      /\ \A f \in DOMAIN c.rc \ {"snd_una", "snd_nxt", "snd_max"} : y[f] = c.rc[f]
  BY <1>1, <1>2, <1>3, Moves
<1>5. /\ y.initialized = c.rc.initialized /\ y.rcv_nxt = c.rc.rcv_nxt /\ y.rcv_wnd = c.rc.rcv_wnd
      /\ y.receive_index = c.rc.receive_index /\ y.receive_window = c.rc.receive_window
      /\ y.receive_event = c.rc.receive_event /\ y.duplicates = c.rc.duplicates
  BY <1>4 DEF Shape
<1>6. Minus(A, u) = A - u
  <2>1. IntMax \in Nat BY IntMaxAssumption
  <2>2. A <= IntMax BY <2>1
  <2> QED BY <2>2, SmallMinus
<1>7. PICK B : B = SubSeq(c.send_buffer, (A - u) + 1, Len(c.send_buffer)) OBVIOUS
<1>8. PICK b : b = enqueue([c EXCEPT !.rc = y, !.send_buffer = B], "send_buffer_not_full") OBVIOUS
<1>9. /\ DOMAIN b = DOMAIN c /\ b.rc = y /\ b.ccc = c.ccc /\ b.send_buffer = B
      /\ SameCalls(c, b) /\ SameState(c, b) /\ b.receive_buffer = c.receive_buffer
      /\ b.saved_fin = c.saved_fin /\ b.redispatched = c.redispatched
      /\ b.saved_send = c.saved_send /\ b.accepted = c.accepted
      /\ b.queue = Append(c.queue, [event |-> "send_buffer_not_full", p |-> NakedSegment])
      /\ b.aborted = c.aborted
  BY <1>8 DEF enqueue, Shape, SameCalls, SameState
<1>10. PICK d : d = handle_valid_ack(c, p) OBVIOUS
<1>11. d = IF y.snd_nxt = y.snd_una THEN cancel_timer(b) ELSE reset_timer(b)
  BY <1>1, <1>2, <1>6, <1>7, <1>8, <1>10 DEF handle_valid_ack, Shape
<1>12. PICK v \in BOOLEAN : v = (y.snd_nxt # A) OBVIOUS
<1>13. d = [b EXCEPT !.rc.timer = v]
  <2>1. CASE y.snd_nxt = y.snd_una
    <3>1. v = FALSE BY <1>4, <1>12, <2>1
    <3> QED BY <1>11, <2>1, <3>1 DEF cancel_timer
  <2>2. CASE y.snd_nxt # y.snd_una
    <3>1. v = TRUE BY <1>4, <1>12, <2>2
    <3>2. [[b EXCEPT !.rc.timer = FALSE] EXCEPT !.rc.timer = TRUE] = [b EXCEPT !.rc.timer = TRUE]
      BY <1>4, <1>9 DEF Shape
    <3> QED BY <1>11, <2>2, <3>1, <3>2 DEF cancel_timer, reset_timer, start_timer
  <2> QED BY <2>1, <2>2
<1>14. /\ DOMAIN d = DOMAIN b /\ DOMAIN d.rc = DOMAIN y /\ d.ccc = b.ccc /\ d.send_buffer = b.send_buffer
       /\ SameCalls(b, d) /\ SameState(b, d) /\ d.receive_buffer = b.receive_buffer
       /\ d.saved_fin = b.saved_fin /\ d.redispatched = b.redispatched
       /\ d.saved_send = b.saved_send /\ d.accepted = b.accepted /\ d.queue = b.queue
       /\ d.aborted = b.aborted
  BY <1>9, <1>13 DEF Shape, SameCalls, SameState
<1>15. /\ d.rc.timer = v /\ d.rc.snd_una = y.snd_una /\ d.rc.snd_nxt = y.snd_nxt /\ d.rc.snd_max = y.snd_max
       /\ d.rc.initialized = y.initialized /\ d.rc.rcv_nxt = y.rcv_nxt /\ d.rc.rcv_wnd = y.rcv_wnd
       /\ d.rc.receive_index = y.receive_index /\ d.rc.receive_window = y.receive_window
       /\ d.rc.receive_event = y.receive_event /\ d.rc.duplicates = y.duplicates
  BY <1>4, <1>9, <1>13 DEF Shape
<1>16. Shape(d) BY <1>4, <1>9, <1>14 DEF Shape
<1>17. SameReceive(c, d) BY <1>5, <1>9, <1>14, <1>15 DEF SameReceive
<1>18. SameCalls(c, d) /\ SameState(c, d) BY <1>9, <1>14 DEF SameCalls, SameState
<1> QED BY <1>4, <1>5, <1>7, <1>9, <1>10, <1>12, <1>14, <1>15, <1>16, <1>17, <1>18 DEF AckTaken

\* d after congestion control, which stood as in c, has taken p.
BothMoved(c, d, p) == [d EXCEPT !.ccc = Advanced(c.ccc, p)]

\* Both contexts have moved to A.
LEMMA AckTakenHost ==
    ASSUME NEW c, NEW P, StreamsFit, StreamFits(P), HostOK(c, P), c.queue = <<>>,
           NEW A \in Nat, c.rc.snd_una < A, A <= c.rc.snd_max, NEW d, AckTaken(c, d, A),
           NEW p, p.ackno = A, NEW b, b = BothMoved(c, d, p)
    PROVE  /\ HostOK(b, P) /\ (\E e : Sending(b, P, e)) /\ ~SynQueued(b.queue)
           /\ b.ccc = Advanced(c.ccc, p)
<1>1. Shape(c) /\ SenderOK(c, P) /\ ReceiverOK(c) BY DEF HostOK
<1>2. Counters(c) /\ Bytes(c, P) /\ Window(c) /\ Calls(c, P) BY <1>1 DEF SenderOK
<1>3. Sending(c, P, c.rc.snd_nxt) BY <1>1, QuietFacts
<1>4. PICK u \in Nat : u = c.rc.snd_una BY <1>2 DEF Counters
<1>5. PICK n \in Nat : n = c.rc.snd_nxt BY <1>2 DEF Counters
<1>6. PICK m \in Nat : m = c.rc.snd_max BY <1>2 DEF Counters
<1>7. PICK cn \in Nat : cn = c.ccc.snd_nxt BY <1>2 DEF Counters
<1>8. PICK cm \in Nat : cm = c.ccc.snd_max BY <1>2 DEF Counters
<1>9. PICK end \in Nat : end = BufferEnd(c) /\ end + 1 <= IntMax BY <1>1, SenderRange
<1>10. PICK k \in Nat : k = Len(c.send_buffer) /\ end = u + k BY <1>1, <1>4, <1>9, SenderRange DEF BufferEnd
<1>11. PICK a \in Nat : a = c.accepted /\ a <= Len(P) BY <1>2 DEF Bytes
<1>12. IntMax \in Nat /\ Iss \in Nat /\ MaxSendBuffer \in Nat BY Constants
<1>13. /\ Iss <= u /\ u <= n /\ n <= m /\ m <= end
       /\ Iss + 1 <= cn /\ cn <= cm /\ cm <= end + 1 /\ m <= cm /\ u < A /\ A <= m
  BY <1>2, <1>4, <1>5, <1>6, <1>7, <1>8, <1>9 DEF Counters
<1>14. /\ Shape(d) /\ SameCalls(c, d) /\ SameState(c, d) /\ SameReceive(c, d)
       /\ d.saved_send = c.saved_send /\ d.accepted = c.accepted
       /\ d.rc.initialized = c.rc.initialized
       /\ d.rc.snd_una = A /\ d.rc.snd_nxt = Greater(n, A) /\ d.rc.snd_max = m
       /\ d.rc.timer = (d.rc.snd_nxt # A)
       /\ d.send_buffer = SubSeq(c.send_buffer, (A - u) + 1, k)
       /\ d.queue = Append(<<>>, [event |-> "send_buffer_not_full", p |-> NakedSegment])
  BY <1>4, <1>5, <1>6, <1>10 DEF AckTaken
<1>15. PICK X : X = Advanced(c.ccc, p) OBVIOUS
<1>16. /\ DOMAIN X = DOMAIN c.ccc /\ X.snd_una = A /\ X.snd_nxt = Greater(cn, A) /\ X.snd_max = cm
       /\ X.cwnd = c.ccc.cwnd /\ X.snd_wnd = c.ccc.snd_wnd /\ X.state = c.ccc.state
       /\ X.probe_timer = TRUE
  <2>1. PICK y : y = AdvanceUna(c.ccc, p) OBVIOUS
  <2>2. {"snd_una", "snd_nxt", "snd_max"} \subseteq DOMAIN c.ccc BY <1>1 DEF Shape
  <2>3. A <= cm /\ cm <= IntMax BY <1>9, <1>12, <1>13
  <2>4. /\ DOMAIN y = DOMAIN c.ccc /\ y.snd_una = A /\ y.snd_nxt = Greater(cn, A) /\ y.snd_max = cm
        /\ \A f \in DOMAIN c.ccc \ {"snd_una", "snd_nxt", "snd_max"} : y[f] = c.ccc[f]
    BY <1>7, <1>8, <1>13, <2>1, <2>2, <2>3, Moves, SMTT(20) DEF AdvanceUna
  <2>5. y.cwnd = c.ccc.cwnd /\ y.snd_wnd = c.ccc.snd_wnd /\ y.state = c.ccc.state BY <1>1, <2>4 DEF Shape
  <2>6. X = [y EXCEPT !.probe_timer = TRUE] BY <1>15, <2>1 DEF Advanced
  <2> QED BY <1>1, <2>4, <2>5, <2>6 DEF Shape
<1>17. /\ Shape(b) /\ SameCalls(d, b) /\ SameState(d, b) /\ SameReceive(d, b) /\ b.rc = d.rc /\ b.ccc = X
       /\ b.send_buffer = d.send_buffer /\ b.saved_send = d.saved_send /\ b.accepted = d.accepted
       /\ b.queue = d.queue
  BY <1>1, <1>14, <1>15, <1>16 DEF BothMoved, Shape, SameCalls, SameState, SameReceive
<1>18. PICK n1 \in Nat : n1 = Greater(n, A) /\ A <= n1 /\ n1 <= m /\ (n1 = n \/ (n < A /\ n1 = A))
  <2>1. CASE n < A BY <1>13, <2>1 DEF Greater
  <2>2. CASE ~(n < A) BY <1>13, <2>2 DEF Greater
  <2> QED BY <2>1, <2>2
<1>19. PICK cn1 \in Nat : cn1 = Greater(cn, A) /\ A <= cn1 /\ cn <= cn1 /\ cn1 <= cm
  <2>1. CASE cn < A BY <1>13, <2>1 DEF Greater
  <2>2. CASE ~(cn < A) BY <1>13, <2>2 DEF Greater
  <2> QED BY <2>1, <2>2
<1>20. PICK j \in Nat : j = A - u /\ j >= 1 /\ j <= k
  <2>1. u < A /\ A <= u + k BY <1>10, <1>13
  <2>2. A - u \in Nat /\ A - u >= 1 /\ A - u <= k BY <1>10, <2>1
  <2> QED BY <2>2
<1>21. c.send_buffer \in Seq(Nat) /\ HoldsFrom(c.send_buffer, P, a, u - Iss) /\ k <= MaxSendBuffer
  BY <1>2, <1>4, <1>10, <1>11 DEF Bytes
<1>22. /\ b.send_buffer \in Seq(Nat) /\ Len(b.send_buffer) = k - j
       /\ HoldsFrom(b.send_buffer, P, a, A - Iss)
  <2>1. PICK o \in Nat : o = u - Iss BY <1>12, <1>13
  <2>2. HoldsFrom(c.send_buffer, P, a, o) /\ j <= Len(c.send_buffer) BY <1>10, <1>20, <1>21, <2>1
  <2>3. b.send_buffer = SubSeq(c.send_buffer, j + 1, Len(c.send_buffer)) BY <1>10, <1>14, <1>17, <1>20
  <2>4. /\ b.send_buffer \in Seq(Nat) /\ Len(b.send_buffer) = Len(c.send_buffer) - j
        /\ HoldsFrom(b.send_buffer, P, a, o + j)
    <3>1. PICK B \in Seq(Nat) : B = c.send_buffer BY <1>21
    <3>2. HoldsFrom(B, P, a, o) /\ j <= Len(B) BY <2>2, <3>1
    <3>3. /\ SubSeq(B, j + 1, Len(B)) \in Seq(Nat) /\ Len(SubSeq(B, j + 1, Len(B))) = Len(B) - j
          /\ HoldsFrom(SubSeq(B, j + 1, Len(B)), P, a, o + j)
      BY <3>2, HoldsRest
    <3> QED BY <2>3, <3>1, <3>3
  <2>5. o + j = A - Iss BY <1>12, <1>20, <2>1
  <2> QED BY <1>10, <2>4, <2>5
<1>23. BufferEnd(b) = end
  <2>1. A + (k - j) = u + k BY <1>20
  <2> QED BY <1>10, <1>14, <1>17, <1>22, <2>1 DEF BufferEnd
<1>24. FinBuffered(b) <=> FinBuffered(c) BY <1>9, <1>14, <1>17, <1>23 DEF FinBuffered
<1>25. (b.state \in Ending) = (c.state \in Ending) /\ b.state = c.state BY <1>14, <1>17 DEF SameState
<1>26. Counters(b)
  <2>1. b.rc.snd_una = A /\ b.rc.snd_nxt = n1 /\ b.rc.snd_max = m BY <1>14, <1>17, <1>18
  <2>2. b.ccc.snd_una = A /\ b.ccc.snd_nxt = cn1 /\ b.ccc.snd_max = cm BY <1>16, <1>17, <1>19
  <2>3. Iss <= A /\ A <= n1 /\ n1 <= m /\ m <= end /\ Iss + 1 <= cn1 /\ cn1 <= cm /\ cm <= end + 1 /\ m <= cm
    BY <1>12, <1>13, <1>18, <1>19
  <2>4. \/ BufferEnd(b) = Iss + b.accepted + 1
        \/ FinBuffered(b) /\ b.state \in Ending /\ Len(b.send_buffer) <= 1
    <3>1. \/ end = Iss + c.accepted + 1
          \/ FinBuffered(c) /\ c.state \in Ending /\ k <= 1
      BY <1>2, <1>9, <1>10 DEF Counters
    <3>2. k <= 1 => Len(b.send_buffer) <= 1 BY <1>20, <1>22
    <3> QED BY <1>14, <1>17, <1>23, <1>24, <1>25, <3>1, <3>2
  <2> QED BY <1>23, <2>1, <2>2, <2>3, <2>4 DEF Counters
<1>27. Bytes(b, P)
  <2>1. k - j <= MaxSendBuffer BY <1>12, <1>20, <1>21
  <2> QED BY <1>11, <1>14, <1>17, <1>22, <2>1 DEF Bytes
<1>28. Calls(b, P) BY <1>2, <1>14, <1>17 DEF Calls, SameCalls, SameState
<1>29. Window(b) BY <1>2, <1>16, <1>17 DEF Window
<1>30. PICK x : x = [event |-> "send_buffer_not_full", p |-> NakedSegment] OBVIOUS
<1>31. x \in Events /\ x.event = "send_buffer_not_full" /\ EventLength(x) = 0
  BY <1>30, NakedIsSegment DEF Events, ProtocolEvents, EventLength
<1>32. b.queue = Append(<<>>, x) BY <1>14, <1>17, <1>30
<1>33. Numbered(b.queue, n1, n1, P, a, c.state \in Ending)
  <2>1. Numbered(<<>>, n1, n1, P, a, c.state \in Ending) BY NumberedEmpty
  <2>2. FitsAt(x, n1, P, a, c.state \in Ending) BY <1>31 DEF FitsAt
  <2>3. Numbered(Append(<<>>, x), n1, n1 + EventLength(x), P, a, c.state \in Ending) BY <2>1, <2>2, NumberedAppend
  <2>4. n1 + EventLength(x) = n1 BY <1>31
  <2> QED BY <1>32, <2>3, <2>4
<1>34. ~SynQueued(b.queue)
  <2>1. ~SynQueued(<<>>) /\ <<>> \in Seq(Events) BY DEF SynQueued
  <2> QED BY <1>31, <1>32, <2>1, AppendSyn
<1>35. Sending(b, P, n1)
  <2>1. b.rc.snd_nxt = n1 /\ b.accepted = a BY <1>11, <1>14, <1>17, <1>18
  <2>2. Numbered(b.queue, b.rc.snd_nxt, n1, P, b.accepted, b.state \in Ending) BY <1>25, <1>33, <2>1
  <2>3. b.state \notin Ending => b.ccc.snd_nxt = n1 /\ n1 <= BufferEnd(b)
    <3>1. c.state \notin Ending => cn = n BY <1>3, <1>5, <1>7 DEF Sending
    <3>2. c.state \notin Ending => cn1 = n1 BY <1>18, <1>19, <3>1
    <3>3. n1 <= end BY <1>13, <1>18
    <3> QED BY <1>16, <1>17, <1>19, <1>23, <1>25, <3>2, <3>3
  <2>4. ~(b.state \in Ending /\ ~FinBuffered(b))
    <3>1. c.state \in Ending /\ ~FinBuffered(c) => c.send_buffer = <<>> BY <1>3 DEF Sending
    <3>2. c.send_buffer = <<>> => k = 0 BY <1>10
    <3> QED BY <1>20, <1>24, <1>25, <3>1, <3>2
  <2>5. b.state \in Ending /\ FinBuffered(b) =>
          /\ b.ccc.snd_nxt >= BufferEnd(b) /\ n1 <= BufferEnd(b)
          /\ n1 > b.rc.snd_nxt => b.ccc.snd_nxt = BufferEnd(b)
    <3>1. c.state \in Ending /\ FinBuffered(c) => cn >= end BY <1>3, <1>7, <1>9 DEF Sending
    <3>2. c.state \in Ending /\ FinBuffered(c) => cn1 >= end BY <1>19, <3>1
    <3>3. n1 <= end BY <1>13, <1>18
    <3>4. ~(n1 > n1) OBVIOUS
    <3> QED BY <1>16, <1>17, <1>19, <1>23, <1>24, <1>25, <2>1, <3>2, <3>3, <3>4
  <2>6. ~(b.rc.timer /\ b.rc.snd_nxt = b.rc.snd_una) BY <1>14, <1>17
  <2> QED BY <1>34, <2>2, <2>3, <2>4, <2>5, <2>6 DEF Sending
<1>36. b.queue \in Seq(Events) BY <1>33 DEF Numbered
<1>37. b.rc.timer \in BOOLEAN /\ (b.rc.snd_nxt # b.rc.snd_una => b.rc.timer) BY <1>14, <1>17
<1>38. b.state \in Live /\ b.connection_type # None /\ b.rc.initialized = TRUE
  BY <1>1, <1>14, <1>17, <1>25 DEF SenderOK, SameCalls
<1>39. SenderOK(b, P) BY <1>26, <1>27, <1>28, <1>29, <1>35, <1>36, <1>37, <1>38 DEF SenderOK
<1>40. ReceiverOK(b)
  <2>1. ReceiverOK(d) BY <1>1, <1>14, ReceiverSame
  <2> QED BY <1>17, <2>1, ReceiverSame
<1> QED BY <1>15, <1>17, <1>34, <1>35, <1>39, <1>40 DEF HostOK

-------------------------------------------------------------------------------
\* Congestion control takes a packet.

\* t is b but for the windows of congestion control.
Windowed(b, t) ==
    /\ Shape(t) /\ SameCalls(b, t) /\ SameState(b, t) /\ SameReceive(b, t) /\ t.rc = b.rc
    /\ t.send_buffer = b.send_buffer /\ t.saved_send = b.saved_send /\ t.accepted = b.accepted
    /\ t.queue = b.queue
    /\ t.ccc.snd_una = b.ccc.snd_una /\ t.ccc.snd_nxt = b.ccc.snd_nxt /\ t.ccc.snd_max = b.ccc.snd_max

\* The windows may change as long as what is outstanding fits.
LEMMA WindowedHost ==
    ASSUME NEW b, NEW t, NEW P, NEW e, HostOK(b, P), Sending(b, P, e), Windowed(b, t), Window(t)
    PROVE  HostOK(t, P) /\ Sending(t, P, e)
<1>1. SenderOK(b, P) /\ Counters(b) /\ Bytes(b, P) /\ Calls(b, P) BY DEF HostOK, SenderOK
<1>2. Counters(t) BY <1>1 DEF Windowed, Counters, BufferEnd, FinBuffered, SameState
<1>3. Bytes(t, P) BY <1>1 DEF Windowed, Bytes
<1>4. Calls(t, P) BY <1>1 DEF Windowed, Calls, SameCalls, SameState
<1>5. Sending(t, P, e) BY DEF Windowed, Sending, BufferEnd, FinBuffered, SameState
<1>6. SenderOK(t, P) BY <1>1, <1>2, <1>3, <1>4, <1>5 DEF SenderOK, Windowed, SameCalls, SameState
<1>7. HostOK(t, P) BY <1>6, SenderHost DEF Windowed
<1> QED BY <1>5, <1>7

\* The congestion window only grows by an acknowledgement.
LEMMA SetCwnd ==
    ASSUME NEW x, {"cwnd", "state"} \subseteq DOMAIN x, x.cwnd \in Nat, x.cwnd >= Mss,
           Mss \in Nat, Mss >= 2, x.state \in {"SlowStart", "CongestionAvoidance"}
    PROVE  LET y == set_cwnd(x) IN
           /\ DOMAIN y = DOMAIN x /\ y.cwnd \in Nat /\ y.cwnd >= Mss
           /\ y.state \in {"SlowStart", "CongestionAvoidance"}
           /\ \A f \in DOMAIN x \ {"cwnd", "state"} : y[f] = x[f]
<1>1. PICK w \in Nat : w = x.cwnd /\ w >= Mss OBVIOUS
<1>2. CASE x.state = "SlowStart"
  <2>1. set_cwnd(x) = SlowStart_set_cwnd(x) BY <1>2 DEF set_cwnd
  <2>2. w + Mss \in Nat /\ w + Mss >= Mss BY <1>1
  <2> QED BY <1>1, <1>2, <2>1, <2>2 DEF SlowStart_set_cwnd
<1>3. CASE x.state = "CongestionAvoidance"
  <2>1. set_cwnd(x) = CongestionAvoidance_set_cwnd(x) BY <1>3 DEF set_cwnd
  <2>2. PICK z \in Nat : z = Mss * Mss
    <3>1. Mss * Mss \in Nat OBVIOUS
    <3> QED BY <3>1
  <2>3. z \div w \in Nat
    <3>1. w > 0 BY <1>1
    <3> QED BY <3>1
  <2>4. PICK q \in Nat : q = z \div w BY <2>3
  <2>5. w + q \in Nat /\ w + q >= Mss BY <1>1
  <2>6. set_cwnd(x) = [x EXCEPT !.cwnd = w + q] BY <1>1, <2>1, <2>2, <2>4 DEF CongestionAvoidance_set_cwnd
  <2> QED BY <1>3, <2>5, <2>6
<1> QED BY <1>2, <1>3

\* The window of the packet may replace the send window.
LEMMA SetSendWindow ==
    ASSUME NEW x, {"snd_wnd", "snd_wnd1", "snd_wnd2"} \subseteq DOMAIN x, x.snd_wnd \in Nat, NEW p \in Packets
    PROVE  LET y == UpdateSendWindow(x, p) IN
           /\ DOMAIN y = DOMAIN x /\ y.snd_wnd \in Nat
           /\ \A f \in DOMAIN x \ {"snd_wnd", "snd_wnd1", "snd_wnd2"} : y[f] = x[f]
<1>1. p.wnd \in Nat BY TCPAssumption DEF Packets
<1> QED BY <1>1 DEF UpdateSendWindow

\* c is b but for congestion control, which still has to take an acknowledgement
\* that the rest of b has taken.
LEMMA CcReceiveHost ==
    ASSUME NEW c, NEW b, NEW P, NEW e, StreamsFit, StreamFits(P), NEW p \in Packets,
           HostOK(b, P), Sending(b, P, e), ~SynQueued(b.queue), Shape(c),
           NEW x, x = AdvanceUna(c.ccc, p), DOMAIN x = DOMAIN c.ccc,
           x.cwnd = b.ccc.cwnd, x.snd_wnd = b.ccc.snd_wnd, x.state = b.ccc.state,
           Windowed(b, [c EXCEPT !.ccc = x]),
           p.ack, between_equal(c.ccc.snd_una, p.ackno, c.ccc.snd_max)
    PROVE  HostOK(cc_receive_packet(c, p), P)
<1>1. SenderOK(b, P) /\ Window(b) /\ Shape(b) BY DEF HostOK, SenderOK
<1>2. Mss \in Nat /\ Mss >= 2 BY Constants
<1>3. /\ x.cwnd \in Nat /\ x.cwnd >= Mss /\ x.snd_wnd \in Nat
      /\ x.state \in {"SlowStart", "CongestionAvoidance"}
  BY <1>1 DEF Window
<1>4. PICK y : y = UpdateSendWindow(x, p) OBVIOUS
<1>5. /\ DOMAIN y = DOMAIN c.ccc /\ y.snd_wnd \in Nat /\ y.cwnd = x.cwnd /\ y.state = x.state
      /\ y.snd_una = x.snd_una /\ y.snd_nxt = x.snd_nxt /\ y.snd_max = x.snd_max
  <2>1. {"snd_wnd", "snd_wnd1", "snd_wnd2"} \subseteq DOMAIN x BY DEF Shape
  <2>2. /\ DOMAIN y = DOMAIN x /\ y.snd_wnd \in Nat
        /\ \A f \in DOMAIN x \ {"snd_wnd", "snd_wnd1", "snd_wnd2"} : y[f] = x[f]
    BY <1>3, <1>4, <2>1, SetSendWindow
  <2> QED BY <2>2 DEF Shape
<1>6. PICK g : g = IF between_equal_right(c.ccc.snd_una, p.ackno, c.ccc.snd_max) /\ y.data_sent
                   THEN set_cwnd(y) ELSE y
  OBVIOUS
<1>7. /\ DOMAIN g = DOMAIN c.ccc /\ g.snd_wnd \in Nat /\ g.cwnd \in Nat /\ g.cwnd >= Mss
      /\ g.state \in {"SlowStart", "CongestionAvoidance"}
      /\ g.snd_una = x.snd_una /\ g.snd_nxt = x.snd_nxt /\ g.snd_max = x.snd_max
  <2>1. PICK z : z = set_cwnd(y) OBVIOUS
  <2>2. {"cwnd", "state"} \subseteq DOMAIN y BY <1>5 DEF Shape
  <2>3. y.cwnd \in Nat /\ y.cwnd >= Mss /\ y.state \in {"SlowStart", "CongestionAvoidance"} BY <1>3, <1>5
  <2>4. /\ DOMAIN z = DOMAIN y /\ z.cwnd \in Nat /\ z.cwnd >= Mss
        /\ z.state \in {"SlowStart", "CongestionAvoidance"}
        /\ \A f \in DOMAIN y \ {"cwnd", "state"} : z[f] = y[f]
    BY <1>2, <2>1, <2>2, <2>3, SetCwnd
  <2>5. z.snd_wnd = y.snd_wnd /\ z.snd_una = y.snd_una /\ z.snd_nxt = y.snd_nxt /\ z.snd_max = y.snd_max
    BY <1>5, <2>4 DEF Shape
  <2>6. CASE between_equal_right(c.ccc.snd_una, p.ackno, c.ccc.snd_max) /\ y.data_sent
    <3>1. g = z BY <1>6, <2>1, <2>6
    <3> QED BY <1>5, <2>4, <2>5, <3>1
  <2>7. CASE ~(between_equal_right(c.ccc.snd_una, p.ackno, c.ccc.snd_max) /\ y.data_sent)
    <3>1. g = y BY <1>6, <2>7
    <3> QED BY <1>5, <2>3, <3>1
  <2> QED BY <2>6, <2>7
<1>8. PICK full \in BOOLEAN : full = (get_num_outstanding(g) >= get_max_allowed_to_send(g))
  <2>1. (get_num_outstanding(g) >= get_max_allowed_to_send(g)) \in BOOLEAN OBVIOUS
  <2> QED BY <2>1
<1>9. PICK t : t = [c EXCEPT !.ccc = [g EXCEPT !.probe_timer = full]] OBVIOUS
<1>10. cc_receive_packet(c, p) = IF full THEN t ELSE send_packets(t)
  <2>1. t = [c EXCEPT !.ccc = [g EXCEPT !.probe_timer = get_num_outstanding(g) >= get_max_allowed_to_send(g)]]
    BY <1>8, <1>9
  <2>2. g = IF between_equal_right(c.ccc.snd_una, p.ackno, c.ccc.snd_max)
               /\ UpdateSendWindow(AdvanceUna(c.ccc, p), p).data_sent
            THEN set_cwnd(UpdateSendWindow(AdvanceUna(c.ccc, p), p)) ELSE UpdateSendWindow(AdvanceUna(c.ccc, p), p)
    BY <1>4, <1>6
  <2> QED BY <1>8, <2>1, <2>2, Zenon DEF cc_receive_packet
<1>11. PICK v : v = [c EXCEPT !.ccc = x] OBVIOUS
<1>12. /\ SameCalls(b, v) /\ SameState(b, v) /\ SameReceive(b, v) /\ v.rc = b.rc
       /\ v.send_buffer = b.send_buffer /\ v.saved_send = b.saved_send /\ v.accepted = b.accepted
       /\ v.queue = b.queue
       /\ v.ccc.snd_una = b.ccc.snd_una /\ v.ccc.snd_nxt = b.ccc.snd_nxt /\ v.ccc.snd_max = b.ccc.snd_max
  BY <1>11 DEF Windowed
<1>13. v.ccc = x BY <1>11 DEF Shape
<1>14. /\ Shape(t) /\ SameCalls(v, t) /\ SameState(v, t) /\ SameReceive(v, t) /\ t.rc = v.rc
       /\ t.send_buffer = v.send_buffer /\ t.saved_send = v.saved_send /\ t.accepted = v.accepted
       /\ t.queue = v.queue
       /\ t.ccc.snd_una = x.snd_una /\ t.ccc.snd_nxt = x.snd_nxt /\ t.ccc.snd_max = x.snd_max
       /\ t.ccc.cwnd = g.cwnd /\ t.ccc.snd_wnd = g.snd_wnd /\ t.ccc.state = g.state
       /\ t.ccc.probe_timer = full
  BY <1>7, <1>9, <1>11 DEF Shape, SameCalls, SameState, SameReceive
<1>15. Windowed(b, t) BY <1>12, <1>13, <1>14 DEF Windowed, SameCalls, SameState, SameReceive
<1>16. PICK u \in Nat : u = b.rc.snd_una BY <1>1 DEF SenderOK, Counters
<1>17. PICK cn \in Nat : cn = b.ccc.snd_nxt BY <1>1 DEF SenderOK, Counters
<1>18. get_num_outstanding(g) = cn - u
  <2>1. get_num_outstanding(b.ccc) = cn - u BY <1>1, <1>16, <1>17, SendingOutstanding
  <2>2. g.snd_nxt = b.ccc.snd_nxt /\ g.snd_una = b.ccc.snd_una BY <1>7, <1>12, <1>13
  <2> QED BY <2>1, <2>2 DEF get_num_outstanding
<1>19. PICK w \in Nat : w = g.cwnd BY <1>7
<1>20. PICK a \in Nat : a = get_max_allowed_to_send(g) /\ a <= w BY <1>2, <1>7, <1>19, MaxAllowed
<1>21. Window(t)
  <2>1. full \/ cn <= u + w
    <3>1. full <=> cn - u >= a BY <1>8, <1>18, <1>20
    <3> QED BY <1>20, <3>1
  <2>2. t.ccc.snd_nxt = cn /\ t.rc.snd_una = u BY <1>12, <1>13, <1>14, <1>16, <1>17
  <2> QED BY <1>7, <1>14, <1>19, <2>1, <2>2 DEF Window
<1>22. HostOK(t, P) /\ Sending(t, P, e) BY <1>15, <1>21, WindowedHost
<1>23. CASE full BY <1>10, <1>22, <1>23
<1>24. CASE ~full
  <2>1. Shape(t) /\ SenderOK(t, P) /\ ~SynQueued(t.queue) BY <1>12, <1>14, <1>22 DEF HostOK
  <2>2. AfterRounds(t, send_packets(t), P) BY <1>22, <2>1, SendPackets
  <2>3. HostOK(send_packets(t), P) BY <1>22, <2>2, SenderHost DEF AfterRounds, SameButSent
  <2> QED BY <1>10, <1>24, <2>3
<1> QED BY <1>23, <1>24

-------------------------------------------------------------------------------
\* A packet arrives at a host whose SYN has been numbered.

\* Moving congestion control of both sides alike leaves them beside each other.
LEMMA BesideAdvanced ==
    ASSUME NEW c, NEW d, Beside(c, d), Shape(c), NEW x, DOMAIN x = DOMAIN c.ccc
    PROVE  Beside([c EXCEPT !.ccc = x], [d EXCEPT !.ccc = x])
<1>1. Shape(d) /\ ReceiverOK(d) /\ SameSend(c, d) BY DEF Beside
<1>2. PICK a : a = [c EXCEPT !.ccc = x] OBVIOUS
<1>3. PICK b : b = [d EXCEPT !.ccc = x] OBVIOUS
<1>4. /\ Shape(a) /\ a.ccc = x /\ a.rc = c.rc /\ a.queue = c.queue /\ a.state = c.state /\ a.aborted = c.aborted
      /\ a.send_buffer = c.send_buffer /\ a.saved_send = c.saved_send /\ a.accepted = c.accepted
      /\ SameCalls(c, a)
  BY <1>2 DEF Shape, SameCalls
<1>5. /\ Shape(b) /\ b.ccc = x /\ b.rc = d.rc /\ b.queue = d.queue /\ b.aborted = d.aborted
      /\ b.send_buffer = d.send_buffer /\ b.saved_send = d.saved_send /\ b.accepted = d.accepted
      /\ SameCalls(d, b) /\ SameState(d, b) /\ SameReceive(d, b)
  <2>1. DOMAIN x = DOMAIN d.ccc BY <1>1 DEF SameSend
  <2> QED BY <1>1, <1>3, <2>1 DEF Shape, SameCalls, SameState, SameReceive
<1>6. ReceiverOK(b) BY <1>1, <1>5, ReceiverSame
<1>7. SameSend(a, b) BY <1>1, <1>4, <1>5 DEF SameSend
<1>8. SameCalls(a, b) BY <1>4, <1>5 DEF SameCalls, Beside
<1>9. b.state = d.state BY <1>5 DEF SameState
<1>10. Beside(a, b) BY <1>4, <1>5, <1>6, <1>7, <1>8, <1>9 DEF Beside, AbortKept
<1> QED BY <1>2, <1>3, <1>10

\* The contexts take an acknowledgement of something new, one after the other.
LEMMA NewAckHost ==
    ASSUME NEW c, NEW P, StreamsFit, StreamFits(P), HostOK(c, P), c.queue = <<>>, NEW p \in Packets,
           p.ack, between_equal_right(c.rc.snd_una, p.ackno, c.rc.snd_max), NEW trap
    PROVE  /\ HostOK(cc_receive_packet(cm_receive_packet(rc_receive_packet(c, p), p, trap), p), P)
           /\ ~is_duplicate_ack(c, p)
<1>1. Shape(c) /\ SenderOK(c, P) /\ ReceiverOK(c) /\ Formed(c) BY HostFormed DEF HostOK
<1>2. PICK u \in Nat : u = c.rc.snd_una BY <1>1 DEF SenderOK, Counters
<1>3. PICK n \in Nat : n = c.rc.snd_nxt BY <1>1 DEF SenderOK, Counters
<1>4. PICK m \in Nat : m = c.rc.snd_max BY <1>1 DEF SenderOK, Counters
<1>5. PICK cn \in Nat : cn = c.ccc.snd_nxt BY <1>1 DEF SenderOK, Counters
<1>6. PICK cm \in Nat : cm = c.ccc.snd_max BY <1>1 DEF SenderOK, Counters
<1>7. PICK end \in Nat : end = BufferEnd(c) /\ end + 1 <= IntMax BY <1>1, SenderRange
<1>8. /\ u <= n /\ n <= m /\ m <= end /\ cn <= cm /\ cm <= end + 1 /\ m <= cm /\ c.ccc.snd_una = u
  BY <1>1, <1>2, <1>3, <1>4, <1>5, <1>6, <1>7 DEF SenderOK, Counters
<1>9. IntMax \in Nat BY Constants
<1>10. u <= m /\ m <= IntMax /\ u <= cm /\ cm <= IntMax /\ u <= IntMax /\ n <= IntMax BY <1>7, <1>8, <1>9
<1>11. PICK A \in SeqNum : A = p.ackno BY DEF Packets
<1>12. A \in Nat BY <1>9 DEF SeqNum, Modulus
<1>13. u < A /\ A <= m BY <1>2, <1>4, <1>10, <1>11, AckRange
<1>14. A <= cm /\ A <= IntMax BY <1>8, <1>10, <1>12, <1>13, <1>9
<1>15. ~AcksUnsent(c, p)
  <2>1. ~less_than(m, A) BY <1>10, <1>12, <1>13, <1>14, SmallLess
  <2> QED BY <1>4, <1>11, <2>1 DEF AcksUnsent
<1>16. ~between_equal_left(p.ackno, c.rc.snd_una, c.rc.snd_nxt)
  <2>1. ~less_than(A, u) BY <1>10, <1>12, <1>13, <1>14, SmallLess
  <2>2. A # u BY <1>12, <1>13
  <2> QED BY <1>2, <1>11, <2>1, <2>2 DEF between_equal_left, less_than_or_equal
<1>17. PICK d : d = handle_valid_ack(c, p) OBVIOUS
<1>18. handle_ack(c, p) = d BY <1>16, <1>17 DEF handle_ack
<1>19. AckTaken(c, d, A)
  <2>1. u <= A BY <1>12, <1>13
  <2> QED BY <1>1, <1>2, <1>3, <1>4, <1>8, <1>10, <1>11, <1>12, <1>13, <1>17, <2>1, ValidAckTaken
<1>20. Shape(d) /\ SameState(c, d) /\ SameReceive(c, d) /\ d.ccc = c.ccc /\ d.queue \in Seq(Events)
  <2>1. [event |-> "send_buffer_not_full", p |-> NakedSegment] \in Events
    BY NakedIsSegment DEF Events, ProtocolEvents
  <2>2. c.queue \in Seq(Events) BY <1>1 DEF Formed
  <2>3. d.queue = Append(c.queue, [event |-> "send_buffer_not_full", p |-> NakedSegment])
    BY <1>19 DEF AckTaken
  <2>4. d.queue \in Seq(Events) BY <2>1, <2>2, <2>3
  <2> QED BY <1>19, <2>4 DEF AckTaken
<1>21. Formed(d)
  <2>1. ReceiverOK(d) BY <1>1, <1>20, ReceiverSame
  <2> QED BY <1>20, <2>1 DEF Formed
<1>22. PICK f : f = rc_receive_packet(c, p) OBVIOUS
<1>23. Beside(d, f)
  <2>1. f = handle_control_bits_and_data(d, p) BY <1>15, <1>18, <1>22 DEF rc_receive_packet
  <2> QED BY <1>21, <2>1, ControlBitsAndData
<1>24. PICK g : g = cm_receive_packet(f, p, trap) OBVIOUS
<1>25. Beside(d, g)
  <2>1. Formed(f) BY <1>23, BesideQueue
  <2>2. c.state \in Live BY <1>1 DEF SenderOK
  <2>3. d.state \in Live BY <1>20, <2>2 DEF SameState
  <2>4. f.state \in Live BY <1>23, <2>3 DEF Beside
  <2>5. Beside(f, g) BY <1>24, <2>1, <2>4, CmReceive
  <2> QED BY <1>23, <2>5, BesideTrans
<1>26. PICK x : x = AdvanceUna(c.ccc, p) OBVIOUS
<1>27. /\ DOMAIN x = DOMAIN c.ccc /\ x.snd_una = A
       /\ x.cwnd = c.ccc.cwnd /\ x.snd_wnd = c.ccc.snd_wnd /\ x.state = c.ccc.state
  <2>1. {"snd_una", "snd_nxt", "snd_max"} \subseteq DOMAIN c.ccc BY <1>1 DEF Shape
  <2>2. x = LET advanced == [c.ccc EXCEPT !.snd_una = A]
            IN IF less_than(advanced.snd_nxt, A) THEN set_snd_nxt(advanced, A) ELSE advanced
    BY <1>11, <1>26 DEF AdvanceUna
  <2>3. /\ DOMAIN x = DOMAIN c.ccc /\ x.snd_una = A
        /\ \A z \in DOMAIN c.ccc \ {"snd_una", "snd_nxt", "snd_max"} : x[z] = c.ccc[z]
    BY <1>5, <1>6, <1>8, <1>10, <1>12, <1>14, <2>1, <2>2, Moves
  <2> QED BY <1>1, <2>3 DEF Shape
<1>28. PICK X : X = [x EXCEPT !.probe_timer = TRUE] OBVIOUS
<1>29. X = Advanced(c.ccc, p) BY <1>26, <1>28 DEF Advanced
<1>30. /\ DOMAIN X = DOMAIN c.ccc /\ X.snd_una = x.snd_una /\ X.snd_nxt = x.snd_nxt /\ X.snd_max = x.snd_max
       /\ X.cwnd = x.cwnd /\ X.snd_wnd = x.snd_wnd /\ X.state = x.state
  BY <1>1, <1>27, <1>28 DEF Shape
<1>31. PICK a : a = [d EXCEPT !.ccc = X] OBVIOUS
<1>32. PICK b : b = [g EXCEPT !.ccc = X] OBVIOUS
<1>33. HostOK(a, P) /\ (\E e : Sending(a, P, e)) /\ ~SynQueued(a.queue)
  <2>1. a = BothMoved(c, d, p) BY <1>29, <1>31 DEF BothMoved
  <2> QED BY <1>2, <1>4, <1>11, <1>12, <1>13, <1>19, <2>1, AckTakenHost
<1>34. PICK e : Sending(a, P, e) BY <1>33
<1>35. Beside(a, b) BY <1>20, <1>25, <1>30, <1>31, <1>32, BesideAdvanced
<1>36. HostOK(b, P) /\ Sending(b, P, e) /\ ~SynQueued(b.queue)
  <2>1. Grown(a.queue, b.queue) BY <1>35 DEF Beside
  <2>2. ~SynQueued(b.queue) BY <1>33, <2>1, GrownSyn
  <2> QED BY <1>33, <1>34, <1>35, <2>2, BesideHost, BesideSending
<1>37. Shape(g) /\ g.ccc = c.ccc BY <1>20, <1>25 DEF Beside, SameSend
<1>38. b.ccc = X BY <1>32, <1>37 DEF Shape
<1>39. Windowed(b, [g EXCEPT !.ccc = x])
  <2>1. PICK t : t = [g EXCEPT !.ccc = x] OBVIOUS
  <2>2. /\ Shape(t) /\ SameCalls(b, t) /\ SameState(b, t) /\ SameReceive(b, t) /\ t.rc = b.rc
        /\ t.send_buffer = b.send_buffer /\ t.saved_send = b.saved_send /\ t.accepted = b.accepted
        /\ t.queue = b.queue /\ t.ccc = x
    BY <1>27, <1>32, <1>37, <2>1 DEF Shape, SameCalls, SameState, SameReceive
  <2> QED BY <1>30, <1>38, <2>1, <2>2 DEF Windowed
<1>40. between_equal(g.ccc.snd_una, p.ackno, g.ccc.snd_max)
  <2>1. u <= A BY <1>12, <1>13
  <2>2. between_equal(u, A, cm) BY <1>10, <1>11, <1>14, <2>1, AckRange
  <2> QED BY <1>6, <1>8, <1>11, <1>37, <2>2
<1>41. HostOK(cc_receive_packet(g, p), P)
  <2>1. x = AdvanceUna(g.ccc, p) /\ DOMAIN x = DOMAIN g.ccc BY <1>26, <1>27, <1>37
  <2>2. x.cwnd = b.ccc.cwnd /\ x.snd_wnd = b.ccc.snd_wnd /\ x.state = b.ccc.state BY <1>30, <1>38
  <2> QED BY <1>36, <1>37, <1>39, <1>40, <2>1, <2>2, CcReceiveHost
<1> QED BY <1>16, <1>22, <1>24, <1>41 DEF is_duplicate_ack

\* Congestion control takes an acknowledgement of nothing new: only its windows
\* change, and it may send.
LEMMA OldAckHost ==
    ASSUME NEW c, NEW g, NEW P, StreamsFit, StreamFits(P), HostOK(c, P), c.queue = <<>>, Beside(c, g),
           NEW p \in Packets, p.ack, p.ackno = c.rc.snd_una
    PROVE  HostOK(cc_receive_packet(g, p), P)
<1>1. Shape(c) /\ SenderOK(c, P) BY DEF HostOK
<1>2. PICK u \in Nat : u = c.rc.snd_una BY <1>1 DEF SenderOK, Counters
<1>3. PICK cn \in Nat : cn = c.ccc.snd_nxt BY <1>1 DEF SenderOK, Counters
<1>4. PICK cm \in Nat : cm = c.ccc.snd_max BY <1>1 DEF SenderOK, Counters
<1>5. PICK end \in Nat : end = BufferEnd(c) /\ end + 1 <= IntMax BY <1>1, SenderRange
<1>6. cn <= cm /\ cm <= end + 1 /\ c.ccc.snd_una = u
  BY <1>1, <1>2, <1>3, <1>4, <1>5 DEF SenderOK, Counters
<1>7. IntMax \in Nat BY Constants
<1>8. PICK e : Sending(c, P, e) BY <1>1, QuietFacts
<1>9. u <= cn BY <1>1, <1>2, <1>3, <1>8, SendingOutstanding
<1>10. u <= cm /\ cm <= IntMax BY <1>5, <1>6, <1>7, <1>9
<1>11. Shape(g) /\ g.ccc = c.ccc BY DEF Beside, SameSend
<1>12. PICK x : x = AdvanceUna(c.ccc, p) OBVIOUS
<1>13. /\ DOMAIN x = DOMAIN c.ccc /\ x.snd_una = u /\ x.snd_nxt = cn /\ x.snd_max = cm
       /\ x.cwnd = c.ccc.cwnd /\ x.snd_wnd = c.ccc.snd_wnd /\ x.state = c.ccc.state
  <2>1. {"snd_una", "snd_nxt", "snd_max"} \subseteq DOMAIN c.ccc BY <1>1 DEF Shape
  <2>2. x = LET advanced == [c.ccc EXCEPT !.snd_una = u]
            IN IF less_than(advanced.snd_nxt, u) THEN set_snd_nxt(advanced, u) ELSE advanced
    BY <1>2, <1>12 DEF AdvanceUna
  <2>3. /\ DOMAIN x = DOMAIN c.ccc /\ x.snd_una = u /\ x.snd_nxt = Greater(cn, u) /\ x.snd_max = cm
        /\ \A z \in DOMAIN c.ccc \ {"snd_una", "snd_nxt", "snd_max"} : x[z] = c.ccc[z]
    BY <1>3, <1>4, <1>6, <1>10, <2>1, <2>2, Moves
  <2>4. Greater(cn, u) = cn BY <1>9 DEF Greater
  <2> QED BY <1>1, <2>3, <2>4 DEF Shape
<1>14. HostOK(g, P) /\ Sending(g, P, e) /\ ~SynQueued(g.queue)
  <2>1. ~SynQueued(c.queue) /\ Grown(c.queue, g.queue) BY <1>1, QuietFacts DEF Beside
  <2> QED BY <1>8, <2>1, GrownSyn, BesideHost, BesideSending
<1>15. Windowed(g, [g EXCEPT !.ccc = x])
  <2>1. PICK t : t = [g EXCEPT !.ccc = x] OBVIOUS
  <2>2. /\ Shape(t) /\ SameCalls(g, t) /\ SameState(g, t) /\ SameReceive(g, t) /\ t.rc = g.rc
        /\ t.send_buffer = g.send_buffer /\ t.saved_send = g.saved_send /\ t.accepted = g.accepted
        /\ t.queue = g.queue /\ t.ccc = x
    BY <1>11, <1>13, <2>1 DEF Shape, SameCalls, SameState, SameReceive
  <2> QED BY <1>3, <1>4, <1>6, <1>11, <1>13, <2>1, <2>2 DEF Windowed
<1>16. between_equal(g.ccc.snd_una, p.ackno, g.ccc.snd_max)
  <2>1. u \in SeqNum BY <1>7, <1>10, <1>4 DEF SeqNum, Modulus
  <2>2. between_equal(u, u, cm) BY <1>10, <2>1, AckRange
  <2> QED BY <1>2, <1>4, <1>6, <1>11, <2>2
<1>17. x = AdvanceUna(g.ccc, p) /\ DOMAIN x = DOMAIN g.ccc BY <1>11, <1>12, <1>13
<1>18. x.cwnd = g.ccc.cwnd /\ x.snd_wnd = g.ccc.snd_wnd /\ x.state = g.ccc.state BY <1>11, <1>13
<1> QED BY <1>11, <1>14, <1>15, <1>16, <1>17, <1>18, CcReceiveHost

\* A packet that passed the tests goes through the three contexts, and a close()
\* that waited may go on.
LEMMA ReceiveValidHost ==
    ASSUME NEW c, NEW P, StreamsFit, StreamFits(P), HostOK(c, P), c.queue = <<>>, NEW p \in Packets,
           p.ack => is_valid_ack_number(c, p), NEW trap
    PROVE  HostOK(receive_valid_packet(c, p, trap), P)
<1>1. Shape(c) /\ SenderOK(c, P) /\ ReceiverOK(c) /\ Formed(c) BY HostFormed DEF HostOK
<1>2. PICK d : d = rc_receive_packet(c, p) OBVIOUS
<1>3. PICK g : g = cm_receive_packet(d, p, trap) OBVIOUS
<1>4. PICK t : t = CongestionControlReceive(g, p, is_duplicate_ack(c, p)) OBVIOUS
<1>5. receive_valid_packet(c, p, trap) = FinishSavedClose(t) BY <1>2, <1>3, <1>4 DEF receive_valid_packet
<1>6. c.state \in Live BY <1>1 DEF SenderOK
<1>7. ASSUME NEW k, k \in {c, d}, Beside(k, d), HostOK(k, P) PROVE Beside(k, g) /\ HostOK(g, P)
  <2>1. k.state \in Live BY <1>7 DEF HostOK, SenderOK
  <2>2. d.state \in Live BY <1>7, <2>1 DEF Beside
  <2>3. Formed(d) BY <1>7, BesideQueue
  <2>4. Beside(d, g) BY <1>3, <2>2, <2>3, CmReceive
  <2>5. Beside(k, g) BY <1>7, <2>4, BesideTrans
  <2> QED BY <1>7, <2>5, BesideHost
<1>8. HostOK(t, P)
  <2>1. CASE p.ack /\ between_equal_right(c.rc.snd_una, p.ackno, c.rc.snd_max)
    <3>1. HostOK(cc_receive_packet(g, p), P) /\ ~is_duplicate_ack(c, p) BY <1>2, <1>3, <2>1, NewAckHost
    <3> QED BY <1>4, <3>1 DEF CongestionControlReceive
  <2>2. CASE ~(p.ack /\ between_equal_right(c.rc.snd_una, p.ackno, c.rc.snd_max))
    <3>1. Beside(c, d) \/ (HostOK(d, P) /\ is_duplicate_ack(c, p)) BY <1>2, <2>2, NothingNew
    <3>2. CASE HostOK(d, P) /\ is_duplicate_ack(c, p)
      <4>1. Beside(d, d) BY <3>2, HostFormed, BesideRefl
      <4>2. HostOK(g, P) BY <1>7, <3>2, <4>1
      <4> QED BY <1>4, <3>2, <4>2 DEF CongestionControlReceive
    <3>3. CASE Beside(c, d)
      <4>1. Beside(c, g) /\ HostOK(g, P) BY <1>7, <3>3
      <4>2. CASE is_duplicate_ack(c, p) BY <1>4, <4>1, <4>2 DEF CongestionControlReceive
      <4>3. CASE ~is_duplicate_ack(c, p) /\ ~p.ack
        <5>1. cc_receive_packet(g, p) = g BY <4>3 DEF cc_receive_packet
        <5> QED BY <1>4, <4>1, <4>3, <5>1 DEF CongestionControlReceive
      <4>4. CASE ~is_duplicate_ack(c, p) /\ p.ack
        <5>1. p.ackno = c.rc.snd_una
          BY <2>2, <4>4 DEF is_valid_ack_number, between_equal, between_equal_right, less_than_or_equal
        <5>2. HostOK(cc_receive_packet(g, p), P) BY <4>1, <4>4, <5>1, OldAckHost
        <5> QED BY <1>4, <4>4, <5>2 DEF CongestionControlReceive
      <4> QED BY <4>2, <4>3, <4>4
    <3> QED BY <3>1, <3>2, <3>3
  <2> QED BY <2>1, <2>2
<1> QED BY <1>5, <1>8, SavedCloseHost

\* receive_packet(), with its tests of the acknowledgement, of the sequence number
\* and of a FIN that must wait.
LEMMA ReceiveHost ==
    ASSUME NEW c, NEW P, StreamsFit, StreamFits(P), HostOK(c, P), c.queue = <<>>, NEW p \in Packets, NEW trap
    PROVE  HostOK(receive_packet(c, p, trap), P)
<1>1. Shape(c) /\ SenderOK(c, P) /\ ReceiverOK(c) /\ Formed(c) BY HostFormed DEF HostOK
<1>2. c.state \in Live BY <1>1 DEF SenderOK
<1>3. PICK t : t = receive_packet(c, p, trap) OBVIOUS
<1>4. CASE p.ack /\ ~is_valid_ack_number(c, p)
  <2>1. t = rc_receive_packet(c, p) BY <1>3, <1>4 DEF receive_packet
  <2>2. ~between_equal_right(c.rc.snd_una, p.ackno, c.rc.snd_max)
    BY <1>4 DEF is_valid_ack_number, between_equal, between_equal_right, less_than_or_equal
  <2>3. Beside(c, t) \/ HostOK(t, P) BY <2>1, <2>2, NothingNew
  <2> QED BY <1>3, <2>3, BesideHost
<1>5. CASE ~(p.ack /\ ~is_valid_ack_number(c, p)) /\ ~is_valid_sequence_number(c, p)
  <2>1. t = IF c.state = "TimeWait" THEN cm_receive_packet(c, p, trap)
            ELSE IF c.state \in CanSendAck THEN create_and_dispatch_ack(c) ELSE c
    BY <1>3, <1>5 DEF receive_packet
  <2>2. Beside(c, cm_receive_packet(c, p, trap)) BY <1>1, <1>2, CmReceive
  <2>3. Beside(c, create_and_dispatch_ack(c)) BY <1>1, AckBeside
  <2>4. Beside(c, c) BY <1>1, BesideRefl
  <2>5. Beside(c, t) BY <2>1, <2>2, <2>3, <2>4
  <2> QED BY <1>3, <2>5, BesideHost
<1>6. CASE ~(p.ack /\ ~is_valid_ack_number(c, p)) /\ is_valid_sequence_number(c, p) /\ MustSaveFin(c, p)
  <2>1. t = [c EXCEPT !.saved_fin = {p}] BY <1>3, <1>6 DEF receive_packet
  <2>2. ReceiverOnly(c, t) BY <1>1, <2>1 DEF ReceiverOnly, Shape, SameSend, SameCalls, SameState, AbortKept
  <2>3. /\ t.rc = c.rc /\ t.receive_buffer = c.receive_buffer /\ t.redispatched = c.redispatched
        /\ SameState(c, t) /\ t.saved_fin = {p}
    BY <1>1, <2>1 DEF Shape, SameState
  <2>4. t.saved_fin \subseteq Packets BY <2>3
  <2>5. ReceiverOK(t) BY <1>1, <2>3, <2>4 DEF ReceiverOK, SameState
  <2>6. Beside(c, t) BY <1>1, <2>2, <2>5, ReceiverBeside
  <2> QED BY <1>3, <2>6, BesideHost
<1>7. CASE ~(p.ack /\ ~is_valid_ack_number(c, p)) /\ is_valid_sequence_number(c, p) /\ ~MustSaveFin(c, p)
  <2>1. t = receive_valid_packet(c, p, trap) BY <1>3, <1>7 DEF receive_packet
  <2>2. HostOK(t, P) BY <1>7, <2>1, ReceiveValidHost
  <2> QED BY <1>3, <2>2
<1> QED BY <1>4, <1>5, <1>6, <1>7

\* The saved FIN comes back.
LEMMA SavedFinHost ==
    ASSUME NEW c, NEW P, StreamsFit, StreamFits(P), HostOK(c, P), c.queue = <<>>, NEW p \in c.redispatched
    PROVE  HostOK(receive_packet([c EXCEPT !.redispatched = {}], p, FALSE), P)
<1>1. Shape(c) /\ ReceiverOK(c) /\ Formed(c) BY HostFormed DEF HostOK
<1>2. p \in Packets BY <1>1 DEF ReceiverOK
<1>3. PICK t : t = [c EXCEPT !.redispatched = {}] OBVIOUS
<1>4. ReceiverOnly(c, t) BY <1>1, <1>3 DEF ReceiverOnly, Shape, SameSend, SameCalls, SameState, AbortKept
<1>5. /\ t.rc = c.rc /\ t.receive_buffer = c.receive_buffer /\ t.saved_fin = c.saved_fin
      /\ SameState(c, t) /\ t.redispatched = {}
  BY <1>1, <1>3 DEF Shape, SameState
<1>6. ReceiverOK(t) BY <1>1, <1>5 DEF ReceiverOK, SameState
<1>7. HostOK(t, P) BY <1>1, <1>4, <1>6, ReceiverBeside, BesideHost
<1>8. t.queue = <<>> BY <1>4 DEF ReceiverOnly
<1> QED BY <1>2, <1>3, <1>7, <1>8, ReceiveHost

-------------------------------------------------------------------------------
\* A host whose SYN has not been numbered, and the invariant of one host.

\* The queue of a host that has been told to open: the first SYN, or the answer to
\* the peer's.
FirstSegment(q) ==
    \/ q = <<[event |-> "send_packet", p |-> Syn]>>
    \/ q = <<[event |-> "send_packet", p |-> SynAck]>>
    \/ q = <<[event |-> "connection_initiated", p |-> NakedSegment],
             [event |-> "send_packet", p |-> SynAck]>>

\* Nothing has been sent, and nothing but the first SYN will be.
Fresh(c) ==
    /\ c.rc.initialized = FALSE /\ c.rc.timer = FALSE
    /\ c.rc.snd_una = 0 /\ c.rc.snd_nxt = 0 /\ c.rc.snd_max = 0
    /\ c.ccc.snd_una = 0 /\ c.ccc.snd_nxt = 0 /\ c.ccc.snd_max = 0
    /\ c.ccc.probe_timer = FALSE
    /\ c.ccc.cwnd \in Nat /\ c.ccc.cwnd >= Mss /\ c.ccc.snd_wnd \in Nat
    /\ c.ccc.state \in {"SlowStart", "CongestionAvoidance"}
    /\ c.send_buffer = <<>> /\ c.saved_send = <<>> /\ c.accepted = 0
    /\ ~c.closed /\ ~c.saved_close /\ ~c.connected /\ ~c.time_wait_timer
    /\ c.redispatched = {}
    /\ \/ c.state = "Closed" /\ c.queue = <<>>
       \/ c.state = "Listen" /\ c.queue = <<>> /\ c.connection_type # None
       \/ /\ c.state \in {"SynSent", "SynReceived"} /\ c.connection_type # None
          /\ FirstSegment(c.queue)
          /\ c.state = "SynSent" => c.queue = <<[event |-> "send_packet", p |-> Syn]>>

\* What also holds of a socket that has been deleted and of one whose process has
\* failed an assertion.
Typed(c, P) ==
    /\ c.state \in States
    /\ c.rc.snd_una \in SeqNum /\ c.rc.snd_nxt \in SeqNum /\ c.rc.snd_max \in SeqNum
    /\ c.ccc.snd_una \in SeqNum /\ c.ccc.snd_nxt \in SeqNum /\ c.ccc.snd_max \in SeqNum
    /\ c.rc.snd_max <= IntMax
    /\ c.ccc.cwnd \in Nat \ {0}
    /\ c.ccc.state \in {"SlowStart", "CongestionAvoidance"}
    /\ Len(c.send_buffer) <= MaxSendBuffer
    /\ c.accepted \in 0 .. Len(P)
    /\ c.queue \in Seq(Events)

Runs(c) == c.aborted = None /\ c.exists

HostInv(c, P) ==
    /\ Shape(c) /\ ReceiverOK(c) /\ Typed(c, P)
    /\ c.aborted # None => c.queue = <<>>
    /\ Runs(c) /\ c.rc.initialized => SenderOK(c, P)
    /\ Runs(c) /\ ~c.rc.initialized => Fresh(c)

\* The numbers of a sender lie within the sequence space.
LEMMA HostTyped ==
    ASSUME NEW c, NEW P, StreamsFit, StreamFits(P), HostOK(c, P)
    PROVE  Typed(c, P)
<1>1. SenderOK(c, P) BY DEF HostOK
<1>2. PICK u \in Nat : u = c.rc.snd_una BY <1>1 DEF SenderOK, Counters
<1>3. PICK n \in Nat : n = c.rc.snd_nxt BY <1>1 DEF SenderOK, Counters
<1>4. PICK m \in Nat : m = c.rc.snd_max BY <1>1 DEF SenderOK, Counters
<1>5. PICK cn \in Nat : cn = c.ccc.snd_nxt BY <1>1 DEF SenderOK, Counters
<1>6. PICK cm \in Nat : cm = c.ccc.snd_max BY <1>1 DEF SenderOK, Counters
<1>7. PICK end \in Nat : end = BufferEnd(c) /\ end + 1 <= IntMax BY <1>1, SenderRange
<1>8. /\ u <= n /\ n <= m /\ m <= end /\ cn <= cm /\ cm <= end + 1 /\ c.ccc.snd_una = u
  BY <1>1, <1>2, <1>3, <1>4, <1>5, <1>6, <1>7 DEF SenderOK, Counters
<1>9. IntMax \in Nat BY Constants
<1>10. u \in SeqNum /\ n \in SeqNum /\ m \in SeqNum /\ cn \in SeqNum /\ cm \in SeqNum
  BY <1>7, <1>8, <1>9 DEF SeqNum, Modulus
<1>11. /\ c.rc.snd_una \in SeqNum /\ c.rc.snd_nxt \in SeqNum /\ c.rc.snd_max \in SeqNum
       /\ c.ccc.snd_una \in SeqNum /\ c.ccc.snd_nxt \in SeqNum /\ c.ccc.snd_max \in SeqNum
       /\ c.rc.snd_max <= IntMax
  BY <1>2, <1>3, <1>4, <1>5, <1>6, <1>7, <1>8, <1>9, <1>10
<1>12. c.ccc.cwnd \in Nat \ {0} /\ c.ccc.state \in {"SlowStart", "CongestionAvoidance"}
  <2>1. Mss \in Nat /\ Mss >= 2 BY Constants
  <2> QED BY <1>1, <2>1 DEF SenderOK, Window
<1>13. Len(c.send_buffer) <= MaxSendBuffer /\ c.accepted \in 0 .. Len(P)
  <2>1. Len(P) \in Nat BY DEF StreamFits
  <2> QED BY <1>1, <2>1 DEF SenderOK, Bytes
<1>14. c.state \in States /\ c.queue \in Seq(Events) BY <1>1 DEF SenderOK, Live
<1> QED BY <1>11, <1>12, <1>13, <1>14 DEF Typed

\* Nothing has been sent and nothing counted: the types of a fresh host.
LEMMA FreshInv ==
    ASSUME NEW c, NEW P, StreamsFit, StreamFits(P), Shape(c), ReceiverOK(c), Fresh(c), c.aborted = None
    PROVE  HostInv(c, P)
<1>1. 0 \in SeqNum
  <2>1. IntMax \in Nat BY Constants
  <2> QED BY <2>1 DEF SeqNum, Modulus
<1>2. c.ccc.cwnd \in Nat \ {0}
  <2>1. Mss \in Nat /\ Mss >= 2 BY Constants
  <2> QED BY <2>1 DEF Fresh
<1>3. Len(c.send_buffer) <= MaxSendBuffer /\ c.accepted \in 0 .. Len(P)
  <2>1. Len(P) \in Nat /\ MaxSendBuffer \in Nat BY Constants DEF StreamFits
  <2> QED BY <2>1 DEF Fresh
<1>4. c.queue \in Seq(Events)
  <2>1. [event |-> "send_packet", p |-> Syn] \in Events /\ [event |-> "send_packet", p |-> SynAck] \in Events
    BY DEF Events, ProtocolEvents, Segments, Syn, SynAck, Segment
  <2>2. [event |-> "connection_initiated", p |-> NakedSegment] \in Events
    BY NakedIsSegment DEF Events, ProtocolEvents
  <2>3. c.queue = <<>> \/ FirstSegment(c.queue) BY DEF Fresh
  <2>4. CASE c.queue = <<>> BY <2>4
  <2>5. CASE c.queue = <<[event |-> "send_packet", p |-> Syn]>> BY <2>1, <2>5
  <2>6. CASE c.queue = <<[event |-> "send_packet", p |-> SynAck]>> BY <2>1, <2>6
  <2>7. CASE c.queue = <<[event |-> "connection_initiated", p |-> NakedSegment],
                         [event |-> "send_packet", p |-> SynAck]>>
    <3>1. PICK a \in Events : a = [event |-> "connection_initiated", p |-> NakedSegment] BY <2>2
    <3>2. PICK b \in Events : b = [event |-> "send_packet", p |-> SynAck] BY <2>1
    <3>3. c.queue = <<a, b>> BY <2>7, <3>1, <3>2
    <3> QED BY <3>3
  <2> QED BY <2>3, <2>4, <2>5, <2>6, <2>7 DEF FirstSegment
<1>5. c.state \in States BY DEF Fresh, States
<1>6. c.rc.snd_max <= IntMax
  <2>1. IntMax \in Nat BY Constants
  <2> QED BY <2>1 DEF Fresh
<1>7. Typed(c, P) BY <1>1, <1>2, <1>3, <1>4, <1>5, <1>6 DEF Typed, Fresh
<1>8. ~c.rc.initialized BY DEF Fresh
<1> QED BY <1>7, <1>8 DEF HostInv

\* A host that runs and has numbered its SYN.
LEMMA RunningHost ==
    ASSUME NEW c, NEW P, HostInv(c, P), Runs(c), c.rc.initialized
    PROVE  HostOK(c, P)
BY DEF HostInv, HostOK

\* A sender in order is a host in order.
LEMMA HostOKInv ==
    ASSUME NEW c, NEW P, StreamsFit, StreamFits(P), HostOK(c, P), c.aborted = None
    PROVE  HostInv(c, P) /\ c.rc.initialized
<1>1. Typed(c, P) BY HostTyped
<1>2. SenderOK(c, P) /\ c.rc.initialized = TRUE BY DEF HostOK, SenderOK
<1> QED BY <1>1, <1>2 DEF HostInv, HostOK

\* A new socket.
LEMMA NewSocketInv ==
    ASSUME StreamsFit, NEW P, StreamFits(P)
    PROVE  HostInv(NewSocket, P) /\ ~NewSocket.rc.initialized
<1>1. PICK c : c = NewSocket OBVIOUS
<1>2. Shape(c) BY <1>1 DEF NewSocket, Shape, NewReliability, NewCongestionControl
<1>3. IntMax \in Nat /\ Mss \in Nat /\ Mss >= 2 /\ Rfc3390Bytes \in Nat /\ MaxReceiveWindow \in Nat BY Constants
<1>4. 0 \in SeqNum BY <1>3 DEF SeqNum, Modulus
<1>5. ReceiverOK(c)
  <2>1. EmptyBuffer \in Buffers
    <3>1. <<>> \in Seq(Packets) OBVIOUS
    <3>2. PICK q \in Seq(Packets) : q = <<>> BY <3>1
    <3>3. EmptyBuffer = [started |-> FALSE, first |-> 0, packets |-> q] BY <3>2 DEF EmptyBuffer
    <3> QED BY <1>4, <3>3 DEF Buffers
  <2> QED BY <1>1, <1>3, <1>4, <2>1 DEF ReceiverOK, NewSocket, NewReliability
<1>6. InitialCwnd \in Nat /\ InitialCwnd >= Mss
  <2>1. Greater(2 * Mss, Rfc3390Bytes) \in Nat /\ Greater(2 * Mss, Rfc3390Bytes) >= 2 * Mss BY <1>3 DEF Greater
  <2> QED BY <1>3, <2>1 DEF InitialCwnd, Lesser
<1>7. Fresh(c) /\ c.aborted = None
  BY <1>1, <1>6 DEF Fresh, NewSocket, NewReliability, NewCongestionControl
<1> QED BY <1>1, <1>2, <1>5, <1>7, FreshInv DEF Fresh

\* A host that has sent nothing but SYNs and has received nothing.
Silent(c) ==
    /\ c.rc.rcv_nxt = 0 /\ c.state \in {"Closed", "Listen", "SynSent"}
    /\ ~c.connected /\ c.ccc.probe_timer = FALSE /\ ~c.time_wait_timer /\ c.redispatched = {}
    /\ c.rc.initialized => c.rc.snd_una = Iss
    /\ \A i \in 1 .. Len(c.queue) :
          \/ c.queue[i].event = "resend_packet"
          \/ c.queue[i].event = "send_packet" /\ c.queue[i].p = Syn

\* t is a host after a step of c.
Kept(c, t, P) == HostInv(t, P) /\ (c.rc.initialized => t.rc.initialized)
StaysSilent(c, t) == Silent(c) /\ Runs(t) => Silent(t)

\* What Become makes of a host whose handler returns d.
Became(c, d) ==
    IF d.aborted = None THEN d ELSE [c EXCEPT !.aborted = d.aborted, !.queue = <<>>]

\* A failed assertion leaves a host that does nothing more.
LEMMA BecameKept ==
    ASSUME NEW c, NEW d, NEW P, StreamsFit, StreamFits(P), HostInv(c, P),
           d.aborted = None => Kept(c, d, P)
    PROVE  Kept(c, Became(c, d), P)
<1>1. CASE d.aborted = None BY <1>1 DEF Became
<1>2. CASE d.aborted # None
  <2>1. PICK t : t = [c EXCEPT !.aborted = d.aborted, !.queue = <<>>] OBVIOUS
  <2>2. Shape(c) /\ ReceiverOK(c) /\ Typed(c, P) BY DEF HostInv
  <2>3. /\ Shape(t) /\ SameState(c, t) /\ SameReceive(c, t) /\ t.rc = c.rc /\ t.ccc = c.ccc
        /\ t.send_buffer = c.send_buffer /\ t.accepted = c.accepted /\ t.queue = <<>>
        /\ t.aborted = d.aborted
    BY <2>1, <2>2 DEF Shape, SameState, SameReceive
  <2>4. ReceiverOK(t) BY <2>2, <2>3, ReceiverSame
  <2>5. Typed(t, P)
    <3>1. t.queue \in Seq(Events) BY <2>3
    <3> QED BY <2>2, <2>3, <3>1 DEF Typed, SameState
  <2>6. HostInv(t, P) BY <1>2, <2>3, <2>4, <2>5 DEF HostInv, Runs
  <2>7. t = Became(c, d) BY <1>2, <2>1 DEF Became
  <2> QED BY <2>3, <2>6, <2>7 DEF Kept
<1> QED BY <1>1, <1>2

\* A host that has received nothing stays so, also when an assertion fails.
LEMMA BecameSilent ==
    ASSUME NEW c, NEW d, Shape(c), d.aborted = None => StaysSilent(c, d)
    PROVE  StaysSilent(c, Became(c, d))
<1>1. CASE d.aborted = None BY <1>1 DEF Became
<1>2. CASE d.aborted # None
  <2>1. Became(c, d).aborted = d.aborted BY <1>2 DEF Became, Shape
  <2> QED BY <1>2, <2>1 DEF StaysSilent, Runs
<1> QED BY <1>1, <1>2

\* connect() of a new socket: the SYN goes to the queue.
LEMMA ConnectStep ==
    ASSUME NEW c, NEW P, StreamsFit, StreamFits(P), HostInv(c, P), Runs(c), c.connection_type = None
    PROVE  Kept(c, cm_connect(c), P) /\ StaysSilent(c, cm_connect(c))
<1>1. Shape(c) /\ ReceiverOK(c) BY DEF HostInv
<1>2. Fresh(c)
  <2>1. ~SenderOK(c, P) BY DEF SenderOK
  <2> QED BY <2>1 DEF HostInv
<1>3. c.state = "Closed" /\ c.queue = <<>> BY <1>2 DEF Fresh
<1>4. PICK x : x = [event |-> "send_packet", p |-> Syn] OBVIOUS
<1>5. PICK t : t = cm_connect(c) OBVIOUS
<1>6. t = [c EXCEPT !.connection_type = "ACTIVE_OPEN", !.queue = Append(@, x),
                    !.state = "SynSent", !.time_wait_timer = FALSE]
  BY <1>1, <1>3, <1>4, <1>5 DEF cm_connect, set_state, enqueue_send, Shape
<1>7. /\ Shape(t) /\ t.rc = c.rc /\ t.ccc = c.ccc /\ SameReceive(c, t)
      /\ t.send_buffer = c.send_buffer /\ t.saved_send = c.saved_send /\ t.accepted = c.accepted
      /\ t.closed = c.closed /\ t.saved_close = c.saved_close /\ t.connected = c.connected
      /\ t.aborted = c.aborted /\ t.connection_type = "ACTIVE_OPEN" /\ t.time_wait_timer = FALSE
      /\ t.state = "SynSent" /\ t.queue = Append(c.queue, x)
  BY <1>1, <1>6 DEF Shape, SameReceive
<1>8. t.queue = <<x>> BY <1>3, <1>7
<1>9. Fresh(t)
  <2>1. t.connection_type # None BY <1>7 DEF None
  <2>2. FirstSegment(t.queue) BY <1>4, <1>8 DEF FirstSegment
  <2> QED BY <1>2, <1>4, <1>7, <1>8, <2>1, <2>2 DEF Fresh, SameReceive
<1>10. ReceiverOK(t) BY <1>1, <1>7 DEF ReceiverOK, SameReceive
<1>11. HostInv(t, P) BY <1>7, <1>9, <1>10, FreshInv DEF Runs
<1>12. StaysSilent(c, t)
  <2>1. \A i \in 1 .. Len(t.queue) : t.queue[i].event = "send_packet" /\ t.queue[i].p = Syn BY <1>4, <1>8
  <2> QED BY <1>2, <1>7, <1>9, <2>1 DEF StaysSilent, Silent, Fresh, SameReceive
<1> QED BY <1>2, <1>5, <1>11, <1>12 DEF Kept, Fresh

\* listen() of a new socket.
LEMMA ListenStep ==
    ASSUME NEW c, NEW P, StreamsFit, StreamFits(P), HostInv(c, P), Runs(c), c.connection_type = None
    PROVE  Kept(c, cm_listen(c), P) /\ StaysSilent(c, cm_listen(c))
<1>1. Shape(c) /\ ReceiverOK(c) BY DEF HostInv
<1>2. Fresh(c)
  <2>1. ~SenderOK(c, P) BY DEF SenderOK
  <2> QED BY <2>1 DEF HostInv
<1>3. c.state = "Closed" /\ c.queue = <<>> BY <1>2 DEF Fresh
<1>4. PICK t : t = cm_listen(c) OBVIOUS
<1>5. t = [c EXCEPT !.connection_type = "PASSIVE_OPEN", !.state = "Listen", !.time_wait_timer = FALSE]
  BY <1>1, <1>3, <1>4 DEF cm_listen, set_state, Shape
<1>6. /\ Shape(t) /\ t.rc = c.rc /\ t.ccc = c.ccc /\ SameReceive(c, t)
      /\ t.send_buffer = c.send_buffer /\ t.saved_send = c.saved_send /\ t.accepted = c.accepted
      /\ t.closed = c.closed /\ t.saved_close = c.saved_close /\ t.connected = c.connected
      /\ t.aborted = c.aborted /\ t.connection_type = "PASSIVE_OPEN" /\ t.time_wait_timer = FALSE
      /\ t.state = "Listen" /\ t.queue = c.queue
  BY <1>1, <1>5 DEF Shape, SameReceive
<1>7. Fresh(t)
  <2>1. t.connection_type # None BY <1>6 DEF None
  <2> QED BY <1>2, <1>3, <1>6, <2>1 DEF Fresh, SameReceive
<1>8. ReceiverOK(t) BY <1>1, <1>6 DEF ReceiverOK, SameReceive
<1>9. HostInv(t, P) BY <1>6, <1>7, <1>8, FreshInv DEF Runs
<1>10. StaysSilent(c, t) BY <1>2, <1>6, <1>7 DEF StaysSilent, Silent, Fresh, SameReceive
<1> QED BY <1>2, <1>4, <1>9, <1>10 DEF Kept, Fresh

PureSyn(p) == p.syn /\ ~p.ack /\ ~p.fin /\ p.data = <<>>

\* A SYN reaches a host that has sent nothing: a listener queues its answer.
LEMMA FreshReceive ==
    ASSUME NEW c, NEW P, StreamsFit, StreamFits(P), HostInv(c, P), Runs(c), ~c.rc.initialized,
           c.queue = <<>>, NEW p \in Packets, PureSyn(p), NEW trap
    PROVE  Kept(c, receive_packet(c, p, trap), P)
<1>1. Shape(c) /\ ReceiverOK(c) /\ Formed(c) BY DEF HostInv, Typed, Formed
<1>2. Fresh(c) BY DEF HostInv
<1>3. c.state \in {"Closed", "Listen"}
  <2>1. ~FirstSegment(c.queue) BY DEF FirstSegment
  <2> QED BY <1>2, <2>1 DEF Fresh
<1>4. PICK t : t = receive_packet(c, p, trap) OBVIOUS
<1>5. ~p.ack /\ ~p.fin /\ p.syn BY DEF PureSyn
<1>6. CASE ~is_valid_sequence_number(c, p)
  <2>1. t = c BY <1>3, <1>4, <1>5, <1>6 DEF receive_packet, CanSendAck
  <2> QED BY <1>4, <2>1 DEF Kept
<1>7. CASE is_valid_sequence_number(c, p)
  <2>1. t = receive_valid_packet(c, p, trap) BY <1>4, <1>5, <1>7 DEF receive_packet, MustSaveFin
  <2>2. PICK d : d = handle_control_bits(c, p) OBVIOUS
  <2>3. rc_receive_packet(c, p) = d
    <3>1. handle_ack(c, p) = c BY <1>5 DEF handle_ack
    <3> QED BY <1>5, <2>2, <3>1 DEF rc_receive_packet, AcksUnsent, handle_control_bits_and_data
  <2>4. PICK g : g = cm_receive_packet(d, p, trap) OBVIOUS
  <2>5. cc_receive_packet(g, p) = g BY <1>5 DEF cc_receive_packet
  <2>6. t = FinishSavedClose(g)
    BY <1>5, <2>1, <2>3, <2>4, <2>5 DEF receive_valid_packet, CongestionControlReceive, is_duplicate_ack
  <2>7. Beside(c, d) BY <1>1, <2>2, HandleControlBits
  <2>8. ReceiverOK(d) /\ Shape(d) /\ SameSend(c, d) /\ SameCalls(c, d) BY <2>7 DEF Beside
  <2>9. /\ SameState(c, d) /\ d.queue = c.queue /\ d.aborted = c.aborted /\ d.redispatched = c.redispatched
    BY <1>1, <2>2 DEF handle_control_bits, Shape, SameState
  <2>10. CASE c.state = "Closed"
    <3>1. g = d BY <2>4, <2>9, <2>10 DEF cm_receive_packet, SameState
    <3>2. t = d BY <1>2, <2>6, <2>8, <3>1 DEF FinishSavedClose, SameCalls, Fresh
    <3>3. Fresh(d) BY <1>2, <2>8, <2>9, <2>10 DEF Fresh, SameSend, SameCalls, SameState
    <3> QED BY <1>4, <2>8, <2>9, <3>2, <3>3, FreshInv DEF Kept, Runs
  <2>11. CASE c.state = "Listen"
    <3>1. PICK a : a = [event |-> "connection_initiated", p |-> NakedSegment] OBVIOUS
    <3>2. PICK b : b = [event |-> "send_packet", p |-> SynAck] OBVIOUS
    <3>3. g = set_state(enqueue_send(enqueue(d, "connection_initiated"), SynAck), "SynReceived")
      BY <1>5, <2>4, <2>9, <2>11 DEF cm_receive_packet, SameState, Listen_receive, process_syn
    <3>4. g = [d EXCEPT !.queue = Append(Append(@, a), b), !.state = "SynReceived", !.time_wait_timer = FALSE]
      BY <2>8, <3>1, <3>2, <3>3 DEF set_state, enqueue, enqueue_send, Shape
    <3>5. /\ Shape(g) /\ g.rc = d.rc /\ g.ccc = d.ccc /\ SameReceive(d, g) /\ SameSend(d, g) /\ SameCalls(d, g)
          /\ g.connected = d.connected /\ g.aborted = d.aborted /\ g.time_wait_timer = FALSE
          /\ g.state = "SynReceived" /\ g.queue = Append(Append(d.queue, a), b)
      BY <2>8, <3>4 DEF Shape, SameReceive, SameSend, SameCalls
    <3>6. g.queue = <<a, b>>
      <4>1. Append(<<>>, a) = <<a>> OBVIOUS
      <4>2. Append(<<a>>, b) = <<a, b>>
        <5>1. PICK q : q = <<a>> OBVIOUS
        <5>2. q \in Seq({a, b}) /\ Len(q) = 1 /\ q[1] = a BY <5>1
        <5>3. PICK r : r = Append(q, b) OBVIOUS
        <5>4. r \in Seq({a, b}) /\ Len(r) = 2 /\ r[1] = a /\ r[2] = b BY <5>2, <5>3, AppendProperties
        <5>5. PICK v : v = <<a, b>> OBVIOUS
        <5>6. v \in Seq({a, b}) /\ Len(v) = 2 /\ v[1] = a /\ v[2] = b BY <5>5
        <5>7. \A i \in 1 .. Len(r) : r[i] = v[i] BY <5>4, <5>6
        <5>8. r = v BY <5>4, <5>6, <5>7, SeqEqual
        <5> QED BY <5>1, <5>3, <5>5, <5>8
      <4> QED BY <2>9, <3>5, <4>1, <4>2
    <3>7. t = g BY <1>2, <2>6, <2>8, <3>5 DEF FinishSavedClose, SameCalls, Fresh
    <3>8. FirstSegment(g.queue) BY <3>1, <3>2, <3>6 DEF FirstSegment
    <3>9. c.connection_type # None BY <1>2, <2>11 DEF Fresh
    <3>10. Fresh(g)
      BY <1>2, <2>8, <2>9, <3>5, <3>8, <3>9 DEF Fresh, SameSend, SameCalls, SameState, SameReceive
    <3>11. ReceiverOK(g) BY <2>8, <3>5 DEF ReceiverOK, SameReceive
    <3> QED BY <1>4, <2>9, <3>5, <3>7, <3>10, <3>11, FreshInv DEF Kept, Runs
  <2> QED BY <1>3, <2>10, <2>11
<1> QED BY <1>6, <1>7

\* The packet that leaves a host has the fields of a packet.
LEMMA OutgoingType ==
    ASSUME NEW c, NEW s \in Segments, ReceiverOK(c), SequenceNumberOf(c) \in SeqNum
    PROVE  OutgoingPacket(c, s) \in Packets
<1>1. (s.ack \/ c.rc.rcv_nxt # 0) \in BOOLEAN OBVIOUS
<1> QED BY <1>1 DEF OutgoingPacket, Packets, ReceiverOK, Segments

\* The first event of a fresh host is a SYN, unless it first announces the connection.
LEMMA FreshHead ==
    ASSUME NEW c, Fresh(c), c.queue # <<>>
    PROVE  /\ FirstSegment(c.queue)
           /\ Head(c.queue).event \in {"connection_initiated", "send_packet"}
<1>1. FirstSegment(c.queue) BY DEF Fresh
<1>2. CASE c.queue = <<[event |-> "send_packet", p |-> Syn]>> BY <1>1, <1>2
<1>3. CASE c.queue = <<[event |-> "send_packet", p |-> SynAck]>> BY <1>1, <1>3
<1>4. CASE c.queue = <<[event |-> "connection_initiated", p |-> NakedSegment],
                       [event |-> "send_packet", p |-> SynAck]>>
  BY <1>1, <1>4
<1> QED BY <1>1, <1>2, <1>3, <1>4 DEF FirstSegment

\* t is c after the first segment s has left, from the rest d of c.
FirstSent(c, d, s, t, P) ==
    /\ HostOK(t, P) /\ SameState(c, t) /\ SameReceive(c, t)
    /\ t.aborted = c.aborted /\ t.queue = <<>> /\ t.rc.snd_una = Iss
    /\ t.ccc.probe_timer = FALSE
    /\ CarriesStream(OutgoingPacket(d, s), P) /\ OutgoingPacket(d, s) \in Packets

\* The first SYN, or SYN with acknowledgement, leaves: it takes the initial
\* sequence number, and becomes the first byte of the send buffer.
LEMMA FirstSend ==
    ASSUME NEW c, NEW P, StreamsFit, StreamFits(P), Shape(c), ReceiverOK(c), Fresh(c), c.queue # <<>>,
           Head(c.queue).event = "send_packet",
           NEW d, Taken(c, d), NEW s, s = Head(c.queue).p
    PROVE  FirstSent(c, d, s, send_packet(d, s), P)
<1>1. s \in {Syn, SynAck} /\ Tail(c.queue) = <<>>
  <2>1. CASE c.queue = <<[event |-> "send_packet", p |-> Syn]>> BY <2>1
  <2>2. CASE c.queue = <<[event |-> "send_packet", p |-> SynAck]>> BY <2>2
  <2>3. CASE c.queue = <<[event |-> "connection_initiated", p |-> NakedSegment],
                         [event |-> "send_packet", p |-> SynAck]>>
    BY <2>3
  <2> QED BY <2>1, <2>2, <2>3, FreshHead DEF FirstSegment
<1>2. /\ s \in Segments /\ s.syn /\ ~s.fin /\ s.data = <<>> /\ SegmentLength(s) = 1
  <2>1. <<>> \in Seq(Nat) OBVIOUS
  <2>2. Syn \in Segments BY <2>1 DEF Segments, Syn, Segment
  <2>3. SynAck \in Segments BY <2>1 DEF Segments, SynAck, Segment
  <2>4. s.syn /\ ~s.fin /\ s.data = <<>> BY <1>1 DEF Syn, SynAck, Segment
  <2> QED BY <1>1, <2>2, <2>3, <2>4 DEF SegmentLength
<1>3. /\ IntMax \in Nat /\ Iss \in Nat \ {0} /\ Mss \in Nat /\ Mss >= 2 /\ SynByte \in Nat
      /\ MaxSendBuffer \in Nat \ {0}
  BY Constants
<1>4. Iss + 1 <= IntMax
  <2>1. Len(P) \in Nat /\ Iss + Len(P) + 3 <= IntMax BY DEF StreamFits
  <2> QED BY <1>3, <2>1
<1>5. /\ Shape(d) /\ SameSend(c, d) /\ SameCalls(c, d) /\ SameState(c, d) /\ SameReceive(c, d)
      /\ d.aborted = c.aborted /\ d.rc = c.rc /\ d.queue = <<>> /\ d.ccc = c.ccc
  BY <1>1 DEF Taken, SameSend
<1>6. Plus(Iss, 1) = Iss + 1 BY <1>3, <1>4, SmallPlus
<1>7. less_than(0, Iss + 1) BY <1>3, <1>4, SmallLess
<1>8. PICK r : r = [d.rc EXCEPT !.snd_nxt = Iss + 1, !.snd_max = Iss + 1, !.snd_una = Iss,
                                !.initialized = TRUE, !.timer = TRUE]
  OBVIOUS
<1>9. check_and_start_timer(set_sequence_number(d, s), s) = [d EXCEPT !.rc = r]
  <2>1. d.rc.initialized = FALSE /\ d.rc.snd_max = 0 BY <1>5 DEF Fresh
  <2>2. set_sequence_number(d, s) =
          [d EXCEPT !.rc = [set_snd_nxt(@, Iss + 1) EXCEPT !.snd_una = Iss, !.initialized = TRUE]]
    BY <1>6, <2>1 DEF set_sequence_number
  <2>3. set_snd_nxt(d.rc, Iss + 1) = [d.rc EXCEPT !.snd_nxt = Iss + 1, !.snd_max = Iss + 1]
    BY <1>5, <1>7, <2>1 DEF set_snd_nxt, Shape
  <2>4. PICK y : y = [d.rc EXCEPT !.snd_nxt = Iss + 1, !.snd_max = Iss + 1, !.snd_una = Iss, !.initialized = TRUE]
    OBVIOUS
  <2>5. set_sequence_number(d, s) = [d EXCEPT !.rc = y] BY <1>5, <2>2, <2>3, <2>4 DEF Shape
  <2>6. check_and_start_timer(set_sequence_number(d, s), s) = [[d EXCEPT !.rc = y] EXCEPT !.rc.timer = TRUE]
    <3>1. SegmentLength(s) > 0 BY <1>2
    <3> QED BY <2>5, <3>1, Zenon DEF check_and_start_timer, start_timer
  <2>7. r = [y EXCEPT !.timer = TRUE] BY <1>5, <1>8, <2>4 DEF Shape
  <2> QED BY <1>5, <2>6, <2>7 DEF Shape
<1>10. /\ r.snd_nxt = Iss + 1 /\ r.snd_max = Iss + 1 /\ r.snd_una = Iss /\ r.initialized = TRUE /\ r.timer = TRUE
       /\ DOMAIN r = DOMAIN d.rc
       /\ r.rcv_nxt = c.rc.rcv_nxt /\ r.rcv_wnd = c.rc.rcv_wnd /\ r.receive_index = c.rc.receive_index
       /\ r.receive_window = c.rc.receive_window /\ r.receive_event = c.rc.receive_event
       /\ r.duplicates = c.rc.duplicates
  BY <1>5, <1>8 DEF Shape
<1>11. PICK b : b = [d EXCEPT !.rc = r] OBVIOUS
<1>12. /\ Shape(b) /\ b.rc = r /\ b.ccc = c.ccc /\ b.send_buffer = <<>> /\ b.queue = <<>>
       /\ b.aborted = c.aborted /\ SameState(c, b) /\ SameCalls(c, b) /\ SameReceive(c, b)
       /\ b.saved_send = <<>> /\ b.accepted = 0
  <2>1. /\ Shape(b) /\ b.rc = r /\ b.ccc = d.ccc /\ b.send_buffer = d.send_buffer /\ b.queue = d.queue
        /\ b.aborted = d.aborted /\ SameState(d, b) /\ SameCalls(d, b)
        /\ b.receive_buffer = d.receive_buffer /\ b.saved_fin = d.saved_fin /\ b.redispatched = d.redispatched
        /\ b.saved_send = d.saved_send /\ b.accepted = d.accepted
    BY <1>5, <1>10, <1>11 DEF Shape, SameState, SameCalls
  <2>2. d.send_buffer = <<>> /\ d.saved_send = <<>> /\ d.accepted = 0 BY <1>5 DEF SameSend, Fresh
  <2> QED BY <1>5, <1>10, <2>1, <2>2 DEF SameState, SameCalls, SameReceive
<1>13. PICK f : f = [b EXCEPT !.send_buffer = <<SynByte>>] OBVIOUS
<1>14. rc_send_packet(d, s) = f
  <2>1. ~StartsWith(b.send_buffer, SynByte) BY <1>12 DEF StartsWith
  <2>2. Append(b.send_buffer, SynByte) = <<SynByte>> BY <1>12
  <2>3. append_control_bytes_to_send_buffer(b, s) = [b EXCEPT !.send_buffer = Append(@, SynByte)]
    BY <1>2, <1>12, <2>1 DEF append_control_bytes_to_send_buffer, Require
  <2> QED BY <1>9, <1>11, <1>12, <1>13, <2>2, <2>3 DEF rc_send_packet, Shape
<1>15. PICK t : t = send_packet(d, s) OBVIOUS
<1>16. PICK k : k = set_snd_nxt([c.ccc EXCEPT !.snd_una = Iss], Iss + 1) OBVIOUS
<1>17. t = [f EXCEPT !.ccc = [k EXCEPT !.data_sent = @ \/ s.data # <<>>]]
  <2>1. f.ccc = c.ccc BY <1>12, <1>13 DEF Shape
  <2> QED BY <1>2, <1>6, <1>14, <1>15, <1>16, <2>1 DEF send_packet, cc_send_packet
<1>18. /\ DOMAIN k = DOMAIN c.ccc /\ k.snd_una = Iss /\ k.snd_nxt = Iss + 1 /\ k.snd_max = Iss + 1
       /\ k.cwnd = c.ccc.cwnd /\ k.snd_wnd = c.ccc.snd_wnd /\ k.state = c.ccc.state
       /\ k.probe_timer = FALSE
  <2>1. c.ccc.snd_max = 0 /\ c.ccc.probe_timer = FALSE BY DEF Fresh
  <2> QED BY <1>7, <1>16, <2>1 DEF set_snd_nxt, Shape
<1>19. /\ Shape(t) /\ t.rc = r /\ t.send_buffer = <<SynByte>> /\ t.queue = <<>> /\ t.aborted = c.aborted
       /\ SameState(c, t) /\ SameCalls(c, t) /\ SameReceive(c, t) /\ t.saved_send = <<>> /\ t.accepted = 0
       /\ t.ccc.snd_una = Iss /\ t.ccc.snd_nxt = Iss + 1 /\ t.ccc.snd_max = Iss + 1
       /\ t.ccc.cwnd = c.ccc.cwnd /\ t.ccc.snd_wnd = c.ccc.snd_wnd /\ t.ccc.state = c.ccc.state
       /\ t.ccc.probe_timer = FALSE
  BY <1>12, <1>13, <1>17, <1>18 DEF Shape, SameState, SameCalls, SameReceive
<1>20. t.state \in {"SynSent", "SynReceived"} /\ t.connection_type # None
  BY <1>19 DEF Fresh, SameState, SameCalls
<1>21. t.state \in Live /\ t.state \notin Ending BY <1>20 DEF Live, States, Ending
<1>22. Len(t.send_buffer) = 1 /\ t.send_buffer[1] = SynByte /\ t.send_buffer \in Seq(Nat) BY <1>3, <1>19
<1>23. BufferEnd(t) = Iss + 1 BY <1>10, <1>19, <1>22 DEF BufferEnd
<1>24. Counters(t)
  <2>1. t.rc.snd_una = Iss /\ t.rc.snd_nxt = Iss + 1 /\ t.rc.snd_max = Iss + 1 BY <1>10, <1>19
  <2>2. BufferEnd(t) = Iss + t.accepted + 1 BY <1>3, <1>19, <1>23
  <2> QED BY <1>3, <1>19, <1>23, <2>1, <2>2 DEF Counters
<1>25. Bytes(t, P)
  <2>1. HoldsFrom(t.send_buffer, P, t.accepted, t.rc.snd_una - Iss)
    <3>1. t.rc.snd_una - Iss = 0 BY <1>3, <1>10, <1>19
    <3>2. HoldsFrom(t.send_buffer, P, t.accepted, 0) BY <1>22 DEF HoldsFrom, StreamByte
    <3> QED BY <3>1, <3>2
  <2>2. Len(P) \in Nat BY DEF StreamFits
  <2>3. 1 <= MaxSendBuffer BY <1>3
  <2> QED BY <1>3, <1>19, <1>22, <2>1, <2>2, <2>3 DEF Bytes
<1>26. Calls(t, P)
  <2>1. ~t.saved_close /\ ~t.closed BY <1>19 DEF SameCalls, Fresh
  <2>2. SubSeq(P, 1, 0) = <<>> /\ Len(P) \in Nat BY DEF StreamFits
  <2>3. t.saved_send \in Seq(Nat) /\ Len(t.saved_send) = 0 BY <1>19
  <2> QED BY <1>19, <1>21, <2>1, <2>2, <2>3 DEF Calls
<1>27. Window(t)
  <2>1. /\ t.ccc.cwnd \in Nat /\ t.ccc.cwnd >= Mss /\ t.ccc.snd_wnd \in Nat
        /\ t.ccc.state \in {"SlowStart", "CongestionAvoidance"}
    BY <1>19 DEF Fresh
  <2>2. t.ccc.snd_nxt <= t.rc.snd_una + t.ccc.cwnd BY <1>3, <1>10, <1>19, <2>1
  <2> QED BY <2>1, <2>2 DEF Window
<1>28. Sending(t, P, Iss + 1)
  <2>1. Numbered(<<>>, Iss + 1, Iss + 1, P, t.accepted, t.state \in Ending) BY <1>3, NumberedEmpty
  <2>2. ~SynQueued(t.queue) BY <1>19 DEF SynQueued
  <2>3. Iss + 1 # Iss BY <1>3
  <2> QED BY <1>3, <1>10, <1>19, <1>21, <1>23, <2>1, <2>2, <2>3 DEF Sending
<1>29. SenderOK(t, P)
  <2>1. t.queue \in Seq(Events) BY <1>19
  <2> QED BY <1>10, <1>19, <1>20, <1>21, <1>24, <1>25, <1>26, <1>27, <1>28, <2>1 DEF SenderOK
<1>30. HostOK(t, P)
  <2>1. ReceiverOK(t) BY <1>19, ReceiverSame
  <2> QED BY <1>19, <1>29, <2>1 DEF HostOK
<1>31. SequenceNumberOf(d) = Iss BY <1>5 DEF SequenceNumberOf, Fresh
<1>32. CarriesStream(OutgoingPacket(d, s), P)
  <2>1. Iss <= IntMax BY <1>3, <1>4
  <2>2. P \in Seq(Nat) BY DEF StreamFits
  <2> QED BY <1>2, <1>3, <1>4, <1>31, <2>1, <2>2, SegmentCarries
<1>33. OutgoingPacket(d, s) \in Packets
  <2>1. Iss \in SeqNum BY <1>3, <1>4 DEF SeqNum, Modulus
  <2>2. ReceiverOK(d) BY <1>5, ReceiverSame
  <2> QED BY <1>2, <1>31, <2>1, <2>2, OutgoingType
<1> QED BY <1>10, <1>15, <1>19, <1>30, <1>32, <1>33 DEF FirstSent

-------------------------------------------------------------------------------
\* The events of the queue.

\* Events of a socket that has been deleted are dropped.
LEMMA DroppedStep ==
    ASSUME NEW c, NEW d, NEW P, HostInv(c, P), ~c.exists, c.queue # <<>>, Taken(c, d)
    PROVE  Kept(c, d, P) /\ StaysSilent(c, d)
<1>1. Shape(c) /\ ReceiverOK(c) /\ Typed(c, P) /\ c.aborted = None BY DEF HostInv
<1>2. /\ Shape(d) /\ SameSend(c, d) /\ SameCalls(c, d) /\ SameState(c, d) /\ SameReceive(c, d)
      /\ d.aborted = c.aborted /\ d.rc = c.rc /\ d.queue = Tail(c.queue)
  BY DEF Taken
<1>3. ReceiverOK(d) BY <1>1, <1>2, ReceiverSame
<1>4. d.queue \in Seq(Events) BY <1>1, <1>2 DEF Typed
<1>5. Typed(d, P) BY <1>1, <1>2, <1>4 DEF Typed, SameSend, SameState
<1>6. ~Runs(d) BY <1>2 DEF Runs, SameCalls
<1> QED BY <1>1, <1>2, <1>3, <1>5, <1>6 DEF Kept, StaysSilent, HostInv

\* The first event of a silent host is a SYN, or sends one again.
LEMMA SilentHead ==
    ASSUME NEW c, Silent(c), c.queue \in Seq(Events), c.queue # <<>>
    PROVE  /\ Head(c.queue).event \in {"resend_packet", "send_packet"}
           /\ Head(c.queue).event = "send_packet" => Head(c.queue).p = Syn
<1>1. Head(c.queue) = c.queue[1] /\ 1 \in 1 .. Len(c.queue) OBVIOUS
<1> QED BY <1>1 DEF Silent

\* Every other event comes from a host whose SYN has been numbered.
LEMMA HighStep ==
    ASSUME NEW c, NEW t, NEW P, StreamsFit, StreamFits(P), HostInv(c, P), Runs(c), c.queue # <<>>,
           Head(c.queue).event \notin {"send_packet", "resend_packet", "connection_initiated"},
           HostOK(c, P) => HostOK(t, P), t.aborted = None
    PROVE  Kept(c, t, P) /\ StaysSilent(c, t)
<1>1. ~Fresh(c) BY FreshHead
<1>2. c.queue \in Seq(Events) BY DEF HostInv, Typed
<1>3. ~Silent(c) BY <1>2, SilentHead
<1>4. HostOK(c, P) BY <1>1, RunningHost DEF HostInv
<1> QED BY <1>3, <1>4, HostOKInv DEF Kept, StaysSilent

\* connection_initiated: the answer to the SYN is next.
LEMMA InitiatedStep ==
    ASSUME NEW c, NEW d, NEW P, StreamsFit, StreamFits(P), HostInv(c, P), Runs(c), c.queue # <<>>,
           Head(c.queue).event = "connection_initiated", Taken(c, d)
    PROVE  Kept(c, d, P) /\ StaysSilent(c, d)
<1>1. Shape(c) /\ ReceiverOK(c) /\ c.queue \in Seq(Events) /\ c.aborted = None BY DEF HostInv, Typed, Runs
<1>2. ~Silent(c) BY <1>1, SilentHead
<1>3. /\ Shape(d) /\ SameSend(c, d) /\ SameCalls(c, d) /\ SameState(c, d) /\ SameReceive(c, d)
      /\ d.aborted = c.aborted /\ d.rc = c.rc /\ d.queue = Tail(c.queue)
  BY DEF Taken
<1>4. CASE c.rc.initialized
  <2>1. HostOK(c, P) BY <1>4, RunningHost
  <2>2. HostOK(d, P) BY <2>1, TakenHost
  <2> QED BY <1>1, <1>2, <1>3, <2>2, HostOKInv DEF Kept, StaysSilent
<1>5. CASE ~c.rc.initialized
  <2>1. Fresh(c) BY <1>5 DEF HostInv
  <2>2. c.queue = <<[event |-> "connection_initiated", p |-> NakedSegment],
                    [event |-> "send_packet", p |-> SynAck]>>
    <3>1. FirstSegment(c.queue) BY <2>1, FreshHead
    <3>2. c.queue # <<[event |-> "send_packet", p |-> Syn]>>
      <4>1. SUFFICES ASSUME c.queue = <<[event |-> "send_packet", p |-> Syn]>> PROVE FALSE OBVIOUS
      <4> QED BY <4>1
    <3>3. c.queue # <<[event |-> "send_packet", p |-> SynAck]>>
      <4>1. SUFFICES ASSUME c.queue = <<[event |-> "send_packet", p |-> SynAck]>> PROVE FALSE OBVIOUS
      <4> QED BY <4>1
    <3> QED BY <3>1, <3>2, <3>3 DEF FirstSegment
  <2>3. d.queue = <<[event |-> "send_packet", p |-> SynAck]>>
    <3>1. PICK a : a = [event |-> "connection_initiated", p |-> NakedSegment] OBVIOUS
    <3>2. PICK b : b = [event |-> "send_packet", p |-> SynAck] OBVIOUS
    <3>3. c.queue = <<a, b>> BY <2>2, <3>1, <3>2
    <3>4. Tail(<<a, b>>) = <<b>> OBVIOUS
    <3> QED BY <1>3, <3>2, <3>3, <3>4
  <2>4. FirstSegment(d.queue) BY <2>3 DEF FirstSegment
  <2>5. c.state = "SynReceived" /\ c.connection_type # None
    <3>1. c.queue # <<[event |-> "send_packet", p |-> Syn]>>
      <4>1. SUFFICES ASSUME c.queue = <<[event |-> "send_packet", p |-> Syn]>> PROVE FALSE OBVIOUS
      <4> QED BY <4>1
    <3> QED BY <2>1, <3>1 DEF Fresh
  <2>6. Fresh(d) BY <1>3, <2>1, <2>4, <2>5 DEF Fresh, SameSend, SameCalls, SameState, SameReceive
  <2>7. ReceiverOK(d) BY <1>1, <1>3, ReceiverSame
  <2> QED BY <1>1, <1>2, <1>3, <1>5, <2>6, <2>7, FreshInv DEF Kept, StaysSilent
<1> QED BY <1>4, <1>5

\* connection_established: accept() returns.
LEMMA EstablishedHost ==
    ASSUME NEW c, NEW d, NEW P, HostOK(c, P), Taken(c, d), c.queue # <<>>,
           Head(c.queue).event = "connection_established"
    PROVE  HostOK([d EXCEPT !.connected = TRUE], P)
<1>1. HostOK(d, P) BY TakenHost
<1>2. PICK t : t = [d EXCEPT !.connected = TRUE] OBVIOUS
<1>3. Shape(d) /\ ReceiverOK(d) /\ SenderOK(d, P) BY <1>1 DEF HostOK
<1>4. /\ Shape(t) /\ SameSend(d, t) /\ SameCalls(d, t) /\ SameReceive(d, t) /\ t.aborted = d.aborted
      /\ t.state = d.state /\ t.time_wait_timer = d.time_wait_timer /\ t.queue = d.queue
  BY <1>2, <1>3 DEF Shape, SameSend, SameCalls, SameReceive
<1>5. ReceiverOK(t) BY <1>3, <1>4 DEF ReceiverOK, SameReceive
<1>6. Grown(d.queue, t.queue) BY <1>3, <1>4, GrownRefl DEF SenderOK
<1>7. Beside(d, t) BY <1>4, <1>5, <1>6 DEF Beside, AbortKept
<1> QED BY <1>1, <1>2, <1>7, BesideHost

\* delete_socket: nothing is asked of the socket any more.
LEMMA DeleteStep ==
    ASSUME NEW c, NEW d, NEW P, StreamsFit, StreamFits(P), HostInv(c, P), Runs(c), c.queue # <<>>,
           Head(c.queue).event = "delete_socket", Taken(c, d)
    PROVE  Kept(c, delete_socket(d), P) /\ StaysSilent(c, delete_socket(d))
<1>1. ~Fresh(c) BY FreshHead
<1>2. HostOK(c, P) BY <1>1, RunningHost DEF HostInv
<1>3. HostOK(d, P) /\ Typed(d, P) BY <1>2, TakenHost, HostTyped
<1>4. PICK t : t = delete_socket(d) OBVIOUS
<1>5. Shape(d) /\ ReceiverOK(d) /\ d.rc.initialized = TRUE BY <1>3 DEF HostOK, SenderOK
<1>6. /\ Shape(t) /\ SameSend(d, t) /\ SameState(d, t) /\ SameReceive(d, t) /\ t.aborted = d.aborted
      /\ t.exists = FALSE /\ t.queue = d.queue
  BY <1>4, <1>5 DEF delete_socket, Shape, SameSend, SameState, SameReceive
<1>7. ReceiverOK(t) BY <1>5, <1>6, ReceiverSame
<1>8. Typed(t, P) BY <1>3, <1>6 DEF Typed, SameSend, SameState
<1>9. ~Runs(t) /\ t.aborted = None BY <1>6 DEF Runs, Taken
<1>10. t.rc.initialized BY <1>5, <1>6 DEF SameSend
<1> QED BY <1>4, <1>6, <1>7, <1>8, <1>9, <1>10 DEF Kept, StaysSilent, HostInv

\* A silent host that only sends stays silent.
LEMMA SilentSame ==
    ASSUME NEW c, NEW t, Silent(c), SameState(c, t), SameReceive(c, t),
           t.ccc.probe_timer = FALSE, t.rc.initialized => t.rc.snd_una = Iss,
           \A i \in 1 .. Len(t.queue) :
                \/ t.queue[i].event = "resend_packet"
                \/ t.queue[i].event = "send_packet" /\ t.queue[i].p = Syn
    PROVE  Silent(t)
BY DEF Silent, SameState, SameReceive

\* A host that has received nothing takes an event from its queue.
LEMMA SilentTail ==
    ASSUME NEW c, Silent(c), c.queue \in Seq(Events), c.queue # <<>>
    PROVE  \A i \in 1 .. Len(Tail(c.queue)) :
                \/ Tail(c.queue)[i].event = "resend_packet"
                \/ Tail(c.queue)[i].event = "send_packet" /\ Tail(c.queue)[i].p = Syn
<1>1. PICK q \in Seq(Events) : q = c.queue OBVIOUS
<1>2. Len(Tail(q)) = Len(q) - 1 /\ \A i \in 1 .. (Len(q) - 1) : Tail(q)[i] = q[i + 1] BY <1>1
<1>3. \A i \in 1 .. Len(q) : q[i].event = "resend_packet" \/ (q[i].event = "send_packet" /\ q[i].p = Syn)
  BY <1>1 DEF Silent
<1>4. Len(q) \in Nat BY <1>1
<1>5. TAKE i \in 1 .. Len(Tail(c.queue))
<1>6. i \in 1 .. (Len(q) - 1) /\ i + 1 \in 1 .. Len(q) BY <1>1, <1>2, <1>4
<1> QED BY <1>1, <1>2, <1>3, <1>6

\* send_packet: a segment leaves the host.
LEMMA SendStep ==
    ASSUME NEW c, NEW d, NEW s, NEW P, StreamsFit, StreamFits(P), HostInv(c, P), Runs(c), c.queue # <<>>,
           Head(c.queue).event = "send_packet", Taken(c, d), s = Head(c.queue).p
    PROVE  LET t == send_packet(d, s)
               out == OutgoingPacket(d, s)
           IN /\ Kept(c, t, P) /\ StaysSilent(c, t) /\ t.rc.initialized /\ t.aborted = None
              /\ out \in Packets /\ CarriesStream(out, P)
              /\ Silent(c) => PureSyn(out)
<1>1. Shape(c) /\ ReceiverOK(c) /\ Typed(c, P) /\ c.queue \in Seq(Events) /\ c.aborted = None
  BY DEF HostInv, Typed, Runs
<1>2. PICK t : t = send_packet(d, s) OBVIOUS
<1>3. d.rc = c.rc /\ SameState(c, d) /\ SameReceive(c, d) BY DEF Taken
<1>4. Silent(c) => PureSyn(OutgoingPacket(d, s))
  <2>1. SUFFICES ASSUME Silent(c) PROVE PureSyn(OutgoingPacket(d, s)) OBVIOUS
  <2>2. s = Syn BY <1>1, <2>1, SilentHead
  <2>3. d.rc.rcv_nxt = 0 BY <1>3, <2>1 DEF Silent
  <2>4. s.syn = TRUE /\ s.ack = FALSE /\ s.fin = FALSE /\ s.data = <<>> BY <2>2 DEF Syn, Segment
  <2>5. (s.ack \/ d.rc.rcv_nxt # 0) = FALSE BY <2>3, <2>4
  <2>6. PICK o : o = OutgoingPacket(d, s) OBVIOUS
  <2>7. o.syn = s.syn /\ o.fin = s.fin /\ o.data = s.data /\ o.ack = (s.ack \/ d.rc.rcv_nxt # 0)
    BY <2>6 DEF OutgoingPacket
  <2> QED BY <2>4, <2>5, <2>6, <2>7 DEF PureSyn
<1>5. CASE c.rc.initialized
  <2>1. HostOK(c, P) /\ SenderOK(c, P) BY <1>5, RunningHost DEF HostOK
  <2>2. /\ Shape(t) /\ SameState(c, t) /\ SameReceive(c, t)
        /\ t.aborted = c.aborted /\ t.queue = Tail(c.queue)
        /\ t.ccc.probe_timer = c.ccc.probe_timer
        /\ t.rc.snd_una = c.rc.snd_una
        /\ SenderOK(t, P)
        /\ s \in Segments /\ CarriesStream(OutgoingPacket(d, s), P)
    BY <1>1, <1>2, <2>1, SendSegment
  <2>3. HostOK(t, P) BY <2>1, <2>2, SenderHost
  <2>4. Kept(c, t, P) /\ t.rc.initialized BY <1>1, <2>2, <2>3, HostOKInv DEF Kept
  <2>5. StaysSilent(c, t)
    <3>1. SUFFICES ASSUME Silent(c) PROVE Silent(t) BY DEF StaysSilent
    <3>2. \A i \in 1 .. Len(t.queue) :
                \/ t.queue[i].event = "resend_packet"
                \/ t.queue[i].event = "send_packet" /\ t.queue[i].p = Syn
      BY <1>1, <2>2, <3>1, SilentTail
    <3>3. t.ccc.probe_timer = FALSE /\ t.rc.snd_una = Iss BY <1>5, <2>2, <3>1 DEF Silent
    <3> QED BY <2>2, <3>1, <3>2, <3>3, SilentSame
  <2>6. OutgoingPacket(d, s) \in Packets
    <3>1. SequenceNumberOf(d) \in SeqNum BY <1>1, <1>3, <1>5 DEF SequenceNumberOf, Typed
    <3>2. ReceiverOK(d) BY <1>1, <1>3, ReceiverSame
    <3> QED BY <2>2, <3>1, <3>2, OutgoingType
  <2> QED BY <1>1, <1>2, <1>4, <2>2, <2>4, <2>5, <2>6
<1>6. CASE ~c.rc.initialized
  <2>1. Fresh(c) BY <1>6 DEF HostInv
  <2>2. /\ HostOK(t, P) /\ SameState(c, t) /\ SameReceive(c, t)
        /\ t.aborted = c.aborted /\ t.queue = <<>> /\ t.rc.snd_una = Iss
        /\ t.ccc.probe_timer = FALSE
        /\ CarriesStream(OutgoingPacket(d, s), P) /\ OutgoingPacket(d, s) \in Packets
    <3>1. FirstSent(c, d, s, t, P) BY <1>1, <1>2, <2>1, FirstSend
    <3> QED BY <3>1 DEF FirstSent
  <2>3. Kept(c, t, P) /\ t.rc.initialized BY <1>1, <2>2, HostOKInv DEF Kept
  <2>4. StaysSilent(c, t)
    <3>1. SUFFICES ASSUME Silent(c) PROVE Silent(t) BY DEF StaysSilent
    <3>2. \A i \in 1 .. Len(t.queue) :
                \/ t.queue[i].event = "resend_packet"
                \/ t.queue[i].event = "send_packet" /\ t.queue[i].p = Syn
      BY <2>2
    <3> QED BY <2>2, <3>1, <3>2, SilentSame
  <2> QED BY <1>1, <1>2, <1>4, <2>2, <2>3, <2>4
<1> QED BY <1>5, <1>6

\* resend_packet: what starts at SND.UNA is queued again.
LEMMA ResendStep ==
    ASSUME NEW c, NEW d, NEW P, StreamsFit, StreamFits(P), HostInv(c, P), Runs(c), c.queue # <<>>,
           Head(c.queue).event = "resend_packet", Taken(c, d), cc_resend_packet(d).aborted = None
    PROVE  LET t == cc_resend_packet(d) IN Kept(c, t, P) /\ StaysSilent(c, t)
<1>1. Shape(c) /\ ReceiverOK(c) /\ c.queue \in Seq(Events) /\ c.aborted = None
  BY DEF HostInv, Typed, Runs
<1>2. PICK t : t = cc_resend_packet(d) OBVIOUS
<1>3. ~Fresh(c) BY FreshHead
<1>4. HostOK(c, P) /\ SenderOK(c, P) BY <1>3, RunningHost DEF HostInv, HostOK
<1>5. Resending(c)
  <2>1. ASSUME NEW e, Sending(c, P, e) PROVE FALSE
    <3>1. Numbered(c.queue, c.rc.snd_nxt, e, P, c.accepted, c.state \in Ending) BY <2>1 DEF Sending
    <3>2. FitsAt(Head(c.queue), c.rc.snd_nxt, P, c.accepted, c.state \in Ending) BY <3>1, NumberedTail
    <3> QED BY <3>2 DEF FitsAt
  <2> QED BY <1>4, <2>1 DEF SenderOK
<1>6. /\ Shape(t) /\ SameState(c, t) /\ SameReceive(c, t) /\ t.rc = c.rc
      /\ t.ccc.probe_timer = c.ccc.probe_timer
      /\ SenderOK(t, P)
      /\ \E s : /\ t.queue = Append(Tail(c.queue), [event |-> "send_packet", p |-> s])
                /\ c.rc.snd_una = Iss => s = Syn
  BY <1>1, <1>2, <1>4, <1>5, ResendKeeps
<1>7. HostOK(t, P) BY <1>4, <1>6, SenderHost
<1>8. Kept(c, t, P) BY <1>2, <1>7, HostOKInv DEF Kept
<1>9. StaysSilent(c, t)
  <2>1. SUFFICES ASSUME Silent(c) PROVE Silent(t) BY DEF StaysSilent
  <2>2. c.rc.initialized = TRUE BY <1>4 DEF SenderOK
  <2>3. c.rc.snd_una = Iss BY <2>1, <2>2 DEF Silent
  <2>4. t.queue = Append(Tail(c.queue), [event |-> "send_packet", p |-> Syn]) BY <1>6, <2>3
  <2>5. PICK x \in Events : x = [event |-> "send_packet", p |-> Syn]
    <3>1. <<>> \in Seq(Nat) OBVIOUS
    <3>2. [event |-> "send_packet", p |-> Syn] \in Events
      BY <3>1 DEF Events, ProtocolEvents, Segments, Syn, Segment
    <3> QED BY <3>2
  <2>6. PICK q \in Seq(Events) : q = Tail(c.queue)
    <3>1. Tail(c.queue) \in Seq(Events) BY <1>1
    <3> QED BY <3>1
  <2>7. /\ Len(Append(q, x)) = Len(q) + 1 /\ Append(q, x)[Len(q) + 1] = x
        /\ \A i \in 1 .. Len(q) : Append(q, x)[i] = q[i]
    BY <2>5, <2>6
  <2>8. \A i \in 1 .. Len(q) : q[i].event = "resend_packet" \/ (q[i].event = "send_packet" /\ q[i].p = Syn)
    BY <1>1, <2>1, <2>6, SilentTail
  <2>9. \A i \in 1 .. Len(t.queue) :
                \/ t.queue[i].event = "resend_packet"
                \/ t.queue[i].event = "send_packet" /\ t.queue[i].p = Syn
    <3>1. t.queue = Append(q, x) BY <2>4, <2>5, <2>6
    <3>2. x.event = "send_packet" /\ x.p = Syn BY <2>5
    <3>3. Len(q) \in Nat BY <2>6
    <3>4. TAKE i \in 1 .. Len(t.queue)
    <3>5. i \in 1 .. Len(q) \/ i = Len(q) + 1 BY <2>7, <3>1, <3>3
    <3> QED BY <2>7, <2>8, <3>1, <3>2, <3>5
  <2>10. t.ccc.probe_timer = FALSE /\ t.rc.snd_una = Iss BY <1>6, <2>1, <2>3 DEF Silent
  <2> QED BY <1>6, <2>1, <2>9, <2>10, SilentSame
<1> QED BY <1>2, <1>8, <1>9

\* The retransmission timer queues a resend.
LEMMA TimerStep ==
    ASSUME NEW c, NEW P, StreamsFit, StreamFits(P), HostInv(c, P), Runs(c), c.queue = <<>>, c.rc.timer
    PROVE  LET t == rc_timer_fired(c) IN t.aborted = None => Kept(c, t, P) /\ StaysSilent(c, t)
<1>1. ~Fresh(c) BY DEF Fresh
<1>2. HostOK(c, P) /\ SenderOK(c, P) /\ Shape(c) BY <1>1, RunningHost DEF HostInv, HostOK
<1>3. PICK t : t = rc_timer_fired(c) OBVIOUS
<1>4. HostOK(t, P) BY <1>2, <1>3, TimerHost
<1>5. t.aborted = None => Kept(c, t, P) BY <1>4, HostOKInv DEF Kept
<1>6. StaysSilent(c, t)
  <2>1. SUFFICES ASSUME Silent(c) PROVE Silent(t) BY DEF StaysSilent
  <2>2. PICK b : b = cancel_timer(c) OBVIOUS
  <2>3. /\ Shape(b) /\ SameState(c, b) /\ SameReceive(c, b) /\ b.ccc = c.ccc
        /\ b.rc.initialized = c.rc.initialized /\ b.rc.snd_una = c.rc.snd_una /\ b.rc.snd_max = c.rc.snd_max
        /\ b.queue = c.queue
    BY <1>2, <2>2 DEF cancel_timer, Shape, SameState, SameReceive
  <2>4. /\ b.rc.snd_una \in Nat /\ b.rc.snd_max \in Nat
        /\ b.rc.snd_una <= b.rc.snd_max /\ b.rc.snd_max <= IntMax
    <3>1. PICK u \in Nat : u = c.rc.snd_una BY <1>2 DEF SenderOK, Counters
    <3>2. PICK n \in Nat : n = c.rc.snd_nxt BY <1>2 DEF SenderOK, Counters
    <3>3. PICK m \in Nat : m = c.rc.snd_max BY <1>2 DEF SenderOK, Counters
    <3>4. PICK end \in Nat : end = BufferEnd(c) /\ end + 1 <= IntMax BY <1>2, SenderRange
    <3>5. u <= n /\ n <= m /\ m <= end BY <1>2, <3>1, <3>2, <3>3, <3>4 DEF SenderOK, Counters
    <3>6. IntMax \in Nat BY Constants
    <3> QED BY <2>3, <3>1, <3>3, <3>4, <3>5, <3>6
  <2>5. /\ SameState(b, t) /\ SameReceive(b, t) /\ t.ccc = b.ccc /\ t.rc.snd_una = b.rc.snd_una
        /\ t.queue = Append(b.queue, [event |-> "resend_packet", p |-> NakedSegment])
    BY <1>3, <2>2, <2>3, <2>4, ResendData DEF rc_timer_fired
  <2>6. \A i \in 1 .. Len(t.queue) :
                \/ t.queue[i].event = "resend_packet"
                \/ t.queue[i].event = "send_packet" /\ t.queue[i].p = Syn
    <3>1. t.queue = <<[event |-> "resend_packet", p |-> NakedSegment]>> BY <2>3, <2>5
    <3> QED BY <3>1
  <2>7. c.rc.initialized = TRUE BY <1>2 DEF SenderOK
  <2>8. t.ccc.probe_timer = FALSE /\ t.rc.snd_una = Iss BY <2>1, <2>3, <2>5, <2>7 DEF Silent
  <2>9. SameState(c, t) /\ SameReceive(c, t) BY <2>3, <2>5 DEF SameState, SameReceive
  <2> QED BY <2>1, <2>6, <2>8, <2>9, SilentSame
<1> QED BY <1>3, <1>5, <1>6

-------------------------------------------------------------------------------
\* The invariant of the connection.

\* Packets under way carry the stream of their sender.
Carried(H, N, h) ==
    /\ HostInv(H[h], Payload[h])
    /\ \A p \in N[h] : p \in Packets /\ CarriesStream(p, Payload[h])

\* Before a host has sent anything its peer has received nothing, and so has sent
\* nothing but SYNs.
Handshake(H, N, h) ==
    ~H[h].rc.initialized =>
        /\ N[h] = {}
        /\ Runs(H[Peer(h)]) => Silent(H[Peer(h)])
        /\ \A p \in N[Peer(h)] : PureSyn(p)

Connection(H, N) ==
    /\ DOMAIN H = Hosts /\ DOMAIN N = Hosts
    /\ \A h \in Hosts : Carried(H, N, h) /\ Handshake(H, N, h)

Inv == Connection(host, net)

\* There are two hosts.
LEMMA Peers ==
    ASSUME StreamsFit, NEW h \in Hosts
    PROVE  /\ Peer(h) \in Hosts /\ Peer(h) # h /\ Peer(Peer(h)) = h
           /\ \A g \in Hosts : g = h \/ g = Peer(h)
BY Constants DEF Hosts, Peer

\* H2 and N2 are H and N after a step of host h, whose socket is t then.
LEMMA ConnectionStep ==
    ASSUME StreamsFit, NEW H, NEW N, Connection(H, N), NEW h \in Hosts, NEW t,
           Kept(H[h], t, Payload[h]),
           NEW H2, H2 = [H EXCEPT ![h] = t], NEW N2, DOMAIN N2 = Hosts,
           \A p \in N2[h] : p \in Packets /\ CarriesStream(p, Payload[h]),
           \A p \in N2[Peer(h)] : p \in N[Peer(h)],
           ~t.rc.initialized => N2[h] = {},
           ~H[Peer(h)].rc.initialized =>
                (Runs(t) => Silent(t)) /\ \A p \in N2[h] : PureSyn(p)
    PROVE  Connection(H2, N2)
<1>1. /\ Peer(h) \in Hosts /\ Peer(h) # h /\ Peer(Peer(h)) = h
      /\ \A g \in Hosts : g = h \/ g = Peer(h)
  BY Peers
<1>2. PICK k : k = Peer(h) OBVIOUS
<1>3. DOMAIN H2 = Hosts /\ H2[h] = t /\ H2[k] = H[k] BY <1>1, <1>2 DEF Connection
<1>4. Carried(H2, N2, h) BY <1>3 DEF Carried, Kept
<1>5. Carried(H, N, k) /\ Handshake(H, N, k) /\ Handshake(H, N, h) BY <1>1, <1>2 DEF Connection
<1>6. Carried(H2, N2, k) BY <1>2, <1>3, <1>5 DEF Carried
<1>7. Handshake(H2, N2, h)
  <2>1. SUFFICES ASSUME ~t.rc.initialized
                 PROVE  N2[h] = {} /\ (Runs(H[k]) => Silent(H[k])) /\ \A p \in N2[k] : PureSyn(p)
    BY <1>2, <1>3 DEF Handshake
  <2>2. ~H[h].rc.initialized BY <2>1 DEF Kept
  <2> QED BY <1>2, <1>5, <2>1, <2>2 DEF Handshake
<1>8. Handshake(H2, N2, k)
  <2>1. SUFFICES ASSUME ~H[k].rc.initialized
                 PROVE  N2[k] = {} /\ (Runs(t) => Silent(t)) /\ \A p \in N2[h] : PureSyn(p)
    BY <1>1, <1>2, <1>3 DEF Handshake
  <2>2. N[k] = {} BY <1>5, <2>1 DEF Handshake
  <2>3. N2[k] = {} BY <1>2, <2>2
  <2> QED BY <1>2, <2>1, <2>3
<1> QED BY <1>1, <1>2, <1>3, <1>4, <1>6, <1>7, <1>8 DEF Connection

\* A step that neither sends nor takes a packet.
LEMMA LocalStep ==
    ASSUME StreamsFit, NEW H, NEW N, Connection(H, N), NEW h \in Hosts, NEW t,
           Kept(H[h], t, Payload[h]), StaysSilent(H[h], t), Runs(t) => Runs(H[h])
    PROVE  Connection([H EXCEPT ![h] = t], N)
<1>1. Peer(h) \in Hosts /\ Peer(Peer(h)) = h BY Peers
<1>2. DOMAIN N = Hosts /\ Carried(H, N, h) /\ Handshake(H, N, h) /\ Handshake(H, N, Peer(h))
  BY <1>1 DEF Connection
<1>3. \A p \in N[h] : p \in Packets /\ CarriesStream(p, Payload[h]) BY <1>2 DEF Carried
<1>4. ~t.rc.initialized => N[h] = {} BY <1>2 DEF Handshake, Kept
<1>5. ~H[Peer(h)].rc.initialized => (Runs(H[h]) => Silent(H[h])) /\ \A p \in N[h] : PureSyn(p)
  BY <1>1, <1>2 DEF Handshake
<1>6. ~H[Peer(h)].rc.initialized => (Runs(t) => Silent(t)) /\ \A p \in N[h] : PureSyn(p)
  BY <1>5 DEF StaysSilent
<1>7. PICK H2 : H2 = [H EXCEPT ![h] = t] OBVIOUS
<1>8. \A p \in N[Peer(h)] : p \in N[Peer(h)] OBVIOUS
<1>9. Connection(H2, N) BY <1>2, <1>3, <1>4, <1>6, <1>7, <1>8, ConnectionStep
<1> QED BY <1>7, <1>9

\* A packet leaves.
LEMMA OutStep ==
    ASSUME StreamsFit, NEW H, NEW N, Connection(H, N), NEW h \in Hosts, NEW t,
           Kept(H[h], t, Payload[h]), StaysSilent(H[h], t), Runs(H[h]), t.rc.initialized,
           NEW out, out \in Packets, CarriesStream(out, Payload[h]), Silent(H[h]) => PureSyn(out)
    PROVE  Connection([H EXCEPT ![h] = t], [N EXCEPT ![h] = @ \cup {out}])
<1>1. Peer(h) \in Hosts /\ Peer(Peer(h)) = h /\ Peer(h) # h BY Peers
<1>2. DOMAIN N = Hosts /\ Carried(H, N, h) /\ Handshake(H, N, h) /\ Handshake(H, N, Peer(h))
  BY <1>1 DEF Connection
<1>3. PICK H2 : H2 = [H EXCEPT ![h] = t] OBVIOUS
<1>4. PICK N2 : N2 = [N EXCEPT ![h] = @ \cup {out}] OBVIOUS
<1>5. DOMAIN N2 = Hosts /\ N2[h] = N[h] \cup {out} /\ N2[Peer(h)] = N[Peer(h)] BY <1>1, <1>2, <1>4
<1>6. \A p \in N2[h] : p \in Packets /\ CarriesStream(p, Payload[h]) BY <1>2, <1>5 DEF Carried
<1>7. ~H[Peer(h)].rc.initialized => (Runs(H[h]) => Silent(H[h])) /\ \A p \in N[h] : PureSyn(p)
  BY <1>1, <1>2 DEF Handshake
<1>8. ~H[Peer(h)].rc.initialized => (Runs(t) => Silent(t)) /\ \A p \in N2[h] : PureSyn(p)
  BY <1>5, <1>7 DEF StaysSilent
<1>9. \A p \in N2[Peer(h)] : p \in N[Peer(h)] BY <1>5
<1>10. Connection(H2, N2) BY <1>3, <1>5, <1>6, <1>8, <1>9, ConnectionStep
<1> QED BY <1>3, <1>4, <1>10

\* A packet of the peer is taken: the peer has sent something.
LEMMA InStep ==
    ASSUME StreamsFit, NEW H, NEW N, Connection(H, N), NEW h \in Hosts, NEW t,
           Kept(H[h], t, Payload[h]), H[Peer(h)].rc.initialized,
           NEW N2, DOMAIN N2 = Hosts, N2[h] = N[h], \A p \in N2[Peer(h)] : p \in N[Peer(h)]
    PROVE  Connection([H EXCEPT ![h] = t], N2)
<1>1. Carried(H, N, h) /\ Handshake(H, N, h) BY DEF Connection
<1>2. \A p \in N2[h] : p \in Packets /\ CarriesStream(p, Payload[h]) BY <1>1 DEF Carried
<1>3. ~t.rc.initialized => N2[h] = {} BY <1>1 DEF Handshake, Kept
<1>4. PICK H2 : H2 = [H EXCEPT ![h] = t] OBVIOUS
<1>5. Connection(H2, N2) BY <1>2, <1>3, <1>4, ConnectionStep
<1> QED BY <1>4, <1>5

-------------------------------------------------------------------------------
\* The steps of the machine.

\* The handler of a running host returns d.
LEMMA BecomeStep ==
    ASSUME StreamsFit, Inv, NEW h \in Hosts, NEW d, Become(h, d), net' = net, Runs(host[h]),
           d.aborted = None => Kept(host[h], d, Payload[h]) /\ StaysSilent(host[h], d)
    PROVE  Inv'
<1>1. PICK H : H = host OBVIOUS
<1>2. PICK N : N = net OBVIOUS
<1>3. Connection(H, N) BY <1>1, <1>2 DEF Inv
<1>4. HostInv(H[h], Payload[h]) /\ StreamFits(Payload[h]) /\ DOMAIN H = Hosts
  BY <1>3 DEF Connection, Carried, StreamsFit
<1>5. PICK t : t = Became(H[h], d) OBVIOUS
<1>6. host' = [H EXCEPT ![h] = t] BY <1>1, <1>5 DEF Become, Became
<1>7. Kept(H[h], t, Payload[h]) BY <1>1, <1>4, <1>5, BecameKept
<1>8. StaysSilent(H[h], t)
  <2>1. Shape(H[h]) BY <1>4 DEF HostInv
  <2> QED BY <1>1, <1>5, <2>1, BecameSilent
<1>9. Connection([H EXCEPT ![h] = t], N) BY <1>1, <1>3, <1>7, <1>8, LocalStep
<1> QED BY <1>2, <1>6, <1>9 DEF Inv

\* What the invariant says of one host.
LEMMA OneHost ==
    ASSUME StreamsFit, Inv, NEW h \in Hosts
    PROVE  /\ HostInv(host[h], Payload[h]) /\ StreamFits(Payload[h])
           /\ Running(h) <=> Runs(host[h])
           /\ AcceptsLow(h) => Runs(host[h]) /\ host[h].queue = <<>>
           /\ host[h].queue # <<>> /\ host[h].exists => Runs(host[h])
<1>1. HostInv(host[h], Payload[h]) /\ StreamFits(Payload[h]) BY DEF Inv, Connection, Carried, StreamsFit
<1>2. Running(h) <=> Runs(host[h]) BY DEF Running, Runs
<1>3. host[h].queue # <<>> /\ host[h].exists => Runs(host[h]) BY <1>1 DEF HostInv, Runs
<1> QED BY <1>1, <1>2, <1>3 DEF AcceptsLow, Quiet

\* A HIGH event whose handler returns d.
LEMMA HandleStep ==
    ASSUME StreamsFit, Inv, NEW h \in Hosts, NEW event, NEW d, Handle(h, event, d),
           Runs(host[h]) /\ d.aborted = None =>
                Kept(host[h], d, Payload[h]) /\ StaysSilent(host[h], d)
    PROVE  Inv'
<1>1. HostInv(host[h], Payload[h]) /\ StreamFits(Payload[h]) BY OneHost
<1>2. host[h].queue # <<>> /\ net' = net BY DEF Handle, NextEvent
<1>3. CASE host[h].exists
  <2>1. Become(h, d) BY <1>3 DEF Handle
  <2>2. Runs(host[h]) BY <1>2, <1>3, OneHost
  <2> QED BY <1>2, <2>1, <2>2, BecomeStep
<1>4. CASE ~host[h].exists
  <2>1. PICK H : H = host OBVIOUS
  <2>2. PICK N : N = net OBVIOUS
  <2>3. PICK r : r = Dequeued(h) OBVIOUS
  <2>4. Become(h, r) BY <1>4, <2>3 DEF Handle
  <2>5. Shape(H[h]) /\ H[h].aborted = None BY <1>1, <1>2, <2>1 DEF HostInv
  <2>6. r = [H[h] EXCEPT !.queue = Tail(@)] BY <2>1, <2>3 DEF Dequeued
  <2>7. Taken(H[h], r) BY <2>5, <2>6, Dequeue
  <2>8. Kept(H[h], r, Payload[h]) /\ StaysSilent(H[h], r) BY <1>1, <1>2, <1>4, <2>1, <2>7, DroppedStep
  <2>9. r.aborted = None /\ ~Runs(r) BY <1>4, <2>1, <2>5, <2>7 DEF Taken, SameCalls, Runs
  <2>10. host' = [H EXCEPT ![h] = r] BY <2>1, <2>4, <2>9 DEF Become
  <2>11. Connection(H, N) BY <2>1, <2>2 DEF Inv
  <2>12. Connection([H EXCEPT ![h] = r], N) BY <2>8, <2>9, <2>11, LocalStep
  <2> QED BY <1>2, <2>2, <2>10, <2>12 DEF Inv
<1> QED BY <1>3, <1>4

\* connect() and listen().
LEMMA OpenSteps ==
    ASSUME StreamsFit, Inv, Connect \/ ListenCall
    PROVE  Inv'
<1>1. Client \in Hosts /\ Server \in Hosts BY DEF Hosts
<1>2. CASE Connect
  <2>1. PICK d : d = cm_connect(host[Client]) OBVIOUS
  <2>2. Become(Client, d) /\ net' = net BY <1>2, <2>1 DEF Connect
  <2>3. HostInv(host[Client], Payload[Client]) /\ StreamFits(Payload[Client]) /\ Runs(host[Client])
    BY <1>1, <1>2, OneHost DEF Connect
  <2>4. Kept(host[Client], d, Payload[Client]) /\ StaysSilent(host[Client], d)
    BY <1>2, <2>1, <2>3, ConnectStep DEF Connect
  <2> QED BY <1>1, <2>2, <2>3, <2>4, BecomeStep
<1>3. CASE ListenCall
  <2>1. PICK d : d = cm_listen(host[Server]) OBVIOUS
  <2>2. Become(Server, d) /\ net' = net BY <1>3, <2>1 DEF ListenCall
  <2>3. HostInv(host[Server], Payload[Server]) /\ StreamFits(Payload[Server]) /\ Runs(host[Server])
    BY <1>1, <1>3, OneHost DEF ListenCall
  <2>4. Kept(host[Server], d, Payload[Server]) /\ StaysSilent(host[Server], d)
    BY <1>3, <2>1, <2>3, ListenStep DEF ListenCall
  <2> QED BY <1>1, <2>2, <2>3, <2>4, BecomeStep
<1> QED BY <1>2, <1>3

\* A LOW event of a host that has numbered its SYN and is not silent.
LEMMA LowStep ==
    ASSUME StreamsFit, Inv, NEW h \in Hosts, AcceptsLow(h), ~Fresh(host[h]), ~Silent(host[h]),
           NEW d, Become(h, d), net' = net,
           HostOK(host[h], Payload[h]) /\ d.aborted = None => HostOK(d, Payload[h])
    PROVE  Inv'
<1>1. HostInv(host[h], Payload[h]) /\ StreamFits(Payload[h]) /\ Runs(host[h]) BY OneHost
<1>2. HostOK(host[h], Payload[h]) BY <1>1, RunningHost DEF HostInv
<1>3. ASSUME d.aborted = None PROVE Kept(host[h], d, Payload[h]) /\ StaysSilent(host[h], d)
  BY <1>1, <1>2, <1>3, HostOKInv DEF Kept, StaysSilent
<1> QED BY <1>1, <1>3, BecomeStep

\* A call that the state does not allow.
LEMMA StuckHost ==
    ASSUME NEW c, NEW P, HostOK(c, P)
    PROVE  HostOK([c EXCEPT !.stuck = TRUE], P)
<1>1. Shape(c) /\ ReceiverOK(c) /\ Formed(c) BY HostFormed DEF HostOK
<1>2. PICK t : t = [c EXCEPT !.stuck = TRUE] OBVIOUS
<1>3. ReceiverOnly(c, t) BY <1>1, <1>2 DEF ReceiverOnly, Shape, SameSend, SameCalls, SameState, AbortKept
<1>4. SameState(c, t) /\ SameReceive(c, t) BY <1>1, <1>2 DEF Shape, SameState, SameReceive
<1>5. ReceiverOK(t) BY <1>1, <1>4, ReceiverSame
<1> QED BY <1>1, <1>2, <1>3, <1>5, ReceiverBeside, BesideHost

\* The calls of the application.
LEMMA CallStep ==
    ASSUME StreamsFit, Inv, NEW h \in Hosts, NEW allowed \in BOOLEAN, NEW d, ApplicationCall(h, allowed, d),
           HostOK(host[h], Payload[h]) /\ host[h].queue = <<>> /\ host[h].saved_send = <<>> /\ ~host[h].closed
                => HostOK(d, Payload[h])
    PROVE  Inv'
<1>1. AcceptsLow(h) /\ host[h].connected /\ host[h].saved_send = <<>> /\ ~host[h].closed
  BY DEF ApplicationCall, ApplicationIdle
<1>2. ~Fresh(host[h]) /\ ~Silent(host[h]) BY <1>1 DEF Fresh, Silent
<1>3. host[h].queue = <<>> /\ net' = net BY <1>1, OneHost DEF ApplicationCall
<1>4. PICK r : r = IF allowed THEN d ELSE [host[h] EXCEPT !.stuck = TRUE] OBVIOUS
<1>5. Become(h, r) BY <1>4 DEF ApplicationCall
<1>6. HostOK(host[h], Payload[h]) => HostOK(r, Payload[h])
  <2>1. CASE allowed BY <1>1, <1>3, <1>4, <2>1
  <2>2. CASE ~allowed
    <3>1. r = [host[h] EXCEPT !.stuck = TRUE] BY <1>4, <2>2
    <3>2. PICK c : c = host[h] OBVIOUS
    <3> QED BY <3>1, <3>2, StuckHost
  <2> QED BY <2>1, <2>2
<1> QED BY <1>1, <1>2, <1>3, <1>5, <1>6, LowStep

\* The calls of a connected application.
LEMMA ApplicationSteps ==
    ASSUME StreamsFit, Inv, NEW h \in Hosts, Send(h) \/ Receive(h) \/ Close(h)
    PROVE  Inv'
<1>1. StreamFits(Payload[h]) BY OneHost
<1>2. PICK c : c = host[h] OBVIOUS
<1>3. PICK P : P = Payload[h] OBVIOUS
<1>4. CASE Send(h)
  <2>1. PICK n \in SendLengths :
            ApplicationCall(h, can_send(c),
                tahoe_send(c, SubSeq(P, c.accepted + 1, Lesser(c.accepted + n, Len(P)))))
    BY <1>2, <1>3, <1>4 DEF Send
  <2>2. PICK data : data = SubSeq(P, c.accepted + 1, Lesser(c.accepted + n, Len(P))) OBVIOUS
  <2>3. PICK d : d = tahoe_send(c, data) OBVIOUS
  <2>4. PICK allowed \in BOOLEAN : allowed = can_send(c)
    <3>1. can_send(c) \in BOOLEAN BY DEF can_send
    <3> QED BY <3>1
  <2>5. ApplicationCall(h, allowed, d) BY <2>1, <2>2, <2>3, <2>4
  <2>6. n \in Nat BY DEF StreamsFit
  <2>7. ASSUME HostOK(c, P), c.queue = <<>>, c.saved_send = <<>>, ~c.closed PROVE HostOK(d, P)
    <3>1. SenderOK(c, P) BY <2>7 DEF HostOK
    <3>2. NextBytes(c, P, data) BY <1>1, <1>3, <2>2, <2>6, <3>1, OfferedBytes
    <3> QED BY <1>1, <1>3, <2>3, <2>7, <3>2, SendHost
  <2> QED BY <1>2, <1>3, <2>5, <2>7, CallStep
<1>5. CASE Receive(h)
  <2>1. PICK n \in RecvLengths : ApplicationCall(h, can_receive(c), rc_receive(c, n)) BY <1>2, <1>5 DEF Receive
  <2>2. PICK d : d = rc_receive(c, n) OBVIOUS
  <2>3. PICK allowed \in BOOLEAN : allowed = can_receive(c)
    <3>1. can_receive(c) \in BOOLEAN BY DEF can_receive
    <3> QED BY <3>1
  <2>4. ApplicationCall(h, allowed, d) BY <2>1, <2>2, <2>3
  <2>5. n \in Int
    <3>1. n \in Nat BY DEF StreamsFit
    <3> QED BY <3>1
  <2>6. ASSUME HostOK(c, P) PROVE HostOK(d, P)
    <3>1. Beside(c, d) BY <2>2, <2>5, <2>6, HostFormed, RcReceive
    <3> QED BY <2>6, <3>1, BesideHost
  <2> QED BY <1>2, <1>3, <2>4, <2>6, CallStep
<1>6. CASE Close(h)
  <2>1. PICK d : d = tahoe_close(c) OBVIOUS
  <2>2. ApplicationCall(h, TRUE, d) BY <1>2, <1>6, <2>1 DEF Close
  <2>3. ASSUME HostOK(c, P), c.queue = <<>>, c.saved_send = <<>> PROVE HostOK(d, P)
    BY <1>1, <1>3, <2>1, <2>3, CloseHost
  <2> QED BY <1>2, <1>3, <2>2, <2>3, CallStep
<1> QED BY <1>4, <1>5, <1>6

\* A packet arrives, and may arrive again.
LEMMA ReceiveStep ==
    ASSUME StreamsFit, Inv, NEW h \in Hosts, ReceivePacket(h)
    PROVE  Inv'
<1>1. PICK H : H = host OBVIOUS
<1>2. PICK N : N = net OBVIOUS
<1>3. Connection(H, N) BY <1>1, <1>2 DEF Inv
<1>4. HostInv(H[h], Payload[h]) /\ StreamFits(Payload[h]) BY <1>1, OneHost
<1>5. Runs(H[h]) /\ H[h].queue = <<>> BY <1>1, OneHost DEF ReceivePacket
<1>6. Peer(h) \in Hosts /\ Peer(h) # h /\ Peer(Peer(h)) = h BY Peers
<1>7. /\ Carried(H, N, Peer(h)) /\ Handshake(H, N, h) /\ Handshake(H, N, Peer(h)) /\ DOMAIN N = Hosts
  BY <1>3, <1>6 DEF Connection
<1>8. PICK p \in N[Peer(h)] :
        /\ \E trap \in Traps(h) : Become(h, receive_packet(H[h], p, trap))
        /\ net' = [N EXCEPT ![Peer(h)] = @ \ {p}] \/ net' = N
  BY <1>1, <1>2 DEF ReceivePacket
<1>9. PICK trap : Become(h, receive_packet(H[h], p, trap)) BY <1>8
<1>10. PICK d : d = receive_packet(H[h], p, trap) OBVIOUS
<1>11. p \in Packets BY <1>7 DEF Carried
<1>12. H[Peer(h)].rc.initialized
  <2>1. N[Peer(h)] # {} BY <1>8
  <2> QED BY <1>7, <2>1 DEF Handshake
<1>13. d.aborted = None => Kept(H[h], d, Payload[h])
  <2>1. CASE H[h].rc.initialized
    <3>1. HostOK(H[h], Payload[h]) BY <1>4, <1>5, <2>1, RunningHost
    <3>2. HostOK(d, Payload[h]) BY <1>4, <1>5, <1>10, <1>11, <3>1, ReceiveHost
    <3> QED BY <1>4, <3>2, HostOKInv DEF Kept
  <2>2. CASE ~H[h].rc.initialized
    <3>1. PureSyn(p) BY <1>7, <2>2 DEF Handshake
    <3> QED BY <1>4, <1>5, <1>10, <1>11, <2>2, <3>1, FreshReceive
  <2> QED BY <2>1, <2>2
<1>14. PICK t : t = Became(H[h], d) OBVIOUS
<1>15. Kept(H[h], t, Payload[h]) BY <1>4, <1>13, <1>14, BecameKept
<1>16. host' = [H EXCEPT ![h] = t] BY <1>1, <1>9, <1>10, <1>14 DEF Become, Became
<1>17. PICK N2 : N2 = net' OBVIOUS
<1>18. DOMAIN N2 = Hosts /\ N2[h] = N[h] /\ \A q \in N2[Peer(h)] : q \in N[Peer(h)]
  BY <1>6, <1>7, <1>8, <1>17
<1>19. Connection([H EXCEPT ![h] = t], N2) BY <1>3, <1>12, <1>15, <1>18, InStep
<1> QED BY <1>16, <1>17, <1>19 DEF Inv

\* The saved FIN comes back, and the timers fire.
LEMMA TimerSteps ==
    ASSUME StreamsFit, Inv, NEW h \in Hosts,
           ReceiveSavedFin(h) \/ RetransmissionTimer(h) \/ ProbeTimer(h) \/ TimeWaitTimer(h)
    PROVE  Inv'
<1>1. PICK c : c = host[h] OBVIOUS
<1>2. PICK P : P = Payload[h] OBVIOUS
<1>3. AcceptsLow(h) BY DEF ReceiveSavedFin, RetransmissionTimer, ProbeTimer, TimeWaitTimer
<1>4. HostInv(c, P) /\ StreamFits(P) /\ Runs(c) /\ c.queue = <<>> BY <1>1, <1>2, <1>3, OneHost
<1>5. CASE ReceiveSavedFin(h)
  <2>1. PICK p \in c.redispatched : Become(h, receive_packet([c EXCEPT !.redispatched = {}], p, FALSE))
    BY <1>1, <1>5 DEF ReceiveSavedFin
  <2>2. PICK d : d = receive_packet([c EXCEPT !.redispatched = {}], p, FALSE) OBVIOUS
  <2>3. ~Fresh(c) /\ ~Silent(c) BY <2>1 DEF Fresh, Silent
  <2>4. HostOK(c, P) => HostOK(d, P) BY <1>4, <2>1, <2>2, SavedFinHost
  <2>5. net' = net BY <1>5 DEF ReceiveSavedFin
  <2> QED BY <1>1, <1>2, <1>3, <2>1, <2>2, <2>3, <2>4, <2>5, LowStep
<1>6. CASE RetransmissionTimer(h)
  <2>1. PICK d : d = rc_timer_fired(c) OBVIOUS
  <2>2. Become(h, d) /\ net' = net /\ c.rc.timer BY <1>1, <1>6, <2>1 DEF RetransmissionTimer
  <2>3. d.aborted = None => Kept(c, d, P) /\ StaysSilent(c, d) BY <1>4, <2>1, <2>2, TimerStep
  <2> QED BY <1>1, <1>2, <1>4, <2>2, <2>3, BecomeStep
<1>7. CASE ProbeTimer(h)
  <2>1. PICK d : d = cc_timer_fired(c) OBVIOUS
  <2>2. Become(h, d) /\ net' = net /\ c.ccc.probe_timer BY <1>1, <1>7, <2>1 DEF ProbeTimer
  <2>3. ~Fresh(c) /\ ~Silent(c) BY <2>2 DEF Fresh, Silent
  <2>4. HostOK(c, P) /\ d.aborted = None => HostOK(d, P) BY <1>4, <2>1, ProbeHost
  <2> QED BY <1>1, <1>2, <1>3, <2>2, <2>3, <2>4, LowStep
<1>8. CASE TimeWaitTimer(h)
  <2>1. PICK d : d = cm_timer_fired(c) OBVIOUS
  <2>2. Become(h, d) /\ net' = net /\ c.time_wait_timer BY <1>1, <1>8, <2>1 DEF TimeWaitTimer
  <2>3. ~Fresh(c) /\ ~Silent(c) BY <2>2 DEF Fresh, Silent
  <2>4. ASSUME HostOK(c, P) PROVE HostOK(d, P)
    <3>1. c.state \in Ending BY <2>2, <2>4 DEF HostOK, ReceiverOK, Ending
    <3>2. Beside(c, d) BY <2>1, <2>4, <3>1, HostFormed, DeleteBeside DEF cm_timer_fired
    <3> QED BY <2>4, <3>2, BesideHost
  <2> QED BY <1>1, <1>2, <1>3, <2>2, <2>3, <2>4, LowStep
<1> QED BY <1>5, <1>6, <1>7, <1>8

\* A segment leaves a host, unless its socket has been deleted.
LEMMA SendPacketStep ==
    ASSUME StreamsFit, Inv, NEW h \in Hosts, SendPacket(h)
    PROVE  Inv'
<1>1. PICK H : H = host OBVIOUS
<1>2. PICK N : N = net OBVIOUS
<1>3. Connection(H, N) BY <1>1, <1>2 DEF Inv
<1>4. PICK c : c = H[h] OBVIOUS
<1>5. PICK P : P = Payload[h] OBVIOUS
<1>6. HostInv(c, P) /\ StreamFits(P) BY <1>1, <1>4, <1>5, OneHost
<1>7. c.queue # <<>> /\ Head(c.queue).event = "send_packet" BY <1>1, <1>4 DEF SendPacket, NextEvent
<1>8. PICK d : d = [c EXCEPT !.queue = Tail(@)] OBVIOUS
<1>9. d = Dequeued(h) BY <1>1, <1>4, <1>8 DEF Dequeued
<1>10. Shape(c) /\ c.aborted = None BY <1>6, <1>7 DEF HostInv
<1>11. Taken(c, d) BY <1>8, <1>10, Dequeue
<1>12. PICK s : s = Head(c.queue).p OBVIOUS
<1>13. CASE c.exists
  <2>1. Runs(c) BY <1>10, <1>13 DEF Runs
  <2>2. PICK t : t = send_packet(d, s) OBVIOUS
  <2>3. PICK out : out = OutgoingPacket(d, s) OBVIOUS
  <2>4. /\ Kept(c, t, P) /\ StaysSilent(c, t) /\ t.rc.initialized /\ t.aborted = None
        /\ out \in Packets /\ CarriesStream(out, P)
        /\ Silent(c) => PureSyn(out)
    BY <1>6, <1>7, <1>11, <1>12, <2>1, <2>2, <2>3, SendStep
  <2>5. Become(h, t) /\ net' = [N EXCEPT ![h] = @ \cup {out}]
    BY <1>1, <1>2, <1>4, <1>9, <1>12, <1>13, <2>2, <2>3, <2>4 DEF SendPacket
  <2>6. host' = [H EXCEPT ![h] = t] BY <1>1, <2>4, <2>5 DEF Become
  <2>7. Connection([H EXCEPT ![h] = t], [N EXCEPT ![h] = @ \cup {out}])
    BY <1>3, <1>4, <1>5, <2>1, <2>4, OutStep
  <2> QED BY <2>5, <2>6, <2>7 DEF Inv
<1>14. CASE ~c.exists
  <2>1. Become(h, d) /\ net' = N BY <1>1, <1>2, <1>4, <1>9, <1>14 DEF SendPacket
  <2>2. Kept(c, d, P) /\ StaysSilent(c, d) BY <1>6, <1>7, <1>11, <1>14, DroppedStep
  <2>3. d.aborted = None /\ ~Runs(d) BY <1>10, <1>11, <1>14 DEF Taken, SameCalls, Runs
  <2>4. host' = [H EXCEPT ![h] = d] BY <1>1, <2>1, <2>3 DEF Become
  <2>5. Connection([H EXCEPT ![h] = d], N) BY <1>3, <1>4, <1>5, <2>2, <2>3, LocalStep
  <2> QED BY <2>1, <2>4, <2>5 DEF Inv
<1> QED BY <1>13, <1>14

\* The other events of the queue.
LEMMA HighSteps ==
    ASSUME StreamsFit, Inv, NEW h \in Hosts,
           \/ ResendPacket(h) \/ SendBufferNotEmpty(h) \/ SendBufferNotFull(h)
           \/ ReceiveBufferNotEmpty(h) \/ ReceiveBufferNotFull(h)
           \/ ConnectionInitiated(h) \/ ConnectionEstablished(h) \/ DeleteSocket(h)
    PROVE  Inv'
<1>1. PICK c : c = host[h] OBVIOUS
<1>2. PICK P : P = Payload[h] OBVIOUS
<1>3. HostInv(c, P) /\ StreamFits(P) /\ Shape(c) BY <1>1, <1>2, OneHost DEF HostInv
<1>4. PICK d : d = [c EXCEPT !.queue = Tail(@)] OBVIOUS
<1>5. d = Dequeued(h) /\ Taken(c, d) BY <1>1, <1>3, <1>4, Dequeue DEF Dequeued
<1>6. ASSUME NEW event, NEW t, Handle(h, event, t),
             Runs(c) /\ c.queue # <<>> /\ Head(c.queue).event = event /\ t.aborted = None =>
                Kept(c, t, P) /\ StaysSilent(c, t)
      PROVE  Inv'
  <2>1. c.queue # <<>> /\ Head(c.queue).event = event BY <1>1, <1>6 DEF Handle, NextEvent
  <2> QED BY <1>1, <1>2, <1>6, <2>1, HandleStep
<1>7. ASSUME NEW event, event \notin {"send_packet", "resend_packet", "connection_initiated"},
             NEW t, Handle(h, event, t),
             HostOK(c, P) /\ c.queue # <<>> /\ Head(c.queue).event = event => HostOK(t, P)
      PROVE  Inv'
  <2>1. ASSUME Runs(c), c.queue # <<>>, Head(c.queue).event = event, t.aborted = None
        PROVE  Kept(c, t, P) /\ StaysSilent(c, t)
    BY <1>3, <1>7, <2>1, HighStep
  <2> QED BY <1>6, <1>7, <2>1
<1>8. CASE ResendPacket(h)
  <2>1. PICK t : t = cc_resend_packet(d) OBVIOUS
  <2>2. Handle(h, "resend_packet", t) BY <1>5, <1>8, <2>1 DEF ResendPacket
  <2>3. ASSUME Runs(c), c.queue # <<>>, Head(c.queue).event = "resend_packet", t.aborted = None
        PROVE  Kept(c, t, P) /\ StaysSilent(c, t)
    BY <1>3, <1>5, <2>1, <2>3, ResendStep
  <2> QED BY <1>6, <2>2, <2>3
<1>9. CASE SendBufferNotEmpty(h)
  <2>1. PICK t : t = send_packets(d) OBVIOUS
  <2>2. Handle(h, "send_buffer_not_empty", t) BY <1>5, <1>9, <2>1 DEF SendBufferNotEmpty
  <2>3. ASSUME HostOK(c, P), c.queue # <<>>, Head(c.queue).event = "send_buffer_not_empty" PROVE HostOK(t, P)
    BY <1>3, <1>5, <2>1, <2>3, NotEmptyHost
  <2> QED BY <1>7, <2>2, <2>3
<1>10. CASE SendBufferNotFull(h)
  <2>1. PICK t : t = send_buffer_not_full(d) OBVIOUS
  <2>2. Handle(h, "send_buffer_not_full", t) BY <1>5, <1>10, <2>1 DEF SendBufferNotFull
  <2>3. ASSUME HostOK(c, P), c.queue # <<>>, Head(c.queue).event = "send_buffer_not_full" PROVE HostOK(t, P)
    BY <1>3, <1>5, <2>1, <2>3, NotFullHost
  <2> QED BY <1>7, <2>2, <2>3
<1>11. CASE ReceiveBufferNotEmpty(h)
  <2>1. PICK t : t = rc_receive_buffer_not_empty(d) OBVIOUS
  <2>2. Handle(h, "receive_buffer_not_empty", t) BY <1>5, <1>11, <2>1 DEF ReceiveBufferNotEmpty
  <2>3. ASSUME HostOK(c, P), c.queue # <<>>, Head(c.queue).event = "receive_buffer_not_empty" PROVE HostOK(t, P)
    <3>1. HostOK(d, P) BY <1>5, <2>3, TakenHost
    <3>2. Beside(d, t) BY <2>1, <3>1, HostFormed, RcReceiveBufferNotEmpty
    <3> QED BY <3>1, <3>2, BesideHost
  <2> QED BY <1>7, <2>2, <2>3
<1>12. CASE ReceiveBufferNotFull(h)
  <2>1. PICK t : t = receive_buffer_not_full(d) OBVIOUS
  <2>2. Handle(h, "receive_buffer_not_full", t) BY <1>5, <1>12, <2>1 DEF ReceiveBufferNotFull
  <2>3. ASSUME HostOK(c, P), c.queue # <<>>, Head(c.queue).event = "receive_buffer_not_full" PROVE HostOK(t, P)
    <3>1. HostOK(d, P) BY <1>5, <2>3, TakenHost
    <3>2. Beside(d, t) BY <2>1, <3>1, HostFormed, ReceiveBufferNotFullBeside
    <3> QED BY <3>1, <3>2, BesideHost
  <2> QED BY <1>7, <2>2, <2>3
<1>13. CASE ConnectionInitiated(h)
  <2>1. Handle(h, "connection_initiated", d) BY <1>5, <1>13 DEF ConnectionInitiated
  <2>2. ASSUME Runs(c), c.queue # <<>>, Head(c.queue).event = "connection_initiated", d.aborted = None
        PROVE  Kept(c, d, P) /\ StaysSilent(c, d)
    BY <1>3, <1>5, <2>2, InitiatedStep
  <2> QED BY <1>6, <2>1, <2>2
<1>14. CASE ConnectionEstablished(h)
  <2>1. PICK t : t = [d EXCEPT !.connected = TRUE] OBVIOUS
  <2>2. Handle(h, "connection_established", t) BY <1>5, <1>14, <2>1 DEF ConnectionEstablished
  <2>3. ASSUME HostOK(c, P), c.queue # <<>>, Head(c.queue).event = "connection_established" PROVE HostOK(t, P)
    BY <1>5, <2>1, <2>3, EstablishedHost
  <2> QED BY <1>7, <2>2, <2>3
<1>15. CASE DeleteSocket(h)
  <2>1. PICK t : t = delete_socket(d) OBVIOUS
  <2>2. Handle(h, "delete_socket", t) BY <1>5, <1>15, <2>1 DEF DeleteSocket
  <2>3. ASSUME Runs(c), c.queue # <<>>, Head(c.queue).event = "delete_socket", t.aborted = None
        PROVE  Kept(c, t, P) /\ StaysSilent(c, t)
    BY <1>3, <1>5, <2>1, <2>3, DeleteStep
  <2> QED BY <1>6, <2>2, <2>3
<1> QED BY <1>8, <1>9, <1>10, <1>11, <1>12, <1>13, <1>14, <1>15

-------------------------------------------------------------------------------
\* The invariant holds initially and every step keeps it.

\* Two new sockets and an empty network.
LEMMA InitInv ==
    ASSUME StreamsFit, Init
    PROVE  Inv
<1>1. PICK H : H = host OBVIOUS
<1>2. PICK N : N = net OBVIOUS
<1>3. H = [h \in Hosts |-> NewSocket] /\ N = [h \in Hosts |-> {}] BY <1>1, <1>2 DEF Init
<1>4. Silent(NewSocket)
  BY DEF Silent, NewSocket, NewReliability, NewCongestionControl
<1>5. ASSUME NEW h \in Hosts PROVE Carried(H, N, h) /\ Handshake(H, N, h)
  <2>1. H[h] = NewSocket /\ N[h] = {} BY <1>3
  <2>2. Peer(h) \in Hosts BY Peers
  <2>3. H[Peer(h)] = NewSocket /\ N[Peer(h)] = {} BY <1>3, <2>2
  <2>4. StreamFits(Payload[h]) BY DEF StreamsFit
  <2>5. HostInv(NewSocket, Payload[h]) BY <2>4, NewSocketInv
  <2>6. Carried(H, N, h) BY <2>1, <2>5 DEF Carried
  <2>7. Handshake(H, N, h) BY <1>4, <2>1, <2>3 DEF Handshake
  <2> QED BY <2>6, <2>7
<1>6. DOMAIN H = Hosts /\ DOMAIN N = Hosts BY <1>3
<1>7. Connection(H, N) BY <1>5, <1>6 DEF Connection
<1> QED BY <1>1, <1>2, <1>7 DEF Inv

\* Every step of the two hosts and of the network keeps the invariant.
LEMMA NextInv ==
    ASSUME StreamsFit, Inv, [Next]_vars
    PROVE  Inv'
<1>1. CASE Connect \/ ListenCall BY <1>1, OpenSteps
<1>2. ASSUME NEW h \in Hosts, LowEvent(h) PROVE Inv'
  <2>1. CASE Send(h) \/ Receive(h) \/ Close(h) BY <2>1, ApplicationSteps
  <2>2. CASE ReceivePacket(h) BY <2>2, ReceiveStep
  <2>3. CASE ReceiveSavedFin(h) \/ RetransmissionTimer(h) \/ ProbeTimer(h) \/ TimeWaitTimer(h)
    BY <2>3, TimerSteps
  <2> QED BY <1>2, <2>1, <2>2, <2>3 DEF LowEvent
<1>3. ASSUME NEW h \in Hosts, HighEvent(h) PROVE Inv'
  <2>1. CASE SendPacket(h) BY <2>1, SendPacketStep
  <2>2. CASE \/ ResendPacket(h) \/ SendBufferNotEmpty(h) \/ SendBufferNotFull(h)
             \/ ReceiveBufferNotEmpty(h) \/ ReceiveBufferNotFull(h)
             \/ ConnectionInitiated(h) \/ ConnectionEstablished(h) \/ DeleteSocket(h)
    BY <2>2, HighSteps
  <2> QED BY <1>3, <2>1, <2>2 DEF HighEvent
<1>4. CASE UNCHANGED vars
  <2>1. host' = host /\ net' = net BY <1>4 DEF vars
  <2> QED BY <2>1 DEF Inv
<1> QED BY <1>1, <1>2, <1>3, <1>4 DEF Next

\* The numbering of the queue, of the send buffer and of the packets under way is
\* an invariant of a connection.
THEOREM SenderInvariant == ASSUME StreamsFit PROVE Spec => []Inv
<1>1. Init => Inv BY InitInv
<1>2. Inv /\ [Next]_vars => Inv' BY NextInv
<1> QED BY <1>1, <1>2, PTL DEF Spec

\* Every data segment carries the bytes of its sequence number, however often it is
\* sent and whatever the two contexts take for SND.NXT.
THEOREM SegmentsAreTheStream == ASSUME StreamsFit PROVE Spec => []SegmentsCarryTheStream
<1>1. ASSUME Inv PROVE SegmentsCarryTheStream
  <2>1. ASSUME NEW h \in Hosts, NEW p \in net[h] PROVE CarriesStream(p, Payload[h])
    BY <1>1, <2>1 DEF Inv, Connection, Carried
  <2> QED BY <2>1 DEF SegmentsCarryTheStream, CarriesStream
<1> QED BY <1>1, SenderInvariant, PTL

\* A host between events: either it has sent nothing, or its sender is in order.
LEMMA QuietHost ==
    ASSUME StreamsFit, Inv, Quiet, NEW h \in Hosts, Running(h)
    PROVE  /\ host[h].queue = <<>> /\ StreamFits(Payload[h])
           /\ Fresh(host[h]) \/ SenderOK(host[h], Payload[h])
<1>1. HostInv(host[h], Payload[h]) /\ StreamFits(Payload[h]) /\ Runs(host[h]) BY OneHost
<1>2. host[h].queue = <<>> BY DEF Quiet
<1> QED BY <1>1, <1>2 DEF HostInv

\* Between events the reliability and the congestion control context agree on what
\* has been acknowledged and, until a FIN is sent, on what comes next.
THEOREM TwoContextsAgree == ASSUME StreamsFit PROVE Spec => []ContextsAgree
<1>1. ASSUME Inv PROVE ContextsAgree
  <2>1. ASSUME Quiet, NEW h \in Hosts, Running(h)
        PROVE  /\ host[h].rc.snd_una = host[h].ccc.snd_una
               /\ host[h].state \in {"SynSent", "SynReceived", "Established", "CloseWait"} =>
                     host[h].rc.snd_nxt = host[h].ccc.snd_nxt
    <3>1. PICK c : c = host[h] OBVIOUS
    <3>2. PICK P : P = Payload[h] OBVIOUS
    <3>3. c.queue = <<>> /\ (Fresh(c) \/ SenderOK(c, P)) BY <1>1, <2>1, <3>1, <3>2, QuietHost
    <3>4. CASE Fresh(c) BY <3>1, <3>4 DEF Fresh
    <3>5. CASE SenderOK(c, P)
      <4>1. c.rc.snd_una = c.ccc.snd_una BY <3>5 DEF SenderOK, Counters
      <4>2. c.state \notin Ending => c.ccc.snd_nxt = c.rc.snd_nxt BY <3>3, <3>5, QuietFacts
      <4> QED BY <3>1, <4>1, <4>2 DEF Ending
    <3> QED BY <3>3, <3>4, <3>5
  <2> QED BY <2>1 DEF ContextsAgree
<1> QED BY <1>1, SenderInvariant, PTL

\* Between events the retransmission timer runs exactly while something is
\* outstanding.
THEOREM TimerRunsWhileOutstanding == ASSUME StreamsFit PROVE Spec => []TimerCoversOutstanding
<1>1. ASSUME Inv PROVE TimerCoversOutstanding
  <2>1. ASSUME Quiet, NEW h \in Hosts, Running(h)
        PROVE  host[h].rc.timer <=> host[h].rc.snd_una # host[h].rc.snd_nxt
    <3>1. PICK c : c = host[h] OBVIOUS
    <3>2. PICK P : P = Payload[h] OBVIOUS
    <3>3. c.queue = <<>> /\ (Fresh(c) \/ SenderOK(c, P)) BY <1>1, <2>1, <3>1, <3>2, QuietHost
    <3>4. CASE Fresh(c) BY <3>1, <3>4 DEF Fresh
    <3>5. CASE SenderOK(c, P) BY <3>1, <3>3, <3>5, QuietFacts
    <3> QED BY <3>3, <3>4, <3>5
  <2> QED BY <2>1 DEF TimerCoversOutstanding
<1> QED BY <1>1, SenderInvariant, PTL

\* Between events what is outstanding fits in the congestion window, unless a probe
\* is under way.
THEOREM FlightFitsTheWindow == ASSUME StreamsFit PROVE Spec => []FlightWithinCwnd
<1>1. ASSUME Inv PROVE FlightWithinCwnd
  <2>1. ASSUME Quiet, NEW h \in Hosts, Running(h), ~host[h].ccc.probe_timer
        PROVE  get_num_outstanding(host[h].ccc) <= host[h].ccc.cwnd
    <3>1. PICK c : c = host[h] OBVIOUS
    <3>2. PICK P : P = Payload[h] OBVIOUS
    <3>3. c.queue = <<>> /\ (Fresh(c) \/ SenderOK(c, P)) /\ StreamFits(P)
      BY <1>1, <2>1, <3>1, <3>2, QuietHost
    <3>4. CASE Fresh(c)
      <4>1. c.ccc.snd_una = 0 /\ c.ccc.snd_nxt = 0 /\ c.ccc.cwnd \in Nat BY <3>4 DEF Fresh
      <4>2. IntMax \in Nat BY Constants
      <4>3. Minus(0, 0) = 0 BY <4>2, SmallMinus
      <4> QED BY <3>1, <4>1, <4>3 DEF get_num_outstanding
    <3>5. CASE SenderOK(c, P)
      <4>1. Sending(c, P, c.rc.snd_nxt) BY <3>3, <3>5, QuietFacts
      <4>2. get_num_outstanding(c.ccc) = c.ccc.snd_nxt - c.rc.snd_una
        BY <3>3, <3>5, <4>1, SendingOutstanding
      <4>3. ~c.ccc.probe_timer BY <2>1, <3>1
      <4>4. c.ccc.snd_nxt \in Nat /\ c.rc.snd_una \in Nat BY <3>5 DEF SenderOK, Counters
      <4>5. c.ccc.cwnd \in Nat /\ c.ccc.snd_nxt <= c.rc.snd_una + c.ccc.cwnd
        BY <3>5, <4>3 DEF SenderOK, Window
      <4>6. get_num_outstanding(c.ccc) <= c.ccc.cwnd BY <4>2, <4>4, <4>5
      <4> QED BY <3>1, <4>6
    <3> QED BY <3>3, <3>4, <3>5
  <2> QED BY <2>1 DEF FlightWithinCwnd
<1> QED BY <1>1, SenderInvariant, PTL

\* The contexts stay within their types, the send buffer within its limit.
THEOREM ConnectionTypes == ASSUME StreamsFit PROVE Spec => []TypeOK
<1>1. ASSUME Inv PROVE TypeOK
  <2>1. ASSUME NEW c, NEW P, HostInv(c, P)
        PROVE  /\ c.state \in States
               /\ c.rc.rcv_wnd \in 0 .. MaxReceiveWindow
               /\ {c.rc.snd_una, c.rc.snd_nxt, c.rc.snd_max, c.rc.rcv_nxt,
                   c.ccc.snd_una, c.ccc.snd_nxt, c.ccc.snd_max} \subseteq SeqNum
               /\ c.ccc.cwnd \in Nat \ {0}
               /\ c.ccc.state \in {"SlowStart", "CongestionAvoidance"}
               /\ Len(c.send_buffer) <= MaxSendBuffer
               /\ c.accepted \in 0 .. Len(P)
               /\ \A i \in DOMAIN c.queue : c.queue[i].event \in ProtocolEvents
    <3>1. Typed(c, P) /\ ReceiverOK(c) BY <2>1 DEF HostInv
    <3>2. \A x \in Events : x.event \in ProtocolEvents BY DEF Events
    <3>3. \A i \in DOMAIN c.queue : c.queue[i] \in Events BY <3>1 DEF Typed
    <3>4. \A i \in DOMAIN c.queue : c.queue[i].event \in ProtocolEvents BY <3>2, <3>3
    <3> QED BY <3>1, <3>4 DEF Typed, ReceiverOK
  <2>2. ASSUME NEW h \in Hosts PROVE HostInv(host[h], Payload[h]) BY <1>1, <2>2, OneHost
  <2> QED BY <2>1, <2>2 DEF TypeOK
<1> QED BY <1>1, SenderInvariant, PTL
===============================================================================
