------------------------- MODULE TCPPacketBufferProofs -------------------------
(***************************************************************************)
(* The reassembly buffer, for every stream that fits in half the sequence   *)
(* numbers, every first sequence number and every packet length: whatever   *)
(* packets of the stream go in, in any order, overlapping, repeated or old, *)
(* the bytes come out in order, and size() and insert() count each once.    *)
(*                                                                          *)
(* The argument leaves sequence numbers behind first.  Every packet in the  *)
(* list is one of the stream, so it spans an interval of positions, and the *)
(* circular comparisons agree with the order of the positions although the  *)
(* numbers wrap around.  The loops are then about intervals sorted by their *)
(* beginning: what has been passed reaches to the largest end seen.         *)
(***************************************************************************)
EXTENDS TCPPacketBufferMachine, SeqSpaceProofs, FiniteSetTheorems

-------------------------------------------------------------------------------
\* A set of numbers has a least one.
LEMMA LeastNumber ==
    ASSUME NEW S \in SUBSET Nat, S # {}
    PROVE  \E k \in S : \A j \in S : k <= j
<1> SUFFICES ASSUME \A k \in S : \E j \in S : ~(k <= j) PROVE FALSE OBVIOUS
<1>1. PICK G : G = {n \in Nat : \A j \in S : n <= j} OBVIOUS
<1>2. 0 \in G BY <1>1
<1>3. ASSUME NEW n \in Nat, n \in G PROVE n + 1 \in G
  <2>1. n \notin S BY <1>1, <1>3
  <2> QED BY <1>1, <1>3, <2>1
<1>4. \A n \in Nat : n \in G BY <1>2, <1>3, SetInduction
<1>5. PICK k \in S : TRUE OBVIOUS
<1>6. k + 1 \in G BY <1>4
<1> QED BY <1>1, <1>6

-------------------------------------------------------------------------------
\* Positions and sequence numbers.

\* The position after the last byte included: first may be there.
Places == 1 .. (StreamLength + 1)

\* The numbers of the stream wrap around once at most.
LEMMA SeqAtCases ==
    ASSUME NEW i \in Places
    PROVE  /\ SeqAt(i) \in SeqNum
           /\ SeqAt(i) = IF FirstSeq + (i - 1) < Modulus THEN FirstSeq + (i - 1)
                         ELSE FirstSeq + (i - 1) - Modulus
<1>1. IntMax \in Nat /\ Modulus = 2 * (IntMax + 1) BY IntMaxAssumption DEF Modulus
<1>2. FirstSeq \in SeqNum /\ StreamLength \in Nat /\ StreamLength <= IntMax BY StreamAssumption
<1>3. i - 1 \in SeqNum BY <1>1, <1>2 DEF Places, SeqNum
<1>4. SeqAt(i) = IF FirstSeq + (i - 1) < Modulus THEN FirstSeq + (i - 1)
                 ELSE FirstSeq + (i - 1) - Modulus
  BY <1>2, <1>3, PlusCases DEF SeqAt
<1>5. SeqAt(i) \in SeqNum BY <1>1, <1>2, <1>3, <1>4 DEF SeqNum
<1> QED BY <1>4, <1>5

\* less_than and == of the code tell positions apart as < and = do.
LEMMA SeqAtOrder ==
    ASSUME NEW i \in Places, NEW j \in Places
    PROVE  /\ less_than(SeqAt(i), SeqAt(j)) <=> i < j
           /\ SeqAt(i) = SeqAt(j) <=> i = j
<1>1. IntMax \in Nat /\ Modulus = 2 * (IntMax + 1) BY IntMaxAssumption DEF Modulus
<1>2. FirstSeq \in 0 .. (Modulus - 1) /\ StreamLength \in Nat /\ StreamLength <= IntMax
  BY StreamAssumption DEF SeqNum
<1>3. i \in 1 .. (IntMax + 1) /\ j \in 1 .. (IntMax + 1) BY <1>1, <1>2 DEF Places
<1>4. PICK a : a = SeqAt(i) OBVIOUS
<1>5. PICK b : b = SeqAt(j) OBVIOUS
<1>6. a = IF FirstSeq + (i - 1) < Modulus THEN FirstSeq + (i - 1) ELSE FirstSeq + (i - 1) - Modulus
  BY <1>4, SeqAtCases
<1>7. b = IF FirstSeq + (j - 1) < Modulus THEN FirstSeq + (j - 1) ELSE FirstSeq + (j - 1) - Modulus
  BY <1>5, SeqAtCases
<1>8. less_than(a, b) <=> i < j BY <1>1, <1>2, <1>3, <1>6, <1>7 DEF less_than
<1>9. a = b <=> i = j BY <1>1, <1>2, <1>3, <1>6, <1>7
<1> QED BY <1>4, <1>5, <1>8, <1>9

\* Sums and differences of the code are those of the positions.
LEMMA SeqAtPlus ==
    ASSUME NEW i \in Places, NEW n \in Nat, i + n \in Places
    PROVE  Plus(SeqAt(i), n) = SeqAt(i + n) /\ Minus(SeqAt(i + n), SeqAt(i)) = n
<1>1. IntMax \in Nat /\ Modulus = 2 * (IntMax + 1) BY IntMaxAssumption DEF Modulus
<1>2. FirstSeq \in 0 .. (Modulus - 1) /\ StreamLength \in Nat /\ StreamLength <= IntMax
  BY StreamAssumption DEF SeqNum
<1>3. i \in 1 .. (IntMax + 1) /\ n \in 0 .. IntMax /\ i + n \in 1 .. (IntMax + 1)
  BY <1>1, <1>2 DEF Places
<1>4. PICK a : a = SeqAt(i) OBVIOUS
<1>5. PICK m \in Places : m = i + n OBVIOUS
<1>6. PICK b : b = SeqAt(m) OBVIOUS
<1>7. a \in SeqNum
      /\ a = IF FirstSeq + (i - 1) < Modulus THEN FirstSeq + (i - 1) ELSE FirstSeq + (i - 1) - Modulus
  BY <1>4, SeqAtCases
<1>8. b \in SeqNum
      /\ b = IF FirstSeq + (m - 1) < Modulus THEN FirstSeq + (m - 1)
             ELSE FirstSeq + (m - 1) - Modulus
  BY <1>6, SeqAtCases
<1>9. n \in SeqNum BY <1>1, <1>3 DEF SeqNum
<1>10. Plus(a, n) = IF a + n < Modulus THEN a + n ELSE a + n - Modulus BY <1>7, <1>9, PlusCases
<1>11. Minus(b, a) = IF b >= a THEN b - a ELSE b - a + Modulus BY <1>7, <1>8, MinusCases
<1>12. Plus(a, n) = b BY <1>1, <1>2, <1>3, <1>7, <1>8, <1>10, <1>5
<1>13. Minus(b, a) = n BY <1>1, <1>2, <1>3, <1>7, <1>8, <1>11, <1>5
<1> QED BY <1>4, <1>6, <1>12, <1>13, <1>5

\* The packets of the stream, and the positions of a packet.
StreamPackets == {PacketOf(x[1], x[2]) : x \in {y \in (1 .. StreamLength) \X (1 .. StreamLength) :
                                                   y[1] + y[2] - 1 <= StreamLength}}
From(p) == p.data[1]
To(p) == p.data[1] + Len(p.data) - 1
Span(p) == From(p) .. To(p)

\* A packet is its positions.
LEMMA PacketFacts ==
    ASSUME NEW i \in 1 .. StreamLength, NEW n \in Nat, n # 0, i + n - 1 <= StreamLength,
           NEW p, p = PacketOf(i, n)
    PROVE  /\ p \in StreamPackets
           /\ p.seq = SeqAt(i) /\ p.data \in Seq(Nat) /\ Len(p.data) = n
           /\ \A k \in 1 .. n : p.data[k] = i + k - 1
           /\ From(p) = i /\ To(p) = i + n - 1
           /\ i \in Places /\ i + n \in Places /\ EndOf(p) = SeqAt(i + n)
<1>1. StreamLength \in Nat /\ i \in Nat BY StreamAssumption
<1>2. n \in 1 .. StreamLength BY <1>1
<1>3. p \in StreamPackets
  <2>1. <<i, n>> \in {y \in (1 .. StreamLength) \X (1 .. StreamLength) : y[1] + y[2] - 1 <= StreamLength}
    BY <1>2
  <2>2. p = PacketOf(<<i, n>>[1], <<i, n>>[2]) OBVIOUS
  <2> QED BY <2>1, <2>2 DEF StreamPackets
<1>4. PICK d : d = [k \in 1 .. n |-> i + k - 1] OBVIOUS
<1>5. p.seq = SeqAt(i) /\ p.data = d BY <1>4 DEF PacketOf
<1>6. d \in Seq(Nat) /\ Len(d) = n /\ \A k \in 1 .. n : d[k] = i + k - 1 BY <1>1, <1>4
<1>7. From(p) = i /\ To(p) = i + n - 1 BY <1>1, <1>5, <1>6 DEF From, To
<1>8. i \in Places /\ i + n \in Places BY <1>1 DEF Places
<1>9. EndOf(p) = SeqAt(i + n) BY <1>5, <1>6, <1>8, SeqAtPlus DEF EndOf
<1> QED BY <1>3, <1>5, <1>6, <1>7, <1>8, <1>9

\* The same for a packet that is known to be of the stream.
LEMMA StreamPacketFacts ==
    ASSUME NEW p \in StreamPackets
    PROVE  /\ From(p) \in 1 .. StreamLength /\ To(p) \in 1 .. StreamLength /\ From(p) <= To(p)
           /\ Len(p.data) \in Nat /\ Len(p.data) # 0 /\ Len(p.data) = To(p) - From(p) + 1
           /\ p = PacketOf(From(p), Len(p.data)) /\ From(p) + Len(p.data) - 1 <= StreamLength
<1>1. PICK i \in 1 .. StreamLength, n \in 1 .. StreamLength :
         p = PacketOf(i, n) /\ i + n - 1 <= StreamLength
  BY DEF StreamPackets
<1>2. StreamLength \in Nat /\ i \in Nat /\ n \in Nat /\ n # 0 BY StreamAssumption
<1>3. Len(p.data) = n /\ From(p) = i /\ To(p) = i + n - 1 BY <1>1, <1>2, PacketFacts
<1> QED BY <1>1, <1>2, <1>3

\* What a loop does with a packet, in terms of positions: e is the last one passed.
LEMMA PassPacket ==
    ASSUME NEW p \in StreamPackets, NEW e \in 0 .. StreamLength
    PROVE  /\ e + 1 \in Places
           /\ IsGap(SeqAt(e + 1), p) <=> From(p) > e + 1
           /\ IsGap(SeqAt(e + 1), p) => Plus(p.seq, Len(p.data)) = SeqAt(To(p) + 1)
           /\ ~IsGap(SeqAt(e + 1), p) =>
                 NewBytesTouching(SeqAt(e + 1), p) = IF To(p) > e THEN To(p) - e ELSE 0
<1>1. PICK i \in 1 .. StreamLength, n \in Nat :
         n # 0 /\ i + n - 1 <= StreamLength /\ p = PacketOf(i, n)
  BY StreamPacketFacts
<1>2. /\ p.seq = SeqAt(i) /\ Len(p.data) = n /\ From(p) = i /\ To(p) = i + n - 1
      /\ i \in Places /\ i + n \in Places /\ EndOf(p) = SeqAt(i + n)
  BY <1>1, PacketFacts
<1>3. StreamLength \in Nat /\ i \in Nat /\ e \in Nat BY StreamAssumption
<1>4. e + 1 \in Places BY <1>3 DEF Places
<1>5. PICK s : s = SeqAt(e + 1) OBVIOUS
<1>6. /\ s = p.seq <=> e + 1 = i
      /\ less_than(p.seq, s) <=> i < e + 1
      /\ less_than(s, EndOf(p)) <=> e + 1 < i + n
  BY <1>2, <1>4, <1>5, SeqAtOrder
<1>7. IsGap(s, p) <=> i > e + 1 BY <1>1, <1>3, <1>6 DEF IsGap, between
<1>8. Plus(p.seq, Len(p.data)) = SeqAt(i + n) BY <1>2 DEF EndOf
<1>9. To(p) + 1 = i + n BY <1>2, <1>3
<1>10. ASSUME ~(i > e + 1) PROVE NewBytesTouching(s, p) = IF To(p) > e THEN To(p) - e ELSE 0
  <2>1. CASE e + 1 = i BY <1>2, <1>3, <1>6, <2>1 DEF NewBytesTouching
  <2>2. CASE i < e + 1 /\ e + 1 < i + n
    <3>1. between(p.seq, s, EndOf(p)) /\ s # p.seq BY <1>3, <1>6, <2>2 DEF between
    <3>2. (e + 1) - i \in Nat /\ i + ((e + 1) - i) = e + 1 BY <1>3, <2>2
    <3>3. Minus(s, p.seq) = (e + 1) - i BY <1>2, <1>4, <1>5, <3>2, SeqAtPlus
    <3> QED BY <1>1, <1>2, <1>3, <2>2, <3>1, <3>3 DEF NewBytesTouching
  <2>3. CASE i < e + 1 /\ ~(e + 1 < i + n)
    <3>1. ~between(p.seq, s, EndOf(p)) /\ s # p.seq BY <1>3, <1>6, <2>3 DEF between
    <3> QED BY <1>1, <1>2, <1>3, <2>3, <3>1 DEF NewBytesTouching
  <2> QED BY <1>3, <1>10, <2>1, <2>2, <2>3
<1> QED BY <1>2, <1>4, <1>5, <1>7, <1>8, <1>9, <1>10

-------------------------------------------------------------------------------
\* The loop of size().

\* The last position passed after the packet p.
Reached(e, p) == IF To(p) > e THEN To(p) ELSE e

\* One round.
LEMMA CountRound ==
    ASSUME NEW e \in 0 .. StreamLength, NEW t \in Int, NEW p \in StreamPackets,
           NEW acc, acc = [seq |-> SeqAt(e + 1), total |-> t]
    PROVE  /\ CountPacket(acc, p) =
                 [seq |-> SeqAt(Reached(e, p) + 1),
                  total |-> t + (IF From(p) > e + 1 THEN Len(p.data)
                                 ELSE IF To(p) > e THEN To(p) - e ELSE 0)]
           /\ Reached(e, p) \in 0 .. StreamLength
<1>1. /\ From(p) \in 1 .. StreamLength /\ To(p) \in 1 .. StreamLength /\ From(p) <= To(p)
      /\ Len(p.data) \in Nat /\ Len(p.data) = To(p) - From(p) + 1
  BY StreamPacketFacts
<1>2. /\ e + 1 \in Places
      /\ IsGap(SeqAt(e + 1), p) <=> From(p) > e + 1
      /\ IsGap(SeqAt(e + 1), p) => Plus(p.seq, Len(p.data)) = SeqAt(To(p) + 1)
      /\ ~IsGap(SeqAt(e + 1), p) =>
            NewBytesTouching(SeqAt(e + 1), p) = IF To(p) > e THEN To(p) - e ELSE 0
  BY PassPacket
<1>3. StreamLength \in Nat BY StreamAssumption
<1>4. Reached(e, p) \in 0 .. StreamLength BY <1>1, <1>3 DEF Reached
<1>5. acc.seq = SeqAt(e + 1) /\ acc.total = t OBVIOUS
<1>6. CASE From(p) > e + 1
  <2>1. CountPacket(acc, p) = [seq |-> Plus(p.seq, Len(p.data)), total |-> t + Len(p.data)]
    BY <1>2, <1>5, <1>6 DEF CountPacket
  <2>2. Reached(e, p) = To(p) BY <1>1, <1>6 DEF Reached
  <2> QED BY <1>2, <1>4, <1>6, <2>1, <2>2
<1>7. CASE ~(From(p) > e + 1)
  <2>1. PICK n : n = IF To(p) > e THEN To(p) - e ELSE 0 OBVIOUS
  <2>2. CountPacket(acc, p) = [seq |-> Plus(SeqAt(e + 1), n), total |-> t + n]
    BY <1>2, <1>5, <1>7, <2>1 DEF CountPacket
  <2>3. n \in Nat /\ (e + 1) + n = Reached(e, p) + 1 BY <1>1, <2>1 DEF Reached
  <2>4. (e + 1) + n \in Places BY <1>3, <1>4, <2>3 DEF Places
  <2>5. Plus(SeqAt(e + 1), n) = SeqAt((e + 1) + n) BY <1>2, <2>3, <2>4, SeqAtPlus
  <2> QED BY <1>4, <1>7, <2>1, <2>2, <2>3, <2>5
<1> QED BY <1>6, <1>7

\* The rounds of a loop over packets are those its definition says.
LEMMA CountRoundsRun ==
    ASSUME NEW b, b.packets \in Seq(StreamPackets),
           NEW L \in 0 .. StreamLength, b.first = SeqAt(L + 1)
    PROVE  /\ CountRounds(b)[0] = [seq |-> SeqAt(L + 1), total |-> 0]
           /\ \A k \in 1 .. Len(b.packets) :
                 CountRounds(b)[k] = CountPacket(CountRounds(b)[k - 1], b.packets[k])
<1>1. PICK q \in Seq(StreamPackets) : q = b.packets OBVIOUS
<1>2. PICK N \in Nat : N = Len(q) OBVIOUS
<1>3. PICK S : S = {a \in [seq : SeqNum, total : Int] : \E e \in 0 .. StreamLength : a.seq = SeqAt(e + 1)}
  OBVIOUS
<1> HIDE DEF SeqNum
<1>4. ASSUME NEW e \in 0 .. StreamLength, NEW t \in Int PROVE [seq |-> SeqAt(e + 1), total |-> t] \in S
  <2>1. e + 1 \in Places BY StreamAssumption DEF Places
  <2>2. SeqAt(e + 1) \in SeqNum BY <2>1, SeqAtCases
  <2> QED BY <1>3, <2>2
<1>5. PICK z : z = [seq |-> SeqAt(L + 1), total |-> 0] OBVIOUS
<1>6. z \in S BY <1>5, <1>4
<1>7. \A k \in 1 .. N : q[k] \in StreamPackets BY <1>2
<1>8. ASSUME NEW k \in 1 .. N, NEW a \in S PROVE CountPacket(a, q[k]) \in S
  <2>1. PICK e \in 0 .. StreamLength, t \in Int : a = [seq |-> SeqAt(e + 1), total |-> t]
    <3>1. PICK e \in 0 .. StreamLength : a.seq = SeqAt(e + 1) BY <1>3
    <3>2. a.total \in Int /\ a = [seq |-> a.seq, total |-> a.total] BY <1>3
    <3> QED BY <3>1, <3>2
  <2>2. PICK p \in StreamPackets : p = q[k] BY <1>7
  <2>3. PICK g : g = IF From(p) > e + 1 THEN Len(p.data) ELSE IF To(p) > e THEN To(p) - e ELSE 0 OBVIOUS
  <2>4. PICK f : f = Reached(e, p) OBVIOUS
  <2>5. CountPacket(a, p) = [seq |-> SeqAt(f + 1), total |-> t + g] /\ f \in 0 .. StreamLength
    BY <2>1, <2>3, <2>4, CountRound
  <2>6. t + g \in Int BY <2>3, StreamPacketFacts
  <2> QED BY <1>4, <2>2, <2>5, <2>6
<1>9. PICK R : R = [k \in 1 .. N |-> [a \in S |-> CountPacket(a, q[k])]] OBVIOUS
<1>10. R \in RoundsOver(S, N) BY <1>8, <1>9 DEF RoundsOver
<1>11. PICK f : IsLoop(f, S, z, N, R) BY <1>6, <1>10, LoopRuns
<1>12. f \in [0 .. N -> S] /\ f[0] = z /\ \A k \in 1 .. N : f[k] = R[k][f[k - 1]] BY <1>11 DEF IsLoop
<1>13. \A k \in 1 .. N : f[k] = CountPacket(f[k - 1], q[k])
  <2> TAKE k \in 1 .. N
  <2>1. k - 1 \in 0 .. N OBVIOUS
  <2>2. f[k - 1] \in S BY <1>12, <2>1
  <2> QED BY <1>9, <1>12, <2>2
<1> DEFINE E(g) == [k \in 0 .. N |-> IF k = 0 THEN z ELSE CountPacket(g[k - 1], q[k])]
<1>14. f = E(f) BY <1>12, <1>13
<1>15. CountRounds(b) = CHOOSE g : g = E(g) BY <1>1, <1>2, <1>5 DEF CountRounds
<1> HIDE DEF E
<1>16. CountRounds(b) = E(CountRounds(b)) BY <1>14, <1>15
<1>17. PICK g : g = CountRounds(b) OBVIOUS
<1>18. g = E(g) BY <1>16, <1>17
<1>19. g[0] = z /\ \A k \in 1 .. N : g[k] = CountPacket(g[k - 1], q[k])
  <2>1. PICK h : h = E(g) OBVIOUS
  <2>2. h[0] = z /\ \A k \in 1 .. N : h[k] = CountPacket(g[k - 1], q[k]) BY <2>1 DEF E
  <2> QED BY <1>18, <2>1, <2>2
<1> QED BY <1>1, <1>2, <1>5, <1>17, <1>19

-------------------------------------------------------------------------------
\* The loop of get_continuous_data().
TakeStates == [seq : SeqNum, used : Nat, hole : BOOLEAN, data : Seq(Nat)]

\* A round that is stopped by a hole, and one that takes the positions from e to f.
Stopped(acc, next) ==
    /\ next \in TakeStates /\ next.hole
    /\ next.seq = acc.seq /\ next.used = acc.used /\ next.data = acc.data
TakesOn(acc, next, e, f) ==
    /\ next \in TakeStates /\ ~next.hole
    /\ next.seq = SeqAt(f + 1) /\ next.used = acc.used + 1
    /\ \E d \in Seq(Nat) : /\ next.data = acc.data \o d
                          /\ Len(d) = f - e /\ \A x \in 1 .. Len(d) : d[x] = e + x

\* One round: nothing after a hole, else the positions behind e up to the packet's
\* last one.
LEMMA TakeRound ==
    ASSUME NEW e \in 0 .. StreamLength, NEW acc \in TakeStates, acc.seq = SeqAt(e + 1),
           NEW p \in StreamPackets
    PROVE  /\ acc.hole \/ From(p) > e + 1 => Stopped(acc, TakePacket(acc, p))
           /\ ~acc.hole /\ ~(From(p) > e + 1) => TakesOn(acc, TakePacket(acc, p), e, Reached(e, p))
           /\ Reached(e, p) \in 0 .. StreamLength
<1> HIDE DEF SeqNum
<1>1. PICK i \in 1 .. StreamLength, m \in Nat :
         m # 0 /\ i + m - 1 <= StreamLength /\ p = PacketOf(i, m)
  BY StreamPacketFacts
<1>2. /\ p.data \in Seq(Nat) /\ Len(p.data) = m /\ \A k \in 1 .. m : p.data[k] = i + k - 1
      /\ From(p) = i /\ To(p) = i + m - 1
  BY <1>1, PacketFacts
<1>3. /\ e + 1 \in Places
      /\ IsGap(SeqAt(e + 1), p) <=> From(p) > e + 1
      /\ ~IsGap(SeqAt(e + 1), p) =>
            NewBytesTouching(SeqAt(e + 1), p) = IF To(p) > e THEN To(p) - e ELSE 0
  BY PassPacket
<1>4. StreamLength \in Nat /\ i \in Nat BY StreamAssumption
<1>5. Reached(e, p) \in 0 .. StreamLength BY <1>1, <1>2, <1>4 DEF Reached
<1>6. ASSUME acc.hole \/ From(p) > e + 1 PROVE Stopped(acc, TakePacket(acc, p))
  <2>1. TakePacket(acc, p) = [acc EXCEPT !.hole = TRUE] BY <1>3, <1>6 DEF TakePacket
  <2> QED BY <2>1 DEF TakeStates, Stopped
<1>7. ASSUME ~acc.hole, ~(From(p) > e + 1) PROVE TakesOn(acc, TakePacket(acc, p), e, Reached(e, p))
  <2>1. PICK n : n = IF To(p) > e THEN To(p) - e ELSE 0 OBVIOUS
  <2>2. PICK d : d = SubSeq(p.data, Len(p.data) - n + 1, Len(p.data)) OBVIOUS
  <2>3. TakePacket(acc, p) = [seq |-> Plus(acc.seq, n), used |-> acc.used + 1, hole |-> FALSE,
                              data |-> acc.data \o d]
    BY <1>3, <1>7, <2>1, <2>2 DEF TakePacket
  <2>4. n \in Nat /\ n <= m /\ (e + 1) + n = Reached(e, p) + 1
    <3>1. PICK o : o = To(p) OBVIOUS
    <3>2. o = i + m - 1 /\ ~(i > e + 1) BY <1>2, <1>7, <3>1
    <3>3. n = (IF o > e THEN o - e ELSE 0) /\ Reached(e, p) = (IF o > e THEN o ELSE e)
      BY <2>1, <3>1 DEF Reached
    <3>4. e \in Nat /\ i \in Nat /\ m \in Nat BY <1>4
    <3> QED BY <3>2, <3>3, <3>4
  <2>5. (e + 1) + n \in Places BY <1>4, <1>5, <2>4 DEF Places
  <2>6. Plus(SeqAt(e + 1), n) = SeqAt((e + 1) + n) /\ SeqAt((e + 1) + n) \in SeqNum
    BY <1>3, <2>4, <2>5, SeqAtPlus, SeqAtCases
  <2>7. PICK w \in Seq(Nat) : w = p.data BY <1>2
  <2>8. PICK l \in Nat : l = m - n + 1 /\ l # 0 BY <2>4
  <2>9. d = SubSeq(w, l, m) /\ Len(w) = m BY <1>2, <2>2, <2>7, <2>8
  <2>10. d \in Seq(Nat) /\ Len(d) = m - l + 1 /\ \A x \in 1 .. (m - l + 1) : d[x] = w[l + x - 1]
    BY <2>4, <2>8, <2>9
  <2>11. Len(d) = n BY <2>4, <2>8, <2>10
  <2>12. ASSUME NEW x \in 1 .. n PROVE d[x] = e + x
    <3>1. To(p) > e /\ n = To(p) - e BY <2>1, <2>4
    <3>2. x \in 1 .. (m - l + 1) /\ l + x - 1 \in 1 .. m BY <2>4, <2>8
    <3>3. d[x] = i + (l + x - 1) - 1 BY <1>2, <2>7, <2>10, <3>2
    <3> QED BY <1>2, <1>4, <2>8, <3>1, <3>3
  <2>13. TakePacket(acc, p) = [seq |-> SeqAt(Reached(e, p) + 1), used |-> acc.used + 1,
                               hole |-> FALSE, data |-> acc.data \o d]
    BY <2>3, <2>4, <2>6
  <2>14. TakePacket(acc, p) \in TakeStates
    <3>1. acc.data \in Seq(Nat) /\ acc.used \in Nat BY DEF TakeStates
    <3>2. acc.data \o d \in Seq(Nat) BY <2>10, <3>1
    <3>3. SeqAt(Reached(e, p) + 1) \in SeqNum BY <2>4, <2>6
    <3> QED BY <2>13, <3>1, <3>2, <3>3 DEF TakeStates
  <2>15. Len(d) = Reached(e, p) - e BY <1>5, <2>4, <2>11
  <2>16. PICK next : next = TakePacket(acc, p) OBVIOUS
  <2>17. /\ next.seq = SeqAt(Reached(e, p) + 1) /\ next.used = acc.used + 1
         /\ ~next.hole /\ next.data = acc.data \o d
    BY <2>13, <2>16
  <2>18. PICK f : f = Reached(e, p) OBVIOUS
  <2>19. \A x \in 1 .. Len(d) : d[x] = e + x BY <2>11, <2>12
  <2>20. TakesOn(acc, next, e, f) BY <2>10, <2>14, <2>15, <2>16, <2>17, <2>18, <2>19, Zenon DEF TakesOn
  <2> QED BY <2>16, <2>18, <2>20
<1> QED BY <1>5, <1>6, <1>7

\* The rounds are those the definition says.
LEMMA TakeRoundsRun ==
    ASSUME NEW b, b.packets \in Seq(StreamPackets),
           NEW L \in 0 .. StreamLength, b.first = SeqAt(L + 1)
    PROVE  /\ TakeRounds(b)[0] = [seq |-> SeqAt(L + 1), used |-> 0, hole |-> FALSE, data |-> <<>>]
           /\ TakeRounds(b)[0] \in TakeStates
           /\ \A k \in 1 .. Len(b.packets) :
                 TakeRounds(b)[k] = TakePacket(TakeRounds(b)[k - 1], b.packets[k])
<1> HIDE DEF SeqNum, TakeStates
<1>1. PICK q \in Seq(StreamPackets) : q = b.packets OBVIOUS
<1>2. PICK N \in Nat : N = Len(q) OBVIOUS
<1>3. PICK S : S = {a \in TakeStates : \E e \in 0 .. StreamLength : a.seq = SeqAt(e + 1)} OBVIOUS
<1>4. PICK z : z = [seq |-> SeqAt(L + 1), used |-> 0, hole |-> FALSE, data |-> <<>>] OBVIOUS
<1>5. z \in TakeStates
  <2>1. L + 1 \in Places BY StreamAssumption DEF Places
  <2>2. SeqAt(L + 1) \in SeqNum BY <2>1, SeqAtCases
  <2>3. <<>> \in Seq(Nat) OBVIOUS
  <2> QED BY <1>4, <2>2, <2>3 DEF TakeStates
<1>6. z \in S BY <1>3, <1>4, <1>5
<1>7. ASSUME NEW k \in 1 .. N, NEW a \in S PROVE TakePacket(a, q[k]) \in S
  <2>1. PICK e \in 0 .. StreamLength : a.seq = SeqAt(e + 1) BY <1>3
  <2>2. PICK p \in StreamPackets : p = q[k] BY <1>2
  <2>3. a \in TakeStates BY <1>3
  <2>4. CASE a.hole \/ From(p) > e + 1
    <3>1. Stopped(a, TakePacket(a, p)) BY <2>1, <2>3, <2>4, TakeRound
    <3> QED BY <1>3, <2>1, <2>2, <3>1 DEF Stopped
  <2>5. CASE ~a.hole /\ ~(From(p) > e + 1)
    <3>1. TakesOn(a, TakePacket(a, p), e, Reached(e, p)) /\ Reached(e, p) \in 0 .. StreamLength
      BY <2>1, <2>3, <2>5, TakeRound
    <3> QED BY <1>3, <2>2, <3>1 DEF TakesOn
  <2> QED BY <2>4, <2>5
<1>8. PICK R : R = [k \in 1 .. N |-> [a \in S |-> TakePacket(a, q[k])]] OBVIOUS
<1>9. R \in RoundsOver(S, N) BY <1>7, <1>8 DEF RoundsOver
<1>10. PICK f : IsLoop(f, S, z, N, R) BY <1>6, <1>9, LoopRuns
<1>11. f \in [0 .. N -> S] /\ f[0] = z /\ \A k \in 1 .. N : f[k] = R[k][f[k - 1]]
  BY <1>10 DEF IsLoop
<1>12. \A k \in 1 .. N : f[k] = TakePacket(f[k - 1], q[k])
  <2> TAKE k \in 1 .. N
  <2>1. k - 1 \in 0 .. N OBVIOUS
  <2>2. f[k - 1] \in S BY <1>11, <2>1
  <2> QED BY <1>8, <1>11, <2>2
<1> DEFINE E(g) == [k \in 0 .. N |-> IF k = 0 THEN z ELSE TakePacket(g[k - 1], q[k])]
<1>13. f = E(f) BY <1>11, <1>12
<1>14. TakeRounds(b) = CHOOSE g : g = E(g) BY <1>1, <1>2, <1>4 DEF TakeRounds
<1> HIDE DEF E
<1>15. TakeRounds(b) = E(TakeRounds(b)) BY <1>13, <1>14
<1>16. PICK g : g = TakeRounds(b) OBVIOUS
<1>17. g[0] = z /\ \A k \in 1 .. N : g[k] = TakePacket(g[k - 1], q[k])
  <2>1. PICK h : h = E(g) OBVIOUS
  <2>2. h[0] = z /\ \A k \in 1 .. N : h[k] = TakePacket(g[k - 1], q[k]) BY <2>1 DEF E
  <2> QED BY <1>15, <1>16, <2>1, <2>2
<1> QED BY <1>1, <1>2, <1>4, <1>5, <1>16, <1>17
-------------------------------------------------------------------------------
\* What the list covers.

\* Packets in the order in which they begin, no two of them together.
Sorted(q) == \A i, j \in 1 .. Len(q) : i < j => From(q[i]) < From(q[j])

\* The positions in one of the first k packets, and in any of them.
Covers(q, k) == {x \in 1 .. StreamLength : \E j \in 1 .. k : x \in Span(q[j])}
Cover(q) == Covers(q, Len(q))

\* A part of the stream is finite.
LEMMA PartsAreFinite ==
    ASSUME NEW S, S \subseteq 1 .. StreamLength
    PROVE  IsFiniteSet(S) /\ Cardinality(S) \in Nat /\ Cardinality(S) <= StreamLength
<1>1. StreamLength \in Nat BY StreamAssumption
<1>2. IsFiniteSet(1 .. StreamLength) /\ Cardinality(1 .. StreamLength) = StreamLength
  BY <1>1, FS_Interval
<1> QED BY <1>2, FS_Subset, FS_CardinalityType

\* The next packet of a sorted list adds the positions behind e that it has: what
\* it has up to e is covered, by the packet that reached e or by the L bytes
\* handed out already.
LEMMA NextPacketCovers ==
    ASSUME NEW q \in Seq(StreamPackets), Sorted(q), NEW k \in Nat, k + 1 \in 1 .. Len(q),
           NEW L \in 0 .. StreamLength, NEW e \in 0 .. StreamLength, L <= e,
           Covers(q, k) \subseteq 1 .. e, e = L \/ e \in Covers(q, k),
           NEW p, p = q[k + 1], NEW lo, lo = IF From(p) > e + 1 THEN From(p) ELSE e + 1
    PROVE  /\ Covers(q, k + 1) = Covers(q, k) \cup Span(p)
           /\ Covers(q, k + 1) \ 1 .. L = (Covers(q, k) \ 1 .. L) \cup lo .. To(p)
           /\ (Covers(q, k) \ 1 .. L) \cap lo .. To(p) = {}
           /\ Covers(q, k + 1) \subseteq 1 .. Reached(e, p)
           /\ Reached(e, p) = L \/ Reached(e, p) \in Covers(q, k + 1)
<1>1. p \in StreamPackets OBVIOUS
<1>2. PICK f, o : f = From(p) /\ o = To(p) OBVIOUS
<1>3. f \in 1 .. StreamLength /\ o \in 1 .. StreamLength /\ f <= o BY <1>1, <1>2, StreamPacketFacts
<1>4. StreamLength \in Nat /\ e \in Nat /\ L \in Nat /\ f \in Nat /\ o \in Nat BY <1>3, StreamAssumption
<1>5. Span(p) = f .. o BY <1>2 DEF Span
<1>6. Covers(q, k + 1) = Covers(q, k) \cup f .. o
  <2>1. \A j : j \in 1 .. (k + 1) <=> j \in 1 .. k \/ j = k + 1 OBVIOUS
  <2>2. f .. o \subseteq 1 .. StreamLength BY <1>3, <1>4
  <2> QED BY <1>5, <2>1, <2>2, Zenon DEF Covers
<1>7. PICK C : C = Covers(q, k) OBVIOUS
<1>8. ASSUME NEW x \in f .. e PROVE x \in C \/ x \in 1 .. L
  <2>1. CASE e = L BY <1>3, <1>4, <2>1
  <2>2. CASE e \in Covers(q, k)
    <3>1. PICK j \in 1 .. k : e \in Span(q[j]) BY <2>2 DEF Covers
    <3>2. PICK g, h : g = From(q[j]) /\ h = To(q[j]) OBVIOUS
    <3>3. q[j] \in StreamPackets /\ j \in 1 .. Len(q) /\ j < k + 1 OBVIOUS
    <3>4. g < f BY <1>2, <3>2, <3>3 DEF Sorted
    <3>5. g \in Nat /\ h \in Nat
      <4>1. g \in 1 .. StreamLength /\ h \in 1 .. StreamLength BY <3>2, <3>3, StreamPacketFacts, Zenon
      <4> QED BY <1>4, <4>1
    <3>6. e <= h BY <3>1, <3>2, <3>5, <1>4 DEF Span
    <3>7. x \in g .. h BY <1>4, <3>4, <3>5, <3>6
    <3>8. x \in 1 .. StreamLength BY <1>3, <1>4
    <3> QED BY <1>7, <3>2, <3>7, <3>8 DEF Covers, Span
  <2> QED BY <2>1, <2>2
<1>9. C \subseteq 1 .. e BY <1>7
<1>10. lo = (IF f > e + 1 THEN f ELSE e + 1) /\ Reached(e, p) = (IF o > e THEN o ELSE e)
  BY <1>2 DEF Reached
<1>11. (C \cup f .. o) \ 1 .. L = (C \ 1 .. L) \cup lo .. o
  <2>1. lo \in Nat /\ lo > L /\ lo >= f BY <1>4, <1>10
  <2>2. ASSUME NEW x \in (C \cup f .. o) \ 1 .. L PROVE x \in (C \ 1 .. L) \cup lo .. o
    <3>1. CASE x \in C BY <2>2, <3>1
    <3>2. CASE x \notin C
      <4>1. x \in f .. o /\ x \notin 1 .. L BY <2>2, <3>2
      <4>2. ~(x \in f .. e) BY <1>8, <3>2, <4>1
      <4> QED BY <1>4, <1>10, <4>1, <4>2
    <3> QED BY <3>1, <3>2
  <2>3. ASSUME NEW x \in lo .. o PROVE x \in f .. o /\ x \notin 1 .. L BY <1>4, <2>1
  <2> QED BY <2>2, <2>3
<1>12. (C \ 1 .. L) \cap lo .. o = {} BY <1>4, <1>9, <1>10
<1>13. C \cup f .. o \subseteq 1 .. Reached(e, p) BY <1>3, <1>4, <1>9, <1>10
<1>14. Reached(e, p) = L \/ Reached(e, p) \in C \cup f .. o BY <1>3, <1>4, <1>7, <1>10
<1> QED BY <1>2, <1>5, <1>6, <1>7, <1>11, <1>12, <1>13, <1>14

\* After k rounds size() has counted the positions of k packets behind L.
Counted(q, L, k, a) ==
    \E e \in 0 .. StreamLength :
        /\ L <= e /\ Covers(q, k) \subseteq 1 .. e /\ (e = L \/ e \in Covers(q, k))
        /\ a = [seq |-> SeqAt(e + 1), total |-> Cardinality(Covers(q, k) \ 1 .. L)]

\* A round keeps it so.
LEMMA CountedNext ==
    ASSUME NEW q \in Seq(StreamPackets), Sorted(q), NEW L \in 0 .. StreamLength,
           NEW k \in Nat, k + 1 \in 1 .. Len(q), NEW a, Counted(q, L, k, a)
    PROVE  Counted(q, L, k + 1, CountPacket(a, q[k + 1]))
<1>1. PICK e \in 0 .. StreamLength :
        /\ L <= e /\ Covers(q, k) \subseteq 1 .. e /\ (e = L \/ e \in Covers(q, k))
        /\ a = [seq |-> SeqAt(e + 1), total |-> Cardinality(Covers(q, k) \ 1 .. L)]
  BY DEF Counted
<1>2. PICK p \in StreamPackets : p = q[k + 1] OBVIOUS
<1>3. PICK lo : lo = IF From(p) > e + 1 THEN From(p) ELSE e + 1 OBVIOUS
<1>4. PICK C, D, t : C = Covers(q, k) \ 1 .. L /\ D = Covers(q, k + 1) \ 1 .. L /\ t = Cardinality(C) OBVIOUS
<1>5. /\ D = C \cup lo .. To(p) /\ C \cap lo .. To(p) = {}
      /\ Covers(q, k + 1) \subseteq 1 .. Reached(e, p)
      /\ Reached(e, p) = L \/ Reached(e, p) \in Covers(q, k + 1)
  BY <1>1, <1>2, <1>3, <1>4, NextPacketCovers
<1>6. PICK g : g = IF From(p) > e + 1 THEN Len(p.data) ELSE IF To(p) > e THEN To(p) - e ELSE 0 OBVIOUS
<1>7. StreamLength \in Nat /\ e \in Nat /\ L \in Nat BY StreamAssumption
<1>8. Cardinality(lo .. To(p)) = g /\ IsFiniteSet(lo .. To(p))
  <2>1. /\ From(p) \in Nat /\ To(p) \in Nat /\ From(p) <= To(p)
        /\ Len(p.data) = To(p) - From(p) + 1
    <3>1. PICK f, o : f = From(p) /\ o = To(p) OBVIOUS
    <3>2. /\ f \in 1 .. StreamLength /\ o \in 1 .. StreamLength /\ f <= o
          /\ Len(p.data) = o - f + 1
      BY <3>1, StreamPacketFacts
    <3> QED BY <1>7, <3>1, <3>2
  <2>2. lo \in Int /\ To(p) \in Int BY <1>3, <1>7, <2>1
  <2>3. /\ IsFiniteSet(lo .. To(p))
        /\ Cardinality(lo .. To(p)) = IF lo > To(p) THEN 0 ELSE To(p) - lo + 1
    BY <2>2, FS_Interval
  <2> QED BY <1>3, <1>6, <1>7, <2>1, <2>3
<1>9. IsFiniteSet(C) /\ t \in Nat BY <1>4, PartsAreFinite DEF Covers
<1>10. Cardinality(D) = t + g
  <2>1. Cardinality(C \cap lo .. To(p)) = 0 BY <1>5, FS_EmptySet
  <2>2. Cardinality(C \cup lo .. To(p)) = t + g - Cardinality(C \cap lo .. To(p))
    BY <1>4, <1>8, <1>9, FS_Union
  <2>3. g \in Nat BY <1>8, FS_CardinalityType
  <2> QED BY <1>5, <1>9, <2>1, <2>2, <2>3
<1>11. a = [seq |-> SeqAt(e + 1), total |-> t] BY <1>1, <1>4
<1>12. /\ CountPacket(a, p) = [seq |-> SeqAt(Reached(e, p) + 1), total |-> t + g]
       /\ Reached(e, p) \in 0 .. StreamLength
  <2>1. t \in Int BY <1>9
  <2> QED BY <1>6, <1>11, <2>1, CountRound
<1>13. PICK f \in 0 .. StreamLength : f = Reached(e, p) BY <1>12
<1>14. L <= f
  <2>1. To(p) \in Nat BY StreamPacketFacts
  <2> QED BY <1>1, <1>7, <1>13, <2>1 DEF Reached
<1>15. /\ Covers(q, k + 1) \subseteq 1 .. f /\ (f = L \/ f \in Covers(q, k + 1))
       /\ CountPacket(a, p) = [seq |-> SeqAt(f + 1), total |-> Cardinality(Covers(q, k + 1) \ 1 .. L)]
  BY <1>4, <1>5, <1>10, <1>12, <1>13
<1> QED BY <1>2, <1>14, <1>15, Zenon DEF Counted

\* size() is the number of positions the list covers behind the L handed out.
LEMMA SizeIsCover ==
    ASSUME NEW b, b.packets \in Seq(StreamPackets), Sorted(b.packets),
           NEW L \in 0 .. StreamLength, b.first = SeqAt(L + 1)
    PROVE  size(b) = Cardinality(Cover(b.packets) \ 1 .. L)
<1>1. PICK q \in Seq(StreamPackets) : q = b.packets OBVIOUS
<1>2. PICK N \in Nat : N = Len(q) OBVIOUS
<1>3. PICK r : r = CountRounds(b) OBVIOUS
<1>4. /\ r[0] = [seq |-> SeqAt(L + 1), total |-> 0]
      /\ \A k \in 1 .. N : r[k] = CountPacket(r[k - 1], q[k])
  BY <1>1, <1>2, <1>3, CountRoundsRun
<1>5. PICK G : G = {k \in Nat : k <= N => Counted(q, L, k, r[k])} OBVIOUS
<1>6. 0 \in G
  <2>1. Covers(q, 0) = {} BY DEF Covers
  <2>2. Cardinality(Covers(q, 0) \ 1 .. L) = 0 BY <2>1, FS_EmptySet
  <2>3. L <= L BY StreamAssumption
  <2>4. r[0] = [seq |-> SeqAt(L + 1), total |-> Cardinality(Covers(q, 0) \ 1 .. L)] BY <1>4, <2>2
  <2>5. Counted(q, L, 0, r[0]) BY <2>1, <2>3, <2>4 DEF Counted
  <2> QED BY <1>5, <2>5
<1>7. ASSUME NEW k \in Nat, k \in G PROVE k + 1 \in G
  <2> SUFFICES ASSUME k + 1 <= N PROVE Counted(q, L, k + 1, r[k + 1]) BY <1>5
  <2>1. k + 1 \in 1 .. N /\ k <= N /\ (k + 1) - 1 = k BY <1>2
  <2>2. Counted(q, L, k, r[k]) BY <1>5, <1>7, <2>1
  <2>3. r[k + 1] = CountPacket(r[k], q[k + 1]) BY <1>4, <2>1
  <2>4. Sorted(q) /\ k + 1 \in 1 .. Len(q) BY <1>1, <1>2, <2>1
  <2>5. Counted(q, L, k + 1, CountPacket(r[k], q[k + 1])) BY <2>2, <2>4, CountedNext
  <2> QED BY <2>3, <2>5
<1>8. \A k \in Nat : k \in G BY <1>6, <1>7, SetInduction
<1>9. Counted(q, L, N, r[N]) BY <1>5, <1>8
<1>10. r[N].total = Cardinality(Covers(q, N) \ 1 .. L) BY <1>9 DEF Counted
<1> QED BY <1>1, <1>2, <1>3, <1>10 DEF size, Cover

\* What get_continuous_data() has after k rounds: the positions behind L up to e,
\* which are those of the packets used; it stops at k or before a packet behind a hole.
Taken(q, L, k, a, e) ==
    /\ a \in TakeStates /\ a.seq = SeqAt(e + 1) /\ L <= e
    /\ Len(a.data) = e - L /\ \A x \in 1 .. Len(a.data) : a.data[x] = L + x
    /\ a.used \in 0 .. k
    /\ ~a.hole => a.used = k
    /\ a.hole => a.used < k /\ From(q[a.used + 1]) > e + 1
    /\ Covers(q, a.used) \subseteq 1 .. e /\ (e = L \/ e \in Covers(q, a.used))
    /\ (L + 1) .. e \subseteq Covers(q, a.used)

\* A round keeps it so.
LEMMA TakenNext ==
    ASSUME NEW q \in Seq(StreamPackets), Sorted(q), NEW L \in 0 .. StreamLength,
           NEW k \in Nat, k + 1 \in 1 .. Len(q), NEW a,
           NEW e \in 0 .. StreamLength, Taken(q, L, k, a, e)
    PROVE  \E f \in 0 .. StreamLength : Taken(q, L, k + 1, TakePacket(a, q[k + 1]), f)
<1> HIDE DEF SeqNum, TakeStates
<1>1. PICK p \in StreamPackets : p = q[k + 1] OBVIOUS
<1>2. PICK next : next = TakePacket(a, p) OBVIOUS
<1>3. StreamLength \in Nat /\ L \in Nat /\ e \in Nat BY StreamAssumption
<1>4. a \in TakeStates /\ a.seq = SeqAt(e + 1) BY DEF Taken
<1>5. /\ L <= e /\ a.used \in 0 .. k /\ (~a.hole => a.used = k)
      /\ a.hole => a.used < k /\ From(q[a.used + 1]) > e + 1
      /\ Covers(q, a.used) \subseteq 1 .. e /\ (e = L \/ e \in Covers(q, a.used))
      /\ (L + 1) .. e \subseteq Covers(q, a.used)
  BY DEF Taken
<1>6. Len(a.data) = e - L /\ \A x \in 1 .. Len(a.data) : a.data[x] = L + x BY DEF Taken
<1>7. CASE a.hole \/ From(p) > e + 1
  <2>1. Stopped(a, next) BY <1>2, <1>4, <1>7, TakeRound
  <2>2. /\ next \in TakeStates /\ next.hole
        /\ next.seq = a.seq /\ next.used = a.used /\ next.data = a.data
    BY <2>1 DEF Stopped
  <2>3. PICK u : u = a.used OBVIOUS
  <2>4. u \in 0 .. (k + 1) /\ u < k + 1 BY <1>5, <2>3
  <2>5. From(q[u + 1]) > e + 1 BY <1>1, <1>5, <1>7, <2>3
  <2>6. Taken(q, L, k + 1, next, e) BY <1>4, <1>5, <1>6, <2>2, <2>3, <2>4, <2>5 DEF Taken
  <2> QED BY <1>1, <1>2, <2>6
<1>8. CASE ~a.hole /\ ~(From(p) > e + 1)
  <2>1. PICK f \in 0 .. StreamLength : f = Reached(e, p) BY <1>4, TakeRound
  <2>2. TakesOn(a, next, e, f) BY <1>2, <1>4, <1>8, <2>1, TakeRound
  <2>3. PICK d \in Seq(Nat) : next.data = a.data \o d
                              /\ Len(d) = f - e /\ \A x \in 1 .. Len(d) : d[x] = e + x
    BY <2>2 DEF TakesOn
  <2>4. /\ next \in TakeStates /\ ~next.hole
        /\ next.seq = SeqAt(f + 1) /\ next.used = k + 1
    BY <1>5, <1>8, <2>2 DEF TakesOn
  <2>5. f \in Nat /\ e <= f
    <3>1. To(p) \in Nat
      <4>1. To(p) \in 1 .. StreamLength BY StreamPacketFacts, Zenon
      <4> QED BY <1>3, <4>1
    <3> QED BY <1>3, <2>1, <3>1 DEF Reached
  <2>6. Len(next.data) = f - L /\ \A x \in 1 .. Len(next.data) : next.data[x] = L + x
    <3>1. a.data \in Seq(Nat) BY <1>4 DEF TakeStates
    <3>2. PICK c \in Seq(Nat) : c = a.data BY <3>1
    <3>3. PICK s : s = c \o d OBVIOUS
    <3>4. /\ Len(s) = Len(c) + Len(d)
          /\ \A x \in 1 .. Len(s) : s[x] = IF x <= Len(c) THEN c[x] ELSE d[x - Len(c)]
      BY <3>3
    <3>5. Len(c) = e - L /\ (\A x \in 1 .. (e - L) : c[x] = L + x) BY <1>6, <3>2
    <3>6. Len(d) = f - e /\ (\A x \in 1 .. (f - e) : d[x] = e + x) BY <2>3
    <3>7. Len(s) = f - L BY <1>3, <2>5, <3>4, <3>5, <3>6
    <3>8. ASSUME NEW x \in 1 .. Len(s) PROVE s[x] = L + x
      <4>0. x \in 1 .. (f - L) BY <3>7
      <4>1. CASE x <= e - L
        <5>1. x \in 1 .. (e - L) BY <4>0, <4>1, <1>3, <2>5
        <5> QED BY <3>4, <3>5, <4>1, <5>1
      <4>2. CASE ~(x <= e - L)
        <5>1. x - (e - L) \in 1 .. (f - e) BY <1>3, <1>5, <2>5, <4>0, <4>2
        <5>2. s[x] = d[x - (e - L)] BY <3>4, <3>5, <4>2
        <5>3. PICK y \in 1 .. (f - e) : y = x - (e - L) BY <5>1
        <5>4. d[y] = e + y BY <3>6
        <5> QED BY <1>3, <4>0, <5>2, <5>3, <5>4
      <4> QED BY <4>1, <4>2
    <3> QED BY <2>3, <3>2, <3>3, <3>7, <3>8
  <2>7. a.used = k BY <1>5, <1>8
  <2>8. PICK lo : lo = IF From(p) > e + 1 THEN From(p) ELSE e + 1 OBVIOUS
  <2>9. lo = e + 1 BY <1>8, <2>8
  <2>10. Covers(q, k) \subseteq 1 .. e /\ (e = L \/ e \in Covers(q, k)) /\ (L + 1) .. e \subseteq Covers(q, k)
    BY <1>5, <2>7
  <2>11. /\ Covers(q, k + 1) = Covers(q, k) \cup Span(p)
         /\ Covers(q, k + 1) \ 1 .. L = (Covers(q, k) \ 1 .. L) \cup lo .. To(p)
         /\ Covers(q, k + 1) \subseteq 1 .. f
         /\ f = L \/ f \in Covers(q, k + 1)
    <3>1. /\ Covers(q, k + 1) = Covers(q, k) \cup Span(p)
          /\ Covers(q, k + 1) \ 1 .. L = (Covers(q, k) \ 1 .. L) \cup lo .. To(p)
          /\ Covers(q, k + 1) \subseteq 1 .. Reached(e, p)
          /\ Reached(e, p) = L \/ Reached(e, p) \in Covers(q, k + 1)
      BY <1>1, <1>5, <2>8, <2>10, NextPacketCovers
    <3> QED BY <2>1, <3>1
  <2>12. ASSUME NEW x \in (L + 1) .. f PROVE x \in Covers(q, k + 1)
    <3>1. CASE x <= e
      <4>1. x \in (L + 1) .. e BY <1>3, <2>5, <3>1
      <4> QED BY <2>10, <2>11, <4>1
    <3>2. CASE ~(x <= e)
      <4>1. f = To(p) BY <1>3, <2>1, <2>5, <3>2 DEF Reached
      <4>2. x \in lo .. To(p) BY <1>3, <2>5, <2>9, <3>2, <4>1
      <4> QED BY <2>11, <4>2
    <3> QED BY <3>1, <3>2
  <2>13. k + 1 \in 0 .. (k + 1) /\ L <= f BY <1>3, <1>5, <2>5
  <2>14. Taken(q, L, k + 1, next, f) BY <2>4, <2>6, <2>11, <2>12, <2>13 DEF Taken
  <2> QED BY <1>1, <1>2, <2>14
<1> QED BY <1>7, <1>8

\* get_continuous_data() takes the positions behind L up to the first hole.
LEMMA ScanTakes ==
    ASSUME NEW b, b.packets \in Seq(StreamPackets), Sorted(b.packets),
           NEW L \in 0 .. StreamLength, b.first = SeqAt(L + 1)
    PROVE  \E e \in 0 .. StreamLength : Taken(b.packets, L, Len(b.packets), ContinuousScan(b), e)
<1> HIDE DEF SeqNum, TakeStates
<1>1. PICK q \in Seq(StreamPackets) : q = b.packets OBVIOUS
<1>2. PICK N \in Nat : N = Len(q) OBVIOUS
<1>3. PICK r : r = TakeRounds(b) OBVIOUS
<1>4. /\ r[0] = [seq |-> SeqAt(L + 1), used |-> 0, hole |-> FALSE, data |-> <<>>]
      /\ r[0] \in TakeStates
      /\ \A k \in 1 .. N : r[k] = TakePacket(r[k - 1], q[k])
  BY <1>1, <1>2, <1>3, TakeRoundsRun
<1>5. PICK G : G = {k \in Nat : k <= N => \E e \in 0 .. StreamLength : Taken(q, L, k, r[k], e)} OBVIOUS
<1>6. 0 \in G
  <2>1. Covers(q, 0) = {} BY DEF Covers
  <2>2. PICK a : a = r[0] OBVIOUS
  <2>3. a.seq = SeqAt(L + 1) /\ a.used = 0 /\ ~a.hole /\ a.data = <<>> BY <1>4, <2>2
  <2>4. Len(a.data) = 0 BY <2>3
  <2>5. L \in Nat /\ L <= L /\ 0 = L - L /\ (L + 1) .. L = {} BY StreamAssumption
  <2>6. Taken(q, L, 0, a, L) BY <1>4, <2>1, <2>2, <2>3, <2>4, <2>5 DEF Taken
  <2> QED BY <1>5, <2>2, <2>6
<1>7. ASSUME NEW k \in Nat, k \in G PROVE k + 1 \in G
  <2> SUFFICES ASSUME k + 1 <= N PROVE \E e \in 0 .. StreamLength : Taken(q, L, k + 1, r[k + 1], e) BY <1>5
  <2>1. k + 1 \in 1 .. N /\ k <= N /\ (k + 1) - 1 = k BY <1>2
  <2>2. PICK e \in 0 .. StreamLength : Taken(q, L, k, r[k], e) BY <1>5, <1>7, <2>1
  <2>3. r[k + 1] = TakePacket(r[k], q[k + 1]) BY <1>4, <2>1
  <2>4. Sorted(q) /\ k + 1 \in 1 .. Len(q) BY <1>1, <1>2, <2>1
  <2>5. \E f \in 0 .. StreamLength : Taken(q, L, k + 1, TakePacket(r[k], q[k + 1]), f)
    BY <2>2, <2>4, TakenNext
  <2> QED BY <2>3, <2>5
<1>8. \A k \in Nat : k \in G BY <1>6, <1>7, SetInduction
<1>9. \E e \in 0 .. StreamLength : Taken(q, L, N, r[N], e) BY <1>5, <1>8
<1> QED BY <1>1, <1>2, <1>3, <1>9 DEF ContinuousScan
-------------------------------------------------------------------------------
\* insert().

Buffers == [started : BOOLEAN, first : SeqNum, packets : Seq(StreamPackets)]

\* The elements of a sequence with e in it at place p.
IsWith(r, q, p, e, S) ==
    /\ r \in Seq(S) /\ Len(r) = Len(q) + 1
    /\ \A i \in 1 .. (Len(q) + 1) : r[i] = IF i < p THEN q[i] ELSE IF i = p THEN e ELSE q[i - 1]

\* InsertAt makes such a sequence.
LEMMA InsertAtFacts ==
    ASSUME NEW S, NEW q \in Seq(S), NEW e \in S, NEW p \in 1 .. (Len(q) + 1)
    PROVE  IsWith(InsertAt(q, p, e), q, p, e, S)
<1>1. PICK a : a = SubSeq(q, 1, p - 1) OBVIOUS
<1>2. PICK z : z = SubSeq(q, p, Len(q)) OBVIOUS
<1>3. a \in Seq(S) /\ Len(a) = p - 1 /\ \A i \in 1 .. (p - 1) : a[i] = q[i] BY <1>1
<1>4. z \in Seq(S) /\ Len(z) = Len(q) - p + 1 /\ \A i \in 1 .. (Len(q) - p + 1) : z[i] = q[p + i - 1]
  BY <1>2
<1>5. PICK c : c = a \o <<e>> OBVIOUS
<1>6. c \in Seq(S) /\ Len(c) = p /\ \A i \in 1 .. p : c[i] = IF i < p THEN q[i] ELSE e BY <1>3, <1>5
<1>7. PICK r : r = c \o z OBVIOUS
<1>8. r \in Seq(S) /\ Len(r) = Len(c) + Len(z)
  <2>1. c \in Seq(S) /\ z \in Seq(S) BY <1>4, <1>6
  <2> QED BY <1>7, <2>1
<1>9. Len(r) = Len(q) + 1 BY <1>4, <1>6, <1>8
<1>10. \A i \in 1 .. p : r[i] = c[i] BY <1>4, <1>6, <1>7
<1>11. ASSUME NEW i \in (p + 1) .. (Len(q) + 1) PROVE r[i] = q[i - 1]
  <2>1. r[i] = z[i - p] BY <1>4, <1>6, <1>7
  <2>2. i - p \in 1 .. (Len(q) - p + 1) /\ p + (i - p) - 1 = i - 1 OBVIOUS
  <2> QED BY <1>4, <2>1, <2>2
<1>12. \A i \in 1 .. (Len(q) + 1) : r[i] = IF i < p THEN q[i] ELSE IF i = p THEN e ELSE q[i - 1]
  BY <1>6, <1>10, <1>11
<1>13. InsertAt(q, p, e) = r BY <1>1, <1>2, <1>5, <1>7 DEF InsertAt
<1>14. IsWith(r, q, p, e, S) BY <1>8, <1>9, <1>12 DEF IsWith
<1> QED BY <1>13, <1>14

\* m packets begin before p, and the others do not.
IsPlace(q, p, m) ==
    /\ m \in 0 .. Len(q)
    /\ \A i \in 1 .. m : From(q[i]) < From(p)
    /\ \A i \in (m + 1) .. Len(q) : From(p) <= From(q[i])

\* A sorted list has one such place.
LEMMA SortedHasPlace ==
    ASSUME NEW q \in Seq(StreamPackets), Sorted(q), NEW p \in StreamPackets
    PROVE  \E m : IsPlace(q, p, m)
<1>1. PICK N \in Nat : N = Len(q) OBVIOUS
<1>2. PICK f \in Nat : f = From(p)
  <2>1. From(p) \in 1 .. StreamLength BY StreamPacketFacts, Zenon
  <2> QED BY <2>1, StreamAssumption
<1>3. ASSUME NEW i \in 1 .. N PROVE From(q[i]) \in Nat
  <2>1. q[i] \in StreamPackets BY <1>1
  <2>2. From(q[i]) \in 1 .. StreamLength BY <2>1, StreamPacketFacts, Zenon
  <2> QED BY <2>2, StreamAssumption
<1>4. PICK S : S = {k \in Nat : k = N + 1 \/ (k \in 1 .. N /\ f <= From(q[k]))} OBVIOUS
<1>5. S \in SUBSET Nat /\ N + 1 \in S BY <1>4
<1>6. PICK k \in S : \A j \in S : k <= j BY <1>5, LeastNumber
<1>7. k \in 1 .. (N + 1) BY <1>4, <1>6
<1>8. PICK m : m = k - 1 OBVIOUS
<1>9. m \in 0 .. N BY <1>7, <1>8
<1>10. ASSUME NEW i \in 1 .. m PROVE From(q[i]) < f
  <2>1. i \in 1 .. N /\ i < k BY <1>7, <1>8, <1>9
  <2>2. i \notin S BY <1>6, <1>7, <2>1
  <2> QED BY <1>3, <1>4, <2>1, <2>2
<1>11. ASSUME NEW i \in (m + 1) .. N PROVE f <= From(q[i])
  <2>1. k \in 1 .. N /\ i \in 1 .. N /\ k <= i BY <1>7, <1>8, <1>9
  <2>2. f <= From(q[k]) BY <1>4, <1>6, <2>1
  <2>3. CASE i = k BY <2>2, <2>3
  <2>4. CASE i # k
    <3>1. k < i BY <2>1, <2>4
    <3>2. From(q[k]) < From(q[i]) BY <1>1, <2>1, <3>1 DEF Sorted
    <3> QED BY <1>3, <2>1, <2>2, <3>2
  <2> QED BY <2>3, <2>4
<1> QED BY <1>1, <1>2, <1>9, <1>10, <1>11, Zenon DEF IsPlace

\* lower_bound finds it, and the packet that begins where p does if there is one.
LEMMA LowerBoundFinds ==
    ASSUME NEW q \in Seq(StreamPackets), NEW p \in StreamPackets, NEW m, IsPlace(q, p, m),
           NEW b, b.packets = q
    PROVE  /\ LowerBound(b, p) = m
           /\ AlreadyInserted(b, p) <=> m + 1 <= Len(q) /\ From(q[m + 1]) = From(p)
<1>1. PICK N \in Nat : N = Len(q) OBVIOUS
<1>2. ASSUME NEW g \in StreamPackets, NEW h \in StreamPackets
      PROVE  /\ less_than(g.seq, h.seq) <=> From(g) < From(h)
             /\ g.seq = h.seq <=> From(g) = From(h)
  <2>1. PICK i \in 1 .. StreamLength, n \in Nat :
          n # 0 /\ i + n - 1 <= StreamLength /\ g = PacketOf(i, n)
    BY StreamPacketFacts
  <2>2. PICK j \in 1 .. StreamLength, o \in Nat :
          o # 0 /\ j + o - 1 <= StreamLength /\ h = PacketOf(j, o)
    BY StreamPacketFacts
  <2>3. g.seq = SeqAt(i) /\ From(g) = i /\ i \in Places BY <2>1, PacketFacts
  <2>4. h.seq = SeqAt(j) /\ From(h) = j /\ j \in Places BY <2>2, PacketFacts
  <2> QED BY <2>3, <2>4, SeqAtOrder
<1>3. m \in 0 .. N /\ (\A i \in 1 .. m : From(q[i]) < From(p))
      /\ \A i \in (m + 1) .. N : From(p) <= From(q[i])
  BY <1>1 DEF IsPlace
<1>4. PICK f \in Nat : f = From(p)
  <2>1. From(p) \in 1 .. StreamLength BY StreamPacketFacts, Zenon
  <2> QED BY <2>1, StreamAssumption
<1>5. ASSUME NEW i \in 1 .. N PROVE From(q[i]) \in Nat /\ q[i] \in StreamPackets
  <2>1. q[i] \in StreamPackets BY <1>1
  <2>2. From(q[i]) \in 1 .. StreamLength BY <2>1, StreamPacketFacts, Zenon
  <2> QED BY <2>1, <2>2, StreamAssumption
<1>6. PICK B : B = {i \in DOMAIN q : less_than(q[i].seq, p.seq)} OBVIOUS
<1>7. B = 1 .. m
  <2>1. ASSUME NEW i \in 1 .. N PROVE less_than(q[i].seq, p.seq) <=> i <= m
    <3>1. less_than(q[i].seq, p.seq) <=> From(q[i]) < f BY <1>2, <1>4, <1>5
    <3>2. CASE i <= m
      <4>1. i \in 1 .. m BY <1>3, <3>2
      <4> QED BY <1>3, <1>4, <3>1, <3>2, <4>1
    <3>3. CASE ~(i <= m)
      <4>1. i \in (m + 1) .. N BY <1>3, <3>3
      <4>2. f <= From(q[i]) BY <1>3, <1>4, <4>1
      <4> QED BY <1>5, <3>1, <3>3, <4>2
    <3> QED BY <3>2, <3>3
  <2>2. DOMAIN q = 1 .. N BY <1>1
  <2>3. ASSUME NEW i \in 1 .. m PROVE i \in 1 .. N /\ i <= m BY <1>3
  <2>4. ASSUME NEW i \in 1 .. N, i <= m PROVE i \in 1 .. m BY <1>3, <2>4
  <2> QED BY <1>6, <2>1, <2>2, <2>3, <2>4
<1>8. Cardinality(1 .. m) = m
  <2>1. 1 \in Int /\ m \in Int /\ m \in Nat BY <1>3
  <2>2. Cardinality(1 .. m) = IF 1 > m THEN 0 ELSE m - 1 + 1 BY <2>1, FS_Interval
  <2> QED BY <2>1, <2>2
<1>9. LowerBound(b, p) = m BY <1>6, <1>7, <1>8 DEF LowerBound
<1>10. AlreadyInserted(b, p) <=> m + 1 <= N /\ q[m + 1].seq = p.seq
  BY <1>1, <1>9 DEF AlreadyInserted
<1>11. ASSUME m + 1 <= N PROVE q[m + 1].seq = p.seq <=> From(q[m + 1]) = From(p)
  <2>1. m + 1 \in 1 .. N BY <1>3, <1>11
  <2> QED BY <1>2, <1>5, <2>1
<1> QED BY <1>1, <1>9, <1>10, <1>11

\* The list with p in its place is sorted, and covers p as well.
LEMMA PlacedCovers ==
    ASSUME NEW b \in Buffers, Sorted(b.packets), NEW p \in StreamPackets
    PROVE  /\ Placed(b, p) \in Buffers
           /\ Placed(b, p).started = b.started /\ Placed(b, p).first = b.first
           /\ Sorted(Placed(b, p).packets)
           /\ Cover(Placed(b, p).packets) = Cover(b.packets) \cup Span(p)
<1> HIDE DEF SeqNum, StreamPackets
<1>1. PICK q \in Seq(StreamPackets) : q = b.packets BY DEF Buffers
<1>2. PICK N \in Nat : N = Len(q) OBVIOUS
<1>3. PICK m : IsPlace(q, p, m) BY <1>1, SortedHasPlace
<1>4. m \in 0 .. N /\ (\A i \in 1 .. m : From(q[i]) < From(p))
      /\ \A i \in (m + 1) .. N : From(p) <= From(q[i])
  BY <1>2, <1>3 DEF IsPlace
<1>5. /\ LowerBound(b, p) = m
      /\ AlreadyInserted(b, p) <=> m + 1 <= N /\ From(q[m + 1]) = From(p)
  BY <1>1, <1>2, <1>3, LowerBoundFinds
<1>6. Span(p) \subseteq 1 .. StreamLength /\ From(p) \in Nat /\ To(p) \in Nat
  <2>1. From(p) \in 1 .. StreamLength /\ To(p) \in 1 .. StreamLength BY StreamPacketFacts, Zenon
  <2>2. PICK f, o : f = From(p) /\ o = To(p) OBVIOUS
  <2>3. StreamLength \in Nat BY StreamAssumption
  <2>4. f .. o \subseteq 1 .. StreamLength /\ f \in Nat /\ o \in Nat BY <2>1, <2>2, <2>3
  <2> QED BY <2>2, <2>4 DEF Span
<1>7. ASSUME NEW i \in 1 .. N PROVE q[i] \in StreamPackets /\ From(q[i]) \in Nat
  <2>1. q[i] \in StreamPackets BY <1>2
  <2>2. From(q[i]) \in 1 .. StreamLength BY <2>1, StreamPacketFacts, Zenon
  <2> QED BY <2>1, <2>2, StreamAssumption
<1>8. \A i, j \in 1 .. N : i < j => From(q[i]) < From(q[j]) BY <1>1, <1>2 DEF Sorted
<1>9. Cover(q) = {x \in 1 .. StreamLength : \E j \in 1 .. N : x \in Span(q[j])}
  BY <1>2 DEF Cover, Covers
<1>10. ASSUME NEW r \in Seq(StreamPackets), NEW c, c = [b EXCEPT !.packets = r]
       PROVE  c \in Buffers /\ c.started = b.started /\ c.first = b.first /\ c.packets = r
  BY <1>10 DEF Buffers
<1>11. CASE AlreadyInserted(b, p)
  <2>1. PICK l \in 1 .. N : l = m + 1 BY <1>4, <1>5, <1>11
  <2>2. From(q[l]) = From(p) BY <1>5, <1>11, <2>1
  <2>3. To(q[l]) \in Nat /\ Len(q[l].data) = To(q[l]) - From(q[l]) + 1
    <3>1. To(q[l]) \in 1 .. StreamLength /\ Len(q[l].data) = To(q[l]) - From(q[l]) + 1
      BY <1>7, StreamPacketFacts, Zenon
    <3> QED BY <3>1, StreamAssumption
  <2>4. Len(p.data) = To(p) - From(p) + 1 BY StreamPacketFacts, Zenon
  <2>5. Len(q[l].data) <= Len(p.data) <=> To(q[l]) <= To(p) BY <1>6, <2>2, <2>3, <2>4
  <2>6. CASE Len(q[l].data) <= Len(p.data)
    <3>1. PICK r : r = [q EXCEPT ![l] = p] OBVIOUS
    <3>2. r \in Seq(StreamPackets) /\ Len(r) = N BY <1>2, <3>1
    <3>3. r[l] = p /\ \A i \in 1 .. N : i # l => r[i] = q[i] BY <1>2, <3>1
    <3>4. Placed(b, p) = [b EXCEPT !.packets = r]
      BY <1>1, <1>5, <1>11, <2>1, <2>6, <3>1 DEF Placed
    <3>5. ASSUME NEW i \in 1 .. N PROVE From(r[i]) = From(q[i]) BY <2>2, <3>3
    <3>6. Sorted(r) BY <1>8, <3>2, <3>5 DEF Sorted
    <3>7. Span(q[l]) \subseteq Span(p) BY <1>6, <2>2, <2>3, <2>5, <2>6 DEF Span
    <3>8. ASSUME NEW x \in 1 .. StreamLength
          PROVE  (\E j \in 1 .. N : x \in Span(r[j])) <=> (\E j \in 1 .. N : x \in Span(q[j])) \/ x \in Span(p)
      BY <3>3, <3>7
    <3>9. Cover(r) = {x \in 1 .. StreamLength : \E j \in 1 .. N : x \in Span(r[j])}
      BY <3>2 DEF Cover, Covers
    <3>10. Cover(r) = Cover(q) \cup Span(p) BY <1>6, <1>9, <3>8, <3>9
    <3> QED BY <1>1, <1>10, <3>2, <3>4, <3>6, <3>10
  <2>7. CASE ~(Len(q[l].data) <= Len(p.data))
    <3>1. Placed(b, p) = b BY <1>1, <1>5, <1>11, <2>1, <2>7 DEF Placed
    <3>2. To(p) <= To(q[l]) BY <1>6, <2>3, <2>5, <2>7
    <3>3. Span(p) \subseteq Span(q[l]) BY <1>6, <2>2, <2>3, <3>2 DEF Span
    <3>4. Cover(q) = Cover(q) \cup Span(p) BY <1>6, <1>9, <3>3
    <3> QED BY <1>1, <3>1, <3>4
  <2> QED BY <2>6, <2>7
<1>12. CASE ~AlreadyInserted(b, p)
  <2>1. PICK l \in 1 .. (N + 1) : l = m + 1 BY <1>4
  <2>2. PICK r : r = InsertAt(q, l, p) OBVIOUS
  <2>3. /\ r \in Seq(StreamPackets) /\ Len(r) = N + 1
        /\ \A i \in 1 .. (N + 1) : r[i] = IF i < l THEN q[i] ELSE IF i = l THEN p ELSE q[i - 1]
    <3>1. l \in 1 .. (Len(q) + 1) BY <1>2, <2>1
    <3>2. IsWith(r, q, l, p, StreamPackets) BY <2>2, <3>1, InsertAtFacts
    <3> QED BY <1>2, <3>2 DEF IsWith
  <2>4. Placed(b, p) = [b EXCEPT !.packets = r] BY <1>1, <1>5, <1>12, <2>1, <2>2 DEF Placed
  <2>5. ASSUME NEW i \in 1 .. N, i < l PROVE r[i] = q[i] /\ From(q[i]) < From(p) /\ i \in 1 .. (N + 1)
    <3>1. i \in 1 .. m /\ i \in 1 .. (N + 1) BY <1>4, <2>1, <2>5
    <3> QED BY <1>4, <2>3, <2>5, <3>1
  <2>6. ASSUME NEW i \in 1 .. N, l <= i
        PROVE  r[i + 1] = q[i] /\ From(p) < From(q[i]) /\ i + 1 \in 1 .. (N + 1)
    <3>1. i + 1 \in 1 .. (N + 1) /\ (i + 1) - 1 = i /\ ~(i + 1 < l) /\ i + 1 # l BY <2>6
    <3>2. r[i + 1] = q[i] BY <2>3, <3>1
    <3>3. From(p) <= From(q[i])
      <4>1. i \in (m + 1) .. N BY <1>4, <2>1, <2>6
      <4> QED BY <1>4, <4>1
    <3>4. From(q[l]) # From(p) /\ l \in 1 .. N BY <1>4, <1>5, <1>12, <2>1, <2>6
    <3>5. CASE i = l BY <1>6, <1>7, <3>1, <3>2, <3>3, <3>4, <3>5
    <3>6. CASE i # l
      <4>1. l < i BY <2>6, <3>6
      <4>2. From(q[l]) < From(q[i]) BY <1>8, <3>4, <4>1
      <4>3. From(p) <= From(q[l])
        <5>1. l \in (m + 1) .. N BY <1>4, <2>1, <3>4
        <5> QED BY <1>4, <5>1
      <4> QED BY <1>6, <1>7, <3>1, <3>2, <3>4, <4>2, <4>3
    <3> QED BY <3>5, <3>6
  <2>7. r[l] = p BY <2>3
  <2>8. ASSUME NEW i \in 1 .. (N + 1)
        PROVE  \/ i \in 1 .. N /\ i < l
               \/ i = l
               \/ i - 1 \in 1 .. N /\ l <= i - 1 /\ (i - 1) + 1 = i
    OBVIOUS
  <2>9. ASSUME NEW i \in 1 .. (N + 1), NEW j \in 1 .. (N + 1), i < j PROVE From(r[i]) < From(r[j])
    <3>1. CASE j < l
      <4>1. i \in 1 .. N /\ j \in 1 .. N /\ i < l BY <2>1, <2>9, <3>1
      <4> QED BY <1>8, <2>5, <2>9, <3>1, <4>1
    <3>2. CASE j = l
      <4>1. i \in 1 .. N /\ i < l BY <2>1, <2>9, <3>2
      <4> QED BY <2>5, <2>7, <3>2, <4>1
    <3>3. CASE j > l
      <4>1. PICK y \in 1 .. N : y = j - 1 /\ l <= y /\ y + 1 = j BY <2>1, <3>3
      <4>2. r[j] = q[y] /\ From(p) < From(q[y]) BY <2>6, <4>1
      <4>3. CASE i < l
        <5>1. i \in 1 .. N BY <2>1, <4>3
        <5>2. i < y BY <2>1, <4>1, <4>3
        <5>3. From(q[i]) < From(q[y]) BY <1>8, <5>1, <5>2
        <5> QED BY <2>5, <4>2, <4>3, <5>1, <5>3
      <4>4. CASE i = l BY <2>7, <4>2, <4>4
      <4>5. CASE i > l
        <5>1. PICK x \in 1 .. N : x = i - 1 /\ l <= x /\ x + 1 = i BY <2>1, <4>5
        <5>2. r[i] = q[x] BY <2>6, <5>1
        <5>3. x < y BY <2>9, <4>1, <5>1
        <5> QED BY <1>8, <4>2, <5>2, <5>3
      <4> QED BY <4>3, <4>4, <4>5
    <3> QED BY <3>1, <3>2, <3>3
  <2>10. Sorted(r) BY <2>3, <2>9 DEF Sorted
  <2>11. ASSUME NEW x \in 1 .. StreamLength
         PROVE  (\E j \in 1 .. (N + 1) : x \in Span(r[j]))
                    <=> (\E j \in 1 .. N : x \in Span(q[j])) \/ x \in Span(p)
    <3>1. ASSUME NEW j \in 1 .. (N + 1), x \in Span(r[j])
          PROVE  (\E i \in 1 .. N : x \in Span(q[i])) \/ x \in Span(p)
      <4>1. CASE j \in 1 .. N /\ j < l BY <2>5, <3>1, <4>1
      <4>2. CASE j = l BY <2>7, <3>1, <4>2
      <4>3. CASE j - 1 \in 1 .. N /\ l <= j - 1 /\ (j - 1) + 1 = j
        <5>1. PICK i \in 1 .. N : i = j - 1 BY <4>3
        <5>2. r[j] = q[i] BY <2>6, <4>3, <5>1
        <5> QED BY <3>1, <5>2
      <4> QED BY <2>8, <4>1, <4>2, <4>3
    <3>2. ASSUME NEW i \in 1 .. N, x \in Span(q[i]) PROVE \E j \in 1 .. (N + 1) : x \in Span(r[j])
      <4>1. CASE i < l BY <2>5, <3>2, <4>1
      <4>2. CASE l <= i BY <2>6, <3>2, <4>2
      <4> QED BY <2>1, <4>1, <4>2
    <3>3. ASSUME x \in Span(p) PROVE \E j \in 1 .. (N + 1) : x \in Span(r[j])
      BY <2>1, <2>7, <3>3
    <3> QED BY <3>1, <3>2, <3>3
  <2>12. Cover(r) = {x \in 1 .. StreamLength : \E j \in 1 .. (N + 1) : x \in Span(r[j])}
    BY <2>3 DEF Cover, Covers
  <2>13. Cover(r) = Cover(q) \cup Span(p) BY <1>6, <1>9, <2>11, <2>12
  <2> QED BY <1>1, <1>10, <2>3, <2>4, <2>10, <2>13
<1> QED BY <1>11, <1>12

\* What insert() does, and the value it returns.
LEMMA InsertCovers ==
    ASSUME NEW b \in Buffers, Sorted(b.packets), NEW p \in StreamPackets,
           NEW L \in 0 .. StreamLength, b.first = SeqAt(L + 1)
    PROVE  /\ insert(b, p) \in Buffers
           /\ insert(b, p).started = b.started /\ insert(b, p).first = b.first
           /\ Sorted(insert(b, p).packets)
           /\ Cover(insert(b, p).packets) \ 1 .. L = (Cover(b.packets) \cup Span(p)) \ 1 .. L
           /\ num_inserted(b, p) = Cardinality((Cover(b.packets) \cup Span(p)) \ 1 .. L)
                                     - Cardinality(Cover(b.packets) \ 1 .. L)
<1> HIDE DEF SeqNum, StreamPackets
<1>1. PICK c : c = Placed(b, p) OBVIOUS
<1>2. /\ c \in Buffers /\ c.started = b.started /\ c.first = b.first /\ Sorted(c.packets)
      /\ Cover(c.packets) = Cover(b.packets) \cup Span(p)
  BY <1>1, PlacedCovers
<1>3. PICK C : C = Cover(b.packets) \ 1 .. L OBVIOUS
<1>4. PICK D : D = (Cover(b.packets) \cup Span(p)) \ 1 .. L OBVIOUS
<1>5. b.packets \in Seq(StreamPackets) /\ c.packets \in Seq(StreamPackets) BY <1>2 DEF Buffers
<1>6. size(b) = Cardinality(C) BY <1>3, <1>5, SizeIsCover
<1>7. size(c) = Cardinality(D) BY <1>2, <1>4, <1>5, SizeIsCover
<1>8. num_inserted(b, p) = Cardinality(D) - Cardinality(C) BY <1>1, <1>6, <1>7 DEF num_inserted
<1>9. CASE num_inserted(b, p) = 0 /\ ~AlreadyInserted(b, p)
  <2>1. insert(b, p) = b BY <1>9 DEF insert
  <2>2. C \subseteq D /\ C \subseteq 1 .. StreamLength /\ D \subseteq 1 .. StreamLength
    <3>1. D = Cover(c.packets) \ 1 .. L BY <1>2, <1>4
    <3> QED BY <1>3, <1>4, <3>1 DEF Cover, Covers
  <2>3. IsFiniteSet(D) /\ Cardinality(C) \in Nat /\ Cardinality(D) \in Nat BY <2>2, PartsAreFinite
  <2>4. Cardinality(C) = Cardinality(D) BY <1>8, <1>9, <2>3
  <2>5. C = D BY <2>2, <2>3, <2>4, FS_Subset
  <2> QED BY <1>3, <1>4, <1>8, <2>1, <2>5
<1>10. CASE ~(num_inserted(b, p) = 0 /\ ~AlreadyInserted(b, p))
  <2>1. insert(b, p) = c BY <1>1, <1>10, Zenon DEF insert
  <2> QED BY <1>2, <1>3, <1>4, <1>8, <2>1
<1> QED BY <1>9, <1>10

-------------------------------------------------------------------------------
\* The machine.

\* The list is sorted and covers what was given and not handed out yet; what was
\* handed out is the beginning of the stream.
BufInv ==
    \E L \in 0 .. StreamLength :
        /\ buffer \in Buffers /\ buffer.started
        /\ buffer.first = SeqAt(L + 1)
        /\ Sorted(buffer.packets)
        /\ Cover(buffer.packets) \ 1 .. L = given \ 1 .. L
        /\ out = [k \in 1 .. L |-> k]
        /\ 1 .. L \subseteq given /\ given \subseteq 1 .. StreamLength
        /\ grown = Cardinality(given)

\* At the start nothing was given.
LEMMA InitBuf == Init => BufInv
<1> SUFFICES ASSUME Init PROVE BufInv OBVIOUS
<1> HIDE DEF SeqNum, StreamPackets
<1>1. StreamLength \in Nat /\ FirstSeq \in SeqNum BY StreamAssumption
<1>2. 0 \in 0 .. StreamLength /\ 1 .. 0 = {} /\ 0 + 1 = 1 BY <1>1
<1>3. SeqAt(1) = FirstSeq
  <2>1. 0 \in SeqNum /\ Modulus \in Nat BY IntMaxAssumption DEF SeqNum, Modulus
  <2>2. FirstSeq \in 0 .. (Modulus - 1) BY <1>1 DEF SeqNum
  <2>3. Plus(FirstSeq, 0) = FirstSeq BY <1>1, <2>1, <2>2, PlusCases
  <2> QED BY <2>3 DEF SeqAt
<1>4. PICK b : b = buffer OBVIOUS
<1>5. b = [started |-> TRUE, first |-> FirstSeq, packets |-> <<>>]
  BY <1>4 DEF Init, set_first_sequence_number, EmptyBuffer
<1>6. <<>> \in Seq(StreamPackets) /\ Len(<<>>) = 0 OBVIOUS
<1>7. b \in Buffers /\ b.started /\ b.first = SeqAt(0 + 1) /\ b.packets = <<>>
  BY <1>1, <1>3, <1>5, <1>6 DEF Buffers
<1>8. Sorted(<<>>) /\ Cover(<<>>) = {} BY <1>6 DEF Sorted, Cover, Covers
<1>9. given = {} /\ grown = 0 /\ Cardinality({}) = 0 BY FS_EmptySet DEF Init
<1>10. out = [k \in 1 .. 0 |-> k] BY <1>2 DEF Init
<1> QED BY <1>2, <1>4, <1>7, <1>8, <1>9, <1>10 DEF BufInv

\* insert() keeps the invariant, whatever packet of the stream arrives.
LEMMA InsertBuf ==
    ASSUME BufInv, NEW i \in 1 .. StreamLength, NEW n \in 1 .. MaxLength, Insert(i, n)
    PROVE  BufInv'
<1> HIDE DEF SeqNum, StreamPackets
<1>1. PICK L \in 0 .. StreamLength :
        /\ buffer \in Buffers /\ buffer.started
        /\ buffer.first = SeqAt(L + 1)
        /\ Sorted(buffer.packets)
        /\ Cover(buffer.packets) \ 1 .. L = given \ 1 .. L
        /\ out = [k \in 1 .. L |-> k]
        /\ 1 .. L \subseteq given /\ given \subseteq 1 .. StreamLength
        /\ grown = Cardinality(given)
  BY DEF BufInv
<1>2. StreamLength \in Nat /\ MaxLength \in Nat BY StreamAssumption
<1>3. n \in Nat /\ n # 0 /\ i + n - 1 <= StreamLength BY <1>2 DEF Insert
<1>4. PICK p : p = PacketOf(i, n) OBVIOUS
<1>5. p \in StreamPackets /\ From(p) = i /\ To(p) = i + n - 1 BY <1>3, <1>4, PacketFacts
<1>6. Span(p) = i .. (i + n - 1) BY <1>5 DEF Span
<1>7. PICK b : b = buffer OBVIOUS
<1>8. PICK c : c = insert(b, p) OBVIOUS
<1>9. PICK g : g = given OBVIOUS
<1>10. /\ buffer' = c /\ given' = g \cup Span(p) /\ out' = out
       /\ grown' = grown + num_inserted(b, p)
  BY <1>4, <1>6, <1>7, <1>8, <1>9 DEF Insert
<1>11. /\ c \in Buffers /\ c.started = b.started /\ c.first = b.first /\ Sorted(c.packets)
       /\ Cover(c.packets) \ 1 .. L = (Cover(b.packets) \cup Span(p)) \ 1 .. L
       /\ num_inserted(b, p) = Cardinality((Cover(b.packets) \cup Span(p)) \ 1 .. L)
                                 - Cardinality(Cover(b.packets) \ 1 .. L)
  BY <1>1, <1>5, <1>7, <1>8, InsertCovers
<1>12. Cover(b.packets) \ 1 .. L = g \ 1 .. L BY <1>1, <1>7, <1>9
<1>13. (Cover(b.packets) \cup Span(p)) \ 1 .. L = (g \cup Span(p)) \ 1 .. L BY <1>12
<1>14. Span(p) \subseteq 1 .. StreamLength BY <1>2, <1>3, <1>6
<1>15. 1 .. L \subseteq g /\ g \subseteq 1 .. StreamLength /\ grown = Cardinality(g) BY <1>1, <1>9
<1>16. \A S : 1 .. L \subseteq S /\ S \subseteq 1 .. StreamLength =>
          Cardinality(S) \in Nat /\ Cardinality(S \ 1 .. L) = Cardinality(S) - Cardinality(1 .. L)
  <2> TAKE S
  <2> HAVE 1 .. L \subseteq S /\ S \subseteq 1 .. StreamLength
  <2>1. IsFiniteSet(S) /\ Cardinality(S) \in Nat BY PartsAreFinite
  <2>2. Cardinality(S \ 1 .. L) = Cardinality(S) - Cardinality(S \cap 1 .. L) BY <2>1, FS_Difference
  <2>3. S \cap 1 .. L = 1 .. L OBVIOUS
  <2> QED BY <2>1, <2>2, <2>3
<1>17. PICK h : h = g \cup Span(p) OBVIOUS
<1>18. 1 .. L \subseteq h /\ h \subseteq 1 .. StreamLength BY <1>14, <1>15, <1>17
<1>19. num_inserted(b, p) = Cardinality(h \ 1 .. L) - Cardinality(g \ 1 .. L) BY <1>11, <1>12, <1>13, <1>17
<1>20. Cardinality(1 .. L) \in Nat
  <2>1. 1 .. L \subseteq 1 .. StreamLength BY <1>2
  <2> QED BY <2>1, PartsAreFinite
<1>21. Cardinality(g) \in Nat /\ Cardinality(h) \in Nat
       /\ Cardinality(g \ 1 .. L) = Cardinality(g) - Cardinality(1 .. L)
       /\ Cardinality(h \ 1 .. L) = Cardinality(h) - Cardinality(1 .. L)
  BY <1>15, <1>16, <1>18
<1>22. grown + num_inserted(b, p) = Cardinality(h) BY <1>15, <1>19, <1>20, <1>21
<1>23. /\ c \in Buffers /\ c.started /\ c.first = SeqAt(L + 1) /\ Sorted(c.packets)
       /\ Cover(c.packets) \ 1 .. L = h \ 1 .. L
  BY <1>1, <1>7, <1>11, <1>13, <1>17
<1>24. buffer' = c /\ given' = h /\ out' = [k \in 1 .. L |-> k] /\ grown' = Cardinality(h)
  BY <1>1, <1>10, <1>17, <1>22
<1> QED BY <1>18, <1>23, <1>24 DEF BufInv

\* A list without its first packets.
LEMMA RestOfList ==
    ASSUME NEW q \in Seq(StreamPackets), Sorted(q), NEW u \in 0 .. Len(q),
           NEW r, r = SubSeq(q, u + 1, Len(q))
    PROVE  /\ r \in Seq(StreamPackets) /\ Sorted(r)
           /\ Cover(q) = Covers(q, u) \cup Cover(r)
<1> HIDE DEF StreamPackets
<1>1. PICK N \in Nat : N = Len(q) OBVIOUS
<1>2. u \in 0 .. N BY <1>1
<1>3. r \in Seq(StreamPackets) /\ Len(r) = N - u /\ \A i \in 1 .. (N - u) : r[i] = q[u + i]
  BY <1>1
<1>4. ASSUME NEW i \in 1 .. (N - u), NEW j \in 1 .. (N - u), i < j PROVE From(r[i]) < From(r[j])
  <2>1. PICK x, y : x = u + i /\ y = u + j OBVIOUS
  <2>2. x \in 1 .. N /\ y \in 1 .. N /\ x < y BY <1>2, <1>4, <2>1
  <2>3. From(q[x]) < From(q[y]) BY <1>1, <2>2 DEF Sorted
  <2> QED BY <1>3, <2>1, <2>3
<1>5. Sorted(r) BY <1>3, <1>4 DEF Sorted
<1>6. ASSUME NEW z
      PROVE  (\E j \in 1 .. N : z \in Span(q[j]))
               <=> (\E j \in 1 .. u : z \in Span(q[j])) \/ (\E j \in 1 .. (N - u) : z \in Span(r[j]))
  <2>1. ASSUME NEW j \in 1 .. N, z \in Span(q[j])
        PROVE  (\E i \in 1 .. u : z \in Span(q[i])) \/ (\E i \in 1 .. (N - u) : z \in Span(r[i]))
    <3>1. CASE j <= u
      <4>1. j \in 1 .. u BY <1>2, <3>1
      <4> QED BY <2>1, <4>1
    <3>2. CASE ~(j <= u)
      <4>1. PICK i \in 1 .. (N - u) : j = u + i
        <5>1. j - u \in 1 .. (N - u) /\ j = u + (j - u) BY <1>2, <3>2
        <5> QED BY <5>1
      <4> QED BY <1>3, <2>1, <4>1
    <3> QED BY <3>1, <3>2
  <2>2. \A j \in 1 .. u : j \in 1 .. N BY <1>2
  <2>3. ASSUME NEW i \in 1 .. (N - u), z \in Span(r[i]) PROVE \E j \in 1 .. N : z \in Span(q[j])
    <3>1. u + i \in 1 .. N BY <1>2
    <3> QED BY <1>3, <2>3, <3>1
  <2> QED BY <2>1, <2>2, <2>3
<1>7. /\ Cover(q) = {z \in 1 .. StreamLength : \E j \in 1 .. N : z \in Span(q[j])}
      /\ Covers(q, u) = {z \in 1 .. StreamLength : \E j \in 1 .. u : z \in Span(q[j])}
      /\ Cover(r) = {z \in 1 .. StreamLength : \E j \in 1 .. (N - u) : z \in Span(r[j])}
  BY <1>1, <1>3 DEF Cover, Covers
<1>8. Cover(q) = Covers(q, u) \cup Cover(r) BY <1>6, <1>7
<1> QED BY <1>3, <1>5, <1>8

\* get_continuous_data() in terms of what was given: it hands out all up to e, and
\* the byte behind e was not given.
HandsOut(L, e) ==
    /\ L <= e /\ out' = [k \in 1 .. e |-> k] /\ 1 .. e \subseteq given
    /\ e + 1 \notin given
    /\ buffer' \in Buffers /\ buffer'.started /\ buffer'.first = SeqAt(e + 1)
    /\ Sorted(buffer'.packets)
    /\ Cover(buffer'.packets) \ 1 .. e = given \ 1 .. e

\* That is what it does from every state of the invariant.
LEMMA GetHandsOut ==
    ASSUME NEW L \in 0 .. StreamLength, GetContinuousData,
           buffer \in Buffers, buffer.started, buffer.first = SeqAt(L + 1),
           Sorted(buffer.packets), Cover(buffer.packets) \ 1 .. L = given \ 1 .. L,
           out = [k \in 1 .. L |-> k], 1 .. L \subseteq given
    PROVE  \E e \in 0 .. StreamLength : HandsOut(L, e)
<1> HIDE DEF SeqNum, StreamPackets, TakeStates
<1>1. PICK b, g : b = buffer /\ g = given OBVIOUS
<1>2. PICK q \in Seq(StreamPackets) : q = b.packets BY <1>1 DEF Buffers
<1>3. PICK N \in Nat : N = Len(q) OBVIOUS
<1>4. PICK a : a = ContinuousScan(b) OBVIOUS
<1>5. PICK e \in 0 .. StreamLength : Taken(q, L, N, a, e)
  <2>1. \E e \in 0 .. StreamLength : Taken(b.packets, L, Len(b.packets), ContinuousScan(b), e)
    BY <1>1, <1>2, ScanTakes
  <2> QED BY <1>2, <1>3, <1>4, <2>1
<1>6. StreamLength \in Nat /\ L \in Nat /\ e \in Nat BY StreamAssumption
<1>7. a \in TakeStates /\ a.seq = SeqAt(e + 1) /\ L <= e BY <1>5 DEF Taken
<1>8. Len(a.data) = e - L /\ \A x \in 1 .. Len(a.data) : a.data[x] = L + x BY <1>5 DEF Taken
<1>9. PICK u : u = a.used OBVIOUS
<1>10. /\ u \in 0 .. N /\ (~a.hole => u = N) /\ (a.hole => u < N /\ From(q[u + 1]) > e + 1)
       /\ Covers(q, u) \subseteq 1 .. e /\ (L + 1) .. e \subseteq Covers(q, u)
  BY <1>5, <1>9 DEF Taken
<1>11. PICK r : r = SubSeq(q, u + 1, N) OBVIOUS
<1>12. r \in Seq(StreamPackets) /\ Sorted(r) /\ Cover(q) = Covers(q, u) \cup Cover(r)
  BY <1>1, <1>2, <1>3, <1>10, <1>11, RestOfList
<1>13. Cover(q) \ 1 .. L = g \ 1 .. L /\ 1 .. L \subseteq g BY <1>1, <1>2
<1>14. 1 .. e \subseteq g
  <2>1. \A x \in 1 .. e : x \in 1 .. L \/ (x \in (L + 1) .. e /\ x \notin 1 .. L) BY <1>6, <1>7
  <2> QED BY <1>10, <1>12, <1>13, <2>1
<1>15. Cover(r) \ 1 .. e = g \ 1 .. e
  <2>1. 1 .. L \subseteq 1 .. e BY <1>6, <1>7
  <2>2. Cover(q) \ 1 .. e = g \ 1 .. e BY <1>13, <2>1
  <2>3. Cover(q) \ 1 .. e = Cover(r) \ 1 .. e BY <1>10, <1>12
  <2> QED BY <2>2, <2>3
<1>16. e + 1 \notin g
  <2> SUFFICES ASSUME e + 1 \in g PROVE FALSE OBVIOUS
  <2>1. e + 1 \in Cover(q) /\ e + 1 \notin Covers(q, u)
    <3>1. e + 1 \notin 1 .. L /\ e + 1 \notin 1 .. e BY <1>6, <1>7
    <3> QED BY <1>10, <1>13, <3>1
  <2>2. PICK j \in 1 .. N : e + 1 \in Span(q[j]) BY <1>3, <2>1 DEF Cover, Covers
  <2>3. ~(j <= u)
    <3>1. e + 1 \in 1 .. StreamLength BY <2>1 DEF Cover, Covers
    <3>2. ~(j \in 1 .. u) BY <2>1, <2>2, <3>1 DEF Covers
    <3> QED BY <1>10, <3>2
  <2>4. a.hole /\ u < N /\ From(q[u + 1]) > e + 1 BY <1>10, <2>3
  <2>5. PICK v \in 1 .. N : v = u + 1 /\ v <= j BY <1>10, <2>3, <2>4
  <2>6. q[v] \in StreamPackets /\ q[j] \in StreamPackets BY <1>3
  <2>7. From(q[v]) \in Nat /\ From(q[j]) \in Nat /\ To(q[j]) \in Nat
    <3>1. From(q[v]) \in 1 .. StreamLength BY <2>6, StreamPacketFacts, Zenon
    <3>2. From(q[j]) \in 1 .. StreamLength /\ To(q[j]) \in 1 .. StreamLength
      BY <2>6, StreamPacketFacts, Zenon
    <3> QED BY <1>6, <3>1, <3>2
  <2>8. From(q[v]) <= From(q[j])
    <3>1. CASE v = j BY <2>7, <3>1
    <3>2. CASE v # j
      <4>1. v < j BY <2>5, <3>2
      <4>2. Sorted(q) BY <1>1, <1>2
      <4>3. From(q[v]) < From(q[j]) BY <1>3, <4>1, <4>2 DEF Sorted
      <4> QED BY <2>7, <4>3
    <3> QED BY <3>1, <3>2
  <2>9. From(q[j]) <= e + 1 BY <1>6, <2>2, <2>7 DEF Span
  <2> QED BY <1>6, <2>4, <2>5, <2>7, <2>8, <2>9
<1>17. out' = [k \in 1 .. e |-> k]
  <2>1. a.data \in Seq(Nat) BY <1>7 DEF TakeStates
  <2>2. PICK d \in Seq(Nat) : d = a.data BY <2>1
  <2>3. Len(d) = e - L /\ \A x \in 1 .. (e - L) : d[x] = L + x BY <1>8, <2>2
  <2>4. PICK o : o = [k \in 1 .. L |-> k] OBVIOUS
  <2>5. o \in Seq(Nat) /\ Len(o) = L /\ \A x \in 1 .. L : o[x] = x BY <1>6, <2>4
  <2>6. out' = o \o d BY <1>1, <1>4, <2>2, <2>4 DEF GetContinuousData, continuous_data
  <2>7. PICK s : s = o \o d OBVIOUS
  <2>8. s \in Seq(Nat) /\ Len(s) = Len(o) + Len(d)
        /\ \A x \in 1 .. Len(s) : s[x] = IF x <= Len(o) THEN o[x] ELSE d[x - Len(o)]
    <3>1. o \in Seq(Nat) BY <2>5
    <3> QED BY <2>7, <3>1
  <2>9. Len(s) = e BY <1>6, <1>7, <2>3, <2>5, <2>8
  <2>10. ASSUME NEW x \in 1 .. e PROVE s[x] = x
    <3>1. CASE x <= L
      <4>1. x \in 1 .. L BY <1>6, <3>1
      <4> QED BY <2>5, <2>8, <2>9, <3>1, <4>1
    <3>2. CASE ~(x <= L)
      <4>1. PICK y \in 1 .. (e - L) : y = x - L BY <1>6, <1>7, <3>2
      <4>2. d[y] = L + y BY <2>3
      <4>3. s[x] = d[y] BY <2>5, <2>8, <2>9, <3>2, <4>1
      <4> QED BY <1>6, <4>1, <4>2, <4>3
    <3> QED BY <3>1, <3>2
  <2>11. s = [k \in 1 .. e |-> k] BY <2>8, <2>9, <2>10
  <2> QED BY <2>6, <2>7, <2>11
<1>18. PICK c : c = [[b EXCEPT !.first = a.seq] EXCEPT !.packets = r] OBVIOUS
<1>19. buffer' = c
  <2>1. buffer' = after_continuous_data(b) BY <1>1 DEF GetContinuousData
  <2>2. after_continuous_data(b) = [b EXCEPT !.first = a.seq, !.packets = r]
    BY <1>2, <1>3, <1>4, <1>9, <1>11 DEF after_continuous_data
  <2> QED BY <1>18, <2>1, <2>2
<1>20. c \in Buffers /\ c.started /\ c.first = SeqAt(e + 1) /\ c.packets = r
  <2>1. SeqAt(e + 1) \in SeqNum BY <1>7 DEF TakeStates
  <2>2. b \in Buffers /\ b.started BY <1>1
  <2> QED BY <1>7, <1>12, <1>18, <2>1, <2>2 DEF Buffers
<1> QED BY <1>1, <1>7, <1>12, <1>14, <1>15, <1>16, <1>17, <1>19, <1>20 DEF HandsOut

\* get_continuous_data() keeps the invariant.
LEMMA GetBuf == BufInv /\ GetContinuousData => BufInv'
<1> SUFFICES ASSUME BufInv, GetContinuousData PROVE BufInv' OBVIOUS
<1> HIDE DEF SeqNum, StreamPackets
<1>1. PICK L \in 0 .. StreamLength :
        /\ buffer \in Buffers /\ buffer.started
        /\ buffer.first = SeqAt(L + 1)
        /\ Sorted(buffer.packets)
        /\ Cover(buffer.packets) \ 1 .. L = given \ 1 .. L
        /\ out = [k \in 1 .. L |-> k]
        /\ 1 .. L \subseteq given /\ given \subseteq 1 .. StreamLength
        /\ grown = Cardinality(given)
  BY DEF BufInv
<1>2. PICK e \in 0 .. StreamLength : HandsOut(L, e) BY <1>1, GetHandsOut
<1>3. given' = given /\ grown' = grown BY DEF GetContinuousData
<1> QED BY <1>1, <1>2, <1>3 DEF HandsOut, BufInv

\* So does every step.
LEMMA NextBuf == BufInv /\ [Next]_vars => BufInv'
<1> SUFFICES ASSUME BufInv, [Next]_vars PROVE BufInv' OBVIOUS
<1>1. CASE \E i \in 1 .. StreamLength : \E n \in 1 .. MaxLength : Insert(i, n) BY <1>1, InsertBuf
<1>2. CASE GetContinuousData BY <1>2, GetBuf
<1>3. CASE UNCHANGED vars
  <2>1. buffer' = buffer /\ given' = given /\ out' = out /\ grown' = grown BY <1>3 DEF vars
  <2> QED BY <2>1 DEF BufInv
<1> QED BY <1>1, <1>2, <1>3 DEF Next

\* The buffer covers what was given and not handed out, in every state.
LEMMA BufAlways == Spec => []BufInv
BY InitBuf, NextBuf, PTL DEF Spec

\* What the invariant says with the length of out.
LEMMA BufFacts ==
    ASSUME BufInv
    PROVE  /\ Len(out) \in 0 .. StreamLength /\ out = [k \in 1 .. Len(out) |-> k]
           /\ buffer \in Buffers /\ buffer.started /\ buffer.first = SeqAt(Len(out) + 1)
           /\ Sorted(buffer.packets)
           /\ Cover(buffer.packets) \ 1 .. Len(out) = given \ 1 .. Len(out)
           /\ 1 .. Len(out) \subseteq given /\ given \subseteq 1 .. StreamLength
           /\ grown = Cardinality(given)
<1> HIDE DEF SeqNum, StreamPackets
<1>1. PICK L \in 0 .. StreamLength :
        /\ buffer \in Buffers /\ buffer.started
        /\ buffer.first = SeqAt(L + 1)
        /\ Sorted(buffer.packets)
        /\ Cover(buffer.packets) \ 1 .. L = given \ 1 .. L
        /\ out = [k \in 1 .. L |-> k]
        /\ 1 .. L \subseteq given /\ given \subseteq 1 .. StreamLength
        /\ grown = Cardinality(given)
  BY DEF BufInv
<1>2. Len(out) = L
  <2>1. L \in Nat BY StreamAssumption
  <2>2. PICK o : o = [k \in 1 .. L |-> k] OBVIOUS
  <2>3. o \in Seq(Nat) /\ Len(o) = L BY <2>1, <2>2
  <2> QED BY <1>1, <2>2, <2>3
<1> QED BY <1>1, <1>2

\* The bytes come out of get_continuous_data() in stream order, none missing and
\* none twice, whatever packets were inserted, in whatever order.
THEOREM BytesInOrder == Spec => []OutInOrder
<1>1. BufInv => OutInOrder BY BufFacts DEF OutInOrder
<1> QED BY <1>1, BufAlways, PTL

\* size() is the number of distinct bytes that wait: overlaps count once.
THEOREM SizeCountsOnce == Spec => []SizeCountsDistinctBytes
<1>1. ASSUME BufInv PROVE SizeCountsDistinctBytes
  <2> HIDE DEF SeqNum, StreamPackets
  <2>1. /\ Len(out) \in 0 .. StreamLength
        /\ buffer \in Buffers /\ buffer.first = SeqAt(Len(out) + 1) /\ Sorted(buffer.packets)
        /\ Cover(buffer.packets) \ 1 .. Len(out) = given \ 1 .. Len(out)
    BY <1>1, BufFacts
  <2>2. PICK L \in 0 .. StreamLength : L = Len(out) BY <2>1
  <2>3. buffer.packets \in Seq(StreamPackets) BY <2>1 DEF Buffers
  <2>4. size(buffer) = Cardinality(Cover(buffer.packets) \ 1 .. L) BY <2>1, <2>2, <2>3, SizeIsCover
  <2> QED BY <2>1, <2>2, <2>4 DEF SizeCountsDistinctBytes
<1> QED BY <1>1, BufAlways, PTL

\* The values insert() returned add up to the distinct bytes received, so a receive
\* window that shrinks by them loses no byte and counts none twice.
THEOREM GrowthCountsOnce == Spec => []GrowthCountsDistinctBytes
<1>1. BufInv => GrowthCountsDistinctBytes BY BufFacts DEF GrowthCountsDistinctBytes
<1> QED BY <1>1, BufAlways, PTL

\* first_expected_sequence_number_ is the number after the last byte handed out, also
\* where the numbers wrap around.
THEOREM FirstIsNext == Spec => []FirstFollowsOut
<1>1. BufInv => FirstFollowsOut BY BufFacts DEF FirstFollowsOut
<1> QED BY <1>1, BufAlways, PTL

\* The sequence numbers of two packets are in the order of their beginnings.
LEMMA SortedBySeq ==
    ASSUME NEW q \in Seq(StreamPackets), Sorted(q), NEW i \in 1 .. Len(q), NEW j \in 1 .. Len(q)
    PROVE  q[i].seq \in SeqNum /\ (i < j => less_than(q[i].seq, q[j].seq))
<1> HIDE DEF SeqNum
<1>1. ASSUME NEW p \in StreamPackets PROVE p.seq = SeqAt(From(p)) /\ From(p) \in Places
  <2>1. PICK x \in 1 .. StreamLength, n \in Nat :
          n # 0 /\ x + n - 1 <= StreamLength /\ p = PacketOf(x, n)
    BY StreamPacketFacts
  <2> QED BY <2>1, PacketFacts
<1> HIDE DEF StreamPackets
<1>2. q[i] \in StreamPackets /\ q[j] \in StreamPackets OBVIOUS
<1>3. PICK x \in Places : x = From(q[i]) /\ q[i].seq = SeqAt(x) BY <1>1, <1>2
<1>4. PICK y \in Places : y = From(q[j]) /\ q[j].seq = SeqAt(y) BY <1>1, <1>2
<1>5. q[i].seq \in SeqNum BY <1>3, SeqAtCases
<1>6. ASSUME i < j PROVE less_than(q[i].seq, q[j].seq)
  <2>1. x < y BY <1>3, <1>4, <1>6 DEF Sorted
  <2> QED BY <1>3, <1>4, <2>1, SeqAtOrder
<1> QED BY <1>5, <1>6

\* The list stays strictly sorted in the circular order of lower_bound.
THEOREM ListStaysSorted == Spec => []ListSorted
<1>1. ASSUME BufInv PROVE ListSorted
  <2> HIDE DEF SeqNum, StreamPackets
  <2>1. buffer \in Buffers /\ Sorted(buffer.packets) BY <1>1, BufFacts
  <2>2. PICK q \in Seq(StreamPackets) : q = buffer.packets BY <2>1 DEF Buffers
  <2>3. DOMAIN q = 1 .. Len(q) OBVIOUS
  <2>4. \A i, j \in DOMAIN q : i < j => less_than(q[i].seq, q[j].seq)
    BY <2>1, <2>2, <2>3, SortedBySeq
  <2> QED BY <2>2, <2>4 DEF ListSorted
<1> QED BY <1>1, BufAlways, PTL

\* Types, and insert() never returned more bytes than the stream has.
THEOREM BufferTypes == Spec => []TypeOK
<1>1. ASSUME BufInv PROVE TypeOK
  <2> HIDE DEF SeqNum, StreamPackets
  <2>1. /\ buffer \in Buffers /\ buffer.started /\ Sorted(buffer.packets)
        /\ given \subseteq 1 .. StreamLength /\ grown = Cardinality(given)
    BY <1>1, BufFacts
  <2>2. PICK q \in Seq(StreamPackets) : q = buffer.packets BY <2>1 DEF Buffers
  <2>3. DOMAIN q = 1 .. Len(q) OBVIOUS
  <2>4. \A i \in DOMAIN q : q[i].seq \in SeqNum BY <2>1, <2>2, <2>3, SortedBySeq
  <2>5. buffer.first \in SeqNum BY <2>1 DEF Buffers
  <2>6. grown \in 0 .. StreamLength
    <3>1. grown \in Nat /\ grown <= StreamLength BY <2>1, PartsAreFinite
    <3> QED BY <3>1, StreamAssumption
  <2> QED BY <2>1, <2>2, <2>4, <2>5, <2>6 DEF TypeOK
<1> QED BY <1>1, BufAlways, PTL

\* Taking the continuous data leaves no byte behind that could be delivered.
THEOREM NothingLeftBehind == Spec => TakesAllContinuous
<1>1. ASSUME BufInv, [Next]_vars, out' # out
      PROVE  Len(out') = StreamLength \/ (Len(out') + 1) \notin given
  <2> HIDE DEF SeqNum, StreamPackets
  <2>1. GetContinuousData BY <1>1 DEF Next, Insert, vars
  <2>2. PICK L \in 0 .. StreamLength : L = Len(out) BY <1>1, BufFacts
  <2>3. PICK e \in 0 .. StreamLength : HandsOut(L, e)
    <3>1. /\ buffer \in Buffers /\ buffer.started /\ buffer.first = SeqAt(L + 1)
          /\ Sorted(buffer.packets) /\ Cover(buffer.packets) \ 1 .. L = given \ 1 .. L
          /\ out = [k \in 1 .. L |-> k] /\ 1 .. L \subseteq given
      BY <1>1, <2>2, BufFacts
    <3> QED BY <2>1, <3>1, GetHandsOut
  <2>4. PICK o : o = [k \in 1 .. e |-> k] OBVIOUS
  <2>5. out' = o BY <2>3, <2>4 DEF HandsOut
  <2>6. Len(o) = e BY <2>4, StreamAssumption
  <2>7. e + 1 \notin given BY <2>3 DEF HandsOut
  <2> QED BY <2>5, <2>6, <2>7
<1>2. BufInv /\ [Next]_vars =>
         [out' # out => \/ Len(out') = StreamLength
                        \/ (Len(out') + 1) \notin given]_vars
  BY <1>1
<1> QED BY <1>2, BufAlways, PTL DEF Spec, TakesAllContinuous
================================================================================
