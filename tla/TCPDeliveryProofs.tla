--------------------------- MODULE TCPDeliveryProofs ----------------------------
(***************************************************************************)
(* What a TCPTahoe connection delivers, for every payload, segment size,    *)
(* window, number of timeouts and of duplicated packets.  The code breaks   *)
(* these properties in one way only: an old SYN+ACK that is processed       *)
(* although its acknowledgement is not valid sets RCV.NXT back.  The        *)
(* theorems hold of every behaviour in which no host takes such a packet.   *)
(***************************************************************************)
EXTENDS TCPTahoeProofs

\* A SYN+ACK whose acknowledgement is not valid, at a host that has had more than the SYN.
OldSynAck(c, p) ==
    p.syn /\ p.ack /\ ~is_valid_ack_number(c, p) /\ Plus(p.seq, 1) < c.rc.rcv_nxt

\* A host takes one.
TakesOldSynAck ==
    \E h \in Hosts : \E p \in net[Peer(h)] :
        /\ OldSynAck(host[h], p)
        /\ \E trap \in Traps(h) : Become(h, receive_packet(host[h], p, trap))

-------------------------------------------------------------------------------
\* The bytes of a stream by their sequence numbers.

\* Those with the numbers i to j - 1.
Slice(P, i, j) == SubSeq(P, i - Iss, j - Iss - 1)

\* Numbers of bytes of P, and the one after the last.
InStream(P, i) == i \in Nat /\ Iss + 1 <= i /\ i <= Iss + 1 + Len(P)

\* A slice has as many bytes as numbers.
LEMMA SliceType ==
    ASSUME NEW P \in Seq(Nat), Iss \in Nat, NEW i, NEW j, InStream(P, i), InStream(P, j), i <= j
    PROVE  /\ Slice(P, i, j) \in Seq(Nat) /\ Len(Slice(P, i, j)) = j - i
           /\ \A k \in 1 .. (j - i) : Slice(P, i, j)[k] = P[(i - Iss) + k - 1]
<1>1. i \in Nat /\ j \in Nat /\ Len(P) \in Nat BY DEF InStream
<1>2. PICK m \in Int : m = i - Iss BY <1>1
<1>3. PICK n \in Int : n = j - Iss - 1 BY <1>1
<1>4. \A k \in m .. n : P[k] \in Nat BY <1>1, <1>2, <1>3 DEF InStream
<1>5. PICK s : s = SubSeq(P, m, n) OBVIOUS
<1>6. /\ s \in Seq(Nat) /\ Len(s) = (IF m <= n THEN n - m + 1 ELSE 0)
      /\ \A k \in 1 .. (n - m + 1) : s[k] = P[m + k - 1]
  BY <1>4, <1>5, SubSeqProperties
<1>7. n - m + 1 = j - i BY <1>1, <1>2, <1>3
<1>8. Len(s) = j - i BY <1>1, <1>2, <1>3, <1>6
<1> QED BY <1>2, <1>3, <1>5, <1>6, <1>7, <1>8 DEF Slice

\* Two slices that meet make one.
LEMMA SliceJoin ==
    ASSUME NEW P \in Seq(Nat), Iss \in Nat, NEW i, NEW j, NEW k,
           InStream(P, i), InStream(P, j), InStream(P, k), i <= j, j <= k
    PROVE  Slice(P, i, j) \o Slice(P, j, k) = Slice(P, i, k)
<1>1. i \in Nat /\ j \in Nat /\ k \in Nat /\ Len(P) \in Nat BY DEF InStream
<1>2. PICK a \in 1 .. Len(P) + 1 : a = i - Iss BY <1>1 DEF InStream
<1>3. PICK b \in a - 1 .. Len(P) : b = j - Iss - 1 BY <1>1, <1>2 DEF InStream
<1>4. PICK d \in b .. Len(P) : d = k - Iss - 1 BY <1>1, <1>3 DEF InStream
<1>5. SubSeq(P, a, b) \o SubSeq(P, b + 1, d) = SubSeq(P, a, d) BY ConcatAdjacentSubSeq
<1>6. b + 1 = j - Iss BY <1>1, <1>3
<1> QED BY <1>2, <1>3, <1>4, <1>5, <1>6 DEF Slice

\* The end of a slice.
LEMMA SliceEnd ==
    ASSUME NEW P \in Seq(Nat), Iss \in Nat, NEW i, NEW j, NEW k,
           InStream(P, i), InStream(P, j), InStream(P, k), i <= j, j <= k
    PROVE  SubSeq(Slice(P, i, k), (j - i) + 1, k - i) = Slice(P, j, k)
<1>1. i \in Nat /\ j \in Nat /\ k \in Nat /\ Len(P) \in Nat BY DEF InStream
<1>2. PICK l \in Nat : l = k - i BY <1>1
<1>3. PICK f \in Nat : f = (j - i) + 1 /\ f >= 1 /\ f <= l + 1 BY <1>1, <1>2
<1>4. i <= k BY <1>1
<1>4a. /\ Slice(P, i, k) \in Seq(Nat) /\ Len(Slice(P, i, k)) = k - i
       /\ \A x \in 1 .. (k - i) : Slice(P, i, k)[x] = P[(i - Iss) + x - 1]
  BY <1>4, SliceType
<1>5. PICK s \in Seq(Nat) : s = Slice(P, i, k) /\ Len(s) = l
                            /\ \A x \in 1 .. l : s[x] = P[(i - Iss) + x - 1]
  BY <1>2, <1>4a
<1>6. PICK t \in Seq(Nat) : t = Slice(P, j, k) /\ Len(t) = k - j
                            /\ \A x \in 1 .. (k - j) : t[x] = P[(j - Iss) + x - 1]
  BY SliceType
<1>7. PICK r : r = SubSeq(s, f, l) OBVIOUS
<1>8. \A x \in f .. l : s[x] \in Nat
  <2>1. \A x \in 1 .. Len(s) : s[x] \in Nat OBVIOUS
  <2>2. Len(s) = l BY <1>5
  <2> QED BY <1>3, <2>1, <2>2
<1>9. /\ r \in Seq(Nat) /\ Len(r) = (IF f <= l THEN l - f + 1 ELSE 0)
      /\ \A x \in 1 .. (l - f + 1) : r[x] = s[f + x - 1]
  BY <1>7, <1>8, SubSeqProperties
<1>10. l - f + 1 = k - j BY <1>1, <1>2, <1>3
<1>11. Len(r) = k - j BY <1>1, <1>2, <1>3, <1>9
<1>12. ASSUME NEW x \in 1 .. Len(r) PROVE r[x] = t[x]
  <2>1. x \in 1 .. (k - j) BY <1>1, <1>11
  <2>2. PICK y \in 1 .. l : y = f + x - 1 BY <1>1, <1>2, <1>3, <2>1
  <2>3. r[x] = s[y] BY <1>9, <1>10, <2>1, <2>2
  <2>4. (i - Iss) + y - 1 = (j - Iss) + x - 1 BY <1>1, <1>3, <2>1, <2>2
  <2> QED BY <1>5, <1>6, <2>1, <2>3, <2>4
<1>13. r = t BY <1>6, <1>9, <1>11, <1>12, SeqEqual
<1> QED BY <1>2, <1>3, <1>5, <1>6, <1>7, <1>13

-------------------------------------------------------------------------------
\* The reassembly buffer, with numbers that do not wrap around.

\* p has the bytes of P that belong to its number, and none at B or behind.
DataOf(p, P, B) ==
    /\ p.data # <<>> /\ Iss + 1 <= p.seq /\ p.seq + Len(p.data) <= B
    /\ p.data = Slice(P, p.seq, p.seq + Len(p.data))

\* A limit for the numbers of P.
LimitOf(P, B) == P \in Seq(Nat) /\ InStream(P, B) /\ Iss \in Nat /\ IntMax \in Nat /\ Iss + 1 + Len(P) <= IntMax

\* What the loops do with a packet, in plain numbers: f is the next byte wanted.
LEMMA PassData ==
    ASSUME NEW P, NEW B, LimitOf(P, B), NEW p \in Packets, DataOf(p, P, B),
           NEW f \in Nat, Iss + 1 <= f, f <= B
    PROVE  \E n \in Nat : \E e \in Nat :
              /\ n > 0 /\ n = Len(p.data) /\ p.seq \in Nat /\ e = p.seq + n /\ e <= B
              /\ IsGap(f, p) <=> f < p.seq
              /\ ~IsGap(f, p) => NewBytesTouching(f, p) = IF f < e THEN e - f ELSE 0
              /\ Plus(p.seq, n) = e
<1>1. B \in Nat /\ B <= IntMax /\ IntMax \in Nat /\ Len(P) \in Nat BY DEF LimitOf, InStream
<1>2. p.seq \in SeqNum /\ p.data \in Seq(Nat) BY DEF Packets
<1>3. PICK s \in Nat : s = p.seq BY <1>1, <1>2 DEF SeqNum, Modulus
<1>4. PICK n \in Nat : n = Len(p.data) /\ n > 0 BY <1>2 DEF DataOf
<1>5. PICK e \in Nat : e = s + n /\ e <= B BY <1>3, <1>4 DEF DataOf
<1>6. Plus(s, n) = e BY <1>1, <1>3, <1>4, <1>5, SmallPlus
<1>7. /\ less_than(s, f) <=> s < f
      /\ less_than(f, e) <=> f < e
  BY <1>1, <1>3, <1>4, <1>5, SmallLess
<1>8. between(p.seq, f, EndOf(p)) <=> s < f /\ f < e BY <1>3, <1>4, <1>6, <1>7 DEF between, EndOf
<1>9. s < f => Minus(f, s) = f - s BY <1>1, <1>3, SmallMinus
<1>10. IsGap(f, p) <=> f < s BY <1>3, <1>4, <1>5, <1>7, <1>8 DEF IsGap
<1>11. ~IsGap(f, p) => NewBytesTouching(f, p) = IF f < e THEN e - f ELSE 0
  BY <1>3, <1>4, <1>5, <1>8, <1>9, <1>10 DEF NewBytesTouching
<1> QED BY <1>3, <1>4, <1>5, <1>6, <1>10, <1>11

\* The list of b is of P, and the next byte wanted is too.
ListOf(b, P, B) ==
    /\ b \in Buffers /\ Iss + 1 <= b.first /\ b.first <= B
    /\ \A i \in 1 .. Len(b.packets) : DataOf(b.packets[i], P, B)

\* A round of size() takes the n bytes of p that are new at f and goes on to g.
CountsTo(p, f, B, g, n) ==
    /\ f <= g /\ g <= B
    /\ \A u \in Int : CountPacket([seq |-> f, total |-> u], p) = [seq |-> g, total |-> u + n]
    /\ ~IsGap(f, p) => n = NewBytesTouching(f, p) /\ n = g - f

\* A round of size() counts up.
LEMMA CountUp ==
    ASSUME NEW P, NEW B, LimitOf(P, B), NEW p \in Packets, DataOf(p, P, B),
           NEW f \in Nat, Iss + 1 <= f, f <= B
    PROVE  \E g \in Nat : \E n \in Nat : CountsTo(p, f, B, g, n)
<1>1. PICK l \in Nat, e \in Nat :
         /\ l > 0 /\ l = Len(p.data) /\ p.seq \in Nat /\ e = p.seq + l /\ e <= B
         /\ IsGap(f, p) <=> f < p.seq
         /\ ~IsGap(f, p) => NewBytesTouching(f, p) = IF f < e THEN e - f ELSE 0
         /\ Plus(p.seq, l) = e
  BY PassData
<1>2. B \in Nat /\ B <= IntMax /\ IntMax \in Nat /\ Len(P) \in Nat /\ Iss \in Nat BY DEF LimitOf, InStream
<1>3. CASE IsGap(f, p)
  <2>1. \A u \in Int : CountPacket([seq |-> f, total |-> u], p) = [seq |-> e, total |-> u + l]
    BY <1>1, <1>3 DEF CountPacket
  <2>2. f <= e BY <1>1, <1>2, <1>3
  <2> QED BY <1>1, <1>3, <2>1, <2>2 DEF CountsTo
<1>4. CASE ~IsGap(f, p)
  <2>1. PICK n \in Nat : n = NewBytesTouching(f, p) /\ n = IF f < e THEN e - f ELSE 0 BY <1>1, <1>4
  <2>2. PICK g \in Nat : g = f + n /\ g <= B BY <1>1, <1>2, <2>1
  <2>3. Plus(f, n) = g BY <1>2, <2>1, <2>2, SmallPlus
  <2>4. \A u \in Int : CountPacket([seq |-> f, total |-> u], p) = [seq |-> g, total |-> u + n]
    BY <1>4, <2>1, <2>3 DEF CountPacket
  <2>5. n = g - f /\ f <= g BY <2>1, <2>2
  <2> QED BY <2>1, <2>2, <2>4, <2>5 DEF CountsTo
<1> QED BY <1>3, <1>4

\* size() counts upwards and stays within the stream.
LEMMA CountInStream ==
    ASSUME NEW P, NEW B, LimitOf(P, B), NEW b, ListOf(b, P, B)
    PROVE  \A k \in 0 .. Len(b.packets) :
              /\ CountRounds(b)[k].seq \in Nat /\ CountRounds(b)[k].total \in Nat
              /\ CountRounds(b)[k] = [seq |-> CountRounds(b)[k].seq, total |-> CountRounds(b)[k].total]
              /\ b.first <= CountRounds(b)[k].seq /\ CountRounds(b)[k].seq <= B
<1>1. b \in Buffers /\ b.first \in SeqNum BY DEF ListOf, Buffers
<1>2. PICK q \in Seq(Packets) : q = b.packets BY <1>1 DEF Buffers
<1>3. PICK N \in Nat : N = Len(q) OBVIOUS
<1>4. PICK C : C = CountRounds(b) OBVIOUS
<1>5. C[0] = [seq |-> b.first, total |-> 0] /\ \A k \in 1 .. N : C[k] = CountPacket(C[k - 1], q[k])
  BY <1>1, <1>2, <1>3, <1>4, CountRun
<1>6. B \in Nat /\ Iss \in Nat BY DEF LimitOf, InStream
<1>7. PICK o \in Nat : o = b.first /\ Iss + 1 <= o /\ o <= B BY <1>1, <1>6 DEF ListOf, SeqNum
<1> DEFINE In(a) == /\ a.seq \in Nat /\ a.total \in Nat /\ a = [seq |-> a.seq, total |-> a.total]
                    /\ o <= a.seq /\ a.seq <= B
           G == {k \in Nat : k <= N => In(C[k])}
<1>8. 0 \in G BY <1>5, <1>7
<1>9. ASSUME NEW k \in Nat, k \in G PROVE k + 1 \in G
  <2> SUFFICES ASSUME k + 1 <= N PROVE In(C[k + 1]) OBVIOUS
  <2>1. PICK j \in 1 .. N : j = k + 1 /\ j - 1 = k OBVIOUS
  <2>2. PICK a : a = C[k] OBVIOUS
  <2>3. In(a) BY <1>9, <2>2
  <2>4. PICK p \in Packets : p = q[j] BY <1>3
  <2>5. DataOf(p, P, B) BY <1>2, <1>3, <2>4 DEF ListOf
  <2>6. PICK f \in Nat, t \in Nat : f = a.seq /\ t = a.total BY <2>3
  <2>7. a = [seq |-> f, total |-> t] /\ Iss + 1 <= f /\ f <= B /\ o <= f BY <1>6, <1>7, <2>3, <2>6
  <2>8. PICK g \in Nat, n \in Nat : CountsTo(p, f, B, g, n) BY <2>5, <2>7, CountUp
  <2>9. f <= g /\ g <= B /\ CountPacket(a, p) = [seq |-> g, total |-> t + n]
    <3>1. t \in Int OBVIOUS
    <3> QED BY <2>7, <2>8, <3>1 DEF CountsTo
  <2>10. C[j] = [seq |-> g, total |-> t + n] BY <1>5, <2>1, <2>2, <2>4, <2>9
  <2> QED BY <1>7, <2>1, <2>7, <2>9, <2>10
<1>10. \A k \in Nat : k \in G
  <2> HIDE DEF G
  <2> QED BY <1>8, <1>9, SetInduction
<1> QED BY <1>2, <1>3, <1>4, <1>7, <1>10

\* The scan so far is a of the packets up to k, whose counting is C: it stands where
\* the counting of the packets used stands, and has the bytes from the first on.
Scanned(a, k, C, b, P, B) ==
    /\ a \in Scans /\ a.used <= k /\ (~a.hole => a.used = k)
    /\ a.seq = C[a.used].seq /\ Len(a.data) = C[a.used].total
    /\ b.first <= a.seq /\ a.seq <= B
    /\ a.data = Slice(P, b.first, a.seq)

\* A round of get_continuous_data().
LEMMA ScanUp ==
    ASSUME NEW P, NEW B, LimitOf(P, B), NEW b, ListOf(b, P, B), NEW k \in 1 .. Len(b.packets),
           NEW C, C = CountRounds(b), NEW a, Scanned(a, k - 1, C, b, P, B),
           TakePacket(a, b.packets[k]) \in Scans
    PROVE  Scanned(TakePacket(a, b.packets[k]), k, C, b, P, B)
<1>1. b \in Buffers /\ b.first \in SeqNum BY DEF ListOf, Buffers
<1>2. PICK q \in Seq(Packets) : q = b.packets BY <1>1 DEF Buffers
<1>3. PICK p \in Packets : p = q[k] BY <1>2
<1>4. B \in Nat /\ Iss \in Nat /\ IntMax \in Nat /\ P \in Seq(Nat) /\ B <= IntMax BY DEF LimitOf, InStream
<1>5. PICK o \in Nat : o = b.first /\ Iss + 1 <= o /\ o <= B BY <1>1, <1>4 DEF ListOf, SeqNum
<1>6. a \in Scans /\ a.seq \in Nat /\ a.used \in Nat /\ a.data \in Seq(Nat) /\ a.hole \in BOOLEAN
      /\ a.used <= k - 1
  BY DEF Scanned, Scans, SeqNum
<1>7. CASE a.hole \/ IsGap(a.seq, p)
  <2>1. TakePacket(a, p) = [a EXCEPT !.hole = TRUE] BY <1>7 DEF TakePacket
  <2>2. PICK t : t = TakePacket(a, p) OBVIOUS
  <2>3. t.used = a.used /\ t.seq = a.seq /\ t.data = a.data /\ t.hole = TRUE BY <2>1, <2>2, <1>6 DEF Scans
  <2> QED BY <1>2, <1>3, <1>6, <2>2, <2>3 DEF Scanned
<1>8. CASE ~a.hole /\ ~IsGap(a.seq, p)
  <2>1. PICK f \in Nat : f = a.seq /\ o <= f /\ Iss + 1 <= f /\ f <= B BY SMTT(30), <1>4, <1>5, <1>6 DEF Scanned
  <2>2. DataOf(p, P, B) BY <1>2, <1>3 DEF ListOf
  <2>3. PICK l \in Nat, e \in Nat :
           /\ l > 0 /\ l = Len(p.data) /\ p.seq \in Nat /\ e = p.seq + l /\ e <= B
           /\ IsGap(f, p) <=> f < p.seq
           /\ ~IsGap(f, p) => NewBytesTouching(f, p) = IF f < e THEN e - f ELSE 0
    BY <2>1, <2>2, PassData
  <2>4. PICK s \in Nat : s = p.seq /\ s <= f /\ Iss + 1 <= s BY <1>8, <2>1, <2>2, <2>3 DEF DataOf
  <2>4a. e = s + l BY <2>3, <2>4
  <2>5. PICK n \in Nat : n = NewBytesTouching(f, p) /\ n = IF f < e THEN e - f ELSE 0 BY <1>8, <2>1, <2>3
  <2>6. PICK g \in Nat : g = f + n /\ g <= B BY <1>4, <2>1, <2>3, <2>5
  <2>7. Plus(f, n) = g BY <1>4, <2>6, SmallPlus
  <2>8. PICK d : d = SubSeq(p.data, Len(p.data) - n + 1, Len(p.data)) OBVIOUS
  <2>9. p.data \in Seq(Nat) BY DEF Packets
  <2>10. InStream(P, s) /\ InStream(P, f) /\ InStream(P, e) /\ InStream(P, g) /\ InStream(P, o)
    <3>1. B <= Iss + 1 + Len(P) /\ Len(P) \in Nat BY <1>4 DEF LimitOf, InStream
    <3>2. PICK m \in Nat : m = Iss + 1 + Len(P) /\ B <= m BY <1>4, <3>1
    <3>3. s <= m /\ f <= m /\ e <= m /\ g <= m /\ o <= m
      <4>0. B \in Nat /\ B <= m BY <1>4, <3>2
      <4>2. e <= B /\ f <= B /\ g <= B /\ o <= B BY <1>5, <2>1, <2>3, <2>6
      <4>1. f <= m /\ g <= m /\ o <= m BY <4>0, <4>2
      <4>3. e <= m BY <4>0, <4>2
      <4>4. s <= m BY <2>4, <4>1
      <4> QED BY <4>1, <4>3, <4>4
    <3>4. Iss + 1 <= s /\ Iss + 1 <= f /\ Iss + 1 <= e /\ Iss + 1 <= g /\ Iss + 1 <= o
      <4>1. Iss \in Nat /\ Iss + 1 <= s /\ Iss + 1 <= f /\ Iss + 1 <= o BY <1>4, <1>5, <2>1, <2>4
      <4>2. e = s + l /\ g = f + n BY <2>6, <2>4a
      <4>3. Iss + 1 <= e /\ Iss + 1 <= g
        BY ONLY <4>1, <4>2, s \in Nat, f \in Nat, l \in Nat, n \in Nat
      <4> QED BY <4>1, <4>3
    <3> QED BY <3>2, <3>3, <3>4 DEF InStream
  <2>11. d = Slice(P, f, g)
    <3>1. CASE f < e
      <4>1. l - n + 1 = (f - s) + 1 /\ l = e - s /\ g = e
        <5>1. n = e - f BY <2>5, <3>1
        <5> QED BY <2>4a, <2>6, <5>1
      <4>2. p.data = Slice(P, s, e) BY <2>2, <2>3, <2>4 DEF DataOf
      <4>3. f <= e BY <3>1
      <4>4. SubSeq(Slice(P, s, e), (f - s) + 1, e - s) = Slice(P, f, e)
        BY <1>4, <2>4, <2>10, <4>3, SliceEnd
      <4> QED BY <2>3, <2>8, <4>1, <4>2, <4>4
    <3>2. CASE ~(f < e)
      <4>1. n = 0 /\ g = f BY <2>5, <2>6, <3>2
      <4>2. d = SubSeq(p.data, l + 1, l) BY <2>3, <2>8, <4>1
      <4>3. SubSeq(p.data, l + 1, l) = <<>> BY <2>3, <2>9
      <4>4. Slice(P, f, f) \in Seq(Nat) /\ Len(Slice(P, f, f)) = f - f BY <1>4, <2>10, SliceType
      <4>5. Slice(P, f, f) = <<>> BY <4>4
      <4> QED BY <4>1, <4>2, <4>3, <4>5
    <3> QED BY <3>1, <3>2
  <2>12. d \in Seq(Nat) /\ Len(d) = n
    <3>1. f <= g /\ g - f = n BY <2>6
    <3>2. Slice(P, f, g) \in Seq(Nat) /\ Len(Slice(P, f, g)) = g - f BY <1>4, <2>10, <3>1, SliceType
    <3> QED BY <2>11, <3>1, <3>2
  <2>13. PICK t : t = TakePacket(a, p) /\ t = [seq |-> g, used |-> a.used + 1, hole |-> FALSE, data |-> a.data \o d]
    BY <1>8, <2>1, <2>5, <2>7, <2>8 DEF TakePacket
  <2>14. a.used = k - 1 /\ a.data = Slice(P, o, f) /\ f = C[k - 1].seq /\ Len(a.data) = C[k - 1].total
    BY <1>5, <1>8, <2>1 DEF Scanned
  <2>15. a.data \o d = Slice(P, o, g)
    <3>1. o <= f /\ f <= g BY <2>1, <2>6
    <3>2. Slice(P, o, f) \o Slice(P, f, g) = Slice(P, o, g) BY <1>4, <2>10, <3>1, SliceJoin
    <3> QED BY <2>11, <2>14, <3>2
  <2>16. Len(a.data \o d) = Len(a.data) + n BY <1>6, <2>12
  <2>17. C[k] = [seq |-> g, total |-> C[k - 1].total + n]
    <3>1. PICK c : c = C[k - 1] OBVIOUS
    <3>2. k - 1 \in 0 .. Len(b.packets) BY <1>2
    <3>3. c.total \in Nat /\ c = [seq |-> c.seq, total |-> c.total] BY <3>1, <3>2, CountInStream
    <3>4. PICK u \in Nat : u = c.total BY <3>3
    <3>5. c = [seq |-> f, total |-> u] BY <2>14, <3>1, <3>3, <3>4
    <3>6. PICK h \in Nat, m \in Nat : CountsTo(p, f, B, h, m) BY <2>1, <2>2, CountUp
    <3>7. m = n /\ h = g
      <4>1. ~IsGap(f, p) BY <1>8, <2>1
      <4>2. m = n /\ m = h - f BY <2>5, <3>6, <4>1 DEF CountsTo
      <4> QED BY <2>6, <4>2
    <3>8. CountPacket(c, p) = [seq |-> g, total |-> u + n]
      <4>1. u \in Int OBVIOUS
      <4> QED BY <3>5, <3>6, <3>7, <4>1 DEF CountsTo
    <3>9. C[k] = CountPacket(C[k - 1], b.packets[k]) BY <1>1, CountRun
    <3> QED BY <1>2, <1>3, <3>1, <3>4, <3>8, <3>9
  <2>18. t.seq = g /\ t.used = k /\ t.hole = FALSE /\ t.data = a.data \o d
    <3>1. k \in Nat /\ a.used + 1 = k BY <1>6, <2>14
    <3> QED BY <2>13, <3>1
  <2>19. o <= g BY <2>1, <2>6
  <2>20. Len(t.data) = C[k].total
    <3>1. C[k].total = C[k - 1].total + n BY <2>17
    <3>2. Len(t.data) = Len(a.data) + n BY <2>16, <2>18
    <3> QED BY <2>14, <3>1, <3>2
  <2>21. t \in Scans BY <1>2, <1>3, <2>13
  <2>22. k <= k BY <1>2
  <2> QED BY <1>2, <1>3, <1>5, <2>6, <2>13, <2>15, <2>17, <2>18, <2>19, <2>20, <2>21, <2>22 DEF Scanned
<1> QED BY <1>2, <1>3, <1>6, <1>7, <1>8

\* The list of d is the one of b from d.first on, and data are the bytes between.
Moved(b, d, data, P, B) ==
    /\ ListOf(d, P, B) /\ d.started = b.started
    /\ data \in Seq(Nat) /\ data = Slice(P, b.first, d.first)
    /\ d.first \in Nat /\ b.first \in Nat /\ b.first <= d.first /\ Len(data) = d.first - b.first
    /\ size(d) \in Nat /\ size(b) = size(d) + Len(data)

\* get_continuous_data(), run to its end, moves the front of the list over what it returns.
LEMMA Continuous ==
    ASSUME NEW P, NEW B, LimitOf(P, B), NEW b, ListOf(b, P, B)
    PROVE  Moved(b, after_continuous_data(b), continuous_data(b), P, B)
<1>1. b \in Buffers /\ b.first \in SeqNum BY DEF ListOf, Buffers
<1>2. PICK q \in Seq(Packets) : q = b.packets BY <1>1 DEF Buffers
<1>3. PICK N \in Nat : N = Len(q) OBVIOUS
<1>4. PICK C : C = CountRounds(b) OBVIOUS
<1>5. C[0] = [seq |-> b.first, total |-> 0] /\ \A k \in 1 .. N : C[k] = CountPacket(C[k - 1], q[k])
  BY <1>1, <1>2, <1>3, <1>4, CountRun
<1>6. B \in Nat /\ Iss \in Nat /\ P \in Seq(Nat) BY DEF LimitOf, InStream
<1>7. PICK o \in Nat : o = b.first /\ Iss + 1 <= o /\ o <= B BY <1>1, <1>6 DEF ListOf, SeqNum
<1>8. PICK T : T = TakeRounds(b) OBVIOUS
<1>9. /\ T[0] = [seq |-> b.first, used |-> 0, hole |-> FALSE, data |-> <<>>]
      /\ \A k \in 1 .. N : T[k] = TakePacket(T[k - 1], q[k])
      /\ \A k \in 0 .. N : T[k] \in Scans
  BY <1>1, <1>2, <1>3, <1>8, TakeRun
<1>10. InStream(P, o)
  <2>1. B <= Iss + 1 + Len(P) /\ Len(P) \in Nat BY <1>6 DEF LimitOf, InStream
  <2>2. PICK m \in Nat : m = Iss + 1 + Len(P) /\ B <= m BY <1>6, <2>1
  <2>3. o <= m BY <1>6, <1>7, <2>2
  <2> QED BY <1>7, <2>2, <2>3 DEF InStream
<1> DEFINE G == {k \in Nat : k <= N => Scanned(T[k], k, C, b, P, B)}
<1>11. 0 \in G
  <2>1. PICK a : a = T[0] OBVIOUS
  <2>2. 0 \in 0 .. N OBVIOUS
  <2>3. a \in Scans /\ a.seq = o /\ a.used = 0 /\ a.hole = FALSE /\ a.data = <<>>
    BY <1>7, <1>9, <2>1, <2>2
  <2>4. Slice(P, o, o) \in Seq(Nat) /\ Len(Slice(P, o, o)) = o - o
    <3>1. o <= o BY <1>7
    <3> QED BY <1>6, <1>10, <3>1, SliceType
  <2>5. Slice(P, o, o) = <<>> BY <1>7, <2>4
  <2>6. C[0].seq = o /\ C[0].total = 0 BY <1>5, <1>7
  <2>7. Len(a.data) = C[a.used].total BY <2>3, <2>6
  <2> QED BY <1>6, <1>7, <2>1, <2>3, <2>5, <2>6, <2>7 DEF Scanned
<1>12. ASSUME NEW k \in Nat, k \in G PROVE k + 1 \in G
  <2> SUFFICES ASSUME k + 1 <= N PROVE Scanned(T[k + 1], k + 1, C, b, P, B) OBVIOUS
  <2>1. PICK j \in 1 .. Len(b.packets) : j = k + 1 /\ j - 1 = k /\ j \in 1 .. N BY <1>2, <1>3
  <2>2. Scanned(T[k], j - 1, C, b, P, B) BY <1>12, <2>1
  <2>3. T[j] = TakePacket(T[k], b.packets[j]) BY <1>2, <1>9, <2>1
  <2>4. j \in 0 .. N BY <2>1
  <2>5. TakePacket(T[k], b.packets[j]) \in Scans BY <1>9, <2>3, <2>4
  <2>6. Scanned(TakePacket(T[k], b.packets[j]), j, C, b, P, B) BY <1>4, <2>2, <2>5, ScanUp
  <2> QED BY <2>1, <2>3, <2>6
<1>13. \A k \in Nat : k \in G
  <2> HIDE DEF G
  <2> QED BY <1>11, <1>12, SetInduction
<1>14. PICK a \in Scans : a = ContinuousScan(b) /\ Scanned(a, N, C, b, P, B)
  <2>1. Scanned(T[N], N, C, b, P, B) BY <1>3, <1>13
  <2>2. N \in 0 .. N BY <1>3
  <2>3. T[N] \in Scans BY <1>9, <2>2
  <2> QED BY <1>2, <1>3, <1>8, <2>1, <2>3 DEF ContinuousScan
<1>15. PICK d : d = after_continuous_data(b) OBVIOUS
<1>16. d \in Buffers /\ d = [b EXCEPT !.first = a.seq, !.packets = SubSeq(b.packets, a.used + 1, Len(b.packets))]
  BY <1>1, <1>14, <1>15, ScanType
<1>17. PICK u \in 0 .. N : u = a.used BY <1>14 DEF Scanned, Scans
<1>18. PICK f \in Nat : f = a.seq /\ f = C[u].seq /\ o <= f /\ f <= B
  BY <1>7, <1>14, <1>17 DEF Scanned, Scans, SeqNum
<1>19. PICK r : r = d.packets OBVIOUS
<1>20. r = SubSeq(q, u + 1, N) /\ d.first = f /\ d.started = b.started
  BY <1>1, <1>2, <1>3, <1>16, <1>17, <1>18, <1>19 DEF Buffers
<1>21. r \in Seq(Packets) BY <1>16, <1>19 DEF Buffers
<1>22. PICK M \in Nat : M = N - u BY <1>17
<1>23. Len(r) = M /\ \A i \in 1 .. M : r[i] = q[u + i]
  <2>1. PICK v \in 1 .. N + 1 : v = u + 1 BY <1>17
  <2>2. \A i \in v .. N : q[i] \in Packets
    <3>1. \A i \in 1 .. Len(q) : q[i] \in Packets OBVIOUS
    <3> QED BY <1>3, <2>1, <3>1
  <2>3. /\ Len(r) = (IF v <= N THEN N - v + 1 ELSE 0)
        /\ \A i \in 1 .. (N - v + 1) : r[i] = q[v + i - 1]
    BY <1>20, <2>1, <2>2, SubSeqProperties
  <2>4. N - v + 1 = M BY <1>17, <1>22, <2>1
  <2>5. Len(r) = M BY SMTT(30), <1>17, <1>22, <2>1, <2>3
  <2>6. \A i \in 1 .. M : v + i - 1 = u + i BY <2>1
  <2> QED BY <2>3, <2>4, <2>5, <2>6
<1>24. ListOf(d, P, B)
  <2>1. ASSUME NEW i \in 1 .. Len(r) PROVE DataOf(r[i], P, B)
    <3>1. PICK j \in 1 .. N : j = u + i /\ r[i] = q[j] BY SMTT(30), <1>17, <1>22, <1>23
    <3>2. DataOf(q[j], P, B) BY <1>2, <1>3 DEF ListOf
    <3> QED BY <3>1, <3>2
  <2>2. Iss + 1 <= f /\ f <= B BY <1>6, <1>7, <1>18
  <2> QED BY <1>16, <1>19, <1>20, <2>1, <2>2 DEF ListOf
<1>25. PICK D : D = CountRounds(d) OBVIOUS
<1>26. D[0] = [seq |-> f, total |-> 0] /\ \A k \in 1 .. M : D[k] = CountPacket(D[k - 1], r[k])
  BY <1>16, <1>19, <1>20, <1>23, <1>25, CountRun
<1>27. \A k \in 0 .. N : /\ C[k].seq \in Nat /\ C[k].total \in Nat /\ C[k] = [seq |-> C[k].seq, total |-> C[k].total]
                         /\ o <= C[k].seq /\ C[k].seq <= B
  BY <1>2, <1>3, <1>4, <1>7, CountInStream
<1>28. PICK x \in Nat : x = C[u].total /\ x = Len(a.data) BY <1>14, <1>17, <1>27 DEF Scanned
<1> DEFINE K == {k \in Nat : k <= M => D[k] = [seq |-> C[u + k].seq, total |-> C[u + k].total - x]}
<1>29. 0 \in K
  <2>1. u + 0 = u BY <1>17
  <2>2. C[u + 0].total - x = 0
    <3>1. C[u + 0].total = x BY <1>28, <2>1
    <3>2. x - x = 0 OBVIOUS
    <3> QED BY <3>1, <3>2
  <2> QED BY <1>18, <1>26, <2>1, <2>2
<1>30. ASSUME NEW k \in Nat, k \in K PROVE k + 1 \in K
  <2> SUFFICES ASSUME k + 1 <= M PROVE D[k + 1] = [seq |-> C[u + (k + 1)].seq, total |-> C[u + (k + 1)].total - x] OBVIOUS
  <2>1. PICK i \in 1 .. M : i = k + 1 /\ i - 1 = k OBVIOUS
  <2>2. PICK j \in 1 .. N : j = u + i /\ j - 1 = u + k
    <3>1. u \in Nat /\ u <= N /\ M = N - u BY <1>22
    <3>2. u + i \in 1 .. N BY <3>1
    <3> QED BY <2>1, <3>1, <3>2
  <2>3. PICK p \in Packets : p = q[j] BY <1>3
  <2>4. DataOf(p, P, B) BY <1>2, <1>3, <2>3 DEF ListOf
  <2>5. PICK c : c = C[j - 1] OBVIOUS
  <2>6. j - 1 \in 0 .. N OBVIOUS
  <2>7. c.seq \in Nat /\ c.total \in Nat /\ c = [seq |-> c.seq, total |-> c.total] /\ o <= c.seq /\ c.seq <= B
    BY <1>27, <2>5, <2>6
  <2>8. PICK s \in Nat, t \in Nat : s = c.seq /\ t = c.total BY <2>7
  <2>9. Iss + 1 <= s /\ s <= B BY <1>6, <1>7, <2>7, <2>8
  <2>10. PICK g \in Nat, n \in Nat : CountsTo(p, s, B, g, n) BY <2>4, <2>9, CountUp
  <2>11. C[j] = [seq |-> g, total |-> t + n]
    <3>1. C[j] = CountPacket(c, p) BY <1>5, <2>3, <2>5
    <3>2. c = [seq |-> s, total |-> t] BY <2>7, <2>8
    <3>3. t \in Int OBVIOUS
    <3> QED BY <2>10, <3>1, <3>2, <3>3 DEF CountsTo
  <2>12. D[i] = [seq |-> g, total |-> (t - x) + n]
    <3>1. D[i] = CountPacket(D[i - 1], r[i]) BY <1>26
    <3>2. D[i - 1] = [seq |-> s, total |-> t - x]
      <4>1. k <= M BY <2>1
      <4> QED BY <1>30, <2>1, <2>2, <2>5, <2>8, <4>1
    <3>3. r[i] = p BY <1>23, <2>2, <2>3
    <3>4. t - x \in Int OBVIOUS
    <3> QED BY <2>10, <3>1, <3>2, <3>3, <3>4 DEF CountsTo
  <2>13. (t - x) + n = (t + n) - x OBVIOUS
  <2> QED BY <2>1, <2>2, <2>11, <2>12, <2>13
<1>31. \A k \in Nat : k \in K
  <2> HIDE DEF K
  <2> QED BY <1>29, <1>30, SetInduction
<1>32. D[M] = [seq |-> C[N].seq, total |-> C[N].total - x]
  <2>1. M <= M /\ u + M = N BY <1>17, <1>22
  <2> QED BY <1>31, <2>1
<1>33. size(d) = C[N].total - x BY <1>19, <1>23, <1>25, <1>32 DEF size
<1>34. size(b) = C[N].total BY <1>2, <1>3, <1>4 DEF size
<1>35. size(d) \in Nat
  <2>1. \A k \in 0 .. M : CountRounds(d)[k].total \in Nat BY <1>19, <1>23, <1>24, CountInStream
  <2>2. M \in 0 .. M OBVIOUS
  <2> QED BY <1>19, <1>23, <2>1, <2>2 DEF size
<1>36. C[N].total \in Nat
  <2>1. N \in 0 .. N OBVIOUS
  <2> QED BY <1>27, <2>1
<1>37. size(b) = size(d) + x BY <1>33, <1>34, <1>35, <1>36
<1>38. a.data \in Seq(Nat) /\ a.data = Slice(P, o, f) /\ a.data = continuous_data(b)
  BY <1>7, <1>14, <1>18 DEF Scanned, Scans, continuous_data
<1>39. x = f - o
  <2>1. InStream(P, f)
    <3>1. B <= Iss + 1 + Len(P) /\ Len(P) \in Nat BY <1>6 DEF LimitOf, InStream
    <3>2. PICK m \in Nat : m = Iss + 1 + Len(P) /\ B <= m BY <1>6, <3>1
    <3>3. Iss + 1 <= f /\ f <= m BY <1>6, <1>7, <1>18, <3>2
    <3> QED BY <3>2, <3>3 DEF InStream
  <2>2. o <= f BY <1>18
  <2>3. Len(Slice(P, o, f)) = f - o BY <1>6, <1>10, <2>1, <2>2, SliceType
  <2> QED BY <1>28, <1>38, <2>3
<1>40. Len(continuous_data(b)) = x BY <1>28, <1>38
<1> QED BY <1>7, <1>15, <1>18, <1>20, <1>24, <1>35, <1>37, <1>38, <1>39, <1>40 DEF Moved

\* d is b with a packet of the stream that has k new bytes.
Insertion(b, d, k, P, B) ==
    /\ ListOf(d, P, B) /\ d.first = b.first /\ d.started = b.started
    /\ size(d) \in Nat /\ size(b) \in Nat /\ k \in Int
    /\ size(d) = size(b) + k

\* insert() of a packet of the stream, with what num_inserted reports of it.
LEMMA Inserted ==
    ASSUME NEW P, NEW B, LimitOf(P, B), NEW b, ListOf(b, P, B), NEW p \in Packets, DataOf(p, P, B)
    PROVE  Insertion(b, insert(b, p), num_inserted(b, p), P, B)
<1>1. b \in Buffers BY DEF ListOf
<1>2. PICK S : S = {x \in Packets : DataOf(x, P, B)} OBVIOUS
<1>3. p \in S /\ S \subseteq Packets BY <1>2
<1>4. b.packets \in Seq(S)
  <2>1. PICK q \in Seq(Packets) : q = b.packets BY <1>1 DEF Buffers
  <2>2. PICK N \in Nat : N = Len(q) OBVIOUS
  <2>3. \A i \in 1 .. N : q[i] \in S
    <3>1. \A i \in 1 .. Len(q) : q[i] \in Packets OBVIOUS
    <3> QED BY <1>2, <2>1, <2>2, <3>1 DEF ListOf
  <2>4. SubSeq(q, 1, N) \in Seq(S)
    <3>1. 1 \in Int /\ N \in Int OBVIOUS
    <3> QED BY <2>3, <3>1, SubSeqProperties
  <2>5. SubSeq(q, 1, Len(q)) = q BY SubSeqFull
  <2> QED BY <2>1, <2>2, <2>4, <2>5
<1>5. PICK q \in Seq(S) : Placed(b, p) = WithList(b, q) BY <1>1, <1>3, <1>4, PlacedOver
<1>6. PICK r : r = Placed(b, p) OBVIOUS
<1>7. ListOf(r, P, B) /\ r.first = b.first /\ r.started = b.started
  <2>1. r \in Buffers BY <1>1, <1>6, PlacedType
  <2>2. r.first = b.first /\ r.started = b.started /\ r.packets = q BY <1>5, <1>6 DEF WithList
  <2>3. \A i \in 1 .. Len(q) : q[i] \in S OBVIOUS
  <2> QED BY <1>2, <2>1, <2>2, <2>3 DEF ListOf
<1>8. \A d : ListOf(d, P, B) => size(d) \in Nat
  <2> TAKE d
  <2> HAVE ListOf(d, P, B)
  <2>1. PICK N \in Nat : N = Len(d.packets) BY SMTT(30) DEF ListOf, Buffers
  <2>2. N \in 0 .. N BY <2>1
  <2>3. \A k \in 0 .. N : CountRounds(d)[k].total \in Nat BY <2>1, CountInStream
  <2> QED BY <2>1, <2>2, <2>3 DEF size
<1>9. size(b) \in Nat /\ size(r) \in Nat BY <1>7, <1>8
<1>10. num_inserted(b, p) = size(r) - size(b) BY <1>6 DEF num_inserted
<1>11. insert(b, p) = IF num_inserted(b, p) = 0 /\ ~AlreadyInserted(b, p) THEN b ELSE r BY <1>6 DEF insert
<1>12. PICK n \in Int : n = num_inserted(b, p) BY <1>9, <1>10
<1>13. size(r) = size(b) + n BY <1>9, <1>10, <1>12
<1>14. CASE insert(b, p) = r BY <1>7, <1>9, <1>12, <1>13, <1>14 DEF Insertion
<1>15. CASE insert(b, p) = b /\ n = 0
  <2>1. size(b) = size(b) + n BY <1>9, <1>15
  <2> QED BY <1>9, <1>12, <1>15, <2>1 DEF Insertion
<1> QED BY <1>11, <1>12, <1>14, <1>15

\* A buffer without packets has none to move.
LEMMA NothingToMove ==
    ASSUME NEW b \in Buffers, b.packets = <<>>
    PROVE  continuous_data(b) = <<>> /\ size(b) = 0
<1>1. Len(b.packets) = 0 BY EmptySeq
<1>2. ContinuousScan(b) = TakeRounds(b)[0] BY <1>1 DEF ContinuousScan
<1>3. TakeRounds(b)[0] = [seq |-> b.first, used |-> 0, hole |-> FALSE, data |-> <<>>] BY TakeRun
<1>4. CountRounds(b)[0] = [seq |-> b.first, total |-> 0] BY CountRun
<1> QED BY <1>1, <1>2, <1>3, <1>4 DEF continuous_data, size

\* The list, if there is one, begins behind a hole.
Ahead(w) == w.packets # <<>> => IsGap(w.first, w.packets[1])

\* get_continuous_data() stops at the end of the list or at a hole.
LEMMA HoleAhead ==
    ASSUME NEW b \in Buffers
    PROVE  Ahead(after_continuous_data(b))
<1>1. PICK q \in Seq(Packets) : q = b.packets BY DEF Buffers
<1>2. PICK N \in Nat : N = Len(q) OBVIOUS
<1>3. PICK T : T = TakeRounds(b) OBVIOUS
<1>4. /\ T[0] = [seq |-> b.first, used |-> 0, hole |-> FALSE, data |-> <<>>]
      /\ \A k \in 1 .. N : T[k] = TakePacket(T[k - 1], q[k])
      /\ \A k \in 0 .. N : T[k] \in Scans
  BY <1>1, <1>2, <1>3, TakeRun
<1> DEFINE Stops(a, k) == IF a.hole THEN a.used < k /\ IsGap(a.seq, q[a.used + 1]) ELSE a.used = k
           G == {k \in Nat : k <= N => Stops(T[k], k)}
<1>5. 0 \in G BY <1>4
<1>6. ASSUME NEW k \in Nat, k \in G PROVE k + 1 \in G
  <2> SUFFICES ASSUME k + 1 <= N PROVE Stops(T[k + 1], k + 1) OBVIOUS
  <2>1. PICK j \in 1 .. N : j = k + 1 /\ j - 1 = k OBVIOUS
  <2>2. k \in 0 .. N BY <2>1
  <2>3. PICK a \in Scans : a = T[k] BY <1>4, <2>2
  <2>4. a.used \in Nat /\ a.hole \in BOOLEAN /\ Stops(a, k) BY <1>6, <2>1, <2>3 DEF Scans
  <2>5. T[j] = TakePacket(a, q[j]) BY <1>4, <2>1, <2>3
  <2>6. CASE a.hole
    <3>1. T[j] = [a EXCEPT !.hole = TRUE] BY <2>5, <2>6 DEF TakePacket
    <3>2. T[j].hole = TRUE /\ T[j].used = a.used /\ T[j].seq = a.seq BY <3>1 DEF Scans
    <3> QED BY <2>1, <2>4, <2>6, <3>2
  <2>7. CASE ~a.hole /\ IsGap(a.seq, q[j])
    <3>1. T[j] = [a EXCEPT !.hole = TRUE] BY <2>5, <2>7 DEF TakePacket
    <3>2. T[j].hole = TRUE /\ T[j].used = a.used /\ T[j].seq = a.seq BY <3>1 DEF Scans
    <3>3. a.used = k /\ a.used + 1 = j BY <2>1, <2>4, <2>7
    <3> QED BY <2>1, <2>7, <3>2, <3>3
  <2>8. CASE ~a.hole /\ ~IsGap(a.seq, q[j])
    <3>1. T[j].hole = FALSE /\ T[j].used = a.used + 1 BY <2>5, <2>8 DEF TakePacket
    <3>2. a.used = k BY <2>4, <2>8
    <3> QED BY <2>1, <3>1, <3>2
  <2> QED BY <2>6, <2>7, <2>8
<1>7. \A k \in Nat : k \in G
  <2> HIDE DEF G
  <2> QED BY <1>5, <1>6, SetInduction
<1>8. N \in 0 .. N BY <1>2
<1>9. PICK a \in Scans : a = T[N] BY <1>4, <1>8
<1>10. a = ContinuousScan(b) BY <1>1, <1>2, <1>3, <1>9 DEF ContinuousScan
<1>11. a.used \in Nat /\ a.hole \in BOOLEAN /\ Stops(a, N) BY <1>7, <1>9 DEF Scans
<1>12. PICK d : d = after_continuous_data(b) OBVIOUS
<1>13. d.packets = SubSeq(q, a.used + 1, N) /\ d.first = a.seq
  <2>1. d = [b EXCEPT !.first = a.seq, !.packets = SubSeq(b.packets, a.used + 1, Len(b.packets))]
    BY <1>10, <1>12, ScanType
  <2> QED BY <1>1, <1>2, <2>1 DEF Buffers
<1>14. CASE a.hole
  <2>1. a.used + 1 \in 1 .. N BY <1>2, <1>11, <1>14
  <2>2. d.packets[1] = q[a.used + 1]
    <3>1. PICK v \in 1 .. N : v = a.used + 1 BY <2>1
    <3>2. \A i \in v .. N : q[i] \in Packets BY <1>2, <3>1
    <3>3. /\ Len(SubSeq(q, v, N)) = (IF v <= N THEN N - v + 1 ELSE 0)
          /\ \A i \in 1 .. (N - v + 1) : SubSeq(q, v, N)[i] = q[v + i - 1]
      BY <1>2, <3>1, <3>2, SubSeqProperties
    <3>4. 1 \in 1 .. (N - v + 1) /\ v + 1 - 1 = v BY <3>1
    <3> QED BY <1>13, <3>1, <3>3, <3>4
  <2> QED BY <1>11, <1>12, <1>13, <1>14, <2>2 DEF Ahead
<1>15. CASE ~a.hole
  <2>1. a.used + 1 > N /\ a.used + 1 \in Nat BY <1>2, <1>11, <1>15
  <2>2. d.packets = <<>> BY <1>1, <1>2, <1>13, <2>1
  <2> QED BY <1>12, <2>2 DEF Ahead
<1> QED BY <1>14, <1>15

\* insert() of a packet that lies before the next byte wanted does nothing to an empty list.
LEMMA OldIntoEmpty ==
    ASSUME NEW P, NEW B, LimitOf(P, B), NEW b, ListOf(b, P, B), b.packets = <<>>, b.first = B,
           NEW p \in Packets, DataOf(p, P, B)
    PROVE  insert(b, p) = b
<1>1. b \in Buffers BY DEF ListOf
<1>2. Len(b.packets) = 0 /\ DOMAIN b.packets = {} BY EmptySeq
<1>3. LowerBound(b, p) = 0
  <2>1. {i \in DOMAIN b.packets : less_than(b.packets[i].seq, p.seq)} = {} BY <1>2
  <2> QED BY <2>1, FS_EmptySet DEF LowerBound
<1>4. ~AlreadyInserted(b, p) BY <1>2, <1>3 DEF AlreadyInserted
<1>5. PICK r : r = Placed(b, p) OBVIOUS
<1>6. r = [b EXCEPT !.packets = InsertAt(@, 1, p)] BY <1>3, <1>4, <1>5 DEF Placed
<1>7. r \in Buffers BY <1>1, <1>5, PlacedType
<1>8. r.packets = <<p>> /\ r.first = B
  <2>1. InsertAt(b.packets, 1, p) = <<p>>
    <3>1. InsertAt(<<>>, 1, p) = SubSeq(<<>>, 1, 0) \o <<p>> \o SubSeq(<<>>, 1, 0)
      <4>1. 1 - 1 = 0 /\ Len(<<>>) = 0 OBVIOUS
      <4> QED BY <4>1 DEF InsertAt
    <3>2. SubSeq(<<>>, 1, 0) = <<>> OBVIOUS
    <3>3. <<>> \o <<p>> = <<p>> /\ <<p>> \o <<>> = <<p>> OBVIOUS
    <3> QED BY <3>1, <3>2, <3>3
  <2> QED BY <1>1, <1>6, <2>1 DEF Buffers
<1>9. Len(r.packets) = 1 /\ r.packets[1] = p BY <1>8
<1>10. size(b) = 0 BY <1>1, NothingToMove
<1>11. B \in Nat /\ Iss + 1 <= B BY DEF LimitOf, InStream, ListOf
<1>12. NewBytesTouching(B, p) = 0 /\ ~IsGap(B, p) /\ Plus(B, 0) = B
  <2>1. PICK n \in Nat, e \in Nat :
              /\ n > 0 /\ p.seq \in Nat /\ e = p.seq + n /\ e <= B
              /\ IsGap(B, p) <=> B < p.seq
              /\ ~IsGap(B, p) => NewBytesTouching(B, p) = IF B < e THEN e - B ELSE 0
    <3>1. B <= B BY <1>11
    <3> QED BY <1>11, <3>1, PassData
  <2>2. ~(B < p.seq) /\ ~(B < e) BY <1>11, <2>1
  <2>3. B + 0 <= IntMax /\ IntMax \in Nat BY <1>11 DEF LimitOf, InStream
  <2>4. Plus(B, 0) = B BY <1>11, <2>3, SmallPlus
  <2> QED BY <2>1, <2>2, <2>4
<1>13. size(r) = 0
  <2>1. CountRounds(r)[0] = [seq |-> B, total |-> 0] BY <1>7, <1>8, CountRun
  <2>2. 1 \in 1 .. Len(r.packets) BY <1>9
  <2>3. CountRounds(r)[1] = CountPacket(CountRounds(r)[0], p)
    <3>1. PICK C : C = CountRounds(r) OBVIOUS
    <3>2. \A k \in 1 .. Len(r.packets) : C[k] = CountPacket(C[k - 1], r.packets[k]) BY <1>7, <3>1, CountRun
    <3>3. 1 - 1 = 0 OBVIOUS
    <3> QED BY <1>9, <2>2, <3>1, <3>2, <3>3
  <2>4. CountRounds(r)[1].total = 0 BY <1>12, <2>1, <2>3 DEF CountPacket
  <2> QED BY <1>9, <2>4 DEF size
<1>14. num_inserted(b, p) = 0 BY <1>5, <1>10, <1>13 DEF num_inserted
<1> QED BY <1>4, <1>14 DEF insert

-------------------------------------------------------------------------------
\* What has been delivered and what waits to be read.

\* A piece of a sequence.
LEMMA Cut ==
    ASSUME NEW R \in Seq(Nat), NEW i \in 1 .. Len(R) + 1, NEW j \in i - 1 .. Len(R)
    PROVE  /\ SubSeq(R, i, j) \in Seq(Nat) /\ Len(SubSeq(R, i, j)) = j - i + 1
           /\ \A k \in 1 .. (j - i + 1) : SubSeq(R, i, j)[k] = R[i + k - 1]
<1>1. PICK l \in Nat : l = Len(R) OBVIOUS
<1>2. i \in Int /\ j \in Int /\ 1 <= i /\ i - 1 <= j /\ j <= l BY <1>1
<1>3. \A k \in 1 .. l : R[k] \in Nat
  <2>1. \A k \in 1 .. Len(R) : R[k] \in Nat OBVIOUS
  <2> QED BY <1>1, <2>1
<1>4. \A k \in i .. j : R[k] \in Nat BY <1>2, <1>3
<1>5. /\ SubSeq(R, i, j) \in Seq(Nat) /\ Len(SubSeq(R, i, j)) = (IF i <= j THEN j - i + 1 ELSE 0)
      /\ \A k \in 1 .. (j - i + 1) : SubSeq(R, i, j)[k] = R[i + k - 1]
  BY <1>2, <1>4, SubSeqProperties
<1> QED BY <1>2, <1>5

\* Three sequences put together.
LEMMA Joined ==
    ASSUME NEW x \in Seq(Nat), NEW y \in Seq(Nat), NEW z \in Seq(Nat)
    PROVE  (x \o y) \o z = x \o (y \o z)
BY SMTT(30), ConcatAssociative

\* delivered and the rest of the receive buffer are the bytes of P before f.
ReadUpTo(P, f, delivered, buffer, index) ==
    /\ delivered \in Seq(Nat) /\ buffer \in Seq(Nat) /\ index \in 0 .. Len(buffer)
    /\ delivered \o SubSeq(buffer, index + 1, Len(buffer)) = Slice(P, Iss + 1, f)

\* Bytes in order are added to the receive buffer.
LEMMA MoreToRead ==
    ASSUME NEW P \in Seq(Nat), Iss \in Nat, NEW f, NEW g, NEW D, NEW R, NEW x, ReadUpTo(P, f, D, R, x),
           InStream(P, f), InStream(P, g), f <= g, NEW data \in Seq(Nat), data = Slice(P, f, g)
    PROVE  ReadUpTo(P, g, D, R \o data, x)
<1>1. D \in Seq(Nat) /\ R \in Seq(Nat) /\ x \in 0 .. Len(R) BY DEF ReadUpTo
<1>2. PICK l \in Nat : l = Len(R) BY <1>1
<1>3. PICK m \in Nat : m = Len(data) OBVIOUS
<1>4. R \o data \in Seq(Nat) /\ Len(R \o data) = l + m /\ \A i \in 1 .. (l + m) : (R \o data)[i] = IF i <= l THEN R[i] ELSE data[i - l]
  BY <1>1, <1>2, <1>3, ConcatProperties
<1>5. PICK T \in Seq(Nat) : T = R \o data /\ Len(T) = l + m BY <1>4
<1>6. PICK y \in 1 .. l + 1 : y = x + 1 BY <1>1, <1>2
<1>7. SubSeq(T, y, l) \o SubSeq(T, l + 1, l + m) = SubSeq(T, y, l + m)
  <2>1. y \in 1 .. Len(T) + 1 /\ l \in y - 1 .. Len(T) /\ l + m \in l .. Len(T) BY <1>5, <1>6
  <2> QED BY <2>1, ConcatAdjacentSubSeq
<1>8. SubSeq(T, y, l) = SubSeq(R, y, l)
  <2>1. \A i \in y .. l : T[i] \in Nat /\ R[i] \in Nat /\ T[i] = R[i]
    <3>1. \A i \in 1 .. Len(R) : R[i] \in Nat BY <1>1
    <3>2. \A i \in y .. l : i \in 1 .. (l + m) /\ i <= l /\ i \in 1 .. Len(R) BY <1>2, <1>6
    <3> QED BY <1>4, <1>5, <3>1, <3>2
  <2>2. PICK u : u = SubSeq(T, y, l) OBVIOUS
  <2>3. PICK v : v = SubSeq(R, y, l) OBVIOUS
  <2>3a. u \in Seq(Nat) /\ Len(u) = l - y + 1 /\ \A i \in 1 .. (l - y + 1) : u[i] = T[y + i - 1]
    <3>1. y \in 1 .. Len(T) + 1 /\ l \in y - 1 .. Len(T) BY <1>5, <1>6
    <3> QED BY <2>2, <3>1, Cut
  <2>3b. v \in Seq(Nat) /\ Len(v) = l - y + 1 /\ \A i \in 1 .. (l - y + 1) : v[i] = R[y + i - 1]
    <3>1. y \in 1 .. Len(R) + 1 /\ l \in y - 1 .. Len(R) BY <1>2, <1>6
    <3> QED BY <1>1, <2>3, <3>1, Cut
  <2>4. \A i \in 1 .. l - y + 1 : y + i - 1 \in y .. l BY <1>6
  <2>5. \A i \in 1 .. Len(u) : u[i] = v[i] BY <2>1, <2>3a, <2>3b, <2>4
  <2>6. Len(u) = Len(v) BY <2>3a, <2>3b
  <2>7. u = v BY <2>3a, <2>3b, <2>5, <2>6, SeqEqual
  <2> QED BY <2>2, <2>3, <2>7
<1>9. SubSeq(T, l + 1, l + m) = data
  <2>1. SubSeq(R \o data, Len(R) + 1, Len(R \o data)) = data
    <3>1. PICK k \in 1 .. Len(T) + 1 : k = l + 1 BY <1>5
    <3>2. PICK n \in k - 1 .. Len(T) : n = l + m /\ n - k + 1 = m BY <1>5, <3>1
    <3>3. PICK u \in Seq(Nat) : u = SubSeq(T, k, n)
      <4>1. SubSeq(T, k, n) \in Seq(Nat) BY Cut
      <4> QED BY <4>1
    <3>3a. Len(u) = m /\ \A i \in 1 .. m : u[i] = T[k + i - 1] BY <3>2, <3>3, Cut
    <3>4. ASSUME NEW i \in 1 .. Len(u) PROVE u[i] = data[i]
      <4>1. PICK h \in 1 .. m : h = i BY <3>3a
      <4>2. k + h - 1 = l + h /\ l + h \in 1 .. (l + m) /\ ~(l + h <= l) /\ (l + h) - l = h BY <3>1
      <4> QED BY <1>4, <1>5, <3>3a, <4>1, <4>2
    <3>5. u = data BY <1>3, <3>3, <3>3a, <3>4, SeqEqual
    <3> QED BY <1>2, <1>4, <1>5, <3>1, <3>2, <3>3, <3>5
  <2> QED BY <1>2, <1>4, <1>5, <2>1
<1>10. PICK U \in Seq(Nat) : U = SubSeq(R, y, l)
  <2>1. \A i \in y .. l : R[i] \in Nat
    <3>1. \A i \in 1 .. Len(R) : R[i] \in Nat BY <1>1
    <3> QED BY <1>2, <1>6, <3>1
  <2>2. y \in Int /\ l \in Int OBVIOUS
  <2>3. SubSeq(R, y, l) \in Seq(Nat) BY <2>1, <2>2, SubSeqProperties
  <2> QED BY <2>3
<1>11. D \o U = Slice(P, Iss + 1, f) BY <1>2, <1>6, <1>10 DEF ReadUpTo
<1>12. (D \o U) \o data = D \o (U \o data)
  <2>1. D \in Seq(Nat) BY <1>1
  <2> QED BY ONLY <2>1, U \in Seq(Nat), data \in Seq(Nat), Joined
<1>13. Slice(P, Iss + 1, f) \o Slice(P, f, g) = Slice(P, Iss + 1, g)
  <2>1. InStream(P, Iss + 1)
    <3>1. Len(P) \in Nat OBVIOUS
    <3> QED BY <3>1 DEF InStream
  <2>2. Iss + 1 <= f BY DEF InStream
  <2> QED BY ZenonT(30), <2>1, <2>2, SliceJoin
<1>14. D \o SubSeq(T, y, l + m) = Slice(P, Iss + 1, g) BY <1>7, <1>8, <1>9, <1>10, <1>11, <1>12, <1>13
<1>15. x \in 0 .. Len(T) BY <1>1, <1>2, <1>5
<1> QED BY <1>1, <1>4, <1>5, <1>6, <1>14, <1>15 DEF ReadUpTo

\* Some of it is handed out; a buffer that has been read is cleared.
LEMMA HandOut ==
    ASSUME NEW P, NEW f, NEW D, NEW R, NEW x, ReadUpTo(P, f, D, R, x),
           NEW y \in x .. Len(R), NEW E, E = D \o SubSeq(R, x + 1, y)
    PROVE  /\ ReadUpTo(P, f, E, R, y)
           /\ y >= Len(R) => ReadUpTo(P, f, E, <<>>, 0)
<1>1. D \in Seq(Nat) /\ R \in Seq(Nat) /\ x \in 0 .. Len(R) BY DEF ReadUpTo
<1>2. PICK l \in Nat : l = Len(R) BY <1>1
<1>3. PICK z \in 1 .. l + 1 : z = x + 1 BY <1>1, <1>2
<1>4. y \in Nat /\ y <= l /\ y \in z - 1 .. l BY <1>1, <1>2, <1>3
<1>5. SubSeq(R, z, y) \o SubSeq(R, y + 1, l) = SubSeq(R, z, l)
  <2>1. z \in 1 .. Len(R) + 1 /\ y \in z - 1 .. Len(R) /\ l \in y .. Len(R) BY <1>2, <1>4
  <2> QED BY <1>1, <2>1, ConcatAdjacentSubSeq
<1>6. \A i \in 1 .. l : R[i] \in Nat
  <2>1. \A i \in 1 .. Len(R) : R[i] \in Nat BY <1>1
  <2> QED BY <1>2, <2>1
<1>7. PICK U \in Seq(Nat) : U = SubSeq(R, z, y)
  <2>1. z \in Int /\ y \in Int /\ \A i \in z .. y : R[i] \in Nat BY <1>4, <1>6
  <2>2. SubSeq(R, z, y) \in Seq(Nat) BY <2>1, SubSeqProperties
  <2> QED BY <2>2
<1>8. PICK V \in Seq(Nat) : V = SubSeq(R, y + 1, l)
  <2>1. y + 1 \in Int /\ l \in Int /\ \A i \in y + 1 .. l : R[i] \in Nat BY <1>4, <1>6
  <2>2. SubSeq(R, y + 1, l) \in Seq(Nat) BY <2>1, SubSeqProperties
  <2> QED BY <2>2
<1>9. (D \o U) \o V = D \o (U \o V) BY SMTT(30), <1>1, Joined
<1>10. D \o (U \o V) = Slice(P, Iss + 1, f) BY <1>2, <1>3, <1>5, <1>7, <1>8 DEF ReadUpTo
<1>11. E = D \o U /\ E \in Seq(Nat)
  <2>1. E = D \o U BY <1>3, <1>7
  <2>2. D \o U \in Seq(Nat) BY <1>1
  <2> QED BY <2>1, <2>2
<1>12. ReadUpTo(P, f, E, R, y)
  <2>1. E \o V = Slice(P, Iss + 1, f) BY <1>9, <1>10, <1>11
  <2>2. SubSeq(R, y + 1, Len(R)) = V BY <1>2, <1>8
  <2>3. y \in 0 .. Len(R) BY <1>2, <1>4
  <2> QED BY <1>1, <1>11, <2>1, <2>2, <2>3 DEF ReadUpTo
<1>13. ASSUME y >= Len(R) PROVE ReadUpTo(P, f, E, <<>>, 0)
  <2>1. V = <<>>
    <3>1. l < y + 1 /\ y + 1 \in Int /\ l \in Int BY <1>2, <1>4, <1>13
    <3> QED BY <1>8, <3>1, SubSeqEmpty
  <2>2. SubSeq(<<>>, 0 + 1, Len(<<>>)) = <<>>
    <3>1. Len(<<>>) = 0 BY EmptySeq
    <3>2. SubSeq(<<>>, 0 + 1, 0) = <<>> BY SubSeqEmpty
    <3> QED BY <3>1, <3>2
  <2>3. <<>> \in Seq(Nat) /\ 0 \in 0 .. Len(<<>>) BY EmptySeq
  <2>4. E \o <<>> = Slice(P, Iss + 1, f) BY <1>9, <1>10, <1>11, <2>1
  <2> QED BY <1>11, <2>2, <2>3, <2>4 DEF ReadUpTo
<1> QED BY <1>12, <1>13

-------------------------------------------------------------------------------
\* What most handlers leave alone.

SocketFields ==
    {"state", "connection_type", "time_wait_timer", "rc", "ccc", "send_buffer",
     "receive_buffer", "saved_send", "saved_close", "saved_fin", "redispatched", "queue",
     "exists", "connected", "closed", "stuck", "accepted", "delivered", "aborted"}

\* The assertions that may fail.
Excepted ==
    {None, "send_data_length", "resend_data_length", "handle_data_no_room",
     "established_connect_event"}

\* d is c but for the queue, the connection manager, congestion control and an
\* assertion.
PassesOver(c, d) ==
    /\ DOMAIN d = DOMAIN c /\ AbortKept(c, d)
    /\ d.rc = c.rc /\ d.receive_buffer = c.receive_buffer /\ d.delivered = c.delivered
    /\ d.accepted = c.accepted /\ d.closed = c.closed /\ d.send_buffer = c.send_buffer
    /\ d.saved_fin = c.saved_fin /\ d.redispatched = c.redispatched
    /\ d.saved_send = c.saved_send

\* The assertion is one of those.
Passes(c, d) == PassesOver(c, d) /\ (c.aborted \in Excepted => d.aborted \in Excepted)

\* The states of a host that has taken the peer's FIN.
TookFin == {"CloseWait", "LastAck", "TimeWait"}

\* The connection manager takes no FIN from c to d.
NoFin(c, d) == /\ d.state \in TookFin => c.state \in TookFin
               /\ d.state = "Closing" => c.state = "Closing"

\* Nor is the connection opened.
NoEntry(c, d) == NoFin(c, d) /\ (d.state \in CanSendAck => c.state \in CanSendAck)

\* The connection is or was open, or a call has offered bytes to send.
InUse(c) == c.state \in CanSendAck \/ c.accepted > 0 \/ c.saved_send # <<>>

\* Then the SYN has been acknowledged.
Opened(c) == InUse(c) => c.rc.snd_una > Iss

\* Left alone twice.
LEMMA PassesTrans ==
    ASSUME NEW c, NEW d, NEW e, Passes(c, d), Passes(d, e)
    PROVE  Passes(c, e)
BY DEF Passes, PassesOver, AbortKept

\* Left alone but for an assertion, twice.
LEMMA PassesOverTrans ==
    ASSUME NEW c, NEW d, NEW e, PassesOver(c, d), PassesOver(d, e)
    PROVE  PassesOver(c, e)
BY DEF PassesOver, AbortKept

\* The SYN is still acknowledged when the connection manager opens nothing.
LEMMA OpenedPasses ==
    ASSUME NEW c, NEW d, PassesOver(c, d), NoEntry(c, d), Opened(c)
    PROVE  Opened(d)
BY DEF PassesOver, NoEntry, Opened, InUse

\* An event, a segment, a state and an assertion.
LEMMA PassesBasics ==
    ASSUME NEW c, DOMAIN c = SocketFields
    PROVE  /\ Passes(c, c)
           /\ \A event : Passes(c, enqueue(c, event)) /\ enqueue(c, event).state = c.state
           /\ \A s : Passes(c, enqueue_send(c, s)) /\ enqueue_send(c, s).state = c.state
           /\ \A state : Passes(c, set_state(c, state)) /\ set_state(c, state).state = state
           /\ \A test, where : /\ PassesOver(c, Require(c, test, where))
                               /\ Require(c, test, where).state = c.state
                               /\ where \in Excepted => Passes(c, Require(c, test, where))
<1>1. Passes(c, c) BY DEF Passes, PassesOver, AbortKept
<1>2. ASSUME NEW event PROVE Passes(c, enqueue(c, event)) /\ enqueue(c, event).state = c.state
  BY DEF Passes, PassesOver, AbortKept, enqueue, SocketFields
<1>3. ASSUME NEW s PROVE Passes(c, enqueue_send(c, s)) /\ enqueue_send(c, s).state = c.state
  BY DEF Passes, PassesOver, AbortKept, enqueue_send, SocketFields
<1>4. ASSUME NEW state PROVE Passes(c, set_state(c, state)) /\ set_state(c, state).state = state
  BY DEF Passes, PassesOver, AbortKept, set_state, SocketFields
<1>5. ASSUME NEW test, NEW where
      PROVE  LET d == Require(c, test, where) IN
             PassesOver(c, d) /\ d.state = c.state /\ d.aborted \in {c.aborted, where}
  BY DEF PassesOver, AbortKept, Require, Abort, SocketFields, None
<1>6. ASSUME NEW test, NEW where, where \in Excepted PROVE Passes(c, Require(c, test, where))
  BY <1>5, <1>6 DEF Passes
<1> QED BY <1>1, <1>2, <1>3, <1>4, <1>5, <1>6

\* The connection manager takes a FIN only from a packet that has one.
LEMMA CmReceivePasses ==
    ASSUME NEW c, DOMAIN c = SocketFields, NEW p, NEW trap
    PROVE  LET d == cm_receive_packet(c, p, trap) IN
           Passes(c, d) /\ (p.fin \/ c.state = "Closing" \/ NoFin(c, d)) /\ (d.state = "Closing" => c.state = "Closing")
<1> DEFINE Allowed(d) == Passes(c, d) /\ (p.fin \/ c.state = "Closing" \/ NoFin(c, d))
                             /\ (d.state = "Closing" => c.state = "Closing")
<1>1. Allowed(c) BY PassesBasics DEF NoFin
<1>2. ASSUME NEW b, Passes(c, b), b.state = c.state, NEW d, Passes(b, d),
             d.state \notin TookFin \cup {"Closing"} \/ (p.fin /\ d.state # "Closing")
      PROVE  Allowed(d)
  BY <1>2, PassesTrans DEF NoFin
<1>3. ASSUME NEW event, NEW state, state \notin TookFin \cup {"Closing"} \/ (p.fin /\ state # "Closing")
      PROVE  Allowed(set_state(enqueue(c, event), state))
  <2>1. PICK b : b = enqueue(c, event) OBVIOUS
  <2>2. Passes(c, b) /\ b.state = c.state BY <2>1, PassesBasics
  <2>3. DOMAIN b = SocketFields BY <2>2 DEF Passes, PassesOver
  <2>4. Passes(b, set_state(b, state)) /\ set_state(b, state).state = state BY <2>3, PassesBasics
  <2> QED BY <1>2, <1>3, <2>1, <2>2, <2>4
<1>4. ASSUME NEW s, NEW state, state \notin TookFin \cup {"Closing"} \/ (p.fin /\ state # "Closing")
      PROVE  Allowed(set_state(enqueue_send(c, s), state))
  <2>1. PICK b : b = enqueue_send(c, s) OBVIOUS
  <2>2. Passes(c, b) /\ b.state = c.state BY <2>1, PassesBasics
  <2>3. DOMAIN b = SocketFields BY <2>2 DEF Passes, PassesOver
  <2>4. Passes(b, set_state(b, state)) /\ set_state(b, state).state = state BY <2>3, PassesBasics
  <2> QED BY <1>2, <1>4, <2>1, <2>2, <2>4
<1>5. ASSUME NEW b, Passes(c, b), b.state = c.state
      PROVE  Allowed(EnterEstablished(b, trap))
  <2>1. DOMAIN b = SocketFields BY <1>5 DEF Passes, PassesOver
  <2>2. PICK d : d = set_state(b, "Established") OBVIOUS
  <2>3. Passes(b, d) /\ d.state = "Established" BY <2>1, <2>2, PassesBasics
  <2>4. DOMAIN d = SocketFields BY <2>1, <2>3 DEF Passes, PassesOver
  <2>5. PICK e : e = [d EXCEPT !.connected = TRUE] OBVIOUS
  <2>6. Passes(d, e) /\ e.state = "Established"
    BY <2>3, <2>4, <2>5 DEF Passes, PassesOver, AbortKept, SocketFields
  <2>7. PICK f : f = Require(d, ~trap, "established_connect_event") OBVIOUS
  <2>8. Passes(d, f) /\ f.state = "Established"
    <3>1. "established_connect_event" \in Excepted BY DEF Excepted
    <3> QED BY <2>3, <2>4, <2>7, <3>1, PassesBasics
  <2>9. "Established" \notin TookFin \cup {"Closing"} BY DEF TookFin
  <2>10. Allowed(e) /\ Allowed(f) BY <1>2, <1>5, <2>3, <2>6, <2>8, <2>9, PassesTrans
  <2>11. EnterEstablished(b, trap) \in {e, f} BY <2>2, <2>5, <2>7, Zenon DEF EnterEstablished
  <2> QED BY <2>10, <2>11
<1>6. Allowed(SynSent_receive(c, p, trap))
  <2>1. PICK b : b = enqueue_send(c, Ack) OBVIOUS
  <2>2. Passes(c, b) /\ b.state = c.state BY <2>1, PassesBasics
  <2>3. Allowed(EnterEstablished(b, trap)) BY <1>5, <2>2
  <2> QED BY <1>1, <2>1, <2>3 DEF SynSent_receive
<1>7. Allowed(SynReceived_receive(c, p, trap))
  <2>1. PICK b : b = enqueue(c, "connection_established") OBVIOUS
  <2>2. Passes(c, b) /\ b.state = c.state BY <2>1, PassesBasics
  <2>3. Allowed(EnterEstablished(b, trap)) BY <1>5, <2>2
  <2> QED BY <1>1, <2>1, <2>3 DEF SynReceived_receive
<1>8. Allowed(Listen_receive(c, p))
  <2>1. PICK b : b = enqueue_send(enqueue(c, "connection_initiated"), SynAck) OBVIOUS
  <2>2. PICK a : a = enqueue(c, "connection_initiated") OBVIOUS
  <2>3. Passes(c, a) /\ a.state = c.state BY <2>2, PassesBasics
  <2>4. DOMAIN a = SocketFields BY <2>3 DEF Passes, PassesOver
  <2>5. Passes(a, b) /\ b.state = a.state BY <2>1, <2>2, <2>4, PassesBasics
  <2>6. Passes(c, b) /\ b.state = c.state BY <2>3, <2>5, PassesTrans
  <2>7. DOMAIN b = SocketFields BY <2>6 DEF Passes, PassesOver
  <2>8. Passes(b, set_state(b, "SynReceived")) /\ set_state(b, "SynReceived").state = "SynReceived"
    BY <2>7, PassesBasics
  <2>9. "SynReceived" \notin TookFin \cup {"Closing"} BY DEF TookFin
  <2>10. Allowed(set_state(b, "SynReceived")) BY <1>2, <2>6, <2>8, <2>9
  <2> QED BY <1>1, <2>1, <2>10 DEF Listen_receive, process_syn
<1>9. ASSUME p.fin, NEW state \in {"CloseWait", "TimeWait"} PROVE Allowed(TakeFin(c, state))
  BY <1>4, <1>9 DEF TakeFin
<1>10. Allowed(Established_receive(c, p)) /\ Allowed(FinWait2_receive(c, p))
  BY <1>1, <1>9 DEF Established_receive, FinWait2_receive
<1>11. Passes(c, set_state(c, "FinWait2")) /\ Allowed(set_state(c, "FinWait2"))
  <2>1. Passes(c, set_state(c, "FinWait2")) /\ set_state(c, "FinWait2").state = "FinWait2" BY PassesBasics
  <2> QED BY <2>1 DEF NoFin, TookFin
<1>12. Allowed(FinWait1_receive(c, p))
  <2>1. CASE p.fin
    <3>1. FinWait1_receive(c, p) \in {TakeFin(c, "TimeWait"), c} BY <2>1, Zenon DEF FinWait1_receive
    <3> QED BY <1>1, <1>9, <2>1, <3>1
  <2>2. CASE ~p.fin
    <3>1. FinWait1_receive(c, p) \in {set_state(c, "FinWait2"), c} BY <2>2, Zenon DEF FinWait1_receive
    <3> QED BY <1>1, <1>11, <3>1
  <2> QED BY <2>1, <2>2
<1>13. c.state = "Closing" => Allowed(Closing_receive(c, p))
  <2>1. Passes(c, set_state(c, "TimeWait")) /\ set_state(c, "TimeWait").state = "TimeWait" BY PassesBasics
  <2> QED BY <1>1, <2>1 DEF Closing_receive
<1>14. Allowed(LastAck_receive(c, p))
  <2>1. "Closed" \notin TookFin \cup {"Closing"} BY DEF TookFin
  <2>2. Allowed(set_state(enqueue(c, "delete_socket"), "Closed")) BY <1>3, <2>1
  <2> QED BY <1>1, <2>2 DEF LastAck_receive
<1>15. Allowed(TimeWait_receive(c, p))
  <2>1. Passes(c, enqueue_send(c, NakedSegment)) /\ enqueue_send(c, NakedSegment).state = c.state BY PassesBasics
  <2> QED BY <1>1, <2>1 DEF TimeWait_receive, NoFin
<1> HIDE DEF Allowed
<1>16. Allowed(cm_receive_packet(c, p, trap))
  <2>1. CASE c.state = "Closing" BY <1>13, <2>1 DEF cm_receive_packet
  <2>2. CASE c.state # "Closing"
    <3>1. cm_receive_packet(c, p, trap) \in
            {Listen_receive(c, p), SynSent_receive(c, p, trap), SynReceived_receive(c, p, trap),
             Established_receive(c, p), FinWait1_receive(c, p), FinWait2_receive(c, p),
             LastAck_receive(c, p), TimeWait_receive(c, p), c}
      BY <2>2, Zenon DEF cm_receive_packet
    <3> QED BY <1>1, <1>6, <1>7, <1>8, <1>10, <1>12, <1>14, <1>15, <3>1
  <2> QED BY <2>1, <2>2
<1> QED BY <1>16 DEF Allowed

\* It opens the connection only when a packet has an acknowledgement.
LEMMA CmReceiveEnters ==
    ASSUME NEW c, DOMAIN c = SocketFields, NEW p, NEW trap
    PROVE  cm_receive_packet(c, p, trap).state \in CanSendAck => c.state \in CanSendAck \/ p.ack
<1>1. SUFFICES ASSUME c.state \notin CanSendAck, ~p.ack
               PROVE  cm_receive_packet(c, p, trap).state \notin CanSendAck
  OBVIOUS
<1>2. CASE c.state = "Listen"
  <2>1. PICK b : b = enqueue_send(enqueue(c, "connection_initiated"), SynAck) OBVIOUS
  <2>2. DOMAIN b = SocketFields
    <3>1. PICK a : a = enqueue(c, "connection_initiated") OBVIOUS
    <3>2. DOMAIN a = SocketFields BY <3>1, PassesBasics DEF Passes, PassesOver
    <3> QED BY <2>1, <3>1, <3>2, PassesBasics DEF Passes, PassesOver
  <2>3. set_state(b, "SynReceived").state = "SynReceived" BY <2>2, PassesBasics
  <2>4. Listen_receive(c, p).state \in {c.state, "SynReceived"} BY <2>1, <2>3 DEF Listen_receive, process_syn
  <2>5. cm_receive_packet(c, p, trap) = Listen_receive(c, p) BY <1>2 DEF cm_receive_packet
  <2> QED BY <1>1, <2>4, <2>5 DEF CanSendAck
<1>3. CASE c.state # "Listen"
  <2>1. SynSent_receive(c, p, trap) = c /\ SynReceived_receive(c, p, trap) = c
    BY <1>1 DEF SynSent_receive, SynReceived_receive
  <2>2. cm_receive_packet(c, p, trap) \in {SynSent_receive(c, p, trap), SynReceived_receive(c, p, trap), c}
    BY <1>1, <1>3, Zenon DEF cm_receive_packet, CanSendAck
  <2> QED BY <1>1, <2>1, <2>2
<1> QED BY <1>2, <1>3

\* close() takes no FIN and opens nothing, and neither do the other calls and the timer.
LEMMA CmCallsPass ==
    ASSUME NEW c, DOMAIN c = SocketFields
    PROVE  /\ Passes(c, cm_close(c)) /\ NoEntry(c, cm_close(c))
           /\ Passes(c, cm_connect(c)) /\ NoEntry(c, cm_connect(c))
           /\ Passes(c, cm_listen(c)) /\ NoEntry(c, cm_listen(c))
           /\ Passes(c, cm_timer_fired(c)) /\ NoEntry(c, cm_timer_fired(c))
<1>1. Passes(c, c) /\ NoEntry(c, c) BY PassesBasics DEF NoEntry, NoFin
<1>2. ASSUME NEW b, Passes(c, b), NEW state, state \in TookFin => c.state \in TookFin, state # "Closing",
             state \in CanSendAck => c.state \in CanSendAck
      PROVE  Passes(c, set_state(b, state)) /\ NoEntry(c, set_state(b, state))
  <2>1. DOMAIN b = SocketFields BY <1>2 DEF Passes, PassesOver
  <2>2. Passes(b, set_state(b, state)) /\ set_state(b, state).state = state BY <2>1, PassesBasics
  <2> QED BY <1>2, <2>2, PassesTrans DEF NoEntry, NoFin
<1>3. \A event : Passes(c, enqueue(c, event)) BY PassesBasics
<1>4. \A s : Passes(c, enqueue_send(c, s)) BY PassesBasics
<1>5. Passes(c, cm_timer_fired(c)) /\ NoEntry(c, cm_timer_fired(c))
  BY <1>2, <1>3 DEF cm_timer_fired, TookFin, CanSendAck
<1>6. Passes(c, cm_listen(c)) /\ NoEntry(c, cm_listen(c))
  <2>1. PICK b : b = [c EXCEPT !.connection_type = "PASSIVE_OPEN"] OBVIOUS
  <2>2. Passes(c, b) BY <2>1 DEF Passes, PassesOver, AbortKept, SocketFields
  <2> QED BY <1>1, <1>2, <2>1, <2>2 DEF cm_listen, TookFin, CanSendAck
<1>7. Passes(c, cm_connect(c)) /\ NoEntry(c, cm_connect(c))
  <2>1. PICK b : b = [c EXCEPT !.connection_type = "ACTIVE_OPEN"] OBVIOUS
  <2>2. Passes(c, b) BY <2>1 DEF Passes, PassesOver, AbortKept, SocketFields
  <2>3. DOMAIN b = SocketFields BY <2>2 DEF Passes, PassesOver
  <2>4. Passes(b, enqueue_send(b, Syn)) BY <2>3, PassesBasics
  <2>5. Passes(c, enqueue_send(b, Syn)) BY <2>2, <2>4, PassesTrans
  <2> QED BY <1>1, <1>2, <2>1, <2>5 DEF cm_connect, TookFin, CanSendAck
<1>8. Passes(c, cm_close(c)) /\ NoEntry(c, cm_close(c))
  <2>1. Passes(c, Listen_close(c)) /\ NoEntry(c, Listen_close(c)) BY <1>2, <1>3 DEF Listen_close, TookFin, CanSendAck
  <2>2. CASE c.state = "CloseWait"
    <3>1. Passes(c, CloseWait_close(c)) /\ NoEntry(c, CloseWait_close(c))
      BY <1>2, <1>4, <2>2 DEF CloseWait_close, TookFin, CanSendAck
    <3> QED BY <2>2, <3>1 DEF cm_close
  <2>3. CASE c.state = "Established"
    <3>1. PICK b : b = set_state(c, "FinWait1") OBVIOUS
    <3>2. Passes(c, b) /\ b.state = "FinWait1" BY <3>1, PassesBasics
    <3>3. DOMAIN b = SocketFields BY <3>2 DEF Passes, PassesOver
    <3>4. Passes(b, enqueue_send(b, Fin)) /\ enqueue_send(b, Fin).state = b.state BY <3>3, PassesBasics
    <3>5. Passes(c, enqueue_send(b, Fin)) /\ NoEntry(c, enqueue_send(b, Fin))
      BY <2>3, <3>2, <3>4, PassesTrans DEF NoEntry, NoFin, TookFin, CanSendAck
    <3> QED BY <1>1, <2>3, <3>1, <3>5 DEF cm_close, Established_close
  <2>4. CASE c.state \notin {"CloseWait", "Established"}
    <3>1. cm_close(c) \in {Listen_close(c), c} BY <2>4, Zenon DEF cm_close
    <3> QED BY <1>1, <2>1, <3>1
  <2> QED BY <2>2, <2>3, <2>4
<1> QED BY <1>5, <1>6, <1>7, <1>8

\* Only congestion control changes, and the queue.
LEMMA SetCccPasses ==
    ASSUME NEW c, DOMAIN c = SocketFields, NEW x
    PROVE  Passes(c, [c EXCEPT !.ccc = x]) /\ [c EXCEPT !.ccc = x].state = c.state
BY DEF Passes, PassesOver, AbortKept, SocketFields

\* send_one_packet.
LEMMA SendOnePasses ==
    ASSUME NEW c, DOMAIN c = SocketFields, NEW ignore
    PROVE  Passes(c, send_one_packet(c, ignore)) /\ send_one_packet(c, ignore).state = c.state
<1>1. PICK length : length = get_send_data_length(c, ignore) OBVIOUS
<1>2. PICK a : a = Require(c, length > 0, "send_data_length") OBVIOUS
<1>3. Passes(c, a) /\ a.state = c.state
  <2>1. "send_data_length" \in Excepted BY DEF Excepted
  <2> QED BY <1>2, <2>1, PassesBasics
<1>4. DOMAIN a = SocketFields BY <1>3 DEF Passes, PassesOver
<1>5. PICK x : x = set_snd_nxt(a.ccc, Plus(a.ccc.snd_nxt, length)) OBVIOUS
<1>6. PICK b : b = [a EXCEPT !.ccc = x] OBVIOUS
<1>7. Passes(a, b) /\ b.state = a.state BY <1>4, <1>6, SetCccPasses
<1>8. DOMAIN b = SocketFields BY <1>4, <1>7 DEF Passes, PassesOver
<1>9. PICK s : s = Segment(FALSE, FALSE, FALSE, SubSeq(c.send_buffer, get_num_outstanding(c.ccc) + 1,
                                                    get_num_outstanding(c.ccc) + length))
  OBVIOUS
<1>10. Passes(b, enqueue_send(b, s)) /\ enqueue_send(b, s).state = b.state BY <1>8, PassesBasics
<1>11. [a EXCEPT !.ccc = set_snd_nxt(@, Plus(@.snd_nxt, length))] = b BY <1>5, <1>6
<1>12. send_one_packet(c, ignore) = enqueue_send(b, s)
  BY <1>1, <1>2, <1>9, <1>11, Zenon DEF send_one_packet
<1> QED BY <1>3, <1>7, <1>10, <1>12, PassesTrans

\* The loop of send_packets.
LEMMA SendPacketsPasses ==
    ASSUME NEW c, DOMAIN c = SocketFields, Len(c.send_buffer) \in Nat
    PROVE  Passes(c, send_packets(c)) /\ send_packets(c).state = c.state
<1>1. PICK N \in Nat : N = Len(c.send_buffer) OBVIOUS
<1>2. PICK g : g = SendRounds(c) OBVIOUS
<1>3. g[0] = c /\ \A k \in 1 .. N : g[k] = SendRound(g[k - 1]) BY <1>1, <1>2, SendRoundsRun
<1> DEFINE G == {k \in Nat : k <= N => Passes(c, g[k]) /\ g[k].state = c.state}
<1>4. 0 \in G BY <1>3, PassesBasics
<1>5. ASSUME NEW k \in Nat, k \in G PROVE k + 1 \in G
  <2> SUFFICES ASSUME k + 1 <= N PROVE Passes(c, g[k + 1]) /\ g[k + 1].state = c.state OBVIOUS
  <2>1. PICK d : d = g[k] OBVIOUS
  <2>2. Passes(c, d) /\ d.state = c.state BY <1>5, <2>1
  <2>3. DOMAIN d = SocketFields BY <2>2 DEF Passes, PassesOver
  <2>4. PICK j \in Nat : j = k + 1 OBVIOUS
  <2>5. j \in 1 .. N /\ j - 1 = k BY <2>4
  <2>6. g[j] = SendRound(d) BY <1>3, <2>1, <2>5
  <2>7. SendRound(d) \in {send_one_packet(d, FALSE), d} BY Zenon DEF SendRound
  <2>8. Passes(d, send_one_packet(d, FALSE)) /\ send_one_packet(d, FALSE).state = d.state
    BY <2>3, SendOnePasses
  <2>9. PICK e : e = send_one_packet(d, FALSE) OBVIOUS
  <2>10. Passes(c, e) /\ e.state = c.state BY <2>2, <2>8, <2>9, PassesTrans
  <2>11. g[j] \in {e, d} BY <2>6, <2>7, <2>9
  <2> QED BY <2>2, <2>4, <2>10, <2>11
<1>6. \A k \in Nat : k \in G
  <2> HIDE DEF G
  <2> QED BY <1>4, <1>5, SetInduction
<1>7. Passes(c, g[N]) /\ g[N].state = c.state BY <1>6
<1> QED BY <1>1, <1>2, <1>7 DEF send_packets

\* Congestion control takes a packet.
LEMMA CcReceivePasses ==
    ASSUME NEW c, DOMAIN c = SocketFields, Len(c.send_buffer) \in Nat, NEW p
    PROVE  Passes(c, cc_receive_packet(c, p)) /\ cc_receive_packet(c, p).state = c.state
<1>1. PICK grown : grown = IF between_equal_right(c.ccc.snd_una, p.ackno, c.ccc.snd_max)
                              /\ UpdateSendWindow(AdvanceUna(c.ccc, p), p).data_sent
                           THEN set_cwnd(UpdateSendWindow(AdvanceUna(c.ccc, p), p))
                           ELSE UpdateSendWindow(AdvanceUna(c.ccc, p), p)
  OBVIOUS
<1>2. PICK full : full = (get_num_outstanding(grown) >= get_max_allowed_to_send(grown)) OBVIOUS
<1>3. PICK t : t = [c EXCEPT !.ccc = [grown EXCEPT !.probe_timer = full]] OBVIOUS
<1>4. cc_receive_packet(c, p) \in {c, t, send_packets(t)}
  <2>1. cc_receive_packet(c, p) =
          IF ~(p.ack /\ between_equal(c.ccc.snd_una, p.ackno, c.ccc.snd_max)) THEN c
          ELSE IF full THEN t ELSE send_packets(t)
    BY <1>1, <1>2, <1>3, Zenon DEF cc_receive_packet
  <2> QED BY <2>1
<1>5. Passes(c, c) BY PassesBasics
<1>6. Passes(c, t) /\ t.state = c.state BY <1>3, SetCccPasses
<1>7. DOMAIN t = SocketFields /\ Len(t.send_buffer) \in Nat BY <1>6 DEF Passes, PassesOver
<1>8. Passes(t, send_packets(t)) /\ send_packets(t).state = t.state BY <1>7, SendPacketsPasses
<1>9. Passes(c, send_packets(t)) /\ send_packets(t).state = c.state BY <1>6, <1>8, PassesTrans
<1> QED BY <1>4, <1>5, <1>6, <1>9

\* The resend, and the probe.
LEMMA CcTimersPass ==
    ASSUME NEW c, DOMAIN c = SocketFields
    PROVE  /\ PassesOver(c, cc_resend_packet(c)) /\ cc_resend_packet(c).state = c.state
           /\ Passes(c, cc_timer_fired(c)) /\ cc_timer_fired(c).state = c.state
<1>1. Passes(c, cc_timer_fired(c)) /\ cc_timer_fired(c).state = c.state
  <2>1. PICK x : x = [c.ccc EXCEPT !.probe_timer = TRUE] OBVIOUS
  <2>2. PICK d : d = [c EXCEPT !.ccc = x] OBVIOUS
  <2>3. d = [c EXCEPT !.ccc.probe_timer = TRUE] BY <2>1, <2>2
  <2>4. Passes(c, d) /\ d.state = c.state BY <2>2, SetCccPasses
  <2>5. DOMAIN d = SocketFields BY <2>4 DEF Passes, PassesOver
  <2>6. Passes(d, send_one_packet(d, TRUE)) /\ send_one_packet(d, TRUE).state = d.state BY <2>5, SendOnePasses
  <2> QED BY <2>3, <2>4, <2>6, PassesTrans DEF cc_timer_fired
<1>2. PassesOver(c, cc_resend_packet(c)) /\ cc_resend_packet(c).state = c.state
  <2> DEFINE b == [c EXCEPT !.ccc = set_snd_nxt(resend(@), @.snd_una)]
             s == ResentSegment(b)
             isData == ~s.syn /\ ~s.fin
             length == IF isData THEN Len(s.data) ELSE 1
             c1 == Require(b, b.send_buffer # <<>>, "resend_empty_buffer")
             c2 == Require(c1, isData /\ b.send_buffer # <<>>
                                   => get_resend_data_length(b) > 0, "resend_data_length")
             c3 == Require(c2, isData => s.data # <<>>, "resend_no_data")
  <2>1. PassesOver(c, b) /\ b.state = c.state
    <3>1. PICK x : x = set_snd_nxt(resend(c.ccc), c.ccc.snd_una) OBVIOUS
    <3>2. b = [c EXCEPT !.ccc = x] BY <3>1
    <3> QED BY <3>2, SetCccPasses DEF Passes
  <2>2. DOMAIN b = SocketFields BY <2>1 DEF PassesOver
  <2>3. cc_resend_packet(c) = enqueue_send([c3 EXCEPT !.ccc = set_snd_nxt(@, Plus(@.snd_una, length))], s)
    BY DEF cc_resend_packet
  <2> HIDE DEF b, s, length
  <2>4. PassesOver(b, c1) /\ c1.state = b.state BY <2>2, PassesBasics
  <2>5. DOMAIN c1 = SocketFields BY <2>2, <2>4 DEF PassesOver
  <2> HIDE DEF c1
  <2>6. PassesOver(c1, c2) /\ c2.state = c1.state BY <2>5, PassesBasics
  <2>7. DOMAIN c2 = SocketFields BY <2>5, <2>6 DEF PassesOver
  <2> HIDE DEF c2
  <2>8. PassesOver(c2, c3) /\ c3.state = c2.state BY <2>7, PassesBasics
  <2>9. DOMAIN c3 = SocketFields BY <2>7, <2>8 DEF PassesOver
  <2> HIDE DEF c3
  <2>10. PICK x : x = set_snd_nxt(c3.ccc, Plus(c3.ccc.snd_una, length)) OBVIOUS
  <2>11. PICK d : d = [c3 EXCEPT !.ccc = x] OBVIOUS
  <2>12. PassesOver(c3, d) /\ d.state = c3.state BY <2>9, <2>11, SetCccPasses DEF Passes
  <2>13. DOMAIN d = SocketFields BY <2>9, <2>12 DEF PassesOver
  <2>14. PassesOver(d, enqueue_send(d, s)) /\ enqueue_send(d, s).state = d.state BY <2>13, PassesBasics DEF Passes
  <2>15. cc_resend_packet(c) = enqueue_send(d, s) BY <2>3, <2>10, <2>11
  <2>16. PassesOver(c, c1) /\ PassesOver(c1, c3) /\ PassesOver(c3, enqueue_send(d, s))
    BY <2>1, <2>4, <2>6, <2>8, <2>12, <2>14, PassesOverTrans
  <2> QED BY <2>1, <2>4, <2>6, <2>8, <2>12, <2>14, <2>15, <2>16, PassesOverTrans
<1> QED BY <1>1, <1>2

-------------------------------------------------------------------------------
\* What a receiver has of the stream of its peer's socket s, whose payload is P:
\* w is the reassembly buffer, n is RCV.NXT, v the window, D has been delivered and
\* R from place x on waits to be read.

\* The number after the last byte that s has both accepted and sent.
Limit(s) == Lesser(Iss + 1 + s.accepted, s.rc.snd_max)

\* Before the peer's SYN.
NothingYet(w, n, D, R, x) == n = 0 /\ w = EmptyBuffer /\ D = <<>> /\ R = <<>> /\ x = 0

\* The FIN has been counted, behind all bytes of a peer that has closed.
PastFin(w, n, s) ==
    n = w.first + 1 /\ w.first = Iss + 1 + s.accepted /\ s.closed /\ n <= s.rc.snd_max

InOrder(w, n, D, R, x, s, P) ==
    /\ w.started = TRUE /\ ListOf(w, P, Limit(s)) /\ ReadUpTo(P, w.first, D, R, x)
    /\ n = w.first \/ PastFin(w, n, s)
    /\ Ahead(w)

\* The window, what is unread and what waits for a hole to be filled.
Room(w, v, R, x) ==
    /\ w \in Buffers /\ size(w) \in Nat /\ R \in Seq(Nat) /\ x \in 0 .. Len(R) /\ v \in 0 .. MaxReceiveWindow
    /\ v + (Len(R) - x) + size(w) = MaxReceiveWindow

\* An acknowledgement is of the SYN at least.
AckNo(p) == p.ackno = 0 \/ p.ackno > Iss

\* p, which s has sent, and n is RCV.NXT of the receiver: a FIN follows all bytes
\* and is sent when they have arrived.
SentOK(p, s, n, P) ==
    /\ p \in Packets
    /\ p.syn => p.seq = Iss /\ ~p.fin /\ p.data = <<>> /\ Iss + 1 <= s.rc.snd_max
    /\ p.fin => /\ p.data = <<>> /\ s.closed
                /\ p.seq = Iss + 1 + s.accepted /\ p.seq <= n /\ p.seq + 1 <= s.rc.snd_max
    /\ p.data # <<>> => DataOf(p, P, Limit(s))
    /\ p.ackno <= s.rc.rcv_nxt /\ AckNo(p)

\* The numbers of a socket.
Sends(s, P) == StreamsFit /\ StreamFits(P) /\ Typed(s, P)

\* They are numbers.
LEMMA SendsType ==
    ASSUME NEW s, NEW P, Sends(s, P)
    PROVE  /\ Iss \in Nat /\ Iss > 0 /\ s.accepted \in Nat /\ s.rc.snd_max \in Nat /\ Limit(s) \in Nat
           /\ Limit(s) <= Iss + 1 + s.accepted /\ Limit(s) <= s.rc.snd_max
           /\ Iss + 1 + s.accepted + 2 <= IntMax /\ IntMax \in Nat
           /\ (Iss + 1 <= Limit(s) => LimitOf(P, Limit(s)))
           /\ (Iss + 1 <= s.rc.snd_max => Iss + 1 <= Limit(s))
<1>1. Iss \in Nat /\ Iss > 0 /\ IntMax \in Nat BY Constants DEF Sends
<1>2. PICK l \in Nat : l = Len(P) BY DEF Sends, StreamFits
<1>3. Iss + l + 3 <= IntMax BY <1>2 DEF Sends, StreamFits
<1>4. PICK a \in Nat : a = s.accepted /\ a <= l
  <2>1. s.accepted \in 0 .. l BY <1>2 DEF Sends, Typed
  <2> QED BY <2>1
<1>5. PICK m \in Nat : m = s.rc.snd_max BY SeqNumInt DEF Sends, Typed, SeqNum
<1>6. PICK b \in Nat : b = Limit(s) /\ b <= Iss + 1 + a /\ b <= m /\ (b = m \/ b = Iss + 1 + a)
  BY <1>1, <1>4, <1>5 DEF Limit, Lesser
<1>7. Iss + 1 <= b => LimitOf(P, b)
  <2>1. P \in Seq(Nat) BY DEF Sends, StreamFits
  <2>2. Iss + 1 <= b => InStream(P, b) BY <1>1, <1>2, <1>4, <1>6 DEF InStream
  <2>3. Iss + 1 + Len(P) <= IntMax BY <1>1, <1>2, <1>3
  <2> QED BY <1>1, <2>1, <2>2, <2>3 DEF LimitOf
<1> QED BY <1>1, <1>3, <1>4, <1>5, <1>6, <1>7

\* No byte has been delivered, and none waits.
LEMMA NothingRead ==
    ASSUME NEW P \in Seq(Nat), Iss \in Nat
    PROVE  ReadUpTo(P, Iss + 1, <<>>, <<>>, 0)
<1>1. Len(<<>>) = 0 /\ <<>> \in Seq(Nat) BY EmptySeq
<1>2. SubSeq(<<>>, 0 + 1, 0) = <<>> BY SubSeqEmpty
<1>3. Slice(P, Iss + 1, Iss + 1) = <<>>
  <2>1. (Iss + 1) - Iss - 1 < (Iss + 1) - Iss /\ (Iss + 1) - Iss \in Int /\ (Iss + 1) - Iss - 1 \in Int OBVIOUS
  <2> QED BY <2>1, SubSeqEmpty DEF Slice
<1>4. <<>> \o <<>> = <<>> BY <1>1, ConcatEmptySeq
<1>5. SubSeq(<<>>, 0 + 1, Len(<<>>)) = <<>> BY <1>1, <1>2
<1>6. 0 \in 0 .. Len(<<>>) BY <1>1
<1>7. <<>> \o SubSeq(<<>>, 0 + 1, Len(<<>>)) = Slice(P, Iss + 1, Iss + 1) BY <1>3, <1>4, <1>5
<1> QED BY <1>1, <1>6, <1>7 DEF ReadUpTo

\* A SYN starts the buffer, or changes nothing when RCV.NXT is not set back.
LEMMA SynTaken ==
    ASSUME NEW s, NEW P, Sends(s, P), NEW w, NEW n \in Nat, NEW v, NEW D, NEW R, NEW x,
           NothingYet(w, n, D, R, x) \/ InOrder(w, n, D, R, x, s, P), Room(w, v, R, x),
           NEW p, SentOK(p, s, n, P), p.syn, NEW m, m = Plus(p.seq, 1), n <= m,
           NEW u, u = set_first_sequence_number(w, m)
    PROVE  InOrder(u, m, D, R, x, s, P) /\ Room(u, v, R, x)
<1>1. /\ Iss \in Nat /\ IntMax \in Nat /\ Iss + 1 <= IntMax /\ Limit(s) \in Nat
      /\ Iss + 1 <= Limit(s) /\ LimitOf(P, Limit(s)) /\ P \in Seq(Nat)
  BY SendsType DEF SentOK, LimitOf
<1>2. m = Iss + 1 BY <1>1, SmallPlus DEF SentOK
<1>3. u = [w EXCEPT !.first = m, !.started = TRUE] /\ w \in Buffers BY DEF set_first_sequence_number, Room
<1>4. m \in SeqNum BY <1>1, <1>2 DEF SeqNum, Modulus
<1>5. u \in Buffers /\ u.first = m /\ u.started = TRUE /\ u.packets = w.packets BY <1>3, <1>4 DEF Buffers
<1>6. CASE NothingYet(w, n, D, R, x)
  <2>1. w.packets = <<>> BY <1>6 DEF NothingYet, EmptyBuffer
  <2>2. size(w) = 0 /\ size(u) = 0 BY <1>3, <1>5, <2>1, NothingToMove
  <2>3. ReadUpTo(P, m, D, R, x) BY <1>1, <1>2, <1>6, NothingRead DEF NothingYet
  <2>4. ListOf(u, P, Limit(s))
    <3>1. Len(u.packets) = 0 BY <1>5, <2>1, EmptySeq
    <3> QED BY <1>1, <1>2, <1>5, <3>1 DEF ListOf
  <2>5. Ahead(u) BY <1>5, <2>1 DEF Ahead
  <2> QED BY <1>5, <2>2, <2>3, <2>4, <2>5 DEF InOrder, Room
<1>7. CASE InOrder(w, n, D, R, x, s, P)
  <2>1. PICK f \in Nat : f = w.first /\ Iss + 1 <= f /\ f <= n
    <3>1. w.first \in Nat BY <1>3 DEF Buffers, SeqNum
    <3>2. Iss + 1 <= w.first BY <1>7 DEF InOrder, ListOf
    <3> QED BY <1>7, <3>1, <3>2 DEF InOrder, PastFin
  <2>2. f = m /\ n = m BY <1>1, <1>2, <2>1
  <2>3. u = w
    <3>1. w.first = m /\ w.started = TRUE BY <1>7, <2>1, <2>2 DEF InOrder
    <3> QED BY <1>3, <3>1 DEF Buffers
  <2> QED BY <1>7, <2>2, <2>3
<1> QED BY <1>6, <1>7

\* A FIN is counted behind the last byte, once.
LEMMA FinCounted ==
    ASSUME NEW s, NEW P, Sends(s, P), NEW w, NEW n \in Nat, NEW v, NEW D, NEW R, NEW x,
           NothingYet(w, n, D, R, x) \/ InOrder(w, n, D, R, x, s, P), Room(w, v, R, x),
           NEW p, SentOK(p, s, n, P), p.fin, NEW m, m = Plus(p.seq, 1)
    PROVE  InOrder(w, m, D, R, x, s, P) /\ w.first = Iss + 1 + s.accepted /\ s.closed /\ n <= m
<1>1. /\ Iss \in Nat /\ IntMax \in Nat /\ Limit(s) \in Nat /\ s.accepted \in Nat
      /\ Limit(s) <= Iss + 1 + s.accepted /\ Iss + 1 + s.accepted + 2 <= IntMax
  BY SendsType
<1>2. /\ s.closed /\ p.seq = Iss + 1 + s.accepted /\ p.seq <= n /\ p.seq + 1 <= s.rc.snd_max
  BY DEF SentOK
<1>3. m = p.seq + 1 BY <1>1, <1>2, SmallPlus
<1>4. InOrder(w, n, D, R, x, s, P) BY <1>1, <1>2 DEF NothingYet
<1>5. w.first \in Nat BY DEF Room, Buffers, SeqNum
<1>6. w.first <= Limit(s) BY <1>4 DEF InOrder, ListOf
<1>7. w.first = p.seq
  <2>1. CASE n = w.first BY <1>1, <1>2, <1>5, <1>6, <2>1
  <2>2. CASE PastFin(w, n, s) BY <1>2, <2>2 DEF PastFin
  <2> QED BY <1>4, <2>1, <2>2 DEF InOrder
<1>8. PastFin(w, m, s) BY <1>2, <1>3, <1>7 DEF PastFin
<1>9. n <= m
  <2>1. n = p.seq \/ n = p.seq + 1 BY <1>4, <1>7 DEF InOrder, PastFin
  <2> QED BY <1>1, <1>2, <1>3, <2>1
<1> QED BY <1>2, <1>4, <1>7, <1>8, <1>9 DEF InOrder

\* A number between 0 and the largest is not cut.
LEMMA UShortSame ==
    ASSUME NEW v \in 0 .. MaxReceiveWindow, MaxReceiveWindow \in Nat
    PROVE  UShort(v) = v
BY DEF UShort

\* A data packet goes into the buffer, and what is in order from there to the
\* receive buffer, when no assertion fails.
DataMoves(w, n, v, R, p, d, n2, v2, R2) ==
    LET k == num_inserted(w, p)
        u == insert(w, p)
    IN /\ w.started /\ v >= k /\ (u.packets = <<>> \/ u.first = n)
       /\ d = after_continuous_data(u) /\ v2 = UShort(v - k)
       /\ n2 = Plus(n, Len(continuous_data(u))) /\ R2 = R \o continuous_data(u)

\* Whatever arrives first or again, what recv() will read stays the sender's stream in order.
LEMMA DataTaken ==
    ASSUME NEW s, NEW P, Sends(s, P), NEW w, NEW n \in Nat, NEW v, NEW D, NEW R, NEW x,
           NothingYet(w, n, D, R, x) \/ InOrder(w, n, D, R, x, s, P), Room(w, v, R, x),
           NEW p, SentOK(p, s, n, P), p.data # <<>>,
           NEW d, NEW n2, NEW v2, NEW R2, DataMoves(w, n, v, R, p, d, n2, v2, R2)
    PROVE  InOrder(d, n2, D, R2, x, s, P) /\ Room(d, v2, R2, x) /\ n <= n2
<1>0. PICK k, u, data :
         /\ k = num_inserted(w, p) /\ u = insert(w, p) /\ data = continuous_data(u)
         /\ w.started /\ v >= k /\ (u.packets = <<>> \/ u.first = n)
         /\ d = after_continuous_data(u) /\ v2 = UShort(v - k)
         /\ n2 = Plus(n, Len(data)) /\ R2 = R \o data
  BY DEF DataMoves
<1>1. PICK B \in Nat : B = Limit(s) BY SendsType
<1>2. /\ Iss \in Nat /\ IntMax \in Nat /\ s.accepted \in Nat /\ B <= Iss + 1 + s.accepted
      /\ Iss + 1 + s.accepted + 2 <= IntMax /\ (Iss + 1 <= B => LimitOf(P, B))
  BY <1>1, SendsType
<1>3. InOrder(w, n, D, R, x, s, P) BY <1>0 DEF NothingYet, EmptyBuffer
<1>4. ListOf(w, P, B) BY <1>1, <1>3 DEF InOrder
<1>5. PICK f \in Nat : f = w.first /\ Iss + 1 <= f /\ f <= B
  <2>1. w.first \in Nat BY DEF Room, Buffers, SeqNum
  <2> QED BY <1>4, <2>1 DEF ListOf
<1>6. LimitOf(P, B) BY <1>1, <1>2, <1>5
<1>7. p \in Packets /\ DataOf(p, P, B) BY <1>1 DEF SentOK
<1>8. /\ ListOf(u, P, B) /\ u.first = f /\ u.started = w.started
      /\ size(u) \in Nat /\ size(w) \in Nat /\ k \in Int /\ size(u) = size(w) + k
  <2>1. Insertion(w, insert(w, p), num_inserted(w, p), P, B) BY ONLY <1>4, <1>6, <1>7, Inserted
  <2>2. Insertion(w, u, k, P, B) BY <1>0, <2>1
  <2> QED BY <1>5, <2>2 DEF Insertion
<1>9. Moved(u, d, data, P, B) BY <1>0, <1>6, <1>8, Continuous
<1>10. PICK g \in Nat : g = d.first /\ f <= g /\ g <= B /\ Len(data) = g - f
  BY <1>1, <1>8, <1>9 DEF Moved, ListOf
<1>11. data \in Seq(Nat) /\ data = Slice(P, f, g) BY <1>8, <1>9, <1>10 DEF Moved
<1>12. ReadUpTo(P, g, D, R2, x)
  <2>0. R2 = R \o data BY <1>0
  <2>1. InStream(P, f) /\ InStream(P, g) BY SMTT(30), <1>5, <1>6, <1>10 DEF LimitOf, InStream
  <2>2. ReadUpTo(P, f, D, R, x) BY <1>3, <1>5 DEF InOrder
  <2>3. P \in Seq(Nat) /\ Iss \in Nat BY <1>6 DEF LimitOf
  <2> QED BY <1>10, <1>11, <2>0, <2>1, <2>2, <2>3, MoreToRead
<1>13. (n2 = g \/ PastFin(d, n2, s)) /\ n <= n2
  <2>0. n2 = Plus(n, Len(data)) BY <1>0
  <2>1. CASE n = f
    <3>1. PICK e \in Nat : e = Len(data) /\ f + e = g BY <1>10
    <3>2. f + e <= IntMax
      <4>1. PICK a \in Nat : a = s.accepted BY <1>2
      <4>2. B <= Iss + 1 + a /\ Iss + 1 + a + 2 <= IntMax BY <1>2, <4>1
      <4> QED BY ONLY <1>2, <1>10, <3>1, <4>2, a \in Nat, B \in Nat, e \in Nat, f \in Nat, g \in Nat
    <3>3. n2 = f + e BY <1>2, <2>0, <2>1, <3>1, <3>2, SmallPlus
    <3>4. n2 = g BY <3>1, <3>3
    <3> QED BY <1>5, <1>10, <2>1, <3>4
  <2>2. CASE n # f
    <3>1. PastFin(w, n, s) BY <1>3, <1>5, <2>2 DEF InOrder
    <3>2. u.packets = <<>> BY <1>0, <1>8, <2>2
    <3>3. u \in Buffers BY <1>8 DEF ListOf
    <3>4. data = <<>> BY <1>0, <3>2, <3>3, NothingToMove
    <3>5. Len(data) = 0 BY <3>4, EmptySeq
    <3>6. n <= IntMax BY <1>2, <3>1 DEF PastFin
    <3>7. n2 = n BY <1>2, <2>0, <3>5, <3>6, SmallPlus
    <3>8. d.first = w.first BY <1>5, <1>10, <3>5
    <3> QED BY <3>1, <3>7, <3>8 DEF PastFin
  <2> QED BY <2>1, <2>2
<1>14. d.started = TRUE /\ ListOf(d, P, B) BY <1>3, <1>8, <1>9 DEF Moved, InOrder
<1>15. InOrder(d, n2, D, R2, x, s, P)
  <2>1. u \in Buffers BY <1>8 DEF ListOf
  <2>2. Ahead(d) BY <1>0, <2>1, HoleAhead
  <2> QED BY <1>1, <1>10, <1>12, <1>13, <1>14, <2>2 DEF InOrder
<1>16. Room(d, v2, R2, x)
  <2>1. R \in Seq(Nat) /\ x \in 0 .. Len(R) /\ v \in 0 .. MaxReceiveWindow
        /\ v + (Len(R) - x) + size(w) = MaxReceiveWindow
    BY DEF Room
  <2>2. PICK l \in Nat : l = Len(R) BY <2>1
  <2>3. PICK e \in Nat : e = Len(data) BY <1>11
  <2>4. PICK i \in Nat : i = size(d) BY <1>9 DEF Moved
  <2>5. size(u) = i + e BY <1>9, <2>3, <2>4 DEF Moved
  <2>6. PICK z \in Nat : z = x /\ z <= l BY <2>1, <2>2
  <2>7. MaxReceiveWindow \in Nat BY Constants DEF Sends
  <2>8. PICK j \in Nat : j = size(w) BY <1>8
  <2>9. j + k = i + e BY <1>8, <2>5, <2>8
  <2>10. v \in Nat /\ v + (l - z) + j = MaxReceiveWindow BY <2>1, <2>2, <2>6, <2>7, <2>8
  <2>11. PICK y \in 0 .. MaxReceiveWindow : y = v - k BY <1>0, <1>8, <2>4, <2>3, <2>6, <2>7, <2>9, <2>10
  <2>12. v2 = y BY <1>0, <2>7, <2>11, UShortSame
  <2>13. R2 \in Seq(Nat) /\ Len(R2) = l + e BY <1>0, <1>11, <2>1, <2>2, <2>3
  <2>14. y + ((l + e) - z) + i = MaxReceiveWindow
    <3>1. k \in Int /\ j + k = i + e BY <1>8, <2>9
    <3>2. y \in Nat /\ y = v - k BY <2>7, <2>11
    <3>3. v = y + k BY <2>10, <3>1, <3>2
    <3>4. (y + k) + (l - z) + j = MaxReceiveWindow BY <2>10, <3>3
    <3> QED BY ONLY <3>1, <3>2, <3>4, l \in Nat, z \in Nat, e \in Nat, i \in Nat, j \in Nat
  <2>15. x \in 0 .. Len(R2) BY <2>6, <2>13
  <2>16. d \in Buffers BY <1>14 DEF ListOf
  <2> QED BY <2>4, <2>6, <2>12, <2>13, <2>14, <2>15, <2>16 DEF Room
<1> QED BY <1>13, <1>15, <1>16

\* The first byte wanted is RCV.NXT, unless the FIN has been counted: then the
\* buffer is empty and stays so.
LEMMA FrontRight ==
    ASSUME NEW s, NEW P, Sends(s, P), NEW w, NEW n \in Nat, NEW D, NEW R, NEW x,
           InOrder(w, n, D, R, x, s, P), NEW p, SentOK(p, s, n, P), p.data # <<>>,
           NEW u, u = insert(w, p)
    PROVE  u.packets = <<>> \/ u.first = n
<1>1. PICK B \in Nat : B = Limit(s) BY SendsType
<1>2. Iss \in Nat /\ s.accepted \in Nat /\ B <= Iss + 1 + s.accepted /\ (Iss + 1 <= B => LimitOf(P, B))
  BY <1>1, SendsType
<1>3. ListOf(w, P, B) BY <1>1 DEF InOrder
<1>4. w \in Buffers BY <1>3 DEF ListOf
<1>5. PICK f \in Nat : f = w.first /\ Iss + 1 <= f /\ f <= B
  <2>1. w.first \in Nat BY <1>4 DEF Buffers, SeqNum
  <2> QED BY <1>3, <2>1 DEF ListOf
<1>6. LimitOf(P, B) BY <1>2, <1>5
<1>7. p \in Packets /\ DataOf(p, P, B) BY <1>1 DEF SentOK
<1>8. CASE n = f
  <2>1. Insertion(w, insert(w, p), num_inserted(w, p), P, B) BY ONLY <1>3, <1>6, <1>7, Inserted
  <2> QED BY <1>5, <1>8, <2>1 DEF Insertion
<1>9. CASE n # f
  <2>1. f = Iss + 1 + s.accepted BY <1>5, <1>9 DEF InOrder, PastFin
  <2>2. f = B BY <1>2, <1>5, <2>1
  <2>3. w.packets = <<>>
    <3>1. SUFFICES ASSUME w.packets # <<>> PROVE FALSE OBVIOUS
    <3>2. PICK q \in Seq(Packets) : q = w.packets BY <1>4 DEF Buffers
    <3>3. Len(q) \in Nat /\ 1 \in 1 .. Len(q) BY <3>1, <3>2
    <3>4. q[1] \in Packets BY <3>2, <3>3
    <3>5. DataOf(q[1], P, B) BY <1>3, <3>2, <3>3 DEF ListOf
    <3>6. PICK m \in Nat, e \in Nat : /\ m > 0 /\ q[1].seq \in Nat /\ e = q[1].seq + m /\ e <= B
                                      /\ IsGap(f, q[1]) <=> f < q[1].seq
      BY <1>5, <1>6, <3>4, <3>5, PassData
    <3>7. IsGap(f, q[1]) BY <1>5, <3>1, <3>2 DEF InOrder, Ahead
    <3>8. PICK z \in Nat : z = q[1].seq BY <3>6
    <3>9. f < z /\ z + m <= f BY <2>2, <3>6, <3>7, <3>8
    <3> QED BY <3>6, <3>9
  <2>4. insert(w, p) = w BY <1>3, <1>5, <1>6, <1>7, <2>2, <2>3, OldIntoEmpty
  <2> QED BY <2>3, <2>4
<1> QED BY <1>8, <1>9

\* Bytes of the receive buffer R are handed out, from place x to y.
ReadMoves(v, D, R, x, y, v2, E) ==
    /\ R # <<>> /\ E = D \o SubSeq(R, x + 1, y)
    /\ \E length \in Nat : length <= Len(R) - x /\ y = x + length /\ v2 = UShort(v + length)

\* The application reads length bytes.
LEMMA ReadTaken ==
    ASSUME NEW s, NEW P, Sends(s, P), NEW w, NEW n, NEW v, NEW D, NEW R, NEW x,
           NothingYet(w, n, D, R, x) \/ InOrder(w, n, D, R, x, s, P), Room(w, v, R, x),
           NEW y, NEW v2, NEW E, ReadMoves(v, D, R, x, y, v2, E)
    PROVE  /\ InOrder(w, n, E, R, y, s, P) /\ Room(w, v2, R, y)
           /\ y >= Len(R) => InOrder(w, n, E, <<>>, 0, s, P) /\ Room(w, v2, <<>>, 0)
<1>0. PICK length \in Nat : length <= Len(R) - x /\ y = x + length /\ v2 = UShort(v + length)
  BY DEF ReadMoves
<1>1. InOrder(w, n, D, R, x, s, P) BY DEF NothingYet, ReadMoves
<1>2. R \in Seq(Nat) /\ x \in 0 .. Len(R) /\ v \in 0 .. MaxReceiveWindow /\ size(w) \in Nat
        /\ v + (Len(R) - x) + size(w) = MaxReceiveWindow
  BY DEF Room
<1>3. PICK l \in Nat : l = Len(R) BY <1>2
<1>4. MaxReceiveWindow \in Nat BY Constants DEF Sends
<1>5. PICK z \in Nat : z = x /\ z <= l BY <1>2, <1>3
<1>6. PICK j \in Nat : j = size(w) BY <1>2
<1>7. v \in Nat /\ v + (l - z) + j = MaxReceiveWindow /\ length <= l - z BY <1>0, <1>2, <1>3, <1>4, <1>5, <1>6
<1>8. PICK a \in 0 .. MaxReceiveWindow : a = v + length BY <1>4, <1>5, <1>7
<1>9. v2 = a BY <1>0, <1>4, <1>8, UShortSame
<1>10. y \in x .. Len(R) /\ y \in 0 .. Len(R) BY <1>0, <1>3, <1>5, <1>7
<1>11. a + (l - (z + length)) + j = MaxReceiveWindow BY <1>7, <1>8
<1>12. Room(w, v2, R, y)
  <2>1. v2 + (Len(R) - y) + size(w) = MaxReceiveWindow BY <1>0, <1>3, <1>5, <1>6, <1>9, <1>11
  <2> QED BY <1>2, <1>8, <1>9, <1>10, <2>1 DEF Room
<1>13. /\ ReadUpTo(P, w.first, E, R, y)
       /\ y >= Len(R) => ReadUpTo(P, w.first, E, <<>>, 0)
  <2>1. ReadUpTo(P, w.first, D, R, x) BY <1>1 DEF InOrder
  <2> QED BY <1>10, <2>1, HandOut DEF ReadMoves
<1>14. InOrder(w, n, E, R, y, s, P) BY <1>1, <1>13 DEF InOrder
<1>15. ASSUME y >= Len(R) PROVE InOrder(w, n, E, <<>>, 0, s, P) /\ Room(w, v2, <<>>, 0)
  <2>1. InOrder(w, n, E, <<>>, 0, s, P) BY <1>1, <1>13, <1>15 DEF InOrder
  <2>2. Len(<<>>) = 0 /\ <<>> \in Seq(Nat) BY EmptySeq
  <2>3. z + length = l BY <1>0, <1>3, <1>5, <1>7, <1>15
  <2>4. a + j = MaxReceiveWindow BY <1>11, <2>3
  <2>5. v2 + (Len(<<>>) - 0) + size(w) = MaxReceiveWindow BY <1>6, <1>9, <2>2, <2>4
  <2>6. 0 \in 0 .. Len(<<>>) BY <2>2
  <2>7. w \in Buffers BY DEF Room
  <2> QED BY <1>2, <1>8, <1>9, <2>1, <2>2, <2>5, <2>6, <2>7 DEF Room
<1> QED BY <1>12, <1>14, <1>15

-------------------------------------------------------------------------------
\* The handlers of the receiver.

\* What the receiver c has of the stream of s.
Received(c, s, P) ==
    LET rc == c.rc
    IN /\ \/ NothingYet(rc.receive_window, rc.rcv_nxt, c.delivered, c.receive_buffer, rc.receive_index)
          \/ InOrder(rc.receive_window, rc.rcv_nxt, c.delivered, c.receive_buffer, rc.receive_index, s, P)
       /\ Room(rc.receive_window, rc.rcv_wnd, c.receive_buffer, rc.receive_index)
       /\ rc.receive_event \in Nat /\ rc.rcv_nxt \in Nat

\* d is c but for what the reliability context has received, and the queue.
Takes(c, d) ==
    /\ Shape(d) /\ AbortKept(c, d) /\ d.state = c.state /\ d.delivered = c.delivered
    /\ d.accepted = c.accepted /\ d.closed = c.closed /\ d.send_buffer = c.send_buffer
    /\ d.saved_send = c.saved_send /\ d.saved_fin = c.saved_fin /\ d.redispatched = c.redispatched
    /\ d.rc.snd_una = c.rc.snd_una /\ d.rc.snd_max = c.rc.snd_max

\* Two steps.
LEMMA TakesTrans ==
    ASSUME NEW c, NEW d, NEW e, Takes(c, d), Takes(d, e)
    PROVE  Takes(c, e)
BY DEF Takes, AbortKept

\* An event, and an assertion.
LEMMA TakesBasics ==
    ASSUME NEW c, Shape(c)
    PROVE  /\ Takes(c, c)
           /\ \A event : LET d == enqueue(c, event) IN
                 Takes(c, d) /\ d.rc = c.rc /\ d.receive_buffer = c.receive_buffer /\ d.aborted = c.aborted
           /\ LET d == create_and_dispatch_ack(c) IN
                 Takes(c, d) /\ d.rc = c.rc /\ d.receive_buffer = c.receive_buffer /\ d.aborted = c.aborted
           /\ \A test, where : LET d == Require(c, test, where) IN
                 /\ Takes(c, d) /\ d.rc = c.rc /\ d.receive_buffer = c.receive_buffer
                 /\ d.aborted \in {c.aborted, where} /\ (test => d.aborted = c.aborted)
<1>1. Takes(c, c) BY DEF Takes, AbortKept
<1>2. ASSUME NEW event
      PROVE  LET d == enqueue(c, event) IN
             Takes(c, d) /\ d.rc = c.rc /\ d.receive_buffer = c.receive_buffer /\ d.aborted = c.aborted
  BY DEF Takes, AbortKept, enqueue, Shape
<1>3. LET d == create_and_dispatch_ack(c) IN
      Takes(c, d) /\ d.rc = c.rc /\ d.receive_buffer = c.receive_buffer /\ d.aborted = c.aborted
  BY DEF Takes, AbortKept, create_and_dispatch_ack, enqueue_send, Shape
<1>4. ASSUME NEW test, NEW where
      PROVE  LET d == Require(c, test, where) IN
             /\ Takes(c, d) /\ d.rc = c.rc /\ d.receive_buffer = c.receive_buffer
             /\ d.aborted \in {c.aborted, where} /\ (test => d.aborted = c.aborted)
  BY DEF Takes, AbortKept, Require, Abort, Shape, None
<1> QED BY <1>1, <1>2, <1>3, <1>4

\* An assertion that held.
LEMMA Required ==
    ASSUME NEW c, Shape(c), NEW test, NEW where, where # None, Require(c, test, where).aborted = None
    PROVE  test = TRUE /\ c.aborted = None
BY DEF Require, Abort, Shape

\* No other assertion than the excepted ones has failed, and data comes behind the SYN.
Checkable(c, p) == c.aborted \in Excepted /\ (p.data # <<>> => c.rc.rcv_nxt # 0)

\* p is no SYN that comes after n has gone beyond it.
NotOld(p, n) == p.syn => n <= Plus(p.seq, 1)

\* A SYN or a FIN.
LEMMA ControlReceived ==
    ASSUME NEW c, Shape(c), NEW s, NEW P, Sends(s, P), Received(c, s, P),
           NEW p, SentOK(p, s, c.rc.rcv_nxt, P), p.syn \/ p.fin,
           NEW d, d = handle_control_bits(c, p), NotOld(p, c.rc.rcv_nxt)
    PROVE  Takes(c, d) /\ Received(d, s, P) /\ c.rc.rcv_nxt <= d.rc.rcv_nxt /\ d.aborted = c.aborted
<1>1. PICK m : m = Plus(p.seq, 1) OBVIOUS
<1>2. PICK e : e = [c EXCEPT !.rc.rcv_nxt = m] OBVIOUS
<1>3. /\ Takes(c, e) /\ e.rc.rcv_nxt = m /\ e.rc.rcv_wnd = c.rc.rcv_wnd
      /\ e.rc.receive_event = c.rc.receive_event /\ e.rc.receive_index = c.rc.receive_index
      /\ e.rc.receive_window = c.rc.receive_window /\ e.receive_buffer = c.receive_buffer
      /\ e.aborted = c.aborted
  BY <1>2 DEF Takes, AbortKept, Shape
<1>4. PICK u : u = set_first_sequence_number(c.rc.receive_window, m) OBVIOUS
<1>5. PICK f : f = [e EXCEPT !.rc.receive_window = u] OBVIOUS
<1>6. /\ Takes(e, f) /\ f.rc.rcv_nxt = m /\ f.rc.rcv_wnd = e.rc.rcv_wnd
      /\ f.rc.receive_event = e.rc.receive_event /\ f.rc.receive_index = e.rc.receive_index
      /\ f.rc.receive_window = u /\ f.receive_buffer = e.receive_buffer /\ f.aborted = e.aborted
  BY <1>3, <1>5 DEF Takes, AbortKept, Shape
<1>7. d = IF p.syn THEN f ELSE e
  <2>1. f = [e EXCEPT !.rc.receive_window = set_first_sequence_number(@, m)] BY <1>3, <1>4, <1>5
  <2> QED BY <1>1, <1>2, <2>1 DEF handle_control_bits
<1>8. PICK n \in Nat : n = c.rc.rcv_nxt BY DEF Received
<1>9. PICK w, v, D, R, x : /\ w = c.rc.receive_window /\ v = c.rc.rcv_wnd /\ D = c.delivered
                           /\ R = c.receive_buffer /\ x = c.rc.receive_index
  OBVIOUS
<1>10. (NothingYet(w, n, D, R, x) \/ InOrder(w, n, D, R, x, s, P)) /\ Room(w, v, R, x) /\ SentOK(p, s, n, P)
  BY <1>8, <1>9 DEF Received
<1>11. m \in Nat
  <2>1. p.seq \in Int BY <1>10, SeqNumInt DEF SentOK, Packets
  <2>2. m \in SeqNum BY <1>1, <2>1, PlusType
  <2> QED BY <2>2 DEF SeqNum
<1>12. CASE p.syn
  <2>1. d = f BY <1>7, <1>12
  <2>2. n <= m BY <1>1, <1>8, <1>12 DEF NotOld
  <2>3. InOrder(u, m, D, R, x, s, P) /\ Room(u, v, R, x) BY <1>1, <1>4, <1>9, <1>10, <1>12, <2>2, SynTaken
  <2>4. Takes(c, f) BY <1>3, <1>6, TakesTrans
  <2>5. f.delivered = D BY <1>9, <2>4 DEF Takes
  <2>6. Received(d, s, P) BY <1>3, <1>6, <1>9, <1>11, <2>1, <2>3, <2>4, <2>5 DEF Received
  <2> QED BY <1>3, <1>6, <1>8, <2>1, <2>2, <2>4, <2>6
<1>13. CASE ~p.syn
  <2>1. d = e /\ p.fin BY <1>7, <1>13
  <2>2. InOrder(w, m, D, R, x, s, P) /\ n <= m BY <1>1, <1>10, <2>1, FinCounted
  <2>3. e.delivered = D BY <1>3, <1>9 DEF Takes
  <2>4. Received(d, s, P) BY <1>3, <1>9, <1>10, <1>11, <2>1, <2>2, <2>3 DEF Received
  <2> QED BY <1>3, <1>8, <2>1, <2>2, <2>4
<1> QED BY <1>12, <1>13

\* The data of a packet: only the test for room may fail.
LEMMA DataReceived ==
    ASSUME NEW c, Shape(c), NEW s, NEW P, Sends(s, P), Received(c, s, P),
           NEW p, SentOK(p, s, c.rc.rcv_nxt, P), p.data # <<>>,
           NEW t, t = handle_data(c, p)
    PROVE  /\ t.aborted = None => Takes(c, t) /\ Received(t, s, P) /\ c.rc.rcv_nxt <= t.rc.rcv_nxt
           /\ Checkable(c, p) => t.aborted \in Excepted
<1>1. PICK n \in Nat : n = c.rc.rcv_nxt BY DEF Received
<1>2. PICK w, v, D, R, x : /\ w = c.rc.receive_window /\ v = c.rc.rcv_wnd /\ D = c.delivered
                           /\ R = c.receive_buffer /\ x = c.rc.receive_index
  OBVIOUS
<1>3. (NothingYet(w, n, D, R, x) \/ InOrder(w, n, D, R, x, s, P)) /\ Room(w, v, R, x) /\ SentOK(p, s, n, P)
  BY <1>1, <1>2 DEF Received
<1>4. PICK k : k = num_inserted(w, p) OBVIOUS
<1>5. PICK a : a = Require(c, w.started, "insert_not_started") OBVIOUS
<1>6. Takes(c, a) /\ a.rc = c.rc /\ a.receive_buffer = c.receive_buffer BY <1>5, TakesBasics
<1>7. PICK b : b = Require(a, v >= k, "handle_data_no_room") OBVIOUS
<1>8. Takes(a, b) /\ b.rc = a.rc /\ b.receive_buffer = a.receive_buffer
  <2>1. Shape(a) BY <1>6 DEF Takes
  <2> QED BY <1>7, <2>1, TakesBasics
<1>9. PICK u, y : u = insert(w, p) /\ y = UShort(v - k) OBVIOUS
<1>10. PICK e : e = [b EXCEPT !.rc.rcv_wnd = y, !.rc.receive_window = u] OBVIOUS
<1>11. /\ Takes(b, e) /\ e.rc.rcv_nxt = b.rc.rcv_nxt /\ e.rc.rcv_wnd = y
       /\ e.rc.receive_event = b.rc.receive_event /\ e.rc.receive_index = b.rc.receive_index
       /\ e.rc.receive_window = u /\ e.receive_buffer = b.receive_buffer
       /\ e.aborted = b.aborted
  <2>1. Shape(b) BY <1>8 DEF Takes
  <2> QED BY <1>10, <2>1 DEF Takes, AbortKept, Shape
<1>12. e = insert_data(c, p)
  <2>1. b.rc = c.rc BY <1>6, <1>8
  <2>2. e = [b EXCEPT !.rc.rcv_wnd = UShort(@ - k), !.rc.receive_window = insert(@, p)]
    BY <1>2, <1>9, <1>10, <2>1
  <2> QED BY <1>2, <1>4, <1>5, <1>7, <2>2 DEF insert_data
<1>13. PICK g, data : g = after_continuous_data(u) /\ data = continuous_data(u) OBVIOUS
<1>14. PICK f : f = Require(e, u.packets = <<>> \/ u.first = n, "continuous_data_first") OBVIOUS
<1>15. Takes(e, f) /\ f.rc = e.rc /\ f.receive_buffer = e.receive_buffer
  <2>1. Shape(e) BY <1>11 DEF Takes
  <2> QED BY <1>14, <2>1, TakesBasics
<1>16. PICK m, S : m = Plus(n, Len(data)) /\ S = R \o data OBVIOUS
<1>17. PICK h : h = [f EXCEPT !.rc.receive_window = g, !.rc.rcv_nxt = m, !.receive_buffer = S] OBVIOUS
<1>18. /\ Takes(f, h) /\ h.rc.rcv_nxt = m /\ h.rc.rcv_wnd = f.rc.rcv_wnd
       /\ h.rc.receive_event = f.rc.receive_event /\ h.rc.receive_index = f.rc.receive_index
       /\ h.rc.receive_window = g /\ h.receive_buffer = S /\ h.aborted = f.aborted
  <2>1. Shape(f) BY <1>15 DEF Takes
  <2> QED BY <1>17, <2>1 DEF Takes, AbortKept, Shape
<1>19. PICK i : i = enqueue(h, "receive_buffer_not_empty") OBVIOUS
<1>20. /\ Shape(h) /\ Takes(h, i) /\ i.rc = h.rc /\ i.receive_buffer = h.receive_buffer
       /\ i.aborted = h.aborted
  <2>1. Shape(h) BY <1>18 DEF Takes
  <2> QED BY <1>19, <2>1, TakesBasics
<1>21. PICK j \in {i, h} : j = take_continuous_data(insert_data(c, p))
  <2>1. e.rc.receive_window = u /\ e.rc.rcv_nxt = n BY <1>1, <1>6, <1>8, <1>11
  <2>2. f.rc.rcv_nxt = n /\ f.receive_buffer = R /\ f.rc.receive_window = u
    BY <1>2, <1>6, <1>8, <1>11, <1>15, <2>1
  <2>3. h = [f EXCEPT !.rc.receive_window = after_continuous_data(@),
                      !.rc.rcv_nxt = Plus(@, Len(data)), !.receive_buffer = @ \o data]
    BY <1>13, <1>16, <1>17, <2>2
  <2>4. take_continuous_data(e) = IF data # <<>> THEN i ELSE h
    BY <1>13, <1>14, <1>19, <2>1, <2>3 DEF take_continuous_data
  <2> QED BY <1>12, <2>4
<1>22. Takes(h, j) /\ j.rc = h.rc /\ j.receive_buffer = h.receive_buffer /\ j.aborted = h.aborted
  BY <1>20, TakesBasics
<1>23. Takes(j, t) /\ t.rc = j.rc /\ t.receive_buffer = j.receive_buffer /\ t.aborted = j.aborted
  <2>1. Shape(j) BY <1>22 DEF Takes
  <2>2. t = create_and_dispatch_ack(j) BY <1>21 DEF handle_data
  <2> QED BY <2>1, <2>2, TakesBasics
<1>24. Takes(c, t)
  <2>1. Takes(c, b) BY <1>6, <1>8, TakesTrans
  <2>2. Takes(c, e) BY <1>11, <2>1, TakesTrans
  <2>3. Takes(c, f) BY <1>15, <2>2, TakesTrans
  <2>4. Takes(c, h) BY <1>18, <2>3, TakesTrans
  <2>5. Takes(c, j) BY <1>22, <2>4, TakesTrans
  <2> QED BY <1>23, <2>5, TakesTrans
<1>25. ASSUME t.aborted = None PROVE Takes(c, t) /\ Received(t, s, P) /\ c.rc.rcv_nxt <= t.rc.rcv_nxt
  <2>1. w.started /\ v >= k /\ (u.packets = <<>> \/ u.first = n)
    <3>1. f.aborted = None BY <1>18, <1>22, <1>23, <1>25
    <3>2. Shape(e) /\ Shape(a) BY <1>6, <1>11 DEF Takes
    <3>3. (u.packets = <<>> \/ u.first = n) /\ e.aborted = None
      BY <1>14, <3>1, <3>2, Required DEF None
    <3>4. b.aborted = None BY <1>11, <3>3
    <3>5. (v >= k) = TRUE /\ a.aborted = None BY <1>7, <3>2, <3>4, Required DEF None
    <3>6. w.started = TRUE BY <1>5, <3>5, Required DEF None
    <3> QED BY <3>3, <3>5, <3>6
  <2>2. InOrder(g, m, D, S, x, s, P) /\ Room(g, y, S, x) /\ n <= m
    <3>1. DataMoves(w, n, v, R, p, g, m, y, S) BY <1>4, <1>9, <1>13, <1>16, <2>1 DEF DataMoves
    <3> QED BY <1>3, <3>1, DataTaken
  <2>3. /\ t.rc.receive_window = g /\ t.rc.rcv_nxt = m /\ t.rc.rcv_wnd = y /\ t.receive_buffer = S
         /\ t.rc.receive_index = x /\ t.rc.receive_event = c.rc.receive_event /\ t.delivered = D
    <3>1. t.rc = h.rc BY <1>22, <1>23
    <3>2. f.rc.rcv_wnd = y /\ f.rc.receive_index = x /\ f.rc.receive_event = c.rc.receive_event
      BY <1>2, <1>6, <1>8, <1>11, <1>15
    <3> QED BY <1>2, <1>18, <1>22, <1>23, <1>24, <3>1, <3>2 DEF Takes
  <2>4. m \in Nat
    <3>1. PICK l \in Int : l = Len(data)
      <4>1. u \in Buffers
        <5>1. w \in Buffers /\ p \in Packets BY <1>3 DEF Room, SentOK
        <5> QED BY <1>9, <5>1, InsertType
      <4>2. data \in Seq(Nat) BY <1>13, <4>1, ScanType
      <4> QED BY <4>2
    <3>2. m \in SeqNum BY <1>16, <3>1, PlusType
    <3> QED BY <3>2 DEF SeqNum
  <2>5. Received(t, s, P) BY <2>2, <2>3, <2>4 DEF Received
  <2>6. c.rc.rcv_nxt <= t.rc.rcv_nxt BY <1>1, <2>2, <2>3
  <2> QED BY <1>24, <2>5, <2>6
<1>26. ASSUME Checkable(c, p) PROVE t.aborted \in Excepted
  <2>1. n # 0 BY <1>1, <1>26 DEF Checkable
  <2>2. InOrder(w, n, D, R, x, s, P) BY <1>3, <2>1 DEF NothingYet
  <2>3. w.started = TRUE BY <2>2 DEF InOrder
  <2>4. a.aborted = c.aborted BY <1>5, <2>3, TakesBasics
  <2>5. b.aborted \in {c.aborted, "handle_data_no_room"}
    <3>1. Shape(a) BY <1>6 DEF Takes
    <3> QED BY <1>7, <2>4, <3>1, TakesBasics
  <2>6. u.packets = <<>> \/ u.first = n BY <1>3, <1>9, <2>2, FrontRight
  <2>7. f.aborted = e.aborted
    <3>1. f = e BY <1>14, <2>6 DEF Require
    <3> QED BY <3>1
  <2>8. t.aborted = b.aborted BY <1>11, <1>18, <1>22, <1>23, <2>7
  <2> QED BY <1>26, <2>5, <2>8 DEF Checkable, Excepted
<1> QED BY <1>25, <1>26

\* Either of the two, or a packet with nothing of its own.
LEMMA ControlAndDataReceived ==
    ASSUME NEW c, Shape(c), NEW s, NEW P, Sends(s, P), Received(c, s, P),
           NEW p, SentOK(p, s, c.rc.rcv_nxt, P),
           NEW t, t = handle_control_bits_and_data(c, p), NotOld(p, c.rc.rcv_nxt)
    PROVE  /\ t.aborted = None => Takes(c, t) /\ Received(t, s, P) /\ c.rc.rcv_nxt <= t.rc.rcv_nxt
           /\ Checkable(c, p) => t.aborted \in Excepted
<1>1. CASE p.syn \/ p.fin
  <2>1. t = handle_control_bits(c, p) BY <1>1 DEF handle_control_bits_and_data
  <2>2. Takes(c, t) /\ Received(t, s, P) /\ c.rc.rcv_nxt <= t.rc.rcv_nxt /\ t.aborted = c.aborted
    BY <1>1, <2>1, ControlReceived
  <2> QED BY <2>2 DEF Checkable
<1>2. CASE ~(p.syn \/ p.fin) /\ p.data # <<>>
  <2>1. t = handle_data(c, p) BY <1>2 DEF handle_control_bits_and_data
  <2> QED BY <1>2, <2>1, DataReceived
<1>3. CASE ~(p.syn \/ p.fin) /\ p.data = <<>>
  <2>1. t = c BY <1>3 DEF handle_control_bits_and_data
  <2>2. c.rc.rcv_nxt <= c.rc.rcv_nxt BY DEF Received
  <2> QED BY <2>1, <2>2, TakesBasics DEF Checkable
<1> QED BY <1>1, <1>2, <1>3

\* What a receiver has is the same.
SameIn(c, d) ==
    /\ d.rc.rcv_nxt = c.rc.rcv_nxt /\ d.rc.rcv_wnd = c.rc.rcv_wnd
    /\ d.rc.receive_event = c.rc.receive_event /\ d.rc.receive_index = c.rc.receive_index
    /\ d.rc.receive_window = c.rc.receive_window
    /\ d.receive_buffer = c.receive_buffer /\ d.delivered = c.delivered

\* It stays in order.
LEMMA ReceivedSame ==
    ASSUME NEW c, NEW d, NEW s, NEW P, Received(c, s, P), SameIn(c, d)
    PROVE  Received(d, s, P)
BY DEF Received, SameIn

\* From c to d p may move SND.UNA, beyond the SYN; the first valid acknowledgement does.
UnaMoves(c, d, p) ==
    /\ d.rc.snd_una = c.rc.snd_una \/ (p.ack /\ d.rc.snd_una = p.ackno /\ d.rc.snd_una > Iss)
    /\ p.ack /\ is_valid_ack_number(c, p) /\ AckNo(p) => d.rc.snd_una > Iss

\* d is c after an acknowledgement.
AckSeen(c, d, p) ==
    /\ Shape(d) /\ d.aborted = c.aborted /\ SameIn(c, d) /\ d.state = c.state
    /\ d.accepted = c.accepted /\ d.closed = c.closed
    /\ d.saved_send = c.saved_send /\ d.saved_fin = c.saved_fin /\ d.redispatched = c.redispatched
    /\ Len(d.send_buffer) \in Nat /\ d.rc.snd_max = c.rc.snd_max
    /\ UnaMoves(c, d, p)

\* A sender in order, or a packet without an acknowledgement.
MayAck(c, Q, p) ==
    /\ Shape(c) /\ Len(c.send_buffer) \in Nat
    /\ (StreamsFit /\ StreamFits(Q) /\ HostOK(c, Q)) \/ ~p.ack

\* Duplicates are counted.
LEMMA CountSeen ==
    ASSUME NEW c, Shape(c), NEW p
    PROVE  LET b == CountDuplicate(c, p) IN
           /\ Shape(b) /\ b.aborted = c.aborted /\ SameIn(c, b) /\ b.state = c.state
           /\ b.accepted = c.accepted /\ b.closed = c.closed
           /\ b.saved_send = c.saved_send /\ b.saved_fin = c.saved_fin /\ b.redispatched = c.redispatched
           /\ b.send_buffer = c.send_buffer /\ b.rc.snd_max = c.rc.snd_max
           /\ b.rc.snd_una = c.rc.snd_una
BY DEF CountDuplicate, Shape, SameIn

\* handle_ack().
LEMMA HandleAckSeen ==
    ASSUME NEW c, NEW Q, NEW p \in Packets, MayAck(c, Q, p)
    PROVE  AckSeen(c, handle_ack(c, p), p)
<1>1. Shape(c) /\ Len(c.send_buffer) \in Nat BY DEF MayAck
<1>2. ASSUME UnaMoves(c, c, p) PROVE AckSeen(c, c, p) BY <1>1, <1>2 DEF AckSeen, SameIn
<1>3. CASE ~p.ack
  <2>1. handle_ack(c, p) = c BY <1>3 DEF handle_ack
  <2>2. UnaMoves(c, c, p) BY <1>3 DEF UnaMoves
  <2> QED BY <1>2, <2>1, <2>2
<1>4. CASE p.ack
  <2>1. StreamsFit /\ StreamFits(Q) /\ HostOK(c, Q) BY <1>4 DEF MayAck
  <2>2. SenderOK(c, Q) BY <2>1 DEF HostOK
  <2>3. PICK u \in Nat : u = c.rc.snd_una BY <2>2 DEF SenderOK, Counters
  <2>4. PICK n \in Nat : n = c.rc.snd_nxt BY <2>2 DEF SenderOK, Counters
  <2>5. PICK m \in Nat : m = c.rc.snd_max BY <2>2 DEF SenderOK, Counters
  <2>6. u <= n /\ n <= m /\ u <= m /\ m <= IntMax
    <3>1. IntMax \in Nat BY <2>1, Constants
    <3>2. PICK e \in Nat : e = BufferEnd(c) BY <2>1, <2>2, SenderRange
    <3>3. e + 1 <= IntMax BY <2>1, <2>2, <3>2, SenderRange
    <3>4. u <= n /\ n <= m /\ m <= e BY <2>2, <2>3, <2>4, <2>5, <3>2 DEF SenderOK, Counters
    <3> QED BY <3>1, <3>3, <3>4
  <2>9. Iss \in Nat /\ Iss > 0 /\ Iss <= u BY <2>1, <2>2, <2>3, Constants DEF SenderOK, Counters
  <2>7. CASE between_equal_right(c.rc.snd_una, p.ackno, c.rc.snd_max)
    <3>1. p.ackno \in SeqNum BY DEF Packets
    <3>2. PICK A \in Nat : A = p.ackno BY <3>1 DEF SeqNum
    <3>3. u < A /\ A <= m BY <2>3, <2>5, <2>6, <2>7, <3>1, <3>2, AckRange
    <3>4. PICK d : d = handle_valid_ack(c, p) OBVIOUS
    <3>5. u <= A BY <3>3
    <3>6. AckTaken(c, d, A) BY <1>1, <2>3, <2>4, <2>5, <2>6, <3>2, <3>3, <3>4, <3>5, ValidAckTaken
    <3>7. d.delivered = c.delivered
      BY <1>1, <3>4 DEF handle_valid_ack, enqueue, cancel_timer, reset_timer, start_timer, Shape
    <3>8. Len(d.send_buffer) \in Nat
      <4>1. c.send_buffer \in Seq(Nat) BY <2>2 DEF SenderOK, Bytes
      <4>2. PICK B \in Seq(Nat) : B = c.send_buffer BY <4>1
      <4>3. PICK k \in Int : k = (A - u) + 1 /\ k >= 1 BY <3>5
      <4>4. SubSeq(B, k, Len(B)) \in Seq(Nat) BY <4>3
      <4>5. d.send_buffer = SubSeq(B, k, Len(B)) BY <2>3, <3>6, <4>2, <4>3 DEF AckTaken
      <4> QED BY <4>4, <4>5
    <3>9. AckSeen(c, d, p)
      <4>1. d.rc.snd_una = A /\ A > Iss BY <2>9, <3>3, <3>6 DEF AckTaken
      <4>2. UnaMoves(c, d, p) BY <1>4, <3>2, <4>1 DEF UnaMoves
      <4> QED BY <3>6, <3>7, <3>8, <4>2 DEF AckTaken, AckSeen, SameIn, SameReceive, SameState, SameCalls
    <3>10. handle_ack(c, p) = d
      <4>1. A <= IntMax /\ u <= IntMax BY <2>1, <2>6, <3>3, Constants
      <4>2. ~less_than(A, u) BY <3>5, <4>1, SmallLess
      <4>3. A # u BY <3>3
      <4>4. ~between_equal_left(p.ackno, c.rc.snd_una, c.rc.snd_nxt)
        BY <2>3, <3>2, <4>2, <4>3 DEF between_equal_left, less_than_or_equal
      <4> QED BY <1>4, <2>7, <3>4, <4>4 DEF handle_ack
    <3> QED BY <3>9, <3>10
  <2>8. CASE ~between_equal_right(c.rc.snd_una, p.ackno, c.rc.snd_max)
    <3>1. PICK b : b = CountDuplicate(c, p) OBVIOUS
    <3>2. PICK t : t = resend_data(b) OBVIOUS
    <3>3. /\ Shape(b) /\ b.aborted = c.aborted /\ SameIn(c, b) /\ b.state = c.state
          /\ b.accepted = c.accepted /\ b.closed = c.closed
          /\ b.saved_send = c.saved_send /\ b.saved_fin = c.saved_fin /\ b.redispatched = c.redispatched
          /\ b.send_buffer = c.send_buffer /\ b.rc.snd_max = c.rc.snd_max
          /\ b.rc.snd_una = c.rc.snd_una
      BY <1>1, <3>1, CountSeen
    <3>3a. ASSUME NEW d, d.rc.snd_una = c.rc.snd_una PROVE UnaMoves(c, d, p)
      <4>1. ASSUME is_valid_ack_number(c, p), AckNo(p) PROVE u > Iss
        <5>1. p.ackno = u
          <6>1. less_than_or_equal(c.rc.snd_una, p.ackno) /\ less_than_or_equal(p.ackno, c.rc.snd_max)
            BY <4>1 DEF is_valid_ack_number, between_equal
          <6> QED BY <2>3, <2>8, <6>1 DEF between_equal_right, less_than_or_equal
        <5> QED BY <2>9, <4>1, <5>1 DEF AckNo
      <4> QED BY <2>3, <3>3a, <4>1 DEF UnaMoves
    <3>4. AckSeen(c, b, p)
      <4>1. UnaMoves(c, b, p) BY <3>3, <3>3a
      <4> QED BY <1>1, <3>3, <4>1 DEF AckSeen
    <3>5. AckSeen(c, t, p)
      <4>1. /\ Shape(t) /\ SameCalls(b, t) /\ SameState(b, t) /\ SameReceive(b, t)
            /\ t.send_buffer = b.send_buffer /\ t.accepted = b.accepted /\ t.saved_send = b.saved_send
            /\ t.rc.snd_una = b.rc.snd_una /\ t.rc.snd_max = b.rc.snd_max
            /\ t.aborted = b.aborted
        BY <2>3, <2>5, <2>6, <3>2, <3>3, ResendData
      <4>2. t.delivered = b.delivered BY <3>2, <3>3 DEF resend_data, enqueue, Shape
      <4>3. UnaMoves(c, t, p) BY <3>3, <3>3a, <4>1
      <4> QED BY <1>1, <3>3, <4>1, <4>2, <4>3 DEF AckSeen, SameIn, SameReceive, SameState, SameCalls
    <3>6. handle_ack(c, p) \in {c, b, t}
      <4>1. handle_duplicate_ack(c, p) \in {b, t} BY Zenon, <3>1, <3>2 DEF handle_duplicate_ack
      <4>2. handle_ack(c, p) \in {c, handle_duplicate_ack(c, p)} BY <1>4, <2>8 DEF handle_ack
      <4> QED BY <4>1, <4>2
    <3>7. AckSeen(c, c, p) BY <1>2, <3>3a
    <3> QED BY <3>4, <3>5, <3>6, <3>7
  <2> QED BY <2>7, <2>8
<1> QED BY <1>3, <1>4

\* What has been delivered is the beginning of P, with no more bytes than f counts,
\* and all of those when nothing waits.
LEMMA DeliveredSoFar ==
    ASSUME NEW P \in Seq(Nat), Iss \in Nat, NEW f, InStream(P, f), NEW D, NEW R, NEW x, ReadUpTo(P, f, D, R, x)
    PROVE  /\ Len(D) \in Nat /\ Len(D) <= f - (Iss + 1) /\ Len(D) <= Len(P) /\ IsPrefix(D, P)
           /\ x = Len(R) => Len(D) = f - (Iss + 1)
<1>1. D \in Seq(Nat) /\ R \in Seq(Nat) /\ x \in 0 .. Len(R) BY DEF ReadUpTo
<1>2. PICK d \in Nat : d = Len(D) BY <1>1
<1>3. PICK l \in Nat : l = Len(R) BY <1>1
<1>4. PICK g \in Nat : g = Len(P) OBVIOUS
<1>5. PICK z \in Nat : z = x /\ z <= l BY <1>1, <1>3
<1>6. PICK U \in Seq(Nat) : U = SubSeq(R, x + 1, Len(R)) /\ Len(U) = l - z
  <2>1. x + 1 \in 1 .. Len(R) + 1 /\ Len(R) \in (x + 1) - 1 .. Len(R) BY <1>3, <1>5
  <2>2. SubSeq(R, x + 1, Len(R)) \in Seq(Nat) /\ Len(SubSeq(R, x + 1, Len(R))) = Len(R) - (x + 1) + 1
    BY <1>1, <2>1, Cut
  <2>3. Len(R) - (x + 1) + 1 = l - z BY <1>3, <1>5
  <2> QED BY <2>2, <2>3
<1>7. PICK n \in Nat : n = f - (Iss + 1) /\ f \in Nat /\ n <= g BY <1>4 DEF InStream
<1>8. PICK T \in Seq(Nat) : /\ T = Slice(P, Iss + 1, f) /\ Len(T) = n
                            /\ \A k \in 1 .. n : T[k] = P[k]
  <2>1. InStream(P, Iss + 1) /\ Iss + 1 <= f BY <1>4 DEF InStream
  <2>2. Slice(P, Iss + 1, f) \in Seq(Nat) /\ Len(Slice(P, Iss + 1, f)) = f - (Iss + 1)
        /\ \A k \in 1 .. (f - (Iss + 1)) : Slice(P, Iss + 1, f)[k] = P[((Iss + 1) - Iss) + k - 1]
    BY <2>1, SliceType
  <2> QED BY <1>7, <2>2
<1>9. D \o U = T BY <1>6, <1>8 DEF ReadUpTo
<1>10. n = d + (l - z)
  <2>1. Len(D \o U) = Len(D) + Len(U) BY <1>1, <1>6
  <2> QED BY <1>2, <1>6, <1>8, <1>9, <2>1
<1>11. d <= n /\ d <= g BY <1>5, <1>7, <1>10
<1>12. \A k \in 1 .. d : D[k] = P[k]
  <2>1. ASSUME NEW k \in 1 .. d PROVE D[k] = P[k]
    <3>1. (D \o U)[k] = D[k] BY <1>1, <1>2, <1>6, <2>1
    <3>2. k \in 1 .. n BY <1>11, <2>1
    <3> QED BY <1>8, <1>9, <3>1, <3>2
  <2> QED BY <2>1
<1>13. IsPrefix(D, P)
  <2>1. PICK V \in Seq(Nat) : V = SubSeq(P, 1, d) /\ Len(V) = d /\ \A k \in 1 .. d : V[k] = P[k]
    <3>1. 1 \in 1 .. Len(P) + 1 /\ d \in 1 - 1 .. Len(P) BY <1>4, <1>11
    <3>2. SubSeq(P, 1, d) \in Seq(Nat) /\ Len(SubSeq(P, 1, d)) = d - 1 + 1
          /\ \A k \in 1 .. (d - 1 + 1) : SubSeq(P, 1, d)[k] = P[1 + k - 1]
      BY <3>1, Cut
    <3>3. d - 1 + 1 = d /\ \A k \in 1 .. d : 1 + k - 1 = k OBVIOUS
    <3> QED BY <3>2, <3>3
  <2>2. Len(D) = Len(V) /\ \A k \in 1 .. Len(D) : D[k] = V[k] BY <1>2, <1>12, <2>1
  <2>3. D = V BY <1>1, <2>1, <2>2, SeqEqual
  <2>4. SubSeq(D, 1, Len(D)) = D BY <1>1, SubSeqFull
  <2> QED BY <1>2, <1>4, <1>11, <2>1, <2>3, <2>4 DEF IsPrefix
<1>14. d = n <=> z = l BY <1>5, <1>10
<1> QED BY <1>2, <1>3, <1>4, <1>5, <1>7, <1>11, <1>13, <1>14

\* t is c after a packet p, but for what has been received, the queue, the
\* connection manager and congestion control.
Handled(c, t, p) ==
    /\ DOMAIN t = SocketFields /\ AbortKept(c, t) /\ t.delivered = c.delivered
    /\ t.accepted = c.accepted /\ t.closed = c.closed
    /\ t.saved_send = c.saved_send /\ t.saved_fin = c.saved_fin /\ t.redispatched = c.redispatched
    /\ Len(t.send_buffer) \in Nat /\ t.rc.snd_max = c.rc.snd_max
    /\ UnaMoves(c, t, p)

\* The reliability context takes a packet.
LEMMA RcReceived ==
    ASSUME NEW c, NEW s, NEW P, Sends(s, P), Received(c, s, P),
           NEW p, SentOK(p, s, c.rc.rcv_nxt, P), NEW Q, MayAck(c, Q, p),
           NEW t, t = rc_receive_packet(c, p), NotOld(p, c.rc.rcv_nxt)
    PROVE  /\ t.aborted = None =>
                /\ Handled(c, t, p) /\ Received(t, s, P) /\ t.state = c.state
                /\ c.rc.rcv_nxt <= t.rc.rcv_nxt
           /\ Checkable(c, p) => t.aborted \in Excepted
<1>1. Shape(c) /\ Len(c.send_buffer) \in Nat /\ p \in Packets BY DEF MayAck, SentOK
<1>2. CASE AcksUnsent(c, p)
  <2>1. t = create_and_dispatch_ack(c) BY <1>2 DEF rc_receive_packet
  <2>2. Takes(c, t) /\ t.rc = c.rc /\ t.receive_buffer = c.receive_buffer /\ t.aborted = c.aborted
    BY <1>1, <2>1, TakesBasics
  <2>3. SameIn(c, t) BY <2>2 DEF SameIn, Takes
  <2>4. Received(t, s, P) BY <2>3, ReceivedSame
  <2>5. c.rc.rcv_nxt <= c.rc.rcv_nxt BY DEF Received
  <2>6. UnaMoves(c, t, p)
    <3>1. p.ack /\ less_than(c.rc.snd_max, p.ackno) BY <1>2 DEF AcksUnsent
    <3>2. SenderOK(c, Q) BY <3>1 DEF MayAck, HostOK
    <3>3. PICK m \in Nat : m = c.rc.snd_max BY <3>2 DEF SenderOK, Counters
    <3>4. PICK k \in Nat : k = p.ackno BY <1>1 DEF Packets, SeqNum
    <3>5. ~less_than_or_equal(k, m)
      <4>1. IntMax \in Int BY IntMaxAssumption
      <4> QED BY <3>1, <3>3, <3>4, <4>1 DEF less_than, less_than_or_equal
    <3>6. ~is_valid_ack_number(c, p) BY <3>3, <3>4, <3>5 DEF is_valid_ack_number, between_equal
    <3> QED BY <2>2, <3>6 DEF UnaMoves
  <2> QED BY <1>1, <2>2, <2>4, <2>5, <2>6 DEF Handled, Takes, Shape, SocketFields, Checkable
<1>3. CASE ~AcksUnsent(c, p)
  <2>1. PICK b : b = handle_ack(c, p) OBVIOUS
  <2>2. AckSeen(c, b, p) BY <1>1, <2>1, HandleAckSeen
  <2>3. t = handle_control_bits_and_data(b, p) BY <1>3, <2>1 DEF rc_receive_packet
  <2>4. Shape(b) /\ SameIn(c, b) /\ b.rc.rcv_nxt = c.rc.rcv_nxt BY <2>2 DEF AckSeen, SameIn
  <2>5. Received(b, s, P) BY <2>4, ReceivedSame
  <2>6. /\ t.aborted = None => Takes(b, t) /\ Received(t, s, P) /\ b.rc.rcv_nxt <= t.rc.rcv_nxt
        /\ Checkable(b, p) => t.aborted \in Excepted
    BY <2>3, <2>4, <2>5, ControlAndDataReceived
  <2>7. ASSUME t.aborted = None
        PROVE  /\ Handled(c, t, p) /\ Received(t, s, P) /\ t.state = c.state
               /\ c.rc.rcv_nxt <= t.rc.rcv_nxt
    <3>1. UnaMoves(c, t, p) BY <2>2, <2>6, <2>7 DEF UnaMoves, AckSeen, Takes
    <3> QED BY <2>2, <2>4, <2>6, <2>7, <3>1 DEF Handled, Takes, AckSeen, SameIn, Shape, SocketFields, AbortKept
  <2>8. Checkable(c, p) => Checkable(b, p) BY <2>2, <2>4 DEF Checkable, AckSeen
  <2> QED BY <2>6, <2>7, <2>8
<1> QED BY <1>2, <1>3

\* A FIN that need not wait comes when everything has been read.
LEMMA FinAfterAll ==
    ASSUME NEW c, NEW s, NEW P, Sends(s, P), Received(c, s, P),
           NEW p, SentOK(p, s, c.rc.rcv_nxt, P), p.fin, c.rc.rcv_wnd = MaxReceiveWindow
    PROVE  s.closed /\ Len(c.delivered) = s.accepted
<1>1. PICK n \in Nat : n = c.rc.rcv_nxt BY DEF Received
<1>2. PICK w, v, D, R, x : /\ w = c.rc.receive_window /\ v = c.rc.rcv_wnd /\ D = c.delivered
                           /\ R = c.receive_buffer /\ x = c.rc.receive_index
  OBVIOUS
<1>3. (NothingYet(w, n, D, R, x) \/ InOrder(w, n, D, R, x, s, P)) /\ Room(w, v, R, x) /\ SentOK(p, s, n, P)
  BY <1>1, <1>2 DEF Received
<1>4. PICK m : m = Plus(p.seq, 1) OBVIOUS
<1>5. InOrder(w, m, D, R, x, s, P) /\ w.first = Iss + 1 + s.accepted /\ s.closed BY <1>3, <1>4, FinCounted
<1>6. Iss \in Nat /\ s.accepted \in Nat /\ Limit(s) <= Iss + 1 + s.accepted /\ Limit(s) \in Nat
      /\ (Iss + 1 <= Limit(s) => LimitOf(P, Limit(s)))
  BY SendsType
<1>7. MaxReceiveWindow \in Nat BY Constants DEF Sends
<1>8. x = Len(R)
  <2>1. PICK l \in Nat : l = Len(R) BY <1>3 DEF Room
  <2>2. PICK j \in Nat : j = size(w) BY <1>3 DEF Room
  <2>3. PICK z \in Nat : z = x /\ z <= l BY <1>3, <2>1 DEF Room
  <2>4. MaxReceiveWindow + (l - z) + j = MaxReceiveWindow BY <1>2, <1>3, <2>1, <2>2, <2>3 DEF Room
  <2> QED BY <1>7, <2>1, <2>3, <2>4
<1>9. ReadUpTo(P, w.first, D, R, x) /\ ListOf(w, P, Limit(s)) BY <1>5 DEF InOrder
<1>10. w.first <= Limit(s) /\ Iss + 1 <= w.first BY <1>9 DEF ListOf
<1>11. P \in Seq(Nat) /\ InStream(P, w.first)
  <2>1. LimitOf(P, Limit(s)) BY <1>5, <1>6, <1>10
  <2> QED BY <1>5, <1>6, <1>10, <2>1 DEF LimitOf, InStream
<1>12. Len(D) = w.first - (Iss + 1) BY <1>6, <1>8, <1>9, <1>11, DeliveredSoFar
<1> QED BY <1>2, <1>5, <1>6, <1>12

\* c has taken the FIN of s only after its application has read everything.
FinTaken(c, s) ==
    /\ c.state \in TookFin => s.closed /\ Len(c.delivered) = s.accepted
    /\ c.state # "Closing"

\* Other contexts, after the reliability context has taken the packet.
LEMMA HandledPasses ==
    ASSUME NEW c, NEW d, NEW e, NEW p, NEW s, NEW P, Handled(c, d, p), Received(d, s, P), Passes(d, e)
    PROVE  Handled(c, e, p) /\ Received(e, s, P)
<1>1. Received(e, s, P)
  <2>1. SameIn(d, e) BY DEF Passes, PassesOver, SameIn
  <2> QED BY <2>1, ReceivedSame
<1>2. UnaMoves(c, e, p) BY DEF UnaMoves, Handled, Passes, PassesOver
<1> QED BY <1>1, <1>2 DEF Handled, Passes, PassesOver, AbortKept

\* The send buffer is not touched by what is received.
LEMMA ControlAndDataBuffer ==
    ASSUME NEW c, DOMAIN c = SocketFields, NEW p
    PROVE  LET t == handle_control_bits_and_data(c, p) IN
           DOMAIN t = SocketFields /\ t.send_buffer = c.send_buffer
<1> DEFINE Keeps(d, e) == DOMAIN d = SocketFields => DOMAIN e = SocketFields /\ e.send_buffer = d.send_buffer
<1>1. ASSUME NEW d, NEW test, NEW where PROVE Keeps(d, Require(d, test, where))
  BY DEF Require, Abort, SocketFields
<1>2. ASSUME NEW d, NEW event PROVE Keeps(d, enqueue(d, event)) BY DEF enqueue, SocketFields
<1>3. ASSUME NEW d PROVE Keeps(d, create_and_dispatch_ack(d))
  BY DEF create_and_dispatch_ack, enqueue_send, SocketFields
<1>4. Keeps(c, handle_control_bits(c, p)) BY DEF handle_control_bits, SocketFields
<1>5. PICK a : a = Require(c, c.rc.receive_window.started, "insert_not_started") OBVIOUS
<1>6. PICK b : b = Require(a, c.rc.rcv_wnd >= num_inserted(c.rc.receive_window, p), "handle_data_no_room")
  OBVIOUS
<1>7. Keeps(c, a) /\ Keeps(a, b) BY <1>1, <1>5, <1>6
<1>8. PICK e : e = insert_data(c, p) OBVIOUS
<1>9. Keeps(b, e)
  <2>1. e = [b EXCEPT !.rc.rcv_wnd = UShort(@ - num_inserted(c.rc.receive_window, p)),
                      !.rc.receive_window = insert(@, p)]
    BY <1>5, <1>6, <1>8, Zenon DEF insert_data
  <2> QED BY <2>1 DEF SocketFields
<1>10. PICK f : f = Require(e, e.rc.receive_window.packets = <<>> \/ e.rc.receive_window.first = e.rc.rcv_nxt,
                            "continuous_data_first")
  OBVIOUS
<1>11. PICK g : g = [f EXCEPT !.rc.receive_window = after_continuous_data(@),
                              !.rc.rcv_nxt = Plus(@, Len(continuous_data(e.rc.receive_window))),
                              !.receive_buffer = @ \o continuous_data(e.rc.receive_window)]
  OBVIOUS
<1>12. Keeps(e, f) BY <1>1, <1>10
<1>13. Keeps(f, g) BY <1>11 DEF SocketFields
<1>14. PICK h : h = enqueue(g, "receive_buffer_not_empty") OBVIOUS
<1>15. Keeps(g, h) BY <1>2, <1>14
<1>16. PICK i \in {g, h} : i = take_continuous_data(e)
  <2>1. take_continuous_data(e) \in {g, h} BY Zenon, <1>10, <1>11, <1>14 DEF take_continuous_data
  <2> QED BY <2>1
<1>17. Keeps(i, create_and_dispatch_ack(i)) BY <1>3
<1>18. handle_data(c, p) = create_and_dispatch_ack(i) BY <1>8, <1>16 DEF handle_data
<1>19. Keeps(c, handle_data(c, p)) BY <1>7, <1>9, <1>12, <1>13, <1>15, <1>16, <1>17, <1>18
<1>20. handle_control_bits_and_data(c, p) \in {handle_control_bits(c, p), handle_data(c, p), c}
  BY DEF handle_control_bits_and_data
<1> QED BY <1>4, <1>19, <1>20

\* A packet that passed the tests.
LEMMA ValidArrived ==
    ASSUME NEW c, NEW s, NEW P, Sends(s, P), Received(c, s, P), FinTaken(c, s),
           NEW p, SentOK(p, s, c.rc.rcv_nxt, P), NEW Q, MayAck(c, Q, p),
           p.fin => c.rc.rcv_wnd = MaxReceiveWindow, NEW trap,
           NEW t, t = receive_valid_packet(c, p, trap), NotOld(p, c.rc.rcv_nxt),
           Opened(c), p.ack => is_valid_ack_number(c, p)
    PROVE  /\ t.aborted = None =>
                /\ Handled(c, t, p) /\ Received(t, s, P) /\ FinTaken(t, s)
                /\ c.rc.rcv_nxt <= t.rc.rcv_nxt /\ Opened(t)
           /\ Checkable(c, p) => t.aborted \in Excepted
<1>1. Shape(c) /\ Len(c.send_buffer) \in Nat /\ p \in Packets BY DEF MayAck, SentOK
<1>2. PICK a : a = rc_receive_packet(c, p) OBVIOUS
<1>3. DOMAIN a = SocketFields /\ Len(a.send_buffer) \in Nat
  <2>1. CASE AcksUnsent(c, p)
    <3>1. a = create_and_dispatch_ack(c) BY <1>2, <2>1 DEF rc_receive_packet
    <3>2. Takes(c, a) BY <1>1, <3>1, TakesBasics
    <3> QED BY <1>1, <3>2 DEF Takes, Shape, SocketFields
  <2>2. CASE ~AcksUnsent(c, p)
    <3>1. PICK b : b = handle_ack(c, p) OBVIOUS
    <3>2. AckSeen(c, b, p) BY <1>1, <3>1, HandleAckSeen
    <3>3. DOMAIN b = SocketFields /\ Len(b.send_buffer) \in Nat BY <3>2 DEF AckSeen, Shape, SocketFields
    <3>4. a = handle_control_bits_and_data(b, p) BY <1>2, <2>2, <3>1 DEF rc_receive_packet
    <3> QED BY <3>3, <3>4, ControlAndDataBuffer
  <2> QED BY <2>1, <2>2
<1>4. PICK b : b = cm_receive_packet(a, p, trap) OBVIOUS
<1>5. /\ Passes(a, b)
      /\ p.fin \/ a.state = "Closing" \/ NoFin(a, b)
      /\ b.state = "Closing" => a.state = "Closing"
      /\ b.state \in CanSendAck => a.state \in CanSendAck \/ p.ack
  BY <1>3, <1>4, CmReceivePasses, CmReceiveEnters
<1>6. DOMAIN b = SocketFields /\ Len(b.send_buffer) \in Nat BY <1>3, <1>5 DEF Passes, PassesOver
<1>7. PICK e : e = CongestionControlReceive(b, p, is_duplicate_ack(c, p)) OBVIOUS
<1>8. Passes(b, e) /\ e.state = b.state
  <2>1. e \in {b, cc_receive_packet(b, p)} BY <1>7 DEF CongestionControlReceive
  <2>2. Passes(b, b) BY <1>6, PassesBasics
  <2>3. Passes(b, cc_receive_packet(b, p)) /\ cc_receive_packet(b, p).state = b.state
    BY <1>6, CcReceivePasses
  <2> QED BY <2>1, <2>2, <2>3
<1>9. DOMAIN e = SocketFields BY <1>6, <1>8 DEF Passes, PassesOver
<1>10. t = FinishSavedClose(e) BY <1>2, <1>4, <1>7 DEF receive_valid_packet
<1>11. Passes(e, t) /\ NoEntry(e, t)
  <2>1. PICK g : g = cm_close(e) OBVIOUS
  <2>2. PICK h : h = [g EXCEPT !.saved_close = FALSE] OBVIOUS
  <2>3. Passes(e, g) /\ NoEntry(e, g) BY <1>9, <2>1, CmCallsPass
  <2>4. DOMAIN g = SocketFields BY <1>9, <2>3 DEF Passes, PassesOver
  <2>5. Passes(g, h) /\ h.state = g.state BY <2>2, <2>4 DEF Passes, PassesOver, AbortKept, SocketFields
  <2>6. Passes(e, h) /\ NoEntry(e, h)
    <3>1. Passes(e, h) BY <2>3, <2>5, PassesTrans
    <3> QED BY <2>3, <2>5, <3>1 DEF NoEntry, NoFin
  <2>7. t \in {e, h} BY <1>10, <2>1, <2>2 DEF FinishSavedClose
  <2>8. Passes(e, e) BY <1>9, PassesBasics
  <2> QED BY <2>6, <2>7, <2>8 DEF NoEntry, NoFin
<1>12. Passes(a, t)
  <2>1. Passes(a, e) BY <1>5, <1>8, PassesTrans
  <2> QED BY <1>11, <2>1, PassesTrans
<1>13. /\ a.aborted = None =>
             /\ Handled(c, a, p) /\ Received(a, s, P) /\ a.state = c.state
             /\ c.rc.rcv_nxt <= a.rc.rcv_nxt
       /\ Checkable(c, p) => a.aborted \in Excepted
  BY <1>2, RcReceived
<1>14. ASSUME t.aborted = None
       PROVE  /\ Handled(c, t, p) /\ Received(t, s, P) /\ FinTaken(t, s)
              /\ c.rc.rcv_nxt <= t.rc.rcv_nxt /\ Opened(t)
  <2>1. a.aborted = None /\ a.rc = t.rc BY <1>12, <1>14 DEF Passes, PassesOver, AbortKept
  <2>2. Handled(c, a, p) /\ Received(a, s, P) /\ a.state = c.state /\ c.rc.rcv_nxt <= a.rc.rcv_nxt
    BY <1>13, <2>1
  <2>3. Handled(c, t, p) /\ Received(t, s, P) BY <1>12, <2>2, HandledPasses
  <2>4. FinTaken(t, s)
    <3>1. c.state # "Closing" BY DEF FinTaken
    <3>2. t.state # "Closing" BY <1>5, <1>8, <1>11, <2>2, <3>1 DEF NoEntry, NoFin
    <3>3. ASSUME t.state \in TookFin PROVE s.closed /\ Len(t.delivered) = s.accepted
      <4>1. t.delivered = c.delivered BY <2>3 DEF Handled
      <4>2. CASE p.fin
        <5>1. s.closed /\ Len(c.delivered) = s.accepted BY <4>2, FinAfterAll
        <5> QED BY <4>1, <5>1
      <4>3. CASE NoFin(a, b)
        <5>1. c.state \in TookFin BY <1>8, <1>11, <2>2, <3>3, <4>3 DEF NoEntry, NoFin
        <5> QED BY <4>1, <5>1 DEF FinTaken
      <4> QED BY <1>5, <2>2, <3>1, <4>2, <4>3
    <3> QED BY <3>2, <3>3 DEF FinTaken
  <2>5. Opened(t)
    <3>1. UnaMoves(c, t, p) /\ t.accepted = c.accepted /\ t.saved_send = c.saved_send BY <2>3 DEF Handled
    <3>2. CASE p.ack
      <4>1. AckNo(p) BY DEF SentOK
      <4> QED BY <3>1, <3>2, <4>1 DEF UnaMoves, Opened
    <3>3. CASE ~p.ack
      <4>1. t.state \in CanSendAck => c.state \in CanSendAck
        BY <1>5, <1>8, <1>11, <2>2, <3>3 DEF NoEntry
      <4> QED BY <3>1, <3>3, <4>1 DEF UnaMoves, Opened, InUse
    <3> QED BY <3>2, <3>3
  <2> QED BY <2>1, <2>2, <2>3, <2>4, <2>5
<1>15. a.aborted \in Excepted => t.aborted \in Excepted BY <1>12 DEF Passes
<1> QED BY <1>13, <1>14, <1>15

\* t is c after the packet p of s has arrived.
Arrived(c, t, s, P, p) ==
    /\ Received(t, s, P) /\ FinTaken(t, s)
    /\ t.accepted = c.accepted /\ t.closed = c.closed
    /\ t.redispatched = c.redispatched /\ \A q \in t.saved_fin : q \in c.saved_fin \/ (q = p /\ q.fin)
    /\ c.rc.rcv_nxt <= t.rc.rcv_nxt /\ t.rc.snd_max = c.rc.snd_max
    /\ t.rc.snd_una = c.rc.snd_una \/ (p.ack /\ t.rc.snd_una = p.ackno)
    /\ Opened(t)

\* A SYN that passes the test of its number is not old.
LEMMA ValidNotOld ==
    ASSUME NEW c, NEW s, NEW P, Sends(s, P), Received(c, s, P),
           NEW p, SentOK(p, s, c.rc.rcv_nxt, P), is_valid_sequence_number(c, p)
    PROVE  NotOld(p, c.rc.rcv_nxt)
<1>1. SUFFICES ASSUME p.syn PROVE c.rc.rcv_nxt <= Plus(p.seq, 1) BY DEF NotOld
<1>2. PICK n \in Nat : n = c.rc.rcv_nxt BY DEF Received
<1>3. p.seq = Iss /\ p.data = <<>> BY <1>1 DEF SentOK
<1>4. PICK a \in Nat : a = s.accepted BY SendsType
<1>5. Iss \in Nat /\ IntMax \in Nat /\ Iss + 1 + a + 2 <= IntMax BY <1>4, SendsType
<1>6. Plus(p.seq, 1) = Iss + 1 BY <1>3, <1>5, SmallPlus
<1>7. n = 0 \/ less_than_or_equal(n, Iss)
  BY <1>2, <1>3 DEF is_valid_sequence_number, between_equal_left, less_than_or_equal
<1>8. n <= IntMax
  <2>1. CASE NothingYet(c.rc.receive_window, n, c.delivered, c.receive_buffer, c.rc.receive_index)
    BY <1>5, <2>1 DEF NothingYet
  <2>2. CASE InOrder(c.rc.receive_window, n, c.delivered, c.receive_buffer, c.rc.receive_index, s, P)
    <3>1. c.rc.receive_window.first \in Nat BY DEF Received, Room, Buffers, SeqNum
    <3>2. PICK f \in Nat : f = c.rc.receive_window.first BY <3>1
    <3>3. PICK l \in Nat : l = Limit(s) /\ l <= Iss + 1 + a BY <1>4, SendsType
    <3>4. f <= l BY <2>2, <3>2, <3>3 DEF InOrder, ListOf
    <3>5. n = f \/ n = f + 1 BY <2>2, <3>2 DEF InOrder, PastFin
    <3> QED BY <1>5, <3>3, <3>4, <3>5
  <2> QED BY <1>2, <2>1, <2>2 DEF Received
<1>9. n <= Iss + 1
  <2>1. CASE n = 0 BY <1>5, <2>1
  <2>2. CASE less_than_or_equal(n, Iss)
    <3>1. n < Iss \/ n = Iss BY <1>5, <1>8, <2>2, SmallLess DEF less_than_or_equal
    <3> QED BY <1>5, <3>1
  <2> QED BY <1>7, <2>1, <2>2
<1> QED BY <1>2, <1>6, <1>9

\* receive_packet(), with its tests.
LEMMA PacketArrived ==
    ASSUME NEW c, NEW s, NEW P, Sends(s, P), Received(c, s, P), FinTaken(c, s),
           NEW p, SentOK(p, s, c.rc.rcv_nxt, P), NEW Q, MayAck(c, Q, p), NEW trap,
           NEW t, t = receive_packet(c, p, trap), ~OldSynAck(c, p), Opened(c)
    PROVE  /\ t.aborted = None => Arrived(c, t, s, P, p)
           /\ Checkable(c, p) => t.aborted \in Excepted
<1>1. Shape(c) /\ DOMAIN c = SocketFields BY DEF MayAck, Shape, SocketFields
<1>2. ASSUME Handled(c, t, p), Received(t, s, P), FinTaken(t, s), c.rc.rcv_nxt <= t.rc.rcv_nxt, Opened(t)
      PROVE  Arrived(c, t, s, P, p)
  BY <1>2 DEF Handled, Arrived, UnaMoves
<1>3. ASSUME Passes(c, t), NoEntry(c, t)
      PROVE  Arrived(c, t, s, P, p) /\ (Checkable(c, p) => t.aborted \in Excepted)
  <2>1. SameIn(c, t) BY <1>3 DEF Passes, PassesOver, SameIn
  <2>2. Received(t, s, P) BY <2>1, ReceivedSame
  <2>3. c.rc.rcv_nxt <= t.rc.rcv_nxt BY <2>1 DEF SameIn, Received
  <2>4. Opened(t) BY <1>3, OpenedPasses DEF Passes
  <2>5. Checkable(c, p) => t.aborted \in Excepted BY <1>3 DEF Passes, Checkable
  <2> QED BY <1>3, <2>2, <2>3, <2>4, <2>5 DEF Passes, PassesOver, NoEntry, NoFin, FinTaken, Arrived
<1>4. CASE p.ack /\ ~is_valid_ack_number(c, p)
  <2>1. t = rc_receive_packet(c, p) BY <1>4 DEF receive_packet
  <2>2. NotOld(p, c.rc.rcv_nxt)
    <3>1. SUFFICES ASSUME p.syn PROVE c.rc.rcv_nxt <= Plus(p.seq, 1) BY DEF NotOld
    <3>2. ~(Plus(p.seq, 1) < c.rc.rcv_nxt) BY <1>4, <3>1 DEF OldSynAck
    <3>3. PICK n \in Nat : n = c.rc.rcv_nxt BY DEF Received
    <3>4. Plus(p.seq, 1) \in Int
      <4>1. p.seq \in Int BY SeqNumInt DEF SentOK, Packets
      <4>2. Plus(p.seq, 1) \in SeqNum BY <4>1, PlusType
      <4> QED BY <4>2, SeqNumInt
    <3> QED BY <3>2, <3>3, <3>4
  <2>3. /\ t.aborted = None =>
              /\ Handled(c, t, p) /\ Received(t, s, P) /\ t.state = c.state
              /\ c.rc.rcv_nxt <= t.rc.rcv_nxt
        /\ Checkable(c, p) => t.aborted \in Excepted
    BY <2>1, <2>2, RcReceived
  <2>4. ASSUME t.aborted = None PROVE Arrived(c, t, s, P, p)
    <3>1. Handled(c, t, p) /\ t.state = c.state BY <2>3, <2>4
    <3>2. FinTaken(t, s) BY <3>1 DEF FinTaken, Handled
    <3>3. Opened(t) BY <3>1 DEF Opened, InUse, Handled, UnaMoves
    <3> QED BY <1>2, <2>3, <2>4, <3>2, <3>3
  <2> QED BY <2>3, <2>4
<1>5. CASE c.state = "TimeWait" /\ t = cm_receive_packet(c, p, trap)
  <2>1. Passes(c, t) /\ (t.state = "Closing" => c.state = "Closing") BY <1>1, <1>5, CmReceivePasses
  <2>2. c.state \in TookFin /\ c.state \in CanSendAck BY <1>5 DEF TookFin, CanSendAck
  <2> QED BY <1>3, <2>1, <2>2 DEF NoEntry, NoFin
<1>6. CASE t = c \/ t = create_and_dispatch_ack(c)
  <2>1. Passes(c, c) /\ Passes(c, create_and_dispatch_ack(c)) /\ create_and_dispatch_ack(c).state = c.state
    BY <1>1, PassesBasics DEF create_and_dispatch_ack
  <2> QED BY <1>3, <1>6, <2>1 DEF NoEntry, NoFin
<1>7. CASE p.fin /\ t = [c EXCEPT !.saved_fin = {p}]
  <2>1. /\ SameIn(c, t) /\ t.state = c.state /\ t.accepted = c.accepted /\ t.closed = c.closed
        /\ t.saved_fin = {p} /\ t.redispatched = c.redispatched /\ t.rc = c.rc
        /\ t.saved_send = c.saved_send /\ t.aborted = c.aborted
    BY <1>1, <1>7 DEF SameIn, SocketFields
  <2>2. Received(t, s, P) BY <2>1, ReceivedSame
  <2>3. c.rc.rcv_nxt <= t.rc.rcv_nxt BY <2>1 DEF Received
  <2>4. Opened(t) BY <2>1 DEF Opened, InUse
  <2> QED BY <1>7, <2>1, <2>2, <2>3, <2>4 DEF Arrived, FinTaken, SameIn, Checkable
<1>8. CASE (p.ack => is_valid_ack_number(c, p)) /\ is_valid_sequence_number(c, p) /\ ~MustSaveFin(c, p) /\ t = receive_valid_packet(c, p, trap)
  <2>1. p.fin => c.rc.rcv_wnd = MaxReceiveWindow
    <3>1. c.rc.rcv_wnd \in 0 .. MaxReceiveWindow BY DEF Received, Room
    <3>2. MaxReceiveWindow \in Nat BY Constants DEF Sends
    <3> QED BY <1>8, <3>1, <3>2 DEF MustSaveFin
  <2>2. NotOld(p, c.rc.rcv_nxt) BY <1>8, ValidNotOld
  <2>3. /\ t.aborted = None =>
              /\ Handled(c, t, p) /\ Received(t, s, P) /\ FinTaken(t, s)
              /\ c.rc.rcv_nxt <= t.rc.rcv_nxt /\ Opened(t)
        /\ Checkable(c, p) => t.aborted \in Excepted
    BY <1>8, <2>1, <2>2, ValidArrived
  <2> QED BY <1>2, <2>3
<1>9. \/ p.ack /\ ~is_valid_ack_number(c, p)
      \/ c.state = "TimeWait" /\ t = cm_receive_packet(c, p, trap)
      \/ t = c \/ t = create_and_dispatch_ack(c)
      \/ p.fin /\ t = [c EXCEPT !.saved_fin = {p}]
      \/ /\ p.ack => is_valid_ack_number(c, p)
         /\ is_valid_sequence_number(c, p) /\ ~MustSaveFin(c, p) /\ t = receive_valid_packet(c, p, trap)
  <2>1. MustSaveFin(c, p) => p.fin BY DEF MustSaveFin
  <2> QED BY <2>1 DEF receive_packet
<1> QED BY <1>4, <1>5, <1>6, <1>7, <1>8, <1>9

\* No more is delivered than was accepted, and nothing else.
LEMMA DeliveredBound ==
    ASSUME NEW c, NEW s, NEW P, Sends(s, P), Received(c, s, P)
    PROVE  /\ Len(c.delivered) \in Nat /\ Len(c.delivered) <= s.accepted
           /\ IsPrefix(c.delivered, P)
<1>1. PICK n \in Nat : n = c.rc.rcv_nxt BY DEF Received
<1>2. PICK w, D, R, x : w = c.rc.receive_window /\ D = c.delivered /\ R = c.receive_buffer /\ x = c.rc.receive_index
  OBVIOUS
<1>3. NothingYet(w, n, D, R, x) \/ InOrder(w, n, D, R, x, s, P) BY <1>1, <1>2 DEF Received
<1>4. /\ Iss \in Nat /\ s.accepted \in Nat /\ Limit(s) <= Iss + 1 + s.accepted /\ Limit(s) \in Nat
      /\ (Iss + 1 <= Limit(s) => LimitOf(P, Limit(s)))
  BY SendsType
<1>5. P \in Seq(Nat) BY DEF Sends, StreamFits
<1>6. CASE NothingYet(w, n, D, R, x)
  <2>1. D = <<>> /\ Len(D) = 0 BY <1>6, EmptySeq DEF NothingYet
  <2>2. IsPrefix(D, P)
    <3>1. SubSeq(D, 1, 0) = <<>> /\ SubSeq(P, 1, 0) = <<>> BY SubSeqEmpty
    <3>2. Len(P) \in Nat BY <1>5
    <3> QED BY <2>1, <3>1, <3>2 DEF IsPrefix
  <2> QED BY <1>2, <1>4, <2>1, <2>2
<1>7. CASE InOrder(w, n, D, R, x, s, P)
  <2>1. ReadUpTo(P, w.first, D, R, x) /\ Iss + 1 <= w.first /\ w.first <= Limit(s) /\ w \in Buffers
    BY <1>7 DEF InOrder, ListOf
  <2>2. w.first \in Nat BY <2>1 DEF Buffers, SeqNum
  <2>3. LimitOf(P, Limit(s)) BY <1>4, <2>1, <2>2
  <2>4. InStream(P, w.first)
    <3>1. Len(P) \in Nat BY <1>5
    <3> QED BY <1>4, <2>1, <2>2, <2>3, <3>1 DEF LimitOf, InStream
  <2>5. Len(D) \in Nat /\ Len(D) <= w.first - (Iss + 1) /\ IsPrefix(D, P)
    BY <1>4, <1>5, <2>1, <2>4, DeliveredSoFar
  <2> QED BY <1>2, <1>4, <2>1, <2>2, <2>5
<1> QED BY <1>3, <1>6, <1>7

\* t is c after the application has read, or has asked to.
Reads(c, t, s, P) ==
    /\ Shape(t) /\ Received(t, s, P) /\ Len(c.delivered) <= Len(t.delivered)
    /\ t.state = c.state /\ t.accepted = c.accepted /\ t.closed = c.closed
    /\ t.saved_send = c.saved_send /\ t.saved_fin = c.saved_fin /\ t.redispatched = c.redispatched
    /\ t.rc.rcv_nxt = c.rc.rcv_nxt /\ t.rc.snd_una = c.rc.snd_una /\ t.rc.snd_max = c.rc.snd_max

\* create_and_dispatch_received_data().
LEMMA DataRead ==
    ASSUME NEW c, Shape(c), NEW s, NEW P, Sends(s, P), Received(c, s, P), c.receive_buffer # <<>>,
           NEW n \in Nat
    PROVE  LET t == create_and_dispatch_received_data(c, n) IN
           Reads(c, t, s, P) /\ t.aborted = c.aborted
<1>1. PICK N \in Nat : N = c.rc.rcv_nxt BY DEF Received
<1>2. PICK w, v, D, R, x : /\ w = c.rc.receive_window /\ v = c.rc.rcv_wnd /\ D = c.delivered
                           /\ R = c.receive_buffer /\ x = c.rc.receive_index
  OBVIOUS
<1>3. (NothingYet(w, N, D, R, x) \/ InOrder(w, N, D, R, x, s, P)) /\ Room(w, v, R, x)
      /\ c.rc.receive_event \in Nat
  BY <1>1, <1>2 DEF Received
<1>4. PICK l \in Nat : l = Len(R) BY <1>3 DEF Room
<1>5. PICK z \in Nat : z = x /\ z <= l BY <1>3, <1>4 DEF Room
<1>6. PICK length \in Nat : length = Lesser(Len(R) - x, n) /\ length <= Len(R) - x
  BY <1>4, <1>5 DEF Lesser
<1>7. PICK y, v2, E : y = x + length /\ v2 = UShort(v + length) /\ E = D \o SubSeq(R, x + 1, y) OBVIOUS
<1>8. /\ InOrder(w, N, E, R, y, s, P) /\ Room(w, v2, R, y)
      /\ y >= Len(R) => InOrder(w, N, E, <<>>, 0, s, P) /\ Room(w, v2, <<>>, 0)
  <2>1. ReadMoves(v, D, R, x, y, v2, E) BY <1>2, <1>6, <1>7 DEF ReadMoves
  <2> QED BY <1>3, <2>1, ReadTaken
<1>9. Len(D) <= Len(E)
  <2>1. D \in Seq(Nat) /\ R \in Seq(Nat) BY <1>3, EmptySeq DEF NothingYet, InOrder, ReadUpTo
  <2>2. x + 1 \in 1 .. Len(R) + 1 /\ y \in (x + 1) - 1 .. Len(R) BY <1>4, <1>5, <1>6, <1>7
  <2>3. PICK U \in Seq(Nat) : U = SubSeq(R, x + 1, y) BY <2>1, <2>2, Cut
  <2>4. Len(D \o U) = Len(D) + Len(U) BY <2>1
  <2>5. Len(D) \in Nat /\ Len(U) \in Nat BY <2>1
  <2> QED BY <1>7, <2>3, <2>4, <2>5
<1>10. PICK a \in {c, create_and_dispatch_ack(c)} :
          a = IF v + length >= 2 * v THEN create_and_dispatch_ack(c) ELSE c
  OBVIOUS
<1>11. Takes(c, a) /\ a.rc = c.rc /\ a.receive_buffer = c.receive_buffer /\ a.aborted = c.aborted
  BY <1>10, TakesBasics
<1>12. PICK b : b = [a EXCEPT !.rc.rcv_wnd = v2, !.rc.receive_index = y, !.delivered = E] OBVIOUS
<1>13. /\ Shape(b) /\ b.rc.rcv_nxt = c.rc.rcv_nxt /\ b.rc.rcv_wnd = v2 /\ b.rc.receive_index = y
       /\ b.rc.receive_event = c.rc.receive_event /\ b.rc.receive_window = w
       /\ b.receive_buffer = R /\ b.delivered = E
       /\ b.state = c.state /\ b.accepted = c.accepted /\ b.closed = c.closed
       /\ b.saved_fin = c.saved_fin /\ b.redispatched = c.redispatched
       /\ b.rc.snd_una = c.rc.snd_una /\ b.rc.snd_max = c.rc.snd_max
       /\ b.saved_send = c.saved_send /\ b.aborted = c.aborted
  BY <1>2, <1>11, <1>12 DEF Takes, Shape
<1>14. PICK d : d = [b EXCEPT !.receive_buffer = <<>>, !.rc.receive_index = 0] OBVIOUS
<1>15. /\ Shape(d) /\ d.rc.rcv_nxt = c.rc.rcv_nxt /\ d.rc.rcv_wnd = v2 /\ d.rc.receive_index = 0
       /\ d.rc.receive_event = c.rc.receive_event /\ d.rc.receive_window = w
       /\ d.receive_buffer = <<>> /\ d.delivered = E
       /\ d.state = c.state /\ d.accepted = c.accepted /\ d.closed = c.closed
       /\ d.saved_fin = c.saved_fin /\ d.redispatched = c.redispatched
       /\ d.rc.snd_una = c.rc.snd_una /\ d.rc.snd_max = c.rc.snd_max
       /\ d.saved_send = c.saved_send /\ d.aborted = c.aborted
  BY <1>13, <1>14 DEF Shape
<1>16. Reads(c, b, s, P) BY <1>1, <1>2, <1>3, <1>8, <1>9, <1>13 DEF Reads, Received
<1>17. y >= Len(R) => Reads(c, d, s, P) BY <1>1, <1>2, <1>3, <1>8, <1>9, <1>15 DEF Reads, Received
<1>18. PICK e : e = IF y >= Len(R) THEN d ELSE b OBVIOUS
<1>19. Reads(c, e, s, P) /\ e.aborted = c.aborted BY <1>13, <1>15, <1>16, <1>17, <1>18
<1>20. create_and_dispatch_received_data(c, n) = enqueue(e, "receive_buffer_not_full")
  <2>1. a.rc.rcv_wnd = v /\ a.delivered = D BY <1>2, <1>11 DEF Takes
  <2>2. b = [a EXCEPT !.rc.rcv_wnd = UShort(@ + length), !.rc.receive_index = y,
                      !.delivered = @ \o SubSeq(R, x + 1, y)]
    BY <1>7, <1>12, <2>1
  <2> QED BY <1>2, <1>6, <1>7, <1>10, <1>14, <1>18, <2>2 DEF create_and_dispatch_received_data
<1>21. PICK t : t = enqueue(e, "receive_buffer_not_full") OBVIOUS
<1>22. Takes(e, t) /\ t.rc = e.rc /\ t.receive_buffer = e.receive_buffer /\ t.aborted = e.aborted
  <2>1. Shape(e) BY <1>19 DEF Reads
  <2> QED BY <1>21, <2>1, TakesBasics
<1>23. Received(t, s, P)
  <2>1. SameIn(e, t) BY <1>22 DEF SameIn, Takes
  <2> QED BY <1>19, <2>1, ReceivedSame DEF Reads
<1> QED BY <1>19, <1>20, <1>21, <1>22, <1>23 DEF Reads, Takes

\* recv(), and the bytes for one that waits.
LEMMA CallReads ==
    ASSUME NEW c, Shape(c), NEW s, NEW P, Sends(s, P), Received(c, s, P)
    PROVE  /\ \A n \in Nat : LET t == rc_receive(c, n) IN
                 Reads(c, t, s, P) /\ (c.rc.receive_event = 0 => t.aborted = c.aborted)
           /\ LET t == rc_receive_buffer_not_empty(c) IN Reads(c, t, s, P) /\ t.aborted = c.aborted
<1>1. Len(c.delivered) \in Nat BY DeliveredBound
<1>2. ASSUME NEW d, Reads(c, d, s, P), NEW n \in Nat, NEW t, t = [d EXCEPT !.rc.receive_event = n]
      PROVE  Reads(c, t, s, P) /\ t.aborted = d.aborted
  <2>1. /\ Shape(t) /\ t.rc.rcv_nxt = d.rc.rcv_nxt /\ t.rc.rcv_wnd = d.rc.rcv_wnd
        /\ t.rc.receive_index = d.rc.receive_index /\ t.rc.receive_event = n
        /\ t.rc.receive_window = d.rc.receive_window
        /\ t.receive_buffer = d.receive_buffer /\ t.delivered = d.delivered
        /\ t.state = d.state /\ t.accepted = d.accepted /\ t.closed = d.closed
        /\ t.saved_fin = d.saved_fin /\ t.redispatched = d.redispatched
        /\ t.rc.snd_una = d.rc.snd_una /\ t.rc.snd_max = d.rc.snd_max
        /\ t.saved_send = d.saved_send /\ t.aborted = d.aborted
    BY <1>2 DEF Reads, Shape
  <2>2. Received(t, s, P) BY <1>2, <2>1 DEF Reads, Received
  <2> QED BY <1>2, <2>1, <2>2 DEF Reads
<1>3. ASSUME NEW n \in Nat, NEW t, t = rc_receive(c, n)
      PROVE  Reads(c, t, s, P) /\ (c.rc.receive_event = 0 => t.aborted = c.aborted)
  <2>1. CASE c.receive_buffer # <<>>
    <3>1. t = create_and_dispatch_received_data(c, n) BY <1>3, <2>1 DEF rc_receive
    <3> QED BY <2>1, <3>1, DataRead
  <2>2. CASE c.receive_buffer = <<>>
    <3>1. PICK d : d = Require(c, c.rc.receive_event = 0, "receive_event") OBVIOUS
    <3>2. /\ Takes(c, d) /\ d.rc = c.rc /\ d.receive_buffer = c.receive_buffer
          /\ c.rc.receive_event = 0 => d.aborted = c.aborted
      <4>1. Takes(c, d) /\ d.rc = c.rc /\ d.receive_buffer = c.receive_buffer BY <3>1, TakesBasics
      <4>2. c.rc.receive_event = 0 => d = c BY <3>1 DEF Require
      <4> QED BY <4>1, <4>2
    <3>3. Received(d, s, P)
      <4>1. SameIn(c, d) BY <3>2 DEF SameIn, Takes
      <4> QED BY <4>1, ReceivedSame
    <3>4. Reads(c, d, s, P) BY <1>1, <3>2, <3>3 DEF Reads, Takes
    <3>5. t = [d EXCEPT !.rc.receive_event = n] BY <1>3, <2>2, <3>1 DEF rc_receive
    <3> QED BY <1>2, <3>2, <3>4, <3>5
  <2> QED BY <2>1, <2>2
<1>4. LET t == rc_receive_buffer_not_empty(c) IN Reads(c, t, s, P) /\ t.aborted = c.aborted
  <2>1. Reads(c, c, s, P) BY <1>1 DEF Reads
  <2>2. PICK n \in Nat : n = c.rc.receive_event BY DEF Received
  <2>3. CASE c.rc.receive_event # 0 /\ c.receive_buffer # <<>>
    <3>1. PICK d : d = create_and_dispatch_received_data(c, n) OBVIOUS
    <3>2. Reads(c, d, s, P) /\ d.aborted = c.aborted BY <2>3, <3>1, DataRead
    <3>3. rc_receive_buffer_not_empty(c) = [d EXCEPT !.rc.receive_event = 0]
      BY <2>2, <2>3, <3>1 DEF rc_receive_buffer_not_empty
    <3> QED BY <1>2, <3>2, <3>3
  <2>4. CASE ~(c.rc.receive_event # 0 /\ c.receive_buffer # <<>>)
    <3>1. rc_receive_buffer_not_empty(c) = c BY <2>4 DEF rc_receive_buffer_not_empty
    <3> QED BY <2>1, <3>1
  <2> QED BY <2>3, <2>4
<1> QED BY <1>3, <1>4

-------------------------------------------------------------------------------
\* What has been received and what is under way stay in order when the sender goes on.

\* The sender c goes on to t: after close() nothing more is accepted.
Progress(c, t) ==
    /\ c.accepted <= t.accepted /\ c.rc.snd_max <= t.rc.snd_max /\ c.rc.rcv_nxt <= t.rc.rcv_nxt
    /\ c.closed => t.closed /\ t.accepted = c.accepted

\* The limit moves on.
LEMMA LimitLater ==
    ASSUME NEW c, NEW t, NEW P, Sends(c, P), Sends(t, P), Progress(c, t)
    PROVE  /\ Limit(c) \in Nat /\ Limit(t) \in Nat /\ Limit(c) <= Limit(t)
           /\ \A p \in Packets : DataOf(p, P, Limit(c)) => DataOf(p, P, Limit(t))
<1>1. PICK a \in Nat : a = c.accepted BY SendsType
<1>2. PICK b \in Nat : b = t.accepted BY SendsType
<1>3. PICK m \in Nat : m = c.rc.snd_max BY SendsType
<1>4. PICK n \in Nat : n = t.rc.snd_max BY SendsType
<1>5. Iss \in Nat BY SendsType
<1>6. a <= b /\ m <= n BY <1>1, <1>2, <1>3, <1>4 DEF Progress
<1>7. PICK i \in Nat : i = Limit(c) BY SendsType
<1>8. PICK j \in Nat : j = Limit(t) BY SendsType
<1>9. i <= j
  <2>1. i = (IF Iss + 1 + a < m THEN Iss + 1 + a ELSE m) BY <1>1, <1>3, <1>7 DEF Limit, Lesser
  <2>2. j = (IF Iss + 1 + b < n THEN Iss + 1 + b ELSE n) BY <1>2, <1>4, <1>8 DEF Limit, Lesser
  <2> QED BY <1>5, <1>6, <2>1, <2>2
<1>10. ASSUME NEW p \in Packets, DataOf(p, P, i) PROVE DataOf(p, P, j)
  <2>1. PICK k \in Nat : k = p.seq BY DEF Packets, SeqNum
  <2>2. PICK l \in Nat : l = Len(p.data) BY DEF Packets
  <2>3. k + l <= i BY <1>10, <2>1, <2>2 DEF DataOf
  <2>4. k + l <= j BY <1>9, <2>3
  <2> QED BY <1>10, <2>1, <2>2, <2>4 DEF DataOf
<1> QED BY <1>7, <1>8, <1>9, <1>10

\* What has been received.
LEMMA ReceivedLater ==
    ASSUME NEW c, NEW t, NEW P, Sends(c, P), Sends(t, P), Progress(c, t), NEW r, Received(r, c, P)
    PROVE  Received(r, t, P)
<1>1. PICK w, n, D, R, x : /\ w = r.rc.receive_window /\ n = r.rc.rcv_nxt /\ D = r.delivered
                           /\ R = r.receive_buffer /\ x = r.rc.receive_index
  OBVIOUS
<1>2. ASSUME InOrder(w, n, D, R, x, c, P) PROVE InOrder(w, n, D, R, x, t, P)
  <2>1. /\ w.started = TRUE /\ ListOf(w, P, Limit(c)) /\ ReadUpTo(P, w.first, D, R, x)
        /\ n = w.first \/ PastFin(w, n, c)
        /\ Ahead(w)
    BY <1>2 DEF InOrder
  <2>2. PICK i \in Nat : i = Limit(c) BY LimitLater
  <2>3. PICK j \in Nat : j = Limit(t) /\ i <= j /\ \A p \in Packets : DataOf(p, P, i) => DataOf(p, P, j)
    BY <2>2, LimitLater
  <2>4. w \in Buffers /\ w.first \in Nat BY <2>1 DEF ListOf, Buffers, SeqNum
  <2>5. ListOf(w, P, j)
    <3>1. w.first <= j BY <2>1, <2>2, <2>3, <2>4 DEF ListOf
    <3>2. ASSUME NEW k \in 1 .. Len(w.packets) PROVE DataOf(w.packets[k], P, j)
      <4>1. w.packets[k] \in Packets BY <2>4 DEF Buffers
      <4>2. DataOf(w.packets[k], P, i) BY <2>1, <2>2 DEF ListOf
      <4> QED BY <2>3, <4>1, <4>2
    <3> QED BY <2>1, <3>1, <3>2 DEF ListOf
  <2>6. PastFin(w, n, c) => PastFin(w, n, t)
    <3>1. ASSUME PastFin(w, n, c) PROVE PastFin(w, n, t)
      <4>1. t.closed /\ t.accepted = c.accepted BY <3>1 DEF PastFin, Progress
      <4>2. n <= t.rc.snd_max
        <5>1. n \in Nat /\ c.rc.snd_max \in Nat /\ t.rc.snd_max \in Nat BY <2>4, <3>1, SendsType DEF PastFin
        <5>2. n <= c.rc.snd_max /\ c.rc.snd_max <= t.rc.snd_max BY <3>1 DEF PastFin, Progress
        <5> QED BY <5>1, <5>2
      <4> QED BY <3>1, <4>1, <4>2 DEF PastFin
    <3> QED BY <3>1
  <2> QED BY <2>1, <2>3, <2>5, <2>6 DEF InOrder
<1> QED BY <1>1, <1>2 DEF Received

\* A packet under way.
LEMMA SentLater ==
    ASSUME NEW c, NEW t, NEW P, Sends(c, P), Sends(t, P), Progress(c, t), c.rc.rcv_nxt \in Nat, t.rc.rcv_nxt \in Nat,
           NEW n \in Nat, NEW m \in Nat, n <= m, NEW p, SentOK(p, c, n, P)
    PROVE  SentOK(p, t, m, P)
<1>1. p \in Packets BY DEF SentOK
<1>2. PICK k \in Nat : k = p.seq BY <1>1 DEF Packets, SeqNum
<1>3. PICK a \in Nat : a = p.ackno BY <1>1 DEF Packets, SeqNum
<1>4. PICK i \in Nat : i = c.rc.snd_max BY SendsType
<1>5. PICK j \in Nat : j = t.rc.snd_max BY SendsType
<1>6. Iss \in Nat /\ i <= j BY <1>4, <1>5, SendsType DEF Progress
<1>7. p.syn => p.seq = Iss /\ ~p.fin /\ p.data = <<>> /\ Iss + 1 <= t.rc.snd_max
  BY <1>4, <1>5, <1>6 DEF SentOK
<1>8. p.fin => /\ p.data = <<>> /\ t.closed
               /\ p.seq = Iss + 1 + t.accepted /\ p.seq <= m /\ p.seq + 1 <= t.rc.snd_max
  BY SMTT(30), <1>2, <1>4, <1>5, <1>6 DEF SentOK, Progress
<1>9. p.data # <<>> => DataOf(p, P, Limit(t)) BY <1>1, LimitLater DEF SentOK
<1>10. p.ackno <= t.rc.rcv_nxt /\ AckNo(p) BY <1>3 DEF SentOK, Progress
<1> QED BY <1>1, <1>7, <1>8, <1>9, <1>10 DEF SentOK

\* A FIN that has been taken.
LEMMA FinTakenLater ==
    ASSUME NEW c, NEW t, Progress(c, t), NEW r, FinTaken(r, c)
    PROVE  FinTaken(r, t)
BY DEF FinTaken, Progress

\* It stays taken when the application calls recv().
LEMMA FinTakenReads ==
    ASSUME NEW s, NEW P, Sends(s, P), NEW c, Received(c, s, P), FinTaken(c, s), NEW t, Reads(c, t, s, P)
    PROVE  FinTaken(t, s)
<1>1. Len(t.delivered) \in Nat /\ Len(t.delivered) <= s.accepted /\ s.accepted \in Nat
  BY DeliveredBound, SendsType DEF Reads
<1>2. Len(c.delivered) <= Len(t.delivered) /\ Len(c.delivered) \in Nat BY DeliveredBound DEF Reads
<1> QED BY <1>1, <1>2 DEF FinTaken, Reads

-------------------------------------------------------------------------------
\* The two streams of a connection.

\* What s has taken as acknowledged its peer r has received.
Acked(s, r) == s.rc.snd_una <= Greater(Iss, r.rc.rcv_nxt)

\* A FIN that waits.
Waiting(p, s, n, P) == p.fin /\ SentOK(p, s, n, P)

\* What r has received of s, also of a FIN that waits.
Incoming(r, s, P) ==
    /\ Received(r, s, P) /\ FinTaken(r, s)
    /\ \A p \in r.saved_fin \cup r.redispatched : Waiting(p, s, r.rc.rcv_nxt, P)

\* The stream P from s to r, with the packets N of s under way.
Flow(s, r, P, N) ==
    /\ Incoming(r, s, P) /\ Acked(s, r) /\ Opened(s)
    /\ \A p \in N : SentOK(p, s, r.rc.rcv_nxt, P)

Flows(H, N) == \A h \in Hosts : Flow(H[h], H[Peer(h)], Payload[h], N[h])

\* A step of c, whose peer is s with payload P: what t has received and what it
\* takes as acknowledged is in order.
HostStep(c, t, s, P) == Incoming(t, s, P) /\ Acked(t, s) /\ Opened(t) /\ Progress(c, t)

\* The stream of the host that takes the step.
LEMMA FlowOut ==
    ASSUME NEW c, NEW t, NEW P, Sends(c, P), Sends(t, P), Progress(c, t),
           c.rc.rcv_nxt \in Nat, t.rc.rcv_nxt \in Nat,
           NEW r, NEW N, NEW N2, Flow(c, r, P, N), Acked(t, r), Opened(t),
           \A p \in N2 : p \in N \/ SentOK(p, t, r.rc.rcv_nxt, P)
    PROVE  Flow(t, r, P, N2)
<1>1. Received(r, c, P) /\ FinTaken(r, c) BY DEF Flow, Incoming
<1>2. r.rc.rcv_nxt \in Nat BY <1>1 DEF Received
<1>3. Received(r, t, P) BY <1>1, ReceivedLater
<1>4. FinTaken(r, t) BY <1>1, FinTakenLater
<1>5. ASSUME NEW p, SentOK(p, c, r.rc.rcv_nxt, P) PROVE SentOK(p, t, r.rc.rcv_nxt, P)
  <2>1. r.rc.rcv_nxt <= r.rc.rcv_nxt BY <1>2
  <2> QED BY <1>2, <1>5, <2>1, SentLater
<1>6. \A p \in r.saved_fin \cup r.redispatched : Waiting(p, t, r.rc.rcv_nxt, P)
  BY <1>5 DEF Flow, Incoming, Waiting
<1>7. \A p \in N2 : SentOK(p, t, r.rc.rcv_nxt, P) BY <1>5 DEF Flow
<1> QED BY <1>3, <1>4, <1>6, <1>7 DEF Flow, Incoming

\* A sender as it is.
LEMMA NoProgress ==
    ASSUME NEW c, NEW P, Sends(c, P), c.rc.rcv_nxt \in Nat
    PROVE  Progress(c, c)
<1>1. c.accepted \in Nat /\ c.rc.snd_max \in Nat BY SendsType
<1> QED BY <1>1 DEF Progress

\* The stream it receives.
LEMMA FlowIn ==
    ASSUME NEW s, NEW P, Sends(s, P), s.rc.rcv_nxt \in Nat, NEW c, NEW t, c.rc.rcv_nxt \in Nat, Incoming(t, s, P),
           c.rc.rcv_nxt <= t.rc.rcv_nxt, NEW N, NEW N2, Flow(s, c, P, N), N2 \subseteq N
    PROVE  Flow(s, t, P, N2)
<1>1. PICK n \in Nat : n = c.rc.rcv_nxt OBVIOUS
<1>2. PICK m \in Nat : m = t.rc.rcv_nxt BY DEF Incoming, Received
<1>3. n <= m BY <1>1, <1>2
<1>4. Progress(s, s) BY NoProgress
<1>5. ASSUME NEW p \in N2 PROVE SentOK(p, s, m, P)
  <2>1. SentOK(p, s, n, P) BY <1>1 DEF Flow
  <2> QED BY <1>3, <1>4, <2>1, SentLater
<1>6. Acked(s, t)
  <2>1. s.rc.snd_una <= Greater(Iss, n) BY <1>1 DEF Flow, Acked
  <2>2. s.rc.snd_una \in Nat /\ Iss \in Nat
    <3>1. s.rc.snd_una \in Nat BY DEF Sends, Typed, SeqNum
    <3> QED BY <3>1, SendsType
  <2>3. s.rc.snd_una <= Greater(Iss, m)
    <3>1. PICK u \in Nat : u = s.rc.snd_una BY <2>2
    <3> QED BY <1>3, <2>1, <2>2, <3>1 DEF Greater
  <2> QED BY <1>2, <2>3 DEF Acked
<1> QED BY <1>2, <1>5, <1>6 DEF Flow

\* The numbers of the hosts of a connection.
LEMMA HostSends ==
    ASSUME StreamsFit, NEW H, NEW N, Connection(H, N), NEW h \in Hosts
    PROVE  Sends(H[h], Payload[h]) /\ Shape(H[h]) /\ H[h].rc.rcv_nxt \in Nat /\ HostInv(H[h], Payload[h])
<1>1. HostInv(H[h], Payload[h]) BY DEF Connection, Carried
<1>2. Typed(H[h], Payload[h]) /\ Shape(H[h]) /\ ReceiverOK(H[h]) BY <1>1 DEF HostInv
<1>3. StreamFits(Payload[h]) BY DEF StreamsFit
<1>4. H[h].rc.rcv_nxt \in Nat BY <1>2 DEF ReceiverOK, SeqNum
<1> QED BY <1>1, <1>2, <1>3, <1>4 DEF Sends

\* A step of host h, whose socket is t then, keeps both streams in order.
LEMMA FlowsStep ==
    ASSUME StreamsFit, NEW H, NEW N, Connection(H, N), Flows(H, N), NEW h \in Hosts, NEW t,
           NEW H2, H2 = [H EXCEPT ![h] = t], NEW N2, Connection(H2, N2),
           HostStep(H[h], t, H[Peer(h)], Payload[Peer(h)]),
           \A p \in N2[h] : p \in N[h] \/ SentOK(p, t, H[Peer(h)].rc.rcv_nxt, Payload[h]),
           N2[Peer(h)] \subseteq N[Peer(h)]
    PROVE  Flows(H2, N2)
<1>1. DOMAIN H = Hosts BY DEF Connection
<1>2. PICK g : g = Peer(h) /\ g \in Hosts /\ g # h /\ Peer(g) = h /\ \A k \in Hosts : k = h \/ k = g BY Peers
<1>3. H2[h] = t /\ H2[g] = H[g] BY <1>1, <1>2
<1>4. Sends(H[h], Payload[h]) /\ H[h].rc.rcv_nxt \in Nat BY HostSends
<1>5. Sends(H[g], Payload[g]) /\ H[g].rc.rcv_nxt \in Nat BY <1>2, HostSends
<1>6. Sends(t, Payload[h]) /\ t.rc.rcv_nxt \in Nat BY <1>3, HostSends
<1>7. Incoming(t, H[g], Payload[g]) /\ Acked(t, H[g]) /\ Opened(t) /\ Progress(H[h], t) BY <1>2 DEF HostStep
<1>8. Flow(H[h], H[g], Payload[h], N[h]) /\ Flow(H[g], H[h], Payload[g], N[g]) BY <1>2 DEF Flows
<1>9. Flow(t, H[g], Payload[h], N2[h]) BY <1>2, <1>4, <1>6, <1>7, <1>8, FlowOut
<1>10. Flow(H[g], t, Payload[g], N2[g])
  <2>1. H[h].rc.rcv_nxt <= t.rc.rcv_nxt BY <1>7 DEF Progress
  <2> QED BY <1>2, <1>4, <1>5, <1>7, <1>8, <2>1, FlowIn
<1> QED BY <1>2, <1>3, <1>9, <1>10 DEF Flows

\* c, whose payload is Q, before a step; s is its peer, whose payload is P.
Ready(c, Q, s, P) ==
    /\ HostInv(c, Q) /\ Shape(c) /\ Sends(c, Q) /\ Sends(s, P)
    /\ Incoming(c, s, P) /\ Acked(c, s) /\ Acked(s, c) /\ Opened(c) /\ Opened(s)
    /\ c.rc.rcv_nxt \in Nat /\ s.rc.rcv_nxt \in Nat

\* The hosts of a connection are.
LEMMA ReadyHost ==
    ASSUME StreamsFit, NEW H, NEW N, Connection(H, N), Flows(H, N), NEW h \in Hosts
    PROVE  Ready(H[h], Payload[h], H[Peer(h)], Payload[Peer(h)])
<1>1. PICK g : g = Peer(h) /\ g \in Hosts /\ Peer(g) = h BY Peers
<1>2. Flow(H[h], H[g], Payload[h], N[h]) /\ Flow(H[g], H[h], Payload[g], N[g]) BY <1>1 DEF Flows
<1>3. /\ Incoming(H[h], H[g], Payload[g]) /\ Acked(H[h], H[g]) /\ Acked(H[g], H[h])
      /\ Opened(H[h]) /\ Opened(H[g])
  BY <1>2 DEF Flow
<1>4. Sends(H[h], Payload[h]) /\ Shape(H[h]) /\ H[h].rc.rcv_nxt \in Nat /\ HostInv(H[h], Payload[h]) BY HostSends
<1>5. Sends(H[g], Payload[g]) /\ H[g].rc.rcv_nxt \in Nat BY <1>1, HostSends
<1> QED BY <1>1, <1>3, <1>4, <1>5 DEF Ready

\* A peer that sends data has an acknowledged SYN: the host has taken it.
LEMMA DataBehindSyn ==
    ASSUME NEW c, NEW Q, NEW s, NEW P, Ready(c, Q, s, P), NEW p, SentOK(p, s, c.rc.rcv_nxt, P), p.data # <<>>
    PROVE  c.rc.rcv_nxt # 0
<1>1. PICK a \in Nat : a = s.accepted BY SendsType DEF Ready
<1>2. Iss \in Nat /\ Limit(s) \in Nat /\ Limit(s) <= Iss + 1 + a BY <1>1, SendsType DEF Ready
<1>3. a > 0
  <2>1. p.seq \in Int /\ p.data \in Seq(Nat) BY SeqNumInt DEF SentOK, Packets
  <2>2. PICK l \in Nat : l = Len(p.data) /\ l > 0 BY <2>1
  <2>3. Iss + 1 <= p.seq /\ p.seq + l <= Limit(s) BY <2>2 DEF SentOK, DataOf
  <2> QED BY <1>2, <2>1, <2>2, <2>3
<1>4. s.rc.snd_una > Iss BY <1>1, <1>3 DEF Ready, Opened, InUse
<1>5. s.rc.snd_una \in Int BY SeqNumInt DEF Ready, Sends, Typed
<1>6. s.rc.snd_una <= Greater(Iss, c.rc.rcv_nxt) BY DEF Ready, Acked
<1> QED BY <1>2, <1>4, <1>5, <1>6 DEF Greater

\* What has been received is the same, and no FIN is taken.
LEMMA StepSame ==
    ASSUME NEW c, NEW Q, NEW s, NEW P, Ready(c, Q, s, P), NEW t, SameIn(c, t), NoFin(c, t),
           t.saved_fin \cup t.redispatched \subseteq c.saved_fin \cup c.redispatched,
           t.rc.snd_una = c.rc.snd_una \/ t.rc.snd_una = Iss, Opened(t), Progress(c, t)
    PROVE  HostStep(c, t, s, P)
<1>1. Received(c, s, P) /\ FinTaken(c, s) /\ Acked(c, s)
      /\ \A p \in c.saved_fin \cup c.redispatched : Waiting(p, s, c.rc.rcv_nxt, P)
  BY DEF Ready, Incoming
<1>2. Received(t, s, P) BY <1>1, ReceivedSame
<1>3. t.delivered = c.delivered /\ t.rc.rcv_nxt = c.rc.rcv_nxt BY DEF SameIn
<1>4. FinTaken(t, s) BY <1>1, <1>3 DEF FinTaken, NoFin
<1>5. \A p \in t.saved_fin \cup t.redispatched : Waiting(p, s, t.rc.rcv_nxt, P) BY <1>1, <1>3
<1>6. Acked(t, s)
  <2>1. PICK k \in Nat : k = s.rc.rcv_nxt BY DEF Ready
  <2>2. Iss \in Nat BY SendsType DEF Ready
  <2>3. Iss <= Greater(Iss, k) BY <2>2 DEF Greater
  <2> QED BY <1>1, <2>1, <2>3 DEF Acked
<1> QED BY <1>2, <1>4, <1>5, <1>6 DEF HostStep, Incoming

\* Only the connection manager, congestion control and the queue change.
LEMMA StepPasses ==
    ASSUME NEW c, NEW Q, NEW s, NEW P, Ready(c, Q, s, P), NEW t, PassesOver(c, t), NoEntry(c, t)
    PROVE  HostStep(c, t, s, P)
<1>1. Progress(c, c) BY NoProgress DEF Ready
<1>2. Progress(c, t) BY <1>1 DEF Progress, PassesOver
<1>3. SameIn(c, t) BY DEF SameIn, PassesOver
<1>4. t.saved_fin \cup t.redispatched \subseteq c.saved_fin \cup c.redispatched BY DEF PassesOver
<1>5. t.rc.snd_una = c.rc.snd_una BY DEF PassesOver
<1>6. Opened(t) /\ NoFin(c, t) BY OpenedPasses DEF Ready, NoEntry
<1> QED BY <1>2, <1>3, <1>4, <1>5, <1>6, StepSame

\* The application reads.
LEMMA StepReads ==
    ASSUME NEW c, NEW Q, NEW s, NEW P, Ready(c, Q, s, P), NEW t, Reads(c, t, s, P)
    PROVE  HostStep(c, t, s, P)
<1>1. Received(c, s, P) /\ FinTaken(c, s) /\ Acked(c, s)
      /\ \A p \in c.saved_fin \cup c.redispatched : Waiting(p, s, c.rc.rcv_nxt, P)
  BY DEF Ready, Incoming
<1>2. Progress(c, c) BY NoProgress DEF Ready
<1>3. Progress(c, t) BY <1>2 DEF Progress, Reads
<1>4. Received(t, s, P) BY DEF Reads
<1>5. FinTaken(t, s) BY <1>1, FinTakenReads DEF Ready
<1>6. \A p \in t.saved_fin \cup t.redispatched : Waiting(p, s, t.rc.rcv_nxt, P) BY <1>1 DEF Reads
<1>7. Acked(t, s) BY <1>1 DEF Acked, Reads
<1>8. Opened(t) BY DEF Ready, Opened, InUse, Reads
<1> QED BY <1>3, <1>4, <1>5, <1>6, <1>7, <1>8 DEF HostStep, Incoming

\* A packet of the peer has arrived.
LEMMA StepArrived ==
    ASSUME NEW c, NEW Q, NEW s, NEW P, Ready(c, Q, s, P), NEW p, SentOK(p, s, c.rc.rcv_nxt, P),
           NEW b, b.rc = c.rc, b.accepted = c.accepted, b.closed = c.closed,
           b.saved_fin \cup b.redispatched \subseteq c.saved_fin \cup c.redispatched,
           NEW t, Arrived(b, t, s, P, p)
    PROVE  HostStep(c, t, s, P)
<1>1. Acked(c, s) /\ \A q \in c.saved_fin \cup c.redispatched : Waiting(q, s, c.rc.rcv_nxt, P)
  BY DEF Ready, Incoming
<1>2. Received(t, s, P) /\ FinTaken(t, s) /\ Opened(t) /\ c.rc.rcv_nxt <= t.rc.rcv_nxt BY DEF Arrived
<1>3. PICK n \in Nat : n = c.rc.rcv_nxt BY DEF Ready
<1>4. PICK m \in Nat : m = t.rc.rcv_nxt BY <1>2 DEF Received
<1>5. n <= m BY <1>2, <1>3, <1>4
<1>6. Progress(s, s) BY NoProgress DEF Ready
<1>7. ASSUME NEW q, SentOK(q, s, n, P) PROVE SentOK(q, s, m, P) BY <1>5, <1>6, <1>7, SentLater DEF Ready
<1>8. \A q \in t.saved_fin \cup t.redispatched : Waiting(q, s, m, P)
  <2>1. \A q \in t.saved_fin \cup t.redispatched : q \in c.saved_fin \cup c.redispatched \/ (q = p /\ q.fin)
    BY DEF Arrived
  <2> QED BY <1>1, <1>3, <1>7, <2>1 DEF Waiting
<1>9. Acked(t, s)
  <2>1. p.ackno \in Nat /\ p.ackno <= s.rc.rcv_nxt BY DEF SentOK, Packets, SeqNum
  <2>2. Iss \in Nat BY SendsType DEF Ready
  <2>3. s.rc.rcv_nxt \in Nat BY DEF Ready
  <2>4. p.ackno <= Greater(Iss, s.rc.rcv_nxt)
    <3>1. PICK k \in Nat : k = s.rc.rcv_nxt BY <2>3
    <3> QED BY <2>1, <2>2, <3>1 DEF Greater
  <2> QED BY <1>1, <2>4 DEF Acked, Arrived
<1>10. Progress(c, c) BY NoProgress DEF Ready
<1>11. Progress(c, t) BY <1>2, <1>10 DEF Progress, Arrived
<1> QED BY <1>2, <1>4, <1>8, <1>9, <1>11 DEF HostStep, Incoming

\* A failed assertion keeps what has been received.
LEMMA StepBecame ==
    ASSUME NEW c, NEW Q, NEW s, NEW P, Ready(c, Q, s, P), NEW d,
           d.aborted = None => HostStep(c, d, s, P)
    PROVE  HostStep(c, Became(c, d), s, P)
<1>1. CASE d.aborted = None BY <1>1 DEF Became
<1>2. CASE d.aborted # None
  <2>1. Shape(c) BY DEF Ready
  <2>2. PICK t : t = [c EXCEPT !.aborted = d.aborted, !.queue = <<>>] OBVIOUS
  <2>3. /\ t.rc = c.rc /\ t.receive_buffer = c.receive_buffer /\ t.delivered = c.delivered
        /\ t.accepted = c.accepted /\ t.closed = c.closed /\ t.state = c.state
        /\ t.saved_fin = c.saved_fin /\ t.redispatched = c.redispatched /\ t.saved_send = c.saved_send
    BY <2>1, <2>2 DEF Shape
  <2>4. Progress(c, c) BY NoProgress DEF Ready
  <2>5. Progress(c, t) BY <2>3, <2>4 DEF Progress
  <2>6. SameIn(c, t) BY <2>3 DEF SameIn
  <2>7. NoFin(c, t) BY <2>3 DEF NoFin
  <2>8. Opened(t) BY <2>3 DEF Ready, Opened, InUse
  <2>9. HostStep(c, t, s, P) BY <2>3, <2>5, <2>6, <2>7, <2>8, StepSame
  <2> QED BY <1>2, <2>2, <2>9 DEF Became
<1> QED BY <1>1, <1>2

-------------------------------------------------------------------------------
\* The calls of the application and the timers.

\* A running host has a send buffer.
LEMMA RunningBuffer ==
    ASSUME NEW c, NEW Q, HostInv(c, Q), Runs(c)
    PROVE  Len(c.send_buffer) \in Nat
<1>1. CASE c.rc.initialized
  <2>1. c.send_buffer \in Seq(Nat) BY <1>1 DEF HostInv, SenderOK, Bytes
  <2> QED BY <2>1
<1>2. CASE ~c.rc.initialized
  <2>1. c.send_buffer = <<>> BY <1>2 DEF HostInv, Fresh
  <2> QED BY <2>1
<1> QED BY <1>1, <1>2

\* t is c after n more bytes of the application were accepted.
Accepts(c, t, n) ==
    /\ t.rc = c.rc /\ t.receive_buffer = c.receive_buffer /\ t.delivered = c.delivered
    /\ t.state = c.state /\ t.closed = c.closed /\ t.aborted = c.aborted
    /\ t.saved_fin = c.saved_fin /\ t.redispatched = c.redispatched
    /\ n \in Nat /\ t.accepted = c.accepted + n

\* That is progress, of a connection in use before close().
LEMMA StepAccepts ==
    ASSUME NEW c, NEW Q, NEW s, NEW P, Ready(c, Q, s, P), InUse(c), ~c.closed, NEW t, NEW n, Accepts(c, t, n)
    PROVE  HostStep(c, t, s, P)
<1>1. Progress(c, c) BY NoProgress DEF Ready
<1>2. c.accepted <= t.accepted
  <2>1. c.accepted \in Nat BY SendsType DEF Ready
  <2>2. PICK a \in Nat : a = c.accepted BY <2>1
  <2>3. PICK k \in Nat : k = n BY DEF Accepts
  <2>4. a <= a + k OBVIOUS
  <2> QED BY <2>2, <2>3, <2>4 DEF Accepts
<1>3. Progress(c, t) BY <1>1, <1>2 DEF Progress, Accepts
<1>4. SameIn(c, t) BY DEF SameIn, Accepts
<1>5. NoFin(c, t) BY DEF NoFin, Accepts
<1>6. t.saved_fin \cup t.redispatched \subseteq c.saved_fin \cup c.redispatched /\ t.rc.snd_una = c.rc.snd_una
  BY DEF Accepts
<1>7. Opened(t) BY DEF Ready, Opened, Accepts
<1> QED BY <1>3, <1>4, <1>5, <1>6, <1>7, StepSame

\* The bytes that find room in the send buffer.
LEMMA SavedAccepts ==
    ASSUME StreamsFit, NEW c, DOMAIN c = SocketFields, Len(c.send_buffer) \in Nat,
           get_available_room_in_send_buffer(c) > 0, NEW data \in Seq(Nat)
    PROVE  \E n : Accepts(c, save_in_buffer_and_send_events(c, data), n)
                  /\ DOMAIN save_in_buffer_and_send_events(c, data) = SocketFields
<1>1. PICK l \in Nat : l = Len(data) OBVIOUS
<1>2. PICK room \in Nat : room = get_available_room_in_send_buffer(c)
  <2>1. MaxSendBuffer \in Nat BY Constants
  <2>2. PICK b \in Nat : b = Len(c.send_buffer) OBVIOUS
  <2>3. MaxSendBuffer - b \in Int /\ MaxSendBuffer - b > 0
    BY <2>1, <2>2 DEF get_available_room_in_send_buffer
  <2>4. MaxSendBuffer - b \in Nat BY <2>3
  <2> QED BY <2>2, <2>4 DEF get_available_room_in_send_buffer
<1>3. PICK n \in Nat : n = Lesser(room, l) BY DEF Lesser
<1>4. PICK t : t = save_in_buffer_and_send_events(c, data) OBVIOUS
<1>5. t = enqueue([c EXCEPT !.send_buffer = @ \o SubSeq(data, 1, n), !.accepted = @ + n], "send_buffer_not_empty")
  BY <1>1, <1>2, <1>3, <1>4 DEF save_in_buffer_and_send_events
<1>6. Accepts(c, t, n) /\ DOMAIN t = SocketFields BY <1>5 DEF enqueue, Accepts, SocketFields
<1> QED BY <1>4, <1>6

\* send().
LEMMA StepSend ==
    ASSUME StreamsFit, NEW c, NEW Q, NEW s, NEW P, Ready(c, Q, s, P), Runs(c), ~c.closed, can_send(c),
           NEW data \in Seq(Nat)
    PROVE  LET t == tahoe_send(c, data) IN HostStep(c, t, s, P) /\ t.aborted \in Excepted
<1>1. DOMAIN c = SocketFields BY DEF Ready, Shape, SocketFields
<1>2. PICK l \in Nat : l = Len(c.send_buffer) BY RunningBuffer DEF Ready
<1>3. get_available_room_in_send_buffer(c) >= 0
  <2>1. l <= MaxSendBuffer BY <1>2 DEF Ready, Sends, Typed
  <2>2. MaxSendBuffer \in Nat BY Constants
  <2> QED BY <1>2, <2>1, <2>2 DEF get_available_room_in_send_buffer
<1>4. InUse(c) BY DEF can_send, InUse, CanSendAck
<1>5. PICK t : t = tahoe_send(c, data) OBVIOUS
<1>6. \E n : Accepts(c, t, n)
  <2>1. CASE get_available_room_in_send_buffer(c) > 0
    <3>1. t = save_in_buffer_and_send_events(c, data) BY <1>3, <1>5, <2>1 DEF tahoe_send, Require
    <3> QED BY <1>1, <1>2, <2>1, <3>1, SavedAccepts
  <2>2. CASE ~(get_available_room_in_send_buffer(c) > 0)
    <3>1. t = [c EXCEPT !.saved_send = data] BY <1>3, <1>5, <2>2 DEF tahoe_send, Require
    <3>2. c.accepted \in Nat BY SendsType DEF Ready
    <3>3. c.accepted = c.accepted + 0 /\ 0 \in Nat BY <3>2
    <3>4. Accepts(c, t, 0) BY <1>1, <3>1, <3>3 DEF Accepts, SocketFields
    <3> QED BY <3>4
  <2> QED BY <2>1, <2>2
<1>7. HostStep(c, t, s, P) BY <1>4, <1>6, StepAccepts
<1>8. t.aborted \in Excepted BY <1>6 DEF Accepts, Runs, Excepted
<1> QED BY <1>5, <1>7, <1>8

\* The first event is taken from the queue.
LEMMA DequeuePasses ==
    ASSUME NEW c, DOMAIN c = SocketFields, NEW d, d = [c EXCEPT !.queue = Tail(@)]
    PROVE  Passes(c, d) /\ d.state = c.state /\ DOMAIN d = SocketFields
BY DEF Passes, PassesOver, AbortKept, SocketFields

\* A send() that waited gets the room: nothing waits once close() was called.
LEMMA StepNotFull ==
    ASSUME StreamsFit, NEW c, NEW Q, NEW s, NEW P, Ready(c, Q, s, P), Runs(c),
           NEW d, d = [c EXCEPT !.queue = Tail(@)]
    PROVE  LET t == send_buffer_not_full(d) IN HostStep(c, t, s, P) /\ t.aborted \in Excepted
<1>1. DOMAIN c = SocketFields BY DEF Ready, Shape, SocketFields
<1>2. Passes(c, d) /\ d.state = c.state /\ DOMAIN d = SocketFields BY <1>1, DequeuePasses
<1>3. c.aborted \in Excepted BY DEF Runs, Excepted
<1>4. CASE ~(d.saved_send # <<>> /\ get_available_room_in_send_buffer(d) > 0)
  <2>1. send_buffer_not_full(d) = d BY <1>4 DEF send_buffer_not_full
  <2>2. NoEntry(c, d) BY <1>2 DEF NoEntry, NoFin
  <2> QED BY <1>2, <1>3, <2>1, <2>2, StepPasses DEF Passes
<1>5. CASE d.saved_send # <<>> /\ get_available_room_in_send_buffer(d) > 0
  <2>1. HostInv(c, Q) /\ d.saved_send = c.saved_send /\ d.send_buffer = c.send_buffer
    BY <1>2 DEF Ready, Passes, PassesOver
  <2>2. c.rc.initialized BY <1>5, <2>1 DEF HostInv, Fresh
  <2>3. Calls(c, Q) BY <2>1, <2>2 DEF HostInv, SenderOK
  <2>4. ~c.closed /\ c.saved_send \in Seq(Nat) /\ InUse(c) BY <1>5, <2>1, <2>3 DEF Calls, InUse
  <2>5. Len(d.send_buffer) \in Nat BY <2>1, RunningBuffer
  <2>6. PICK t : t = save_in_buffer_and_send_events(d, d.saved_send) OBVIOUS
  <2>7. PICK n : Accepts(d, t, n) /\ DOMAIN t = SocketFields BY <1>2, <1>5, <2>1, <2>4, <2>5, <2>6, SavedAccepts
  <2>8. PICK u : u = [t EXCEPT !.saved_send = <<>>] OBVIOUS
  <2>9. send_buffer_not_full(d) = u BY <1>5, <2>6, <2>8 DEF send_buffer_not_full
  <2>10. Accepts(d, u, n) BY <2>7, <2>8 DEF Accepts, SocketFields
  <2>11. d.aborted = c.aborted BY <1>1 DEF SocketFields
  <2>12. Accepts(c, u, n) BY <1>2, <2>10, <2>11 DEF Accepts, Passes, PassesOver
  <2>13. HostStep(c, u, s, P) BY <2>4, <2>12, StepAccepts
  <2> QED BY <1>3, <2>9, <2>12, <2>13 DEF Accepts
<1> QED BY <1>4, <1>5

\* close().
LEMMA StepClose ==
    ASSUME NEW c, NEW Q, NEW s, NEW P, Ready(c, Q, s, P), Runs(c)
    PROVE  LET t == tahoe_close(c) IN HostStep(c, t, s, P) /\ t.aborted \in Excepted
<1>1. DOMAIN c = SocketFields BY DEF Ready, Shape, SocketFields
<1>2. PICK b : b = IF MayClose(c) THEN cm_close(c) ELSE [c EXCEPT !.saved_close = TRUE] OBVIOUS
<1>3. Passes(c, b) /\ NoEntry(c, b)
  <2>1. CASE MayClose(c) BY <1>1, <1>2, <2>1, CmCallsPass
  <2>2. CASE ~MayClose(c)
    <3>1. b = [c EXCEPT !.saved_close = TRUE] BY <1>2, <2>2
    <3> QED BY <1>1, <3>1 DEF Passes, PassesOver, AbortKept, NoEntry, NoFin, SocketFields
  <2> QED BY <2>1, <2>2
<1>4. PICK t : t = tahoe_close(c) OBVIOUS
<1>5. t = [b EXCEPT !.closed = TRUE] BY <1>2, <1>4 DEF tahoe_close
<1>6. DOMAIN b = SocketFields BY <1>1, <1>3 DEF Passes, PassesOver
<1>7. /\ t.rc = b.rc /\ t.receive_buffer = b.receive_buffer /\ t.delivered = b.delivered
      /\ t.accepted = b.accepted /\ t.closed = TRUE /\ t.state = b.state
      /\ t.saved_fin = b.saved_fin /\ t.redispatched = b.redispatched
      /\ t.saved_send = b.saved_send /\ t.aborted = b.aborted
  BY <1>5, <1>6 DEF SocketFields
<1>8. Progress(c, c) BY NoProgress DEF Ready
<1>9. Progress(c, t) BY <1>3, <1>7, <1>8 DEF Progress, Passes, PassesOver
<1>10. SameIn(c, t) BY <1>3, <1>7 DEF SameIn, Passes, PassesOver
<1>11. NoFin(c, t) BY <1>3, <1>7 DEF NoEntry, NoFin
<1>12. t.saved_fin \cup t.redispatched \subseteq c.saved_fin \cup c.redispatched /\ t.rc.snd_una = c.rc.snd_una
  BY <1>3, <1>7 DEF Passes, PassesOver
<1>13. Opened(t)
  <2>1. Opened(b) BY <1>3, OpenedPasses DEF Ready, Passes
  <2> QED BY <1>7, <2>1 DEF Opened, InUse
<1>14. HostStep(c, t, s, P) BY <1>9, <1>10, <1>11, <1>12, <1>13, StepSame
<1>15. t.aborted \in Excepted BY <1>3, <1>7 DEF Passes, Runs, Excepted
<1> QED BY <1>4, <1>14, <1>15

\* The retransmission timer.
LEMMA StepTimer ==
    ASSUME StreamsFit, NEW c, NEW Q, StreamFits(Q), NEW s, NEW P, Ready(c, Q, s, P), Runs(c), c.rc.timer
    PROVE  LET t == rc_timer_fired(c) IN HostStep(c, t, s, P) /\ t.aborted \in Excepted
<1>1. Shape(c) /\ HostInv(c, Q) BY DEF Ready
<1>2. c.rc.initialized BY <1>1 DEF HostInv, Fresh
<1>3. SenderOK(c, Q) BY <1>1, <1>2 DEF HostInv
<1>4. PICK b : b = cancel_timer(c) OBVIOUS
<1>5. /\ Shape(b) /\ SameReceive(c, b) /\ b.delivered = c.delivered /\ b.state = c.state
      /\ b.accepted = c.accepted /\ b.closed = c.closed
      /\ b.rc.snd_una = c.rc.snd_una /\ b.rc.snd_max = c.rc.snd_max
      /\ b.saved_send = c.saved_send /\ b.aborted = c.aborted
  BY <1>1, <1>4 DEF cancel_timer, Shape, SameReceive
<1>6. /\ b.rc.snd_una \in Nat /\ b.rc.snd_max \in Nat
      /\ b.rc.snd_una <= b.rc.snd_max /\ b.rc.snd_max <= IntMax
  <2>1. PICK u \in Nat : u = c.rc.snd_una BY <1>3 DEF SenderOK, Counters
  <2>2. PICK n \in Nat : n = c.rc.snd_nxt BY <1>3 DEF SenderOK, Counters
  <2>3. PICK m \in Nat : m = c.rc.snd_max BY <1>3 DEF SenderOK, Counters
  <2>4. PICK end \in Nat : end = BufferEnd(c) /\ end + 1 <= IntMax BY <1>3, SenderRange
  <2>5. u <= n /\ n <= m /\ m <= end BY <1>3, <2>1, <2>2, <2>3, <2>4 DEF SenderOK, Counters
  <2>6. IntMax \in Nat BY Constants
  <2> QED BY <1>5, <2>1, <2>3, <2>4, <2>5, <2>6
<1>7. PICK t : t = resend_data(b) OBVIOUS
<1>8. /\ SameCalls(b, t) /\ SameState(b, t) /\ SameReceive(b, t) /\ t.accepted = b.accepted
      /\ t.rc.snd_una = b.rc.snd_una /\ t.rc.snd_max = b.rc.snd_max
  BY <1>5, <1>6, <1>7, ResendData
<1>9. t.delivered = b.delivered /\ t.saved_send = b.saved_send /\ t.aborted = b.aborted
  BY <1>5, <1>7 DEF resend_data, enqueue, Shape
<1>10. Progress(c, c) BY NoProgress DEF Ready
<1>11. Progress(c, t) BY <1>5, <1>8, <1>10 DEF Progress, SameCalls, SameReceive
<1>12. SameIn(c, t) BY <1>5, <1>8, <1>9 DEF SameIn, SameReceive
<1>13. NoFin(c, t) BY <1>5, <1>8 DEF NoFin, SameState
<1>14. t.saved_fin \cup t.redispatched \subseteq c.saved_fin \cup c.redispatched /\ t.rc.snd_una = c.rc.snd_una
  BY <1>5, <1>8 DEF SameReceive
<1>15. Opened(t) BY <1>5, <1>8, <1>9 DEF Ready, Opened, InUse, SameState
<1>16. HostStep(c, t, s, P) BY <1>11, <1>12, <1>13, <1>14, <1>15, StepSame
<1>17. t.aborted \in Excepted BY <1>5, <1>9 DEF Runs, Excepted
<1> QED BY <1>4, <1>7, <1>16, <1>17 DEF rc_timer_fired

\* An event whose handler changes only the connection manager, congestion control and the
\* queue.
LEMMA StepEvent ==
    ASSUME NEW c, NEW Q, NEW s, NEW P, Ready(c, Q, s, P), NEW d, d = [c EXCEPT !.queue = Tail(@)],
           NEW t, PassesOver(d, t), t.state = d.state
    PROVE  HostStep(c, t, s, P)
<1>1. DOMAIN c = SocketFields BY DEF Ready, Shape, SocketFields
<1>2. Passes(c, d) /\ d.state = c.state BY <1>1, DequeuePasses
<1>3. PassesOver(c, t) BY <1>2, PassesOverTrans DEF Passes
<1>4. NoEntry(c, t) BY <1>2 DEF NoEntry, NoFin
<1> QED BY <1>3, <1>4, StepPasses

\* A packet arrives.
LEMMA StepReceive ==
    ASSUME StreamsFit, NEW c, NEW Q, StreamFits(Q), NEW s, NEW P, Ready(c, Q, s, P), Runs(c),
           NEW p, SentOK(p, s, c.rc.rcv_nxt, P), ~c.rc.initialized => PureSyn(p),
           NEW trap, NEW t, t = receive_packet(c, p, trap), ~OldSynAck(c, p)
    PROVE  /\ t.aborted = None => HostStep(c, t, s, P)
           /\ t.aborted \in Excepted
<1>1. Shape(c) /\ HostInv(c, Q) /\ Len(c.send_buffer) \in Nat BY RunningBuffer DEF Ready
<1>2. MayAck(c, Q, p)
  <2>1. CASE c.rc.initialized
    <3>1. HostOK(c, Q) BY <1>1, <2>1, RunningHost
    <3> QED BY <1>1, <3>1 DEF MayAck
  <2>2. CASE ~c.rc.initialized BY <1>1, <2>2 DEF MayAck, PureSyn
  <2> QED BY <2>1, <2>2
<1>3. Received(c, s, P) /\ FinTaken(c, s) /\ Sends(s, P) /\ Opened(c) BY DEF Ready, Incoming
<1>4. /\ t.aborted = None => Arrived(c, t, s, P, p)
      /\ Checkable(c, p) => t.aborted \in Excepted
  BY <1>2, <1>3, PacketArrived
<1>5. Checkable(c, p) BY DataBehindSyn DEF Checkable, Runs, Excepted
<1>6. t.aborted = None => HostStep(c, t, s, P) BY <1>4, StepArrived
<1> QED BY <1>4, <1>5, <1>6

\* The saved FIN comes back.
LEMMA StepSavedFin ==
    ASSUME StreamsFit, NEW c, NEW Q, StreamFits(Q), NEW s, NEW P, Ready(c, Q, s, P), Runs(c),
           NEW p \in c.redispatched, NEW b, b = [c EXCEPT !.redispatched = {}],
           NEW t, t = receive_packet(b, p, FALSE)
    PROVE  /\ t.aborted = None => HostStep(c, t, s, P)
           /\ t.aborted \in Excepted
<1>1. Shape(c) /\ HostInv(c, Q) /\ Len(c.send_buffer) \in Nat BY RunningBuffer DEF Ready
<1>2. c.rc.initialized BY <1>1 DEF HostInv, Fresh
<1>3. HostOK(c, Q) BY <1>1, <1>2, RunningHost
<1>4. HostOK(b, Q)
  <2>1. ReceiverOnly(c, b) BY <1>1 DEF ReceiverOnly, Shape, SameSend, SameCalls, SameState, AbortKept
  <2>2. ReceiverOK(c) /\ Formed(c) BY <1>3, HostFormed DEF HostOK
  <2>3. ReceiverOK(b) BY <1>1, <2>2 DEF ReceiverOK, Shape
  <2> QED BY <1>3, <2>1, <2>2, <2>3, ReceiverBeside, BesideHost
<1>5. /\ b.rc = c.rc /\ b.accepted = c.accepted /\ b.closed = c.closed /\ b.state = c.state
      /\ b.delivered = c.delivered /\ b.receive_buffer = c.receive_buffer /\ b.send_buffer = c.send_buffer
      /\ b.saved_fin = c.saved_fin /\ b.redispatched = {}
      /\ b.saved_send = c.saved_send /\ b.aborted = c.aborted
  BY <1>1 DEF Shape
<1>6. MayAck(b, Q, p) BY <1>1, <1>4, <1>5 DEF MayAck, HostOK
<1>7. Received(c, s, P) /\ FinTaken(c, s) /\ Sends(s, P) /\ Waiting(p, s, c.rc.rcv_nxt, P) BY DEF Ready, Incoming
<1>8. Received(b, s, P)
  <2>1. SameIn(c, b) BY <1>5 DEF SameIn
  <2> QED BY <1>7, <2>1, ReceivedSame
<1>9. FinTaken(b, s) BY <1>5, <1>7 DEF FinTaken
<1>10. SentOK(p, s, b.rc.rcv_nxt, P) /\ ~OldSynAck(b, p) BY <1>5, <1>7 DEF Waiting, SentOK, OldSynAck
<1>11. Opened(b) BY <1>5 DEF Ready, Opened, InUse
<1>12. /\ t.aborted = None => Arrived(b, t, s, P, p)
       /\ Checkable(b, p) => t.aborted \in Excepted
  BY <1>6, <1>7, <1>8, <1>9, <1>10, <1>11, PacketArrived
<1>13. Checkable(b, p) BY <1>5, <1>7 DEF Waiting, SentOK, Checkable, Runs, Excepted
<1>14. b.saved_fin \cup b.redispatched \subseteq c.saved_fin \cup c.redispatched BY <1>5
<1>15. t.aborted = None => HostStep(c, t, s, P) BY <1>5, <1>7, <1>10, <1>12, <1>14, StepArrived
<1> QED BY <1>12, <1>13, <1>15

\* recv(), and the bytes for one that waits.
LEMMA StepRead ==
    ASSUME NEW c, NEW Q, NEW s, NEW P, Ready(c, Q, s, P), Runs(c)
    PROVE  /\ \A n \in Nat : LET t == rc_receive(c, n) IN
                 HostStep(c, t, s, P) /\ (c.rc.receive_event = 0 => t.aborted \in Excepted)
           /\ \A d : d = [c EXCEPT !.queue = Tail(@)] =>
                 LET t == rc_receive_buffer_not_empty(d) IN HostStep(c, t, s, P) /\ t.aborted \in Excepted
<1>1. Shape(c) /\ Received(c, s, P) /\ Sends(s, P) /\ c.aborted \in Excepted
  BY DEF Ready, Incoming, Runs, Excepted
<1>2. ASSUME NEW n \in Nat, NEW t, t = rc_receive(c, n)
      PROVE  HostStep(c, t, s, P) /\ (c.rc.receive_event = 0 => t.aborted \in Excepted)
  <2>1. Reads(c, t, s, P) /\ (c.rc.receive_event = 0 => t.aborted = c.aborted) BY <1>1, <1>2, CallReads
  <2> QED BY <1>1, <2>1, StepReads
<1>3. ASSUME NEW d, d = [c EXCEPT !.queue = Tail(@)], NEW t, t = rc_receive_buffer_not_empty(d)
      PROVE  HostStep(c, t, s, P) /\ t.aborted \in Excepted
  <2>1. /\ Shape(d) /\ d.rc = c.rc /\ d.receive_buffer = c.receive_buffer /\ d.delivered = c.delivered
        /\ d.state = c.state /\ d.accepted = c.accepted /\ d.closed = c.closed
        /\ d.saved_fin = c.saved_fin /\ d.redispatched = c.redispatched
        /\ d.saved_send = c.saved_send /\ d.aborted = c.aborted
    BY <1>1, <1>3 DEF Shape
  <2>2. SameIn(c, d) BY <2>1 DEF SameIn
  <2>3. Received(d, s, P) BY <1>1, <2>2, ReceivedSame
  <2>4. Reads(d, t, s, P) /\ t.aborted = d.aborted BY <1>1, <1>3, <2>1, <2>3, CallReads
  <2>5. Reads(c, t, s, P) BY <2>1, <2>4 DEF Reads
  <2> QED BY <1>1, <2>1, <2>4, <2>5, StepReads
<1> QED BY <1>2, <1>3

\* The saved FIN is dispatched again.
LEMMA StepRedispatch ==
    ASSUME NEW c, NEW Q, NEW s, NEW P, Ready(c, Q, s, P), Runs(c), NEW d, d = [c EXCEPT !.queue = Tail(@)]
    PROVE  LET t == receive_buffer_not_full(d) IN HostStep(c, t, s, P) /\ t.aborted \in Excepted
<1>1. DOMAIN c = SocketFields BY DEF Ready, Shape, SocketFields
<1>2. Passes(c, d) /\ d.state = c.state /\ DOMAIN d = SocketFields BY <1>1, DequeuePasses
<1>3. PICK t : t = receive_buffer_not_full(d) OBVIOUS
<1>4. t = d \/ t = [d EXCEPT !.redispatched = d.saved_fin] BY <1>3 DEF receive_buffer_not_full
<1>5. /\ t.rc = d.rc /\ t.receive_buffer = d.receive_buffer /\ t.delivered = d.delivered /\ t.state = d.state
      /\ t.accepted = d.accepted /\ t.closed = d.closed /\ t.saved_fin = d.saved_fin
      /\ t.redispatched = d.redispatched \/ t.redispatched = d.saved_fin
      /\ t.saved_send = d.saved_send /\ t.aborted = d.aborted
  BY <1>2, <1>4 DEF SocketFields
<1>6. Progress(c, c) BY NoProgress DEF Ready
<1>7. Progress(c, t) BY <1>2, <1>5, <1>6 DEF Progress, Passes, PassesOver
<1>8. SameIn(c, t) /\ NoFin(c, t) BY <1>2, <1>5 DEF SameIn, NoFin, Passes, PassesOver
<1>9. t.saved_fin \cup t.redispatched \subseteq c.saved_fin \cup c.redispatched /\ t.rc.snd_una = c.rc.snd_una
  BY <1>2, <1>5 DEF Passes, PassesOver
<1>10. Opened(t) BY <1>2, <1>5 DEF Ready, Opened, InUse, Passes, PassesOver
<1>11. HostStep(c, t, s, P) BY <1>7, <1>8, <1>9, <1>10, StepSame
<1>12. t.aborted \in Excepted BY <1>2, <1>5 DEF Passes, Runs, Excepted
<1> QED BY <1>3, <1>11, <1>12

-------------------------------------------------------------------------------
\* A packet leaves.

\* t is d but for what numbering, the send buffer and congestion control keep.
Sent(d, t) ==
    /\ SameIn(d, t) /\ t.state = d.state /\ t.accepted = d.accepted /\ t.closed = d.closed
    /\ t.saved_fin = d.saved_fin /\ t.redispatched = d.redispatched /\ t.saved_send = d.saved_send

\* The reliability context numbers the segment, the other contexts leave its numbers alone.
LEMMA SendRest ==
    ASSUME NEW d, Shape(d), NEW s
    PROVE  /\ Sent(d, send_packet(d, s))
           /\ send_packet(d, s).rc = check_and_start_timer(set_sequence_number(d, s), s).rc
<1>1. PICK e : e = set_sequence_number(d, s) OBVIOUS
<1>2. /\ DOMAIN e = SocketFields /\ DOMAIN e.rc = DOMAIN d.rc /\ Sent(d, e)
  <2>1. PICK x : x = set_snd_nxt(d.rc, Plus(Iss, 1)) OBVIOUS
  <2>2. PICK y : y = set_snd_nxt(d.rc, Plus(d.rc.snd_nxt, SegmentLength(s))) OBVIOUS
  <2>3. PICK z : z = [x EXCEPT !.snd_una = Iss, !.initialized = TRUE] OBVIOUS
  <2>4. e = [d EXCEPT !.rc = z] \/ e = [d EXCEPT !.rc = y]
    BY <1>1, <2>1, <2>2, <2>3 DEF set_sequence_number, Shape
  <2>5. /\ DOMAIN x = DOMAIN d.rc /\ x.rcv_nxt = d.rc.rcv_nxt /\ x.rcv_wnd = d.rc.rcv_wnd
        /\ x.receive_event = d.rc.receive_event /\ x.receive_index = d.rc.receive_index
        /\ x.receive_window = d.rc.receive_window
    BY <2>1 DEF set_snd_nxt, Shape
  <2>6. /\ DOMAIN y = DOMAIN d.rc /\ y.rcv_nxt = d.rc.rcv_nxt /\ y.rcv_wnd = d.rc.rcv_wnd
        /\ y.receive_event = d.rc.receive_event /\ y.receive_index = d.rc.receive_index
        /\ y.receive_window = d.rc.receive_window
    BY <2>2 DEF set_snd_nxt, Shape
  <2>7. /\ DOMAIN z = DOMAIN d.rc /\ z.rcv_nxt = d.rc.rcv_nxt /\ z.rcv_wnd = d.rc.rcv_wnd
        /\ z.receive_event = d.rc.receive_event /\ z.receive_index = d.rc.receive_index
        /\ z.receive_window = d.rc.receive_window
    BY <2>3, <2>5 DEF Shape
  <2>8. CASE e = [d EXCEPT !.rc = z] BY <2>7, <2>8 DEF Shape, SocketFields, Sent, SameIn
  <2>9. CASE e = [d EXCEPT !.rc = y] BY <2>6, <2>9 DEF Shape, SocketFields, Sent, SameIn
  <2> QED BY <2>4, <2>8, <2>9
<1>3. PICK u : u = check_and_start_timer(e, s) OBVIOUS
<1>4. u = e \/ u = [e EXCEPT !.rc.timer = TRUE] BY <1>3 DEF check_and_start_timer, start_timer
<1>5. DOMAIN u = SocketFields /\ Sent(e, u) BY <1>2, <1>4 DEF SocketFields, Sent, SameIn, Shape
<1>6. PICK f : f = append_control_bytes_to_send_buffer(u, s) OBVIOUS
<1>7. DOMAIN f = SocketFields /\ Sent(u, f) /\ f.rc = u.rc
  <2>1. PICK b : b = Require(u, u.send_buffer = <<>>, "append_control_bytes") OBVIOUS
  <2>2. DOMAIN b = SocketFields /\ Sent(u, b) /\ b.rc = u.rc
    BY <1>5, <2>1 DEF Require, Abort, SocketFields, Sent, SameIn
  <2>3. \/ f = [b EXCEPT !.send_buffer = Append(@, SynByte)]
        \/ f = [u EXCEPT !.send_buffer = Append(@, FinByte)]
        \/ f = u
    BY <1>6, <2>1 DEF append_control_bytes_to_send_buffer
  <2>4. CASE f = [b EXCEPT !.send_buffer = Append(@, SynByte)]
    BY <2>2, <2>4 DEF SocketFields, Sent, SameIn
  <2>5. CASE f = [u EXCEPT !.send_buffer = Append(@, FinByte)]
    BY <1>5, <2>5 DEF SocketFields, Sent, SameIn
  <2>6. CASE f = u BY <1>5, <2>6 DEF Sent, SameIn
  <2> QED BY <2>3, <2>4, <2>5, <2>6
<1>8. PICK t : t = cc_send_packet(f, s) OBVIOUS
<1>9. Sent(f, t) /\ t.rc = f.rc
  <2>1. PICK x : t = [f EXCEPT !.ccc = x] BY <1>8 DEF cc_send_packet
  <2> QED BY <1>7, <2>1 DEF SocketFields, Sent, SameIn
<1>10. t = send_packet(d, s) /\ u = check_and_start_timer(set_sequence_number(d, s), s)
  BY <1>1, <1>3, <1>6, <1>8 DEF send_packet, rc_send_packet
<1>11. Sent(d, t) BY <1>2, <1>5, <1>7, <1>9 DEF Sent, SameIn
<1> QED BY <1>7, <1>9, <1>10, <1>11

\* The segment s has left c, which is t then, with number n.
Leaves(c, t, s, n) ==
    /\ Sent(c, t) /\ n \in Nat
    /\ t.rc.snd_max \in Nat /\ c.rc.snd_max <= t.rc.snd_max /\ n + SegmentLength(s) <= t.rc.snd_max
    /\ t.rc.snd_una = c.rc.snd_una \/ (t.rc.snd_una = Iss /\ ~InUse(c))

\* s may have number n: a FIN follows when everything has been acknowledged.
MayLeave(c, s, n, Q) ==
    /\ s.syn \in BOOLEAN /\ s.fin \in BOOLEAN /\ s.data \in Seq(Nat)
    /\ s.syn => n = Iss /\ ~s.fin /\ s.data = <<>>
    /\ s.fin => c.closed /\ n = Iss + c.accepted + 1 /\ n <= c.rc.snd_una /\ ~s.syn /\ s.data = <<>>
    /\ s.data # <<>> => /\ n > Iss /\ n + Len(s.data) <= Iss + c.accepted + 1
                        /\ s.data = SubSeq(Q, n - Iss, n - Iss + Len(s.data) - 1)

\* The first segment is a SYN.
LEMMA FirstLeaves ==
    ASSUME StreamsFit, NEW c, NEW Q, StreamFits(Q), Shape(c), Fresh(c), c.queue # <<>>,
           Head(c.queue).event = "send_packet", NEW d, d = [c EXCEPT !.queue = Tail(@)], NEW s, s = Head(c.queue).p
    PROVE  /\ Leaves(c, send_packet(d, s), s, Iss) /\ MayLeave(c, s, Iss, Q)
           /\ SequenceNumberOf(d) = Iss
<1>1. s \in {Syn, SynAck}
  <2>1. CASE c.queue = <<[event |-> "send_packet", p |-> Syn]>> BY <2>1
  <2>2. CASE c.queue = <<[event |-> "send_packet", p |-> SynAck]>> BY <2>2
  <2>3. CASE c.queue = <<[event |-> "connection_initiated", p |-> NakedSegment],
                         [event |-> "send_packet", p |-> SynAck]>>
    BY <2>3
  <2> QED BY <2>1, <2>2, <2>3, FreshHead DEF FirstSegment
<1>2. s.syn = TRUE /\ s.fin = FALSE /\ s.data = <<>> /\ SegmentLength(s) = 1
  BY <1>1 DEF Syn, SynAck, Segment, SegmentLength
<1>3. IntMax \in Nat /\ Iss \in Nat \ {0} BY Constants
<1>4. Iss + 1 <= IntMax
  <2>1. Len(Q) \in Nat /\ Iss + Len(Q) + 3 <= IntMax BY DEF StreamFits
  <2> QED BY <1>3, <2>1
<1>5. /\ Shape(d) /\ d.rc = c.rc /\ Sent(c, d) BY DEF Shape, Sent, SameIn
<1>6. Plus(Iss, 1) = Iss + 1 BY <1>3, <1>4, SmallPlus
<1>7. less_than(0, Iss + 1) BY <1>3, <1>4, SmallLess
<1>8. PICK u : u = check_and_start_timer(set_sequence_number(d, s), s) OBVIOUS
<1>9. u.rc.snd_max = Iss + 1 /\ u.rc.snd_una = Iss
  <2>1. d.rc.initialized = FALSE /\ d.rc.snd_max = 0 BY <1>5 DEF Fresh
  <2>2. PICK x : x = set_snd_nxt(d.rc, Iss + 1) OBVIOUS
  <2>3. x.snd_max = Iss + 1 /\ DOMAIN x = DOMAIN d.rc BY <1>5, <1>7, <2>1, <2>2 DEF set_snd_nxt, Shape
  <2>4. PICK y : y = [x EXCEPT !.snd_una = Iss, !.initialized = TRUE] OBVIOUS
  <2>5. y.snd_max = Iss + 1 /\ y.snd_una = Iss /\ DOMAIN y = DOMAIN d.rc BY <1>5, <2>3, <2>4 DEF Shape
  <2>6. set_sequence_number(d, s) = [d EXCEPT !.rc = y]
    BY <1>5, <1>6, <2>1, <2>2, <2>4 DEF set_sequence_number, Shape
  <2>7. PICK e : e = [d EXCEPT !.rc = y] OBVIOUS
  <2>8. e.rc = y /\ DOMAIN e = SocketFields BY <1>5, <2>7 DEF Shape, SocketFields
  <2>9. u = e \/ u = [e EXCEPT !.rc.timer = TRUE] BY <1>8, <2>6, <2>7 DEF check_and_start_timer, start_timer
  <2> QED BY <1>5, <2>5, <2>8, <2>9 DEF SocketFields, Shape
<1>10. PICK t : t = send_packet(d, s) OBVIOUS
<1>11. Sent(d, t) /\ t.rc = u.rc BY <1>5, <1>8, <1>10, SendRest
<1>12. Sent(c, t) BY <1>5, <1>11 DEF Sent, SameIn
<1>13. c.rc.snd_max = 0 /\ c.rc.initialized = FALSE BY DEF Fresh
<1>14. Leaves(c, t, s, Iss)
  <2>1. ~InUse(c) BY DEF Fresh, InUse, CanSendAck
  <2> QED BY <1>2, <1>3, <1>9, <1>11, <1>12, <1>13, <2>1 DEF Leaves
<1>15. <<>> \in Seq(Nat) OBVIOUS
<1>16. MayLeave(c, s, Iss, Q) BY <1>2, <1>15 DEF MayLeave
<1>17. SequenceNumberOf(d) = Iss BY <1>5, <1>13 DEF SequenceNumberOf
<1> QED BY <1>10, <1>14, <1>16, <1>17

\* Every later segment has the number that the queue gives it.
LEMMA NextLeaves ==
    ASSUME StreamsFit, NEW c, NEW Q, StreamFits(Q), Shape(c), SenderOK(c, Q), c.queue # <<>>,
           Head(c.queue).event = "send_packet", NEW d, d = [c EXCEPT !.queue = Tail(@)], NEW s, s = Head(c.queue).p
    PROVE  /\ Leaves(c, send_packet(d, s), s, c.rc.snd_nxt) /\ MayLeave(c, s, c.rc.snd_nxt, Q)
           /\ SequenceNumberOf(d) = c.rc.snd_nxt
<1>1. c.queue \in Seq(Events) BY DEF SenderOK
<1>2. Head(c.queue) = c.queue[1] /\ c.queue[1] \in Events BY <1>1
<1>3. ~Resending(c) BY <1>2 DEF Resending
<1>4. PICK e : Sending(c, Q, e) BY <1>3 DEF SenderOK
<1>5. Counters(c) /\ Bytes(c, Q) /\ Calls(c, Q) BY DEF SenderOK
<1>6. PICK u \in Nat : u = c.rc.snd_una BY <1>5 DEF Counters
<1>7. PICK n \in Nat : n = c.rc.snd_nxt BY <1>5 DEF Counters
<1>8. PICK m \in Nat : m = c.rc.snd_max BY <1>5 DEF Counters
<1>9. PICK end \in Nat : end = BufferEnd(c) /\ end + 1 <= IntMax BY SenderRange
<1>10. PICK k \in Nat : k = Len(c.send_buffer) /\ end = u + k BY <1>6, <1>9, SenderRange DEF BufferEnd
<1>11. PICK a \in Nat : a = c.accepted /\ a <= Len(Q) BY <1>5 DEF Bytes
<1>12. IntMax \in Nat /\ Iss \in Nat BY Constants
<1>13. Iss <= u /\ u <= n /\ n <= m /\ m <= end BY <1>5, <1>6, <1>7, <1>8, <1>9 DEF Counters
<1> DEFINE closing == c.state \in Ending
           fb == end = Iss + a + 2
<1>14. FinBuffered(c) <=> fb BY <1>9, <1>11 DEF FinBuffered
<1>15. end = Iss + a + 1 \/ (fb /\ closing /\ k <= 1) BY <1>5, <1>9, <1>10, <1>11, <1>14 DEF Counters
<1>16. closing /\ ~fb => c.send_buffer = <<>> BY <1>4, <1>14 DEF Sending
<1>17. s \in Segments BY <1>2 DEF Events
<1>18. s.syn \in BOOLEAN /\ s.fin \in BOOLEAN /\ s.data \in Seq(Nat) /\ Len(s.data) \in Nat BY <1>17 DEF Segments
<1>19. PICK l \in Nat : l = SegmentLength(s) BY <1>18 DEF SegmentLength
<1>20. Numbered(c.queue, n, e, Q, a, closing) BY <1>4, <1>7, <1>11 DEF Sending
<1>21. FitsAt(Head(c.queue), n, Q, a, closing)
  <2> HIDE DEF closing
  <2> QED BY <1>20, NumberedTail
<1>22. /\ s.syn => n = Iss /\ ~s.fin /\ s.data = <<>>
       /\ s.fin => closing /\ n = Iss + a + 1 /\ ~s.syn /\ s.data = <<>>
       /\ s.data # <<>> => /\ n > Iss /\ n + Len(s.data) <= Iss + a + 1
                           /\ s.data = SubSeq(Q, n - Iss, n - Iss + Len(s.data) - 1)
  BY <1>21 DEF FitsAt
<1>23. l = IF s.syn \/ s.fin THEN 1 ELSE Len(s.data) BY <1>19 DEF SegmentLength
<1>24. n + l <= IntMax /\ m <= IntMax
  <2>1. Len(Q) \in Nat /\ Iss + Len(Q) + 3 <= IntMax BY DEF StreamFits
  <2>2. PICK q \in Nat : q = Len(Q) BY <2>1
  <2>3. Iss + q + 3 <= IntMax /\ a <= q BY <1>11, <2>1, <2>2
  <2>4. m <= IntMax BY <1>9, <1>12, <1>13
  <2>5. CASE s.syn
    <3>1. n = Iss /\ l = 1 BY <1>22, <1>23, <2>5
    <3> QED BY <1>12, <2>3, <2>4, <3>1
  <2>6. CASE s.fin
    <3>1. n = Iss + a + 1 /\ l = 1 BY <1>22, <1>23, <2>6
    <3> QED BY <1>12, <2>3, <2>4, <3>1
  <2>7. CASE ~s.syn /\ ~s.fin /\ s.data # <<>>
    <3>1. l = Len(s.data) BY <1>23, <2>7
    <3>2. n + l <= Iss + a + 1 BY <1>22, <2>7, <3>1
    <3> QED BY <1>12, <2>3, <2>4, <3>2
  <2>8. CASE ~s.syn /\ ~s.fin /\ s.data = <<>>
    <3>1. l = 0 BY <1>23, <2>8
    <3>2. n <= IntMax BY <1>9, <1>12, <1>13
    <3> QED BY <2>4, <3>1, <3>2
  <2> QED BY <2>5, <2>6, <2>7, <2>8
<1>25. n <= u \/ ~s.fin
  <2>1. ASSUME s.fin PROVE n <= u
    <3>1. closing /\ n = Iss + a + 1 BY <1>22, <2>1
    <3>2. CASE fb BY SMTT(30), <1>10, <1>12, <1>15, <3>1, <3>2
    <3>3. CASE ~fb
      <4>1. k = 0 BY <1>10, <1>16, <3>1, <3>3
      <4> QED BY <1>10, <1>15, <3>1, <3>3, <4>1
    <3> QED BY <3>2, <3>3
  <2> QED BY <1>18, <2>1
<1>26. closing => c.closed BY <1>5 DEF Calls
<1>27. MayLeave(c, s, n, Q)
  <2> HIDE DEF closing, fb
  <2> QED BY <1>6, <1>11, <1>18, <1>22, <1>25, <1>26 DEF MayLeave
<1>28. Shape(d) /\ d.rc = c.rc /\ Sent(c, d) BY DEF Shape, Sent, SameIn
<1>29. c.rc.initialized = TRUE BY DEF SenderOK
<1>30. Countable(d, s) BY <1>7, <1>8, <1>19, <1>24, <1>28, <1>29 DEF Countable
<1>31. PICK v : v = check_and_start_timer(set_sequence_number(d, s), s) OBVIOUS
<1>32. Counted(d, s, v) BY <1>30, <1>31, NumberSegment
<1>33. v.rc.snd_una = c.rc.snd_una /\ v.rc.snd_max = Greater(m, n + l)
  BY <1>7, <1>8, <1>19, <1>28, <1>32 DEF Counted
<1>34. PICK j \in Nat : j = v.rc.snd_max /\ m <= j /\ n + l <= j BY <1>33 DEF Greater
<1>35. PICK t : t = send_packet(d, s) OBVIOUS
<1>36. Sent(d, t) /\ t.rc = v.rc BY <1>28, <1>31, <1>35, SendRest
<1>37. Sent(c, t) BY <1>28, <1>36 DEF Sent, SameIn
<1>38. Leaves(c, t, s, n) BY <1>8, <1>19, <1>33, <1>34, <1>36, <1>37 DEF Leaves
<1>39. SequenceNumberOf(d) = n BY <1>7, <1>28, <1>29 DEF SequenceNumberOf
<1> QED BY <1>7, <1>27, <1>35, <1>38, <1>39

\* What leaves belongs to the stream, and c has made progress.
LEMMA LeftOK ==
    ASSUME NEW c, NEW Q, NEW r, NEW P, Ready(c, Q, r, P), NEW t, NEW s, NEW n, Leaves(c, t, s, n), MayLeave(c, s, n, Q),
           NEW out \in Packets, out.seq = n, out.syn = s.syn, out.fin = s.fin, out.data = s.data,
           out.ackno = c.rc.rcv_nxt
    PROVE  HostStep(c, t, r, P) /\ SentOK(out, t, r.rc.rcv_nxt, Q)
<1>1. Sent(c, t) /\ n \in Nat BY DEF Leaves
<1>2. HostStep(c, t, r, P)
  <2>1. Progress(c, c) BY NoProgress DEF Ready
  <2>2. Progress(c, t) BY <1>1, <2>1 DEF Progress, Leaves, Sent, SameIn
  <2>3. SameIn(c, t) /\ NoFin(c, t) BY <1>1 DEF Sent, NoFin
  <2>4. t.saved_fin \cup t.redispatched \subseteq c.saved_fin \cup c.redispatched BY <1>1 DEF Sent
  <2>5. t.rc.snd_una = c.rc.snd_una \/ (t.rc.snd_una = Iss /\ ~InUse(c)) BY DEF Leaves
  <2>6. Opened(t) BY <1>1, <2>5 DEF Ready, Opened, InUse, Sent
  <2> QED BY <2>2, <2>3, <2>4, <2>5, <2>6, StepSame
<1>3. PICK m \in Nat : m = t.rc.snd_max BY DEF Leaves
<1>4. PICK l \in Nat : l = Len(s.data) BY DEF MayLeave
<1>5. n + (IF s.syn \/ s.fin THEN 1 ELSE l) <= m BY <1>3, <1>4 DEF Leaves, SegmentLength
<1>6. PICK a \in Nat : a = c.accepted /\ a = t.accepted BY <1>1, SendsType DEF Ready, Sent
<1>7. PICK u \in Nat : u = c.rc.snd_una
  <2>1. Sends(c, Q) BY DEF Ready
  <2>2. c.rc.snd_una \in SeqNum BY <2>1 DEF Sends, Typed
  <2> QED BY <2>2 DEF SeqNum
<1>8. PICK k \in Nat : k = r.rc.rcv_nxt BY DEF Ready
<1>9. Iss \in Nat BY SendsType DEF Ready
<1>10. s.syn \in BOOLEAN /\ s.fin \in BOOLEAN BY DEF MayLeave
<1>11. out.syn => out.seq = Iss /\ ~out.fin /\ out.data = <<>> /\ Iss + 1 <= t.rc.snd_max
  <2>1. ASSUME s.syn PROVE n = Iss /\ ~s.fin /\ s.data = <<>> /\ Iss + 1 <= m
    <3>1. n = Iss /\ ~s.fin /\ s.data = <<>> BY <2>1 DEF MayLeave
    <3>2. n + 1 <= m BY <1>5, <2>1
    <3> QED BY <3>1, <3>2
  <2> QED BY <1>3, <2>1
<1>12. out.fin => /\ out.data = <<>> /\ t.closed
                  /\ out.seq = Iss + 1 + t.accepted /\ out.seq <= r.rc.rcv_nxt /\ out.seq + 1 <= t.rc.snd_max
  <2>1. ASSUME s.fin PROVE s.data = <<>> /\ t.closed /\ n = Iss + 1 + a /\ n <= k /\ n + 1 <= m
    <3>1. s.data = <<>> /\ c.closed /\ n = Iss + a + 1 /\ n <= u BY <1>6, <1>7, <2>1 DEF MayLeave
    <3>2. t.closed BY <1>1, <3>1 DEF Sent
    <3>3. u <= Greater(Iss, k) BY <1>7, <1>8 DEF Ready, Acked
    <3>4. n <= k BY <1>1, <1>9, <3>1, <3>3 DEF Greater
    <3>5. n + 1 <= m BY <1>5, <2>1
    <3>6. n = Iss + 1 + a BY <1>6, <1>9, <3>1
    <3> QED BY <3>1, <3>2, <3>4, <3>5, <3>6
  <2> QED BY <1>3, <1>6, <1>8, <2>1
<1>13. out.data # <<>> => DataOf(out, Q, Limit(t))
  <2>1. ASSUME s.data # <<>> PROVE DataOf(out, Q, Limit(t))
    <3>1. /\ ~s.syn /\ ~s.fin /\ n > Iss /\ n + l <= Iss + a + 1
          /\ s.data = SubSeq(Q, n - Iss, n - Iss + l - 1)
      BY <1>4, <1>6, <2>1 DEF MayLeave
    <3>2. n + l <= m BY <1>5, <3>1
    <3>3. PICK i : i = Limit(t) /\ n + l <= i
      <4>1. Limit(t) = (IF Iss + 1 + a < m THEN Iss + 1 + a ELSE m) BY <1>3, <1>6 DEF Limit, Lesser
      <4>2. Limit(t) = Iss + 1 + a \/ Limit(t) = m BY <4>1
      <4>3. Iss + a + 1 = Iss + 1 + a BY <1>9
      <4>4. n + l <= Iss + 1 + a BY <3>1, <4>3
      <4> QED BY <3>2, <4>2, <4>4
    <3>4. Iss + 1 <= n BY <1>1, <1>9, <3>1
    <3>5. s.data = Slice(Q, n, n + l)
      <4>1. (n + l) - Iss - 1 = n - Iss + l - 1 BY <1>1, <1>4, <1>9
      <4> QED BY <3>1, <4>1 DEF Slice
    <3> QED BY <1>4, <2>1, <3>3, <3>4, <3>5 DEF DataOf
  <2> QED BY <2>1
<1>14. out.ackno <= t.rc.rcv_nxt
  <2>1. c.rc.rcv_nxt \in Nat BY DEF Ready
  <2> QED BY <1>1, <2>1 DEF Sent, SameIn
<1>15. AckNo(out)
  <2>1. PICK w : w = c.rc.receive_window OBVIOUS
  <2>2. PICK i : i = c.rc.rcv_nxt OBVIOUS
  <2>3. CASE NothingYet(w, i, c.delivered, c.receive_buffer, c.rc.receive_index)
    BY <2>2, <2>3 DEF AckNo, NothingYet
  <2>4. CASE InOrder(w, i, c.delivered, c.receive_buffer, c.rc.receive_index, r, P)
    <3>1. Iss + 1 <= w.first /\ w.first \in Int BY <2>4, SeqNumInt DEF InOrder, ListOf, Buffers
    <3>2. i = w.first \/ i = w.first + 1 BY <2>4 DEF InOrder, PastFin
    <3> QED BY <1>9, <2>2, <3>1, <3>2 DEF AckNo
  <2> QED BY <2>1, <2>2, <2>3, <2>4 DEF Ready, Incoming, Received
<1>16. SentOK(out, t, r.rc.rcv_nxt, Q) BY <1>11, <1>12, <1>13, <1>14, <1>15 DEF SentOK
<1> QED BY <1>2, <1>16

\* A packet leaves a running host.
LEMMA StepSent ==
    ASSUME StreamsFit, NEW c, NEW Q, StreamFits(Q), NEW r, NEW P, Ready(c, Q, r, P), Runs(c), c.queue # <<>>,
           Head(c.queue).event = "send_packet", NEW d, d = [c EXCEPT !.queue = Tail(@)], NEW s, s = Head(c.queue).p
    PROVE  LET t == send_packet(d, s)
           IN  /\ HostStep(c, t, r, P) /\ t.aborted = None
               /\ SentOK(OutgoingPacket(d, s), t, r.rc.rcv_nxt, Q)
<1>1. HostInv(c, Q) /\ Shape(c) BY DEF Ready
<1>2. Taken(c, d) BY <1>1, Dequeue
<1>3. PICK t : t = send_packet(d, s) OBVIOUS
<1>4. PICK out : out = OutgoingPacket(d, s) OBVIOUS
<1>5. t.aborted = None /\ out \in Packets BY <1>1, <1>2, <1>3, <1>4, SendStep
<1>6. PICK n : Leaves(c, t, s, n) /\ MayLeave(c, s, n, Q) /\ SequenceNumberOf(d) = n
  <2>1. CASE c.rc.initialized
    <3>1. SenderOK(c, Q) BY <1>1, <2>1 DEF HostInv
    <3> QED BY <1>1, <1>3, <3>1, NextLeaves
  <2>2. CASE ~c.rc.initialized
    <3>1. Fresh(c) BY <1>1, <2>2 DEF HostInv
    <3> QED BY <1>1, <1>3, <3>1, FirstLeaves
  <2> QED BY <2>1, <2>2
<1>7. d.rc = c.rc BY <1>2 DEF Taken
<1>8. out.seq = n /\ out.syn = s.syn /\ out.fin = s.fin /\ out.data = s.data /\ out.ackno = c.rc.rcv_nxt
  BY <1>4, <1>6, <1>7 DEF OutgoingPacket
<1> QED BY <1>3, <1>4, <1>5, <1>6, <1>8, LeftOK

\* A resent segment passes the assertions but the one about its length.
LEMMA StepResend ==
    ASSUME StreamsFit, NEW c, NEW Q, StreamFits(Q), NEW s, NEW P, Ready(c, Q, s, P), Runs(c), c.queue # <<>>,
           Head(c.queue).event = "resend_packet", NEW d, d = [c EXCEPT !.queue = Tail(@)]
    PROVE  LET t == cc_resend_packet(d) IN HostStep(c, t, s, P) /\ t.aborted \in Excepted
<1>1. HostInv(c, Q) /\ Shape(c) BY DEF Ready
<1>2. SenderOK(c, Q)
  <2>1. c.rc.initialized \/ Fresh(c) BY <1>1 DEF HostInv
  <2>2. ~Fresh(c) BY FreshHead
  <2> QED BY <1>1, <2>1, <2>2 DEF HostInv
<1>3. Resending(c)
  <2>1. c.queue \in Seq(Events) BY <1>2 DEF SenderOK
  <2>2. Head(c.queue) = c.queue[1] BY <2>1
  <2>3. ASSUME NEW e, Sending(c, Q, e) PROVE FALSE
    <3>1. Numbered(c.queue, c.rc.snd_nxt, e, Q, c.accepted, c.state \in Ending) BY <2>3 DEF Sending
    <3>2. FitsAt(Head(c.queue), c.rc.snd_nxt, Q, c.accepted, c.state \in Ending) BY <3>1, NumberedTail
    <3> QED BY <3>2 DEF FitsAt
  <2> QED BY <1>2, <2>3 DEF SenderOK
<1>4. Taken(c, d) BY <1>1, Dequeue
<1>5. PICK b : b = WentBack(d) OBVIOUS
<1>6. PICK g : g = ResentSegment(b) OBVIOUS
<1>7. PICK a \in Nat : a = c.accepted /\ a <= Len(Q) BY <1>1, <1>2, <1>3, <1>4, ResendStarts
<1>8. PICK o \in Nat : o = c.rc.snd_una - Iss BY <1>1, <1>2, <1>3, <1>4, ResendStarts
<1>9. /\ b.send_buffer # <<>>
      /\ (~g.syn /\ ~g.fin => g.data # <<>> \/ get_resend_data_length(b) > 0) => ResendsFrom(b, g, Q, a, o)
  BY <1>1, <1>2, <1>3, <1>4, <1>5, <1>6, <1>7, <1>8, ResendStarts
<1> DEFINE isData == ~g.syn /\ ~g.fin
<1>10. isData /\ get_resend_data_length(b) > 0 => g.data # <<>>
  <2>1. ASSUME isData, get_resend_data_length(b) > 0 PROVE g.data # <<>>
    <3>1. ResentFrom(b, g, Q, a, o) BY <1>7, <1>9, <2>1, ResentPlace
    <3>2. o # 0 /\ o # a + 1 BY <2>1, <3>1 DEF ResentFrom, Syn, Fin, Segment
    <3>3. Len(g.data) # 0 BY <1>7, <1>8, <3>1, <3>2 DEF ResentFrom
    <3> QED BY <3>3
  <2> QED BY <2>1
<1>11. DOMAIN b = SocketFields /\ b.aborted = None
  BY <1>4, <1>5 DEF WentBack, Taken, Shape, SocketFields, Runs
<1> DEFINE long == isData /\ b.send_buffer # <<>> => get_resend_data_length(b) > 0
           full == isData => g.data # <<>>
<1>12. PICK x : x = Require(b, b.send_buffer # <<>>, "resend_empty_buffer") OBVIOUS
<1>13. PICK y : y = Require(x, long, "resend_data_length") OBVIOUS
<1>14. PICK z : z = Require(y, full, "resend_no_data") OBVIOUS
<1>15. PICK t : t = cc_resend_packet(d) OBVIOUS
<1>16. t.aborted \in Excepted
  <2>1. x = b BY <1>9, <1>12 DEF Require
  <2>2. DOMAIN y = SocketFields /\ y.aborted \in {None, "resend_data_length"} /\ (y.aborted = None => y = b /\ long)
    BY <1>11, <1>13, <2>1 DEF Require, Abort, None, SocketFields
  <2>3. DOMAIN z = SocketFields /\ z.aborted \in {None, "resend_data_length"}
    <3>1. CASE long
      <4>1. full BY <1>9, <1>10, <3>1
      <4> QED BY <1>14, <2>2, <4>1 DEF Require
    <3>2. CASE ~long
      <4>1. y.aborted # None BY <2>2, <3>2
      <4>2. z.aborted = y.aborted /\ DOMAIN z = SocketFields
        BY <1>14, <2>2, <4>1 DEF Require, Abort, None, SocketFields
      <4> QED BY <2>2, <4>2
    <3> QED BY <3>1, <3>2
  <2>4. \E v : t = enqueue_send([z EXCEPT !.ccc = v], g)
    BY <1>5, <1>6, <1>12, <1>13, <1>14, <1>15 DEF cc_resend_packet, WentBack
  <2>5. t.aborted = z.aborted BY <2>3, <2>4 DEF enqueue_send, SocketFields
  <2> QED BY <2>3, <2>5 DEF Excepted
<1>17. DOMAIN d = SocketFields BY <1>4 DEF Taken, Shape, SocketFields
<1>18. PassesOver(d, t) /\ t.state = d.state BY <1>15, <1>17, CcTimersPass
<1>19. HostStep(c, t, s, P) BY <1>18, StepEvent
<1> QED BY <1>15, <1>16, <1>19

-------------------------------------------------------------------------------
\* The steps of the machine.

\* No assertion has failed but those.
Checked(H) == \A h \in Hosts : H[h].aborted \in Excepted

\* Both streams of the connection.
InFlow == Flows(host, net) /\ Checked(host)

\* The hosts of a connection are ready for a step.
LEMMA ReadyToStep ==
    ASSUME StreamsFit, Inv, InFlow, NEW h \in Hosts
    PROVE  /\ Ready(host[h], Payload[h], host[Peer(h)], Payload[Peer(h)])
           /\ StreamFits(Payload[h]) /\ host[h].aborted \in Excepted
<1>1. PICK H : H = host OBVIOUS
<1>2. PICK N : N = net OBVIOUS
<1>3. Connection(H, N) /\ Flows(H, N) BY <1>1, <1>2 DEF Inv, InFlow
<1>4. Ready(H[h], Payload[h], H[Peer(h)], Payload[Peer(h)]) BY <1>3, ReadyHost
<1>5. host[h].aborted \in Excepted BY DEF InFlow, Checked
<1> QED BY <1>1, <1>4, <1>5, OneHost

\* The handler of host h returns d, and the network changes.
LEMMA FlowChange ==
    ASSUME StreamsFit, Inv, Inv', InFlow, NEW h \in Hosts, NEW d, Become(h, d),
           d.aborted = None =>
                HostStep(host[h], d, host[Peer(h)], Payload[Peer(h)]),
           d.aborted \in Excepted,
           \A p \in net'[h] :
                p \in net[h] \/ SentOK(p, Became(host[h], d), host[Peer(h)].rc.rcv_nxt, Payload[h]),
           net'[Peer(h)] \subseteq net[Peer(h)]
    PROVE  InFlow'
<1>1. PICK H : H = host OBVIOUS
<1>2. PICK N : N = net OBVIOUS
<1>3. Connection(H, N) /\ Flows(H, N) BY <1>1, <1>2 DEF Inv, InFlow
<1>4. PICK t : t = Became(H[h], d) OBVIOUS
<1>5. PICK H2 : H2 = [H EXCEPT ![h] = t] OBVIOUS
<1>6. H2 = host' BY <1>1, <1>4, <1>5 DEF Become, Became
<1>7. PICK N2 : N2 = net' OBVIOUS
<1>8. Connection(H2, N2) BY <1>6, <1>7 DEF Inv
<1>9. Ready(H[h], Payload[h], H[Peer(h)], Payload[Peer(h)]) BY <1>3, ReadyHost
<1>11. HostStep(H[h], t, H[Peer(h)], Payload[Peer(h)]) BY <1>1, <1>4, <1>9, StepBecame
<1>12. \A p \in N2[h] : p \in N[h] \/ SentOK(p, t, H[Peer(h)].rc.rcv_nxt, Payload[h])
  BY <1>1, <1>2, <1>4, <1>7
<1>13. N2[Peer(h)] \subseteq N[Peer(h)] BY <1>2, <1>7
<1>14. Flows(H2, N2) BY <1>3, <1>5, <1>8, <1>11, <1>12, <1>13, FlowsStep
<1>15. Checked(H2)
  <2>1. Checked(H) BY <1>1 DEF InFlow
  <2>2. DOMAIN H = Hosts BY <1>3 DEF Connection
  <2>3. t.aborted \in Excepted
    <3>1. DOMAIN H[h] = SocketFields BY <1>9 DEF Ready, Shape, SocketFields
    <3>2. t.aborted = d.aborted BY <1>4, <3>1 DEF Became, SocketFields
    <3> QED BY <3>2
  <2> QED BY <1>5, <2>1, <2>2, <2>3 DEF Checked
<1> QED BY <1>6, <1>7, <1>14, <1>15 DEF InFlow

\* Nothing arrives and nothing leaves.
LEMMA FlowBecome ==
    ASSUME StreamsFit, Inv, Inv', InFlow, NEW h \in Hosts, NEW d, Become(h, d), net' = net,
           d.aborted = None =>
                HostStep(host[h], d, host[Peer(h)], Payload[Peer(h)]),
           d.aborted \in Excepted
    PROVE  InFlow'
<1>1. \A p \in net'[h] :
          p \in net[h] \/ SentOK(p, Became(host[h], d), host[Peer(h)].rc.rcv_nxt, Payload[h])
  OBVIOUS
<1>2. net'[Peer(h)] \subseteq net[Peer(h)] OBVIOUS
<1> QED BY <1>1, <1>2, FlowChange

\* A HIGH event whose handler returns d.
LEMMA FlowHandle ==
    ASSUME StreamsFit, Inv, Inv', InFlow, NEW h \in Hosts, NEW event, NEW d, Handle(h, event, d),
           Runs(host[h]) =>
                HostStep(host[h], d, host[Peer(h)], Payload[Peer(h)]) /\ d.aborted \in Excepted
    PROVE  InFlow'
<1>1. host[h].queue # <<>> /\ net' = net BY DEF Handle, NextEvent
<1>2. CASE host[h].exists
  <2>1. Become(h, d) BY <1>2 DEF Handle
  <2>2. Runs(host[h]) BY <1>1, <1>2, OneHost
  <2> QED BY <1>1, <2>1, <2>2, FlowBecome
<1>3. CASE ~host[h].exists
  <2>1. PICK c : c = host[h] OBVIOUS
  <2>2. PICK s : s = host[Peer(h)] OBVIOUS
  <2>3. Ready(c, Payload[h], s, Payload[Peer(h)]) BY <2>1, <2>2, ReadyToStep
  <2>4. PICK r : r = [c EXCEPT !.queue = Tail(@)] OBVIOUS
  <2>5. Become(h, r) BY <1>3, <2>1, <2>4 DEF Handle, Dequeued
  <2>6. DOMAIN c = SocketFields BY <2>3 DEF Ready, Shape, SocketFields
  <2>7. Passes(c, r) /\ NoEntry(c, r) BY <2>4, <2>6, DequeuePasses DEF NoEntry, NoFin
  <2>8. HostStep(c, r, s, Payload[Peer(h)]) BY <2>3, <2>7, StepPasses DEF Passes
  <2>9. r.aborted \in Excepted BY <2>1, <2>7, ReadyToStep DEF Passes
  <2> QED BY <1>1, <2>1, <2>2, <2>5, <2>8, <2>9, FlowBecome
<1> QED BY <1>2, <1>3

\* connect() and listen().
LEMMA FlowOpen ==
    ASSUME StreamsFit, Inv, Inv', InFlow, Connect \/ ListenCall
    PROVE  InFlow'
<1>1. Client \in Hosts /\ Server \in Hosts BY DEF Hosts
<1>2. ASSUME NEW h \in Hosts, NEW d, Become(h, d), net' = net,
             d = cm_connect(host[h]) \/ d = cm_listen(host[h])
      PROVE  InFlow'
  <2>1. PICK c : c = host[h] OBVIOUS
  <2>2. PICK s : s = host[Peer(h)] OBVIOUS
  <2>3. Ready(c, Payload[h], s, Payload[Peer(h)]) BY <2>1, <2>2, ReadyToStep
  <2>4. DOMAIN c = SocketFields BY <2>3 DEF Ready, Shape, SocketFields
  <2>5. Passes(c, d) /\ NoEntry(c, d) BY <1>2, <2>1, <2>4, CmCallsPass
  <2>6. HostStep(c, d, s, Payload[Peer(h)]) BY <2>3, <2>5, StepPasses DEF Passes
  <2>7. d.aborted \in Excepted BY <2>1, <2>5, ReadyToStep DEF Passes
  <2> QED BY <1>2, <2>1, <2>2, <2>6, <2>7, FlowBecome
<1>3. CASE Connect BY <1>1, <1>2, <1>3 DEF Connect
<1>4. CASE ListenCall BY <1>1, <1>2, <1>4 DEF ListenCall
<1> QED BY <1>3, <1>4

\* No recv() waits, but one that the FIN has overtaken.
Idle(c) == c.rc.receive_event = 0 \/ c.state = "CloseWait"

\* A call of the application; one that is not allowed changes nothing that matters here.
LEMMA FlowCall ==
    ASSUME StreamsFit, Inv, Inv', InFlow, NEW h \in Hosts,
           NEW allowed \in BOOLEAN, NEW d, ApplicationCall(h, allowed, d),
           Runs(host[h]) /\ ~host[h].closed /\ allowed /\ Idle(host[h]) =>
                HostStep(host[h], d, host[Peer(h)], Payload[Peer(h)]) /\ d.aborted \in Excepted
    PROVE  InFlow'
<1>1. Runs(host[h]) /\ ~host[h].closed /\ Idle(host[h]) /\ net' = net
  <2>1. AcceptsLow(h) /\ ~host[h].closed /\ Idle(host[h]) /\ net' = net
    BY DEF ApplicationCall, ApplicationIdle, Idle
  <2> QED BY <2>1, OneHost
<1>2. PICK r : r = IF allowed THEN d ELSE [host[h] EXCEPT !.stuck = TRUE] OBVIOUS
<1>3. Become(h, r) BY <1>2 DEF ApplicationCall
<1>4. PICK c : c = host[h] OBVIOUS
<1>5. PICK s : s = host[Peer(h)] OBVIOUS
<1>6. HostStep(c, r, s, Payload[Peer(h)]) /\ r.aborted \in Excepted
  <2>1. CASE allowed BY <1>1, <1>2, <1>4, <1>5, <2>1
  <2>2. CASE ~allowed
    <3>1. r = [c EXCEPT !.stuck = TRUE] BY <1>2, <1>4, <2>2
    <3>2. Ready(c, Payload[h], s, Payload[Peer(h)]) BY <1>4, <1>5, ReadyToStep
    <3>3. DOMAIN c = SocketFields BY <3>2 DEF Ready, Shape, SocketFields
    <3>4. PassesOver(c, r) /\ NoEntry(c, r) /\ r.aborted = c.aborted
      BY <3>1, <3>3 DEF PassesOver, NoEntry, NoFin, SocketFields, AbortKept
    <3>5. HostStep(c, r, s, Payload[Peer(h)]) BY <3>2, <3>4, StepPasses
    <3> QED BY <1>4, <3>4, <3>5, ReadyToStep
  <2> QED BY <2>1, <2>2
<1> QED BY <1>1, <1>3, <1>4, <1>5, <1>6, FlowBecome

\* The calls of a connected application.
LEMMA FlowApplication ==
    ASSUME StreamsFit, Inv, Inv', InFlow, NEW h \in Hosts, Send(h) \/ Receive(h) \/ Close(h)
    PROVE  InFlow'
<1>1. PICK c : c = host[h] OBVIOUS
<1>2. PICK s : s = host[Peer(h)] OBVIOUS
<1>3. PICK Q : Q = Payload[h] OBVIOUS
<1>4. PICK P : P = Payload[Peer(h)] OBVIOUS
<1>5. Ready(c, Q, s, P) /\ StreamFits(Q) BY <1>1, <1>2, <1>3, <1>4, ReadyToStep
<1>6. CASE Send(h)
  <2>1. PICK n \in SendLengths :
            ApplicationCall(h, can_send(c),
                tahoe_send(c, SubSeq(Q, c.accepted + 1, Lesser(c.accepted + n, Len(Q)))))
    BY <1>1, <1>3, <1>6 DEF Send
  <2>2. PICK data : data = SubSeq(Q, c.accepted + 1, Lesser(c.accepted + n, Len(Q))) OBVIOUS
  <2>3. PICK d : d = tahoe_send(c, data) OBVIOUS
  <2>4. PICK allowed \in BOOLEAN : allowed = can_send(c)
    <3>1. can_send(c) \in BOOLEAN BY DEF can_send
    <3> QED BY <3>1
  <2>5. ApplicationCall(h, allowed, d) BY <2>1, <2>2, <2>3, <2>4
  <2>6. data \in Seq(Nat)
    <3>1. Q \in Seq(Nat) BY <1>5 DEF StreamFits
    <3>2. n \in Nat BY DEF StreamsFit
    <3>3. c.accepted \in Nat BY <1>5, SendsType DEF Ready
    <3>4. PICK i \in Nat : i = c.accepted BY <3>3
    <3>5. PICK j \in Nat : j = Len(Q) BY <3>1
    <3>6. Lesser(i + n, j) \in Nat /\ Lesser(i + n, j) <= j BY <3>2 DEF Lesser
    <3>7. PICK k \in Nat : k = Lesser(i + n, j) /\ k <= j BY <3>6
    <3>8. SubSeq(Q, i + 1, k) \in Seq(Nat) BY <3>1, <3>5, <3>7
    <3> QED BY <2>2, <3>4, <3>5, <3>7, <3>8
  <2>7. Runs(c) /\ ~c.closed /\ allowed => HostStep(c, d, s, P) /\ d.aborted \in Excepted
    BY <1>5, <2>3, <2>4, <2>6, StepSend
  <2> QED BY <1>1, <1>2, <1>4, <2>5, <2>7, FlowCall
<1>7. CASE Receive(h)
  <2>1. PICK n \in RecvLengths : ApplicationCall(h, can_receive(c), rc_receive(c, n)) BY <1>1, <1>7 DEF Receive
  <2>2. PICK d : d = rc_receive(c, n) OBVIOUS
  <2>3. PICK allowed \in BOOLEAN : allowed = can_receive(c)
    <3>1. can_receive(c) \in BOOLEAN BY DEF can_receive
    <3> QED BY <3>1
  <2>4. ApplicationCall(h, allowed, d) BY <2>1, <2>2, <2>3
  <2>5. n \in Nat BY DEF StreamsFit
  <2>6. ASSUME Runs(c), allowed, Idle(c) PROVE HostStep(c, d, s, P) /\ d.aborted \in Excepted
    <3>1. c.rc.receive_event = 0 BY <2>3, <2>6 DEF Idle, can_receive
    <3> QED BY <1>5, <2>2, <2>5, <2>6, <3>1, StepRead
  <2> QED BY <1>1, <1>2, <1>4, <2>4, <2>6, FlowCall
<1>8. CASE Close(h)
  <2>1. PICK d : d = tahoe_close(c) OBVIOUS
  <2>2. ApplicationCall(h, TRUE, d) BY <1>1, <1>8, <2>1 DEF Close
  <2>3. Runs(c) => HostStep(c, d, s, P) /\ d.aborted \in Excepted BY <1>5, <2>1, StepClose
  <2> QED BY <1>1, <1>2, <1>4, <2>2, <2>3, FlowCall
<1> QED BY <1>6, <1>7, <1>8

\* A packet arrives, and may arrive again.
LEMMA FlowReceive ==
    ASSUME StreamsFit, Inv, Inv', InFlow, ~TakesOldSynAck, NEW h \in Hosts, ReceivePacket(h)
    PROVE  InFlow'
<1>1. PICK c : c = host[h] OBVIOUS
<1>2. PICK s : s = host[Peer(h)] OBVIOUS
<1>3. PICK Q : Q = Payload[h] OBVIOUS
<1>4. PICK P : P = Payload[Peer(h)] OBVIOUS
<1>5. PICK N : N = net OBVIOUS
<1>6. Ready(c, Q, s, P) /\ StreamFits(Q) BY <1>1, <1>2, <1>3, <1>4, ReadyToStep
<1>7. Runs(c) BY <1>1, OneHost DEF ReceivePacket
<1>8. Peer(h) \in Hosts /\ Peer(h) # h /\ Peer(Peer(h)) = h BY Peers
<1>9. PICK p \in N[Peer(h)] :
        /\ \E trap \in Traps(h) : Become(h, receive_packet(c, p, trap))
        /\ net' = [N EXCEPT ![Peer(h)] = @ \ {p}] \/ net' = N
  BY <1>1, <1>5 DEF ReceivePacket
<1>10. PICK trap \in Traps(h) : Become(h, receive_packet(c, p, trap)) BY <1>9
<1>11. PICK d : d = receive_packet(c, p, trap) OBVIOUS
<1>12. SentOK(p, s, c.rc.rcv_nxt, P)
  <2>1. Flow(host[Peer(h)], host[h], Payload[Peer(h)], N[Peer(h)]) BY <1>5, <1>8 DEF InFlow, Flows
  <2> QED BY <1>1, <1>2, <1>4, <2>1 DEF Flow
<1>13. ~c.rc.initialized => PureSyn(p)
  <2>1. PICK H : H = host OBVIOUS
  <2>2. Connection(H, N) BY <1>5, <2>1 DEF Inv
  <2>3. Handshake(H, N, h) BY <2>2 DEF Connection
  <2> QED BY <1>1, <2>1, <2>3 DEF Handshake
<1>14. (d.aborted = None => HostStep(c, d, s, P)) /\ d.aborted \in Excepted
  <2>1. ~OldSynAck(c, p) BY <1>1, <1>5, <1>9, <1>10 DEF TakesOldSynAck
  <2> QED BY <1>6, <1>7, <1>11, <1>12, <1>13, <2>1, StepReceive
<1>15. DOMAIN N = Hosts
  <2>1. PICK H : H = host OBVIOUS
  <2>2. Connection(H, N) BY <1>5, <2>1 DEF Inv
  <2> QED BY <2>2 DEF Connection
<1>16. net'[h] = N[h] /\ net'[Peer(h)] \subseteq N[Peer(h)] BY <1>8, <1>9, <1>15
<1> QED BY <1>1, <1>2, <1>4, <1>5, <1>10, <1>11, <1>14, <1>16, FlowChange

\* The saved FIN comes back, and the timers fire.
LEMMA FlowTimers ==
    ASSUME StreamsFit, Inv, Inv', InFlow, NEW h \in Hosts,
           ReceiveSavedFin(h) \/ RetransmissionTimer(h) \/ ProbeTimer(h) \/ TimeWaitTimer(h)
    PROVE  InFlow'
<1>1. PICK c : c = host[h] OBVIOUS
<1>2. PICK s : s = host[Peer(h)] OBVIOUS
<1>3. PICK Q : Q = Payload[h] OBVIOUS
<1>4. PICK P : P = Payload[Peer(h)] OBVIOUS
<1>5. Ready(c, Q, s, P) /\ StreamFits(Q) BY <1>1, <1>2, <1>3, <1>4, ReadyToStep
<1>6. DOMAIN c = SocketFields BY <1>5 DEF Ready, Shape, SocketFields
<1>7. AcceptsLow(h) /\ net' = net
  BY DEF ReceiveSavedFin, RetransmissionTimer, ProbeTimer, TimeWaitTimer
<1>8. Runs(c) BY <1>1, <1>7, OneHost
<1>9. ASSUME NEW d, Become(h, d), d.aborted = None => HostStep(c, d, s, P), d.aborted \in Excepted
      PROVE  InFlow'
  BY <1>1, <1>2, <1>4, <1>7, <1>9, FlowBecome
<1>10. CASE ReceiveSavedFin(h)
  <2>1. PICK b : b = [c EXCEPT !.redispatched = {}] OBVIOUS
  <2>2. PICK p \in c.redispatched : Become(h, receive_packet(b, p, FALSE))
    BY <1>1, <1>10, <2>1 DEF ReceiveSavedFin
  <2>3. PICK d : d = receive_packet(b, p, FALSE) OBVIOUS
  <2>4. (d.aborted = None => HostStep(c, d, s, P)) /\ d.aborted \in Excepted
    BY <1>5, <1>8, <2>1, <2>3, StepSavedFin
  <2> QED BY <1>9, <2>2, <2>3, <2>4
<1>11. CASE RetransmissionTimer(h)
  <2>1. Become(h, rc_timer_fired(c)) /\ c.rc.timer BY <1>1, <1>11 DEF RetransmissionTimer
  <2>2. HostStep(c, rc_timer_fired(c), s, P) /\ rc_timer_fired(c).aborted \in Excepted
    BY <1>5, <1>8, <2>1, StepTimer
  <2> QED BY <1>9, <2>1, <2>2
<1>12. CASE ProbeTimer(h)
  <2>1. PICK d : d = cc_timer_fired(c) OBVIOUS
  <2>2. Become(h, d) BY <1>1, <1>12, <2>1 DEF ProbeTimer
  <2>3. Passes(c, d) /\ d.state = c.state BY <1>6, <2>1, CcTimersPass
  <2>4. HostStep(c, d, s, P) BY <1>5, <2>3, StepPasses DEF Passes, NoEntry, NoFin
  <2>5. d.aborted \in Excepted BY <1>8, <2>3 DEF Passes, Runs, Excepted
  <2> QED BY <1>9, <2>2, <2>4, <2>5
<1>13. CASE TimeWaitTimer(h)
  <2>1. PICK d : d = cm_timer_fired(c) OBVIOUS
  <2>2. Become(h, d) BY <1>1, <1>13, <2>1 DEF TimeWaitTimer
  <2>3. Passes(c, d) /\ NoEntry(c, d) BY <1>6, <2>1, CmCallsPass
  <2>4. HostStep(c, d, s, P) BY <1>5, <2>3, StepPasses DEF Passes
  <2>5. d.aborted \in Excepted BY <1>8, <2>3 DEF Passes, Runs, Excepted
  <2> QED BY <1>9, <2>2, <2>4, <2>5
<1> QED BY <1>10, <1>11, <1>12, <1>13

\* A segment leaves a host, unless its socket has been deleted.
LEMMA FlowSend ==
    ASSUME StreamsFit, Inv, Inv', InFlow, NEW h \in Hosts, SendPacket(h)
    PROVE  InFlow'
<1>1. PICK c : c = host[h] OBVIOUS
<1>2. PICK r : r = host[Peer(h)] OBVIOUS
<1>3. PICK Q : Q = Payload[h] OBVIOUS
<1>4. PICK P : P = Payload[Peer(h)] OBVIOUS
<1>5. PICK N : N = net OBVIOUS
<1>6. Ready(c, Q, r, P) /\ StreamFits(Q) BY <1>1, <1>2, <1>3, <1>4, ReadyToStep
<1>7. DOMAIN c = SocketFields BY <1>6 DEF Ready, Shape, SocketFields
<1>8. c.queue # <<>> /\ Head(c.queue).event = "send_packet" BY <1>1 DEF SendPacket, NextEvent
<1>9. PICK d : d = [c EXCEPT !.queue = Tail(@)] OBVIOUS
<1>10. d = Dequeued(h) BY <1>1, <1>9 DEF Dequeued
<1>11. PICK s : s = Head(c.queue).p OBVIOUS
<1>12. Peer(h) \in Hosts /\ Peer(h) # h BY Peers
<1>13. CASE c.exists
  <2>1. Runs(c) BY <1>1, <1>8, <1>13, OneHost
  <2>2. PICK t : t = send_packet(d, s) OBVIOUS
  <2>3. PICK out : out = OutgoingPacket(d, s) OBVIOUS
  <2>4. HostStep(c, t, r, P) /\ t.aborted = None /\ SentOK(out, t, r.rc.rcv_nxt, Q)
    BY <1>6, <1>8, <1>9, <1>11, <2>1, <2>2, <2>3, StepSent
  <2>5. Become(h, t) /\ net' = [N EXCEPT ![h] = @ \cup {out}]
    BY <1>1, <1>5, <1>10, <1>11, <1>13, <2>2, <2>3, <2>4 DEF SendPacket
  <2>6. t = Became(c, t) BY <2>4 DEF Became
  <2>7. DOMAIN N = Hosts
    <3>1. PICK H : H = host OBVIOUS
    <3>2. Connection(H, N) BY <1>5, <3>1 DEF Inv
    <3> QED BY <3>2 DEF Connection
  <2>8. net'[h] = N[h] \cup {out} /\ net'[Peer(h)] = N[Peer(h)] BY <1>12, <2>5, <2>7
  <2>9. \A p \in net'[h] : p \in N[h] \/ SentOK(p, Became(c, t), r.rc.rcv_nxt, Q)
    BY <2>4, <2>6, <2>8
  <2>10. net'[Peer(h)] \subseteq N[Peer(h)] BY <2>8
  <2>11. t.aborted \in Excepted BY <2>4 DEF Excepted
  <2> QED BY <1>1, <1>2, <1>3, <1>4, <1>5, <2>4, <2>5, <2>9, <2>10, <2>11, FlowChange
<1>14. CASE ~c.exists
  <2>1. Become(h, d) /\ net' = net BY <1>1, <1>10, <1>14 DEF SendPacket
  <2>2. Passes(c, d) /\ NoEntry(c, d) BY <1>7, <1>9, DequeuePasses DEF NoEntry, NoFin
  <2>3. HostStep(c, d, r, P) BY <1>6, <2>2, StepPasses DEF Passes
  <2>4. d.aborted \in Excepted BY <1>1, <2>2, ReadyToStep DEF Passes
  <2> QED BY <1>1, <1>2, <1>4, <2>1, <2>3, <2>4, FlowBecome
<1> QED BY <1>13, <1>14

\* The other events of the queue.
LEMMA FlowHigh ==
    ASSUME StreamsFit, Inv, Inv', InFlow, NEW h \in Hosts,
           \/ ResendPacket(h) \/ SendBufferNotEmpty(h) \/ SendBufferNotFull(h)
           \/ ReceiveBufferNotEmpty(h) \/ ReceiveBufferNotFull(h)
           \/ ConnectionInitiated(h) \/ ConnectionEstablished(h) \/ DeleteSocket(h)
    PROVE  InFlow'
<1>1. PICK c : c = host[h] OBVIOUS
<1>2. PICK s : s = host[Peer(h)] OBVIOUS
<1>3. PICK Q : Q = Payload[h] OBVIOUS
<1>4. PICK P : P = Payload[Peer(h)] OBVIOUS
<1>5. Ready(c, Q, s, P) /\ StreamFits(Q) BY <1>1, <1>2, <1>3, <1>4, ReadyToStep
<1>6. DOMAIN c = SocketFields BY <1>5 DEF Ready, Shape, SocketFields
<1>7. PICK d : d = [c EXCEPT !.queue = Tail(@)] OBVIOUS
<1>8. d = Dequeued(h) BY <1>1, <1>7 DEF Dequeued
<1>9. DOMAIN d = SocketFields BY <1>6, <1>7, DequeuePasses
<1>10. ASSUME NEW event, NEW t, Handle(h, event, t),
              Runs(c) => HostStep(c, t, s, P) /\ t.aborted \in Excepted
       PROVE  InFlow'
  BY <1>1, <1>2, <1>4, <1>10, FlowHandle
<1>11. ASSUME NEW event, NEW t, Handle(h, event, t), Runs(c) => Passes(d, t) /\ t.state = d.state PROVE InFlow'
  <2>1. Runs(c) => HostStep(c, t, s, P) BY <1>5, <1>7, <1>11, StepEvent DEF Passes
  <2>2. Runs(c) => t.aborted \in Excepted
    <3>1. Passes(c, d) BY <1>6, <1>7, DequeuePasses
    <3> QED BY <1>11, <3>1 DEF Passes, Runs, Excepted
  <2> QED BY <1>10, <1>11, <2>1, <2>2
<1>12. CASE ResendPacket(h)
  <2>1. PICK t : t = cc_resend_packet(d) OBVIOUS
  <2>2. Handle(h, "resend_packet", t) BY <1>8, <1>12, <2>1 DEF ResendPacket
  <2>3. c.queue # <<>> /\ Head(c.queue).event = "resend_packet" BY <1>1, <2>2 DEF Handle, NextEvent
  <2>4. Runs(c) => HostStep(c, t, s, P) /\ t.aborted \in Excepted BY <1>5, <1>7, <2>1, <2>3, StepResend
  <2> QED BY <1>10, <2>2, <2>4
<1>13. CASE SendBufferNotEmpty(h)
  <2>1. PICK t : t = send_packets(d) OBVIOUS
  <2>2. Handle(h, "send_buffer_not_empty", t) BY <1>8, <1>13, <2>1 DEF SendBufferNotEmpty
  <2>3. ASSUME Runs(c) PROVE Passes(d, t) /\ t.state = d.state
    <3>1. Len(c.send_buffer) \in Nat BY <1>5, <2>3, RunningBuffer DEF Ready
    <3>2. d.send_buffer = c.send_buffer BY <1>6, <1>7, DequeuePasses DEF Passes, PassesOver
    <3> QED BY <1>9, <2>1, <3>1, <3>2, SendPacketsPasses
  <2> QED BY <1>11, <2>2, <2>3
<1>14. CASE SendBufferNotFull(h)
  <2>1. PICK t : t = send_buffer_not_full(d) OBVIOUS
  <2>2. Handle(h, "send_buffer_not_full", t) BY <1>8, <1>14, <2>1 DEF SendBufferNotFull
  <2>3. Runs(c) => HostStep(c, t, s, P) /\ t.aborted \in Excepted BY <1>5, <1>7, <2>1, StepNotFull
  <2> QED BY <1>10, <2>2, <2>3
<1>15. CASE ReceiveBufferNotEmpty(h)
  <2>1. PICK t : t = rc_receive_buffer_not_empty(d) OBVIOUS
  <2>2. Handle(h, "receive_buffer_not_empty", t) BY <1>8, <1>15, <2>1 DEF ReceiveBufferNotEmpty
  <2>3. Runs(c) => HostStep(c, t, s, P) /\ t.aborted \in Excepted BY <1>5, <1>7, <2>1, StepRead
  <2> QED BY <1>10, <2>2, <2>3
<1>16. CASE ReceiveBufferNotFull(h)
  <2>1. PICK t : t = receive_buffer_not_full(d) OBVIOUS
  <2>2. Handle(h, "receive_buffer_not_full", t) BY <1>8, <1>16, <2>1 DEF ReceiveBufferNotFull
  <2>3. Runs(c) => HostStep(c, t, s, P) /\ t.aborted \in Excepted BY <1>5, <1>7, <2>1, StepRedispatch
  <2> QED BY <1>10, <2>2, <2>3
<1>17. CASE ConnectionInitiated(h)
  <2>1. Handle(h, "connection_initiated", d) BY <1>8, <1>17 DEF ConnectionInitiated
  <2>2. Passes(d, d) BY <1>9, PassesBasics
  <2> QED BY <1>11, <2>1, <2>2
<1>18. CASE ConnectionEstablished(h)
  <2>1. PICK t : t = [d EXCEPT !.connected = TRUE] OBVIOUS
  <2>2. Handle(h, "connection_established", t) BY <1>8, <1>18, <2>1 DEF ConnectionEstablished
  <2>3. Passes(d, t) /\ t.state = d.state BY <1>9, <2>1 DEF Passes, PassesOver, SocketFields, AbortKept
  <2> QED BY <1>11, <2>2, <2>3
<1>19. CASE DeleteSocket(h)
  <2>1. PICK t : t = delete_socket(d) OBVIOUS
  <2>2. Handle(h, "delete_socket", t) BY <1>8, <1>19, <2>1 DEF DeleteSocket
  <2>3. Passes(d, t) /\ t.state = d.state BY <1>9, <2>1 DEF Passes, PassesOver, SocketFields, AbortKept, delete_socket
  <2> QED BY <1>11, <2>2, <2>3
<1> QED BY <1>12, <1>13, <1>14, <1>15, <1>16, <1>17, <1>18, <1>19

-------------------------------------------------------------------------------
\* Both streams are in order initially, and stay so while no host takes an old SYN+ACK.

\* Two new sockets.
LEMMA InitFlow ==
    ASSUME StreamsFit, Init
    PROVE  InFlow
<1>1. PICK H : H = host OBVIOUS
<1>2. PICK N : N = net OBVIOUS
<1>3. H = [h \in Hosts |-> NewSocket] /\ N = [h \in Hosts |-> {}] BY <1>1, <1>2 DEF Init
<1>4. PICK c : c = NewSocket OBVIOUS
<1>5. c.rc.rcv_nxt = 0 /\ c.rc.receive_index = 0 /\ c.rc.receive_event = 0 /\ c.rc.rcv_wnd = MaxReceiveWindow
      /\ c.rc.receive_window = EmptyBuffer /\ c.rc.snd_una = 0 /\ c.receive_buffer = <<>> /\ c.delivered = <<>>
      /\ c.saved_fin = {} /\ c.redispatched = {} /\ c.state \notin TookFin /\ c.state # "Closing"
  BY <1>4 DEF NewSocket, NewReliability, TookFin
<1>6. Iss \in Nat /\ MaxReceiveWindow \in Nat BY Constants
<1>7. EmptyBuffer \in Buffers /\ EmptyBuffer.packets = <<>>
  <2>1. StreamFits(Payload[Client]) BY DEF StreamsFit, Hosts
  <2>2. HostInv(NewSocket, Payload[Client]) BY <2>1, NewSocketInv
  <2>3. ReceiverOK(NewSocket) BY <2>2 DEF HostInv
  <2> QED BY <1>4, <1>5, <2>3 DEF ReceiverOK, EmptyBuffer
<1>8. size(EmptyBuffer) = 0 BY <1>7, NothingToMove
<1>9. ASSUME NEW P PROVE Flow(c, c, P, {})
  <2>1. NothingYet(c.rc.receive_window, c.rc.rcv_nxt, c.delivered, c.receive_buffer, c.rc.receive_index)
    BY <1>5 DEF NothingYet
  <2>2. Room(c.rc.receive_window, c.rc.rcv_wnd, c.receive_buffer, c.rc.receive_index)
    <3>1. <<>> \in Seq(Nat) /\ Len(<<>>) = 0 OBVIOUS
    <3> QED BY <1>5, <1>6, <1>7, <1>8, <3>1 DEF Room
  <2>3. Received(c, c, P) BY <1>5, <2>1, <2>2 DEF Received
  <2>4. FinTaken(c, c) BY <1>5 DEF FinTaken
  <2>5. Acked(c, c) BY <1>5, <1>6 DEF Acked, Greater
  <2>6. Opened(c) BY <1>4 DEF NewSocket, Opened, InUse, CanSendAck
  <2> QED BY <1>5, <2>3, <2>4, <2>5, <2>6 DEF Flow, Incoming
<1>10. ASSUME NEW h \in Hosts PROVE Flow(H[h], H[Peer(h)], Payload[h], N[h])
  <2>1. Peer(h) \in Hosts BY Peers
  <2>2. H[h] = c /\ H[Peer(h)] = c /\ N[h] = {} BY <1>3, <1>4, <2>1
  <2> QED BY <1>9, <2>2
<1>11. Flows(H, N) BY <1>10 DEF Flows
<1>12. Checked(H) BY <1>3 DEF Checked, NewSocket, Excepted
<1> QED BY <1>1, <1>2, <1>11, <1>12 DEF InFlow

\* Every step keeps them in order.
LEMMA NextFlow ==
    ASSUME StreamsFit, Inv, InFlow, [Next]_vars, [~TakesOldSynAck]_vars
    PROVE  InFlow'
<1>1. CASE UNCHANGED vars
  <2>1. host' = host /\ net' = net BY <1>1 DEF vars
  <2> QED BY <2>1 DEF InFlow
<1>2. CASE Next /\ ~TakesOldSynAck
  <2>1. Inv' BY NextInv
  <2>2. CASE Connect \/ ListenCall BY <1>2, <2>1, <2>2, FlowOpen
  <2>3. ASSUME NEW h \in Hosts, LowEvent(h) PROVE InFlow'
    <3>1. CASE Send(h) \/ Receive(h) \/ Close(h) BY <1>2, <2>1, <3>1, FlowApplication
    <3>2. CASE ReceivePacket(h) BY <1>2, <2>1, <3>2, FlowReceive
    <3>3. CASE ReceiveSavedFin(h) \/ RetransmissionTimer(h) \/ ProbeTimer(h) \/ TimeWaitTimer(h)
      BY <1>2, <2>1, <3>3, FlowTimers
    <3> QED BY <2>3, <3>1, <3>2, <3>3 DEF LowEvent
  <2>4. ASSUME NEW h \in Hosts, HighEvent(h) PROVE InFlow'
    <3>1. CASE SendPacket(h) BY <1>2, <2>1, <3>1, FlowSend
    <3>2. CASE \/ ResendPacket(h) \/ SendBufferNotEmpty(h) \/ SendBufferNotFull(h)
               \/ ReceiveBufferNotEmpty(h) \/ ReceiveBufferNotFull(h)
               \/ ConnectionInitiated(h) \/ ConnectionEstablished(h) \/ DeleteSocket(h)
      BY <1>2, <2>1, <3>2, FlowHigh
    <3> QED BY <2>4, <3>1, <3>2 DEF HighEvent
  <2> QED BY <1>2, <2>2, <2>3, <2>4 DEF Next
<1> QED BY <1>1, <1>2

\* What has been received, acknowledged and read of both streams is in order.
THEOREM StreamsInOrder ==
    ASSUME StreamsFit PROVE Spec /\ [][~TakesOldSynAck]_vars => [](Inv /\ InFlow)
<1>1. Init => Inv /\ InFlow BY InitInv, InitFlow
<1>2. (Inv /\ InFlow) /\ [Next]_vars /\ [~TakesOldSynAck]_vars => (Inv /\ InFlow)' BY NextInv, NextFlow
<1> QED BY <1>1, <1>2, PTL DEF Spec

\* While no host takes an old SYN+ACK, no assertion fails but the four excepted: a segment
\* to resend is there, the send buffer has room for what it takes and is empty before a
\* SYN, the reassembly buffer takes nothing before the SYN and gives what RCV.NXT expects,
\* and one recv() waits at a time.
THEOREM AssertionsHold == ASSUME StreamsFit PROVE Spec /\ [][~TakesOldSynAck]_vars => []OtherAssertionsHold
<1>1. Inv /\ InFlow => OtherAssertionsHold BY DEF InFlow, Checked, Excepted, OtherAssertionsHold
<1> QED BY <1>1, StreamsInOrder, PTL

\* What the streams' order says of the two hosts at one end.
LEMMA OrderAt ==
    ASSUME StreamsFit, Inv, InFlow, NEW h \in Hosts
    PROVE  /\ Sends(host[h], Payload[h])
           /\ Incoming(host[Peer(h)], host[h], Payload[h]) /\ Acked(host[h], host[Peer(h)])
<1>1. PICK H : H = host OBVIOUS
<1>2. PICK N : N = net OBVIOUS
<1>3. Connection(H, N) /\ Flows(H, N) BY <1>1, <1>2 DEF Inv, InFlow
<1>4. Sends(H[h], Payload[h]) BY <1>3, HostSends
<1>5. Incoming(H[Peer(h)], H[h], Payload[h]) /\ Acked(H[h], H[Peer(h)]) BY <1>3 DEF Flows, Flow
<1> QED BY <1>1, <1>4, <1>5

\* While no host takes an old SYN+ACK, the bytes an application has read are the first of
\* those the peer's application has written, in order, whatever is lost, repeated or late.
THEOREM Delivery == ASSUME StreamsFit PROVE Spec /\ [][~TakesOldSynAck]_vars => []DeliveredIsPrefix
<1>1. ASSUME Inv, InFlow PROVE DeliveredIsPrefix
  <2>1. ASSUME NEW h \in Hosts
        PROVE  /\ Len(host[Peer(h)].delivered) <= host[h].accepted
               /\ IsPrefix(host[Peer(h)].delivered, Payload[h])
    BY <1>1, OrderAt, DeliveredBound DEF Incoming
  <2> QED BY <2>1 DEF DeliveredIsPrefix
<1> QED BY <1>1, StreamsInOrder, PTL

\* While no host takes an old SYN+ACK, the advertised window, the bytes not yet read and
\* those behind a hole add up to the receive window.
THEOREM WindowAccounts == ASSUME StreamsFit PROVE Spec /\ [][~TakesOldSynAck]_vars => []WindowAccountsForBuffers
<1>1. ASSUME Inv, InFlow PROVE WindowAccountsForBuffers
  <2>1. ASSUME NEW h \in Hosts
        PROVE  host[h].rc.rcv_wnd + (Len(host[h].receive_buffer) - host[h].rc.receive_index)
                   + size(host[h].rc.receive_window) = MaxReceiveWindow
    <3>1. Peer(h) \in Hosts /\ Peer(Peer(h)) = h BY Peers
    <3>2. PICK rc : rc = host[h].rc OBVIOUS
    <3>3. PICK R : R = host[h].receive_buffer OBVIOUS
    <3>4. Room(rc.receive_window, rc.rcv_wnd, R, rc.receive_index)
      <4>1. Incoming(host[h], host[Peer(h)], Payload[Peer(h)]) BY <1>1, <3>1, OrderAt
      <4> QED BY <3>2, <3>3, <4>1 DEF Incoming, Received
    <3> QED BY <3>2, <3>3, <3>4 DEF Room
  <2> QED BY <2>1 DEF WindowAccountsForBuffers
<1> QED BY <1>1, StreamsInOrder, PTL

\* While no host takes an old SYN+ACK, a host has taken the peer's FIN only after its
\* application has read every byte that the peer ever accepted.
THEOREM FinComesLast == ASSUME StreamsFit PROVE Spec /\ [][~TakesOldSynAck]_vars => []FinAfterEverythingRead
<1>1. ASSUME Inv, InFlow PROVE FinAfterEverythingRead
  <2>1. ASSUME NEW h \in Hosts, host[h].state \in {"CloseWait", "LastAck", "TimeWait"}
        PROVE  host[Peer(h)].closed /\ Len(host[h].delivered) = host[Peer(h)].accepted
    <3>1. Peer(h) \in Hosts /\ Peer(Peer(h)) = h BY Peers
    <3>2. Incoming(host[h], host[Peer(h)], Payload[Peer(h)]) BY <1>1, <3>1, OrderAt
    <3> QED BY <2>1, <3>2 DEF Incoming, FinTaken, TookFin
  <2> QED BY <2>1 DEF FinAfterEverythingRead
<1> QED BY <1>1, StreamsInOrder, PTL

\* While no host takes an old SYN+ACK, the peer has received what a sender has dropped as
\* acknowledged, and expects no byte behind those that were sent.
THEOREM NothingAckedUnreceived ==
    ASSUME StreamsFit PROVE Spec /\ [][~TakesOldSynAck]_vars => []AcknowledgedWasReceived
<1>1. ASSUME Inv, InFlow PROVE AcknowledgedWasReceived
  <2>1. ASSUME NEW h \in Hosts, host[Peer(h)].rc.rcv_nxt # 0
        PROVE  /\ less_than_or_equal(host[h].rc.snd_una, host[Peer(h)].rc.rcv_nxt)
               /\ less_than_or_equal(host[Peer(h)].rc.rcv_nxt, host[h].rc.snd_max)
    <3>1. PICK s : s = host[h] OBVIOUS
    <3>2. PICK r : r = host[Peer(h)] OBVIOUS
    <3>3. PICK P : P = Payload[h] OBVIOUS
    <3>4. Sends(s, P) /\ Incoming(r, s, P) /\ Acked(s, r) BY <1>1, <2>1, <3>1, <3>2, <3>3, OrderAt
    <3>5. PICK u \in Nat : u = s.rc.snd_una BY <3>4, SeqNumInt DEF Sends, Typed, SeqNum
    <3>6. PICK m \in Nat : m = s.rc.snd_max BY <3>4, SendsType
    <3>7. PICK a \in Nat : a = s.accepted BY <3>4, SendsType
    <3>8. Iss \in Nat /\ IntMax \in Nat /\ Iss + 1 + a + 2 <= IntMax BY <3>4, <3>7, SendsType
    <3>9. PICK l \in Nat : l = Limit(s) /\ l <= Iss + 1 + a /\ l <= m BY <3>4, <3>6, <3>7, SendsType
    <3>10. PICK n \in Nat : n = r.rc.rcv_nxt BY <3>4 DEF Incoming, Received
    <3>11. PICK w : w = r.rc.receive_window OBVIOUS
    <3>12. /\ Iss + 1 <= w.first /\ w.first <= l
           /\ n = w.first \/ PastFin(w, n, s)
      <4>1. n # 0 BY <2>1, <3>2, <3>10
      <4>2. InOrder(w, n, r.delivered, r.receive_buffer, r.rc.receive_index, s, P)
        BY <3>4, <3>10, <3>11, <4>1 DEF Incoming, Received, NothingYet
      <4> QED BY <3>9, <4>2 DEF InOrder, ListOf
    <3>13. PICK f : f = w.first OBVIOUS
    <3>14. Iss + 1 <= f /\ f <= l /\ (n = f \/ (n = f + 1 /\ f = Iss + 1 + a /\ n <= m))
      BY <3>6, <3>7, <3>12, <3>13 DEF PastFin
    <3>15. Iss < n /\ n <= m /\ n <= IntMax
      <4>1. CASE n = f BY <3>8, <3>9, <3>14, <4>1
      <4>2. CASE n = f + 1 /\ f = Iss + 1 + a /\ n <= m BY <3>8, <3>9, <3>14, <4>2
      <4> QED BY <3>14, <4>1, <4>2
    <3>16. u <= n
      <4>1. u <= Greater(Iss, n) BY <3>4, <3>5, <3>10 DEF Acked
      <4> QED BY <3>8, <3>15, <4>1 DEF Greater
    <3>17. m <= IntMax BY <3>4, <3>6 DEF Sends, Typed
    <3>18. less_than_or_equal(u, n) BY <3>8, <3>15, <3>16, SmallLess DEF less_than_or_equal
    <3>19. less_than_or_equal(n, m) BY <3>8, <3>15, <3>17, SmallLess DEF less_than_or_equal
    <3> QED BY <3>1, <3>2, <3>5, <3>6, <3>10, <3>18, <3>19
  <2> QED BY <2>1 DEF AcknowledgedWasReceived
<1> QED BY <1>1, StreamsInOrder, PTL
===============================================================================
