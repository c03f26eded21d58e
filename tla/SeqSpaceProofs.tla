---------------------------- MODULE SeqSpaceProofs -----------------------------
(***************************************************************************)
(* What the circular comparisons of Math.cc mean, for every width: they are *)
(* statements about the distance from one number to the other.              *)
(***************************************************************************)
EXTENDS SeqSpace, TLAPS, WellFoundedInduction

\* A remainder is the number itself when it is in range.
LEMMA ModSmall ==
    ASSUME NEW M \in Nat \ {0}, NEW x \in 0 .. (M - 1)
    PROVE  x % M = x
OBVIOUS

\* Once around, upwards.
LEMMA ModShiftDown ==
    ASSUME NEW M \in Nat \ {0}, NEW x \in M .. (2 * M - 1)
    PROVE  x % M = x - M
OBVIOUS

\* Once around, downwards.
LEMMA ModShiftUp ==
    ASSUME NEW M \in Nat \ {0}, NEW x \in (-M) .. (-1)
    PROVE  x % M = x + M
OBVIOUS

\* Sums and differences of the callers, without the remainder.
LEMMA MinusCases ==
    ASSUME NEW a \in SeqNum, NEW b \in SeqNum
    PROVE  Minus(a, b) = IF a >= b THEN a - b ELSE a - b + Modulus
<1>1. Modulus \in Nat \ {0}
    BY IntMaxAssumption DEF Modulus
<1>2. CASE a >= b
    <2>1. a - b \in 0 .. (Modulus - 1)
        BY <1>1, <1>2 DEF SeqNum
    <2> QED
        BY <1>1, <1>2, <2>1, ModSmall DEF Minus
<1>3. CASE a < b
    <2>1. a - b \in (-Modulus) .. (-1)
        BY <1>1, <1>3 DEF SeqNum
    <2> QED
        BY <1>1, <1>3, <2>1, ModShiftUp DEF Minus, SeqNum
<1> QED
    BY <1>1, <1>2, <1>3 DEF SeqNum

\* A sum wraps around once at most.
LEMMA PlusCases ==
    ASSUME NEW a \in SeqNum, NEW n \in SeqNum
    PROVE  Plus(a, n) = IF a + n < Modulus THEN a + n ELSE a + n - Modulus
<1>1. Modulus \in Nat \ {0}
    BY IntMaxAssumption DEF Modulus
<1>2. CASE a + n < Modulus
    <2>1. a + n \in 0 .. (Modulus - 1)
        BY <1>1, <1>2 DEF SeqNum
    <2> QED
        BY <1>1, <1>2, <2>1, ModSmall DEF Plus
<1>3. CASE ~(a + n < Modulus)
    <2>1. a + n \in Modulus .. (2 * Modulus - 1)
        BY <1>1, <1>3 DEF SeqNum
    <2> QED
        BY <1>1, <1>3, <2>1, ModShiftDown DEF Plus, SeqNum
<1> QED
    BY <1>2, <1>3

-------------------------------------------------------------------------------
\* Of two different sequence numbers exactly one is less than the other, also
\* across the wrap and also when they are half the range apart: less_than decides
\* every comparison of the sender and of the receiver, and never both ways.
THEOREM LessThanTotal ==
    \A a, b \in SeqNum :
        /\ ~(less_than(a, b) /\ less_than(b, a))
        /\ ~less_than(a, a)
        /\ less_than(a, b) \/ less_than(b, a) \/ a = b
<1> SUFFICES ASSUME NEW a \in SeqNum, NEW b \in SeqNum
             PROVE  /\ ~(less_than(a, b) /\ less_than(b, a))
                    /\ ~less_than(a, a)
                    /\ less_than(a, b) \/ less_than(b, a) \/ a = b
    OBVIOUS
<1> QED
    BY IntMaxAssumption DEF less_than, SeqNum, Modulus

\* The receiver's sequence number test: a number lies in a window of at most
\* INT_MAX bytes exactly when its distance from RCV.NXT is below RCV.WND, wherever
\* in the sequence space the window lies.
THEOREM WindowTest ==
    \A nxt, n \in SeqNum : \A wnd \in 0 .. IntMax :
        between_equal_left(nxt, n, Plus(nxt, wnd)) <=> Minus(n, nxt) < wnd
<1> SUFFICES ASSUME NEW nxt \in SeqNum, NEW n \in SeqNum, NEW wnd \in 0 .. IntMax
             PROVE  between_equal_left(nxt, n, Plus(nxt, wnd)) <=> Minus(n, nxt) < wnd
    OBVIOUS
<1>1. wnd \in SeqNum
    BY IntMaxAssumption DEF SeqNum, Modulus
<1>2. Plus(nxt, wnd) = IF nxt + wnd < Modulus THEN nxt + wnd ELSE nxt + wnd - Modulus
    BY <1>1, PlusCases
<1>3. Minus(n, nxt) = IF n >= nxt THEN n - nxt ELSE n - nxt + Modulus
    BY MinusCases
<1> QED
    BY <1>2, <1>3, IntMaxAssumption
    DEF between_equal_left, less_than_or_equal, less_than, SeqNum, Modulus

\* The sender's acknowledgement test: with at most INT_MAX bytes outstanding, an
\* acknowledgement is accepted as new exactly when it covers at least one and at
\* most all of them, so erasing Minus(ack, una) bytes never erases too many.
THEOREM AckTest ==
    \A una, ack, max \in SeqNum :
        Minus(max, una) <= IntMax =>
            (between_equal_right(una, ack, max) <=>
                Minus(ack, una) \in 1 .. Minus(max, una))
<1> SUFFICES ASSUME NEW una \in SeqNum, NEW ack \in SeqNum, NEW max \in SeqNum,
                    Minus(max, una) <= IntMax
             PROVE  between_equal_right(una, ack, max) <=>
                        Minus(ack, una) \in 1 .. Minus(max, una)
    OBVIOUS
<1>1. Minus(max, una) = IF max >= una THEN max - una ELSE max - una + Modulus
    BY MinusCases
<1>2. Minus(ack, una) = IF ack >= una THEN ack - una ELSE ack - una + Modulus
    BY MinusCases
<1> QED
    BY <1>1, <1>2, IntMaxAssumption
    DEF between_equal_right, less_than_or_equal, less_than, SeqNum, Modulus
-------------------------------------------------------------------------------
\* The loops of the code that walk over sequence numbers are recursive functions;
\* that such a function has its values is shown by induction.

\* Induction over numbers, for a set instead of a predicate.
LEMMA SetInduction ==
    ASSUME NEW S, 0 \in S, \A n \in Nat : n \in S => n + 1 \in S
    PROVE  \A n \in Nat : n \in S
<1> DEFINE Below == OpToRel(<, Nat)
<1>1. PICK B : B = Nat \ S OBVIOUS
<1>2. SUFFICES ASSUME B # {} PROVE FALSE BY <1>1
<1>3. IsWellFoundedOn(Below, Nat) BY NatLessThanWellFounded, Zenon
<1>4. ASSUME NEW j \in Nat, NEW k \in Nat, j < k PROVE <<j, k>> \in Below
  BY <1>4, Zenon DEF OpToRel
<1>5. B \subseteq Nat BY <1>1
<1> HIDE DEF Below
<1>6. PICK k \in B : \A j \in B : ~(<<j, k>> \in Below) BY <1>2, <1>3, <1>5, WFMin, Zenon
<1>7. \A j \in B : ~(j < k) BY <1>4, <1>5, <1>6, Zenon
<1>8. k \in Nat /\ k # 0 /\ k - 1 \in Nat /\ k - 1 < k /\ (k - 1) + 1 = k BY <1>1, <1>6
<1>9. k - 1 \in S BY <1>1, <1>7, <1>8
<1> QED BY <1>1, <1>6, <1>8, <1>9

\* f has the values of a loop of N rounds whose round k takes a to R[k][a].
RoundsOver(S, N) == [1 .. N -> [S -> S]]
IsLoop(f, S, start, N, R) ==
    f \in [0 .. N -> S] /\ f[0] = start /\ \A k \in 1 .. N : f[k] = R[k][f[k - 1]]

\* Such a loop has its values.
LEMMA LoopRuns ==
    ASSUME NEW S, NEW start \in S, NEW N \in Nat, NEW R \in RoundsOver(S, N)
    PROVE  \E f : IsLoop(f, S, start, N, R)
<1> USE DEF RoundsOver
<1> DEFINE Good(n, f) ==
       f \in [0 .. n -> S] /\ f[0] = start /\ \A k \in 1 .. n : f[k] = R[k][f[k - 1]]
           G == {n \in Nat : n <= N => \E f : Good(n, f)}
<1>1. 0 \in G
  <2>1. PICK f : f = [k \in 0 .. 0 |-> start] OBVIOUS
  <2>2. Good(0, f) BY <2>1
  <2> HIDE DEF Good
  <2> QED BY <2>2
<1>2. ASSUME NEW n \in Nat, n \in G PROVE n + 1 \in G
  <2> SUFFICES ASSUME n + 1 <= N PROVE \E f : Good(n + 1, f) OBVIOUS
  <2>1. n <= N OBVIOUS
  <2>2. PICK f : Good(n, f)
    <3> HIDE DEF Good
    <3> QED BY <1>2, <2>1
  <2>3. f[n] \in S /\ n + 1 \in 1 .. N BY <2>2
  <2>4. PICK v \in S : v = R[n + 1][f[n]] BY <2>3
  <2>5. PICK g : g = [k \in 0 .. (n + 1) |-> IF k = n + 1 THEN v ELSE f[k]] OBVIOUS
  <2>6. g[n + 1] = v /\ \A k \in 0 .. n : g[k] = f[k] BY <2>5
  <2>7. g \in [0 .. (n + 1) -> S] BY <2>2, <2>4, <2>5
  <2>8. ASSUME NEW k \in 1 .. (n + 1) PROVE g[k] = R[k][g[k - 1]]
    <3>1. CASE k = n + 1 BY <2>4, <2>6, <3>1
    <3>2. CASE k # n + 1
      <4>1. k \in 1 .. n /\ k - 1 \in 0 .. n /\ k \in 0 .. n BY <3>2
      <4> QED BY <2>2, <2>6, <4>1
    <3> QED BY <3>1, <3>2
  <2>9. Good(n + 1, g) BY <2>2, <2>6, <2>7, <2>8
  <2> HIDE DEF Good
  <2> QED BY <2>9
<1>3. \A n \in Nat : n \in G
  <2> HIDE DEF G
  <2> QED BY <1>1, <1>2, SetInduction
<1>4. \E f : Good(N, f)
  <2>1. N \in G BY <1>3
  <2> HIDE DEF Good
  <2> QED BY <2>1
<1> QED BY <1>4 DEF IsLoop
===============================================================================
