--------------------------- MODULE TCPPacketBuffer ----------------------------
(***************************************************************************)
(* The reassembly buffer of the receiver (TCPPacketBuffer.cc): a list of    *)
(* packets in the order of their sequence numbers, together with the first  *)
(* sequence number that is still expected.  Packets may overlap.            *)
(*                                                                          *)
(* A buffer is a record [started, first, packets]; a packet is a record     *)
(* with fields seq and data.  size_ is a cache that mark_dirty invalidates  *)
(* at every change, so size() is always recomputed here.                    *)
(***************************************************************************)
EXTENDS SeqSpace, Sequences, SequencesExt

EmptyBuffer == [started |-> FALSE, first |-> 0, packets |-> <<>>]

set_first_sequence_number(b, seq) == [b EXCEPT !.first = seq, !.started = TRUE]

EndOf(p) == Plus(p.seq, Len(p.data))

\* As if a packet that overlaps seq were new from its first byte to its last.
WholePacketTouching(seq, p) ==
    IF seq = p.seq \/ between(p.seq, seq, EndOf(p)) THEN Len(p.data) ELSE 0

\* The number of bytes of p at or after sequence number seq, when p starts at
\* seq or overlaps it; zero when p lies before it.
NewBytesTouching(seq, p) ==
    IF seq = p.seq THEN Len(p.data)
    ELSE IF between(p.seq, seq, EndOf(p)) THEN Len(p.data) - Minus(seq, p.seq)
    ELSE 0

\* p starts after seq: there is a hole in between.
IsGap(seq, p) ==
    /\ seq # p.seq
    /\ ~between(p.seq, seq, EndOf(p))
    /\ ~less_than(p.seq, seq)

\* The loop of size(): the sequence number reached and the bytes counted so far,
\* and what they are after the next packet.
CountPacket(acc, p) ==
    LET n == IF IsGap(acc.seq, p) THEN Len(p.data) ELSE NewBytesTouching(acc.seq, p)
        from == IF IsGap(acc.seq, p) THEN p.seq ELSE acc.seq
    IN [seq |-> Plus(from, n), total |-> acc.total + n]

CountRounds(b) ==
    LET round[k \in 0 .. Len(b.packets)] ==
            IF k = 0 THEN [seq |-> b.first, total |-> 0]
            ELSE CountPacket(round[k - 1], b.packets[k])
    IN round

\* size(): the number of distinct bytes that are buffered.
size(b) == CountRounds(b)[Len(b.packets)].total

\* upper_bound in its place: a packet with the same number counts as before p.
UpperBound(b, p) ==
    Cardinality({i \in DOMAIN b.packets : less_than_or_equal(b.packets[i].seq, p.seq)})

\* lower_bound: how many packets of the list come strictly before p.
LowerBound(b, p) ==
    Cardinality({i \in DOMAIN b.packets : less_than(b.packets[i].seq, p.seq)})

AlreadyInserted(b, p) ==
    LET i == LowerBound(b, p) + 1
    IN i <= Len(b.packets) /\ b.packets[i].seq = p.seq

\* The list after insert() has put p in its place and, of two packets with
\* the same sequence number, kept the bigger one.
Placed(b, p) ==
    LET i == LowerBound(b, p) + 1
    IN IF AlreadyInserted(b, p)
       THEN IF Len(b.packets[i].data) <= Len(p.data)
            THEN [b EXCEPT !.packets[i] = p] ELSE b
       ELSE [b EXCEPT !.packets = InsertAt(@, i, p)]

\* As if every packet were new from its first byte to its last.
CountWholePacket(b, p) == Len(p.data)

\* total_inserted, the value insert() returns.
num_inserted(b, p) == size(Placed(b, p)) - size(b)

\* insert(): a packet that adds nothing is taken out again.
insert(b, p) ==
    IF num_inserted(b, p) = 0 /\ ~AlreadyInserted(b, p) THEN b ELSE Placed(b, p)

\* A scan that ends after one packet.
ScanOnePacket(b) ==
    IF b.packets = <<>> \/ IsGap(b.first, b.packets[1])
    THEN [seq |-> b.first, data |-> <<>>, used |-> 0, hole |-> TRUE]
    ELSE LET p == b.packets[1]
             n == NewBytesTouching(b.first, p)
         IN [seq |-> Plus(b.first, n), used |-> 1, hole |-> FALSE,
             data |-> SubSeq(p.data, Len(p.data) - n + 1, Len(p.data))]

\* The loop of get_continuous_data() appends what is new of a packet, up to the
\* first hole.
TakePacket(acc, p) ==
    LET n == NewBytesTouching(acc.seq, p)
    IN IF acc.hole \/ IsGap(acc.seq, p) THEN [acc EXCEPT !.hole = TRUE]
       ELSE [seq |-> Plus(acc.seq, n), used |-> acc.used + 1, hole |-> FALSE,
             data |-> acc.data \o SubSeq(p.data, Len(p.data) - n + 1, Len(p.data))]

TakeRounds(b) ==
    LET round[k \in 0 .. Len(b.packets)] ==
            IF k = 0 THEN [seq |-> b.first, used |-> 0, hole |-> FALSE, data |-> <<>>]
            ELSE TakePacket(round[k - 1], b.packets[k])
    IN round

\* get_continuous_data(): the bytes from first up to the first hole, and the
\* buffer without the packets they came from.
ContinuousScan(b) == TakeRounds(b)[Len(b.packets)]

continuous_data(b) == ContinuousScan(b).data

RemoveContinuousKeepFirst(b) ==
    [b EXCEPT !.packets = SubSeq(@, ContinuousScan(b).used + 1, Len(@))]

after_continuous_data(b) ==
    [b EXCEPT !.first = ContinuousScan(b).seq,
              !.packets = SubSeq(@, ContinuousScan(b).used + 1, Len(@))]
===============================================================================
