------------------------ MODULE TCPPacketBufferMachine ------------------------
(***************************************************************************)
(* The reassembly buffer under every order of overlapping, duplicated and   *)
(* old packets of a stream whose sequence numbers wrap around, compared     *)
(* with the set of stream positions it was given.                           *)
(***************************************************************************)
EXTENDS TCPPacketBuffer, FiniteSets

CONSTANTS
    StreamLength,   \* bytes of the stream, numbered from 1
    MaxLength,      \* longest packet
    FirstSeq        \* sequence number of byte 1

ASSUME StreamAssumption ==
    /\ StreamLength \in Nat /\ MaxLength \in Nat
    /\ FirstSeq \in SeqNum
    /\ StreamLength <= IntMax

VARIABLES
    buffer,   \* the TCPPacketBuffer
    given,    \* stream positions inserted so far
    out,      \* what get_continuous_data() has appended to the receive buffer
    grown     \* sum of the values insert() has returned

vars == <<buffer, given, out, grown>>

SeqAt(i) == Plus(FirstSeq, i - 1)
PacketOf(i, n) == [seq |-> SeqAt(i), data |-> [k \in 1..n |-> i + k - 1]]

Init ==
    /\ buffer = set_first_sequence_number(EmptyBuffer, FirstSeq)
    /\ given = {} /\ out = <<>> /\ grown = 0

Insert(i, n) ==
    /\ i + n - 1 <= StreamLength
    /\ buffer' = insert(buffer, PacketOf(i, n))
    /\ grown' = grown + num_inserted(buffer, PacketOf(i, n))
    /\ given' = given \cup i..(i + n - 1)
    /\ UNCHANGED out

GetContinuousData ==
    /\ buffer.packets # <<>>
    /\ out' = out \o continuous_data(buffer)
    /\ buffer' = after_continuous_data(buffer)
    /\ UNCHANGED <<given, grown>>

Next ==
    \/ \E i \in 1..StreamLength : \E n \in 1..MaxLength : Insert(i, n)
    \/ GetContinuousData

Spec == Init /\ [][Next]_vars
-------------------------------------------------------------------------------
\* The buffer keeps a sequence number it expects, its packets have sequence
\* numbers, and insert() never returns more bytes than there are.
TypeOK ==
    /\ buffer.started
    /\ buffer.first \in SeqNum
    /\ \A i \in DOMAIN buffer.packets : buffer.packets[i].seq \in SeqNum
    /\ given \subseteq 1..StreamLength
    /\ grown \in 0..StreamLength

\* The application's bytes come out in stream order, none missing and none
\* twice, whatever overlaps and duplicates went in (get_continuous_data).
OutInOrder == out = [k \in 1..Len(out) |-> k]

\* size() is the number of distinct bytes that wait in the buffer.
SizeCountsDistinctBytes == size(buffer) = Cardinality(given \ 1..Len(out))

\* What insert() returned adds up to the distinct bytes received: the receive
\* window, which shrinks by that value, loses no byte and counts none twice.
GrowthCountsDistinctBytes == grown = Cardinality(given)

\* first_expected_sequence_number_ stays the number after the last byte handed
\* out: the assertion of get_continuous_data() compares it with RCV.NXT.
FirstFollowsOut == buffer.first = SeqAt(Len(out) + 1)

\* The list stays strictly sorted, which lower_bound relies on.
ListSorted ==
    \A i, j \in DOMAIN buffer.packets :
        i < j => less_than(buffer.packets[i].seq, buffer.packets[j].seq)

\* Taking the continuous data leaves no byte behind that could be delivered.
TakesAllContinuous ==
    [][ out' # out =>
          \/ Len(out') = StreamLength
          \/ (Len(out') + 1) \notin given ]_vars
===============================================================================
