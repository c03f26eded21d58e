----------------------------- MODULE TCPReliability ----------------------------
(***************************************************************************)
(* TCPTahoeReliabilityState: sequence numbers, acknowledgements, the        *)
(* retransmission timer, and the receive side of the connection.  Round     *)
(* trip estimation and timestamps only set the length of the timer and are  *)
(* left out with it.                                                        *)
(***************************************************************************)
EXTENDS TCPContext

\* Both an acknowledgement and a window update: an empty segment.
create_and_dispatch_ack(c) == enqueue_send(c, NakedSegment)

start_timer(c) == [c EXCEPT !.rc.timer = TRUE]
KeepTimer(c) == c
cancel_timer(c) == [c EXCEPT !.rc.timer = FALSE]
reset_timer(c) == start_timer(cancel_timer(c))

-------------------------------------------------------------------------------
\* state_send_packet: the packet that leaves the host, and the context.
SequenceNumberOf(c) == IF c.rc.initialized THEN c.rc.snd_nxt ELSE Iss

OutgoingPacket(c, s) ==
    [seq |-> SequenceNumberOf(c), ackno |-> c.rc.rcv_nxt,
     ack |-> s.ack \/ c.rc.rcv_nxt # 0, wnd |-> c.rc.rcv_wnd,
     syn |-> s.syn, fin |-> s.fin, data |-> s.data]

\* As if SYN and FIN took no sequence number.
DataLength(s) == Len(s.data)

SegmentLength(s) == IF s.syn \/ s.fin THEN 1 ELSE Len(s.data)

set_sequence_number(c, s) ==
    IF ~c.rc.initialized
    THEN [c EXCEPT !.rc = [set_snd_nxt(@, Plus(Iss, 1)) EXCEPT !.snd_una = Iss,
                                                               !.initialized = TRUE]]
    ELSE [c EXCEPT !.rc = set_snd_nxt(@, Plus(@.snd_nxt, SegmentLength(s)))]

check_and_start_timer(c, s) == IF SegmentLength(s) > 0 THEN start_timer(c) ELSE c

StartsWith(buffer, byte) == buffer # <<>> /\ buffer[1] = byte
EndsWith(buffer, byte) == buffer # <<>> /\ buffer[Len(buffer)] = byte

append_control_bytes_to_send_buffer(c, s) ==
    IF s.syn /\ ~StartsWith(c.send_buffer, SynByte)
    THEN [Require(c, c.send_buffer = <<>>, "append_control_bytes") EXCEPT
              !.send_buffer = Append(@, SynByte)]
    ELSE IF s.fin /\ ~EndsWith(c.send_buffer, FinByte)
    THEN [c EXCEPT !.send_buffer = Append(@, FinByte)]
    ELSE c

rc_send_packet(c, s) ==
    append_control_bytes_to_send_buffer(
        check_and_start_timer(set_sequence_number(c, s), s), s)

-------------------------------------------------------------------------------
ResendWithoutGoingBack(c) == enqueue(c, "resend_packet")

\* Going back to SND.UNA; the congestion control sends from there.
resend_data(c) ==
    enqueue([c EXCEPT !.rc = set_snd_nxt(@, @.snd_una)], "resend_packet")

rc_timer_fired(c) == resend_data(cancel_timer(c))

\* The acknowledged bytes stay in the send buffer.
AckWithoutErase(c, p) ==
    cancel_timer(enqueue([c EXCEPT !.rc.snd_una = p.ackno], "send_buffer_not_full"))

handle_valid_ack(c, p) ==
    LET num_acked == Minus(p.ackno, c.rc.snd_una)
        advanced == [c.rc EXCEPT !.snd_una = p.ackno]
        moved == IF less_than(advanced.snd_nxt, p.ackno)
                 THEN set_snd_nxt(advanced, p.ackno) ELSE advanced
        c1 == enqueue([c EXCEPT !.rc = moved,
                                !.send_buffer = SubSeq(@, num_acked + 1, Len(@))],
                      "send_buffer_not_full")
    IN IF moved.snd_nxt = moved.snd_una THEN cancel_timer(c1) ELSE reset_timer(c1)

\* Only the values 2 and 3 of the counter are told apart, so it stops at 4.
CountDuplicate(c, p) ==
    IF c.rc.duplicate_ack_number = p.ackno
    THEN [c EXCEPT !.rc.duplicates = Lesser(@ + 1, 4)]
    ELSE [c EXCEPT !.rc.duplicate_ack_number = p.ackno, !.rc.duplicates = 0]

handle_duplicate_ack(c, p) ==
    LET c1 == CountDuplicate(c, p)
    IN IF c1.rc.duplicates = 3 THEN resend_data(c1) ELSE c1

SynWithoutFirst(c, p) == [c EXCEPT !.rc.rcv_nxt = Plus(p.seq, 1)]

handle_control_bits(c, p) ==
    LET next == Plus(p.seq, 1)
        c1 == [c EXCEPT !.rc.rcv_nxt = next]
    IN IF p.syn
       THEN [c1 EXCEPT !.rc.receive_window = set_first_sequence_number(@, next)]
       ELSE c1

\* Data that does not fit in the window aborts.
insert_data(c, p) ==
    LET n == num_inserted(c.rc.receive_window, p)
        started == Require(c, c.rc.receive_window.started, "insert_not_started")
    IN [Require(started, c.rc.rcv_wnd >= n, "handle_data_no_room") EXCEPT
            !.rc.rcv_wnd = UShort(@ - n), !.rc.receive_window = insert(@, p)]

\* What is in sequence moves to the receive buffer.
take_continuous_data(c) ==
    LET window == c.rc.receive_window
        data == continuous_data(window)
        checked == Require(c, window.packets = <<>> \/ window.first = c.rc.rcv_nxt,
                           "continuous_data_first")
        moved == [checked EXCEPT !.rc.receive_window = after_continuous_data(@),
                                 !.rc.rcv_nxt = Plus(@, Len(data)),
                                 !.receive_buffer = @ \o data]
    IN IF data # <<>> THEN enqueue(moved, "receive_buffer_not_empty") ELSE moved

handle_data(c, p) == create_and_dispatch_ack(take_continuous_data(insert_data(c, p)))

handle_control_bits_and_data(c, p) ==
    IF p.syn \/ p.fin THEN handle_control_bits(c, p)
    ELSE IF p.data # <<>> THEN handle_data(c, p)
    ELSE c

\* handle_ack returns false for an acknowledgement of something never sent: it
\* is answered, and the rest of its packet is not looked at.
AcksUnsent(c, p) == p.ack /\ less_than(c.rc.snd_max, p.ackno)

handle_ack(c, p) ==
    CASE ~p.ack -> c
      [] p.ack /\ between_equal_right(c.rc.snd_una, p.ackno, c.rc.snd_max) ->
            handle_valid_ack(c, p)
      [] p.ack /\ between_equal_left(p.ackno, c.rc.snd_una, c.rc.snd_nxt) ->
            handle_duplicate_ack(c, p)
      [] OTHER -> c

\* state_receive_packet.
rc_receive_packet(c, p) ==
    IF AcksUnsent(c, p) THEN create_and_dispatch_ack(c)
    ELSE handle_control_bits_and_data(handle_ack(c, p), p)

-------------------------------------------------------------------------------
\* The bytes are handed out and the window is not opened again.
HandOutWithoutWindow(c, n) ==
    enqueue([c EXCEPT !.delivered = @ \o SubSeq(c.receive_buffer, c.rc.receive_index + 1,
                                               Len(c.receive_buffer)),
                      !.receive_buffer = <<>>, !.rc.receive_index = 0],
            "receive_buffer_not_full")

\* The response to a recv() of at most n bytes; the peer is told when the
\* window has at least doubled.
create_and_dispatch_received_data(c, n) ==
    LET length == Lesser(Len(c.receive_buffer) - c.rc.receive_index, n)
        index == c.rc.receive_index + length
        c1 == IF c.rc.rcv_wnd + length >= 2 * c.rc.rcv_wnd
              THEN create_and_dispatch_ack(c) ELSE c
        c2 == [c1 EXCEPT !.rc.rcv_wnd = UShort(@ + length),
                         !.rc.receive_index = index,
                         !.delivered = @ \o SubSeq(c.receive_buffer,
                                                   c.rc.receive_index + 1, index)]
        c3 == IF index >= Len(c.receive_buffer)
              THEN [c2 EXCEPT !.receive_buffer = <<>>, !.rc.receive_index = 0]
              ELSE c2
    IN enqueue(c3, "receive_buffer_not_full")

\* state_receive: with nothing to read the call waits.
rc_receive(c, n) ==
    IF c.receive_buffer # <<>> THEN create_and_dispatch_received_data(c, n)
    ELSE [Require(c, c.rc.receive_event = 0, "receive_event") EXCEPT !.rc.receive_event = n]

rc_receive_buffer_not_empty(c) ==
    IF c.rc.receive_event # 0 /\ c.receive_buffer # <<>>
    THEN [create_and_dispatch_received_data(c, c.rc.receive_event) EXCEPT
              !.rc.receive_event = 0]
    ELSE c
===============================================================================
