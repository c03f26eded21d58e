-------------------------- MODULE TCPCongestionControl -------------------------
(***************************************************************************)
(* TCPTahoeBaseCongestionControl with its states SlowStart and              *)
(* CongestionAvoidance: what to send and when, the send window and the      *)
(* congestion window, and the probe of a closed window.                     *)
(***************************************************************************)
EXTENDS TCPContext

IgnoreCwnd(ccc) == ccc.snd_wnd - (ccc.snd_wnd % Mss)

\* get_max_allowed_to_send: whole segments only.
get_max_allowed_to_send(ccc) ==
    LET space == Lesser(ccc.snd_wnd, ccc.cwnd) IN space - (space % Mss)

num_unsent(c) == Len(c.send_buffer) - AsInt(get_num_outstanding(c.ccc))

get_send_data_length(c, ignore_window) ==
    LET length == Lesser(Lesser(num_unsent(c), Mss), MaxReceiveWindow)
        available == get_max_allowed_to_send(c.ccc) - get_num_outstanding(c.ccc)
    IN IF ignore_window THEN length ELSE Lesser(length, available)

\* send_one_packet: the next bytes of the send buffer never sent before.
send_one_packet(c, ignore_window) ==
    LET index == get_num_outstanding(c.ccc)
        length == get_send_data_length(c, ignore_window)
        c1 == Require(c, length > 0, "send_data_length")
        c2 == [c1 EXCEPT !.ccc = set_snd_nxt(@, Plus(@.snd_nxt, length))]
    IN enqueue_send(c2, Segment(FALSE, FALSE, FALSE,
                                SubSeq(c.send_buffer, index + 1, index + length)))

\* One round of the loop of send_packets: a packet, while there are bytes never
\* sent and room in the window.
SendRound(c) ==
    IF /\ num_unsent(c) > 0
       /\ get_num_outstanding(c.ccc) < get_max_allowed_to_send(c.ccc)
    THEN send_one_packet(c, FALSE) ELSE c

\* send_packets: every packet takes at least one byte, so the loop has no more
\* rounds than the buffer has bytes.
SendRounds(c) ==
    LET round[k \in 0 .. Len(c.send_buffer)] ==
            IF k = 0 THEN c ELSE SendRound(round[k - 1])
    IN round

send_packets(c) == SendRounds(c)[Len(c.send_buffer)]

cc_send_packet(c, s) ==
    LET ccc == CASE s.syn -> set_snd_nxt([c.ccc EXCEPT !.snd_una = Iss], Plus(Iss, 1))
                 [] ~s.syn /\ s.fin -> set_snd_nxt(c.ccc, Plus(c.ccc.snd_nxt, 1))
                 [] OTHER -> c.ccc
    IN [c EXCEPT !.ccc = [ccc EXCEPT !.data_sent = @ \/ s.data # <<>>]]

-------------------------------------------------------------------------------
\* One segment per acknowledgement.
SlowStart_set_cwnd(ccc) ==
    LET cwnd == ccc.cwnd + Mss
    IN [ccc EXCEPT !.cwnd = cwnd,
                   !.state = IF cwnd > ccc.ssthreshold THEN "CongestionAvoidance" ELSE @]

\* About one segment per round trip.
CongestionAvoidance_set_cwnd(ccc) == [ccc EXCEPT !.cwnd = @ + ((Mss * Mss) \div @)]

set_cwnd(ccc) ==
    IF ccc.state = "SlowStart" THEN SlowStart_set_cwnd(ccc)
    ELSE CongestionAvoidance_set_cwnd(ccc)

\* resend of the two states, which end in SlowStart with one segment.
resend(ccc) ==
    [ccc EXCEPT !.ssthreshold =
                    UShort(Greater(get_num_outstanding(ccc) \div 2, 2 * Mss)),
                !.state = "SlowStart", !.cwnd = Mss]

\* The window of a segment older than the last that was used is not taken.
UpdateSendWindow(ccc, p) ==
    IF \/ less_than(ccc.snd_wnd1, p.seq)
       \/ ccc.snd_wnd1 = p.seq /\ less_than_or_equal(ccc.snd_wnd2, p.ackno)
    THEN [ccc EXCEPT !.snd_wnd = p.wnd, !.snd_wnd1 = p.seq, !.snd_wnd2 = p.ackno]
    ELSE ccc

KeepUna(ccc, p) == ccc
AdvanceUna(ccc, p) ==
    LET advanced == [ccc EXCEPT !.snd_una = p.ackno]
    IN IF less_than(advanced.snd_nxt, p.ackno)
       THEN set_snd_nxt(advanced, p.ackno) ELSE advanced

\* state_receive_packet: with no room left the probe timer is started, whether
\* or not there is anything to send.
cc_receive_packet(c, p) ==
    LET ccc == UpdateSendWindow(AdvanceUna(c.ccc, p), p)
        fresh == between_equal_right(c.ccc.snd_una, p.ackno, c.ccc.snd_max)
        grown == IF fresh /\ ccc.data_sent THEN set_cwnd(ccc) ELSE ccc
        full == get_num_outstanding(grown) >= get_max_allowed_to_send(grown)
        c1 == [c EXCEPT !.ccc = [grown EXCEPT !.probe_timer = full]]
    IN IF ~(p.ack /\ between_equal(c.ccc.snd_una, p.ackno, c.ccc.snd_max)) THEN c
       ELSE IF full THEN c1 ELSE send_packets(c1)

-------------------------------------------------------------------------------
\* get_resend_data_length, and the segment that starts at SND.UNA.  A control
\* byte at the front of the buffer goes out as a SYN or a FIN, one at its end is
\* not part of the data.
get_resend_data_length(c) ==
    Lesser(Lesser(num_unsent(c), Mss),
           Lesser(get_max_allowed_to_send(c.ccc), MaxReceiveWindow))

ResendLength(c) ==
    get_resend_data_length(c) -
        (IF c.send_buffer[Len(c.send_buffer)] = FinByte THEN 1 ELSE 0)

ResentSegment(c) ==
    CASE c.send_buffer = <<>> -> NakedSegment
      [] c.send_buffer # <<>> /\ c.send_buffer[1] = SynByte ->
            Segment(TRUE, FALSE, FALSE, <<>>)
      [] c.send_buffer # <<>> /\ c.send_buffer[1] = FinByte ->
            Segment(FALSE, FALSE, TRUE, <<>>)
      [] OTHER -> Segment(FALSE, FALSE, FALSE, SubSeq(c.send_buffer, 1, ResendLength(c)))

\* state_resend_packet and resend_data.
cc_resend_packet(c) ==
    LET back == [c EXCEPT !.ccc = set_snd_nxt(resend(@), @.snd_una)]
        s == ResentSegment(back)
        isData == ~s.syn /\ ~s.fin
        c1 == Require(back, back.send_buffer # <<>>, "resend_empty_buffer")
        c2 == Require(c1, isData /\ back.send_buffer # <<>>
                              => get_resend_data_length(back) > 0, "resend_data_length")
        c3 == Require(c2, isData => s.data # <<>>, "resend_no_data")
        length == IF isData THEN Len(s.data) ELSE 1
    IN enqueue_send([c3 EXCEPT !.ccc = set_snd_nxt(@, Plus(@.snd_una, length))], s)

\* state_timer_fired: the probe timer is restarted and a packet is sent whatever
\* the window says.
cc_timer_fired(c) == send_one_packet([c EXCEPT !.ccc.probe_timer = TRUE], TRUE)
===============================================================================
