-------------------------- MODULE TCPConnectionManager -------------------------
(***************************************************************************)
(* The connection management states: Closed, Listen, SynSent, SynReceived,  *)
(* Established, FinWait1, FinWait2, CloseWait, Closing, LastAck, TimeWait.  *)
(* No state ever moves to Closing.  A handler a state does not define does  *)
(* nothing.                                                                 *)
(***************************************************************************)
EXTENDS TCPContext

States ==
    {"Closed", "Listen", "SynSent", "SynReceived", "Established", "FinWait1",
     "FinWait2", "CloseWait", "Closing", "LastAck", "TimeWait"}

\* Context::set_state: TimeWait starts its timer on entry and cancels it on exit.
set_state(c, state) == [c EXCEPT !.state = state, !.time_wait_timer = (state = "TimeWait")]

\* Established::state_enter reads the connect event, which a passive open never
\* set: trap says what the read does.  An active open answers connect().
EnterEstablished(c, trap) ==
    LET c1 == set_state(c, "Established")
    IN IF c.connection_type = "ACTIVE_OPEN" THEN [c1 EXCEPT !.connected = TRUE]
       ELSE Require(c1, ~trap, "established_connect_event")

Syn == Segment(TRUE, FALSE, FALSE, <<>>)
SynAck == Segment(TRUE, TRUE, FALSE, <<>>)
Ack == Segment(FALSE, TRUE, FALSE, <<>>)
Fin == Segment(FALSE, FALSE, TRUE, <<>>)

is_naked_ack(p) == p.ack /\ p.data = <<>> /\ ~p.fin /\ ~p.syn

cm_connect(c) ==
    IF c.state # "Closed" THEN c
    ELSE set_state(enqueue_send([c EXCEPT !.connection_type = "ACTIVE_OPEN"], Syn), "SynSent")

cm_listen(c) ==
    IF c.state # "Closed" THEN c
    ELSE set_state([c EXCEPT !.connection_type = "PASSIVE_OPEN"], "Listen")

process_syn(c) ==
    set_state(enqueue_send(enqueue(c, "connection_initiated"), SynAck), "SynReceived")

Listen_receive(c, p) == IF p.syn THEN process_syn(c) ELSE c

SynSent_receive(c, p, trap) ==
    IF p.syn /\ p.ack THEN EnterEstablished(enqueue_send(c, Ack), trap) ELSE c

SynReceived_receive(c, p, trap) ==
    IF p.ack THEN EnterEstablished(enqueue(c, "connection_established"), trap) ELSE c

\* Acknowledges a FIN and moves on.
TakeFin(c, state) == set_state(enqueue_send(c, NakedSegment), state)

Established_receive(c, p) == IF p.fin /\ ~p.syn THEN TakeFin(c, "CloseWait") ELSE c

FinWait1_receive(c, p) ==
    CASE p.fin /\ p.ack -> TakeFin(c, "TimeWait")
      [] ~p.fin /\ p.ack -> set_state(c, "FinWait2")
      [] OTHER -> c

FinWait2_receive(c, p) == IF p.fin THEN TakeFin(c, "TimeWait") ELSE c

Closing_receive(c, p) == IF p.ack THEN set_state(c, "TimeWait") ELSE c

LastAck_receive(c, p) ==
    IF is_naked_ack(p) THEN set_state(enqueue(c, "delete_socket"), "Closed") ELSE c

\* The 2 MSL timer is restarted.
TimeWait_receive(c, p) == IF p.fin THEN enqueue_send(c, NakedSegment) ELSE c

cm_receive_packet(c, p, trap) ==
    CASE c.state = "Listen" -> Listen_receive(c, p)
      [] c.state = "SynSent" -> SynSent_receive(c, p, trap)
      [] c.state = "SynReceived" -> SynReceived_receive(c, p, trap)
      [] c.state = "Established" -> Established_receive(c, p)
      [] c.state = "FinWait1" -> FinWait1_receive(c, p)
      [] c.state = "FinWait2" -> FinWait2_receive(c, p)
      [] c.state = "Closing" -> Closing_receive(c, p)
      [] c.state = "LastAck" -> LastAck_receive(c, p)
      [] c.state = "TimeWait" -> TimeWait_receive(c, p)
      [] OTHER -> c

Established_close(c) ==
    IF c.send_buffer = <<>> THEN enqueue_send(set_state(c, "FinWait1"), Fin) ELSE c

CloseWait_close(c) == set_state(enqueue_send(c, Fin), "LastAck")

Listen_close(c) == set_state(enqueue(c, "delete_socket"), "Closed")

cm_close(c) ==
    CASE c.state = "Established" -> Established_close(c)
      [] c.state = "CloseWait" -> CloseWait_close(c)
      [] c.state = "Listen" -> Listen_close(c)
      [] OTHER -> c

\* The pending 2 MSL timer of TimeWait.
cm_timer_fired(c) == set_state(enqueue(c, "delete_socket"), "Closed")

can_send(c) == c.state \in {"Established", "CloseWait"}
can_receive(c) == c.state \in {"Established", "FinWait1", "FinWait2"}
===============================================================================
