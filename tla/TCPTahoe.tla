-------------------------------- MODULE TCPTahoe -------------------------------
(***************************************************************************)
(* One TCP connection between two hosts that both run TCPTahoe: the client  *)
(* opens it actively, the server passively.  TCPTahoe hands each event to   *)
(* the reliability, connection management and congestion control contexts   *)
(* in turn.                                                                 *)
(*                                                                          *)
(* Each protocol object is one thread with a priority queue.  Calls of the  *)
(* application, packets and timers have LOW priority, the events a handler  *)
(* raises have HIGH priority, so a host finishes everything a LOW event     *)
(* set off before it takes the next one.  These cascades only read and      *)
(* write their own host and add to the network, so those of the two hosts   *)
(* commute and a LOW event is taken here only when both queues are empty.   *)
(*                                                                          *)
(* The network may lose, duplicate, delay and reorder: net[h] is the set of *)
(* packets of h under way, any of them may arrive next or never, and up to  *)
(* MaxDuplicates times the one that arrives stays to arrive again.          *)
(***************************************************************************)
EXTENDS TCPReliability, TCPCongestionControl, TCPConnectionManager

CONSTANTS
    Client, Server,
    Payload,        \* for each host the bytes its application wants to send
    SendLengths,    \* how many bytes one send() offers
    RecvLengths,    \* how many bytes one recv() asks for
    Closers,        \* the hosts whose application may call close()
    MaxTimeouts,    \* bound: retransmission and probe timers that fire
    MaxDuplicates   \* bound: packets that the network duplicates

Hosts == {Client, Server}

ASSUME HostsAssumption ==
    /\ Client # Server
    /\ MaxTimeouts \in Nat /\ MaxDuplicates \in Nat

VARIABLES
    host,       \* for each host its socket
    net,        \* for each host its packets that are under way
    timeouts,   \* timers that have fired
    duplicates  \* packets that have been duplicated

vars == <<host, net, timeouts, duplicates>>
bounds == <<timeouts, duplicates>>

Peer(h) == IF h = Client THEN Server ELSE Client

-------------------------------------------------------------------------------
\* The handlers of TCPTahoe.
CanSendAck ==
    {"Established", "FinWait1", "FinWait2", "CloseWait", "Closing", "LastAck", "TimeWait"}

\* The sequence number test of RFC 793; without a context everything passes.
is_valid_sequence_number(c, p) ==
    LET InWindow(n) == between_equal_left(c.rc.rcv_nxt, n, Plus(c.rc.rcv_nxt, c.rc.rcv_wnd))
    IN \/ c.rc.rcv_nxt = 0
       \/ p.data # <<>> /\ c.rc.rcv_wnd > 0 /\
            (InWindow(p.seq) \/ InWindow(Plus(p.seq, Len(p.data) - 1)))
       \/ p.data = <<>> /\ c.rc.rcv_wnd > 0 /\ InWindow(p.seq)
       \/ p.data = <<>> /\ c.rc.rcv_wnd = 0 /\ p.seq = c.rc.rcv_nxt

is_valid_ack_number(c, p) == between_equal(c.rc.snd_una, p.ackno, c.rc.snd_max)

is_duplicate_ack(c, p) ==
    /\ p.ack
    /\ c.rc.duplicate_ack_number = p.ackno
    /\ between_equal_left(p.ackno, c.rc.snd_una, c.rc.snd_nxt)
    /\ c.rc.duplicates + 1 >= 3

NeverSaveFin(c, p) == FALSE

\* The FIN waits until the application has read everything.
MustSaveFin(c, p) == p.fin /\ c.rc.rcv_wnd < MaxReceiveWindow

MayClose(c) == c.send_buffer = <<>> /\ c.saved_send = <<>>

FinishSavedClose(c) ==
    IF c.saved_close /\ MayClose(c) THEN [cm_close(c) EXCEPT !.saved_close = FALSE] ELSE c

\* Congestion control does not see a third or later duplicate acknowledgement
\* (duplicate: what the contexts said before they took the packet).
CongestionControlReceive(c, p, duplicate) ==
    IF duplicate THEN c ELSE cc_receive_packet(c, p)

receive_valid_packet(c, p, trap) ==
    FinishSavedClose(
        CongestionControlReceive(cm_receive_packet(rc_receive_packet(c, p), p, trap),
                                 p, is_duplicate_ack(c, p)))

receive_packet(c, p, trap) ==
    IF p.ack /\ ~is_valid_ack_number(c, p) THEN rc_receive_packet(c, p)
    ELSE IF ~is_valid_sequence_number(c, p)
    THEN IF c.state = "TimeWait" THEN cm_receive_packet(c, p, trap)
         ELSE IF c.state \in CanSendAck THEN create_and_dispatch_ack(c) ELSE c
    ELSE IF MustSaveFin(c, p) THEN [c EXCEPT !.saved_fin = {p}]
    ELSE receive_valid_packet(c, p, trap)

send_packet(c, s) == cc_send_packet(rc_send_packet(c, s), s)

tahoe_close(c) ==
    [IF MayClose(c) THEN cm_close(c) ELSE [c EXCEPT !.saved_close = TRUE]
     EXCEPT !.closed = TRUE]

RoomForOneMore(c) == MaxSendBuffer + 1 - Len(c.send_buffer)
get_available_room_in_send_buffer(c) == MaxSendBuffer - Len(c.send_buffer)

save_in_buffer_and_send_events(c, data) ==
    LET n == Lesser(get_available_room_in_send_buffer(c), Len(data))
    IN enqueue([c EXCEPT !.send_buffer = @ \o SubSeq(data, 1, n), !.accepted = @ + n],
               "send_buffer_not_empty")

tahoe_send(c, data) ==
    LET c1 == Require(c, get_available_room_in_send_buffer(c) >= 0, "send_buffer_room")
    IN IF get_available_room_in_send_buffer(c) > 0
       THEN save_in_buffer_and_send_events(c1, data)
       ELSE [c1 EXCEPT !.saved_send = data]

send_buffer_not_full(c) ==
    IF c.saved_send # <<>> /\ get_available_room_in_send_buffer(c) > 0
    THEN [save_in_buffer_and_send_events(c, c.saved_send) EXCEPT !.saved_send = <<>>]
    ELSE c

receive_buffer_not_full(c) ==
    IF c.saved_fin # {} /\ c.rc.rcv_wnd = MaxReceiveWindow
    THEN [c EXCEPT !.redispatched = c.saved_fin] ELSE c

delete_socket(c) == [c EXCEPT !.exists = FALSE]

-------------------------------------------------------------------------------
\* The machine.  A handler that fails an assertion ends its process: nothing it
\* did is seen by anyone.
Become(h, c) ==
    host' = [host EXCEPT ![h] =
                IF c.aborted = None THEN c
                ELSE [@ EXCEPT !.aborted = c.aborted, !.queue = <<>>]]

Quiet == \A h \in Hosts : host[h].queue = <<>>
Running(h) == host[h].aborted = None /\ host[h].exists
AcceptsLow(h) == Quiet /\ Running(h)

Init ==
    /\ host = [h \in Hosts |-> NewSocket]
    /\ net = [h \in Hosts |-> {}]
    /\ timeouts = 0 /\ duplicates = 0

\* connect() of the client, and listen() of the server, which is bound.
Connect ==
    /\ AcceptsLow(Client)
    /\ host[Client].connection_type = None
    /\ Become(Client, cm_connect(host[Client]))
    /\ UNCHANGED <<net, bounds>>

ListenCall ==
    /\ AcceptsLow(Server)
    /\ host[Server].connection_type = None
    /\ Become(Server, cm_listen(host[Server]))
    /\ UNCHANGED <<net, bounds>>

\* The application waits for the response to its last call.  The notice of the
\* peer's FIN also ends a recv() that waits.
ApplicationIdle(h) ==
    LET c == host[h]
    IN /\ AcceptsLow(h)
       /\ c.connected /\ ~c.closed /\ ~c.stuck
       /\ c.saved_send = <<>>
       /\ c.rc.receive_event = 0 \/ c.state = "CloseWait"

\* A call the state does not allow is dropped and never answered.
ApplicationCall(h, allowed, c) ==
    /\ ApplicationIdle(h)
    /\ Become(h, IF allowed THEN c ELSE [host[h] EXCEPT !.stuck = TRUE])
    /\ UNCHANGED <<net, bounds>>

Send(h) ==
    \E n \in SendLengths :
        LET c == host[h]
            data == SubSeq(Payload[h], c.accepted + 1, Lesser(c.accepted + n, Len(Payload[h])))
        IN data # <<>> /\ ApplicationCall(h, can_send(c), tahoe_send(c, data))

Receive(h) ==
    \E n \in RecvLengths :
        ApplicationCall(h, can_receive(host[h]), rc_receive(host[h], n))

Close(h) == h \in Closers /\ ApplicationCall(h, TRUE, tahoe_close(host[h]))

\* What the read of the unset connect event may do: only a host that leaves
\* SynReceived reads it.
Traps(h) == IF host[h].state = "SynReceived" THEN BOOLEAN ELSE {FALSE}

\* A packet of the peer arrives, or the saved FIN comes back.
ReceivePacket(h) ==
    /\ AcceptsLow(h)
    /\ \E p \in net[Peer(h)] :
        /\ \E trap \in Traps(h) : Become(h, receive_packet(host[h], p, trap))
        /\ \/ net' = [net EXCEPT ![Peer(h)] = @ \ {p}] /\ UNCHANGED duplicates
           \/ duplicates < MaxDuplicates /\ duplicates' = duplicates + 1 /\ UNCHANGED net
    /\ UNCHANGED timeouts

ReceiveSavedFin(h) ==
    /\ AcceptsLow(h)
    /\ \E p \in host[h].redispatched :
            Become(h, receive_packet([host[h] EXCEPT !.redispatched = {}], p, FALSE))
    /\ UNCHANGED <<net, bounds>>

CountTimeout == timeouts < MaxTimeouts /\ timeouts' = timeouts + 1

RetransmissionTimer(h) ==
    /\ AcceptsLow(h) /\ host[h].rc.timer
    /\ CountTimeout
    /\ Become(h, rc_timer_fired(host[h]))
    /\ UNCHANGED <<net, duplicates>>

ProbeTimer(h) ==
    /\ AcceptsLow(h) /\ host[h].ccc.probe_timer
    /\ CountTimeout
    /\ Become(h, cc_timer_fired(host[h]))
    /\ UNCHANGED <<net, duplicates>>

TimeWaitTimer(h) ==
    /\ AcceptsLow(h) /\ host[h].time_wait_timer
    /\ Become(h, cm_timer_fired(host[h]))
    /\ UNCHANGED <<net, bounds>>

-------------------------------------------------------------------------------
\* The HIGH events, in the order in which they were queued.  Events of a socket
\* that has been deleted are dropped.
NextEvent(h, event) ==
    /\ host[h].queue # <<>>
    /\ Head(host[h].queue).event = event

Dequeued(h) == [host[h] EXCEPT !.queue = Tail(@)]

Handle(h, event, c) ==
    /\ NextEvent(h, event)
    /\ Become(h, IF host[h].exists THEN c ELSE Dequeued(h))
    /\ UNCHANGED <<net, bounds>>

SendPacket(h) ==
    /\ NextEvent(h, "send_packet")
    /\ LET s == Head(host[h].queue).p
           c == Dequeued(h)
           sent == send_packet(c, s)
       IN IF host[h].exists
          THEN /\ Become(h, sent)
               /\ net' = IF sent.aborted = None
                         THEN [net EXCEPT ![h] = @ \cup {OutgoingPacket(c, s)}] ELSE net
          ELSE Become(h, c) /\ UNCHANGED net
    /\ UNCHANGED bounds

ResendPacket(h) == Handle(h, "resend_packet", cc_resend_packet(Dequeued(h)))
SendBufferNotEmpty(h) == Handle(h, "send_buffer_not_empty", send_packets(Dequeued(h)))
SendBufferNotFull(h) == Handle(h, "send_buffer_not_full", send_buffer_not_full(Dequeued(h)))
ReceiveBufferNotEmpty(h) ==
    Handle(h, "receive_buffer_not_empty", rc_receive_buffer_not_empty(Dequeued(h)))
ReceiveBufferNotFull(h) ==
    Handle(h, "receive_buffer_not_full", receive_buffer_not_full(Dequeued(h)))

\* The new socket takes over the listener's container, and accept() returns.
ConnectionInitiated(h) == Handle(h, "connection_initiated", Dequeued(h))
ConnectionEstablished(h) ==
    Handle(h, "connection_established", [Dequeued(h) EXCEPT !.connected = TRUE])
DeleteSocket(h) == Handle(h, "delete_socket", delete_socket(Dequeued(h)))

HighEvent(h) ==
    \/ SendPacket(h)
    \/ ResendPacket(h)
    \/ SendBufferNotEmpty(h)
    \/ SendBufferNotFull(h)
    \/ ReceiveBufferNotEmpty(h)
    \/ ReceiveBufferNotFull(h)
    \/ ConnectionInitiated(h)
    \/ ConnectionEstablished(h)
    \/ DeleteSocket(h)

LowEvent(h) ==
    \/ Send(h)
    \/ Receive(h)
    \/ Close(h)
    \/ ReceivePacket(h)
    \/ ReceiveSavedFin(h)
    \/ RetransmissionTimer(h)
    \/ ProbeTimer(h)
    \/ TimeWaitTimer(h)

Next ==
    \/ Connect
    \/ ListenCall
    \/ \E h \in Hosts : HighEvent(h) \/ LowEvent(h)

Spec == Init /\ [][Next]_vars
-------------------------------------------------------------------------------
\* The contexts stay within their types: sequence numbers within 32 bits, the
\* advertised window within 16, the send buffer within TCP_SOCKET_MAX_BUFFER_SIZE
\* although control bytes are appended to it without a test for room.
TypeOK ==
    \A h \in Hosts :
        LET c == host[h]
        IN /\ c.state \in States
           /\ c.rc.rcv_wnd \in 0..MaxReceiveWindow
           /\ {c.rc.snd_una, c.rc.snd_nxt, c.rc.snd_max, c.rc.rcv_nxt,
               c.ccc.snd_una, c.ccc.snd_nxt, c.ccc.snd_max} \subseteq SeqNum
           /\ c.ccc.cwnd \in Nat \ {0}
           /\ c.ccc.state \in {"SlowStart", "CongestionAvoidance"}
           /\ Len(c.send_buffer) <= MaxSendBuffer
           /\ c.accepted \in 0..Len(Payload[h])
           /\ \A i \in DOMAIN c.queue : c.queue[i].event \in ProtocolEvents

\* The bytes an application reads are those the peer's application wrote, in
\* order, none lost, repeated or changed, whatever the network does.
DeliveredIsPrefix ==
    \A h \in Hosts :
        /\ Len(host[Peer(h)].delivered) <= host[h].accepted
        /\ IsPrefix(host[Peer(h)].delivered, Payload[h])

\* Every data segment carries the bytes that belong to its sequence number.  The
\* reliability context numbers the segments and the congestion control context
\* cuts them out of the send buffer, each from its own copy of SND.NXT.
SegmentsCarryTheStream ==
    \A h \in Hosts : \A p \in net[h] :
        LET from == Minus(p.seq, Plus(Iss, 1))
        IN p.data = SubSeq(Payload[h], from + 1, from + Len(p.data))

\* The advertised window, the bytes not yet read and the bytes waiting for a hole
\* to be filled always add up to the whole receive window.
WindowAccountsForBuffers ==
    \A h \in Hosts :
        LET rc == host[h].rc
        IN rc.rcv_wnd + (Len(host[h].receive_buffer) - rc.receive_index)
             + size(rc.receive_window) = MaxReceiveWindow

\* When a host has taken the peer's FIN its application has read every byte the
\* peer ever accepted: no later call could read it.
FinAfterEverythingRead ==
    \A h \in Hosts :
        host[h].state \in {"CloseWait", "LastAck", "TimeWait"} =>
            /\ host[Peer(h)].closed
            /\ Len(host[h].delivered) = host[Peer(h)].accepted

\* Between events the two contexts agree on what is outstanding, as long as no
\* FIN has been sent: a retransmitted FIN moves only one of them.
ContextsAgree ==
    Quiet => \A h \in Hosts :
        LET c == host[h]
        IN Running(h) =>
            /\ c.rc.snd_una = c.ccc.snd_una
            /\ c.state \in {"SynSent", "SynReceived", "Established", "CloseWait"} =>
                   c.rc.snd_nxt = c.ccc.snd_nxt

\* Between events the retransmission timer runs exactly while something is
\* outstanding: what is lost is sent again, and nothing else ever is.
TimerCoversOutstanding ==
    Quiet => \A h \in Hosts :
        Running(h) => (host[h].rc.timer <=> host[h].rc.snd_una # host[h].rc.snd_nxt)

\* Between events what is outstanding fits in the congestion window, through
\* timeouts, fast retransmits and acknowledgements beyond SND.NXT; only a probe
\* may exceed it, and its timer runs until there is room again.
FlightWithinCwnd ==
    Quiet => \A h \in Hosts :
        Running(h) /\ ~host[h].ccc.probe_timer =>
            get_num_outstanding(host[h].ccc) <= host[h].ccc.cwnd

\* What a sender has dropped from its send buffer as acknowledged, the peer has
\* received; and a receiver never expects a byte beyond those that were sent.
AcknowledgedWasReceived ==
    \A h \in Hosts :
        LET mine == host[h].rc
            theirs == host[Peer(h)].rc
        IN theirs.rcv_nxt # 0 =>
            /\ less_than_or_equal(mine.snd_una, theirs.rcv_nxt)
            /\ less_than_or_equal(theirs.rcv_nxt, mine.snd_max)

\* No assertion fails but these: a probe that finds nothing to send, a resend
\* into a window below one segment, data beyond the window (stated next), and the
\* read of the connect event by a passive open.
OtherAssertionsHold ==
    \A h \in Hosts :
        host[h].aborted \in {None, "send_data_length", "resend_data_length",
                             "handle_data_no_room", "established_connect_event"}

\* assert(false) of handle_data: data that passed the sequence number test fits
\* in the receive window.
DataFitsTheWindow == \A h \in Hosts : host[h].aborted # "handle_data_no_room"

\* A FIN that the reliability context has counted has also reached the connection
\* manager, which has left the states in which the peer may still send.
FinReachesConnectionManager ==
    Quiet => \A h \in Hosts :
        /\ Running(h)
        /\ host[Peer(h)].state = "FinWait2"
        /\ host[h].rc.rcv_nxt = host[Peer(h)].rc.snd_max
        => host[h].state # "Established"
===============================================================================
