------------------------------ MODULE TCPContext ------------------------------
(***************************************************************************)
(* The state of one TCP socket: the socket's two buffers, the container     *)
(* TCPTahoe keeps for it, and the three contexts of the container.  The     *)
(* handlers of TCPReliability, TCPCongestionControl, TCPConnectionManager   *)
(* and TCPTahoe are operators from such a record, called c, to the record   *)
(* after the handler ran.                                                   *)
(*                                                                          *)
(* A timer is a BOOLEAN: the code compares the fired TimeoutEvent with the  *)
(* pointer it keeps, so a timer it has cancelled or replaced is ignored and *)
(* the pending one may fire at any moment.                                  *)
(***************************************************************************)
EXTENDS TCPPacketBuffer, FiniteSets

CONSTANTS
    Iss,                \* u_int32_t iss of the container's constructor
    Mss,                \* max_data_length() of a packet with a timestamp
    MaxReceiveWindow,   \* MAX_TCP_RECEIVE_WINDOW_SIZE, the largest u_int16_t
    MaxSendBuffer,      \* TCP_SOCKET_MAX_BUFFER_SIZE
    Rfc3390Bytes,       \* 4380, the bytes of the initial window of RFC 3390
    InitialSsthresh,    \* USHRT_MAX, the first slow start threshold
    SynByte, FinByte    \* SYN_BYTE and FIN_BYTE, in-band in the send buffer

ASSUME TCPAssumption ==
    /\ Iss \in SeqNum
    /\ Mss \in Nat \ {0}
    /\ MaxReceiveWindow \in Nat /\ MaxReceiveWindow >= 2 * Mss
    /\ MaxReceiveWindow <= IntMax
    /\ MaxSendBuffer \in Nat \ {0}
    /\ Rfc3390Bytes \in Nat /\ InitialSsthresh \in Nat
    /\ SynByte # FinByte

None == "none"

\* The smaller and the larger of two numbers (std::min and std::max).
Lesser(a, b) == IF a < b THEN a ELSE b
Greater(a, b) == IF a < b THEN b ELSE a

\* u_int16_t, and a u_int32_t converted to int.
UShort(n) == n % (MaxReceiveWindow + 1)
AsInt(n) == IF n > IntMax THEN n - Modulus ELSE n

-------------------------------------------------------------------------------
\* What a handler fills in of a packet it hands to icontext_send_packet, and
\* the events with HIGH priority that a handler puts on the protocol's queue.
Segment(syn, ack, fin, data) == [syn |-> syn, ack |-> ack, fin |-> fin, data |-> data]
NakedSegment == Segment(FALSE, FALSE, FALSE, <<>>)

ProtocolEvents ==
    {"send_packet", "resend_packet", "send_buffer_not_empty", "send_buffer_not_full",
     "receive_buffer_not_empty", "receive_buffer_not_full",
     "connection_initiated", "connection_established", "delete_socket"}

enqueue(c, event) == [c EXCEPT !.queue = Append(@, [event |-> event, p |-> NakedSegment])]
enqueue_send(c, segment) ==
    [c EXCEPT !.queue = Append(@, [event |-> "send_packet", p |-> segment])]

\* A failed assert() or a trap.  The first one ends the process.
Abort(c, where) == [c EXCEPT !.aborted = IF @ = None THEN where ELSE @]
Require(c, condition, where) == IF condition THEN c ELSE Abort(c, where)

-------------------------------------------------------------------------------
\* OutstandingDataContext, shared by reliability and congestion control.
set_snd_nxt(x, n) ==
    [x EXCEPT !.snd_nxt = n, !.snd_max = IF less_than(@, n) THEN n ELSE @]

get_num_outstanding(x) == Minus(x.snd_nxt, x.snd_una)

\* SlowStart::state_enter, RFC 3390.
InitialCwnd == Lesser(4 * Mss, Greater(2 * Mss, Rfc3390Bytes))

NewReliability ==
    [initialized |-> FALSE, rcv_nxt |-> 0, rcv_wnd |-> MaxReceiveWindow,
     timer |-> FALSE, duplicate_ack_number |-> 0, duplicates |-> 0,
     receive_event |-> 0, receive_index |-> 0, receive_window |-> EmptyBuffer,
     snd_una |-> 0, snd_nxt |-> 0, snd_max |-> 0]

NewCongestionControl ==
    [snd_wnd |-> 0, snd_wnd1 |-> 0, snd_wnd2 |-> 0, cwnd |-> InitialCwnd,
     ssthreshold |-> InitialSsthresh, state |-> "SlowStart", data_sent |-> FALSE,
     probe_timer |-> FALSE, snd_una |-> 0, snd_nxt |-> 0, snd_max |-> 0]

\* A socket right after icontext_socket().
NewSocket ==
    [state |-> "Closed",           \* state of the ConnectionManagerContext
     connection_type |-> None,
     time_wait_timer |-> FALSE,
     rc |-> NewReliability,
     ccc |-> NewCongestionControl,
     send_buffer |-> <<>>,
     receive_buffer |-> <<>>,
     saved_send |-> <<>>,          \* data of the saved SendEvent
     saved_close |-> FALSE,
     saved_fin |-> {},             \* the saved FIN packet, if any
     redispatched |-> {},          \* the saved FIN, on its way through the Dispatcher
     queue |-> <<>>,               \* HIGH events of the protocol's queue
     exists |-> TRUE,              \* sockets_.contains(s)
     connected |-> FALSE,          \* connect() or accept() has returned
     closed |-> FALSE,             \* the application has called close()
     stuck |-> FALSE,              \* a call the protocol dropped without a response
     accepted |-> 0,               \* bytes send() has taken from the application
     delivered |-> <<>>,           \* bytes recv() has handed to the application
     aborted |-> None]
===============================================================================
