------------------------------ MODULE TCPAPProofs ------------------------------
(***************************************************************************)
(* Proofs about TCPAP, for every set of intervals and delays and all        *)
(* bounds.  The limiter and the reliability context have an invariant each. *)
(* PacedInOrder alone is not inductive: that a limiter which may send has   *)
(* no timer keeps its timer from firing a second time, and the intervals    *)
(* must lie within the range of the clock.                                  *)
(***************************************************************************)
EXTENDS TCPAP, TLAPS

Packet == [n : Nat, segment : Int]

LimiterType ==
    [canSend_ : BOOLEAN, queue_ : Seq(Packet), waitingTimeout_ : Int, interval : Int,
     fixed_rate_ : BOOLEAN, admitted : Nat, last : Nat, reached : Int,
     since : Nat, owed : Nat, aborted : BOOLEAN, rates : Nat]

ReliabilityType ==
    [timeout_event_ : Int, snd_una : Int, snd_nxt : Int, snd_max : Int,
     ack_timer_ : Int, cur_ack_count_ : Nat, delay_count_ : Nat \ {0},
     masked : BOOLEAN, aborted : BOOLEAN, ackable : Nat]

\* The queue holds the segments after the last one sent.
InOrder(l) ==
    /\ Len(l.queue_) = l.admitted - l.last
    /\ \A i \in DOMAIN l.queue_ : l.queue_[i].n = l.last + i

\* What is owed has passed or is left on the timer.
Apart(l) ==
    IF l.canSend_ THEN l.queue_ = <<>> /\ l.waitingTimeout_ = Off /\ l.since >= l.owed
    ELSE l.waitingTimeout_ >= 0 /\ l.since + l.waitingTimeout_ >= l.owed

LimiterOK(l) ==
    /\ l \in LimiterType
    /\ l.interval <= MaxInterval
    /\ ~l.aborted => InOrder(l) /\ Apart(l) /\ l.owed <= MaxInterval

ReliabilityOK(r) ==
    /\ r \in ReliabilityType
    /\ r.ack_timer_ >= Off
    /\ ~r.masked => ~r.aborted /\ (r.cur_ack_count_ > 0 => r.ack_timer_ # Off)

-------------------------------------------------------------------------------
\* Updates of one field keep the types.
LEMMA LimiterFields ==
    ASSUME NEW l \in LimiterType
    PROVE  /\ \A a \in BOOLEAN : [l EXCEPT !.canSend_ = a] \in LimiterType
           /\ \A q \in Seq(Packet) : [l EXCEPT !.queue_ = q] \in LimiterType
           /\ \A n \in Nat : [l EXCEPT !.admitted = n] \in LimiterType
           /\ \A n \in Int : [l EXCEPT !.waitingTimeout_ = n] \in LimiterType
           /\ \A n \in Nat, k \in Int : [l EXCEPT !.last = n, !.reached = k, !.since = 0] \in LimiterType
<1>1. \A a \in BOOLEAN : [l EXCEPT !.canSend_ = a] \in LimiterType
  BY DEF LimiterType
<1>2. \A q \in Seq(Packet) : [l EXCEPT !.queue_ = q] \in LimiterType
  BY DEF LimiterType
<1>3. \A n \in Nat : [l EXCEPT !.admitted = n] \in LimiterType
  BY DEF LimiterType
<1>4. \A n \in Int : [l EXCEPT !.waitingTimeout_ = n] \in LimiterType
  BY DEF LimiterType
<1>5. \A n \in Nat, k \in Int : [l EXCEPT !.last = n, !.reached = k, !.since = 0] \in LimiterType
  BY DEF LimiterType
<1> QED BY <1>1, <1>2, <1>3, <1>4, <1>5

LEMMA ReliabilityFields ==
    ASSUME NEW r \in ReliabilityType
    PROVE  /\ \A a \in BOOLEAN : [r EXCEPT !.masked = a] \in ReliabilityType
           /\ \A n \in Int : [r EXCEPT !.ack_timer_ = n] \in ReliabilityType
           /\ \A n \in Nat : [r EXCEPT !.cur_ack_count_ = n] \in ReliabilityType
<1>1. \A a \in BOOLEAN : [r EXCEPT !.masked = a] \in ReliabilityType
  BY DEF ReliabilityType
<1>2. \A n \in Int : [r EXCEPT !.ack_timer_ = n] \in ReliabilityType
  BY DEF ReliabilityType
<1>3. \A n \in Nat : [r EXCEPT !.cur_ack_count_ = n] \in ReliabilityType
  BY DEF ReliabilityType
<1> QED BY <1>1, <1>2, <1>3

LEMMA Integral == Off \in Int /\ AckDelay \in Int
BY TCPAPAssumption DEF Off

\* Between the dispatch of a segment and setTimer.
Dispatched(l) ==
    /\ l \in LimiterType /\ ~l.aborted
    /\ l.interval <= MaxInterval
    /\ InOrder(l) /\ ~l.canSend_ /\ l.since = 0

\* setTimer makes up for the segment just sent.
LEMMA SetTimer ==
    ASSUME NEW l, Dispatched(l)
    PROVE  LimiterOK(setTimer(l))
<1>1. CASE l.interval < 0
  <2>1. setTimer(l) = [l EXCEPT !.aborted = TRUE]
    BY <1>1 DEF setTimer
  <2> QED BY <2>1 DEF LimiterOK, Dispatched, LimiterType
<1>2. CASE ~(l.interval < 0)
  <2>1. setTimer(l) = [l EXCEPT !.waitingTimeout_ = l.interval, !.owed = l.interval]
    BY <1>2 DEF setTimer
  <2>2. l.interval \in Nat
    BY <1>2 DEF Dispatched, LimiterType
  <2>3. setTimer(l) \in LimiterType
    BY <2>1, <2>2 DEF Dispatched, LimiterType
  <2>4. InOrder(setTimer(l))
    BY <2>1 DEF Dispatched, InOrder, LimiterType
  <2>5. Apart(setTimer(l)) /\ setTimer(l).owed <= MaxInterval /\ setTimer(l).interval <= MaxInterval
    BY <2>1, <2>2 DEF Dispatched, Apart, LimiterType
  <2> QED BY <2>3, <2>4, <2>5 DEF LimiterOK
<1> QED BY <1>1, <1>2

\* Handing a segment over keeps the limiter's invariant.
LEMMA SendPacket ==
    ASSUME NEW l, LimiterOK(l), ~l.aborted, NEW segment \in Int
    PROVE  LimiterOK(limiter_send_packet(l, segment))
<1> DEFINE p == [n |-> l.admitted + 1, segment |-> segment]
<1>1. p \in Packet /\ l \in LimiterType
  BY DEF LimiterOK, LimiterType, Packet
<1>2. CASE l.canSend_
  <2> DEFINE s == dispatch_packet([l EXCEPT !.admitted = p.n, !.canSend_ = FALSE], p)
             reached == Greater(l.reached, segment)
  <2>1. s = [l EXCEPT !.admitted = l.admitted + 1, !.canSend_ = FALSE,
                      !.last = l.admitted + 1, !.reached = reached, !.since = 0]
    BY <1>1 DEF dispatch_packet, LimiterType
  <2>2. reached \in Int
    BY <1>1 DEF Greater, LimiterType
  <2> HIDE DEF reached, s
  <2>3. s \in LimiterType
    <3> DEFINE a == [l EXCEPT !.admitted = l.admitted + 1]
               b == [a EXCEPT !.canSend_ = FALSE]
    <3>1. l.admitted + 1 \in Nat
      BY <1>1 DEF LimiterType
    <3>2. a \in LimiterType
      BY <1>1, <3>1, LimiterFields
    <3>3. b \in LimiterType
      BY <3>2, LimiterFields
    <3>4. [b EXCEPT !.last = l.admitted + 1, !.reached = reached, !.since = 0] \in LimiterType
      BY <3>1, <3>3, <2>2, LimiterFields
    <3> QED BY <2>1, <3>4
  <2>4. /\ s.queue_ = l.queue_ /\ s.last = l.admitted + 1 /\ s.admitted = l.admitted + 1
        /\ s.since = 0 /\ s.canSend_ = FALSE /\ s.aborted = l.aborted /\ s.interval = l.interval
    BY <1>1, <2>1 DEF LimiterType
  <2>7. l.queue_ = <<>>
    BY <1>2 DEF LimiterOK, Apart
  <2>5. Dispatched(s)
    BY <1>1, <2>3, <2>4, <2>7 DEF Dispatched, InOrder, LimiterOK, LimiterType
  <2>6. limiter_send_packet(l, segment) = setTimer(s)
    BY <1>2 DEF limiter_send_packet, s
  <2> QED BY <2>5, <2>6, SetTimer
<1>3. CASE ~l.canSend_
  <2> DEFINE q == Append(l.queue_, p)
             s == [l EXCEPT !.admitted = l.admitted + 1, !.queue_ = q]
  <2>1. limiter_send_packet(l, segment) = s
    BY <1>3 DEF limiter_send_packet
  <2>2. /\ q \in Seq(Packet) /\ Len(q) = Len(l.queue_) + 1
        /\ \A i \in DOMAIN q : q[i] = IF i = Len(q) THEN p ELSE l.queue_[i]
    BY <1>1 DEF LimiterType
  <2> HIDE DEF q, p
  <2>3. s \in LimiterType
    <3>1. l.admitted + 1 \in Nat
      BY <1>1 DEF LimiterType
    <3>2. [l EXCEPT !.admitted = l.admitted + 1] \in LimiterType
      BY <1>1, <3>1, LimiterFields
    <3> QED BY <3>2, <2>2, LimiterFields
  <2>4. /\ s.queue_ = q /\ s.admitted = l.admitted + 1 /\ s.last = l.last
        /\ s.canSend_ = l.canSend_ /\ s.waitingTimeout_ = l.waitingTimeout_
        /\ s.since = l.since /\ s.owed = l.owed /\ s.interval = l.interval
    BY <1>1 DEF LimiterType
  <2> HIDE DEF s
  <2>5. InOrder(s)
    <3>1. Len(l.queue_) = l.admitted - l.last /\ l.admitted \in Nat /\ l.last \in Nat
          /\ DOMAIN l.queue_ = 1 .. Len(l.queue_) /\ DOMAIN q = 1 .. Len(q) /\ Len(l.queue_) \in Nat
      BY <1>1, <2>2 DEF LimiterOK, InOrder, LimiterType
    <3>2. \A i \in DOMAIN l.queue_ : l.queue_[i].n = l.last + i
      BY DEF LimiterOK, InOrder
    <3>3. ASSUME NEW i \in DOMAIN q PROVE q[i].n = l.last + i
      <4>1. CASE i = Len(q)
        BY <4>1, <3>1, <2>2 DEF p
      <4>2. CASE i # Len(q)
        <5>1. i \in DOMAIN l.queue_ /\ q[i] = l.queue_[i]
          BY <4>2, <3>1, <2>2
        <5> QED BY <5>1, <3>2
      <4> QED BY <4>1, <4>2
    <3> QED BY <3>1, <3>3, <2>2, <2>4 DEF InOrder
  <2>6. Apart(s) /\ s.owed <= MaxInterval /\ s.interval <= MaxInterval
    BY <1>3, <2>4 DEF LimiterOK, Apart
  <2> QED BY <2>1, <2>3, <2>5, <2>6 DEF LimiterOK
<1> QED BY <1>2, <1>3, <1>1 DEF LimiterType

\* The limiter's own timer keeps its invariant.
LEMMA TimerFired ==
    ASSUME NEW l, LimiterOK(l), ~l.aborted, l.waitingTimeout_ = 0
    PROVE  LimiterOK(limiter_timer_fired(l))
<1>1. l \in LimiterType /\ InOrder(l) /\ ~l.canSend_ /\ l.since >= l.owed
  BY DEF LimiterOK, Apart, LimiterType, Off
<1>2. CASE l.queue_ # <<>>
  <2> DEFINE q == Tail(l.queue_)
             p == Head(l.queue_)
             s == SendNext(l)
  <2>1. /\ q \in Seq(Packet) /\ p \in Packet
        /\ Len(q) = Len(l.queue_) - 1 /\ Len(l.queue_) \in Nat /\ Len(l.queue_) > 0
        /\ p = l.queue_[1] /\ 1 \in DOMAIN l.queue_
        /\ \A i \in DOMAIN q : i + 1 \in DOMAIN l.queue_ /\ q[i] = l.queue_[i + 1]
        /\ DOMAIN q \subseteq Nat
    BY <1>1, <1>2 DEF LimiterType
  <2>2. p.n = l.last + 1 /\ p.n \in Nat /\ p.segment \in Int
    BY <1>1, <2>1 DEF InOrder, Packet, LimiterType
  <2> HIDE DEF q, p
  <2>3. Greater(l.reached, p.segment) \in Int
    BY <1>1, <2>2 DEF Greater, LimiterType
  <2>4. s = [l EXCEPT !.queue_ = q, !.last = p.n, !.reached = Greater(l.reached, p.segment),
                      !.since = 0]
    BY <1>1 DEF SendNext, dispatch_packet, q, p, LimiterType
  <2> HIDE DEF s
  <2>5. s \in LimiterType
    BY <1>1, <2>1, <2>2, <2>3, <2>4 DEF LimiterType
  <2>6. /\ s.queue_ = q /\ s.last = l.last + 1 /\ s.admitted = l.admitted /\ s.since = 0
        /\ ~s.canSend_ /\ ~s.aborted /\ s.interval = l.interval
    BY <1>1, <2>2, <2>4 DEF LimiterType
  <2>7. InOrder(s)
    <3>1. ASSUME NEW i \in DOMAIN q PROVE q[i].n = s.last + i
      <4>1. i \in Nat /\ q[i].n = l.last + (i + 1) /\ l.last \in Nat
        BY <1>1, <2>1 DEF InOrder, LimiterType
      <4> QED BY <4>1, <2>6
    <3>2. Len(l.queue_) = l.admitted - l.last /\ l.admitted \in Nat /\ l.last \in Nat
      BY <1>1 DEF InOrder, LimiterType
    <3>3. Len(q) = l.admitted - (l.last + 1) BY <2>1, <3>2
    <3> QED BY <2>6, <3>1, <3>3 DEF InOrder
  <2>8. Dispatched(s)
    BY <2>5, <2>6, <2>7 DEF Dispatched, LimiterOK
  <2>9. limiter_timer_fired(l) = setTimer(s)
    BY <1>2 DEF limiter_timer_fired, s
  <2> QED BY <2>8, <2>9, SetTimer
<1>3. CASE l.queue_ = <<>>
  <2>1. limiter_timer_fired(l) = [l EXCEPT !.canSend_ = TRUE, !.waitingTimeout_ = Off]
    BY <1>3 DEF limiter_timer_fired
  <2> DEFINE s == limiter_timer_fired(l)
  <2>2. s \in LimiterType
    <3>1. [l EXCEPT !.canSend_ = TRUE] \in LimiterType
      BY <1>1, LimiterFields
    <3>2. [[l EXCEPT !.canSend_ = TRUE] EXCEPT !.waitingTimeout_ = Off] \in LimiterType
      BY <3>1, LimiterFields, Integral
    <3> QED BY <2>1, <3>2
  <2>3. /\ s.queue_ = l.queue_ /\ s.last = l.last /\ s.admitted = l.admitted
        /\ s.since = l.since /\ s.owed = l.owed /\ s.canSend_ = TRUE
        /\ s.waitingTimeout_ = Off /\ s.interval = l.interval /\ s.aborted = l.aborted
    BY <1>1, <2>1 DEF LimiterType
  <2> HIDE DEF s
  <2>4. InOrder(s) /\ Apart(s) /\ s.owed <= MaxInterval
    BY <1>1, <1>3, <2>3 DEF InOrder, Apart, LimiterOK
  <2>5. LimiterOK(s)
    BY <2>2, <2>3, <2>4 DEF LimiterOK
  <2> QED BY <2>5 DEF s
<1> QED BY <1>2, <1>3

\* A new interval, of the application or of the computation, keeps it.
LEMMA SetInterval ==
    ASSUME NEW l, LimiterOK(l), NEW i \in Int, i <= MaxInterval
    PROVE  LimiterOK([l EXCEPT !.interval = i])
BY DEF LimiterOK, LimiterType, InOrder, Apart

LEMMA IntervalsInRange ==
    ASSUME NEW l, LimiterOK(l), NEW i \in AfterReceive(l) \cup AnyInterval
    PROVE  i \in Int /\ i <= MaxInterval
BY TCPAPAssumption DEF AfterReceive, AnyInterval, Negative, LimiterOK, LimiterType
-------------------------------------------------------------------------------
\* The retransmission timer and the numbers of the sender are no part of what the
\* reliability invariant says, except for their types.
LEMMA ReliabilitySends ==
    ASSUME NEW r, ReliabilityOK(r)
    PROVE  /\ ReliabilityOK(rc_send_packet(r)) /\ ReliabilityOK(resend_data(r))
           /\ ReliabilityOK(cancel_timer(r)) /\ ReliabilityOK(start_timer(r))
           /\ NextSegment(r) \in Int
<1>1. r \in ReliabilityType
  BY DEF ReliabilityOK
<1>2. NextSegment(r) \in Int /\ Greater(r.snd_max, NextSegment(r)) \in Int
  BY <1>1 DEF NextSegment, Greater, ReliabilityType
<1>3. ASSUME NEW c, ReliabilityOK(c) PROVE ReliabilityOK(start_timer(c))
  BY <1>3, TCPAPAssumption DEF start_timer, ReliabilityOK, ReliabilityType
<1>4. ReliabilityOK(resend_data(r)) /\ ReliabilityOK(cancel_timer(r))
  BY DEF resend_data, cancel_timer, ReliabilityOK, ReliabilityType, Off
<1>5. ReliabilityOK([r EXCEPT !.snd_nxt = NextSegment(r),
                              !.snd_max = Greater(r.snd_max, NextSegment(r))])
  BY <1>2 DEF ReliabilityOK, ReliabilityType
<1> QED BY <1>2, <1>3, <1>4, <1>5 DEF rc_send_packet

\* Counting an acknowledgement: it is sent, covered by a timer, or masked; the
\* assertion fails only for one that was masked before.
LEMMA CreateAck ==
    ASSUME NEW r, ReliabilityOK(r), ~r.aborted
    PROVE  ReliabilityOK(create_and_dispatch_ack(r))
<1> DEFINE s == create_and_dispatch_ack(r)
           more == r.cur_ack_count_ + 1
<1>1. r \in ReliabilityType /\ AckDelay \in Nat /\ r.aborted = FALSE /\ more \in Nat
  BY TCPAPAssumption DEF ReliabilityOK, ReliabilityType
<1>2. CASE more >= r.delay_count_ /\ r.delay_count_ = 1
  <2>1. s = [r EXCEPT !.cur_ack_count_ = 0, !.masked = FALSE]
    BY <1>2 DEF create_and_dispatch_ack, Acknowledge
  <2> HIDE DEF s
  <2>2. s \in ReliabilityType
    BY <1>1, <2>1 DEF ReliabilityType
  <2>3. s.cur_ack_count_ = 0 /\ s.aborted = r.aborted /\ s.ack_timer_ = r.ack_timer_
    BY <1>1, <2>1 DEF ReliabilityType
  <2>4. ReliabilityOK(s)
    BY <1>1, <2>2, <2>3 DEF ReliabilityOK
  <2> QED BY <2>4 DEF s
<1>3. CASE more >= r.delay_count_ /\ r.delay_count_ # 1 /\ r.ack_timer_ = Off
  <2>1. s = [r EXCEPT !.cur_ack_count_ = more, !.aborted = TRUE]
    BY <1>1, <1>3 DEF create_and_dispatch_ack, cancel_ack_timer, Counted, ReliabilityType
  <2> HIDE DEF s
  <2>2. s \in ReliabilityType
    BY <1>1, <2>1 DEF ReliabilityType
  <2>3. s.masked = r.masked /\ s.ack_timer_ = r.ack_timer_
    BY <1>1, <2>1 DEF ReliabilityType
  <2>4. r.cur_ack_count_ > 0
    BY <1>1, <1>3 DEF ReliabilityType
  <2>5. r.masked
    BY <1>3, <2>4 DEF ReliabilityOK
  <2>6. ReliabilityOK(s)
    BY <2>2, <2>3, <2>5 DEF ReliabilityOK
  <2> QED BY <2>6 DEF s
<1>4. CASE more >= r.delay_count_ /\ r.delay_count_ # 1 /\ r.ack_timer_ # Off
  <2>1. s = [r EXCEPT !.ack_timer_ = Off, !.cur_ack_count_ = 0, !.masked = FALSE]
    BY <1>1, <1>4 DEF create_and_dispatch_ack, cancel_ack_timer, Acknowledge, ReliabilityType
  <2> HIDE DEF s
  <2>2. s \in ReliabilityType
    <3> DEFINE a == [r EXCEPT !.ack_timer_ = Off]
               b == [a EXCEPT !.cur_ack_count_ = 0]
    <3>1. a \in ReliabilityType
      BY <1>1, ReliabilityFields, Integral
    <3>2. b \in ReliabilityType
      BY <3>1, ReliabilityFields
    <3>3. [b EXCEPT !.masked = FALSE] \in ReliabilityType
      BY <3>2, ReliabilityFields
    <3> QED BY <2>1, <3>3
  <2>3. s.cur_ack_count_ = 0 /\ s.aborted = r.aborted /\ s.ack_timer_ = Off
    BY <1>1, <2>1 DEF ReliabilityType
  <2>4. ReliabilityOK(s)
    BY <1>1, <2>2, <2>3 DEF ReliabilityOK, Off
  <2> QED BY <2>4 DEF s
<1>5. CASE ~(more >= r.delay_count_) /\ r.ack_timer_ = Off /\ r.timeout_event_ # Off
  <2>1. s = [r EXCEPT !.cur_ack_count_ = more, !.masked = TRUE]
    BY <1>1, <1>5 DEF create_and_dispatch_ack, start_ack_timer, Counted, ReliabilityType
  <2> HIDE DEF s
  <2>2. s \in ReliabilityType
    BY <1>1, <2>1 DEF ReliabilityType
  <2>3. s.masked = TRUE /\ s.ack_timer_ = r.ack_timer_
    BY <1>1, <2>1 DEF ReliabilityType
  <2>4. ReliabilityOK(s)
    BY <2>2, <2>3 DEF ReliabilityOK
  <2> QED BY <2>4 DEF s
<1>6. CASE ~(more >= r.delay_count_) /\ r.ack_timer_ = Off /\ r.timeout_event_ = Off
  <2>1. s = [r EXCEPT !.cur_ack_count_ = more, !.masked = FALSE, !.ack_timer_ = AckDelay]
    BY <1>1, <1>6 DEF create_and_dispatch_ack, start_ack_timer, Counted, ReliabilityType
  <2> HIDE DEF s
  <2>2. s \in ReliabilityType
    <3> DEFINE a == [r EXCEPT !.cur_ack_count_ = more]
               b == [a EXCEPT !.masked = FALSE]
    <3>1. a \in ReliabilityType
      BY <1>1, ReliabilityFields
    <3>2. b \in ReliabilityType
      BY <3>1, ReliabilityFields
    <3>3. [b EXCEPT !.ack_timer_ = AckDelay] \in ReliabilityType
      BY <3>2, ReliabilityFields, Integral
    <3> QED BY <2>1, <3>3
  <2>3. s.aborted = r.aborted /\ s.ack_timer_ = AckDelay
    BY <1>1, <2>1 DEF ReliabilityType
  <2>4. ReliabilityOK(s)
    BY <1>1, <2>2, <2>3 DEF ReliabilityOK, Off
  <2> QED BY <2>4 DEF s
<1>7. CASE ~(more >= r.delay_count_) /\ r.ack_timer_ # Off
  <2>1. s = [r EXCEPT !.cur_ack_count_ = more]
    BY <1>7 DEF create_and_dispatch_ack, Counted
  <2> HIDE DEF s
  <2>2. s \in ReliabilityType
    BY <1>1, <2>1 DEF ReliabilityType
  <2>3. s.aborted = r.aborted /\ s.ack_timer_ = r.ack_timer_
    BY <1>1, <2>1 DEF ReliabilityType
  <2>4. ReliabilityOK(s)
    BY <1>1, <1>7, <2>2, <2>3 DEF ReliabilityOK
  <2> QED BY <2>4 DEF s
<1> QED BY <1>2, <1>3, <1>4, <1>5, <1>6, <1>7

\* An acknowledgement that is received: what it acknowledges leaves the invariant
\* alone, and one of what was never sent is counted.
LEMMA HandleAck ==
    ASSUME NEW r, ReliabilityOK(r), ~r.aborted, NEW n \in Int
    PROVE  ReliabilityOK(handle_ack(r, n))
<1> DEFINE acked == [r EXCEPT !.snd_una = n, !.snd_nxt = Greater(r.snd_nxt, n)]
<1>1. ReliabilityOK(acked)
  <2>1. Greater(r.snd_nxt, n) \in Int
    BY DEF Greater, ReliabilityOK, ReliabilityType
  <2> QED BY <2>1 DEF ReliabilityOK, ReliabilityType
<1> HIDE DEF acked
<1>2. ReliabilityOK(cancel_timer(acked)) /\ ReliabilityOK(start_timer(cancel_timer(acked)))
  BY <1>1, ReliabilitySends
<1>3. ReliabilityOK(create_and_dispatch_ack(r))
  BY CreateAck
<1>4. handle_ack(r, n) \in {r, cancel_timer(acked), start_timer(cancel_timer(acked)),
                            create_and_dispatch_ack(r)}
  BY DEF handle_ack, handle_valid_ack, acked
<1> QED BY <1>2, <1>3, <1>4

LEMMA HandleAckRuns ==
    ASSUME NEW r, ReliabilityOK(r), NEW n \in Int, ~AcksUnsent(r, n)
    PROVE  handle_ack(r, n).aborted = r.aborted
BY DEF handle_ack, handle_valid_ack, cancel_timer, start_timer, ReliabilityOK, ReliabilityType

\* Time: a timer that runs keeps running until it is late, and what it has less is
\* what has passed.
LEMMA TickReliability ==
    ASSUME NEW r, ReliabilityOK(r)
    PROVE  ReliabilityOK([r EXCEPT !.timeout_event_ = Elapsed(r.timeout_event_),
                                   !.ack_timer_ = Elapsed(r.ack_timer_)])
<1>1. /\ Elapsed(r.timeout_event_) \in Int /\ Elapsed(r.ack_timer_) \in Int
      /\ Elapsed(r.ack_timer_) >= Off
      /\ r.ack_timer_ # Off => Elapsed(r.ack_timer_) # Off
  BY DEF Elapsed, ReliabilityOK, ReliabilityType, Off
<1> QED BY <1>1 DEF ReliabilityOK, ReliabilityType

LEMMA TickLimiter ==
    ASSUME NEW l, LimiterOK(l), ~l.aborted
    PROVE  LimiterOK([l EXCEPT !.waitingTimeout_ = Elapsed(l.waitingTimeout_),
                               !.since = Lesser(l.since + 1, MaxInterval)])
<1> DEFINE w == Elapsed(l.waitingTimeout_)
           t == Lesser(l.since + 1, MaxInterval)
           s == [l EXCEPT !.waitingTimeout_ = w, !.since = t]
<1>1. l \in LimiterType /\ InOrder(l) /\ Apart(l) /\ l.owed <= MaxInterval /\ MaxInterval \in Nat
  BY TCPAPAssumption DEF LimiterOK
<1>2. w \in Int /\ t \in Nat
  BY <1>1 DEF Elapsed, Lesser, LimiterType
<1>3. l.canSend_ => w = Off /\ t >= l.owed
  BY <1>1 DEF Elapsed, Lesser, LimiterType, Apart, Off
<1>4. ~l.canSend_ => w >= 0 /\ t + w >= l.owed
  BY <1>1 DEF Elapsed, Lesser, LimiterType, Apart
<1> HIDE DEF w, t
<1>5. s \in LimiterType
  BY <1>1, <1>2 DEF LimiterType
<1>6. /\ s.queue_ = l.queue_ /\ s.last = l.last /\ s.admitted = l.admitted /\ s.since = t
      /\ s.owed = l.owed /\ s.canSend_ = l.canSend_ /\ s.waitingTimeout_ = w
      /\ s.interval = l.interval
  BY <1>1 DEF LimiterType
<1> HIDE DEF s
<1>7. InOrder(s)
  BY <1>1, <1>6 DEF InOrder
<1>8. Apart(s)
  BY <1>1, <1>3, <1>4, <1>6 DEF Apart
<1>9. LimiterOK(s)
  BY <1>1, <1>5, <1>6, <1>7, <1>8 DEF LimiterOK
<1> QED BY <1>9 DEF s, w, t

LEMMA SetRate ==
    ASSUME NEW l, LimiterOK(l), NEW i \in Int, i <= MaxInterval
    PROVE  LimiterOK([l EXCEPT !.fixed_rate_ = i # Negative, !.interval = i,
                               !.rates = l.rates + 1])
<1> DEFINE a == [l EXCEPT !.fixed_rate_ = i # Negative]
           s == [a EXCEPT !.interval = i, !.rates = l.rates + 1]
<1>1. l \in LimiterType
  BY DEF LimiterOK
<1>2. a \in LimiterType /\ l.rates + 1 \in Nat
  <2>1. \A f \in BOOLEAN : [l EXCEPT !.fixed_rate_ = f] \in LimiterType
    BY <1>1 DEF LimiterType
  <2>2. (i # Negative) \in BOOLEAN
    OBVIOUS
  <2>3. l.rates + 1 \in Nat
    BY <1>1 DEF LimiterType
  <2> QED BY <2>1, <2>2, <2>3
<1>3. s \in LimiterType
  <2> HIDE DEF a
  <2>1. \A k \in Nat : [a EXCEPT !.interval = i, !.rates = k] \in LimiterType
    BY <1>2 DEF LimiterType
  <2> QED BY <1>2, <2>1
<1>4. /\ s.queue_ = l.queue_ /\ s.last = l.last /\ s.admitted = l.admitted /\ s.since = l.since
      /\ s.owed = l.owed /\ s.canSend_ = l.canSend_ /\ s.waitingTimeout_ = l.waitingTimeout_
      /\ s.interval = i /\ s.aborted = l.aborted
  BY <1>1 DEF LimiterType
<1> HIDE DEF s
<1>5. LimiterOK(s)
  BY <1>1, <1>3, <1>4 DEF LimiterOK, InOrder, Apart
<1> QED BY <1>5 DEF s, a
-------------------------------------------------------------------------------
Inv == LimiterOK(lim) /\ ReliabilityOK(rc)

LEMMA InitInv == Init => Inv
BY TCPAPAssumption DEF Init, LimiterInit, ReliabilityInit, Inv, LimiterOK, ReliabilityOK,
   LimiterType, ReliabilityType, InOrder, Apart, Off, DEFAULT_DELAY_COUNT

\* One step per action.
LEMMA NextInv == Inv /\ [Next]_vars => Inv'
<1> SUFFICES ASSUME Inv, [Next]_vars PROVE Inv'
  OBVIOUS
<1> USE DEF Inv, Running
<1>1. CASE Send
  <2>1. ReliabilityOK(rc') /\ NextSegment(rc) \in Int
    BY <1>1, ReliabilitySends DEF Send
  <2>2. LimiterOK(lim')
    BY <1>1, <2>1, SendPacket DEF Send
  <2> QED BY <2>1, <2>2
<1>0. \A n \in Acknowledgements : n \in Int
  BY DEF Acknowledgements, LimiterOK, LimiterType, ReliabilityOK, ReliabilityType
<1>2. ASSUME NEW n \in Acknowledgements, ReceiveAck(n) PROVE Inv'
  <2>1. ReliabilityOK(rc')
    BY <1>0, <1>2, HandleAck DEF ReceiveAck
  <2>2. LimiterOK(lim')
    BY <1>2, SetInterval, IntervalsInRange DEF ReceiveAck
  <2> QED BY <2>1, <2>2
<1>3. CASE ReceiveThirdDuplicate
  <2>1. ReliabilityOK(resend_data(rc))
    BY ReliabilitySends
  <2>2. ReliabilityOK(rc') /\ NextSegment(resend_data(rc)) \in Int
    BY <1>3, <2>1, ReliabilitySends DEF ReceiveThirdDuplicate
  <2>3. PICK i \in AfterReceive(lim) :
          lim' = limiter_send_packet([lim EXCEPT !.interval = i], NextSegment(resend_data(rc)))
    BY <1>3 DEF ReceiveThirdDuplicate
  <2>4. LimiterOK([lim EXCEPT !.interval = i]) /\ ~[lim EXCEPT !.interval = i].aborted
    BY <1>3, SetInterval, IntervalsInRange DEF ReceiveThirdDuplicate, LimiterOK, LimiterType
  <2>5. LimiterOK(lim')
    BY <2>2, <2>3, <2>4, SendPacket
  <2> QED BY <2>2, <2>5
<1>4. ASSUME NEW n \in Acknowledgements, NEW d \in Delays, ReceiveData(n, d) PROVE Inv'
  <2> DEFINE r == handle_ack(rc, n)
             s == [r EXCEPT !.delay_count_ = d, !.ackable = r.ackable + 1]
  <2>0. ReliabilityOK(r) /\ ~rc.aborted
    BY <1>0, <1>4, HandleAck DEF ReceiveData
  <2>1. ~AcksUnsent(rc, n) => r.aborted = rc.aborted
    BY <1>0, HandleAckRuns
  <2> HIDE DEF r
  <2>2. d \in Nat \ {0}
    BY TCPAPAssumption
  <2>3. ReliabilityOK(s) /\ s.aborted = r.aborted
    <3>1. r \in ReliabilityType /\ r.ackable + 1 \in Nat
      BY <2>0 DEF ReliabilityOK, ReliabilityType
    <3>2. \A k \in Nat : [r EXCEPT !.delay_count_ = d, !.ackable = k] \in ReliabilityType
      BY <3>1, <2>2 DEF ReliabilityType
    <3>3. s \in ReliabilityType
      BY <3>1, <3>2
    <3>4. /\ s.ack_timer_ = r.ack_timer_ /\ s.masked = r.masked /\ s.aborted = r.aborted
          /\ s.cur_ack_count_ = r.cur_ack_count_
      BY <3>1 DEF ReliabilityType
    <3> QED BY <2>0, <3>3, <3>4 DEF ReliabilityOK
  <2> HIDE DEF s
  <2>4. ~AcksUnsent(rc, n) => ReliabilityOK(create_and_dispatch_ack(s))
    BY <2>0, <2>1, <2>3, CreateAck
  <2>5. ReliabilityOK(rc')
    BY <1>4, <2>0, <2>4 DEF ReceiveData, handle_data, s, r
  <2>6. LimiterOK(lim')
    BY <1>4, SetInterval, IntervalsInRange DEF ReceiveData
  <2> QED BY <2>5, <2>6
<1>5. CASE WindowUpdate
  <2> DEFINE s == [rc EXCEPT !.ackable = rc.ackable + 1]
  <2>1. ReliabilityOK(s) /\ s.aborted = rc.aborted
    BY DEF ReliabilityOK, ReliabilityType
  <2> HIDE DEF s
  <2>2. ReliabilityOK(create_and_dispatch_ack(s))
    BY <1>5, <2>1, CreateAck DEF WindowUpdate
  <2>3. ReliabilityOK(rc') /\ lim' = lim
    BY <1>5, <2>2 DEF WindowUpdate, s
  <2> QED BY <2>3
<1>6. CASE PaceTimerFired
  BY <1>6, TimerFired DEF PaceTimerFired
<1>7. CASE RetransmissionTimerFired
  <2>1. ReliabilityOK(resend_data(rc)) /\ ReliabilityOK(cancel_timer(rc))
    BY ReliabilitySends
  <2>2. ReliabilityOK(resend_data(cancel_timer(rc))) /\ NextSegment(resend_data(rc)) \in Int
    BY <2>1, ReliabilitySends
  <2>3. ReliabilityOK(rc')
    BY <1>7, <2>2, ReliabilitySends DEF RetransmissionTimerFired
  <2>4. LimiterOK(lim')
    BY <1>7, <2>2, SendPacket DEF RetransmissionTimerFired
  <2> QED BY <2>3, <2>4
<1>8. CASE AckTimerFired
  <2>1. /\ rc' = [[rc EXCEPT !.ack_timer_ = Off] EXCEPT !.cur_ack_count_ = 0, !.masked = FALSE]
        /\ ~rc.aborted /\ lim' = lim
    BY <1>8 DEF AckTimerFired, ack_timer_fired, Acknowledge
  <2>2. rc' \in ReliabilityType
    <3> DEFINE a == [rc EXCEPT !.ack_timer_ = Off]
               b == [a EXCEPT !.cur_ack_count_ = 0]
    <3>1. a \in ReliabilityType
      BY ReliabilityFields, Integral DEF ReliabilityOK
    <3>2. b \in ReliabilityType
      BY <3>1, ReliabilityFields
    <3>3. [b EXCEPT !.masked = FALSE] \in ReliabilityType
      BY <3>2, ReliabilityFields
    <3> QED BY <2>1, <3>3
  <2>3. rc'.cur_ack_count_ = 0 /\ rc'.aborted = rc.aborted /\ rc'.ack_timer_ = Off
    BY <2>1 DEF ReliabilityOK, ReliabilityType
  <2>4. ReliabilityOK(rc')
    BY <2>1, <2>2, <2>3 DEF ReliabilityOK, Off
  <2> QED BY <2>1, <2>4
<1>9. CASE Tick
  <2>1. ReliabilityOK(rc')
    BY <1>9, TickReliability DEF Tick
  <2>2. LimiterOK(lim')
    <3>1. ~lim.aborted
      BY <1>9 DEF Tick
    <3> QED BY <1>9, <3>1, TickLimiter DEF Tick
  <2> QED BY <2>1, <2>2
<1>10. ASSUME NEW i \in AnyInterval, SetFixedRate(i) PROVE Inv'
  <2>1. LimiterOK(lim')
    BY <1>10, SetRate, IntervalsInRange DEF SetFixedRate
  <2> QED BY <1>10, <2>1 DEF SetFixedRate
<1>11. CASE UNCHANGED vars
  BY <1>11 DEF vars
<1> QED BY <1>1, <1>2, <1>3, <1>4, <1>5, <1>6, <1>7, <1>8, <1>9, <1>10, <1>11 DEF Next

LEMMA Invariance == Spec => []Inv
BY InitInv, NextInv, PTL DEF Spec

\* Pacing: for every set of intervals, whatever rates are set and however late
\* timers fire, the limiter sends each segment once, in order and not before the
\* interval in force has passed, and never leaves its queue without a timer.
THEOREM Paced == Spec => []PacedInOrder
<1>1. Inv => PacedInOrder
  BY DEF Inv, LimiterOK, InOrder, Apart, PacedInOrder, Off, LimiterType
<1> QED BY <1>1, Invariance, PTL

\* Delayed acknowledgements: for every choice of delays, an acknowledgement that is
\* held back has a timer, and the assertion of cancel_ack_timer holds, unless the
\* retransmission timer ran when it became pending.
THEOREM AckCovered == Spec => []AckTimerCoversPending
<1>1. Inv => AckTimerCoversPending
  BY DEF Inv, ReliabilityOK, AckTimerCoversPending
<1> QED BY <1>1, Invariance, PTL
================================================================================
