--------------------------------- MODULE TCPAP ---------------------------------
(***************************************************************************)
(* TCP with adaptive pacing and delayed acknowledgements                    *)
(* (TCP_AP_DelayedACKs) at one host of an established connection:           *)
(* TCPAPSendRateLimiter, which sends data segments one interval apart, and  *)
(* TCPDelayedACKReliabilityState, which acknowledges several segments at    *)
(* once or after a delay.  They share the protocol's thread, its            *)
(* retransmission timer and the timer service.                              *)
(*                                                                          *)
(* A host finishes everything an event with LOW priority leads to before it *)
(* takes the next, so each event is one step.  Segments are counted, not    *)
(* their bytes; how many the congestion control lets out, and when, is left *)
(* open (Send), except that a retransmission sends one.                     *)
(*                                                                          *)
(* A timer that runs is the time it has left.  A cancelled timer may still  *)
(* fire when its TimerFiredEvent was under way, but every handler compares  *)
(* it with the TimeoutEvent it waits for, so nothing changes.               *)
(***************************************************************************)
EXTENDS Integers, Sequences

CONSTANTS
    Intervals,     \* time between two segments, for the rates an application sets
    Delays,        \* the acknowledgement delays delay1_ .. delay4_, by sequence number
    Rto,           \* duration of the retransmission timer
    AckDelay,      \* delay_timeout_interval_
    MaxInterval,   \* greatest interval
    MaxSegments,   \* bound: segments the application sends
    MaxPaced,      \* bound: segments handed to the limiter, retransmissions included
    MaxAckable,    \* bound: segments and window updates to acknowledge
    MaxRates       \* bound: changes of the rate by the application

ASSUME TCPAPAssumption ==
    /\ MaxInterval \in Nat /\ Rto \in Nat /\ AckDelay \in Nat
    /\ Intervals \subseteq 0 .. MaxInterval
    /\ Delays \subseteq Nat \ {0}
    /\ MaxSegments \in Nat /\ MaxPaced \in Nat /\ MaxAckable \in Nat
    /\ MaxRates \in Nat

VARIABLES
    lim,  \* TCPAPSendRateLimiter and its context
    rc    \* TCPDelayedACKReliabilityContext

vars == <<lim, rc>>

Off == -1       \* no timer
Negative == -1  \* a negative interval

\* fixed_rate_ is whether that number is not 0; a new one is (u_int32_t) -1.
\* Not in the code: admitted and last number the segments handed to the limiter and
\* the last one sent, reached is the last segment of the stream that was sent, since
\* the time since then, owed the interval in force after it; aborted says that an
\* assertion failed; rates counts for the bound.
LimiterInit ==
    lim = [canSend_ |-> TRUE, queue_ |-> <<>>, waitingTimeout_ |-> Off, interval |-> 0,
           fixed_rate_ |-> TRUE, admitted |-> 0, last |-> 0, reached |-> 0,
           since |-> 0, owed |-> 0, aborted |-> FALSE, rates |-> 0]

DEFAULT_DELAY_COUNT == 2

\* Not in the code: masked says that the timer of the acknowledgement that is held
\* back was not started; aborted as above; ackable counts for the bound.
ReliabilityInit ==
    rc = [timeout_event_ |-> Off, snd_una |-> 0, snd_nxt |-> 0, snd_max |-> 0,
          ack_timer_ |-> Off, cur_ack_count_ |-> 0, delay_count_ |-> DEFAULT_DELAY_COUNT,
          masked |-> FALSE, aborted |-> FALSE, ackable |-> 0]

\* SYN segments are not paced and their acknowledgements not delayed, so an
\* established connection is where it began.
Init == LimiterInit /\ ReliabilityInit

Greater(a, b) == IF a < b THEN b ELSE a
Lesser(a, b) == IF a < b THEN a ELSE b
-------------------------------------------------------------------------------
\* SendRateLimiter.  A negative interval fails the assertion in
\* get_timespec_future_time.
setTimer(l) ==
    IF l.interval < 0
    THEN [l EXCEPT !.aborted = TRUE]
    ELSE [l EXCEPT !.waitingTimeout_ = l.interval, !.owed = l.interval]

dispatch_packet(l, p) ==
    [l EXCEPT !.last = p.n, !.reached = Greater(l.reached, p.segment), !.since = 0]

\* Acknowledgements and SYNs do not come here: they are sent at once.
limiter_send_packet(l, segment) ==
    LET p == [n |-> l.admitted + 1, segment |-> segment]
    IN IF l.canSend_
       THEN setTimer(dispatch_packet([l EXCEPT !.admitted = p.n, !.canSend_ = FALSE], p))
       ELSE [l EXCEPT !.admitted = p.n, !.queue_ = Append(l.queue_, p)]

SendNext(l) == dispatch_packet([l EXCEPT !.queue_ = Tail(l.queue_)], Head(l.queue_))

\* The limiter is free again as soon as a queued segment was sent.
FreeAfterSending(l) ==
    IF l.queue_ # <<>> THEN setTimer([SendNext(l) EXCEPT !.canSend_ = TRUE])
    ELSE [l EXCEPT !.canSend_ = TRUE, !.waitingTimeout_ = Off]

\* The timer is not set again after a queued segment.
NoTimerAfterSending(l) ==
    IF l.queue_ # <<>> THEN [SendNext(l) EXCEPT !.waitingTimeout_ = Off]
    ELSE [l EXCEPT !.canSend_ = TRUE, !.waitingTimeout_ = Off]

limiter_timer_fired(l) ==
    IF l.queue_ # <<>> THEN setTimer(SendNext(l))
    ELSE [l EXCEPT !.canSend_ = TRUE, !.waitingTimeout_ = Off]

\* With a fixed rate of 0 the interval is computed from the round trip time and a
\* size that sent_sizes_, to which nothing is ever added, does not hold: it may be
\* anything, or stay as it is when the clock wrapped.
AnyInterval == Intervals \cup {Negative}
AfterReceive(l) == IF l.fixed_rate_ THEN {l.interval} ELSE AnyInterval \cup {l.interval}
-------------------------------------------------------------------------------
\* TCPTahoeReliabilityState, counted in segments.
start_timer(r) == IF r.timeout_event_ # Off THEN r ELSE [r EXCEPT !.timeout_event_ = Rto]

cancel_timer(r) == [r EXCEPT !.timeout_event_ = Off]

NextSegment(r) == r.snd_nxt + 1

rc_send_packet(r) ==
    start_timer([r EXCEPT !.snd_nxt = NextSegment(r),
                          !.snd_max = Greater(r.snd_max, NextSegment(r))])

resend_data(r) == [r EXCEPT !.snd_nxt = r.snd_una]

handle_valid_ack(r, n) ==
    LET acked == [r EXCEPT !.snd_una = n, !.snd_nxt = Greater(r.snd_nxt, n)]
    IN IF acked.snd_nxt = n THEN cancel_timer(acked) ELSE start_timer(cancel_timer(acked))

-------------------------------------------------------------------------------
\* TCPDelayedACKReliabilityState.  The test for a timer that runs already looks at
\* the retransmission timer.
start_ack_timer(r) ==
    IF r.timeout_event_ # Off
    THEN [r EXCEPT !.masked = TRUE]
    ELSE [r EXCEPT !.masked = FALSE, !.ack_timer_ = AckDelay]

\* The acknowledgement is sent.
Acknowledge(r) == [r EXCEPT !.cur_ack_count_ = 0, !.masked = FALSE]

\* Without a timer the assertion fails.
cancel_ack_timer(r) ==
    IF r.ack_timer_ = Off THEN [r EXCEPT !.aborted = TRUE] ELSE [r EXCEPT !.ack_timer_ = Off]

Counted(r) == [r EXCEPT !.cur_ack_count_ = r.cur_ack_count_ + 1]

\* The count is not reset with the acknowledgement.
AcknowledgeWithoutReset(r) ==
    IF r.cur_ack_count_ + 1 >= r.delay_count_
    THEN IF r.delay_count_ > 1 THEN cancel_ack_timer(Counted(r)) ELSE Counted(r)
    ELSE IF r.ack_timer_ = Off THEN start_ack_timer(Counted(r))
    ELSE Counted(r)

create_and_dispatch_ack(r) ==
    IF r.cur_ack_count_ + 1 >= r.delay_count_
    THEN IF r.delay_count_ = 1 THEN Acknowledge(r)
         ELSE IF r.ack_timer_ = Off THEN cancel_ack_timer(Counted(r))
         ELSE Acknowledge(cancel_ack_timer(r))
    ELSE IF r.ack_timer_ = Off THEN start_ack_timer(Counted(r))
    ELSE Counted(r)

\* An acknowledgement of what was never sent is answered with one; the segment's
\* data is then not looked at.
AcksUnsent(r, n) == n > r.snd_max

handle_ack(r, n) ==
    IF AcksUnsent(r, n) THEN create_and_dispatch_ack(r)
    ELSE IF n > r.snd_una THEN handle_valid_ack(r, n)
    ELSE r

\* The delay follows from the sequence number, and retransmissions go back.
handle_data(r, d) ==
    create_and_dispatch_ack([r EXCEPT !.delay_count_ = d, !.ackable = r.ackable + 1])

ack_timer_fired(r) == Acknowledge([r EXCEPT !.ack_timer_ = Off])
-------------------------------------------------------------------------------
Running == ~lim.aborted /\ ~rc.aborted
MayPace == lim.admitted < MaxPaced

\* The congestion control lets the next segment out; it passes the reliability
\* context and then the limiter.
Send ==
    /\ Running /\ MayPace /\ rc.snd_nxt < MaxSegments
    /\ rc' = rc_send_packet(rc)
    /\ lim' = limiter_send_packet(lim, NextSegment(rc))

\* A segment with acknowledgement n and without data.
ReceiveAck(n) ==
    /\ Running
    /\ rc' = handle_ack(rc, n)
    /\ \E i \in AfterReceive(lim) : lim' = [lim EXCEPT !.interval = i]

\* The third duplicate: the retransmission follows the limiter's look at the segment.
\* When it carries data, ReceiveData follows: neither changes what the other reads.
ReceiveThirdDuplicate ==
    /\ Running /\ MayPace /\ rc.snd_una < rc.snd_nxt
    /\ rc' = rc_send_packet(resend_data(rc))
    /\ \E i \in AfterReceive(lim) :
          lim' = limiter_send_packet([lim EXCEPT !.interval = i], NextSegment(resend_data(rc)))

\* A segment with acknowledgement n and data whose sequence number has delay d.
ReceiveData(n, d) ==
    /\ Running /\ rc.ackable < MaxAckable
    /\ rc' = IF AcksUnsent(rc, n) THEN handle_ack(rc, n) ELSE handle_data(handle_ack(rc, n), d)
    /\ \E i \in AfterReceive(lim) : lim' = [lim EXCEPT !.interval = i]

\* recv() has at least doubled the receive window.
WindowUpdate ==
    /\ Running /\ rc.ackable < MaxAckable
    /\ rc' = create_and_dispatch_ack([rc EXCEPT !.ackable = rc.ackable + 1])
    /\ UNCHANGED lim

PaceTimerFired ==
    /\ Running /\ lim.waitingTimeout_ = 0
    /\ lim' = limiter_timer_fired(lim)
    /\ UNCHANGED rc

RetransmissionTimerFired ==
    /\ Running /\ MayPace /\ rc.timeout_event_ = 0
    /\ rc' = rc_send_packet(resend_data(cancel_timer(rc)))
    /\ lim' = limiter_send_packet(lim, NextSegment(resend_data(rc)))

AckTimerFired ==
    /\ Running /\ rc.ack_timer_ = 0
    /\ rc' = ack_timer_fired(rc)
    /\ UNCHANGED lim

\* One unit of time; a timer at 0 is late.
Elapsed(t) == IF t > 0 THEN t - 1 ELSE t

Tick ==
    /\ Running
    /\ lim.waitingTimeout_ > 0 \/ rc.timeout_event_ > 0 \/ rc.ack_timer_ > 0
    /\ lim' = [lim EXCEPT !.waitingTimeout_ = Elapsed(lim.waitingTimeout_),
                          !.since = Lesser(lim.since + 1, MaxInterval)]
    /\ rc' = [rc EXCEPT !.timeout_event_ = Elapsed(rc.timeout_event_),
                        !.ack_timer_ = Elapsed(rc.ack_timer_)]

\* Option 5: a fixed rate, or 0, for which the code takes the interval 1 / 0.
SetFixedRate(i) ==
    /\ Running /\ lim.rates < MaxRates
    /\ lim' = [lim EXCEPT !.fixed_rate_ = i # Negative, !.interval = i, !.rates = lim.rates + 1]
    /\ UNCHANGED rc

\* What the peer acknowledges has left the limiter; a late segment of an earlier
\* connection between the same ports may acknowledge more than was sent in this one.
Acknowledgements == rc.snd_una .. lim.reached \cup {rc.snd_max + 1}

Next ==
    \/ Send
    \/ \E n \in Acknowledgements : ReceiveAck(n)
    \/ ReceiveThirdDuplicate
    \/ \E n \in Acknowledgements, d \in Delays : ReceiveData(n, d)
    \/ WindowUpdate
    \/ PaceTimerFired
    \/ RetransmissionTimerFired
    \/ AckTimerFired
    \/ Tick
    \/ \E i \in AnyInterval : SetFixedRate(i)

Spec == Init /\ [][Next]_vars

\* Time passes, and the timer service fires every timer (EveryTimerResolved of
\* TimeoutEventManager).
FairSpec == Spec /\ WF_vars(Tick) /\ WF_vars(PaceTimerFired)
-------------------------------------------------------------------------------
\* The limiter sends every segment handed to it once and in order, and two of them
\* at least the interval apart that was in force after the first: while it may not
\* send, its timer runs and has at least what is owed left, and when it may, nothing
\* waits (canSend_, queue_ and waitingTimeout_, changed by three handlers).
PacedInOrder ==
    ~lim.aborted =>
        /\ Len(lim.queue_) = lim.admitted - lim.last
        /\ \A i \in DOMAIN lim.queue_ : lim.queue_[i].n = lim.last + i
        /\ IF lim.canSend_ THEN lim.queue_ = <<>> /\ lim.since >= lim.owed
           ELSE lim.waitingTimeout_ # Off /\ lim.since + lim.waitingTimeout_ >= lim.owed

\* An acknowledgement that is held back has a timer that will send it, through
\* delays that change with the sequence number, timers that fire late and counts
\* that are reached first, except when the retransmission timer ran as it became
\* pending; only then may the assertion in cancel_ack_timer fail.
AckTimerCoversPending ==
    ~rc.masked => ~rc.aborted /\ (rc.cur_ack_count_ > 0 => rc.ack_timer_ # Off)

\* Every segment handed to the limiter is sent, whatever rates are set meanwhile,
\* unless an interval is negative when the timer is set or an assertion fails.
EverySegmentSent ==
    \A i \in 1 .. MaxPaced : lim.admitted >= i ~> lim.last >= i \/ ~Running
================================================================================
