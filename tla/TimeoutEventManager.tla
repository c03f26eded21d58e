------------------------- MODULE TimeoutEventManager --------------------------
(***************************************************************************)
(* The timer thread of WiFu Transport (TimeoutEventManager.cc), the         *)
(* priority queue it blocks on (PriorityQueue.h) and the binary semaphore   *)
(* that interrupts its timed wait (BinarySemaphore.cc, Semaphore.cc).       *)
(*                                                                          *)
(* Two threads run.  The Dispatcher thread calls enqueue(): a TimeoutEvent  *)
(* is inserted into the queue, and the signal handler raised inside the     *)
(* queue's critical section posts the semaphore; a CancelTimerEvent is put  *)
(* into canceled_events_ and the semaphore is posted.  The manager thread   *)
(* dequeues the earliest timer and sleeps on the semaphore until the        *)
(* deadline of that timer or until a post.                                  *)
(*                                                                          *)
(* BinarySemaphore::post is sem_trywait followed by sem_post: two steps.    *)
(* The list of the priority queue is a set here: upper_bound keeps it       *)
(* sorted by deadline, so the front is an element of least deadline; the    *)
(* order among equal deadlines is left open.  raise() runs the handler on   *)
(* the calling thread before it returns.                                    *)
(***************************************************************************)
EXTENDS Naturals, FiniteSets

CONSTANTS
    Timers,    \* the TimeoutEvent objects that are created
    MaxTime,   \* bound on the clock and on deadlines
    NoTimer    \* the manager holds no event

ASSUME TimersAssumption == IsFiniteSet(Timers) /\ NoTimer \notin Timers
ASSUME MaxTimeAssumption == MaxTime \in Nat

VARIABLES
    now,        \* the clock sem_timedwait reads
    due,        \* get_timeout_time() of every timer
    issued,     \* timers handed to enqueue()
    asked,      \* timers for which a CancelTimerEvent was handed to enqueue()
    queued,     \* q_ of the PriorityQueue
    locked,     \* sem_ of the PriorityQueue is held across steps (by the Dispatcher)
    counter,    \* value of counter_ of the PriorityQueue
    sem,        \* value of TimeoutManagerSemaphore
    canceled,   \* canceled_events_
    dpc,        \* where the Dispatcher thread is
    mpc,        \* where the manager thread is
    cur,        \* the event the manager dequeued
    fired,      \* timers for which a TimerFiredEvent was enqueued
    dropped,    \* timers discarded because they were in canceled_events_
    inTime      \* history: timers canceled before the manager looked them up

vars == <<now, due, issued, asked, queued, locked, counter, sem, canceled,
          dpc, mpc, cur, fired, dropped, inTime>>

DispatcherPc == {"idle", "signal_trywait", "signal_post", "unlock", "count",
                 "cancel_trywait", "cancel_post"}
ManagerPc == {"dequeue", "pop", "check", "timed_wait", "requeue", "recount"}

Init ==
    /\ now = 0
    /\ due = [t \in Timers |-> 0]
    /\ issued = {} /\ asked = {} /\ queued = {}
    /\ locked = FALSE
    /\ counter = 0
    /\ sem = 0
    /\ canceled = {}
    /\ dpc = "idle" /\ mpc = "dequeue" /\ cur = NoTimer
    /\ fired = {} /\ dropped = {} /\ inTime = {}

(***************************************************************************)
(* Primitives of the semaphores, the queue and the set of canceled events.  *)
(***************************************************************************)

SemTryWaitUnguarded(v) == v - 1
SemTryWaitIgnored(v) == v

\* Semaphore::try_wait on a semaphore of value v: decrements it if it can.
SemTryWait(v) == IF v > 0 THEN v - 1 ELSE v

CounterNeverBlocks == TRUE

\* Semaphore::wait of counter_ returns.
CounterAvailable == counter > 0

LatestFirst(t) == \A u \in queued : due[u] <= due[t]

\* t can be the front of the list: TimeoutEventComparator and upper_bound.
IsFront(t) == \A u \in queued : due[t] <= due[u]

ForgetAllCanceled(t) == {}

\* canceled_events_.remove(t)
WithoutCanceled(t) == canceled \ {t}

DeadlineAboutToPass(t) == due[t] <= now + 1

\* sem_timedwait gives up: the absolute time of t is reached.
DeadlinePassed(t) == due[t] <= now

AfterInsertUnsignaled == "unlock"

\* PriorityQueue::enqueue after the insertion: TimeoutEventManager::enqueue
\* passes signal = true, so the handler posts before the lock is released.
AfterInsert == "signal_trywait"

(***************************************************************************)
(* The Dispatcher thread.                                                   *)
(***************************************************************************)

\* enqueue() of a TimeoutEvent: the queue's sem_ is taken and the event
\* inserted; the lock is kept while the signal is raised.  The deadline was set
\* when the event was created, so it may have passed in the Dispatcher's queue.
EnqueueTimeout(t, d) ==
    /\ dpc = "idle" /\ ~locked
    /\ t \notin issued
    /\ due' = [due EXCEPT ![t] = d]
    /\ issued' = issued \cup {t}
    /\ queued' = queued \cup {t}
    /\ locked' = TRUE
    /\ dpc' = AfterInsert
    /\ UNCHANGED <<now, asked, counter, sem, canceled, mpc, cur, fired,
                   dropped, inTime>>

\* enqueue() of a CancelTimerEvent, handled at once by imodule_cancel_timer.
EnqueueCancel(t) ==
    /\ dpc = "idle"
    /\ t \in issued \ asked
    /\ asked' = asked \cup {t}
    /\ canceled' = canceled \cup {t}
    /\ inTime' = IF t \in queued \/ (cur = t /\ mpc # "timed_wait")
                 THEN inTime \cup {t} ELSE inTime
    /\ dpc' = "cancel_trywait"
    /\ UNCHANGED <<now, due, issued, queued, locked, counter, sem, mpc, cur,
                   fired, dropped>>

\* BinarySemaphore::post, first half: sem_trywait.
PostTryWait ==
    /\ dpc \in {"signal_trywait", "cancel_trywait"}
    /\ sem' = SemTryWait(sem)
    /\ dpc' = IF dpc = "signal_trywait" THEN "signal_post" ELSE "cancel_post"
    /\ UNCHANGED <<now, due, issued, asked, queued, locked, counter, canceled,
                   mpc, cur, fired, dropped, inTime>>

\* BinarySemaphore::post, second half: sem_post.
PostPost ==
    /\ dpc \in {"signal_post", "cancel_post"}
    /\ sem' = sem + 1
    /\ dpc' = IF dpc = "signal_post" THEN "unlock" ELSE "idle"
    /\ UNCHANGED <<now, due, issued, asked, queued, locked, counter, canceled,
                   mpc, cur, fired, dropped, inTime>>

\* sem_.post() of PriorityQueue::enqueue.
EnqueueUnlock ==
    /\ dpc = "unlock"
    /\ locked' = FALSE
    /\ dpc' = "count"
    /\ UNCHANGED <<now, due, issued, asked, queued, counter, sem, canceled,
                   mpc, cur, fired, dropped, inTime>>

\* counter_.post() of PriorityQueue::enqueue.
EnqueueCount ==
    /\ dpc = "count"
    /\ counter' = counter + 1
    /\ dpc' = "idle"
    /\ UNCHANGED <<now, due, issued, asked, queued, locked, sem, canceled,
                   mpc, cur, fired, dropped, inTime>>

(***************************************************************************)
(* The manager thread: QueueProcessor's loop around imodule_timeout.        *)
(***************************************************************************)

\* counter_.wait() of PriorityQueue::dequeue.
DequeueWait ==
    /\ mpc = "dequeue"
    /\ CounterAvailable
    /\ counter' = counter - 1
    /\ mpc' = "pop"
    /\ UNCHANGED <<now, due, issued, asked, queued, locked, sem, canceled,
                   dpc, cur, fired, dropped, inTime>>

\* The critical section of PriorityQueue::dequeue.
DequeuePop ==
    /\ mpc = "pop" /\ ~locked
    /\ \E t \in queued :
          /\ IsFront(t)
          /\ cur' = t
          /\ queued' = queued \ {t}
    /\ mpc' = "check"
    /\ UNCHANGED <<now, due, issued, asked, locked, counter, sem, canceled,
                   dpc, fired, dropped, inTime>>

\* The lookup in canceled_events_ at the head of imodule_timeout.
CheckCanceled ==
    /\ mpc = "check"
    /\ IF cur \in canceled
       THEN /\ canceled' = WithoutCanceled(cur)
            /\ dropped' = dropped \cup {cur}
            /\ cur' = NoTimer
            /\ mpc' = "dequeue"
       ELSE /\ mpc' = "timed_wait"
            /\ UNCHANGED <<canceled, dropped, cur>>
    /\ UNCHANGED <<now, due, issued, asked, queued, locked, counter, sem, dpc,
                   fired, inTime>>

\* timed_wait returns because the semaphore could be decremented.
TimedWaitPosted ==
    /\ mpc = "timed_wait"
    /\ sem > 0
    /\ sem' = sem - 1
    /\ mpc' = "requeue"
    /\ UNCHANGED <<now, due, issued, asked, queued, locked, counter, canceled,
                   dpc, cur, fired, dropped, inTime>>

TimedWaitTimeoutNoReturn ==
    /\ mpc = "timed_wait"
    /\ sem = 0
    /\ DeadlinePassed(cur)
    /\ fired' = fired \cup {cur}
    /\ mpc' = "requeue"
    /\ UNCHANGED <<now, due, issued, asked, queued, locked, counter, sem,
                   canceled, dpc, cur, dropped, inTime>>

\* timed_wait returns ETIMEDOUT: a TimerFiredEvent goes to the Dispatcher.
TimedWaitTimeout ==
    /\ mpc = "timed_wait"
    /\ sem = 0
    /\ DeadlinePassed(cur)
    /\ fired' = fired \cup {cur}
    /\ cur' = NoTimer
    /\ mpc' = "dequeue"
    /\ UNCHANGED <<now, due, issued, asked, queued, locked, counter, sem,
                   canceled, dpc, dropped, inTime>>

\* The event goes back into the queue, without a signal.
Requeue ==
    /\ mpc = "requeue" /\ ~locked
    /\ queued' = queued \cup {cur}
    /\ cur' = NoTimer
    /\ mpc' = "recount"
    /\ UNCHANGED <<now, due, issued, asked, locked, counter, sem, canceled,
                   dpc, fired, dropped, inTime>>

RequeueUncounted ==
    /\ mpc = "recount"
    /\ mpc' = "dequeue"
    /\ UNCHANGED <<now, due, issued, asked, queued, locked, counter, sem,
                   canceled, dpc, cur, fired, dropped, inTime>>

\* counter_.post() of the second insertion.
RequeueCount ==
    /\ mpc = "recount"
    /\ counter' = counter + 1
    /\ mpc' = "dequeue"
    /\ UNCHANGED <<now, due, issued, asked, queued, locked, sem, canceled,
                   dpc, cur, fired, dropped, inTime>>

Tick ==
    /\ now < MaxTime
    /\ now' = now + 1
    /\ UNCHANGED <<due, issued, asked, queued, locked, counter, sem, canceled,
                   dpc, mpc, cur, fired, dropped, inTime>>

DispatcherStep ==
    \/ \E t \in Timers : \E d \in 0..MaxTime : EnqueueTimeout(t, d)
    \/ \E t \in Timers : EnqueueCancel(t)
    \/ PostTryWait
    \/ PostPost
    \/ EnqueueUnlock
    \/ EnqueueCount

ManagerStep ==
    \/ DequeueWait
    \/ DequeuePop
    \/ CheckCanceled
    \/ TimedWaitPosted
    \/ TimedWaitTimeout
    \/ Requeue
    \/ RequeueCount

Next == DispatcherStep \/ ManagerStep \/ Tick

Spec == Init /\ [][Next]_vars

\* The threads are scheduled by a preemptive kernel and time passes; whether
\* the Dispatcher ever gets another event is up to the protocols.
Fairness ==
    /\ WF_vars(Tick)
    /\ WF_vars(ManagerStep)
    /\ WF_vars(PostTryWait \/ PostPost \/ EnqueueUnlock \/ EnqueueCount)

FairSpec == Spec /\ Fairness
-------------------------------------------------------------------------------
(***************************************************************************)
(* Properties.                                                              *)
(***************************************************************************)

\* The two semaphores never go below zero, the sets hold timers, and each thread
\* is at one of its program points.
TypeOK ==
    /\ now \in Nat
    /\ due \in [Timers -> Nat]
    /\ issued \subseteq Timers /\ asked \subseteq Timers
    /\ queued \subseteq Timers /\ canceled \subseteq Timers
    /\ locked \in BOOLEAN
    /\ counter \in Nat /\ sem \in Nat
    /\ dpc \in DispatcherPc /\ mpc \in ManagerPc
    /\ cur \in Timers \cup {NoTimer}
    /\ fired \subseteq Timers /\ dropped \subseteq Timers
    /\ inTime \subseteq Timers

\* The value of the semaphore never exceeds one, although post() is a
\* sem_trywait and a sem_post with the manager free to run in between: the
\* assertion of signal_manager holds.
SemaphoreIsBinary ==
    /\ sem <= 1
    /\ dpc \in {"signal_post", "cancel_post"} => sem = 0

\* No wake-up is lost: once the Dispatcher has finished posting, a manager
\* that sleeps on an unposted semaphore sleeps on a timer of least deadline
\* that nobody has canceled.
NoLostWakeup ==
    (mpc = "timed_wait" /\ sem = 0
     /\ dpc \notin {"signal_trywait", "signal_post", "cancel_trywait", "cancel_post"})
    => /\ cur \notin canceled
       /\ \A t \in queued : due[cur] <= due[t]

\* PriorityQueue::dequeue never reads the front of an empty list: every unit
\* of counter_ stands for one element, also while enqueue() has inserted an
\* element and not yet counted it.
DequeueFindsElement == mpc = "pop" => queued # {}

\* A timer is in one place at a time: queued, held by the manager, fired or
\* dropped.  In particular it fires at most once and never after a drop.
EachTimerInOnePlace ==
    /\ cur \notin queued \cup fired \cup dropped
    /\ queued \cap (fired \cup dropped) = {}
    /\ fired \cap dropped = {}
    /\ issued = queued \cup fired \cup dropped \cup ({cur} \ {NoTimer})

\* A timer canceled before the manager looked it up in canceled_events_ does
\* not fire, however often it goes round the queue.
CancelInTimeHonoured == inTime \cap fired = {}

\* Timers fire in the order of their deadlines, unless an earlier one is
\* being inserted at this very moment.
FiresInDeadlineOrder ==
    [][ (fired' # fired /\ dpc = "idle")
        => \A t \in queued : due[cur] <= due[t] ]_vars

\* Every timer that is started is eventually fired or dropped: the manager
\* thread is never left sleeping past a deadline or blocked on the queue.
EveryTimerResolved ==
    \A t \in Timers : (t \in issued) ~> (t \in fired \cup dropped)

status == [t \in Timers |->
              IF t \notin issued THEN "idle"
              ELSE IF t \in fired THEN "fired"
              ELSE IF t \in dropped THEN "dropped"
              ELSE "pending"]

Service == INSTANCE TimerService
           WITH now <- now, due <- due, asked <- asked, status <- status

\* The two threads together implement the timer service: a timer resolves
\* once, fires no earlier than its deadline, and is dropped only on request.
ImplementsTimerService == Service!Spec
===============================================================================
