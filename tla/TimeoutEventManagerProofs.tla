---------------------- MODULE TimeoutEventManagerProofs -----------------------
(***************************************************************************)
(* The invariants of TimeoutEventManager hold for every finite set of       *)
(* timers and every clock bound, and the two threads implement the timer    *)
(* service.                                                                 *)
(***************************************************************************)
EXTENDS TimeoutEventManager, FiniteSetTheorems, TLAPS

Posting == {"signal_trywait", "signal_post", "cancel_trywait", "cancel_post"}

\* The queue's lock is held exactly while the Dispatcher is inside enqueue(),
\* and the manager holds an event exactly between dequeue and its disposal.
ControlInv ==
    /\ locked <=> dpc \in {"signal_trywait", "signal_post", "unlock"}
    /\ cur = NoTimer <=> mpc \in {"dequeue", "pop", "recount"}

\* Strengthening of NoLostWakeup: it is already true when the manager has
\* only dequeued its event, and while a post is pending.
WakeInv ==
    mpc \in {"check", "timed_wait"} =>
        \/ sem = 1
        \/ dpc \in Posting
        \/ /\ \A t \in queued : due[cur] <= due[t]
           /\ mpc = "timed_wait" => cur \notin canceled

\* Elements of the queue that counter_ does not count: inserted and not yet
\* posted (by either thread), or claimed by the manager and not yet popped.
Uncounted ==
    (IF dpc \in {"signal_trywait", "signal_post", "unlock", "count"} THEN 1 ELSE 0)
    + (IF mpc \in {"recount", "pop"} THEN 1 ELSE 0)

CountInv == Cardinality(queued) = counter + Uncounted

\* A cancellation that came in time stays on record until it takes effect.
CancelInv ==
    /\ canceled \subseteq asked /\ dropped \subseteq asked
    /\ asked \subseteq issued /\ inTime \subseteq asked
    /\ \A t \in inTime :
          /\ t \notin fired
          /\ t \in canceled \cup dropped
          /\ ~(cur = t /\ mpc = "timed_wait")

IInv ==
    /\ TypeOK
    /\ ControlInv
    /\ SemaphoreIsBinary
    /\ EachTimerInOnePlace
    /\ WakeInv
    /\ CountInv
    /\ CancelInv

\* The invariant holds when both threads start.
LEMMA InitIInv == Init => IInv
  <1> SUFFICES ASSUME Init PROVE IInv
    OBVIOUS
  <1>1. TypeOK
    BY DEF Init, TypeOK, DispatcherPc, ManagerPc
  <1>2. ControlInv /\ SemaphoreIsBinary /\ EachTimerInOnePlace /\ WakeInv /\ CancelInv
    BY DEF Init, ControlInv, SemaphoreIsBinary, EachTimerInOnePlace, WakeInv, CancelInv
  <1>3. CountInv
    BY FS_EmptySet DEF Init, CountInv, Uncounted
  <1>4. QED
    BY <1>1, <1>2, <1>3 DEF IInv

\* The list of the priority queue holds finitely many events.
LEMMA QueueFinite ==
    ASSUME IInv
    PROVE  IsFiniteSet(queued)
  BY TimersAssumption, FS_Subset DEF IInv, TypeOK

\* EnqueueTimeout preserves the invariant.
LEMMA EnqueueTimeoutStep ==
    ASSUME IInv, NEW t \in Timers, NEW d \in 0..MaxTime, EnqueueTimeout(t, d)
    PROVE  IInv'
  <1> USE TimersAssumption, MaxTimeAssumption DEF IInv, EnqueueTimeout, AfterInsert
  <1>1. TypeOK'
    BY DEF TypeOK, DispatcherPc, ManagerPc
  <1>2. ControlInv' /\ SemaphoreIsBinary'
    BY DEF TypeOK, DispatcherPc, ManagerPc, ControlInv, SemaphoreIsBinary
  <1>3. EachTimerInOnePlace'
    BY DEF TypeOK, ControlInv, EachTimerInOnePlace
  <1>4. WakeInv'
    BY DEF TypeOK, ControlInv, WakeInv, SemaphoreIsBinary, EachTimerInOnePlace, Posting
  <1>5. CountInv'
    <2>1. t \notin queued
      BY DEF EachTimerInOnePlace
    <2>2. Cardinality(queued') = Cardinality(queued) + 1
      BY <2>1, QueueFinite, FS_AddElement
    <2>3. QED
      BY <2>2 DEF TypeOK, ControlInv, CountInv, Uncounted
  <1>6. CancelInv'
    BY DEF TypeOK, ControlInv, EachTimerInOnePlace, CancelInv
  <1>7. QED
    BY <1>1, <1>2, <1>3, <1>4, <1>5, <1>6 DEF IInv

\* EnqueueCancel preserves the invariant.
LEMMA EnqueueCancelStep ==
    ASSUME IInv, NEW t \in Timers, EnqueueCancel(t)
    PROVE  IInv'
  <1> USE TimersAssumption, MaxTimeAssumption DEF IInv, EnqueueCancel
  <1>1. TypeOK'
    BY DEF TypeOK, DispatcherPc, ManagerPc
  <1>2. ControlInv' /\ SemaphoreIsBinary'
    BY DEF TypeOK, DispatcherPc, ManagerPc, ControlInv, SemaphoreIsBinary
  <1>3. EachTimerInOnePlace'
    BY DEF TypeOK, ControlInv, EachTimerInOnePlace
  <1>4. WakeInv'
    BY DEF TypeOK, ControlInv, WakeInv, SemaphoreIsBinary, EachTimerInOnePlace, Posting
  <1>5. CountInv'
    BY DEF TypeOK, ControlInv, CountInv, Uncounted
  <1>6. CancelInv'
    BY DEF TypeOK, ControlInv, EachTimerInOnePlace, CancelInv
  <1>7. QED
    BY <1>1, <1>2, <1>3, <1>4, <1>5, <1>6 DEF IInv

\* PostTryWait preserves the invariant.
LEMMA PostTryWaitStep ==
    ASSUME IInv, PostTryWait
    PROVE  IInv'
  <1> USE TimersAssumption, MaxTimeAssumption DEF IInv, PostTryWait, SemTryWait
  <1>1. TypeOK'
    BY DEF TypeOK, DispatcherPc, ManagerPc
  <1>2. ControlInv' /\ SemaphoreIsBinary'
    BY DEF TypeOK, DispatcherPc, ManagerPc, ControlInv, SemaphoreIsBinary
  <1>3. EachTimerInOnePlace'
    BY DEF TypeOK, ControlInv, EachTimerInOnePlace
  <1>4. WakeInv'
    BY DEF TypeOK, ControlInv, WakeInv, SemaphoreIsBinary, EachTimerInOnePlace, Posting
  <1>5. CountInv'
    BY DEF TypeOK, ControlInv, CountInv, Uncounted
  <1>6. CancelInv'
    BY DEF TypeOK, ControlInv, EachTimerInOnePlace, CancelInv
  <1>7. QED
    BY <1>1, <1>2, <1>3, <1>4, <1>5, <1>6 DEF IInv

\* PostPost preserves the invariant.
LEMMA PostPostStep ==
    ASSUME IInv, PostPost
    PROVE  IInv'
  <1> USE TimersAssumption, MaxTimeAssumption DEF IInv, PostPost
  <1>1. TypeOK'
    BY DEF TypeOK, DispatcherPc, ManagerPc
  <1>2. ControlInv' /\ SemaphoreIsBinary'
    BY DEF TypeOK, DispatcherPc, ManagerPc, ControlInv, SemaphoreIsBinary
  <1>3. EachTimerInOnePlace'
    BY DEF TypeOK, ControlInv, EachTimerInOnePlace
  <1>4. WakeInv'
    BY DEF TypeOK, ControlInv, WakeInv, SemaphoreIsBinary, EachTimerInOnePlace, Posting
  <1>5. CountInv'
    BY DEF TypeOK, ControlInv, CountInv, Uncounted
  <1>6. CancelInv'
    BY DEF TypeOK, ControlInv, EachTimerInOnePlace, CancelInv
  <1>7. QED
    BY <1>1, <1>2, <1>3, <1>4, <1>5, <1>6 DEF IInv

\* EnqueueUnlock preserves the invariant.
LEMMA EnqueueUnlockStep ==
    ASSUME IInv, EnqueueUnlock
    PROVE  IInv'
  <1> USE TimersAssumption, MaxTimeAssumption DEF IInv, EnqueueUnlock
  <1>1. TypeOK'
    BY DEF TypeOK, DispatcherPc, ManagerPc
  <1>2. ControlInv' /\ SemaphoreIsBinary'
    BY DEF TypeOK, DispatcherPc, ManagerPc, ControlInv, SemaphoreIsBinary
  <1>3. EachTimerInOnePlace'
    BY DEF TypeOK, ControlInv, EachTimerInOnePlace
  <1>4. WakeInv'
    BY DEF TypeOK, ControlInv, WakeInv, SemaphoreIsBinary, EachTimerInOnePlace, Posting
  <1>5. CountInv'
    BY DEF TypeOK, ControlInv, CountInv, Uncounted
  <1>6. CancelInv'
    BY DEF TypeOK, ControlInv, EachTimerInOnePlace, CancelInv
  <1>7. QED
    BY <1>1, <1>2, <1>3, <1>4, <1>5, <1>6 DEF IInv

\* EnqueueCount preserves the invariant.
LEMMA EnqueueCountStep ==
    ASSUME IInv, EnqueueCount
    PROVE  IInv'
  <1> USE TimersAssumption, MaxTimeAssumption DEF IInv, EnqueueCount
  <1>1. TypeOK'
    BY DEF TypeOK, DispatcherPc, ManagerPc
  <1>2. ControlInv' /\ SemaphoreIsBinary'
    BY DEF TypeOK, DispatcherPc, ManagerPc, ControlInv, SemaphoreIsBinary
  <1>3. EachTimerInOnePlace'
    BY DEF TypeOK, ControlInv, EachTimerInOnePlace
  <1>4. WakeInv'
    BY DEF TypeOK, ControlInv, WakeInv, SemaphoreIsBinary, EachTimerInOnePlace, Posting
  <1>5. CountInv'
    BY DEF TypeOK, ControlInv, CountInv, Uncounted
  <1>6. CancelInv'
    BY DEF TypeOK, ControlInv, EachTimerInOnePlace, CancelInv
  <1>7. QED
    BY <1>1, <1>2, <1>3, <1>4, <1>5, <1>6 DEF IInv

\* DequeueWait preserves the invariant.
LEMMA DequeueWaitStep ==
    ASSUME IInv, DequeueWait
    PROVE  IInv'
  <1> USE TimersAssumption, MaxTimeAssumption DEF IInv, DequeueWait, CounterAvailable
  <1>1. TypeOK'
    BY DEF TypeOK, DispatcherPc, ManagerPc
  <1>2. ControlInv' /\ SemaphoreIsBinary'
    BY DEF TypeOK, DispatcherPc, ManagerPc, ControlInv, SemaphoreIsBinary
  <1>3. EachTimerInOnePlace'
    BY DEF TypeOK, ControlInv, EachTimerInOnePlace
  <1>4. WakeInv'
    BY DEF TypeOK, ControlInv, WakeInv, SemaphoreIsBinary, EachTimerInOnePlace, Posting
  <1>5. CountInv'
    BY DEF TypeOK, ControlInv, CountInv, Uncounted
  <1>6. CancelInv'
    BY DEF TypeOK, ControlInv, EachTimerInOnePlace, CancelInv
  <1>7. QED
    BY <1>1, <1>2, <1>3, <1>4, <1>5, <1>6 DEF IInv

\* DequeuePop preserves the invariant.
LEMMA DequeuePopStep ==
    ASSUME IInv, DequeuePop
    PROVE  IInv'
  <1> USE TimersAssumption, MaxTimeAssumption DEF IInv, DequeuePop, IsFront
  <1>1. TypeOK'
    BY DEF TypeOK, DispatcherPc, ManagerPc
  <1>2. ControlInv' /\ SemaphoreIsBinary'
    BY DEF TypeOK, DispatcherPc, ManagerPc, ControlInv, SemaphoreIsBinary
  <1>3. EachTimerInOnePlace'
    BY DEF TypeOK, ControlInv, EachTimerInOnePlace
  <1>4. WakeInv'
    BY DEF TypeOK, ControlInv, WakeInv, SemaphoreIsBinary, EachTimerInOnePlace, Posting
  <1>5. CountInv'
    <2>1. PICK t \in queued : queued' = queued \ {t}
      OBVIOUS
    <2>2. Cardinality(queued') = Cardinality(queued) - 1
      BY <2>1, QueueFinite, FS_RemoveElement
    <2>3. QED
      BY <2>2 DEF TypeOK, ControlInv, CountInv, Uncounted
  <1>6. CancelInv'
    BY DEF TypeOK, ControlInv, EachTimerInOnePlace, CancelInv
  <1>7. QED
    BY <1>1, <1>2, <1>3, <1>4, <1>5, <1>6 DEF IInv

\* CheckCanceled preserves the invariant.
LEMMA CheckCanceledStep ==
    ASSUME IInv, CheckCanceled
    PROVE  IInv'
  <1> USE TimersAssumption, MaxTimeAssumption DEF IInv, CheckCanceled, WithoutCanceled
  <1>1. TypeOK'
    BY DEF TypeOK, DispatcherPc, ManagerPc
  <1>2. ControlInv' /\ SemaphoreIsBinary'
    BY DEF TypeOK, DispatcherPc, ManagerPc, ControlInv, SemaphoreIsBinary
  <1>3. EachTimerInOnePlace'
    BY DEF TypeOK, ControlInv, EachTimerInOnePlace
  <1>4. WakeInv'
    BY DEF TypeOK, ControlInv, WakeInv, SemaphoreIsBinary, EachTimerInOnePlace, Posting
  <1>5. CountInv'
    BY DEF TypeOK, ControlInv, CountInv, Uncounted
  <1>6. CancelInv'
    BY DEF TypeOK, ControlInv, EachTimerInOnePlace, CancelInv
  <1>7. QED
    BY <1>1, <1>2, <1>3, <1>4, <1>5, <1>6 DEF IInv

\* TimedWaitPosted preserves the invariant.
LEMMA TimedWaitPostedStep ==
    ASSUME IInv, TimedWaitPosted
    PROVE  IInv'
  <1> USE TimersAssumption, MaxTimeAssumption DEF IInv, TimedWaitPosted
  <1>1. TypeOK'
    BY DEF TypeOK, DispatcherPc, ManagerPc
  <1>2. ControlInv' /\ SemaphoreIsBinary'
    BY DEF TypeOK, DispatcherPc, ManagerPc, ControlInv, SemaphoreIsBinary
  <1>3. EachTimerInOnePlace'
    BY DEF TypeOK, ControlInv, EachTimerInOnePlace
  <1>4. WakeInv'
    BY DEF TypeOK, ControlInv, WakeInv, SemaphoreIsBinary, EachTimerInOnePlace, Posting
  <1>5. CountInv'
    BY DEF TypeOK, ControlInv, CountInv, Uncounted
  <1>6. CancelInv'
    BY DEF TypeOK, ControlInv, EachTimerInOnePlace, CancelInv
  <1>7. QED
    BY <1>1, <1>2, <1>3, <1>4, <1>5, <1>6 DEF IInv

\* TimedWaitTimeout preserves the invariant.
LEMMA TimedWaitTimeoutStep ==
    ASSUME IInv, TimedWaitTimeout
    PROVE  IInv'
  <1> USE TimersAssumption, MaxTimeAssumption DEF IInv, TimedWaitTimeout, DeadlinePassed
  <1>1. TypeOK'
    BY DEF TypeOK, ControlInv, DispatcherPc, ManagerPc
  <1>2. ControlInv' /\ SemaphoreIsBinary'
    BY DEF TypeOK, DispatcherPc, ManagerPc, ControlInv, SemaphoreIsBinary
  <1>3. EachTimerInOnePlace'
    BY DEF TypeOK, ControlInv, EachTimerInOnePlace
  <1>4. WakeInv'
    BY DEF TypeOK, ControlInv, WakeInv, SemaphoreIsBinary, EachTimerInOnePlace, Posting
  <1>5. CountInv'
    BY DEF TypeOK, ControlInv, CountInv, Uncounted
  <1>6. CancelInv'
    BY DEF TypeOK, ControlInv, EachTimerInOnePlace, CancelInv
  <1>7. QED
    BY <1>1, <1>2, <1>3, <1>4, <1>5, <1>6 DEF IInv

\* Requeue preserves the invariant.
LEMMA RequeueStep ==
    ASSUME IInv, Requeue
    PROVE  IInv'
  <1> USE TimersAssumption, MaxTimeAssumption DEF IInv, Requeue
  <1>1. TypeOK'
    BY DEF TypeOK, ControlInv, DispatcherPc, ManagerPc
  <1>2. ControlInv' /\ SemaphoreIsBinary'
    BY DEF TypeOK, DispatcherPc, ManagerPc, ControlInv, SemaphoreIsBinary
  <1>3. EachTimerInOnePlace'
    BY DEF TypeOK, ControlInv, EachTimerInOnePlace
  <1>4. WakeInv'
    BY DEF TypeOK, ControlInv, WakeInv, SemaphoreIsBinary, EachTimerInOnePlace, Posting
  <1>5. CountInv'
    <2>1. cur \notin queued
      BY DEF EachTimerInOnePlace
    <2>2. Cardinality(queued') = Cardinality(queued) + 1
      BY <2>1, QueueFinite, FS_AddElement
    <2>3. QED
      BY <2>2 DEF TypeOK, ControlInv, CountInv, Uncounted
  <1>6. CancelInv'
    BY DEF TypeOK, ControlInv, EachTimerInOnePlace, CancelInv
  <1>7. QED
    BY <1>1, <1>2, <1>3, <1>4, <1>5, <1>6 DEF IInv

\* RequeueCount preserves the invariant.
LEMMA RequeueCountStep ==
    ASSUME IInv, RequeueCount
    PROVE  IInv'
  <1> USE TimersAssumption, MaxTimeAssumption DEF IInv, RequeueCount
  <1>1. TypeOK'
    BY DEF TypeOK, DispatcherPc, ManagerPc
  <1>2. ControlInv' /\ SemaphoreIsBinary'
    BY DEF TypeOK, DispatcherPc, ManagerPc, ControlInv, SemaphoreIsBinary
  <1>3. EachTimerInOnePlace'
    BY DEF TypeOK, ControlInv, EachTimerInOnePlace
  <1>4. WakeInv'
    BY DEF TypeOK, ControlInv, WakeInv, SemaphoreIsBinary, EachTimerInOnePlace, Posting
  <1>5. CountInv'
    BY DEF TypeOK, ControlInv, CountInv, Uncounted
  <1>6. CancelInv'
    BY DEF TypeOK, ControlInv, EachTimerInOnePlace, CancelInv
  <1>7. QED
    BY <1>1, <1>2, <1>3, <1>4, <1>5, <1>6 DEF IInv

\* Tick preserves the invariant.
LEMMA TickStep ==
    ASSUME IInv, Tick
    PROVE  IInv'
  <1> USE TimersAssumption, MaxTimeAssumption DEF IInv, Tick
  <1>1. TypeOK'
    BY DEF TypeOK, DispatcherPc, ManagerPc
  <1>2. ControlInv' /\ SemaphoreIsBinary'
    BY DEF TypeOK, DispatcherPc, ManagerPc, ControlInv, SemaphoreIsBinary
  <1>3. EachTimerInOnePlace'
    BY DEF TypeOK, ControlInv, EachTimerInOnePlace
  <1>4. WakeInv'
    BY DEF TypeOK, ControlInv, WakeInv, SemaphoreIsBinary, EachTimerInOnePlace, Posting
  <1>5. CountInv'
    BY DEF TypeOK, ControlInv, CountInv, Uncounted
  <1>6. CancelInv'
    BY DEF TypeOK, ControlInv, EachTimerInOnePlace, CancelInv
  <1>7. QED
    BY <1>1, <1>2, <1>3, <1>4, <1>5, <1>6 DEF IInv

\* No step of either thread, and no tick, breaks the invariant.
LEMMA NextIInv == IInv /\ [Next]_vars => IInv'
  <1> SUFFICES ASSUME IInv, [Next]_vars PROVE IInv'
    OBVIOUS
  <1>1. CASE DispatcherStep
    BY <1>1, EnqueueTimeoutStep, EnqueueCancelStep, PostTryWaitStep, PostPostStep,
       EnqueueUnlockStep, EnqueueCountStep DEF DispatcherStep
  <1>2. CASE ManagerStep
    BY <1>2, DequeueWaitStep, DequeuePopStep, CheckCanceledStep, TimedWaitPostedStep,
       TimedWaitTimeoutStep, RequeueStep, RequeueCountStep DEF ManagerStep
  <1>3. CASE Tick
    BY <1>3, TickStep
  <1>4. CASE UNCHANGED vars
    BY <1>4 DEF vars, IInv, TypeOK, ControlInv, SemaphoreIsBinary, EachTimerInOnePlace,
       WakeInv, CountInv, Uncounted, CancelInv
  <1>5. QED
    BY <1>1, <1>2, <1>3, <1>4 DEF Next

\* The inductive invariant holds in every reachable state.
THEOREM Invariance == Spec => []IInv
  BY InitIInv, NextIInv, PTL DEF Spec

\* Every variable of the two threads keeps its type.
THEOREM TypeCorrect == Spec => []TypeOK
  <1>1. IInv => TypeOK
    BY DEF IInv
  <1>2. QED
    BY <1>1, Invariance, PTL

\* The assertion of signal_manager, get_value() <= 1, never fails, although
\* BinarySemaphore::post is not atomic.
THEOREM SemaphoreBinary == Spec => []SemaphoreIsBinary
  <1>1. IInv => SemaphoreIsBinary
    BY DEF IInv
  <1>2. QED
    BY <1>1, Invariance, PTL

\* A sleeping manager with no post pending sleeps on the right timer, so
\* neither an earlier timer nor a cancellation is overslept.
THEOREM WakeupNotLost == Spec => []NoLostWakeup
  <1>1. IInv => NoLostWakeup
    BY DEF IInv, TypeOK, WakeInv, NoLostWakeup, Posting, SemaphoreIsBinary
  <1>2. QED
    BY <1>1, Invariance, PTL

\* PriorityQueue::dequeue never takes the front of an empty list.
THEOREM DequeueSafe == Spec => []DequeueFindsElement
  <1>1. IInv => DequeueFindsElement
    <2> SUFFICES ASSUME IInv, mpc = "pop", queued = {} PROVE FALSE
      BY DEF DequeueFindsElement
    <2>1. Cardinality(queued) = 0
      BY FS_EmptySet
    <2>2. QED
      BY <2>1 DEF IInv, TypeOK, CountInv, Uncounted
  <1>2. QED
    BY <1>1, Invariance, PTL

\* A timer is never in two places: it fires at most once and is never fired
\* and dropped.
THEOREM TimerInOnePlace == Spec => []EachTimerInOnePlace
  <1>1. IInv => EachTimerInOnePlace
    BY DEF IInv
  <1>2. QED
    BY <1>1, Invariance, PTL

\* A cancellation that reaches canceled_events_ before the manager's lookup
\* is honoured: the timer does not fire.
THEOREM CancelHonoured == Spec => []CancelInTimeHonoured
  <1>1. IInv => CancelInTimeHonoured
    BY DEF IInv, CancelInv, CancelInTimeHonoured
  <1>2. QED
    BY <1>1, Invariance, PTL

\* Timers fire in deadline order, except past one that is being inserted.
THEOREM DeadlineOrder == Spec => FiresInDeadlineOrder
  <1>1. IInv /\ [Next]_vars =>
          [(fired' # fired /\ dpc = "idle") => \A t \in queued : due[cur] <= due[t]]_vars
    <2> SUFFICES ASSUME IInv, Next, fired' # fired, dpc = "idle"
                 PROVE  \A t \in queued : due[cur] <= due[t]
      BY DEF vars
    <2>1. TimedWaitTimeout
      BY DEF Next, DispatcherStep, ManagerStep, Tick, EnqueueTimeout, EnqueueCancel,
         PostTryWait, PostPost, EnqueueUnlock, EnqueueCount, DequeueWait, DequeuePop,
         CheckCanceled, TimedWaitPosted, Requeue, RequeueCount
    <2>2. QED
      BY <2>1 DEF IInv, WakeInv, Posting, TimedWaitTimeout
  <1>2. QED
    BY <1>1, Invariance, PTL DEF Spec, FiresInDeadlineOrder

\* The two threads implement TimerService: Start is the insertion by the
\* Dispatcher, Fire the manager's timeout, Drop its lookup that finds the
\* event canceled; every other step is invisible to the users of timers.
THEOREM Refinement == Spec => ImplementsTimerService
  <1>1. Init => Service!Init
    BY DEF Init, Service!Init, status
  <1>2. IInv /\ [Next]_vars => [Service!Next]_(Service!vars)
    <2> SUFFICES ASSUME IInv, [Next]_vars
                 PROVE  [Service!Next]_(Service!vars)
      OBVIOUS
    <2>1. CASE DispatcherStep
      <3>1. ASSUME NEW t \in Timers, NEW d \in 0..MaxTime, EnqueueTimeout(t, d)
            PROVE  Service!Start(t, d)
        <4>1. t \notin fired \cup dropped
          BY <3>1 DEF EnqueueTimeout, IInv, EachTimerInOnePlace
        <4>2. QED
          BY <3>1, <4>1 DEF EnqueueTimeout, Service!Start, status
      <3>2. ASSUME NEW t \in Timers, EnqueueCancel(t)
            PROVE  Service!Cancel(t)
        BY <3>2 DEF EnqueueCancel, Service!Cancel, status, IInv, EachTimerInOnePlace
      <3>3. CASE PostTryWait \/ PostPost \/ EnqueueUnlock \/ EnqueueCount
        BY <3>3 DEF PostTryWait, PostPost, EnqueueUnlock, EnqueueCount, status, Service!vars
      <3>4. QED
        BY <2>1, <3>1, <3>2, <3>3 DEF DispatcherStep, Service!Next
    <2>2. CASE ManagerStep
      <3>1. CASE CheckCanceled
        <4>1. CASE cur \in canceled
          <5>1. cur \in Timers /\ cur \in asked
            BY <4>1 DEF IInv, TypeOK, CancelInv
          <5>2. cur \in issued /\ cur \notin fired \cup dropped
            BY <4>1, <5>1 DEF IInv, CancelInv, EachTimerInOnePlace
          <5>3. /\ dropped' = dropped \cup {cur}
                /\ UNCHANGED <<now, due, issued, asked, fired>>
            BY <3>1, <4>1 DEF CheckCanceled
          <5>4. Service!Drop(cur)
            BY <5>1, <5>2, <5>3 DEF Service!Drop, status
          <5>5. QED
            BY <5>1, <5>4 DEF Service!Next
        <4>2. CASE cur \notin canceled
          BY <3>1, <4>2 DEF CheckCanceled, status, Service!vars
        <4>3. QED
          BY <4>1, <4>2
      <3>2. CASE TimedWaitTimeout
        <4>1. cur \in Timers
          BY <3>2 DEF TimedWaitTimeout, IInv, TypeOK, ControlInv
        <4>2. cur \in issued /\ cur \notin fired \cup dropped
          BY <4>1, TimersAssumption DEF IInv, EachTimerInOnePlace
        <4>3. /\ fired' = fired \cup {cur} /\ due[cur] <= now
              /\ UNCHANGED <<now, due, issued, asked, dropped>>
          BY <3>2 DEF TimedWaitTimeout, DeadlinePassed
        <4>4. Service!Fire(cur)
          BY <4>1, <4>2, <4>3 DEF Service!Fire, status
        <4>5. QED
          BY <4>1, <4>4 DEF Service!Next
      <3>3. CASE DequeueWait \/ DequeuePop \/ TimedWaitPosted \/ Requeue \/ RequeueCount
        BY <3>3 DEF DequeueWait, DequeuePop, TimedWaitPosted, Requeue, RequeueCount,
           status, Service!vars
      <3>4. QED
        BY <2>2, <3>1, <3>2, <3>3 DEF ManagerStep
    <2>3. CASE Tick
      BY <2>3 DEF Tick, Service!Tick, Service!Next, status
    <2>4. CASE UNCHANGED vars
      BY <2>4 DEF vars, status, Service!vars
    <2>5. QED
      BY <2>1, <2>2, <2>3, <2>4 DEF Next
  <1>3. QED
    BY <1>1, <1>2, Invariance, PTL DEF Spec, ImplementsTimerService, Service!Spec

===============================================================================
