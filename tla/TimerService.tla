----------------------------- MODULE TimerService -----------------------------
(***************************************************************************)
(* What the rest of WiFu Transport may expect of the timer component,       *)
(* whatever threads and semaphores implement it: a timer that was started   *)
(* is resolved once, either by firing, never before its deadline, or by     *)
(* being dropped, only after somebody asked to cancel it.                   *)
(* (events/framework_events/{TimeoutEvent,CancelTimerEvent,TimerFiredEvent}) *)
(***************************************************************************)
EXTENDS Naturals

CONSTANTS Timers, MaxTime

VARIABLES
    now,      \* the wall clock
    due,      \* absolute deadline of every started timer
    status,   \* "idle", "pending", "fired" or "dropped"
    asked     \* timers whose cancellation was requested

vars == <<now, due, status, asked>>

Init ==
    /\ now = 0
    /\ due = [t \in Timers |-> 0]
    /\ status = [t \in Timers |-> "idle"]
    /\ asked = {}

Start(t, d) ==
    /\ status[t] = "idle"
    /\ due' = [due EXCEPT ![t] = d]
    /\ status' = [status EXCEPT ![t] = "pending"]
    /\ UNCHANGED <<now, asked>>

Cancel(t) ==
    /\ status[t] # "idle"
    /\ t \notin asked
    /\ asked' = asked \cup {t}
    /\ UNCHANGED <<now, due, status>>

Fire(t) ==
    /\ status[t] = "pending"
    /\ due[t] <= now
    /\ status' = [status EXCEPT ![t] = "fired"]
    /\ UNCHANGED <<now, due, asked>>

Drop(t) ==
    /\ status[t] = "pending"
    /\ t \in asked
    /\ status' = [status EXCEPT ![t] = "dropped"]
    /\ UNCHANGED <<now, due, asked>>

Tick ==
    /\ now' = now + 1
    /\ UNCHANGED <<due, status, asked>>

Next ==
    \/ Tick
    \/ \E t \in Timers :
          \/ \E d \in 0..MaxTime : Start(t, d)
          \/ Cancel(t)
          \/ Fire(t)
          \/ Drop(t)

Spec == Init /\ [][Next]_vars
===============================================================================
