------------------------ MODULE MCTimeoutEventManager -------------------------
(***************************************************************************)
(* TimeoutEventManager with timers numbered in the order of their creation. *)
(* The timers are interchangeable; the order takes the place of a symmetry  *)
(* set, which TLC could not combine with liveness.  Only enqueue() of a new *)
(* timer is restricted, an action without fairness.                         *)
(***************************************************************************)
EXTENDS TimeoutEventManager

CreatedInOrder == \A t \in issued' : \A u \in Timers : u < t => u \in issued'
===============================================================================
