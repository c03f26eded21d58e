------------------------------ MODULE MCSimpleUDP ------------------------------
\* Sockets that are each bound to a port of their own, and threads that differ
\* only in their number: of the idle ones the least makes the next call.
EXTENDS SimpleUDP

OwnPorts == [s \in SockIds |-> {s}]

LeastIdleThreadCalls ==
    \A t, u \in Threads :
        caller[t] = Idle /\ caller'[t] # Idle /\ caller[u] = Idle => t <= u
================================================================================
