--------------------------- MODULE BackEndTranslator ---------------------------
(***************************************************************************)
(* WiFuTransportBackEndTranslator, between the wedge and the protocols.     *)
(* The netlink thread runs receive(): it takes an event object from the     *)
(* pool of the call's type, notes it in event_map_ under the socket's       *)
(* identifier, fills it in and dispatches it.  The translator's own thread  *)
(* runs imodule_library_response(): it answers the wedge and gives the      *)
(* event noted for the socket back to its pool, in two steps, for the       *)
(* answer wakes the application before the event is released.               *)
(*                                                                          *)
(* A dispatched event waits in the Dispatcher's queue and then in the queue *)
(* of its module.  Both are first in first out among events of one          *)
(* priority, so one queue per module stands for the two.  Protocols refer   *)
(* to event objects, whose content is read when they are processed;         *)
(* response events have one owner at a time and are values here.            *)
(***************************************************************************)
EXTENDS KernelWedge, ObjectPool, SocketCollection

CONSTANT POOL_INITIAL_SIZE  \* objects in a new pool (10 in the code)

ASSUME PoolAssumption == POOL_INITIAL_SIZE \in Nat \ {0}

VARIABLES
    socket,       \* the Socket objects, named by the call that made them
    collection_,  \* SocketCollection
    pool,         \* for each type of call its ObjectPool
    content,      \* for each type of call what its event objects hold
    event_map_,   \* for each identifier the event of its last call
    udp_queue,    \* events that wait for SimpleUDP
    responses,    \* response events that wait for the translator
    releasing,    \* the event that is released next, or NoEvent
    failed        \* the assertion that stopped the daemon, or "none"

translatorVars ==
    <<socket, collection_, pool, content, event_map_, udp_queue, responses, releasing, failed>>

NoEvent == [type |-> "", n |-> 0]
Blank == [sock |-> 0, fd |-> 0, port |-> 0, call |-> 0]

TranslatorInit ==
    /\ socket = <<>> /\ collection_ = <<>>
    /\ pool = [y \in CallTypes |-> NewPool(POOL_INITIAL_SIZE)]
    /\ content = [y \in CallTypes |-> [i \in 1 .. POOL_INITIAL_SIZE |-> Blank]]
    /\ event_map_ = [id \in SockIds |-> NoEvent]
    /\ udp_queue = <<>> /\ responses = <<>>
    /\ releasing = NoEvent /\ failed = "none"

HIGH == 0
LOW == 1
Priority(e) == IF e.kind = "delete" THEN HIGH ELSE LOW

\* PriorityQueue: behind the events of the same priority, before the first of a
\* lower one.
enqueue(q, e) ==
    LET place == FirstOf({i \in DOMAIN q : Priority(q[i]) > Priority(e)} \cup {Len(q) + 1})
    IN SubSeq(q, 1, place - 1) \o <<e>> \o SubSeq(q, place, Len(q))

FilledInPlace(c, size, n, d) == [c EXCEPT ![n] = d]

Filled(c, size, n, d) ==
    [i \in 1 .. size |-> IF i = n THEN d ELSE IF i <= Len(c) THEN c[i] ELSE Blank]

\* receive() for the message m of socket x: the event object is taken, noted,
\* filled in and dispatched.
DispatchCall(m, x) ==
    LET n == get(pool[m.type])
    IN /\ pool' = [pool EXCEPT ![m.type] = AfterGet(@)]
       /\ content' = [content EXCEPT ![m.type] =
             Filled(@, AfterGet(pool[m.type]).size, n,
                    [sock |-> x, fd |-> m.fd, port |-> m.port, call |-> m.call])]
       /\ event_map_' = [event_map_ EXCEPT ![m.fd] = [type |-> m.type, n |-> n]]
       /\ udp_queue' = enqueue(udp_queue, [kind |-> m.type, n |-> n, sock |-> 0, datagram |-> 0])

\* The port a new socket gets from the PortManager: one nobody has.
EphemeralPort(x) == 100 + x

ReceiveSocket(m) ==
    LET new == [x \in DOMAIN socket \cup {m.call} |->
                  IF x = m.call
                  THEN [id |-> m.fd, addr |-> "any", port |-> EphemeralPort(x)]
                  ELSE socket[x]]
    IN /\ socket' = new
       /\ collection_' = push(collection_, new, m.call)
       /\ DispatchCall(m, m.call)
       /\ UNCHANGED failed

ReceiveCall(m) ==
    LET x == get_by_id(collection_, socket, m.fd)
    IN /\ IF x = 0
          THEN failed' = "receive" /\ UNCHANGED <<pool, content, event_map_, udp_queue>>
          ELSE DispatchCall(m, x) /\ UNCHANGED failed
       /\ UNCHANGED <<socket, collection_>>

\* The netlink thread.
Receive ==
    /\ failed = "none" /\ to_daemon # <<>>
    /\ IF Head(to_daemon).type = "socket" THEN ReceiveSocket(Head(to_daemon))
       ELSE ReceiveCall(Head(to_daemon))
    /\ to_daemon' = Tail(to_daemon)
    /\ UNCHANGED <<wedge_calls, wedge_sockets, call_count, caller, responses, releasing>>

EventOf(r) == event_map_[socket[r.sock].id]

ResponseAsserts(r) ==
    IF EventOf(r) = NoEvent THEN "library_response"
    ELSE IF wedge_calls_find(r.fd, r.type) = 0 THEN "wedge_index"
    ELSE "none"

\* The translator's thread: the event is looked up, then the wedge answered ...
LibraryResponse ==
    /\ failed = "none" /\ responses # <<>> /\ releasing = NoEvent
    /\ failed' = ResponseAsserts(Head(responses))
    /\ releasing' = EventOf(Head(responses))
    /\ wedge_calls' = IF failed' = "none" THEN nl_data_ready(Head(responses)) ELSE wedge_calls
    /\ responses' = Tail(responses)
    /\ UNCHANGED <<wedge_sockets, call_count, caller, to_daemon>>
    /\ UNCHANGED <<socket, collection_, pool, content, event_map_, udp_queue>>

\* ... and then the event released.
ReleaseEvent ==
    /\ failed = "none" /\ releasing # NoEvent
    /\ pool' = [pool EXCEPT ![releasing.type] = release(@, releasing.n)]
    /\ releasing' = NoEvent
    /\ UNCHANGED wedgeVars
    /\ UNCHANGED <<socket, collection_, content, event_map_, udp_queue, responses, failed>>
================================================================================
