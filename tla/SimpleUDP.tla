------------------------------- MODULE SimpleUDP -------------------------------
(***************************************************************************)
(* Socket calls on UDP sockets from the application through the wedge, the  *)
(* translator and the protocol and back.  SimpleUDP is one thread with a    *)
(* priority queue of events; the handlers of Protocol test that the socket  *)
(* is still one of theirs, call SimpleUDP and answer.  close() answers      *)
(* first and then reads its event once more, to delete the event's socket.  *)
(*                                                                          *)
(* The network carries datagrams between the sockets of this host; it may   *)
(* lose and reorder them.                                                   *)
(***************************************************************************)
EXTENDS BackEndTranslator

CONSTANT EarlyReuse  \* whether the kernel may use the address of a released socket
                     \* again before the daemon has deleted its Socket

ASSUME SimpleUDPAssumption == EarlyReuse \in BOOLEAN

VARIABLES
    map_,     \* the sockets of the protocol, with their containers
    closing,  \* the close event whose socket is deleted next, and its call
    network   \* datagrams under way

udpVars == <<map_, closing, network>>
vars == <<wedgeVars, translatorVars, udpVars>>

NotClosing == [n |-> 0, call |-> 0]

Init ==
    /\ WedgeInit /\ TranslatorInit
    /\ map_ = <<>>
    /\ closing = NotClosing
    /\ network = {}

-------------------------------------------------------------------------------
\* The thread of the protocol takes the next event, of kind y.
Processes(y) ==
    /\ failed = "none" /\ closing = NotClosing
    /\ udp_queue # <<>> /\ Head(udp_queue).kind = y
    /\ udp_queue' = Tail(udp_queue)
    /\ UNCHANGED <<wedgeVars, pool, content, event_map_, releasing>>

\* What the event object at the head of the queue holds.
Event == content[Head(udp_queue).kind][Head(udp_queue).n]

\* sockets_.contains
Known(x) == x \in DOMAIN map_

Response(e, y) == [sock |-> e.sock, fd |-> e.fd, type |-> y, call |-> e.call]

EmptyContainer == [receive_event |-> 0, packet_queue |-> <<>>]

ProcessSocket ==
    /\ Processes("socket")
    /\ map_' = [x \in DOMAIN map_ \cup {Event.sock} |->
                  IF x = Event.sock THEN EmptyContainer ELSE map_[x]]
    /\ responses' = Append(responses, Response(Event, "socket"))
    /\ UNCHANGED <<socket, collection_, failed, closing, network>>

\* Socket e.sock gets a local address; the collection is told.
SetLocalAddress(e, addr, port) ==
    /\ socket' = [socket EXCEPT ![e.sock].addr = addr, ![e.sock].port = port]
    /\ collection_' = update(collection_, socket', e.sock)

\* A variant that returns early when the address is taken.
ProcessBindSilent ==
    /\ Processes("bind")
    /\ IF Known(Event.sock) /\ ~AlreadyBound(collection_, socket, "any", Event.port)
       THEN /\ responses' = Append(responses, Response(Event, "bind"))
            /\ SetLocalAddress(Event, "any", Event.port)
       ELSE UNCHANGED <<responses, socket, collection_>>
    /\ UNCHANGED <<map_, failed, closing, network>>

ProcessBind ==
    /\ Processes("bind")
    /\ IF Known(Event.sock)
       THEN /\ responses' = Append(responses, Response(Event, "bind"))
            /\ IF AlreadyBound(collection_, socket, "any", Event.port)
               THEN UNCHANGED <<socket, collection_>>
               ELSE SetLocalAddress(Event, "any", Event.port)
       ELSE UNCHANGED <<responses, socket, collection_>>
    /\ UNCHANGED <<map_, failed, closing, network>>

\* icontext_connect does nothing: no one answers.
ProcessConnect ==
    /\ Processes("connect")
    /\ UNCHANGED <<responses, socket, collection_, map_, failed, closing, network>>

ProcessSend ==
    /\ Processes("sendto")
    /\ IF Known(Event.sock)
       THEN /\ IF socket[Event.sock].addr = "any"
               THEN SetLocalAddress(Event, "host", socket[Event.sock].port)
               ELSE UNCHANGED <<socket, collection_>>
            /\ network' = network \cup {[id |-> Event.call, port |-> Event.port]}
            /\ responses' = Append(responses, Response(Event, "sendto"))
       ELSE UNCHANGED <<socket, collection_, network, responses>>
    /\ UNCHANGED <<map_, failed, closing>>

\* send_receive_response, for a container with an event and a packet
AnswersReceive(c) == c.receive_event # 0 /\ c.packet_queue # <<>>

AfterAnswer(c) == [receive_event |-> 0, packet_queue |-> Tail(c.packet_queue)]

send_receive_response(x, c) ==
    IF AnswersReceive(c)
    THEN /\ map_' = [map_ EXCEPT ![x] = AfterAnswer(c)]
         /\ responses' = Append(responses,
                Response(content["recvfrom"][c.receive_event], "recvfrom"))
    ELSE /\ map_' = [map_ EXCEPT ![x] = c]
         /\ UNCHANGED responses

ProcessReceive ==
    /\ Processes("recvfrom")
    /\ IF Known(Event.sock)
       THEN send_receive_response(Event.sock,
               [map_[Event.sock] EXCEPT !.receive_event = Head(udp_queue).n])
       ELSE UNCHANGED <<map_, responses>>
    /\ UNCHANGED <<socket, collection_, failed, closing, network>>

ProcessPacket ==
    /\ Processes("packet")
    /\ IF Known(Head(udp_queue).sock)
       THEN send_receive_response(Head(udp_queue).sock,
               [map_[Head(udp_queue).sock] EXCEPT
                   !.packet_queue = Append(@, Head(udp_queue).datagram)])
       ELSE UNCHANGED <<map_, responses>>
    /\ UNCHANGED <<socket, collection_, failed, closing, network>>

ProcessClose ==
    /\ Processes("close")
    /\ IF Known(Event.sock)
       THEN /\ responses' = Append(responses, Response(Event, "close"))
            /\ closing' = [n |-> Head(udp_queue).n, call |-> Event.call]
       ELSE UNCHANGED <<responses, closing>>
    /\ UNCHANGED <<socket, collection_, map_, failed, network>>

\* icontext_close goes on: the socket is read from the event object now.
EnqueueDelete ==
    /\ failed = "none" /\ closing # NotClosing
    /\ udp_queue' = enqueue(udp_queue,
          [kind |-> "delete", n |-> 0, sock |-> content["close"][closing.n].sock, datagram |-> 0])
    /\ closing' = NotClosing
    /\ UNCHANGED <<wedgeVars, socket, collection_, pool, content, event_map_>>
    /\ UNCHANGED <<responses, releasing, failed, map_, network>>

\* The assertions around SocketCollection::remove in imodule_delete_socket.
DeleteAsserts(x) ==
    IF /\ get_by_id(collection_, socket, socket[x].id) = x
       /\ get_by_id(remove(collection_, socket, x), socket, socket[x].id) = 0
    THEN "none" ELSE "delete_socket"

ProcessDelete ==
    /\ Processes("delete")
    /\ LET x == Head(udp_queue).sock
       IN IF Known(x)
          THEN /\ map_' = [y \in DOMAIN map_ \ {x} |-> map_[y]]
               /\ collection_' = remove(collection_, socket, x)
               /\ failed' = DeleteAsserts(x)
          ELSE UNCHANGED <<map_, collection_, failed>>
    /\ UNCHANGED <<socket, responses, closing, network>>

\* The network thread looks the socket of a datagram up when it arrives.
NetworkReceive(d) ==
    LET x == get_by_local_ap(collection_, socket, d.port)
    IN /\ failed = "none"
       /\ network' = network \ {d}
       /\ udp_queue' = IF x = 0 THEN udp_queue
                       ELSE enqueue(udp_queue,
                              [kind |-> "packet", n |-> 0, sock |-> x, datagram |-> d.id])
       /\ UNCHANGED <<wedgeVars, socket, collection_, pool, content, event_map_>>
       /\ UNCHANGED <<responses, releasing, failed, map_, closing>>

Lose(d) ==
    /\ network' = network \ {d}
    /\ UNCHANGED <<wedgeVars, translatorVars, map_, closing>>
-------------------------------------------------------------------------------
\* The ports an application uses with a call.
CallPorts(s, y) ==
    CASE y = "bind" -> BindPorts[s] [] y = "sendto" -> SendPorts [] OTHER -> {0}

\* The allocator gives the address of a released socket out again.  close() returns
\* with the answer, which the daemon sends before it deletes its Socket, and
\* nothing in the code keeps the allocator from being that quick: whether it is,
\* is EarlyReuse.
ReleasedByDaemon(s) == KeysWithId(collection_, socket, s) = {}

Application ==
    \E t \in Threads, s \in SockIds, y \in CallTypes :
        /\ y = "socket" => EarlyReuse \/ ReleasedByDaemon(s)
        /\ \E p \in CallPorts(s, y) : Call(t, s, y, p)
        /\ UNCHANGED <<translatorVars, udpVars>>

ApplicationFails ==
    \E t \in Threads, s \in SockIds :
        ReleaseFails(t, s) /\ UNCHANGED <<translatorVars, udpVars>>

ApplicationReturns(t) == Return(t) /\ UNCHANGED <<translatorVars, udpVars>>

NetlinkThread == Receive /\ UNCHANGED udpVars
TranslatorThread == (LibraryResponse \/ ReleaseEvent) /\ UNCHANGED udpVars

UDPThread ==
    \/ ProcessSocket \/ ProcessBind \/ ProcessConnect \/ ProcessSend \/ ProcessReceive
    \/ ProcessPacket \/ ProcessClose \/ EnqueueDelete \/ ProcessDelete

Next ==
    \/ Application
    \/ ApplicationFails
    \/ \E t \in Threads : ApplicationReturns(t)
    \/ NetlinkThread
    \/ LibraryResponse /\ UNCHANGED udpVars
    \/ ReleaseEvent /\ UNCHANGED udpVars
    \/ ProcessSocket \/ ProcessBind \/ ProcessConnect \/ ProcessSend \/ ProcessReceive
    \/ ProcessPacket \/ ProcessClose \/ EnqueueDelete \/ ProcessDelete
    \/ \E d \in network : NetworkReceive(d)
    \/ \E d \in network : Lose(d)

Spec == Init /\ [][Next]_vars

\* Threads of the daemon run, and a thread whose semaphore was posted wakes up.
FairSpec ==
    /\ Spec
    /\ WF_vars(NetlinkThread) /\ WF_vars(TranslatorThread) /\ WF_vars(UDPThread)
    /\ \A t \in Threads : WF_vars(ApplicationReturns(t))
-------------------------------------------------------------------------------
LibraryKinds == CallTypes
Kinds == LibraryKinds \cup {"packet", "delete"}
Sockets == CallIds
EventObjects == [type : CallTypes, n : Nat \ {0}]

\* The tables, queues and pools hold what their types say; a call that is under
\* way is on an open socket.
TypeOK ==
    /\ wedge_calls \in [Slots -> [call_id : 0 .. call_count, sock_id : SockIds \cup {0},
                                  call_type : CallTypes \cup {""}, reply : BOOLEAN,
                                  from : 0 .. call_count]]
    /\ wedge_sockets \subseteq SockIds
    /\ call_count \in 0 .. MaxCallCount
    /\ caller \in [Threads -> [index : 0 .. MAX_CALLS, call_id : 0 .. call_count]]
    /\ DOMAIN socket \subseteq Sockets /\ DOMAIN map_ \subseteq DOMAIN socket
    /\ \A k \in DOMAIN collection_ : collection_[k] \in DOMAIN socket
    /\ \A y \in CallTypes : pool[y].size = Len(content[y])
    /\ event_map_ \in [SockIds -> EventObjects \cup {NoEvent}]
    /\ releasing \in EventObjects \cup {NoEvent}
    /\ \A i \in DOMAIN udp_queue : udp_queue[i].kind \in Kinds
    /\ \A i \in Slots : wedge_calls[i].call_id # 0 => wedge_calls[i].sock_id \in wedge_sockets

\* A thread that waits has an entry of the table that holds its call and that no
\* other thread waits on, and every entry in use has a thread that will free it
\* (wedge_calls_insert, and the entries that the calls free without the lock).
CallersOwnTheirEntries ==
    /\ \A t \in Threads : caller[t] # Idle =>
          /\ caller[t].index \in Slots
          /\ wedge_calls[caller[t].index].call_id = caller[t].call_id
    /\ \A t, u \in Threads :
          caller[t] # Idle /\ caller[u] # Idle /\ caller[t].index = caller[u].index => t = u
    /\ \A i \in Slots : wedge_calls[i].call_id # 0 => \E t \in Threads : caller[t].index = i

\* Answers carry no number of the call: the one that nl_data_ready writes into an
\* entry is the answer to the call that waits there, although sockets and
\* addresses are used again and answers of several sockets are under way.
ReplyAnswersItsCall ==
    \A i \in Slots : wedge_calls[i].reply => wedge_calls[i].from = wedge_calls[i].call_id

\* Who refers to an event object: a place in a pool's list, a queued event, a
\* container with a saved receive, a response that will release it, the release
\* that is under way.
FreeClaims ==
    UNION {{<<y, pool[y].free[i], "free", i>> : i \in DOMAIN pool[y].free} : y \in CallTypes}
QueueClaims ==
    {<<udp_queue[i].kind, udp_queue[i].n, "queued", i>> :
        i \in {j \in DOMAIN udp_queue : udp_queue[j].kind \in LibraryKinds}}
ReceiveClaims ==
    {<<"recvfrom", map_[x].receive_event, "saved", x>> :
        x \in {z \in DOMAIN map_ : map_[z].receive_event # 0}}
ResponseClaims ==
    {<<EventOf(responses[i]).type, EventOf(responses[i]).n, "answered", i>> :
        i \in DOMAIN responses}
ReleaseClaims ==
    IF releasing = NoEvent THEN {} ELSE {<<releasing.type, releasing.n, "releasing", 0>>}

Claims == FreeClaims \cup QueueClaims \cup ReceiveClaims \cup ResponseClaims \cup ReleaseClaims

\* No event object is claimed twice.
ClaimedOnce == \A a, b \in Claims : a[1] = b[1] /\ a[2] = b[2] => a = b

\* The close event that is read after its answer still is that call's: as long as
\* there are no more sockets than objects in the pool of close events, the object
\* is behind all others when it is released and stays the last to be used again.
CloseEventKept == closing # NotClosing => content["close"][closing.n].call = closing.call

\* An event object is in use once or free once, never both: event_map_ knows one
\* event per socket and is what decides which object a response releases.  And
\* icontext_close may read its event although the answer lets it be released.
EventsOwnedOnce == ClaimedOnce /\ CloseEventKept

\* No assertion of the translator or of imodule_delete_socket fails, and no answer
\* comes to a socket and type nobody waits for.
DaemonAssertionsHold == failed = "none"

DatagramWaits(s) ==
    \E x \in DOMAIN map_ : socket[x].id = s /\ map_[x].packet_queue # <<>>

MustReturn(t) ==
    LET entry == wedge_calls[caller[t].index]
    IN /\ caller[t] # Idle
       /\ \/ entry.call_type \notin {"connect", "recvfrom"}
          \/ entry.call_type = "recvfrom" /\ DatagramWaits(entry.sock_id)

\* Every call returns: recvfrom() once a datagram waits in its socket's queue,
\* any other at once, except connect(), which SimpleUDP does not answer.
EveryCallReturns == \A t \in Threads : MustReturn(t) ~> caller[t] = Idle
================================================================================
