-------------------------------- MODULE Listener -------------------------------
(***************************************************************************)
(* Several clients connecting to one listening socket of TCPTahoe: the      *)
(* network interface finds the socket of a packet in the socket collection, *)
(* a SYN makes the listener hand its container to a new socket and take a   *)
(* fresh one, an established connection goes to the backlog, and accept()   *)
(* takes it from there.                                                     *)
(*                                                                          *)
(* Three threads: the network interface (Arrive), the back-end translator   *)
(* (Accept, CloseListener) and the protocol (Process...).  The socket of a  *)
(* packet is looked up when the packet arrives and used when the protocol   *)
(* takes it from its queue.  The queue is in order: all these events have   *)
(* LOW priority.  The events a handler raises have HIGH priority, so a      *)
(* Process action includes all that its event sets off.                     *)
(*                                                                          *)
(* Of a container only the connection state and the saved accept event are  *)
(* kept; TCPTahoe models the rest.  Every container uses the same initial   *)
(* sequence number, so the ACK of a handshake is valid for any of them.     *)
(***************************************************************************)
EXTENDS Integers, Sequences, FiniteSets

CONSTANTS
    NumClients,       \* clients are numbered in the order of their keys
    BackLogCapacity,  \* the argument of listen()
    MaxAccepts,       \* bound: calls of accept()
    MaxResends        \* bound: SYNs and SYN+ACKs that are sent again

\* The remote address of a socket that is not connected is 0.0.0.0:0, whose text
\* is less than that of any other.
NoRemote == 0
Clients == 1..NumClients

ASSUME ListenerAssumption ==
    /\ NumClients \in Nat /\ MaxAccepts \in Nat /\ MaxResends \in Nat
    /\ BackLogCapacity \in Nat \ {0}

VARIABLES
    bound_to,     \* the address the listener is bound to: "host" or "any" (0.0.0.0)
    sockets,      \* the new sockets, in the order of their creation
    containers,   \* the containers, in the order of their creation
    map,          \* TCPTahoe::map_, a container for each socket of the protocol
    collection,   \* the socket of each key; all keys have the listener's local part
    back_log,     \* the backlog, which all these containers share
    second_id,    \* the identifier the last accept() brought for its connection
    queue,        \* the protocol's queue
    net,          \* packets under way
    client,       \* the state of each client
    resends,      \* packets sent again
    accepts,      \* calls of accept() made; their number names a call
    waiting,      \* the call the application is blocked in, or NoCall
    established,  \* the sockets that became established, in that order
    refused,      \* those the backlog had no room for
    answers,      \* the responses to accept() so far, with the call that each woke
    aborted       \* what made the process fail: an empty backlog popped, an assertion

protocol == <<sockets, containers, map, collection, back_log>>
application == <<accepts, waiting, second_id>>
history == <<established, refused, answers>>
vars == <<bound_to, protocol, application, history, queue, net, client, resends, aborted>>

Running == aborted = "no"
NoCall == 0
NoId == 0               \* second_socket_ before the first accept()
NoSocket == -1
ListeningSocket == 0
ListenerId == MaxAccepts + 1
MaxSockets == NumClients + MaxResends

Live == DOMAIN map
Listening == ListeningSocket \in Live
RemoteOf(s) == IF s = ListeningSocket THEN NoRemote ELSE sockets[s].remote
IdOf(s) == IF s = ListeningSocket THEN ListenerId ELSE sockets[s].id

Container(state, accept) == [state |-> state, saved_accept_event |-> accept]
Packet(kind, c) == [kind |-> kind, client |-> c]
PacketEvent(p, s) == [kind |-> p.kind, client |-> p.client, socket |-> s]
AcceptEvent(n) == [kind |-> "accept", call |-> n]

-------------------------------------------------------------------------------
\* SocketCollection.  It is searched in the order of the keys; the visitor stops
\* at the first socket found.
Keys(coll) == {k \in Clients \cup {NoRemote} : coll[k] # NoSocket}

First(coll, keys) ==
    IF keys = {} THEN NoSocket ELSE coll[CHOOSE k \in keys : \A j \in keys : k <= j]

get_by_id(coll, id) == First(coll, {k \in Keys(coll) : IdOf(coll[k]) = id})

LastSocket ==
    IF Keys(collection) = {} THEN NoSocket
    ELSE collection[CHOOSE k \in Keys(collection) : \A j \in Keys(collection) : j <= k]

\* Each of the sockets has the listener's port, and its address or 0.0.0.0.
get_by_local_ap == First(collection, Keys(collection))

\* The key of a packet has the host's own address, that of a socket the one the
\* listener was bound to.
get_by_local_and_remote_ap(c) ==
    IF bound_to = "host" THEN collection[c] ELSE NoSocket

SocketOfLocalOnly(p) == LastSocket

SocketOf(p) ==
    IF get_by_local_and_remote_ap(p.client) # NoSocket
    THEN get_by_local_and_remote_ap(p.client) ELSE get_by_local_ap

push(coll, key, s) == [coll EXCEPT ![key] = s]
remove(coll, s) == [coll EXCEPT ![RemoteOf(s)] = NoSocket]

-------------------------------------------------------------------------------
Init ==
    /\ bound_to \in {"host", "any"}
    /\ sockets = <<>>
    /\ containers = <<Container("Listen", NoCall)>>
    /\ map = [s \in {ListeningSocket} |-> 1]
    /\ collection = [k \in Clients \cup {NoRemote} |->
                        IF k = NoRemote THEN ListeningSocket ELSE NoSocket]
    /\ back_log = <<>>
    /\ second_id = NoId
    /\ queue = <<>> /\ resends = 0
    /\ net = {Packet("syn", c) : c \in Clients}
    /\ client = [c \in Clients |-> "SynSent"]
    /\ accepts = 0 /\ waiting = NoCall
    /\ established = <<>> /\ refused = {} /\ answers = <<>>
    /\ aborted = "no"

-------------------------------------------------------------------------------
\* The clients and the network.  A client that connects late is one whose SYN
\* arrives late.

\* A retransmission timer of a client or of a connection that is not established.
Resend(p) ==
    /\ Running /\ resends < MaxResends
    /\ \/ p.kind = "syn" /\ client[p.client] = "SynSent"
       \/ p.kind = "synack" /\ \E s \in Live \ {ListeningSocket} :
              RemoteOf(s) = p.client /\ containers[map[s]].state = "SynReceived"
    /\ resends' = resends + 1
    /\ net' = net \cup {p}
    /\ UNCHANGED <<bound_to, protocol, application, history, queue, client, aborted>>

\* A client acknowledges every SYN+ACK it gets.
ReceiveSynAck(c) ==
    /\ Running /\ Packet("synack", c) \in net
    /\ net' = (net \ {Packet("synack", c)}) \cup {Packet("ack", c)}
    /\ client' = [client EXCEPT ![c] = "Established"]
    /\ UNCHANGED <<bound_to, protocol, application, history, queue, resends, aborted>>

\* NetworkInterface::imodule_network_receive
Arrive(p) ==
    /\ Running /\ p \in net /\ p.kind # "synack"
    /\ net' = net \ {p}
    /\ queue' = IF SocketOf(p) = NoSocket THEN queue
                ELSE Append(queue, PacketEvent(p, SocketOf(p)))
    /\ UNCHANGED <<bound_to, protocol, application, history, client, resends, aborted>>

-------------------------------------------------------------------------------
\* The application and the translator.  accept() blocks; the translator stores the
\* identifier of the connection to come, here the number of the call, at once.
Accept ==
    /\ Running /\ Listening /\ waiting = NoCall /\ accepts < MaxAccepts
    /\ accepts' = accepts + 1
    /\ waiting' = accepts'
    /\ second_id' = accepts'
    /\ queue' = Append(queue, AcceptEvent(accepts'))
    /\ UNCHANGED <<bound_to, protocol, history, net, client, resends, aborted>>

-------------------------------------------------------------------------------
\* The protocol.
Front == IF ~Running \/ queue = <<>> THEN {} ELSE {Head(queue)}
Dequeue == queue' = Tail(queue)

\* wedge_calls_find matches an answer by socket and type: it wakes whichever call
\* waits for the listener, also when the accept event is that of an earlier one.
\* Nobody gets an answer that finds no call; it is recorded with NoCall.
Answer(s) ==
    /\ answers' = Append(answers, [call |-> waiting, socket |-> s])
    /\ waiting' = NoCall

NewestFirst(log) ==
    /\ log # <<>>
    /\ back_log' = SubSeq(log, 1, Len(log) - 1)
    /\ Answer(log[Len(log)])
    /\ UNCHANGED aborted

\* TCPTahoe::send_accept_response takes the oldest connection of the backlog log.
\* Popping an empty queue is undefined; the process is taken to fail.
send_accept_response(log) ==
    IF log = <<>>
    THEN aborted' = "pop" /\ UNCHANGED <<back_log, answers, waiting>>
    ELSE back_log' = Tail(log) /\ Answer(Head(log)) /\ UNCHANGED aborted

\* TCPTahoe::icontext_accept
ProcessAccept ==
    \E e \in Front :
        /\ Dequeue /\ e.kind = "accept" /\ Listening
        /\ IF back_log # <<>>
           THEN send_accept_response(back_log) /\ UNCHANGED containers
           ELSE /\ containers' = [containers EXCEPT
                      ![map[ListeningSocket]].saved_accept_event = e.call]
                /\ UNCHANGED <<back_log, answers, waiting, aborted>>
        /\ UNCHANGED <<bound_to, sockets, map, collection, accepts, second_id, established,
                       refused, net, client, resends>>

ShareContainer(s) ==
    /\ containers' = Append([containers EXCEPT ![map[ListeningSocket]].state = "SynReceived"],
           Container("Listen", containers[map[ListeningSocket]].saved_accept_event))
    /\ map' = [t \in Live \cup {s} |-> IF t = s THEN map[ListeningSocket] ELSE map[t]]

\* TCPTahoe::icontext_new_connection_initiated: the new socket gets the listener's
\* container, the listener a fresh one.  Both keep the saved accept event.
SwapContainers(s) ==
    /\ containers' = Append([containers EXCEPT ![map[ListeningSocket]].state = "SynReceived"],
           Container("Listen", containers[map[ListeningSocket]].saved_accept_event))
    /\ map' = [t \in Live \cup {s} |->
                  CASE t = s -> map[ListeningSocket]
                    [] t = ListeningSocket -> Len(containers) + 1
                    [] OTHER -> map[t]]

\* Listen::process_syn
ProcessSyn ==
    \E e \in Front :
        /\ Dequeue /\ e.kind = "syn" /\ e.socket = ListeningSocket /\ Listening
        /\ sockets' = Append(sockets, [remote |-> e.client, id |-> second_id])
        /\ collection' = push(collection, e.client, Len(sockets'))
        /\ SwapContainers(Len(sockets'))
        /\ net' = net \cup {Packet("synack", e.client)}
        /\ UNCHANGED <<bound_to, back_log, application, history, client, resends, aborted>>

HasRoom == Len(back_log) + 1 <= BackLogCapacity

PushedUnbounded(s) == Append(back_log, s)

\* BackLog::push.  Nobody looks at what it returns.
Pushed(s) == IF HasRoom THEN Append(back_log, s) ELSE back_log

AnswerBeforePush(s) ==
    IF containers[map[s]].saved_accept_event # NoCall
    THEN send_accept_response(back_log)
    ELSE back_log' = Pushed(s) /\ UNCHANGED <<answers, waiting, aborted>>

\* TCPTahoe::icontext_new_connection_established looks for a saved accept event in
\* the container of the new socket.
new_connection_established(s) ==
    IF containers[map[s]].saved_accept_event # NoCall
    THEN send_accept_response(Pushed(s))
    ELSE back_log' = Pushed(s) /\ UNCHANGED <<answers, waiting, aborted>>

\* SynReceived::state_receive_packet
ProcessAck ==
    \E e \in Front :
        /\ Dequeue /\ e.kind = "ack" /\ e.socket \in Live
        /\ containers[map[e.socket]].state = "SynReceived"
        /\ containers' = [containers EXCEPT ![map[e.socket]] = Container("Established", NoCall)]
        /\ new_connection_established(e.socket)
        /\ established' = Append(established, e.socket)
        /\ refused' = IF HasRoom THEN refused ELSE refused \cup {e.socket}
        /\ UNCHANGED <<bound_to, sockets, map, collection, accepts, second_id, net, client,
                       resends>>

\* An event of a deleted socket, an ACK for the listener, a SYN or ACK for a
\* connection past SynReceived: nothing that is kept here changes.
ProcessIgnored ==
    \E e \in Front :
        /\ Dequeue /\ e.kind # "accept"
        /\ \/ e.socket \notin Live
           \/ e.socket \in Live /\ e.kind = "ack" /\ containers[map[e.socket]].state # "SynReceived"
           \/ e.kind = "syn" /\ e.socket # ListeningSocket
        /\ UNCHANGED <<bound_to, protocol, application, history, net, client, resends, aborted>>

-------------------------------------------------------------------------------
\* Protocol::imodule_delete_socket, with its assertions.
DeletionFails(s) ==
    \/ get_by_id(collection, IdOf(s)) # s
    \/ get_by_id(remove(collection, s), IdOf(s)) # NoSocket

imodule_delete_socket(s) ==
    /\ map' = [t \in Live \ {s} |-> map[t]]
    /\ IF DeletionFails(s) THEN aborted' = "delete_socket" /\ UNCHANGED collection
       ELSE collection' = remove(collection, s) /\ UNCHANGED aborted
    /\ UNCHANGED <<bound_to, sockets, containers, back_log, application, history, queue, net,
                   client, resends>>

\* The application gets the answers that found one of its calls.
Accepted(s) == \E i \in DOMAIN answers : answers[i].socket = s /\ answers[i].call # NoCall

\* The end of a connection that the application has accepted and closed.
CloseConnection(s) ==
    /\ Running /\ s # ListeningSocket /\ Accepted(s)
    /\ imodule_delete_socket(s)

\* Listen::state_close
CloseListener == Running /\ Listening /\ waiting = NoCall /\ imodule_delete_socket(ListeningSocket)

Next ==
    \/ \E c \in Clients : ReceiveSynAck(c)
    \/ \E p \in [kind : {"syn", "ack", "synack"}, client : Clients] : Resend(p) \/ Arrive(p)
    \/ Accept
    \/ ProcessAccept
    \/ ProcessSyn
    \/ ProcessAck
    \/ ProcessIgnored
    \/ \E s \in Live : CloseConnection(s)
    \/ CloseListener

Spec == Init /\ [][Next]_vars

\* The threads run, packets arrive, and the application keeps calling accept().
Fairness ==
    /\ WF_vars(ProcessAccept \/ ProcessSyn \/ ProcessAck \/ ProcessIgnored)
    /\ WF_vars(Accept)
    /\ WF_vars(\E p \in net : Arrive(p))
    /\ WF_vars(\E c \in Clients : ReceiveSynAck(c))

FairSpec == Spec /\ Fairness

-------------------------------------------------------------------------------
NewSockets == 1..Len(sockets)
Calls == 1..accepts

\* The components have their types: every socket of the protocol has a container,
\* and queue, backlog and collection name sockets that were created.
TypeOK ==
    /\ bound_to \in {"host", "any"}
    /\ sockets \in Seq([remote : Clients, id : Calls \cup {NoId}])
    /\ containers \in Seq([state : {"Listen", "SynReceived", "Established"},
                           saved_accept_event : Calls \cup {NoCall}])
    /\ Live \subseteq NewSockets \cup {ListeningSocket}
    /\ \A s \in Live : map[s] \in 1..Len(containers)
    /\ collection \in [Clients \cup {NoRemote} -> NewSockets \cup {ListeningSocket, NoSocket}]
    /\ back_log \in Seq(NewSockets) /\ Len(back_log) <= BackLogCapacity
    /\ queue \in Seq([kind : {"syn", "ack"}, client : Clients,
                      socket : NewSockets \cup {ListeningSocket}]
                     \cup [kind : {"accept"}, call : Calls])
    /\ net \subseteq [kind : {"syn", "ack", "synack"}, client : Clients]
    /\ client \in [Clients -> {"SynSent", "Established"}]
    /\ resends \in 0..MaxResends /\ accepts \in 0..MaxAccepts
    /\ waiting \in {NoCall, accepts} /\ second_id = accepts
    /\ established \in Seq(NewSockets) /\ refused \subseteq NewSockets
    /\ answers \in Seq([call : Calls \cup {NoCall}, socket : NewSockets])
    /\ aborted \in {"no", "pop", "delete_socket"}

\* Handing the listener's container to the new socket keeps the sockets apart: no
\* two of them share a container, and it is the listener's that waits for a SYN
\* (TCPTahoe::icontext_new_connection_initiated).
ContainersNotShared ==
    /\ \A s, t \in Live : map[s] = map[t] => s = t
    /\ \A s \in Live : containers[map[s]].state = "Listen" <=> s = ListeningSocket

\* The connections accept() has answered with, and then those in the backlog.
HandedOut == [i \in DOMAIN answers |-> answers[i].socket] \o back_log

\* accept() hands out every connection the backlog took exactly once, in the order
\* in which they were established, whichever call and container it goes through
\* (TCPTahoe::icontext_accept, TCPTahoe::icontext_new_connection_established).
FirstComeFirstServed ==
    /\ {HandedOut[i] : i \in DOMAIN HandedOut}
          = {established[k] : k \in DOMAIN established} \ refused
    /\ \A i, j \in DOMAIN HandedOut, k, l \in DOMAIN established :
          i < j /\ HandedOut[i] = established[k] /\ HandedOut[j] = established[l] => k < l

\* TCPTahoe::send_accept_response never pops an empty backlog.  It does not ask:
\* this rests on push() failing only when the backlog is full, and on listen()
\* having been called with a backlog of at least one.
PopFindsConnection == aborted # "pop"

\* While the listener is open a connection is established by an ACK of its own
\* client, although any ACK is valid for it (NetworkInterface::imodule_network_receive).
\* Once it is closed, packets without a socket fall to the first connection.
EstablishedByItsClient ==
    Listening => \A i \in DOMAIN established : client[RemoteOf(established[i])] = "Established"

\* "Continually calling accept() will eventually empty the BackLog"
\* (TCPTahoeIContextContainer::get_back_log): an accept() does not wait for ever
\* beside a backlog that has connections.
AcceptEmptiesBackLog ==
    (waiting # NoCall /\ back_log # <<>>) ~> (waiting = NoCall \/ back_log = <<>>)
===============================================================================
