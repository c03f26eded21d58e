----------------------------- MODULE ListenerProofs ----------------------------
(***************************************************************************)
(* For every number of clients, calls and retransmissions and every backlog *)
(* of at least one: sockets never share a container, no empty backlog is    *)
(* popped, connections are handed out in the order in which they became     *)
(* established, and only the packets of its own client establish one.       *)
(***************************************************************************)
EXTENDS Listener, WellFoundedInduction, TLAPS

ConnectionStates == {"Listen", "SynReceived", "Established"}
Containers == [state : ConnectionStates, saved_accept_event : Nat]
Events == [kind : {"syn", "ack"}, client : Clients, socket : Int]
          \cup [kind : {"accept"}, call : Nat]

\* What the proofs need to know of the types.
ShapeInv ==
    /\ containers \in Seq(Containers)
    /\ sockets \in Seq([remote : Clients, id : Nat])
    /\ queue \in Seq(Events)
    /\ collection \in [Clients \cup {NoRemote} -> Int]
    /\ back_log \in Seq(Int)
    /\ accepts \in Nat /\ second_id \in Nat

\* Sockets and containers that exist: a new one differs from all of them.
MapInv ==
    /\ map = [s \in Live |-> map[s]]
    /\ Live \subseteq 0..Len(sockets)
    /\ \A s \in Live : map[s] \in 1..Len(containers)

\* The invariant that every step keeps.
IInv == ShapeInv /\ MapInv /\ ContainersNotShared /\ PopFindsConnection

USE DEF NoRemote, NoCall, NoId, NoSocket, ListeningSocket, Container, Packet

\* The initial states, a bound listener without connections, satisfy the invariant
\* (TCPTahoe::icontext_listen).
LEMMA InitIInv == Init => IInv
<1> SUFFICES ASSUME Init PROVE IInv OBVIOUS
<1>1. ShapeInv BY ListenerAssumption DEF Init, ShapeInv, Containers, ConnectionStates, Events, Clients
<1>2. MapInv BY DEF Init, MapInv, Live
<1>3. ContainersNotShared BY DEF Init, ContainersNotShared, Live
<1>4. PopFindsConnection BY DEF Init, PopFindsConnection
<1> QED BY <1>1, <1>2, <1>3, <1>4 DEF IInv

\* The steps that leave sockets, containers, backlog and map alone keep the invariant.
LEMMA KeepsIInv ==
    ASSUME IInv, queue' \in Seq(Events),
           UNCHANGED <<containers, sockets, collection, back_log, map, aborted>>,
           accepts' \in Nat, second_id' \in Nat
    PROVE  IInv'
BY DEF IInv, ShapeInv, MapInv, ContainersNotShared, PopFindsConnection, Live, Events, Clients

\* The visitor stops at the socket with the least of the keys that fit
\* (SocketCollection::get_by_local_ap).
LEMMA FirstKey ==
    ASSUME NEW coll, NEW keys \in SUBSET (Clients \cup {NoRemote}), keys # {}
    PROVE  \E k \in keys : First(coll, keys) = coll[k] /\ \A j \in keys : k <= j
<1> DEFINE Below == OpToRel(<, Nat)
<1>1. IsWellFoundedOn(Below, Nat) BY NatLessThanWellFounded, Zenon
<1>2. ASSUME NEW j \in Nat, NEW k \in Nat, j < k PROVE <<j, k>> \in Below
  BY <1>2, Zenon DEF OpToRel
<1>3. keys \subseteq Nat BY ListenerAssumption DEF Clients
<1> HIDE DEF Below
<1>4. \E k \in keys : \A j \in keys : k <= j
  <2>1. PICK k \in keys : \A j \in keys : ~(<<j, k>> \in Below) BY <1>1, <1>3, WFMin, Zenon
  <2> SUFFICES ASSUME NEW j \in keys PROVE k <= j OBVIOUS
  <2>2. ~(j < k) BY <1>2, <1>3, <2>1, Zenon
  <2> QED BY <1>3, <2>2
<1> QED BY <1>4 DEF First

\* The network thread queues a packet for a socket (NetworkInterface::imodule_network_receive).
LEMMA ArriveIInv == ASSUME IInv, NEW p \in [kind : {"syn", "ack", "synack"}, client : Clients], Arrive(p)
                    PROVE IInv'
<1>1. SocketOf(p) \in Int
  <2>1. \A keys \in SUBSET (Clients \cup {NoRemote}) : First(collection, keys) \in Int
    <3>1. collection \in [Clients \cup {NoRemote} -> Int] BY DEF IInv, ShapeInv
    <3> SUFFICES ASSUME NEW keys \in SUBSET (Clients \cup {NoRemote})
                 PROVE  First(collection, keys) \in Int
      OBVIOUS
    <3>2. CASE keys = {} BY <3>2 DEF First
    <3>3. CASE keys # {} BY <3>1, <3>3, FirstKey
    <3> QED BY <3>2, <3>3
  <2> QED BY <2>1 DEF SocketOf, get_by_local_ap, get_by_local_and_remote_ap, Keys, IInv, ShapeInv
<1>2. PacketEvent(p, SocketOf(p)) \in Events BY <1>1 DEF PacketEvent, Events, Arrive
<1>3. queue' \in Seq(Events) BY <1>2 DEF Arrive, IInv, ShapeInv
<1> QED BY <1>3, KeepsIInv DEF Arrive, protocol, application, IInv, ShapeInv

\* What a handler's update of one container leaves as it was.
LEMMA UpdateContainer ==
    ASSUME NEW cs \in Seq(Containers), NEW l \in 1..Len(cs), NEW c \in Containers
    PROVE  /\ [cs EXCEPT ![l] = c] \in Seq(Containers)
           /\ Len([cs EXCEPT ![l] = c]) = Len(cs)
           /\ \A k \in 1..Len(cs) : [cs EXCEPT ![l] = c][k] = IF k = l THEN c ELSE cs[k]
<1> HIDE DEF Containers
<1> QED OBVIOUS

\* A container with another state, and a fresh one with the same accept event.
LEMMA ContainerState ==
    ASSUME NEW c \in Containers, NEW st \in ConnectionStates
    PROVE  /\ [c EXCEPT !.state = st] \in Containers /\ [c EXCEPT !.state = st].state = st
           /\ Container(st, c.saved_accept_event) \in Containers
           /\ Container(st, c.saved_accept_event).state = st
BY DEF Containers

\* A container with another saved accept event.
LEMMA ContainerAccept ==
    ASSUME NEW c \in Containers, NEW call \in Nat
    PROVE  /\ [c EXCEPT !.saved_accept_event = call] \in Containers
           /\ [c EXCEPT !.saved_accept_event = call].state = c.state
BY DEF Containers

\* The event the protocol takes is one that was queued, and the others remain.
LEMMA FrontEvent == ASSUME IInv, NEW e \in Front, Dequeue
                    PROVE  e \in Events /\ queue' \in Seq(Events)
<1>1. queue \in Seq(Events) /\ queue # <<>> /\ e = Head(queue) BY DEF Front, IInv, ShapeInv
<1> QED BY <1>1 DEF Dequeue

\* A backlog of at least one that refuses a connection is not empty
\* (BackLog::push, BackLog::size).
LEMMA PushedNotEmpty == ASSUME IInv, NEW s \in Live
                        PROVE  Pushed(s) \in Seq(Int) /\ Pushed(s) # <<>>
<1>1. back_log \in Seq(Int) /\ s \in Int BY DEF IInv, ShapeInv, MapInv
<1>2. BackLogCapacity >= 1 BY ListenerAssumption
<1> QED BY <1>1, <1>2 DEF Pushed, HasRoom

\* Answering from a backlog that has a connection does not fail
\* (TCPTahoe::send_accept_response).
LEMMA AnswerFindsConnection ==
    ASSUME NEW log \in Seq(Int), log # <<>>, send_accept_response(log)
    PROVE  back_log' \in Seq(Int) /\ aborted' = aborted
<1>1. back_log' = Tail(log) /\ aborted' = aborted BY DEF send_accept_response
<1> QED BY <1>1

\* TCPTahoe::icontext_accept
LEMMA ProcessAcceptIInv == ASSUME IInv, ProcessAccept PROVE IInv'
<1>1. PICK e \in Front : ProcessAccept!(e) BY DEF ProcessAccept
<1>2. e \in Events /\ queue' \in Seq(Events) BY <1>1, FrontEvent
<1>3. e.call \in Nat BY <1>1, <1>2 DEF Events
<1>4. CASE back_log # <<>>
  <2>1. back_log' \in Seq(Int) /\ aborted' = aborted
    BY <1>1, <1>4, AnswerFindsConnection DEF IInv, ShapeInv
  <2> QED BY <1>1, <1>2, <1>4, <2>1
      DEF IInv, ShapeInv, MapInv, ContainersNotShared, PopFindsConnection, Live, Events, Clients
<1>5. CASE back_log = <<>>
  <2> DEFINE l == map[ListeningSocket]
  <2>1. l \in 1..Len(containers) BY <1>1 DEF IInv, MapInv, Listening
  <2>2. /\ containers' \in Seq(Containers) /\ Len(containers') = Len(containers)
        /\ \A c \in 1..Len(containers) : containers'[c].state = containers[c].state
    <3>1. containers \in Seq(Containers) /\ containers[l] \in Containers
      BY <2>1 DEF IInv, ShapeInv
    <3> DEFINE c == [containers[l] EXCEPT !.saved_accept_event = e.call]
    <3>2. c \in Containers /\ c.state = containers[l].state
      BY <1>3, <3>1, ContainerAccept
    <3>3. containers' = [containers EXCEPT ![l] = c] BY <1>1, <1>5
    <3> HIDE DEF c, l
    <3> QED BY <2>1, <3>1, <3>2, <3>3, UpdateContainer
  <2>3. UNCHANGED <<sockets, collection, back_log, map, aborted, accepts, second_id>> BY <1>1, <1>5
  <2>4. ShapeInv' BY <1>2, <2>2, <2>3 DEF IInv, ShapeInv, Events, Clients
  <2>5. MapInv' BY <2>2, <2>3 DEF IInv, MapInv, Live
  <2>6. ContainersNotShared'
    <3>1. \A s \in Live : map[s] \in 1..Len(containers) BY DEF IInv, MapInv
    <3>2. Live' = Live /\ map' = map /\ collection' = collection BY <2>3 DEF Live
    <3> QED BY <2>2, <2>3, <3>1, <3>2 DEF IInv, ContainersNotShared
  <2>7. PopFindsConnection' BY <2>3 DEF IInv, PopFindsConnection
  <2> QED BY <2>4, <2>5, <2>6, <2>7 DEF IInv
<1> QED BY <1>4, <1>5

\* TCPTahoe::icontext_new_connection_initiated: the new socket takes the container of
\* the listener, the listener a new one, and the other sockets keep theirs.
LEMMA SynSwap ==
    ASSUME IInv, ProcessSyn
    PROVE  LET l == map[ListeningSocket]
               new == Len(sockets) + 1
               n == Len(containers) + 1
           IN /\ ListeningSocket \in Live /\ l \in 1..Len(containers) /\ n \in Nat
              /\ Len(sockets') = new /\ new \in Nat /\ new # ListeningSocket /\ new \notin Live
              /\ containers' \in Seq(Containers) /\ Len(containers') = n
              /\ containers'[l].state = "SynReceived" /\ containers'[n].state = "Listen"
              /\ \A c \in 1..Len(containers) : c # l => containers'[c] = containers[c]
              /\ Live' = Live \cup {new} /\ map' = [t \in Live' |-> map'[t]]
              /\ map'[new] = l /\ map'[ListeningSocket] = n
              /\ \A t \in Live : t # ListeningSocket => map'[t] = map[t]
<1>1. PICK e \in Front : ProcessSyn!(e) BY DEF ProcessSyn
<1> DEFINE l == map[ListeningSocket]
           new == Len(sockets) + 1
           n == Len(containers) + 1
<1>4. Len(sockets') = new /\ new \in Nat /\ new # ListeningSocket /\ new \notin Live
  BY <1>1 DEF IInv, ShapeInv, MapInv
<1>5. l \in 1..Len(containers) /\ n \in Nat BY <1>1 DEF IInv, ShapeInv, MapInv, Listening
<1>6. /\ containers' \in Seq(Containers) /\ Len(containers') = n
      /\ containers'[l].state = "SynReceived" /\ containers'[n].state = "Listen"
      /\ \A c \in 1..Len(containers) : c # l => containers'[c] = containers[c]
  <2> DEFINE old == [containers EXCEPT ![l].state = "SynReceived"]
             fresh == [state |-> "Listen", saved_accept_event |-> containers[l].saved_accept_event]
  <2>0. containers \in Seq(Containers) /\ containers[l] \in Containers
    BY <1>5 DEF IInv, ShapeInv
  <2>1. /\ old \in Seq(Containers) /\ Len(old) = Len(containers)
        /\ old[l].state = "SynReceived"
        /\ \A c \in 1..Len(containers) : c # l => old[c] = containers[c]
    <3> DEFINE c == [containers[l] EXCEPT !.state = "SynReceived"]
    <3>1. c \in Containers /\ c.state = "SynReceived"
      BY <2>0, ContainerState DEF ConnectionStates
    <3>2. old = [containers EXCEPT ![l] = c] OBVIOUS
    <3> HIDE DEF old, c, l
    <3> QED BY <1>5, <2>0, <3>1, <3>2, UpdateContainer
  <2>2. fresh \in Containers /\ fresh.state = "Listen"
    BY <2>0, ContainerState DEF ConnectionStates
  <2>3. containers' = Append(old, fresh) BY <1>1 DEF SwapContainers
  <2> HIDE DEF old, fresh
  <2> QED BY <1>5, <2>1, <2>2, <2>3
<1>7. /\ Live' = Live \cup {new} /\ map' = [t \in Live' |-> map'[t]]
      /\ map'[new] = l /\ map'[ListeningSocket] = n
      /\ \A t \in Live : t # ListeningSocket => map'[t] = map[t]
  BY <1>1, <1>4 DEF SwapContainers, Live, Listening
<1> QED BY <1>1, <1>4, <1>5, <1>6, <1>7 DEF Listening

\* Listen::process_syn and TCPTahoe::icontext_new_connection_initiated: the new socket
\* takes a container that only the listener had, the listener one that nobody had.
LEMMA ProcessSynIInv == ASSUME IInv, ProcessSyn PROVE IInv'
<1>1. PICK e \in Front : ProcessSyn!(e) BY DEF ProcessSyn
<1>2. e \in Events /\ queue' \in Seq(Events) BY <1>1, FrontEvent
<1>3. e.client \in Clients BY <1>1, <1>2 DEF Events
<1> DEFINE l == map[ListeningSocket]
           new == Len(sockets) + 1
           n == Len(containers) + 1
<1>4. /\ sockets' \in Seq([remote : Clients, id : Nat])
      /\ Len(sockets') = new /\ new \in Nat /\ new # ListeningSocket /\ new \notin Live
  BY <1>1, <1>3 DEF IInv, ShapeInv, MapInv
<1>5. l \in 1..Len(containers) /\ n \in Nat BY SynSwap
<1>6. /\ containers' \in Seq(Containers) /\ Len(containers') = n
      /\ containers'[l].state = "SynReceived" /\ containers'[n].state = "Listen"
      /\ \A c \in 1..Len(containers) : c # l => containers'[c] = containers[c]
  BY SynSwap
<1>7. /\ Live' = Live \cup {new} /\ map' = [t \in Live' |-> map'[t]]
      /\ map'[new] = l /\ map'[ListeningSocket] = n
      /\ \A t \in Live : t # ListeningSocket => map'[t] = map[t]
  BY SynSwap
<1>8. collection' \in [Clients \cup {NoRemote} -> Int]
  BY <1>1, <1>3, <1>4 DEF push, IInv, ShapeInv
<1>9. UNCHANGED <<back_log, accepts, second_id, aborted>> BY <1>1 DEF application
<1> HIDE DEF l, new, n
<1>10. ShapeInv' BY <1>2, <1>4, <1>6, <1>8, <1>9 DEF IInv, ShapeInv, Events, Clients, Containers
<1>11. MapInv'
  <2>1. Live' \subseteq 0..Len(sockets') BY <1>4, <1>7 DEF IInv, MapInv, ShapeInv, new
  <2>2. \A s \in Live' : map'[s] \in 1..Len(containers')
    BY <1>4, <1>5, <1>6, <1>7 DEF IInv, MapInv, n
  <2> QED BY <1>7, <2>1, <2>2 DEF MapInv
<1>12. ContainersNotShared'
  <2>1. ListeningSocket \in Live /\ \A t \in Live : map[t] \in 1..Len(containers)
    BY <1>1 DEF IInv, MapInv, Listening
  <2>2. \A t \in Live : t # ListeningSocket => map'[t] = map[t] /\ map[t] # l /\ map[t] # n
    BY <1>5, <1>7, <2>1 DEF IInv, ContainersNotShared, l, n
  <2>3. l # n BY <1>5 DEF n
  <2>4. \A s, t \in Live' : map'[s] = map'[t] => s = t
    BY <1>4, <1>7, <2>2, <2>3 DEF IInv, ContainersNotShared
  <2>5. \A s \in Live' : containers'[map'[s]].state = "Listen" <=> s = ListeningSocket
    <3> SUFFICES ASSUME NEW s \in Live'
                 PROVE  containers'[map'[s]].state = "Listen" <=> s = ListeningSocket
      OBVIOUS
    <3>1. CASE s = new BY <1>4, <1>6, <1>7, <3>1
    <3>2. CASE s = ListeningSocket BY <1>6, <1>7, <3>2
    <3>3. CASE s \in Live /\ s # ListeningSocket
      <4>1. map'[s] = map[s] /\ containers'[map[s]] = containers[map[s]]
        BY <1>6, <2>1, <2>2, <3>3
      <4> QED BY <3>3, <4>1 DEF IInv, ContainersNotShared
    <3> QED BY <1>7, <3>1, <3>2, <3>3
  <2> QED BY <2>4, <2>5 DEF ContainersNotShared
<1> QED BY <1>9, <1>10, <1>11, <1>12 DEF IInv, PopFindsConnection

\* SynReceived::state_receive_packet and TCPTahoe::icontext_new_connection_established:
\* an answer to a saved accept event follows the push, so it finds a connection.
LEMMA ProcessAckIInv == ASSUME IInv, ProcessAck PROVE IInv'
<1>1. PICK e \in Front : ProcessAck!(e) BY DEF ProcessAck
<1>2. e \in Events /\ queue' \in Seq(Events) BY <1>1, FrontEvent
<1>3. e.socket \in Live BY <1>1
<1>4. back_log' \in Seq(Int) /\ aborted' = aborted
  <2>1. Pushed(e.socket) \in Seq(Int) /\ Pushed(e.socket) # <<>> BY <1>3, PushedNotEmpty
  <2>2. new_connection_established(e.socket) BY <1>1
  <2> QED BY <2>1, <2>2, AnswerFindsConnection DEF new_connection_established
<1> DEFINE l == map[e.socket]
           c == Container("Established", NoCall)
<1>5. l \in 1..Len(containers) /\ containers \in Seq(Containers)
  BY <1>3 DEF IInv, MapInv, ShapeInv
<1>6. c \in Containers /\ c.state = "Established" BY DEF Containers, ConnectionStates
<1>7. containers' = [containers EXCEPT ![l] = c] /\ containers[l].state = "SynReceived" BY <1>1
<1>8. UNCHANGED <<sockets, map, collection, accepts, second_id>> BY <1>1
<1> HIDE DEF l, c
<1>9. /\ containers' \in Seq(Containers) /\ Len(containers') = Len(containers)
      /\ \A k \in 1..Len(containers) :
            containers'[k].state = "Listen" <=> containers[k].state = "Listen"
  BY <1>5, <1>6, <1>7, UpdateContainer
<1> QED BY <1>2, <1>4, <1>8, <1>9
    DEF IInv, ShapeInv, MapInv, ContainersNotShared, PopFindsConnection, Live, Events, Clients

\* Protocol::imodule_delete_socket, whether or not one of its assertions fails.
LEMMA DeleteIInv == ASSUME IInv, NEW s \in Live, imodule_delete_socket(s) PROVE IInv'
<1>1. Live' = Live \ {s} /\ map' = [t \in Live' |-> map'[t]]
      /\ \A t \in Live' : map'[t] = map[t]
  BY DEF imodule_delete_socket, Live
<1>2. UNCHANGED <<sockets, containers, back_log, queue, accepts, second_id>>
  BY DEF imodule_delete_socket, application
<1>3. collection' \in [Clients \cup {NoRemote} -> Int]
  <2>1. collection \in [Clients \cup {NoRemote} -> Int] BY DEF IInv, ShapeInv
  <2>2. collection' = collection \/ collection' = [collection EXCEPT ![RemoteOf(s)] = NoSocket]
    BY DEF imodule_delete_socket, remove
  <2> HIDE DEF NoRemote
  <2> QED BY <2>1, <2>2
<1>4. PopFindsConnection' BY DEF imodule_delete_socket, IInv, PopFindsConnection
<1>5. ShapeInv' BY <1>2, <1>3 DEF IInv, ShapeInv, Events, Clients
<1>6. MapInv' BY <1>1, <1>2 DEF IInv, MapInv
<1>7. ContainersNotShared' BY <1>1, <1>2 DEF IInv, ContainersNotShared
<1> QED BY <1>4, <1>5, <1>6, <1>7 DEF IInv

\* Every step of the threads, the clients and the network keeps the invariant.
LEMMA NextIInv == ASSUME IInv, [Next]_vars PROVE IInv'
<1> USE DEF protocol, application
<1>0. queue \in Seq(Events) /\ accepts \in Nat /\ second_id \in Nat BY DEF IInv, ShapeInv
<1>1. CASE UNCHANGED vars BY <1>0, <1>1, KeepsIInv DEF vars
<1>2. ASSUME NEW c \in Clients, ReceiveSynAck(c) PROVE IInv'
  BY <1>0, <1>2, KeepsIInv DEF ReceiveSynAck
<1>3. ASSUME NEW p \in [kind : {"syn", "ack", "synack"}, client : Clients], Resend(p) PROVE IInv'
  BY <1>0, <1>3, KeepsIInv DEF Resend
<1>4. ASSUME NEW p \in [kind : {"syn", "ack", "synack"}, client : Clients], Arrive(p) PROVE IInv'
  BY <1>4, ArriveIInv
<1>5. CASE Accept
  <2>1. accepts' \in Nat /\ second_id' \in Nat /\ AcceptEvent(accepts') \in Events
    BY <1>0, <1>5 DEF Accept, AcceptEvent, Events
  <2>2. queue' \in Seq(Events) BY <1>0, <1>5, <2>1 DEF Accept
  <2> QED BY <1>5, <2>1, <2>2, KeepsIInv DEF Accept
<1>6. CASE ProcessAccept BY <1>6, ProcessAcceptIInv
<1>7. CASE ProcessSyn BY <1>7, ProcessSynIInv
<1>8. CASE ProcessAck BY <1>8, ProcessAckIInv
<1>9. CASE ProcessIgnored
  <2>1. PICK e \in Front : ProcessIgnored!(e) BY <1>9 DEF ProcessIgnored
  <2>2. queue' \in Seq(Events) BY <2>1, FrontEvent
  <2> QED BY <1>0, <2>1, <2>2, KeepsIInv
<1>10. ASSUME NEW s \in Live, CloseConnection(s) PROVE IInv'
  BY <1>10, DeleteIInv DEF CloseConnection
<1>11. CASE CloseListener BY <1>11, DeleteIInv DEF CloseListener, Listening
<1> QED BY <1>1, <1>2, <1>3, <1>4, <1>5, <1>6, <1>7, <1>8, <1>9, <1>10, <1>11 DEF Next

\* The invariant holds in every reachable state of the listener.
THEOREM Invariant == Spec => []IInv
BY InitIInv, NextIInv, PTL DEF Spec

\* For any number of clients, whatever the order of their SYNs, ACKs and the calls of
\* accept() and close(): no two sockets share a container, and exactly the listening
\* one waits for a SYN (TCPTahoe::icontext_new_connection_initiated).
THEOREM NeverShared == Spec => []ContainersNotShared
<1>1. IInv => ContainersNotShared BY DEF IInv
<1> QED BY <1>1, Invariant, PTL

\* For any backlog of at least one, TCPTahoe::send_accept_response never pops an
\* empty backlog, although it does not ask and the result of push() is ignored.
THEOREM NeverPopsEmpty == Spec => []PopFindsConnection
<1>1. IInv => PopFindsConnection BY DEF IInv
<1> QED BY <1>1, Invariant, PTL
-------------------------------------------------------------------------------
\* The parts of TypeOK, one for each variable or group of variables.
CallNumbers == Calls \cup {NoCall}
SocketNames == NewSockets \cup {ListeningSocket}
SocketsOK == sockets \in Seq([remote : Clients, id : CallNumbers])
ContainersOK == containers \in Seq([state : ConnectionStates, saved_accept_event : CallNumbers])
CollectionOK == collection \in [Clients \cup {NoRemote} -> SocketNames \cup {NoSocket}]
BackLogOK == back_log \in Seq(NewSockets) /\ Len(back_log) <= BackLogCapacity
QueueOK == queue \in Seq([kind : {"syn", "ack"}, client : Clients, socket : SocketNames]
                         \cup [kind : {"accept"}, call : Calls])
NetOK == /\ bound_to \in {"host", "any"}
         /\ net \subseteq [kind : {"syn", "ack", "synack"}, client : Clients]
         /\ client \in [Clients -> {"SynSent", "Established"}]
         /\ resends \in 0..MaxResends
CallsOK == /\ accepts \in 0..MaxAccepts
           /\ waiting \in {NoCall, accepts} /\ second_id = accepts
HistoryOK == /\ established \in Seq(NewSockets) /\ refused \subseteq NewSockets
             /\ answers \in Seq([call : CallNumbers, socket : NewSockets])

TypeParts == /\ SocketsOK /\ ContainersOK /\ CollectionOK /\ BackLogOK
             /\ QueueOK /\ NetOK /\ CallsOK /\ HistoryOK
             /\ aborted \in {"no", "pop", "delete_socket"}

\* TypeOK is its parts and the map's domain and range.
LEMMA TypeOfParts == IInv => (TypeOK <=> TypeParts)
<1> SUFFICES ASSUME IInv PROVE TypeOK <=> TypeParts OBVIOUS
<1>1. Live \subseteq NewSockets \cup {ListeningSocket}
  BY DEF IInv, ShapeInv, MapInv, NewSockets
<1>2. \A s \in Live : map[s] \in 1..Len(containers) BY DEF IInv, MapInv
<1>3. NewSockets \cup {ListeningSocket, NoSocket} = SocketNames \cup {NoSocket} BY DEF SocketNames
<1>4. TypeOK => TypeParts
  BY <1>3 DEF TypeOK, TypeParts, SocketsOK, ContainersOK, CollectionOK, BackLogOK, QueueOK, NetOK,
     CallsOK, HistoryOK, CallNumbers, SocketNames, ConnectionStates
<1>5. TypeParts => TypeOK
  BY <1>1, <1>2, <1>3 DEF TypeOK, TypeParts, SocketsOK, ContainersOK, CollectionOK, BackLogOK, QueueOK, NetOK,
     CallsOK, HistoryOK, CallNumbers, SocketNames, ConnectionStates
<1> QED BY <1>4, <1>5

\* Append keeps what was there.
LEMMA SeqGrows == ASSUME NEW S, NEW T, S \subseteq T, NEW q \in Seq(S) PROVE q \in Seq(T)
OBVIOUS

\* Sockets and calls are only ever added: what keeps its value keeps its type.
LEMMA Persists ==
    ASSUME IInv, TypeParts, IInv', Len(sockets) <= Len(sockets'), accepts <= accepts'
    PROVE  /\ sockets' = sockets => SocketsOK'
           /\ containers' = containers => ContainersOK'
           /\ collection' = collection => CollectionOK'
           /\ back_log' = back_log => BackLogOK'
           /\ queue' = queue => QueueOK'
           /\ UNCHANGED <<established, refused, answers>> => HistoryOK'
           /\ NewSockets \subseteq NewSockets' /\ SocketNames \subseteq SocketNames'
           /\ Calls \subseteq Calls' /\ CallNumbers \subseteq CallNumbers'
<1>1. NewSockets \subseteq NewSockets' /\ SocketNames \subseteq SocketNames'
  BY DEF IInv, ShapeInv, NewSockets, SocketNames
<1>2. Calls \subseteq Calls' /\ CallNumbers \subseteq CallNumbers'
  BY DEF IInv, ShapeInv, Calls, CallNumbers
<1>3. ASSUME sockets' = sockets PROVE SocketsOK'
  <2>1. [remote : Clients, id : CallNumbers] \subseteq [remote : Clients, id : CallNumbers'] BY <1>2
  <2> QED BY <1>3, <2>1, SeqGrows DEF TypeParts, SocketsOK, Clients
<1>4. ASSUME containers' = containers PROVE ContainersOK'
  <2>1. [state : ConnectionStates, saved_accept_event : CallNumbers]
          \subseteq [state : ConnectionStates, saved_accept_event : CallNumbers'] BY <1>2
  <2> QED BY <1>4, <2>1, SeqGrows DEF TypeParts, ContainersOK, ConnectionStates
<1>5. ASSUME collection' = collection PROVE CollectionOK'
  BY <1>1, <1>5 DEF TypeParts, CollectionOK, Clients
<1>6. ASSUME back_log' = back_log PROVE BackLogOK'
  BY <1>1, <1>6, SeqGrows DEF TypeParts, BackLogOK
<1>7. ASSUME queue' = queue PROVE QueueOK'
  <2>1. [kind : {"syn", "ack"}, client : Clients, socket : SocketNames]
            \cup [kind : {"accept"}, call : Calls]
          \subseteq [kind : {"syn", "ack"}, client : Clients, socket : SocketNames']
            \cup [kind : {"accept"}, call : Calls'] BY <1>1, <1>2
  <2> QED BY <1>7, <2>1, SeqGrows DEF TypeParts, QueueOK, Clients
<1>8. ASSUME UNCHANGED <<established, refused, answers>> PROVE HistoryOK'
  <2>1. [call : CallNumbers, socket : NewSockets] \subseteq [call : CallNumbers', socket : NewSockets']
    BY <1>1, <1>2
  <2>2. answers' \in Seq([call : CallNumbers', socket : NewSockets'])
    BY <1>8, <2>1, SeqGrows DEF TypeParts, HistoryOK
  <2>3. established' \in Seq(NewSockets') BY <1>1, <1>8, SeqGrows DEF TypeParts, HistoryOK
  <2> QED BY <1>1, <1>8, <2>2, <2>3 DEF TypeParts, HistoryOK
<1> QED BY <1>1, <1>2, <1>3, <1>4, <1>5, <1>6, <1>7, <1>8

\* A packet is queued for a socket that was created
\* (NetworkInterface::imodule_network_receive).
LEMMA ArriveType ==
    ASSUME IInv, TypeParts, NEW p \in [kind : {"syn", "ack", "synack"}, client : Clients],
           Arrive(p), IInv'
    PROVE  TypeParts'
<1>1. SocketOf(p) \in SocketNames \cup {NoSocket}
  <2>1. \A keys \in SUBSET (Clients \cup {NoRemote}) :
            First(collection, keys) \in SocketNames \cup {NoSocket}
    BY FirstKey DEF First, TypeParts, CollectionOK
  <2> QED BY <2>1 DEF SocketOf, get_by_local_ap, get_by_local_and_remote_ap, Keys, TypeParts,
                      CollectionOK
<1>2. UNCHANGED <<bound_to, protocol, application, history, client, resends, aborted>>
  BY DEF Arrive
<1>3. Len(sockets) <= Len(sockets') /\ accepts <= accepts'
  BY <1>2 DEF protocol, application, IInv, ShapeInv
<1>4. SocketNames' = SocketNames /\ Calls' = Calls
  BY <1>2 DEF SocketNames, NewSockets, Calls, protocol, application
<1>5. QueueOK'
  <2>1. CASE SocketOf(p) = NoSocket BY <1>4, <2>1 DEF Arrive, TypeParts, QueueOK, Clients
  <2>2. CASE SocketOf(p) # NoSocket
    <3>1. PacketEvent(p, SocketOf(p)) \in [kind : {"syn", "ack"}, client : Clients, socket : SocketNames]
      BY <1>1, <2>2 DEF PacketEvent, Arrive
    <3> QED BY <1>4, <2>2, <3>1 DEF Arrive, TypeParts, QueueOK, Clients
  <2> QED BY <2>1, <2>2
<1>6. NetOK' BY <1>2 DEF Arrive, TypeParts, NetOK, Clients
<1>7. CallsOK' BY <1>2 DEF application, TypeParts, CallsOK
<1> QED BY <1>2, <1>3, <1>5, <1>6, <1>7, Persists DEF protocol, history, TypeParts

\* The clients and their timers change packets and clients alone.
LEMMA ClientType ==
    ASSUME IInv, TypeParts, NEW c \in Clients,
           NEW p \in [kind : {"syn", "ack", "synack"}, client : Clients],
           ReceiveSynAck(c) \/ Resend(p), IInv'
    PROVE  TypeParts'
<1>2. UNCHANGED <<bound_to, protocol, application, history, queue, aborted>>
  BY DEF ReceiveSynAck, Resend
<1>3. Len(sockets) <= Len(sockets') /\ accepts <= accepts'
  BY <1>2 DEF protocol, application, IInv, ShapeInv
<1>4. NetOK'
  <2>1. CASE ReceiveSynAck(c) BY <1>2, <2>1 DEF ReceiveSynAck, TypeParts, NetOK, Clients
  <2>2. CASE Resend(p)
    BY <1>2, <2>2, ListenerAssumption DEF Resend, TypeParts, NetOK, Clients
  <2> QED BY <2>1, <2>2
<1>5. CallsOK' BY <1>2 DEF application, TypeParts, CallsOK
<1> QED BY <1>2, <1>3, <1>4, <1>5, Persists DEF protocol, history, TypeParts

\* The translator's part of accept().
LEMMA AcceptType == ASSUME IInv, TypeParts, Accept, IInv' PROVE TypeParts'
<1>1. UNCHANGED <<bound_to, protocol, history, net, client, resends, aborted>> BY DEF Accept
<1>2. Len(sockets) <= Len(sockets') /\ accepts <= accepts'
  BY <1>1 DEF protocol, Accept, IInv, ShapeInv
<1>3. CallsOK' BY ListenerAssumption DEF Accept, TypeParts, CallsOK
<1>4. NetOK' BY <1>1 DEF TypeParts, NetOK, Clients
<1>5. QueueOK'
  <2>1. AcceptEvent(accepts') \in [kind : {"accept"}, call : Calls']
    BY <1>3 DEF AcceptEvent, Calls, Accept, IInv, ShapeInv
  <2> DEFINE Ev == [kind : {"syn", "ack"}, client : Clients, socket : SocketNames']
                   \cup [kind : {"accept"}, call : Calls']
  <2>2. queue \in Seq(Ev)
    <3>1. [kind : {"syn", "ack"}, client : Clients, socket : SocketNames]
            \cup [kind : {"accept"}, call : Calls] \subseteq Ev
      BY <1>2, Persists
    <3> QED BY <3>1, SeqGrows DEF TypeParts, QueueOK
  <2>3. AcceptEvent(accepts') \in Ev BY <2>1
  <2>4. queue' = Append(queue, AcceptEvent(accepts')) BY DEF Accept
  <2>5. queue' \in Seq(Ev)
    <3> HIDE DEF Ev
    <3> QED BY <2>2, <2>3, <2>4
  <2> QED BY <2>5 DEF QueueOK, Clients
<1> QED BY <1>1, <1>2, <1>3, <1>4, <1>5, Persists DEF protocol, history, TypeParts

\* The event the protocol takes has its type, and so have those that remain.
LEMMA FrontType ==
    ASSUME IInv, TypeParts, NEW e \in Front, Dequeue,
           Len(sockets) <= Len(sockets'), accepts' = accepts, IInv'
    PROVE  /\ QueueOK'
           /\ e.kind = "accept" => e.call \in Calls
           /\ e.kind # "accept" => e.client \in Clients /\ e.socket \in SocketNames
<1> DEFINE Ev(names) == [kind : {"syn", "ack"}, client : Clients, socket : names]
                        \cup [kind : {"accept"}, call : Calls]
<1>1. queue \in Seq(Ev(SocketNames)) BY DEF TypeParts, QueueOK
<1>2. queue # <<>> /\ e = Head(queue) /\ queue' = Tail(queue) BY DEF Front, Dequeue
<1>3. e \in Ev(SocketNames) /\ queue' \in Seq(Ev(SocketNames))
  <2> HIDE DEF Ev
  <2> QED BY <1>1, <1>2
<1>4. SocketNames \subseteq SocketNames' BY DEF SocketNames, NewSockets, IInv, ShapeInv
<1>5. Ev(SocketNames) \subseteq Ev(SocketNames') BY <1>4
<1>6. queue' \in Seq(Ev(SocketNames'))
  <2> HIDE DEF Ev
  <2> QED BY <1>3, <1>5, SeqGrows
<1>7. QueueOK' BY <1>6 DEF QueueOK, Calls, Clients
<1> QED BY <1>3, <1>7

\* What an answer to accept() does to the backlog and the application
\* (TCPTahoe::send_accept_response).
LEMMA AnswerType ==
    ASSUME IInv, TypeParts, NEW log \in Seq(NewSockets), Len(log) <= BackLogCapacity,
           send_accept_response(log), log # <<>>
    PROVE  /\ back_log' \in Seq(NewSockets) /\ Len(back_log') <= BackLogCapacity
           /\ answers' \in Seq([call : CallNumbers, socket : NewSockets])
           /\ waiting' \in {NoCall, accepts} /\ aborted' = aborted
<1>1. /\ back_log' = Tail(log)
      /\ answers' = Append(answers, [call |-> waiting, socket |-> Head(log)])
      /\ waiting' = NoCall
      /\ aborted' = aborted
  BY DEF send_accept_response, Answer
<1>2. Tail(log) \in Seq(NewSockets) /\ Len(Tail(log)) = Len(log) - 1 /\ Head(log) \in NewSockets
  OBVIOUS
<1>3. [call |-> waiting, socket |-> Head(log)] \in [call : CallNumbers, socket : NewSockets]
  <2>1. waiting \in CallNumbers BY DEF IInv, ShapeInv, TypeParts, CallsOK, CallNumbers, Calls, NoCall
  <2> QED BY <1>2, <2>1
<1>4. answers' \in Seq([call : CallNumbers, socket : NewSockets])
  BY <1>1, <1>3 DEF TypeParts, HistoryOK
<1>5. Len(back_log') <= BackLogCapacity BY <1>1, <1>2, ListenerAssumption
<1>6. waiting' \in {NoCall, accepts} BY <1>1
<1> QED BY <1>1, <1>2, <1>4, <1>5, <1>6

\* A change of one container of the list keeps its type.
LEMMA UpdateType ==
    ASSUME NEW S, NEW cs \in Seq(S), NEW l \in 1..Len(cs), NEW c \in S
    PROVE  [cs EXCEPT ![l] = c] \in Seq(S)
OBVIOUS

\* TCPTahoe::icontext_accept
LEMMA ProcessAcceptType == ASSUME IInv, TypeParts, ProcessAccept, IInv' PROVE TypeParts'
<1>1. PICK e \in Front : ProcessAccept!(e) BY DEF ProcessAccept
<1>2. UNCHANGED <<bound_to, sockets, map, collection, accepts, second_id, established,
                  refused, net, client, resends>>
  BY <1>1
<1>3. Len(sockets) <= Len(sockets') /\ accepts <= accepts' BY <1>2 DEF IInv, ShapeInv
<1>4. SocketNames' = SocketNames /\ NewSockets' = NewSockets /\ Calls' = Calls
      /\ CallNumbers' = CallNumbers
  BY <1>2 DEF SocketNames, NewSockets, Calls, CallNumbers
<1>5. QueueOK' /\ e.call \in Calls BY <1>1, <1>2, <1>3, FrontType
<1>6. NetOK' BY <1>2 DEF TypeParts, NetOK, Clients
<1>7. CASE back_log # <<>>
  <2>1. send_accept_response(back_log) /\ containers' = containers BY <1>1, <1>7
  <2>2. /\ back_log' \in Seq(NewSockets) /\ Len(back_log') <= BackLogCapacity
        /\ answers' \in Seq([call : CallNumbers, socket : NewSockets])
        /\ waiting' \in {NoCall, accepts} /\ aborted' = aborted
    BY <1>5, <1>7, <2>1, AnswerType DEF TypeParts, BackLogOK
  <2>3. BackLogOK' BY <1>4, <2>2 DEF BackLogOK
  <2>4. CallsOK' BY <1>2, <2>2 DEF TypeParts, CallsOK
  <2>5. HistoryOK' BY <1>2, <1>4, <2>2 DEF TypeParts, HistoryOK
  <2> QED BY <1>2, <1>3, <1>5, <1>6, <2>1, <2>2, <2>3, <2>4, <2>5, Persists DEF TypeParts
<1>8. CASE back_log = <<>>
  <2>1. UNCHANGED <<back_log, answers, waiting, aborted>> BY <1>1, <1>8
  <2> DEFINE l == map[ListeningSocket]
             C == [state : ConnectionStates, saved_accept_event : CallNumbers]
             c == [containers[l] EXCEPT !.saved_accept_event = e.call]
  <2>2. containers' = [containers EXCEPT ![l] = c] BY <1>1, <1>8
  <2>3. l \in 1..Len(containers) BY <1>1 DEF IInv, MapInv, Listening
  <2>4. containers \in Seq(C) BY DEF TypeParts, ContainersOK
  <2>5. containers[l] \in C
    <3> HIDE DEF C, l
    <3> QED BY <2>3, <2>4
  <2>6. c \in C BY <1>5, <2>5 DEF CallNumbers
  <2>7. containers' \in Seq(C)
    <3> HIDE DEF C, l, c
    <3> QED BY <2>2, <2>3, <2>4, <2>6, UpdateType
  <2>8. ContainersOK' BY <1>4, <2>7 DEF ContainersOK, ConnectionStates
  <2>9. CallsOK' BY <1>2, <2>1 DEF TypeParts, CallsOK
  <2> QED BY <1>2, <1>3, <1>5, <1>6, <2>1, <2>8, <2>9, Persists DEF TypeParts
<1> QED BY <1>7, <1>8

\* Listen::process_syn and TCPTahoe::icontext_new_connection_initiated
LEMMA ProcessSynType == ASSUME IInv, TypeParts, ProcessSyn, IInv' PROVE TypeParts'
<1>1. PICK e \in Front : ProcessSyn!(e) BY DEF ProcessSyn
<1>2. UNCHANGED <<bound_to, back_log, application, history, client, resends, aborted>> BY <1>1
<1>3. sockets' = Append(sockets, [remote |-> e.client, id |-> second_id]) BY <1>1
<1>4. Len(sockets') = Len(sockets) + 1 /\ Len(sockets) \in Nat BY <1>3 DEF IInv, ShapeInv
<1>5. Len(sockets) <= Len(sockets') /\ accepts' = accepts
  BY <1>2, <1>4 DEF application
<1>6. QueueOK' /\ e.client \in Clients BY <1>1, <1>5, FrontType
<1>7. Calls' = Calls /\ CallNumbers' = CallNumbers BY <1>5 DEF Calls, CallNumbers
<1>8. SocketsOK'
  <2>1. second_id \in CallNumbers BY DEF TypeParts, CallsOK, CallNumbers, Calls, IInv, ShapeInv
  <2>2. [remote |-> e.client, id |-> second_id] \in [remote : Clients, id : CallNumbers]
    BY <1>6, <2>1
  <2> QED BY <1>3, <1>7, <2>2 DEF TypeParts, SocketsOK, Clients
<1>9. CollectionOK'
  <2>1. collection' = [collection EXCEPT ![e.client] = Len(sockets')] BY <1>1 DEF push
  <2>2. Len(sockets') \in SocketNames' BY <1>4 DEF SocketNames, NewSockets
  <2>3. SocketNames \subseteq SocketNames' BY <1>4 DEF SocketNames, NewSockets
  <2> QED BY <1>6, <2>1, <2>2, <2>3 DEF TypeParts, CollectionOK, Clients
<1>10. ContainersOK'
  <2> DEFINE l == map[ListeningSocket]
             C == [state : ConnectionStates, saved_accept_event : CallNumbers]
             c == [containers[l] EXCEPT !.state = "SynReceived"]
             old == [containers EXCEPT ![l] = c]
             fresh == Container("Listen", containers[l].saved_accept_event)
  <2>1. containers' = Append(old, fresh) BY <1>1 DEF SwapContainers
  <2>2. l \in 1..Len(containers) BY <1>1 DEF IInv, MapInv, Listening
  <2>3. containers \in Seq(C) BY DEF TypeParts, ContainersOK
  <2>4. containers[l] \in C
    <3> HIDE DEF C, l
    <3> QED BY <2>2, <2>3
  <2>5. c \in C /\ fresh \in C BY <2>4 DEF ConnectionStates
  <2>6. containers' \in Seq(C)
    <3>1. old \in Seq(C)
      <4> HIDE DEF C, l, c
      <4> QED BY <2>2, <2>3, <2>5, UpdateType
    <3> HIDE DEF C, fresh, old
    <3> QED BY <2>1, <2>5, <3>1
  <2> QED BY <1>7, <2>6 DEF ContainersOK, ConnectionStates
<1>11. NetOK'
  <2>1. Packet("synack", e.client) \in [kind : {"syn", "ack", "synack"}, client : Clients] BY <1>6
  <2> QED BY <1>1, <1>2, <2>1 DEF TypeParts, NetOK, Clients
<1>12. CallsOK' BY <1>2 DEF TypeParts, CallsOK, application
<1> QED BY <1>2, <1>5, <1>6, <1>8, <1>9, <1>10, <1>11, <1>12, Persists
        DEF TypeParts, history, IInv, ShapeInv

\* The socket of an ACK that establishes a connection is not the listener
\* (SynReceived::state_receive_packet).
LEMMA AckSocket ==
    ASSUME IInv, TypeParts, NEW s \in Live, containers[map[s]].state = "SynReceived"
    PROVE  s \in NewSockets /\ s # ListeningSocket
<1>1. s # ListeningSocket BY DEF IInv, ContainersNotShared
<1>2. s \in 0..Len(sockets) BY DEF IInv, MapInv
<1> QED BY <1>1, <1>2 DEF NewSockets, IInv, ShapeInv

\* BackLog::push keeps to the capacity.
LEMMA PushedType ==
    ASSUME IInv, TypeParts, NEW s \in NewSockets
    PROVE  Pushed(s) \in Seq(NewSockets) /\ Len(Pushed(s)) <= BackLogCapacity
BY DEF Pushed, HasRoom, TypeParts, BackLogOK

\* SynReceived::state_receive_packet and TCPTahoe::icontext_new_connection_established
LEMMA ProcessAckType == ASSUME IInv, TypeParts, ProcessAck, IInv' PROVE TypeParts'
<1>1. PICK e \in Front : ProcessAck!(e) BY DEF ProcessAck
<1>2. UNCHANGED <<bound_to, sockets, map, collection, accepts, second_id, net, client, resends>>
  BY <1>1
<1>3. Len(sockets) <= Len(sockets') /\ accepts <= accepts' BY <1>2 DEF IInv, ShapeInv
<1>4. SocketNames' = SocketNames /\ NewSockets' = NewSockets /\ Calls' = Calls
      /\ CallNumbers' = CallNumbers
  BY <1>2 DEF SocketNames, NewSockets, Calls, CallNumbers
<1>5. QueueOK' BY <1>1, <1>2, <1>3, FrontType
<1>6. NetOK' BY <1>2 DEF TypeParts, NetOK, Clients
<1>7. e.socket \in Live /\ e.socket \in NewSockets BY <1>1, AckSocket
<1> DEFINE l == map[e.socket]
           C == [state : ConnectionStates, saved_accept_event : CallNumbers]
           c == Container("Established", NoCall)
<1>8. l \in 1..Len(containers) /\ containers \in Seq(C)
  BY <1>7 DEF IInv, MapInv, TypeParts, ContainersOK
<1>9. containers[l] \in C
  <2> HIDE DEF C, l
  <2> QED BY <1>8
<1>10. ContainersOK'
  <2>1. containers' = [containers EXCEPT ![l] = c] BY <1>1
  <2>2. c \in C BY DEF ConnectionStates, CallNumbers
  <2>3. containers' \in Seq(C)
    <3> HIDE DEF C, l, c
    <3> QED BY <1>8, <2>1, <2>2, UpdateType
  <2> QED BY <1>4, <2>3 DEF ContainersOK, ConnectionStates
<1>11. /\ back_log' \in Seq(NewSockets) /\ Len(back_log') <= BackLogCapacity
       /\ answers' \in Seq([call : CallNumbers, socket : NewSockets])
       /\ waiting' \in {NoCall, accepts} /\ aborted' = aborted
  <2>1. Pushed(e.socket) \in Seq(NewSockets) /\ Len(Pushed(e.socket)) <= BackLogCapacity
    BY <1>7, PushedType
  <2>2. Pushed(e.socket) # <<>> BY <1>7, PushedNotEmpty
  <2>3. new_connection_established(e.socket) BY <1>1
  <2>4. CASE containers[l].saved_accept_event # NoCall
    <3>1. send_accept_response(Pushed(e.socket))
      BY <2>3, <2>4 DEF new_connection_established
    <3> QED BY <2>1, <2>2, <3>1, AnswerType
  <2>5. CASE containers[l].saved_accept_event = NoCall
    <3>1. back_log' = Pushed(e.socket) /\ UNCHANGED <<answers, waiting, aborted>>
      BY <2>3, <2>5 DEF new_connection_established
    <3> QED BY <2>1, <3>1 DEF TypeParts, HistoryOK, CallsOK
  <2> QED BY <2>4, <2>5
<1>12. BackLogOK' BY <1>4, <1>11 DEF BackLogOK
<1>13. CallsOK' BY <1>2, <1>11 DEF TypeParts, CallsOK
<1>14. HistoryOK'
  <2>1. established' \in Seq(NewSockets) BY <1>1, <1>7 DEF TypeParts, HistoryOK
  <2>2. refused' \subseteq NewSockets BY <1>1, <1>7 DEF TypeParts, HistoryOK
  <2> QED BY <1>4, <1>11, <2>1, <2>2 DEF HistoryOK
<1> QED BY <1>2, <1>3, <1>5, <1>6, <1>10, <1>11, <1>12, <1>13, <1>14, Persists DEF TypeParts

\* Protocol::imodule_delete_socket
LEMMA DeleteType == ASSUME IInv, TypeParts, NEW s \in Live, imodule_delete_socket(s), IInv'
                    PROVE  TypeParts'
<1>1. UNCHANGED <<bound_to, sockets, containers, back_log, application, history, queue, net,
                  client, resends>>
  BY DEF imodule_delete_socket
<1>2. Len(sockets) <= Len(sockets') /\ accepts <= accepts'
  BY <1>1 DEF application, IInv, ShapeInv
<1>3. SocketNames' = SocketNames BY <1>1 DEF SocketNames, NewSockets
<1>4. CollectionOK'
  <2>1. collection \in [Clients \cup {NoRemote} -> SocketNames \cup {NoSocket}]
    BY DEF TypeParts, CollectionOK
  <2>2. collection' = collection \/ collection' = [collection EXCEPT ![RemoteOf(s)] = NoSocket]
    BY DEF imodule_delete_socket, remove
  <2>3. collection' \in [Clients \cup {NoRemote} -> SocketNames \cup {NoSocket}]
    <3> HIDE DEF NoRemote, NoSocket
    <3> QED BY <2>1, <2>2
  <2> QED BY <1>3, <2>3 DEF CollectionOK, Clients
<1>5. aborted' \in {"no", "pop", "delete_socket"} BY DEF imodule_delete_socket, TypeParts
<1>6. NetOK' BY <1>1 DEF TypeParts, NetOK, Clients
<1>7. CallsOK' BY <1>1 DEF TypeParts, CallsOK, application
<1> QED BY <1>1, <1>2, <1>4, <1>5, <1>6, <1>7, Persists DEF TypeParts, history

\* Every step keeps the types.
LEMMA NextType == ASSUME IInv, TypeParts, [Next]_vars, IInv' PROVE TypeParts'
<1>1. CASE UNCHANGED vars
  <2>1. Len(sockets) <= Len(sockets') /\ accepts <= accepts'
    BY <1>1 DEF vars, protocol, application, IInv, ShapeInv
  <2>2. NetOK' /\ CallsOK' BY <1>1 DEF vars, application, TypeParts, NetOK, CallsOK, Clients
  <2> QED BY <1>1, <2>1, <2>2, Persists DEF vars, protocol, history, TypeParts
<1>2. ASSUME NEW c \in Clients, ReceiveSynAck(c) PROVE TypeParts'
  <2>1. Packet("syn", c) \in [kind : {"syn", "ack", "synack"}, client : Clients] OBVIOUS
  <2> QED BY <1>2, <2>1, ClientType
<1>3. ASSUME NEW p \in [kind : {"syn", "ack", "synack"}, client : Clients], Resend(p)
      PROVE  TypeParts'
  <2>1. p.client \in Clients OBVIOUS
  <2> QED BY <1>3, <2>1, ClientType
<1>4. ASSUME NEW p \in [kind : {"syn", "ack", "synack"}, client : Clients], Arrive(p)
      PROVE  TypeParts'
  BY <1>4, ArriveType
<1>5. CASE Accept BY <1>5, AcceptType
<1>6. CASE ProcessAccept BY <1>6, ProcessAcceptType
<1>7. CASE ProcessSyn BY <1>7, ProcessSynType
<1>8. CASE ProcessAck BY <1>8, ProcessAckType
<1>9. CASE ProcessIgnored
  <2>1. PICK e \in Front : ProcessIgnored!(e) BY <1>9 DEF ProcessIgnored
  <2>2. UNCHANGED <<bound_to, protocol, application, history, net, client, resends, aborted>>
    BY <2>1
  <2>3. Len(sockets) <= Len(sockets') /\ accepts' = accepts /\ accepts <= accepts'
    BY <2>2 DEF protocol, application, IInv, ShapeInv
  <2>4. QueueOK' BY <2>1, <2>3, FrontType
  <2>5. NetOK' /\ CallsOK' BY <2>2 DEF application, TypeParts, NetOK, CallsOK, Clients
  <2> QED BY <2>2, <2>3, <2>4, <2>5, Persists DEF protocol, history, TypeParts
<1>10. ASSUME NEW s \in Live, CloseConnection(s) PROVE TypeParts'
  BY <1>10, DeleteType DEF CloseConnection
<1>11. CASE CloseListener BY <1>11, DeleteType DEF CloseListener, Listening
<1> QED BY <1>1, <1>2, <1>3, <1>4, <1>5, <1>6, <1>7, <1>8, <1>9, <1>10, <1>11 DEF Next

\* The initial state has the types.
LEMMA InitType == ASSUME Init, IInv PROVE TypeParts
<1>1. NetOK
  <2>1. {Packet("syn", c) : c \in Clients} \subseteq [kind : {"syn", "ack", "synack"}, client : Clients]
    OBVIOUS
  <2> QED BY <2>1, ListenerAssumption DEF Init, NetOK
<1>2. ContainersOK BY DEF Init, ContainersOK, ConnectionStates, CallNumbers
<1>3. CollectionOK BY DEF Init, CollectionOK, SocketNames
<1>4. BackLogOK BY ListenerAssumption DEF Init, BackLogOK
<1>5. CallsOK BY ListenerAssumption DEF Init, CallsOK
<1>6. SocketsOK /\ QueueOK /\ HistoryOK BY DEF Init, SocketsOK, QueueOK, HistoryOK
<1> QED BY <1>1, <1>2, <1>3, <1>4, <1>5, <1>6 DEF Init, TypeParts

TypedInv == IInv /\ TypeParts

\* The types and the invariant of the containers hold together.
LEMMA TypedInvariant == Spec => []TypedInv
<1>1. Init => TypedInv BY InitIInv, InitType DEF TypedInv
<1>2. TypedInv /\ [Next]_vars => TypedInv' BY NextIInv, NextType DEF TypedInv
<1> QED BY <1>1, <1>2, PTL DEF Spec

\* The types of the listener's tables, queues and histories, for any number of
\* clients: every packet in the queue names a socket that was created, and the
\* backlog never holds more than listen() asked for (BackLog::push).
THEOREM ListenerTypes == Spec => []TypeOK
<1>1. TypedInv => TypeOK BY TypeOfParts DEF TypedInv
<1> QED BY <1>1, TypedInvariant, PTL

-------------------------------------------------------------------------------
\* The order in which connections are handed out.
Members(q) == {q[i] : i \in DOMAIN q}

\* h lists the members of est that are not in ref, in the order they have there.
InOrder(h, est, ref) ==
    /\ Members(h) = Members(est) \ ref
    /\ \A i, j \in DOMAIN h, k, l \in DOMAIN est :
          i < j /\ h[i] = est[k] /\ h[j] = est[l] => k < l

\* A connection is established once: from then on its container is past SynReceived.
OnceInv ==
    /\ \A k \in DOMAIN established :
          established[k] \in Live => containers[map[established[k]]].state = "Established"
    /\ refused \subseteq Members(established)

OrderInv == OnceInv /\ FirstComeFirstServed

\* What a longer queue holds.
LEMMA AppendMembers ==
    ASSUME NEW S, NEW q \in Seq(S), NEW s \in S
    PROVE  /\ Members(Append(q, s)) = Members(q) \cup {s}
           /\ DOMAIN Append(q, s) = DOMAIN q \cup {Len(q) + 1}
           /\ \A i \in DOMAIN q : Append(q, s)[i] = q[i] /\ i <= Len(q) /\ i \in Nat
           /\ Append(q, s)[Len(q) + 1] = s /\ Len(q) \in Nat
<1>1. /\ DOMAIN Append(q, s) = DOMAIN q \cup {Len(q) + 1}
      /\ \A i \in DOMAIN q : Append(q, s)[i] = q[i] /\ i <= Len(q) /\ i \in Nat
      /\ Append(q, s)[Len(q) + 1] = s /\ Len(q) \in Nat
  OBVIOUS
<1>2. Members(Append(q, s)) = Members(q) \cup {s}
  BY <1>1 DEF Members
<1> QED BY <1>1, <1>2

\* A new connection that the backlog takes goes behind all the others.
LEMMA TakenInOrder ==
    ASSUME NEW S, NEW h \in Seq(S), NEW est \in Seq(S), NEW ref \in SUBSET Members(est),
           NEW s \in S, s \notin Members(est), InOrder(h, est, ref)
    PROVE  InOrder(Append(h, s), Append(est, s), ref)
<1>1. /\ DOMAIN Append(h, s) = DOMAIN h \cup {Len(h) + 1}
      /\ \A i \in DOMAIN h : Append(h, s)[i] = h[i] /\ i <= Len(h) /\ i \in Nat
      /\ Append(h, s)[Len(h) + 1] = s /\ Len(h) \in Nat
      /\ Members(Append(h, s)) = Members(h) \cup {s}
  BY AppendMembers
<1>2. /\ DOMAIN Append(est, s) = DOMAIN est \cup {Len(est) + 1}
      /\ \A i \in DOMAIN est : Append(est, s)[i] = est[i] /\ i <= Len(est) /\ i \in Nat
      /\ Append(est, s)[Len(est) + 1] = s /\ Len(est) \in Nat
      /\ Members(Append(est, s)) = Members(est) \cup {s}
  BY AppendMembers
<1>3. Members(h) \subseteq Members(est) BY DEF InOrder
<1>4. Members(Append(h, s)) = Members(Append(est, s)) \ ref BY <1>1, <1>2 DEF InOrder
<1>5. (\A i \in DOMAIN h : h[i] # s) /\ \A k \in DOMAIN est : est[k] # s
  BY <1>3 DEF Members
<1>6. ASSUME NEW i \in DOMAIN Append(h, s), NEW j \in DOMAIN Append(h, s),
             NEW k \in DOMAIN Append(est, s), NEW l \in DOMAIN Append(est, s),
             i < j, Append(h, s)[i] = Append(est, s)[k], Append(h, s)[j] = Append(est, s)[l]
      PROVE  k < l
  <2>1. i \in DOMAIN h BY <1>1, <1>6
  <2>2. k \in DOMAIN est BY <1>1, <1>2, <1>5, <1>6, <2>1
  <2>3. CASE j = Len(h) + 1
    <3>1. l = Len(est) + 1 BY <1>1, <1>2, <1>5, <1>6, <2>3
    <3> QED BY <1>2, <2>2, <3>1
  <2>4. CASE j \in DOMAIN h
    <3>1. l \in DOMAIN est BY <1>1, <1>2, <1>5, <1>6, <2>4
    <3> QED BY <1>1, <1>2, <1>6, <2>1, <2>2, <2>4, <3>1 DEF InOrder
  <2> QED BY <1>1, <2>3, <2>4
<1> QED BY <1>4, <1>6 DEF InOrder

\* A new connection that the backlog refuses changes nothing for the others.
LEMMA RefusedInOrder ==
    ASSUME NEW S, NEW h \in Seq(S), NEW est \in Seq(S), NEW ref \in SUBSET Members(est),
           NEW s \in S, s \notin Members(est), InOrder(h, est, ref)
    PROVE  InOrder(h, Append(est, s), ref \cup {s})
<1>1. /\ DOMAIN Append(est, s) = DOMAIN est \cup {Len(est) + 1}
      /\ \A i \in DOMAIN est : Append(est, s)[i] = est[i]
      /\ Append(est, s)[Len(est) + 1] = s
      /\ Members(Append(est, s)) = Members(est) \cup {s}
  BY AppendMembers
<1>2. Members(h) = Members(Append(est, s)) \ (ref \cup {s}) BY <1>1 DEF InOrder
<1>3. \A i \in DOMAIN h : h[i] # s BY DEF InOrder, Members
<1>4. ASSUME NEW i \in DOMAIN h, NEW j \in DOMAIN h,
             NEW k \in DOMAIN Append(est, s), NEW l \in DOMAIN Append(est, s),
             i < j, h[i] = Append(est, s)[k], h[j] = Append(est, s)[l]
      PROVE  k < l
  <2>1. k \in DOMAIN est /\ l \in DOMAIN est BY <1>1, <1>3, <1>4
  <2> QED BY <1>1, <1>4, <2>1 DEF InOrder
<1> QED BY <1>2, <1>4 DEF InOrder

\* The oldest connection of the backlog is the next one handed out
\* (TCPTahoe::send_accept_response).
LEMMA AnswerInOrder ==
    ASSUME TypeParts, NEW log \in Seq(NewSockets), log # <<>>, send_accept_response(log)
    PROVE  HandedOut' = [i \in DOMAIN answers |-> answers[i].socket] \o log
<1> DEFINE A == [i \in DOMAIN answers |-> answers[i].socket]
           R == [call : CallNumbers, socket : NewSockets]
           r == [call |-> waiting, socket |-> Head(log)]
<1>1. back_log' = Tail(log) /\ answers' = Append(answers, r)
  BY DEF send_accept_response, Answer
<1>2. answers \in Seq(R) BY DEF TypeParts, HistoryOK
<1>3. A \in Seq(NewSockets) /\ Len(A) = Len(answers)
  <2>1. \A i \in 1..Len(answers) : answers[i].socket \in NewSockets
    <3>1. \A i \in 1..Len(answers) : answers[i] \in R
      <4> HIDE DEF R
      <4> QED BY <1>2
    <3> QED BY <3>1
  <2>2. DOMAIN answers = 1..Len(answers) /\ Len(answers) \in Nat
    <3> HIDE DEF R
    <3> QED BY <1>2
  <2> QED BY <2>1, <2>2
<1>4. [i \in DOMAIN answers' |-> answers'[i].socket] = Append(A, Head(log))
  <2>1. /\ DOMAIN answers' = 1..(Len(answers) + 1) /\ answers'[Len(answers) + 1] = r
        /\ \A i \in 1..Len(answers) : answers'[i] = answers[i]
        /\ DOMAIN answers = 1..Len(answers) /\ Len(answers) \in Nat
    <3> HIDE DEF R, r
    <3> QED BY <1>1, <1>2
  <2>2. r.socket = Head(log) OBVIOUS
  <2>3. \A i \in 1..Len(answers) : A[i] = answers[i].socket BY <2>1
  <2> HIDE DEF A, r
  <2> QED BY <1>3, <2>1, <2>2, <2>3
<1>5. Append(A, Head(log)) \o Tail(log) = A \o log
  <2> HIDE DEF A
  <2> QED BY <1>3
<1> QED BY <1>1, <1>4, <1>5 DEF HandedOut

\* A step that establishes nothing keeps what is known of the established ones, if
\* it leaves their state alone.
LEMMA OnceKept ==
    ASSUME OnceInv, UNCHANGED <<established, refused>>,
           \A s \in Members(established) : s \in Live' =>
              /\ s \in Live
              /\ containers[map[s]].state = "Established"
                    => containers'[map'[s]].state = "Established"
    PROVE  OnceInv'
<1>1. ASSUME NEW k \in DOMAIN established', established'[k] \in Live'
      PROVE  containers'[map'[established'[k]]].state = "Established"
  <2>1. established[k] \in Members(established) BY DEF Members
  <2> QED BY <1>1, <2>1 DEF OnceInv
<1> QED BY <1>1 DEF OnceInv, Members

\* Steps that leave the backlog and the histories alone keep the order.
LEMMA OrderKept ==
    ASSUME OrderInv, UNCHANGED <<established, refused, answers, back_log>>, OnceInv'
    PROVE  OrderInv'
<1>1. HandedOut' = HandedOut BY DEF HandedOut
<1> QED BY <1>1 DEF OrderInv, FirstComeFirstServed

\* FirstComeFirstServed in terms of InOrder.
LEMMA ServedInOrder == FirstComeFirstServed <=> InOrder(HandedOut, established, refused)
BY DEF FirstComeFirstServed, InOrder, Members

\* TCPTahoe::icontext_accept
LEMMA ProcessAcceptOrder ==
    ASSUME TypedInv, OrderInv, ProcessAccept
    PROVE  OrderInv'
<1>1. PICK e \in Front : ProcessAccept!(e) BY DEF ProcessAccept
<1>2. UNCHANGED <<map, established, refused>> BY <1>1
<1>3. CASE back_log # <<>>
  <2>1. send_accept_response(back_log) /\ containers' = containers BY <1>1, <1>3
  <2>2. HandedOut' = HandedOut
    BY <1>3, <2>1, AnswerInOrder DEF TypedInv, TypeParts, BackLogOK, HandedOut
  <2>3. OnceInv' BY <1>2, <2>1 DEF OrderInv, OnceInv, Live, Members
  <2> QED BY <1>2, <2>2, <2>3 DEF OrderInv, FirstComeFirstServed
<1>4. CASE back_log = <<>>
  <2> DEFINE l == map[ListeningSocket]
             c == [containers[l] EXCEPT !.saved_accept_event = e.call]
  <2>1. UNCHANGED <<back_log, answers>> /\ containers' = [containers EXCEPT ![l] = c] BY <1>1, <1>4
  <2>2. containers \in Seq(Containers) /\ l \in 1..Len(containers)
    BY <1>1 DEF TypedInv, IInv, ShapeInv, MapInv, Listening
  <2>3. c.state = containers[l].state
    BY <2>2 DEF Containers
  <2>4. \A k \in 1..Len(containers) : containers'[k].state = containers[k].state
    <3> HIDE DEF l, c
    <3> QED BY <2>1, <2>2, <2>3
  <2>5. OnceInv'
    BY <1>2, <2>4, OnceKept DEF OrderInv, Live, TypedInv, IInv, MapInv
  <2> QED BY <1>2, <2>1, <2>5, OrderKept
<1> QED BY <1>3, <1>4

\* Listen::process_syn
LEMMA ProcessSynOrder ==
    ASSUME TypedInv, OrderInv, ProcessSyn
    PROVE  OrderInv'
<1>1. UNCHANGED <<established, refused, answers, back_log>> BY DEF ProcessSyn, history
<1>2. IInv BY DEF TypedInv
<1>3. ASSUME NEW s \in Members(established), s \in Live'
      PROVE  /\ s \in Live
             /\ containers[map[s]].state = "Established"
                   => containers'[map'[s]].state = "Established"
  <2>1. s \in 1..Len(sockets) /\ Len(sockets) \in Nat
    <3>1. established \in Seq(NewSockets) BY DEF TypedInv, TypeParts, HistoryOK
    <3>2. s \in NewSockets BY <3>1 DEF Members
    <3>3. Len(sockets) \in Nat BY <1>2 DEF IInv, ShapeInv
    <3> QED BY <3>2, <3>3 DEF NewSockets
  <2>2. s \in Live /\ s # ListeningSocket BY <1>2, <1>3, <2>1, SynSwap
  <2>3. map[s] \in 1..Len(containers) /\ map[s] # map[ListeningSocket]
    BY <1>2, <2>2, SynSwap DEF IInv, MapInv, ContainersNotShared
  <2>4. map'[s] = map[s] /\ containers'[map[s]] = containers[map[s]]
    BY <1>2, <2>2, <2>3, SynSwap
  <2> QED BY <2>2, <2>4
<1> QED BY <1>1, <1>3, OnceKept, OrderKept DEF OrderInv

\* SynReceived::state_receive_packet and TCPTahoe::icontext_new_connection_established
LEMMA ProcessAckOrder ==
    ASSUME TypedInv, OrderInv, ProcessAck
    PROVE  OrderInv'
<1>1. PICK e \in Front : ProcessAck!(e) BY DEF ProcessAck
<1> DEFINE s == e.socket
           A == [i \in DOMAIN answers |-> answers[i].socket]
<1>2. s \in Live /\ containers[map[s]].state = "SynReceived" BY <1>1
<1>3. s \in NewSockets BY <1>2, AckSocket DEF TypedInv
<1>4. s \notin Members(established) BY <1>2 DEF OrderInv, OnceInv, Members
<1>5. /\ established' = Append(established, s) /\ map' = map
      /\ refused' = IF HasRoom THEN refused ELSE refused \cup {s}
  BY <1>1
<1>6. established \in Seq(NewSockets) /\ back_log \in Seq(NewSockets)
  BY DEF TypedInv, TypeParts, HistoryOK, BackLogOK
<1>7. A \in Seq(NewSockets)
  <2> DEFINE R == [call : CallNumbers, socket : NewSockets]
  <2>1. answers \in Seq(R) BY DEF TypedInv, TypeParts, HistoryOK
  <2>2. DOMAIN answers = 1..Len(answers) /\ Len(answers) \in Nat
        /\ \A i \in 1..Len(answers) : answers[i] \in R
    <3> HIDE DEF R
    <3> QED BY <2>1
  <2> QED BY <2>2
<1>8. HandedOut' = A \o Pushed(s)
  <2>1. new_connection_established(s) BY <1>1
  <2>2. Pushed(s) \in Seq(NewSockets) BY <1>3, PushedType DEF TypedInv
  <2>3. Pushed(s) # <<>> BY <1>2, PushedNotEmpty DEF TypedInv
  <2>4. CASE containers[map[s]].saved_accept_event # NoCall
    <3>1. send_accept_response(Pushed(s))
      BY <2>1, <2>4 DEF new_connection_established
    <3> QED BY <2>2, <2>3, <3>1, AnswerInOrder DEF TypedInv
  <2>5. CASE containers[map[s]].saved_accept_event = NoCall
    BY <2>1, <2>5 DEF new_connection_established, HandedOut
  <2> QED BY <2>4, <2>5
<1> HIDE DEF A, s
<1>9. HandedOut = A \o back_log /\ HandedOut \in Seq(NewSockets) BY <1>6, <1>7 DEF HandedOut, A
<1>10. InOrder(HandedOut, established, refused) /\ refused \in SUBSET Members(established)
  BY ServedInOrder DEF OrderInv, OnceInv
<1>11. InOrder(HandedOut', established', refused')
  <2>1. CASE HasRoom
    <3>1. HandedOut' = Append(HandedOut, s) /\ refused' = refused
      BY <1>3, <1>5, <1>6, <1>7, <1>8, <1>9, <2>1 DEF Pushed
    <3> QED BY <1>3, <1>4, <1>5, <1>6, <1>9, <1>10, <3>1, TakenInOrder
  <2>2. CASE ~HasRoom
    <3>1. HandedOut' = HandedOut /\ refused' = refused \cup {s}
      BY <1>5, <1>8, <1>9, <2>2 DEF Pushed
    <3>2. InOrder(HandedOut, Append(established, s), refused \cup {s})
      BY <1>3, <1>4, <1>6, <1>9, <1>10, RefusedInOrder
    <3> QED BY <1>5, <3>1, <3>2
  <2> QED BY <2>1, <2>2
<1>12. FirstComeFirstServed' BY <1>11, ServedInOrder DEF FirstComeFirstServed, InOrder, Members
<1>13. Members(established') = Members(established) \cup {s}
  BY <1>3, <1>5, <1>6, AppendMembers
<1>14. OnceInv'
  <2>1. refused' \subseteq Members(established') BY <1>5, <1>10, <1>13
  <2> DEFINE c == Container("Established", NoCall)
             l == map[s]
  <2>2. containers' = [containers EXCEPT ![l] = c] /\ c.state = "Established" BY <1>1 DEF s
  <2>3. containers \in Seq(Containers) /\ l \in 1..Len(containers)
    BY <1>2 DEF TypedInv, IInv, ShapeInv, MapInv
  <2>4. \A k \in 1..Len(containers) : containers'[k] = IF k = l THEN c ELSE containers[k]
    <3> HIDE DEF c, l
    <3> QED BY <2>2, <2>3
  <2>5. ASSUME NEW k \in DOMAIN established', established'[k] \in Live'
        PROVE  containers'[map'[established'[k]]].state = "Established"
    <3>1. established'[k] \in Members(established) \cup {s} BY <1>13 DEF Members
    <3>2. established'[k] \in Live BY <1>5, <2>5 DEF Live
    <3>3. map[established'[k]] \in 1..Len(containers) BY <3>2 DEF TypedInv, IInv, MapInv
    <3>4. CASE established'[k] = s BY <1>5, <2>2, <2>3, <2>4, <3>4
    <3>5. CASE established'[k] # s
      <4>1. map[established'[k]] # l BY <1>2, <3>2, <3>5 DEF TypedInv, IInv, ContainersNotShared
      <4>2. containers[map[established'[k]]].state = "Established"
        BY <3>1, <3>2, <3>5 DEF OrderInv, OnceInv, Members
      <4> QED BY <1>5, <2>4, <3>3, <4>1, <4>2
    <3> QED BY <3>4, <3>5
  <2> QED BY <2>1, <2>5 DEF OnceInv
<1> QED BY <1>12, <1>14 DEF OrderInv

\* Every step keeps the order.
LEMMA NextOrder == ASSUME TypedInv, OrderInv, [Next]_vars PROVE OrderInv'
<1> DEFINE Same == UNCHANGED <<containers, map, established, refused, answers, back_log>>
<1>1. ASSUME Same PROVE OrderInv'
  <2>1. OnceInv' BY <1>1 DEF OrderInv, OnceInv, Live, Members
  <2> QED BY <1>1, <2>1, OrderKept
<1>2. CASE UNCHANGED vars BY <1>1, <1>2 DEF vars, protocol, history
<1>3. ASSUME NEW c \in Clients, ReceiveSynAck(c) PROVE OrderInv'
  BY <1>1, <1>3 DEF ReceiveSynAck, protocol, history
<1>4. ASSUME NEW p \in [kind : {"syn", "ack", "synack"}, client : Clients], Resend(p) \/ Arrive(p)
      PROVE  OrderInv'
  BY <1>1, <1>4 DEF Resend, Arrive, protocol, history
<1>5. CASE Accept BY <1>1, <1>5 DEF Accept, protocol, history
<1>6. CASE ProcessIgnored BY <1>1, <1>6 DEF ProcessIgnored, protocol, history
<1>7. ASSUME NEW s \in Live, imodule_delete_socket(s) PROVE OrderInv'
  <2>1. UNCHANGED <<containers, established, refused, answers, back_log>>
    BY <1>7 DEF imodule_delete_socket, history
  <2>2. \A t \in Live' : t \in Live /\ map'[t] = map[t] BY <1>7 DEF imodule_delete_socket, Live
  <2>3. OnceInv' BY <2>1, <2>2, OnceKept DEF OrderInv
  <2> QED BY <2>1, <2>3, OrderKept
<1>8. ASSUME NEW s \in Live, CloseConnection(s) PROVE OrderInv' BY <1>7, <1>8 DEF CloseConnection
<1>9. CASE CloseListener BY <1>7, <1>9 DEF CloseListener, Listening
<1> QED BY <1>2, <1>3, <1>4, <1>5, <1>6, <1>8, <1>9, ProcessAcceptOrder, ProcessSynOrder,
           ProcessAckOrder DEF Next

\* For any number of clients and any backlog: accept() hands out every connection the
\* backlog took exactly once and in the order in which they were established, whether
\* the answer comes from icontext_accept or from icontext_new_connection_established.
THEOREM ServedInOrderOfArrival == Spec => []FirstComeFirstServed
<1>1. Init => OrderInv
  BY DEF Init, OrderInv, OnceInv, FirstComeFirstServed, HandedOut, Members
<1>2. OrderInv => FirstComeFirstServed BY DEF OrderInv
<1>3. TypedInv /\ OrderInv /\ [Next]_vars => OrderInv' BY NextOrder
<1> QED BY <1>1, <1>2, <1>3, TypedInvariant, PTL DEF Spec

-------------------------------------------------------------------------------
\* Who establishes a connection.  The collection names the sockets of a client by
\* its address.
CollectionInv ==
    /\ \A c \in Clients : collection[c] # NoSocket =>
          collection[c] \in NewSockets /\ sockets[collection[c]].remote = c
    /\ Listening => collection[NoRemote] = ListeningSocket

\* An ACK comes from a client that is established, wherever it is, ...
NetAckInv == \A c \in Clients : Packet("ack", c) \in net => client[c] = "Established"
QueueAckInv == \A e \in Members(queue) : e.kind = "ack" => client[e.client] = "Established"

\* ... and one queued while the listener is open is for the listener or for a socket
\* of the client it comes from.
QueueOwnerInv ==
    Listening => \A e \in Members(queue) :
        e.kind # "accept" /\ e.socket # ListeningSocket => sockets[e.socket].remote = e.client

ByClientInv ==
    CollectionInv /\ NetAckInv /\ QueueAckInv /\ QueueOwnerInv /\ EstablishedByItsClient

\* The fields of a queued packet.
LEMMA QueuedPacket ==
    ASSUME TypedInv, NEW e \in Members(queue), e.kind # "accept"
    PROVE  e.client \in Clients /\ e.socket \in SocketNames
<1> DEFINE P == [kind : {"syn", "ack"}, client : Clients, socket : SocketNames]
           Q == [kind : {"accept"}, call : Calls]
<1>1. queue \in Seq(P \cup Q) BY DEF TypedInv, TypeParts, QueueOK
<1>2. e \in P \cup Q
  <2> HIDE DEF P, Q
  <2> QED BY <1>1 DEF Members
<1>3. e \notin Q OBVIOUS
<1>4. e \in P BY <1>2, <1>3
<1> QED BY <1>4

\* The protocol's thread takes an event of the queue and leaves the others.
LEMMA DequeuedMember ==
    ASSUME TypedInv, NEW e \in Front, Dequeue
    PROVE  e \in Members(queue) /\ Members(queue') \subseteq Members(queue)
<1>1. queue \in Seq(Events) BY DEF TypedInv, IInv, ShapeInv
<1>2. queue # <<>> /\ e = Head(queue) /\ queue' = Tail(queue) BY DEF Front, Dequeue
<1>3. e = queue[1] /\ 1 \in DOMAIN queue BY <1>1, <1>2
<1>4. \A i \in DOMAIN queue' : i + 1 \in DOMAIN queue /\ queue'[i] = queue[i + 1] BY <1>1, <1>2
<1> QED BY <1>3, <1>4 DEF Members

\* What any step keeps: a socket's client does not change, and an established client
\* stays so.
LEMMA ByClientKept ==
    ASSUME TypedInv, ByClientInv, Listening' => Listening,
           \A s \in NewSockets : s \in NewSockets' /\ sockets'[s].remote = sockets[s].remote,
           \A c \in Clients : client[c] = "Established" => client'[c] = "Established"
    PROVE  /\ established' = established => EstablishedByItsClient'
           /\ Members(queue') \subseteq Members(queue) => QueueAckInv' /\ QueueOwnerInv'
           /\ collection' = collection => CollectionInv'
           /\ net' = net => NetAckInv'
<1>1. \A s \in NewSockets : s # ListeningSocket /\ sockets[s].remote \in Clients
  <2> DEFINE R == [remote : Clients, id : Nat]
  <2>1. sockets \in Seq(R) BY DEF TypedInv, IInv, ShapeInv
  <2>2. \A s \in 1..Len(sockets) : sockets[s] \in R
    <3> HIDE DEF R
    <3> QED BY <2>1
  <2> QED BY <2>2 DEF NewSockets
<1>2. ASSUME established' = established PROVE EstablishedByItsClient'
  <2>1. \A i \in DOMAIN established : established[i] \in NewSockets
    BY DEF TypedInv, TypeParts, HistoryOK
  <2>2. \A s \in NewSockets : RemoteOf(s) = sockets[s].remote /\ RemoteOf(s)' = sockets'[s].remote
    BY <1>1 DEF RemoteOf
  <2> QED BY <1>1, <1>2, <2>1, <2>2 DEF ByClientInv, EstablishedByItsClient
<1>3. ASSUME Members(queue') \subseteq Members(queue) PROVE QueueAckInv' /\ QueueOwnerInv'
  <2>1. QueueAckInv'
    <3> SUFFICES ASSUME NEW e \in Members(queue'), e.kind = "ack"
                 PROVE  client'[e.client] = "Established"
      BY DEF QueueAckInv, Members
    <3>1. e \in Members(queue) BY <1>3
    <3>2. e.client \in Clients BY <3>1, QueuedPacket
    <3> QED BY <3>1, <3>2 DEF ByClientInv, QueueAckInv
  <2>2. QueueOwnerInv'
    <3> SUFFICES ASSUME Listening', NEW e \in Members(queue'), e.kind # "accept",
                        e.socket # ListeningSocket
                 PROVE  sockets'[e.socket].remote = e.client
      BY DEF QueueOwnerInv, Members
    <3>1. e \in Members(queue) BY <1>3
    <3>2. e.socket \in NewSockets BY <3>1, QueuedPacket DEF SocketNames
    <3> QED BY <3>1, <3>2 DEF ByClientInv, QueueOwnerInv
  <2> QED BY <2>1, <2>2
<1>4. ASSUME collection' = collection PROVE CollectionInv'
  BY <1>4 DEF ByClientInv, CollectionInv, Clients
<1>5. ASSUME net' = net PROVE NetAckInv'
  BY <1>5 DEF ByClientInv, NetAckInv, Clients
<1> QED BY <1>2, <1>3, <1>4, <1>5

\* NetworkInterface::imodule_network_receive: with the listener open, the first socket
\* of the port is the listener, so a packet without a socket of its own goes there.
LEMMA ArriveByClient ==
    ASSUME TypedInv, ByClientInv, NEW p \in [kind : {"syn", "ack", "synack"}, client : Clients],
           Arrive(p)
    PROVE  ByClientInv'
<1>1. UNCHANGED <<sockets, map, collection, client, established>>
      /\ net' \subseteq net /\ p \in net /\ p.kind # "synack"
  BY DEF Arrive, protocol, history
<1>2. /\ Listening' => Listening
      /\ \A s \in NewSockets : s \in NewSockets' /\ sockets'[s].remote = sockets[s].remote
      /\ \A c \in Clients : client[c] = "Established" => client'[c] = "Established"
  BY <1>1 DEF Listening, Live, NewSockets
<1>3. EstablishedByItsClient' /\ CollectionInv' BY <1>1, <1>2, ByClientKept
<1>4. NetAckInv' BY <1>1 DEF ByClientInv, NetAckInv, Clients
<1>5. CASE SocketOf(p) = NoSocket
  <2>1. queue' = queue BY <1>5 DEF Arrive
  <2> QED BY <1>2, <1>3, <1>4, <2>1, ByClientKept DEF ByClientInv
<1>6. CASE SocketOf(p) # NoSocket
  <2> DEFINE x == PacketEvent(p, SocketOf(p))
  <2>1. queue' = Append(queue, x) BY <1>6 DEF Arrive
  <2>2. x.kind = p.kind /\ x.client = p.client /\ x.socket = SocketOf(p) BY DEF PacketEvent
  <2> HIDE DEF x
  <2>3. Members(queue') = Members(queue) \cup {x}
    <3>1. queue \in Seq(Events \cup {x}) BY SeqGrows DEF TypedInv, IInv, ShapeInv
    <3> QED BY <2>1, <3>1, AppendMembers
  <2>4. p.client \in Clients BY <1>1
  <2>5. x.kind = "ack" => client[x.client] = "Established"
    <3>1. p.kind = "ack" => p = Packet("ack", p.client) OBVIOUS
    <3> QED BY <1>1, <2>2, <2>4, <3>1 DEF ByClientInv, NetAckInv
  <2>6. ASSUME Listening, x.socket # ListeningSocket PROVE sockets[x.socket].remote = x.client
    <3>1. collection[NoRemote] = ListeningSocket BY <2>6 DEF ByClientInv, CollectionInv
    <3>2. get_by_local_ap = ListeningSocket
      <4>1. NoRemote \in Keys(collection) BY <3>1 DEF Keys
      <4>2. Keys(collection) \in SUBSET (Clients \cup {NoRemote}) BY DEF Keys
      <4>3. PICK k \in Keys(collection) : First(collection, Keys(collection)) = collection[k]
                                          /\ \A j \in Keys(collection) : k <= j
        BY <4>1, <4>2, FirstKey
      <4>4. k <= 0 /\ k \in Nat BY <4>1, <4>2, <4>3, ListenerAssumption DEF Clients
      <4> QED BY <3>1, <4>3, <4>4 DEF get_by_local_ap
    <3>3. SocketOf(p) = collection[p.client] BY <2>2, <2>6, <3>2 DEF SocketOf, get_by_local_and_remote_ap
    <3> QED BY <1>6, <2>2, <2>4, <3>3 DEF ByClientInv, CollectionInv
  <2>7. QueueAckInv' BY <1>1, <2>3, <2>5 DEF ByClientInv, QueueAckInv, Members
  <2>8. QueueOwnerInv' BY <1>1, <1>2, <2>3, <2>6 DEF ByClientInv, QueueOwnerInv, Members
  <2> QED BY <1>3, <1>4, <2>7, <2>8 DEF ByClientInv
<1> QED BY <1>5, <1>6

\* Listen::process_syn
LEMMA ProcessSynByClient == ASSUME TypedInv, ByClientInv, ProcessSyn PROVE ByClientInv'
<1>1. PICK e \in Front : ProcessSyn!(e) BY DEF ProcessSyn
<1>2. e \in Members(queue) /\ Members(queue') \subseteq Members(queue) BY <1>1, DequeuedMember
<1>3. e.client \in Clients BY <1>1, <1>2, QueuedPacket
<1> DEFINE r == [remote |-> e.client, id |-> second_id]
           new == Len(sockets) + 1
<1>4. sockets' = Append(sockets, r) /\ r.remote = e.client BY <1>1
<1>5. sockets \in Seq([remote : Clients, id : Nat]) /\ r \in [remote : Clients, id : Nat]
  BY <1>3 DEF TypedInv, IInv, ShapeInv
<1>6. /\ \A s \in NewSockets : s \in NewSockets' /\ sockets'[s] = sockets[s]
      /\ new \in NewSockets' /\ sockets'[new] = r /\ Len(sockets') = new
  <2> DEFINE R == [remote : Clients, id : Nat]
  <2>1. sockets \in Seq(R) /\ r \in R BY <1>5
  <2> HIDE DEF R, r
  <2> QED BY <1>4, <2>1 DEF NewSockets
<1>7. UNCHANGED <<client, established>> BY <1>1 DEF history
<1>8. Listening' => Listening BY <1>1
<1>9. EstablishedByItsClient' /\ QueueAckInv' /\ QueueOwnerInv'
  BY <1>2, <1>6, <1>7, <1>8, ByClientKept
<1>10. NetAckInv'
  <2>1. \A c \in Clients : Packet("ack", c) # Packet("synack", e.client) OBVIOUS
  <2> QED BY <1>1, <1>7, <2>1 DEF ByClientInv, NetAckInv, Clients
<1>11. CollectionInv'
  <2>1. collection' = [collection EXCEPT ![e.client] = new] BY <1>1, <1>6 DEF push
  <2>2. collection \in [Clients \cup {NoRemote} -> Int] BY DEF TypedInv, IInv, ShapeInv
  <2>3. e.client # NoRemote BY <1>3, ListenerAssumption DEF Clients
  <2>4. collection'[NoRemote] = collection[NoRemote] BY <1>3, <2>1, <2>2, <2>3
  <2>5. ASSUME NEW c \in Clients, collection'[c] # NoSocket
        PROVE  collection'[c] \in NewSockets' /\ sockets'[collection'[c]].remote = c
    <3>1. CASE c = e.client BY <1>3, <1>4, <1>6, <2>1, <2>2, <3>1
    <3>2. CASE c # e.client
      <4>1. collection'[c] = collection[c] BY <2>1, <2>2, <3>2
      <4> QED BY <1>6, <2>5, <4>1 DEF ByClientInv, CollectionInv
    <3> QED BY <3>1, <3>2
  <2> QED BY <1>8, <2>4, <2>5 DEF ByClientInv, CollectionInv, Clients
<1> QED BY <1>9, <1>10, <1>11 DEF ByClientInv

\* SynReceived::state_receive_packet: an ACK that reaches a connection while the
\* listener is open was queued for it, by its own client.
LEMMA ProcessAckByClient == ASSUME TypedInv, ByClientInv, ProcessAck PROVE ByClientInv'
<1>1. PICK e \in Front : ProcessAck!(e) BY DEF ProcessAck
<1>2. e \in Members(queue) /\ Members(queue') \subseteq Members(queue) BY <1>1, DequeuedMember
<1>3. e.socket \in NewSockets /\ e.socket # ListeningSocket BY <1>1, AckSocket DEF TypedInv
<1>4. UNCHANGED <<sockets, map, collection, net, client>>
      /\ established' = Append(established, e.socket)
  BY <1>1
<1>5. /\ Listening' = Listening
      /\ \A s \in NewSockets : s \in NewSockets' /\ sockets'[s].remote = sockets[s].remote
      /\ \A s : RemoteOf(s)' = RemoteOf(s)
  BY <1>4 DEF Listening, Live, NewSockets, RemoteOf
<1>6. QueueAckInv' /\ QueueOwnerInv' /\ CollectionInv' /\ NetAckInv'
  BY <1>2, <1>4, <1>5, ByClientKept
<1>7. ASSUME Listening' PROVE client[RemoteOf(e.socket)] = "Established"
  <2>1. client[e.client] = "Established" BY <1>1, <1>2 DEF ByClientInv, QueueAckInv
  <2>2. sockets[e.socket].remote = e.client
    BY <1>1, <1>2, <1>3, <1>5, <1>7 DEF ByClientInv, QueueOwnerInv
  <2> QED BY <1>3, <2>1, <2>2 DEF RemoteOf
<1>8. EstablishedByItsClient'
  <2>1. established \in Seq(NewSockets) BY DEF TypedInv, TypeParts, HistoryOK
  <2>2. ASSUME NEW i \in DOMAIN established'
        PROVE  \/ established'[i] = e.socket
               \/ i \in DOMAIN established /\ established'[i] = established[i]
    <3> DEFINE s == e.socket
    <3>1. established' = Append(established, s) /\ s \in NewSockets BY <1>3, <1>4
    <3> HIDE DEF s
    <3>2. \/ established'[i] = s
          \/ i \in DOMAIN established /\ established'[i] = established[i]
      BY <2>1, <3>1
    <3> QED BY <3>2 DEF s
  <2>3. ASSUME Listening', NEW i \in DOMAIN established'
        PROVE  client[RemoteOf(established'[i])] = "Established"
    BY <1>5, <1>7, <2>2, <2>3 DEF ByClientInv, EstablishedByItsClient
  <2>4. \A i \in DOMAIN established' : RemoteOf(established[i])' = RemoteOf(established'[i])
    BY <1>4 DEF RemoteOf
  <2> QED BY <1>4, <2>3, <2>4 DEF EstablishedByItsClient
<1> QED BY <1>6, <1>8 DEF ByClientInv

\* Protocol::imodule_delete_socket: only the listener's own end takes its key away.
LEMMA DeleteByClient ==
    ASSUME TypedInv, ByClientInv, NEW s \in Live, imodule_delete_socket(s)
    PROVE  ByClientInv'
<1>1. UNCHANGED <<sockets, net, client, established, queue>>
  BY DEF imodule_delete_socket, history
<1>2. Live' = Live \ {s} BY DEF imodule_delete_socket, Live
<1>3. /\ Listening' => Listening /\ s # ListeningSocket
      /\ \A x \in NewSockets : x \in NewSockets' /\ sockets'[x].remote = sockets[x].remote
  BY <1>1, <1>2 DEF Listening, NewSockets
<1>4. QueueAckInv' /\ QueueOwnerInv' /\ EstablishedByItsClient' /\ NetAckInv'
  BY <1>1, <1>3, ByClientKept
<1>5. CollectionInv'
  <2>1. collection' = collection \/ collection' = [collection EXCEPT ![RemoteOf(s)] = NoSocket]
    BY DEF imodule_delete_socket, remove
  <2>2. collection \in [Clients \cup {NoRemote} -> Int] BY DEF TypedInv, IInv, ShapeInv
  <2>3. ASSUME s # ListeningSocket PROVE RemoteOf(s) # NoRemote
    <3> DEFINE R == [remote : Clients, id : Nat]
    <3>1. sockets \in Seq(R) /\ s \in 1..Len(sockets)
      BY <2>3 DEF TypedInv, IInv, ShapeInv, MapInv
    <3>2. sockets[s] \in R
      <4> HIDE DEF R
      <4> QED BY <3>1
    <3>3. sockets[s].remote \in Clients BY <3>2
    <3> QED BY <2>3, <3>3, ListenerAssumption DEF RemoteOf, Clients
  <2>4. \A c \in Clients : collection'[c] \in {collection[c], NoSocket} BY <2>1, <2>2
  <2>5. Listening' => collection'[NoRemote] = collection[NoRemote] BY <1>3, <2>1, <2>2, <2>3
  <2> QED BY <1>3, <2>4, <2>5 DEF ByClientInv, CollectionInv, Clients
<1> QED BY <1>4, <1>5 DEF ByClientInv

\* The clients: an ACK is sent by a client that becomes established, and no timer
\* sends one again.
LEMMA ClientByClient ==
    ASSUME TypedInv, ByClientInv, NEW c \in Clients,
           NEW p \in [kind : {"syn", "ack", "synack"}, client : Clients],
           ReceiveSynAck(c) \/ Resend(p)
    PROVE  ByClientInv'
<1>1. UNCHANGED <<sockets, map, collection, established, queue>>
  BY DEF ReceiveSynAck, Resend, protocol, history
<1>2. client \in [Clients -> {"SynSent", "Established"}] BY DEF TypedInv, TypeParts, NetOK
<1>3. /\ Listening' => Listening
      /\ \A s \in NewSockets : s \in NewSockets' /\ sockets'[s].remote = sockets[s].remote
      /\ \A d \in Clients : client[d] = "Established" => client'[d] = "Established"
  BY <1>1, <1>2 DEF Listening, Live, NewSockets, ReceiveSynAck, Resend
<1>4. QueueAckInv' /\ QueueOwnerInv' /\ EstablishedByItsClient' /\ CollectionInv'
  BY <1>1, <1>3, ByClientKept
<1>5. ASSUME NEW d \in Clients, Packet("ack", d) \in net' PROVE client'[d] = "Established"
  <2>1. CASE Packet("ack", d) \in net BY <1>3, <2>1 DEF ByClientInv, NetAckInv
  <2>2. CASE Packet("ack", d) \notin net
    <3>1. CASE ReceiveSynAck(c)
      <4>1. Packet("ack", d) = Packet("ack", c) BY <1>5, <2>2, <3>1 DEF ReceiveSynAck
      <4>2. d = c BY <4>1
      <4> QED BY <1>2, <3>1, <4>2 DEF ReceiveSynAck
    <3>2. CASE Resend(p)
      <4>1. p = Packet("ack", d) BY <1>5, <2>2, <3>2 DEF Resend
      <4>2. p.kind = "ack" BY <4>1
      <4> QED BY <3>2, <4>2 DEF Resend
    <3> QED BY <3>1, <3>2
  <2> QED BY <2>1, <2>2
<1>6. NetAckInv' BY <1>5 DEF NetAckInv, Clients
<1> QED BY <1>4, <1>6 DEF ByClientInv

\* The translator queues an event that is not a packet.
LEMMA AcceptByClient == ASSUME TypedInv, ByClientInv, Accept PROVE ByClientInv'
<1> DEFINE x == AcceptEvent(accepts')
<1>1. UNCHANGED <<sockets, map, collection, established, net, client>>
      /\ queue' = Append(queue, x)
  BY DEF Accept, protocol, history
<1>2. x.kind = "accept" BY DEF AcceptEvent
<1> HIDE DEF x
<1>3. Members(queue') = Members(queue) \cup {x}
  <2>1. queue \in Seq(Events \cup {x}) BY SeqGrows DEF TypedInv, IInv, ShapeInv
  <2> QED BY <1>1, <2>1, AppendMembers
<1>4. /\ Listening' => Listening
      /\ \A s \in NewSockets : s \in NewSockets' /\ sockets'[s].remote = sockets[s].remote
  BY <1>1 DEF Listening, Live, NewSockets
<1>5. EstablishedByItsClient' /\ CollectionInv' /\ NetAckInv' BY <1>1, <1>4, ByClientKept
<1>6. QueueAckInv' BY <1>1, <1>2, <1>3 DEF ByClientInv, QueueAckInv, Members
<1>7. QueueOwnerInv' BY <1>1, <1>2, <1>3, <1>4 DEF ByClientInv, QueueOwnerInv, Members
<1> QED BY <1>5, <1>6, <1>7 DEF ByClientInv

\* Every step keeps the invariant.
LEMMA NextByClient == ASSUME TypedInv, ByClientInv, [Next]_vars PROVE ByClientInv'
<1>1. ASSUME UNCHANGED <<sockets, map, collection, established, net, client>>,
             Members(queue') \subseteq Members(queue)
      PROVE  ByClientInv'
  <2>1. /\ Listening' => Listening
        /\ \A s \in NewSockets : s \in NewSockets' /\ sockets'[s].remote = sockets[s].remote
    BY <1>1 DEF Listening, Live, NewSockets
  <2> QED BY <1>1, <2>1, ByClientKept DEF ByClientInv
<1>2. CASE UNCHANGED vars BY <1>1, <1>2 DEF vars, protocol, history
<1>3. ASSUME NEW c \in Clients, ReceiveSynAck(c) PROVE ByClientInv'
  <2>1. Packet("syn", c) \in [kind : {"syn", "ack", "synack"}, client : Clients] OBVIOUS
  <2> QED BY <1>3, <2>1, ClientByClient
<1>4. ASSUME NEW p \in [kind : {"syn", "ack", "synack"}, client : Clients], Resend(p) \/ Arrive(p)
      PROVE  ByClientInv'
  <2>1. p.client \in Clients OBVIOUS
  <2> QED BY <1>4, <2>1, ClientByClient, ArriveByClient
<1>5. CASE Accept BY <1>5, AcceptByClient
<1>6. CASE ProcessAccept
  <2>1. PICK e \in Front : ProcessAccept!(e) BY <1>6 DEF ProcessAccept
  <2> QED BY <1>1, <2>1, DequeuedMember
<1>7. CASE ProcessSyn BY <1>7, ProcessSynByClient
<1>8. CASE ProcessAck BY <1>8, ProcessAckByClient
<1>9. CASE ProcessIgnored
  <2>1. PICK e \in Front : ProcessIgnored!(e) BY <1>9 DEF ProcessIgnored
  <2> QED BY <1>1, <2>1, DequeuedMember DEF protocol, history
<1>10. ASSUME NEW s \in Live, CloseConnection(s) PROVE ByClientInv'
  BY <1>10, DeleteByClient DEF CloseConnection
<1>11. CASE CloseListener BY <1>11, DeleteByClient DEF CloseListener, Listening
<1> QED BY <1>2, <1>3, <1>4, <1>5, <1>6, <1>7, <1>8, <1>9, <1>10, <1>11 DEF Next

\* For any number of clients, any address of the listener and any order of packets,
\* retransmissions and calls: as long as the listener is open, only the ACK of a
\* connection's own client establishes it, although all containers share the initial
\* sequence number and any ACK is valid (NetworkInterface::imodule_network_receive).
THEOREM OnlyItsClientEstablishes == Spec => []EstablishedByItsClient
<1>1. Init => ByClientInv
  <2> SUFFICES ASSUME Init PROVE ByClientInv OBVIOUS
  <2>1. Members(queue) = {} /\ DOMAIN established = {} BY DEF Init, Members
  <2>2. NetAckInv
    <3>1. \A c, d \in Clients : Packet("ack", c) # Packet("syn", d) OBVIOUS
    <3> QED BY <3>1 DEF Init, NetAckInv
  <2>3. CollectionInv BY ListenerAssumption DEF Init, CollectionInv, Clients
  <2> QED BY <2>1, <2>2, <2>3 DEF ByClientInv, QueueAckInv, QueueOwnerInv, EstablishedByItsClient
<1>2. ByClientInv => EstablishedByItsClient BY DEF ByClientInv
<1>3. TypedInv /\ ByClientInv /\ [Next]_vars => ByClientInv' BY NextByClient
<1> QED BY <1>1, <1>2, <1>3, TypedInvariant, PTL DEF Spec
===============================================================================
