# A TLA+ model of WiFu Transport

WiFu is a toolkit for writing transport protocols in user space. Its daemon, WiFu Transport, takes
socket calls from applications through a kernel module, the wedge, runs a protocol (TCP Tahoe and
variants, a simple UDP) on raw packets, and answers the calls. This project models the parts where
threads, messages and timers meet, checks them with TLC on small instances, and proves what it can for every
instance with TLAPS. Paths below are relative to `src/`.

## Inventory

| Component | State | Operations | Hard because |
|---|---|---|---|
| Timer thread: `transport/src/TimeoutEventManager.cc`, `transport/headers/PriorityQueue.h`, `transport/src/BinarySemaphore.cc` | queue ordered by deadline, set of cancelled events, two counting semaphores, a binary semaphore | enqueue of a timeout or a cancellation (Dispatcher thread); dequeue, look up, timed wait, fire, requeue (timer thread) | two threads, a post that is two steps, a wake-up raised inside another lock |
| Circular arithmetic: `transport/src/Math.cc` | none | six comparisons | wrap-around, half the range |
| Reassembly buffer: `transport/src/TCPPacketBuffer.cc` | sorted list of packets, first expected number, cached size | insert, size, get_continuous_data | overlaps, duplicates, wrap-around |
| Reliability: `transport/src/contexts/TCPTahoeReliabilityContext.cc`, `transport/src/states/TCPTahoeReliabilityState.cc` | SND.UNA/NXT/MAX, RCV.NXT/WND, timer, duplicate counter, waiting recv(), reassembly buffer | send and receive a packet, timer, recv() | lost, duplicated, delayed, reordered segments; 16 and 32 bit arithmetic |
| Congestion control: `transport/src/contexts/TCPTahoeCongestionControlContext.cc`, `transport/src/states/TCPTahoeBaseCongestionControl.cc`, `SlowStart.cc`, `CongestionAvoidance.cc` | its own SND.UNA/NXT/MAX, send window, cwnd, ssthresh, probe timer | cut segments out of the send buffer, resend, probe, grow and shrink the window | a second copy of the sender's state, updated by other events |
| Connection management: `transport/src/states/{Closed,Listen,SynSent,...,TimeWait}.cc` | the TCP state, TIME-WAIT timer | connect, listen, close, receive | segments in states nobody expected them in |
| TCPTahoe: `transport/src/protocol/TCPTahoe.cc`, `transport/headers/contexts/TCPTahoeIContextContainer.h` | one container per socket: contexts, saved send, close, accept and FIN | hands every event to the three contexts | saved calls resumed by later events |
| Protocol, socket collection, ports, backlog: `transport/src/protocol/Protocol.cc`, `transport/src/SocketCollection.cc`, `BackLog.cc`, `PortManager.cc` | sockets of the protocol, backlog of a listener | socket, bind, demultiplexing, accept | several connections on one listener |
| Dispatcher and queue processors: `transport/src/Dispatcher.cc`, `transport/headers/{Queue,QueueProcessor}.h` | FIFO queue of the Dispatcher, priority queue of every module | register, enqueue, dispatch | order between threads |
| Back end and object pool; front-end library: `transport/src/WiFuTransportBackEndTranslator.cc`, `transport/headers/ObjectPool.h`, `transport/applib` | pending call per socket, recycled events; a semaphore per socket | requests and responses over netlink (the front end: a local socket) | a late or unsolicited response, objects used again |
| SimpleUDP, TCP with adaptive pacing, TCP with delayed ACKs: `transport/src/protocol` | receive queue; send queue and rate; delayed ACK timer | as TCPTahoe | events read after they were answered, further timers and a shared test of them |
| Kernel wedge: `wedge/wifu_wedge.c` | tables of calls and sockets | socket calls against netlink replies | replies found by socket and type, entries used again |
| WiFu Core: `core/src`; packets, logging, option parsing, raw sockets | | | I/O and byte layout |

Every module of the daemon is one thread with a queue of its own. The Dispatcher takes events from
one FIFO queue and enqueues each with the modules that registered for its class. A protocol's queue
is ordered by priority: the events a handler raises for its own protocol are HIGH, application
calls, packets and fired timers are LOW. Timers go through the Dispatcher to the timer thread and
come back the same way. Applications reach the back end through the wedge, which takes the place of
the older front-end library: a call enters a table, a netlink message goes to the daemon, and the
daemon's answer wakes the call.

What makes the parts correct:

- timer thread: a timer resolves exactly once, not before its deadline, in deadline order; a
  cancellation in time is honoured; the thread never sleeps past a deadline;
- reassembly buffer: the stream comes out in order and every byte is counted once;
- sender: its two contexts agree, each segment carries the bytes of its number, the flight fits the
  window, the retransmission timer runs exactly while something is outstanding;
- receiver: window accounting is exact, no assertion fails, the FIN comes after the last byte;
- connection: what is read is a prefix of what was written; both sides learn of a close;
- listener: connections do not mix, and accept() hands out each one once, the oldest first;
- wedge, translator and pools: every call gets its own answer and returns, and an event object is
  never in two hands;
- pacing and delayed ACKs: segments leave in order and an interval apart, none is forgotten in the
  queue, and an acknowledgement that is held back will be sent.

## Modules

| Module | What it models |
|---|---|
| `TimerService` | abstract: what users of timers may rely on |
| `TimeoutEventManager` | the Dispatcher's calls of `enqueue()` and the timer thread, one action per step between two points where the threads can interleave |
| `TimeoutEventManagerProofs` | inductive invariant and refinement |
| `SeqSpace`, `SeqSpaceProofs` | `Math.cc` at any width, and what its tests mean |
| `TCPPacketBuffer` | the reassembly buffer as operators on a record |
| `TCPPacketBufferMachine` | the buffer under every order of packets of a short stream |
| `TCPPacketBufferProofs` | what the buffer's loops compute, and its inductive invariant |
| `TCPContext` | the state of one socket: buffers, container, contexts |
| `TCPReliability`, `TCPCongestionControl`, `TCPConnectionManager` | the handlers of the three contexts, as operators from a socket to a socket |
| `TCPTahoe` | the composition: two hosts, their event queues, applications and the network |
| `TCPTahoeProofs` | inductive invariant of the sender, the types and the network |
| `TCPDeliveryProofs` | inductive invariant of both streams, from the bytes accepted to the bytes read |
| `Listener` | several clients on one listening socket: socket lookup, the listener's containers, backlog, accept() |
| `ListenerProofs` | inductive invariants of its properties |
| `KernelWedge` | the wedge's tables of calls and sockets |
| `ObjectPool`, `SocketCollection` | the pools of event objects and the daemon's sockets, as operators |
| `BackEndTranslator` | the netlink thread and the translator's thread, with `event_map_` and the pools |
| `SimpleUDP` | the composition of these four with the UDP protocol, applications and the network |
| `UDPCallPathProofs` | inductive invariants of the table of calls and of the whole path of a call |
| `TCPAP` | one host of TCP with adaptive pacing and delayed acknowledgements |
| `TCPAPProofs` | inductive invariants of its pacing and of its acknowledgement timer |
| `MCTimeoutEventManager`, `MCTCPTahoe`, `MCSimpleUDP` | the instances TLC checks |

### The timer thread

The variables are the objects of the code: `queued` is the list `q_`, `locked` its lock, `counter`
its counting semaphore, `sem` the binary semaphore, `canceled` the set of cancelled events, `dpc`
and `mpc` the two program counters. `BinarySemaphore::post` is two actions (`PostTryWait`,
`PostPost`). `PriorityQueue::enqueue` is four: insertion under the lock, the two halves of the post
that the signal handler does before the lock is released, unlock and count. A critical section
without such a call inside is one action. `fired`, `dropped`, `asked` and `inTime` record history.

Abstractions: the list is a set whose front is any element of least deadline. Deadlines are fixed
when an event is created, so an event may reach `enqueue()` after its deadline. Interrupted system
calls are not modelled: the signals are raised on the calling thread, never on the one that waits.
`sem_timedwait` never times out while it can decrement. `MaxTime` bounds the clock and the deadlines.

### TCP

A handler is an operator from a socket record `c` to the record after the handler has run;
`receive_packet` of `TCPTahoe` calls the handlers of the contexts in the order of
`icontext_receive_packet`. A handler's events go to `c.queue` and are handled one action each. The
actions are the LOW events (the calls `Connect`, `ListenCall`, `Send`, `Receive`, `Close`; an
arriving packet; the saved FIN coming back through the Dispatcher; the three timers) and one for each
HIGH event.

- A LOW event is taken only when the queues of both hosts are empty. A protocol takes a LOW event
  only when it has no HIGH one; what a cascade does touches its own host and adds to the network, so
  the cascades of the two hosts commute.
- A failed `assert`, or a trap, is recorded in `aborted`; the handler's effects are discarded and
  the host stops. Reading the connect event of a passive open, which is never set, may trap or not.
- A timer is a boolean: a fired event is compared with the stored pointer, so stale ones are
  ignored and the pending one may fire at any time. Timer lengths, the round trip estimate and
  timestamps are left out with it.
- The network is a set of packets: any may arrive next, or never; `MaxDuplicates` arrivals leave the
  packet in the network. A packet equal to one under way is not kept twice.
- Contexts are allocated by the garbage collector and so zeroed: the send window starts at 0.
- Sequence numbers keep a width (`IntMax`), the receive window and ssthresh theirs
  (`MaxReceiveWindow`). The counter of duplicate ACKs stops at 4; only 2 and 3 are told apart.
- The container of the listener becomes the container of the connection. `accept()` is taken to have
  been called before the SYN arrives; the backlog and the container the listener gets instead are
  in `Listener`.
- The application has one call at a time on a socket. A call that `can_send` or `can_receive`
  refuses is never answered (`stuck`). The notice of a FIN ends a waiting recv().
- No payload of a run holds the bytes 22 and 23, which the send buffer uses for SYN and FIN.
- `Mss` is at least 3 in the instances. A retransmitted FIN moves congestion control's SND.NXT one
  too far, so two bytes count as outstanding, which a real segment size always exceeds.

### The listener

`Listener` keeps what `TCPTahoe` leaves out: `map` is `map_`, `containers` are the containers with
their connection state and saved accept event, `collection` is the socket collection. All its keys
have the same local part, so a key is the number of a client, or 0 for the listener, whose key comes
first in the map. `Arrive` is the network thread, which looks up the socket; `Accept` is the
translator, which stores the identifier of the connection to come in the listener at once and then
queues the event; the `Process` actions are the protocol's thread, which takes the events in order.
A handler's HIGH events are part of its action, as no LOW event comes between. `established`,
`refused` and `answers` record history.

- Initially the socket is bound, to its own address or to 0.0.0.0, and listens. A new socket copies
  the local address, so with 0.0.0.0 its key never matches that of a packet.
- Every container starts at the same sequence number (`TCPTahoeIContextContainer.cc:4`), so the ACK of
  any handshake is valid for every connection in SYN-RECEIVED; packets have no numbers here.
- The wedge matches an answer by socket and type, so an answer from a copied accept event wakes whichever
  accept() waits by then (`Answer`). One that finds nobody waiting is lost; the code writes to
  `wedge_calls[-1]`. A call that was woken is taken to return at once. The run makes one call; with two,
  which let an old event answer a new call, TLC finds its invariants to hold as well (4.5 million states).
- The memory of a socket is zeroed, so the identifier is 0 before the first accept().
- The end of a connection is one action, for connections that an answered accept() returned.
  `TCPTahoe` models the exchange. A failed assertion of `imodule_delete_socket` sets `aborted`.

### Calls on UDP sockets

`SimpleUDP` follows a call from the application to the protocol and back. `wedge_calls` is the table of
the wedge; `Call` is a call up to its wait, `Return` what follows it, `nl_data_ready` the answer, which
runs in the thread that sends it. `Receive` is the netlink thread; `LibraryResponse` and `ReleaseEvent`
are the translator's thread, in two steps, as the application may go on between them. The `Process`
actions are the protocol's thread, one per kind of event; `ProcessClose` and `EnqueueDelete` are the
two halves of `icontext_close`, which reads its event again after the answer was dispatched. Event
objects are numbers into `content`, so an object that is filled in again while someone still refers to
it changes under its reader. `from` and the `call` of messages and answers record history: the code has
no such field.

- Answers find their call by socket and type. The model keeps to one call at a time on a socket
  (`Overlap = FALSE`); with overlapping calls `EventsOwnedOnce` fails after a few steps.
- The delete event follows the answer to close(), and nothing keeps the kernel from using the address
  of the released socket again in between. `EarlyReuse` says whether it does; in the run it is `FALSE`
  (`ReleasedByDaemon`). With `TRUE` the daemon gets a second Socket with the same identifier, and TLC finds
  an assertion of `imodule_delete_socket` violated; the other invariants hold in that instance too.
- Each socket binds to a port of its own (`OwnPorts`). With a shared port one socket on 0.0.0.0 and one
  on the host's address can get the same key, and `SocketCollection::remove` erases the wrong one.
- A full table or a failed `nl_send` undoes a call. Only release leaves a trace: the wedge forgets the
  socket and the daemon does not (`ReleaseFails`).
- The Dispatcher's queue is folded into the queue of the module behind it: both keep the order of
  events of one priority.
- Calls free a pointer they never set (`kfree(buf)`); the model has the outcome in which nothing
  happens. Interrupted waits are not modelled.
- `EventsOwnedOnce` is `ClaimedOnce`, no object is in two hands, and `CloseEventKept`, the event that
  `icontext_close` reads after its answer is still that call's. The second needs a pool of close events
  with at least as many objects as there are sockets (the code starts with 10): the pool hands out its
  oldest object, so the released one comes last. TLC finds it violated with three sockets and a pool of two.
- A failed assertion is recorded in `failed` and stops the daemon; an answer nobody waits for, for which
  the code writes to `wedge_calls[-1]`, counts as one.

### Pacing and delayed acknowledgements

`TCPAP` has two records: `lim` is `TCPAPSendRateLimiter` with its context, `rc` is the reliability context
with delayed acknowledgements. Each action is one LOW event with all it leads to. Timers are the time
they have left, and `Tick` is the clock; a timer at 0 may fire late. A cancelled timer that fires all the
same is compared with the stored pointer and ignored, so it has no action. Segments are counted, not
bytes. What is left open: when congestion control lets a segment out, the interval that adaptive
pacing computes from round trip times (any of `Intervals`, or negative), and the delay of a sequence
number (any of `Delays`, which contains those of the thresholds and of the options). The peer acknowledges
what has left the limiter; a late segment of an earlier connection may acknowledge more than was ever sent
(`AcksUnsent`), which is answered like data, whatever else it carries.

`start_ack_timer` tests the retransmission timer instead of the acknowledgement timer. With data
outstanding a delayed acknowledgement gets no timer (`masked`), waits for the next segment, and when the
count is reached `cancel_ack_timer` fails its assertion. A rate of 0, in a comment the default that turns
adaptive pacing on (`TCPAPSendRateLimiter.cc:232`), gives a negative interval, and the next timer fails
an assertion; the default is in fact -1, so adaptive pacing never runs.

## Runs

| Run | Instance | Shows |
|---|---|---|
| `timer_manager` | 3 timers created in order, clock to 2, fair threads | the semaphore stays binary, no wake-up is lost, no empty dequeue, each timer in one place, cancellations in time honoured, deadline order; every started timer is resolved; the threads implement `TimerService` |
| `packet_buffer` | 6 byte stream, packets of up to 3, numbers 13..15, 0..2 of 16 | order, size and growth exact, list sorted, nothing deliverable left behind |
| `tcp_close` | no data, both close, 2 timeouts, 1 duplicate | the contexts agree on what is outstanding and the timer covers exactly that |
| `tcp_transfer` | a 4 byte write through a 3 byte send buffer, reads of 2, close, 1 timeout, 1 duplicate | the stream is a prefix, FIN last, acknowledgements and window accounting exact, no other assertion fails |
| `tcp_reorder` | five 1 byte writes in flight, 1 timeout | segments carry the bytes of their number through fast retransmit; the flight fits cwnd |
| `listener` | 3 clients, backlog of 2, 1 accept(), 1 packet sent again | sockets do not share containers; connections are established by their own client and handed out once, in order; no empty backlog is popped |
| `udp_calls` | 2 threads, 2 sockets, a table of 2 calls, 5 calls, pools of 2, datagrams to one port | a call owns its entry and gets its own answer; event objects are owned once; no assertion of the daemon fails; every call returns, a recvfrom() once a datagram waits, connect() excepted |
| `tcp_ap` | 2 segments, 3 through the limiter, intervals 0, 2 and negative, delays 1 to 3, 4 acknowledgements, 2 changes of rate | segments leave in order and an interval apart, all are sent; an acknowledgement held back has its timer |
| `tcp_probe_overrun` | 9 bytes into a window of 7 | finding 1 |
| `tcp_stale_synack` | a byte each way, 2 duplicates | finding 2 |
| `tcp_fin_in_syn_received` | the client closes at once, 1 timeout | finding 3 |
| `listener_accept_in_handshake` | 1 client, 1 accept(), fair threads | finding 4 |

The bounds are the least at which the cases happen. Two timers suffice for an earlier timer to
arrive while another is slept on; with three a third is queued behind them, and a clock of 2 gives
equal, earlier and later deadlines. In the buffer run packets overlap two others, precede the first
expected byte and straddle the wrap. In `tcp_transfer` the write exceeds the send buffer, so
the send and the close are both saved and resumed. `tcp_reorder` has room for the three duplicate
acknowledgements that start a fast retransmit. One timeout resends everything; two, in `tcp_close`,
let both sides resend, or one side twice. Three clients overfill a backlog of two, and leave one to
connect after the only accept() was answered; one packet sent again gives two copies of a SYN. Five
calls open, use and close a socket and use its address again while the other one is in use, and pools
of two have to grow. In `tcp_ap` a retransmission joins a queued original, and four segments
to acknowledge reach each delay and start again.

`timer_manager` creates timers in the order of their numbers and `udp_calls` lets the least idle thread
call: the timers and the threads are alike, and symmetry is not sound for liveness.

Deadlock is not checked except in `packet_buffer`: all timers may be resolved with the clock at its bound,
the calls used up, a connection ends, or its packets are all lost with the timeouts used up.

**Fairness** is assumed in four runs. `timer_manager`: weak fairness of the clock, of the timer thread and
of the steps by which the Dispatcher finishes an `enqueue()` it has begun. A preemptive kernel runs both
threads, and none of them holds a lock while it waits for the other. Nothing is assumed about new
calls of `enqueue()`. `udp_calls`: the three threads of the daemon run, and a thread whose semaphore was
posted returns; nothing about new calls or the network. `tcp_ap`: time passes, and a timer of the limiter
that is due fires, which is what `EveryTimerResolved` says of the timer thread. `listener_accept_in_handshake`:
the protocol's thread runs, packets arrive, and the application calls accept() whenever it is not blocked
in it, as the quoted line supposes.

`OtherAssertionsHold` excludes four failures that are reachable: the two probe and resend lengths
(`TCPTahoeBaseCongestionControl.cc:244` and `:257`), the one of finding 1, and the read of the unset
connect event.

### Findings

1. `handle_data` asserts that data which passed the sequence number test fits in the window. A probe
   of a window open by less than a segment carries a whole segment and does not.
2. A delayed duplicate of the SYN+ACK, whose acknowledgement number is out of range by then, reaches
   the reliability context before any test of its sequence number and sets RCV.NXT back. A later
   duplicate of delivered data is delivered again.
3. When the ACK of the handshake is lost and the client closes at once, its FIN takes the server
   from SYN-RECEIVED to ESTABLISHED. The reliability context counts and acknowledges the FIN, the
   connection manager ignores it, and the server never learns that the client is done.
4. An accept() called between the SYN and the ACK of a connection is saved in the container that the
   listener got at the SYN. The established connection looks for it in the container it took over,
   so accept() blocks beside a backlog that holds the connection.

Also reachable in `Listener`, and listed as hazards: clients that connect between two calls of
accept() get the same identifier, and closing one of them fails an assertion of
`imodule_delete_socket`; a saved accept event that was copied at a SYN is answered twice; with a
listener on 0.0.0.0 no connection is ever established.

## Proofs

`TimeoutEventManagerProofs` proves, for every finite set of timers and every bound on the clock, all
invariants of `timer_manager`, its action property, and that the threads implement `TimerService`.
The invariants are not inductive; `IInv` adds

- `ControlInv`: the lock is held exactly from the insertion to the unlock, and the manager holds a
  timer exactly between its dequeue and its next one;
- `WakeInv`: a manager about to sleep, or asleep, holds a timer that is least and not cancelled,
  unless a post has been made or is still under way; this is what makes `NoLostWakeup` inductive;
- `CountInv`: the number of queued elements is `counter` plus the elements inserted and not yet
  counted plus the one the manager has already waited for. Its proof uses the cardinality theorems;
- `CancelInv`: a cancelled timer that was in time is still in `canceled_events_` as long as it is
  queued or held, so the next look-up finds it.

There is a lemma per action, `NextIInv` puts them together, and each theorem follows from `IInv`.
`Refinement` maps every step to a step of `TimerService` or a stutter. The assumptions are that
`Timers` is finite, `NoTimer` is not one of them and `MaxTime` is a natural number.

`SeqSpaceProofs` proves, at every width, that `less_than` orders any two different numbers exactly one
way; that the receiver's test accepts exactly the numbers whose distance from RCV.NXT is below the
window, for windows of at most half the range; and that the sender's test accepts exactly the
acknowledgements of at least one and at most all outstanding bytes.

`TCPPacketBufferProofs` proves every property of `packet_buffer`, its action property included, for every
width of the sequence numbers, every first number, every length of packets and every stream of at most
half the numbers (`StreamAssumption`; beyond that the comparisons of `Math.cc` mean something else).

- Positions take the place of sequence numbers: `SeqAtOrder` and `SeqAtPlus` show that the circular tests
  and sums of the code agree with the positions, wrapped around or not, and `PassPacket` says what a
  loop does with a packet that way.
- The loops of `size()` and `get_continuous_data()` are recursive functions. `LoopRuns` shows that such a
  function has the values its definition says, `SetInduction` is induction over the rounds (the library's
  theorem with the predicate as a set); both are in `SeqSpaceProofs`. `SizeIsCover`: over a sorted list `size()` is the number of
  positions behind the last one handed out that some packet covers. It holds because a packet which
  begins before the position reached has all it has up to there in common with the packet that reached
  it. `ScanTakes`: the scan takes all positions up to the first hole.
- `LowerBoundFinds` and `PlacedCovers`: insert() keeps the list sorted and adds the packet's positions; a packet
  it takes out again because size() did not grow had none to add, as two finite sets of the same size, one
  within the other, are equal.
- `BufInv`, the inductive invariant: the list is sorted and covers exactly the positions that were given
  and not handed out; what was handed out is the beginning of the stream.

`ListenerProofs` proves every invariant of `listener`, for any number of clients, calls
and retransmissions and any backlog of at least one. Its `IInv` adds the shapes of the variables and
`MapInv`: a live socket and its container are among those created. So the container that a SYN gives
the listener is in nobody's hands, and the one the new socket takes over was the listener's alone. An
empty backlog is never popped because push() fails only when the backlog is full, which with a capacity
of at least one is not empty. `FirstComeFirstServed` follows from an invariant that splits the established
connections into those handed out and those in the backlog, in this order; `EstablishedByItsClient` from one
that says which packets may go to which socket: a key of the collection is the client of its socket.

`TCPAPProofs` proves `PacedInOrder` and `AckTimerCoversPending`, for any intervals, delays and bounds. The
invariant of the limiter (`LimiterOK`) adds that a limiter which may send has no timer, so that no timer
fires a second time, and that intervals lie within the range of the clock; the one of the
acknowledgements (`ReliabilityOK`) adds types. Each is shown for every way in which a segment reaches the
limiter or an acknowledgement is counted.

`UDPCallPathProofs` proves `CallersOwnTheirEntries`, for any number of threads, sockets, entries and calls,
overlapping ones included. `WedgeInv` adds what the tables are, and that a waiting call's number is never
the one that marks a free entry: entries are freed without the lock, by the thread that owns them, and
the daemon's answers change neither the number nor the owner.

It also proves that answers wake the calls they answer, that no assertion of the daemon fails,
that no event object is in two hands and the types, for any number of threads, sockets, entries, calls and
objects. Its hypothesis is `Apartness`: calls on one socket do not overlap, no two sockets share a port, and no address
is used again before the daemon has deleted its Socket (`EarlyReuse = FALSE`).
The instance of `udp_calls` satisfies it, and without it the properties fail (see above). `PathInv` follows a
call through the daemon: the calls of one socket are at one place at most (`Apart`: a netlink message, a
queued event, a saved receive, or a response), the event there is the one `event_map_` has for the
socket (`QueInv`, `SavInv`, `ResInv`), objects in use are not free (`PoolInv`), every Socket is in the collection under
its own key (`CollInv`), and one that is to be deleted belongs to a socket its application closes
(`LifeInv`). There is a lemma for every action.

`EventsOwned` proves both halves of `EventsOwnedOnce`. `ClaimedOnce` follows from `PathInv`. `CloseEventKept` has the further
hypothesis `FewSockets`, no more sockets than objects in a new pool, without which it fails. Its invariant counts. `LentInv`: a
close event that is neither free nor being released is out with the socket that filled it in, whose close
nobody answered. `NotedClose`: a socket whose last event is a close is one its application leaves, so it
sends nothing more. `KeptInv`: while the thread of the protocol is between answer and read, the event it will read is out, or
in the list of free ones behind more objects than there are open sockets that can still take one. When the event is
released, all others that are not free are out with sockets that cannot take another, so enough objects
are before it; a close event taken later moves it up by one and leaves one socket less.

`TCPTahoeProofs` proves `SegmentsCarryTheStream`, `ContextsAgree`, `TimerCoversOutstanding`, `FlightWithinCwnd` and
`TypeOK` of a connection between two hosts, data in both directions included, for every payload, segment
size, window, buffer size and number of timeouts and duplicates. The hypothesis is `StreamsFit`: the stream, its
SYN and its FIN end below half the sequence numbers (the container's constructor starts at 1, so this is a
stream of almost 2^31 bytes), a segment has at least two bytes, and the payload has neither of the two bytes
that stand for SYN and FIN in the send buffer. Without the last one the properties fail: a payload byte 22
at the front of the buffer is resent as a SYN.

- The reliability context numbers a segment when it leaves the queue, congestion control cuts it out of
  the buffer when it puts it there, so in between the two contexts disagree. `Numbered` says how they do: the
  events of the queue take consecutive numbers from SND.NXT of the reliability context on, each segment
  carries the bytes of its number, and the number after the last is SND.NXT of congestion control. In the
  empty queue the two are equal.
- `SenderOK`, the invariant of a sender, is made of `Counters` (the order of SND.UNA, SND.NXT, SND.MAX and the end of
  the buffer in both contexts), `Bytes` (the buffer holds the stream from SND.UNA on, with SYN before and
  FIN after the data), `Calls` (what a saved send and a saved close wait for), `Window`, and one of two modes:
  `Sending`, as above, or `Resending`, when a resend is at the front of the queue and congestion control has
  not gone back yet. When a FIN is resent only congestion control moves beyond it; `Sending` states how far.
- `Beside(c, d)` says that a handler left the sender alone: there is a lemma for every handler of the receiver
  and of the connection manager, and `BesideKeeps` disposes of all of them. `SendPackets` is the loop of
  send_packets (induction over its rounds with `LoopRuns`), `SendSegment` and `FirstSend` number a segment, `ResendKeeps` goes
  back, `NewAckHost` and `OldAckHost` take an acknowledgement.
- A host whose first SYN is not numbered yet is not a sender (`Fresh`). It stays in order because no
  acknowledgement can reach it: `Handshake` says that its peer has received nothing and so has sent nothing
  but SYNs (`Silent`).
- `Inv` is all this for both hosts and every packet under way, with the types of the receiver and of the
  packets. `NextInv` has a lemma for every action or group of actions.

`TCPDeliveryProofs` relates the two ends: it proves `DeliveredIsPrefix`, `WindowAccountsForBuffers`,
`FinAfterEverythingRead`, `AcknowledgedWasReceived` and `OtherAssertionsHold`, for all values of the constants that
`StreamsFit` allows. The code breaks the first four in one way, finding 2: an old SYN+ACK whose acknowledgement is not valid sets RCV.NXT back. So
the theorems have a second hypothesis, `[][~TakesOldSynAck]_vars`: no host takes such a packet when it expects more
than the byte after the SYN. It is about the behaviour and not about the constants, because whether such a
packet exists depends on what is repeated and resent; all other losses, duplicates and delays are
included, and so are SYN+ACKs that come again and are refused, or come again before data.

- `Slice(P, i, j)` are the bytes of a payload with numbers i to j - 1, `Limit(s)` is the number after the last byte
  that a sender has both accepted and sent. `InOrder`: what the application has read and what waits to be
  read are a slice from the first byte on, the list behind it holds only bytes of the stream below the limit
  (`ListOf`), and RCV.NXT is the first byte wanted, or the one after the FIN (`PastFin`).
- The loops of the buffer under it: `ScanUp` and `Continuous` (the scan moves the front of the list over what it
  returns, and size() goes down by as much), `Inserted` (size() goes up by what insert() reports). `Room`
  turns that into the window accounting.
- `SentOK` is what a packet under way says of its sender and its receiver: data below the limit, and a FIN after all
  bytes, sent only when the receiver has them. The last follows from `Acked` (SND.UNA is at most RCV.NXT of the
  peer) and from the sender's invariant, by which a FIN leaves an empty buffer.
- `FinTaken`: a connection manager that has taken a FIN belongs to a receiver that has read everything. A FIN is
  saved while anything is unread; the one that comes back (`Waiting`) is the same packet, and no SYN or data can
  come between.
- A step changes one host: `HostStep(c, t, s, P)` says that what it has received is still in order, that what it takes
  as acknowledged has been received, and that it only moves forward (`Progress`). There is a lemma for every
  handler; `FlowChange` puts the two directions together.
- `OtherAssertionsHold` is shown along with them (`Checked`; `Passes` says that a handler leaves all this alone and
  fails no other assertion). It needs facts about both ends. The reassembly buffer takes no data before the
  SYN, because a peer that sends data has had its SYN acknowledged (`Opened`, `DataBehindSyn`), which no packet does
  that acknowledges less (`AckNo`). What the buffer gives starts at RCV.NXT (`Ahead`: there is a hole before the list).
  A resend finds its segment in the send buffer (`ResendStarts`, `StepResend`).

Only model-checked: liveness, which is beyond this prover.

## Not modelled

- Packets and header options (byte layout), logging, tracing, option parsing, raw socket I/O, WiFu Core
  (packet interception): no state the properties depend on. Socket options only store bytes.
- The front-end library, which the wedge replaces.
- In the wedge: listen, accept and the options, which take the same path as the modelled calls; ioctl,
  poll and shutdown, whose messages the daemon does not understand; signals; what answers carry (an
  entry points into the netlink message, which is freed when `nl_data_ready` returns); the start and
  stop of the daemon. A daemon that starts again knows no socket, so the next call stops it.
- The arithmetic of adaptive pacing and of the round trip estimate, which is floating point.
- Registration with the Dispatcher, done once at start-up.
- Liveness of a TCP connection (connect, transfer, close) under fair delivery: the number of states with
  enough timeouts for a lossy network is beyond TLC here.
