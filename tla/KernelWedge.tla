------------------------------ MODULE KernelWedge ------------------------------
(***************************************************************************)
(* The kernel module: a socket call of an application takes an entry of     *)
(* wedge_calls, sends a netlink message to the daemon and sleeps on the     *)
(* entry's semaphore until nl_data_ready, which the daemon's answer runs in *)
(* the thread that sends it, fills in the entry.  The message does not      *)
(* carry the number or the entry of the call: an answer finds its call by   *)
(* the socket and the type of call.                                         *)
(*                                                                          *)
(* A socket is named by the address of its struct sock, which the allocator *)
(* gives out again once the socket is released.  Applications call release  *)
(* only when no other call holds the file, so the loop in                   *)
(* wedge_sockets_remove that wakes such calls finds none.                   *)
(*                                                                          *)
(* A call holds lock_sock until its message is sent, and takes the two      *)
(* table semaphores on the way without waiting for anyone who needs that    *)
(* lock, so it is one step.  Signals that interrupt the wait are not        *)
(* modelled.  After it sends its message a call frees a pointer that it     *)
(* never set; of what may follow the model has the case that nothing does,  *)
(* as the other ones end the kernel.                                        *)
(***************************************************************************)
EXTENDS Naturals, Sequences, FiniteSets

CONSTANTS
    Threads,        \* threads of applications
    SockIds,        \* addresses of struct sock
    MAX_CALLS,      \* entries of wedge_calls (100 in the code)
    MaxCallCount,   \* bound: calls that are made
    Overlap,        \* whether two calls may be under way on one socket
    BindPorts,      \* for each socket the ports its application binds it to
    SendPorts       \* the ports datagrams are sent to

CallTypes == {"socket", "bind", "connect", "sendto", "recvfrom", "close"}
Slots == 1 .. MAX_CALLS
CallIds == 1 .. MaxCallCount

ASSUME WedgeAssumption ==
    /\ MAX_CALLS \in Nat /\ MaxCallCount \in Nat
    /\ Overlap \in BOOLEAN
    /\ 0 \notin SockIds
    /\ SendPorts \subseteq Nat
    /\ BindPorts \in [SockIds -> SUBSET Nat]

VARIABLES
    wedge_calls,    \* the table of calls; call_id = 0 marks a free entry (-1 in the code)
    wedge_sockets,  \* the sockets in the wedge's table
    call_count,     \* calls numbered so far
    caller,         \* for each thread its entry of the table and its call, or Idle
    to_daemon       \* netlink messages the daemon has not read

wedgeVars == <<wedge_calls, wedge_sockets, call_count, caller, to_daemon>>

Idle == [index |-> 0, call_id |-> 0]

\* No field of a free entry is read before wedge_calls_insert sets it.
\* from: the call whose answer was written (not in the code)
FreeEntry == [call_id |-> 0, sock_id |-> 0, call_type |-> "", reply |-> FALSE, from |-> 0]

WedgeInit ==
    /\ wedge_calls = [i \in Slots |-> FreeEntry]
    /\ wedge_sockets = {}
    /\ call_count = 0
    /\ caller = [t \in Threads |-> Idle]
    /\ to_daemon = <<>>

FreeEntries == {i \in Slots : wedge_calls[i].call_id = 0}
FirstOf(S) == CHOOSE i \in S : \A j \in S : i <= j

InFlight(s) == \E i \in Slots : wedge_calls[i].call_id # 0 /\ wedge_calls[i].sock_id = s

\* What the kernel lets a thread call: socket() on an unused address, anything
\* else on an open socket, and release when no call holds the file.
MayCall(s, y) ==
    /\ y = "socket" <=> s \notin wedge_sockets
    /\ InFlight(s) => /\ Overlap
                      /\ y \notin {"socket", "close"}
                      /\ \A i \in Slots : wedge_calls[i].sock_id = s =>
                            wedge_calls[i].call_type \notin {"socket", "close"}

InsertAtStart(i) == i = 1
InsertFirstFree(i) == i \in FreeEntries /\ \A j \in FreeEntries : i <= j

\* A call up to its wait.  p is the port of bind() and sendto().
Call(t, s, y, p) ==
    /\ caller[t] = Idle /\ call_count < MaxCallCount
    /\ MayCall(s, y)
    /\ FreeEntries # {}
    /\ \E i \in Slots :
          /\ InsertFirstFree(i)
          /\ wedge_calls' = [wedge_calls EXCEPT ![i] =
                [call_id |-> call_count + 1, sock_id |-> s, call_type |-> y,
                 reply |-> FALSE, from |-> 0]]
          /\ caller' = [caller EXCEPT ![t] = [index |-> i, call_id |-> call_count + 1]]
    /\ wedge_sockets' = wedge_sockets \cup {s}
    /\ call_count' = call_count + 1
    /\ to_daemon' = Append(to_daemon, [type |-> y, fd |-> s, port |-> p, call |-> call_count + 1])

\* The table is full, or nl_send fails: the call returns an error and undoes what
\* it did, so only release leaves a trace: it removes the socket all the same,
\* and the daemon is not told.  The call's number is skipped, and not counted here.
ReleaseFails(t, s) ==
    /\ caller[t] = Idle
    /\ MayCall(s, "close")
    /\ wedge_sockets' = wedge_sockets \ {s}
    /\ UNCHANGED <<wedge_calls, call_count, caller, to_daemon>>

\* The semaphore was posted.  checkConfirmation returns 0 for every answer, so
\* socket() succeeds whatever the daemon said; close() removes the socket.
Return(t) ==
    /\ caller[t] # Idle
    /\ wedge_calls[caller[t].index].reply
    /\ wedge_sockets' = IF wedge_calls[caller[t].index].call_type = "close"
                        THEN wedge_sockets \ {wedge_calls[caller[t].index].sock_id}
                        ELSE wedge_sockets
    /\ wedge_calls' = [wedge_calls EXCEPT ![caller[t].index] = FreeEntry]
    /\ caller' = [caller EXCEPT ![t] = Idle]
    /\ UNCHANGED <<call_count, to_daemon>>

MatchingType(s, y) ==
    {i \in Slots : wedge_calls[i].call_id # 0 /\ wedge_calls[i].call_type = y}

Matching(s, y) ==
    {i \in Slots : /\ wedge_calls[i].call_id # 0
                   /\ wedge_calls[i].sock_id = s
                   /\ wedge_calls[i].call_type = y}

\* The answer r goes to the first entry with its socket and type; with no such
\* entry the code writes to wedge_calls[-1].
wedge_calls_find(s, y) == IF Matching(s, y) = {} THEN 0 ELSE FirstOf(Matching(s, y))

nl_data_ready(r) ==
    [wedge_calls EXCEPT ![wedge_calls_find(r.fd, r.type)] =
        [@ EXCEPT !.reply = TRUE, !.from = r.call]]
================================================================================
