--------------------------- MODULE UDPCallPathProofs ---------------------------
(***************************************************************************)
(* The path of a call through SimpleUDP, for any number of threads,         *)
(* sockets, table entries and event objects, when a socket has one call     *)
(* under way at a time and is bound to ports of its own.                    *)
(*                                                                          *)
(* A call is a netlink message, then a queued event, then perhaps a saved   *)
(* receive, and then a response, and no part of it says where the others    *)
(* are: the answer finds its entry by socket and type, and the event that   *)
(* is released is the one event_map_ has for the socket.  The invariant     *)
(* says that the calls of one socket are at one place at most, and that     *)
(* entry and event are those of the call that is there.                     *)
(***************************************************************************)
EXTENDS SimpleUDP, TLAPS, FiniteSetTheorems

-------------------------------------------------------------------------------
\* The table of calls, also when calls on one socket overlap.  The calls number their entries
\* from call_count and the daemon writes into entries it finds by socket and type: the invariant
\* adds to CallersOwnTheirEntries what the table and the callers are, and that a call under way
\* never has number 0, which marks free entries.

\* e is an entry: its number is one, whatever the daemon wrote into the other fields.
IsEntry(e) ==
    /\ "call_id" \in DOMAIN e
    /\ e.call_id \in Nat

Tables ==
    /\ call_count \in Nat
    /\ wedge_calls = [i \in Slots |-> wedge_calls[i]]
    /\ \A i \in Slots : IsEntry(wedge_calls[i])
    /\ caller \in [Threads -> [index : Nat, call_id : Nat]]
    /\ \A t \in Threads : caller[t] = Idle \/ caller[t].call_id # 0

WedgeInv == Tables /\ CallersOwnTheirEntries

\* 0, the index of an idle thread, is no entry.
LEMMA SlotsPositive == 0 \notin Slots /\ \A i \in Slots : i \in Nat /\ i # 0
BY WedgeAssumption DEF Slots

\* At first the table is free and nobody waits.
LEMMA InitWedge == Init => WedgeInv
<1> SUFFICES ASSUME Init PROVE WedgeInv
  OBVIOUS
<1>1. Tables
  BY DEF Init, WedgeInit, Tables, IsEntry, FreeEntry, Idle
<1>2. \A t \in Threads : caller[t] = Idle
  BY DEF Init, WedgeInit
<1>3. \A i \in Slots : wedge_calls[i].call_id = 0
  BY DEF Init, WedgeInit, FreeEntry
<1> QED BY <1>1, <1>2, <1>3 DEF WedgeInv, CallersOwnTheirEntries

\* wedge_calls_insert takes an entry nobody waits on.
LEMMA CallWedge ==
    ASSUME WedgeInv, NEW t \in Threads, NEW s, NEW y, NEW p, Call(t, s, y, p)
    PROVE  WedgeInv'
<1> DEFINE new == call_count + 1
<1>1. PICK i \in Slots :
        /\ InsertFirstFree(i)
        /\ wedge_calls' = [wedge_calls EXCEPT ![i] =
              [call_id |-> new, sock_id |-> s, call_type |-> y, reply |-> FALSE, from |-> 0]]
        /\ caller' = [caller EXCEPT ![t] = [index |-> i, call_id |-> new]]
  BY DEF Call
<1>2. caller[t] = Idle /\ call_count' = new /\ new \in Nat /\ new # 0
  BY DEF Call, WedgeInv, Tables
<1> HIDE DEF new
<1>3. wedge_calls[i].call_id = 0
  BY <1>1 DEF InsertFirstFree, FreeEntries
<1>4. \A j \in Slots : j # i => wedge_calls'[j] = wedge_calls[j]
  BY <1>1 DEF WedgeInv, Tables
<1>5. wedge_calls'[i] = [call_id |-> new, sock_id |-> s, call_type |-> y, reply |-> FALSE, from |-> 0]
  BY <1>1 DEF WedgeInv, Tables
<1>6. /\ \A u \in Threads : u # t => caller'[u] = caller[u]
      /\ caller'[t] = [index |-> i, call_id |-> new]
  BY <1>1 DEF WedgeInv, Tables
<1>7. \A u \in Threads : u # t /\ caller[u] # Idle => caller[u].index # i
  BY <1>3 DEF WedgeInv, Tables, CallersOwnTheirEntries
<1>8. caller'[t] # Idle /\ caller'[t].index = i /\ caller'[t].call_id = new
  BY <1>2, <1>6 DEF Idle
<1>9. Tables'
  <2>1. IsEntry(wedge_calls'[i])
    BY <1>2, <1>5 DEF IsEntry
  <2>2. \A j \in Slots : IsEntry(wedge_calls'[j])
    BY <2>1, <1>4 DEF WedgeInv, Tables
  <2>3. wedge_calls' = [j \in Slots |-> wedge_calls'[j]]
    BY <1>1 DEF WedgeInv, Tables
  <2>4. caller' \in [Threads -> [index : Nat, call_id : Nat]]
    BY <1>1, <1>2, SlotsPositive DEF WedgeInv, Tables
  <2>5. \A u \in Threads : caller'[u] = Idle \/ caller'[u].call_id # 0
    BY <1>2, <1>6, <1>8 DEF WedgeInv, Tables
  <2> QED BY <1>2, <2>2, <2>3, <2>4, <2>5 DEF Tables
<1>10. CallersOwnTheirEntries'
  <2>1. ASSUME NEW u \in Threads, caller'[u] # Idle
        PROVE  caller'[u].index \in Slots /\ wedge_calls'[caller'[u].index].call_id = caller'[u].call_id
    <3>1. CASE u = t
      BY <3>1, <1>5, <1>8
    <3>2. CASE u # t
      BY <2>1, <3>2, <1>4, <1>6, <1>7 DEF WedgeInv, CallersOwnTheirEntries
    <3> QED BY <3>1, <3>2
  <2>2. ASSUME NEW u \in Threads, NEW v \in Threads,
               caller'[u] # Idle, caller'[v] # Idle, caller'[u].index = caller'[v].index
        PROVE  u = v
    BY <2>2, <1>6, <1>7, <1>8 DEF WedgeInv, CallersOwnTheirEntries
  <2>3. ASSUME NEW j \in Slots, wedge_calls'[j].call_id # 0
        PROVE  \E u \in Threads : caller'[u].index = j
    <3>1. CASE j = i
      BY <3>1, <1>8
    <3>2. CASE j # i
      <4>1. PICK u \in Threads : caller[u].index = j
        BY <2>3, <3>2, <1>4 DEF WedgeInv, CallersOwnTheirEntries
      <4>2. caller[t].index = 0
        BY <1>2 DEF Idle
      <4>3. u # t
        BY <4>1, <4>2, SlotsPositive
      <4> QED BY <4>1, <4>3, <1>6
    <3> QED BY <3>1, <3>2
  <2> QED BY <2>1, <2>2, <2>3 DEF CallersOwnTheirEntries
<1> QED BY <1>9, <1>10 DEF WedgeInv

\* A call frees its own entry.
LEMMA ReturnWedge ==
    ASSUME WedgeInv, NEW t \in Threads, Return(t)
    PROVE  WedgeInv'
<1> DEFINE k == caller[t].index
<1>1. /\ caller[t] # Idle /\ call_count' = call_count
      /\ wedge_calls' = [wedge_calls EXCEPT ![k] = FreeEntry]
      /\ caller' = [caller EXCEPT ![t] = Idle]
  BY DEF Return
<1>2. k \in Slots
  BY <1>1 DEF WedgeInv, CallersOwnTheirEntries
<1>3. \A u \in Threads : u # t /\ caller[u] # Idle => caller[u].index # k
  BY <1>1 DEF WedgeInv, CallersOwnTheirEntries
<1>8. k = caller[t].index
  OBVIOUS
<1> HIDE DEF k
<1>4. /\ \A j \in Slots : j # k => wedge_calls'[j] = wedge_calls[j]
      /\ wedge_calls'[k] = FreeEntry
  BY <1>1, <1>2 DEF WedgeInv, Tables
<1>5. /\ \A u \in Threads : u # t => caller'[u] = caller[u]
      /\ caller'[t] = Idle
  BY <1>1 DEF WedgeInv, Tables
<1>6. Tables'
  <2>1. IsEntry(FreeEntry)
    BY DEF IsEntry, FreeEntry
  <2>2. \A j \in Slots : IsEntry(wedge_calls'[j])
    BY <2>1, <1>4 DEF WedgeInv, Tables
  <2>3. wedge_calls' = [j \in Slots |-> wedge_calls'[j]]
    BY <1>1 DEF WedgeInv, Tables
  <2>4. caller' \in [Threads -> [index : Nat, call_id : Nat]]
    BY <1>1 DEF WedgeInv, Tables, Idle
  <2>5. \A u \in Threads : caller'[u] = Idle \/ caller'[u].call_id # 0
    BY <1>5 DEF WedgeInv, Tables
  <2> QED BY <1>1, <2>2, <2>3, <2>4, <2>5 DEF WedgeInv, Tables
<1>7. CallersOwnTheirEntries'
  <2>1. ASSUME NEW u \in Threads, caller'[u] # Idle
        PROVE  caller'[u].index \in Slots /\ wedge_calls'[caller'[u].index].call_id = caller'[u].call_id
    BY <2>1, <1>3, <1>4, <1>5 DEF WedgeInv, CallersOwnTheirEntries
  <2>2. ASSUME NEW u \in Threads, NEW v \in Threads,
               caller'[u] # Idle, caller'[v] # Idle, caller'[u].index = caller'[v].index
        PROVE  u = v
    BY <2>2, <1>5 DEF WedgeInv, CallersOwnTheirEntries
  <2>3. ASSUME NEW j \in Slots, wedge_calls'[j].call_id # 0
        PROVE  \E u \in Threads : caller'[u].index = j
    <3>0. FreeEntry.call_id = 0
      BY DEF FreeEntry
    <3>1. j # k
      BY <2>3, <3>0, <1>4
    <3>2. PICK u \in Threads : caller[u].index = j
      BY <2>3, <3>1, <1>4 DEF WedgeInv, CallersOwnTheirEntries
    <3>3. u # t
      BY <3>1, <3>2, <1>8
    <3> QED BY <3>2, <3>3, <1>5
  <2> QED BY <2>1, <2>2, <2>3 DEF CallersOwnTheirEntries
<1> QED BY <1>6, <1>7 DEF WedgeInv

\* nl_data_ready keeps the number of the call.
LEMMA AnsweredEntry ==
    ASSUME NEW e, NEW v, IsEntry(e)
    PROVE  /\ IsEntry([e EXCEPT !.reply = TRUE, !.from = v])
           /\ [e EXCEPT !.reply = TRUE, !.from = v].call_id = e.call_id
<1>1. [e EXCEPT !.reply = TRUE, !.from = v].call_id = e.call_id
  BY DEF IsEntry
<1>2. DOMAIN [e EXCEPT !.reply = TRUE, !.from = v] = DOMAIN e
  BY DEF IsEntry
<1> QED BY <1>1, <1>2 DEF IsEntry

\* An answer changes neither the number of a call nor who waits for it.
LEMMA AnswerWedge ==
    ASSUME WedgeInv, NEW r, wedge_calls' = nl_data_ready(r), UNCHANGED <<call_count, caller>>
    PROVE  WedgeInv'
<1> DEFINE k == wedge_calls_find(r.fd, r.type)
           new(e) == [e EXCEPT !.reply = TRUE, !.from = r.call]
           cs == [wedge_calls EXCEPT ![k] = new(wedge_calls[k])]
<1>1. wedge_calls' = cs
  BY DEF nl_data_ready
<1>5. ASSUME NEW e, IsEntry(e)
      PROVE  IsEntry(new(e)) /\ new(e).call_id = e.call_id
  BY <1>5, AnsweredEntry
<1> HIDE DEF k, new
<1>2. \A j \in Slots : j # k => cs[j] = wedge_calls[j]
  BY DEF WedgeInv, Tables
<1>3. k \in Slots => cs[k] = new(wedge_calls[k])
  BY DEF WedgeInv, Tables
<1>4. cs = [j \in Slots |-> cs[j]]
  BY DEF WedgeInv, Tables
<1> HIDE DEF cs
<1>6. \A j \in Slots : IsEntry(cs[j]) /\ cs[j].call_id = wedge_calls[j].call_id
  BY <1>2, <1>3, <1>5 DEF WedgeInv, Tables
<1>7. Tables'
  BY <1>1, <1>4, <1>6 DEF WedgeInv, Tables
<1>8. CallersOwnTheirEntries'
  BY <1>1, <1>6 DEF WedgeInv, CallersOwnTheirEntries
<1> QED BY <1>7, <1>8 DEF WedgeInv

\* A step that leaves table and callers alone.
LEMMA UnchangedWedge ==
    ASSUME WedgeInv, UNCHANGED <<wedge_calls, call_count, caller>>
    PROVE  WedgeInv'
BY DEF WedgeInv, Tables, CallersOwnTheirEntries

\* One step per action; only calls, returns and answers touch the table.
LEMMA NextWedge == WedgeInv /\ [Next]_vars => WedgeInv'
<1> SUFFICES ASSUME WedgeInv, [Next]_vars PROVE WedgeInv'
  OBVIOUS
<1> DEFINE Same == UNCHANGED <<wedge_calls, call_count, caller>>
<1>1. CASE Application
  BY <1>1, CallWedge DEF Application
<1>2. CASE ApplicationFails
  <2>1. Same
    BY <1>2 DEF ApplicationFails, ReleaseFails
  <2> QED BY <2>1, UnchangedWedge
<1>3. ASSUME NEW t \in Threads, ApplicationReturns(t) PROVE WedgeInv'
  BY <1>3, ReturnWedge DEF ApplicationReturns
<1>4. CASE NetlinkThread
  <2>1. Same
    BY <1>4 DEF NetlinkThread, Receive
  <2> QED BY <2>1, UnchangedWedge
<1>5. CASE LibraryResponse
  <2>1. UNCHANGED <<call_count, caller>>
        /\ wedge_calls' \in {wedge_calls, nl_data_ready(Head(responses))}
    BY <1>5 DEF LibraryResponse
  <2> QED BY <2>1, UnchangedWedge, AnswerWedge
<1>6. CASE ReleaseEvent
  <2>1. Same
    BY <1>6 DEF ReleaseEvent, wedgeVars
  <2> QED BY <2>1, UnchangedWedge
<1>7. ASSUME NEW y, Processes(y) PROVE WedgeInv'
  <2>1. Same
    BY <1>7 DEF Processes, wedgeVars
  <2> QED BY <2>1, UnchangedWedge
<1>8. CASE EnqueueDelete
  <2>1. Same
    BY <1>8 DEF EnqueueDelete, wedgeVars
  <2> QED BY <2>1, UnchangedWedge
<1>9. ASSUME NEW d \in network, NetworkReceive(d) \/ Lose(d) PROVE WedgeInv'
  <2>1. Same
    BY <1>9 DEF NetworkReceive, Lose, wedgeVars
  <2> QED BY <2>1, UnchangedWedge
<1>10. CASE UNCHANGED vars
  <2>1. Same
    BY <1>10 DEF vars, wedgeVars
  <2> QED BY <2>1, UnchangedWedge
<1>11. CASE \/ ProcessSocket \/ ProcessBind \/ ProcessConnect \/ ProcessSend \/ ProcessReceive
            \/ ProcessPacket \/ ProcessClose \/ ProcessDelete
  <2>1. \E y \in Kinds : Processes(y)
    BY <1>11 DEF ProcessSocket, ProcessBind, ProcessConnect, ProcessSend, ProcessReceive,
       ProcessPacket, ProcessClose, ProcessDelete, Kinds, LibraryKinds, CallTypes
  <2> QED BY <2>1, <1>7
<1> QED
  BY <1>1, <1>2, <1>3, <1>4, <1>5, <1>6, <1>8, <1>9, <1>10, <1>11 DEF Next

\* The table of calls, for any number of threads, sockets and entries: a thread that
\* waits owns its entry alone, and an entry in use has the thread that frees it.
THEOREM EntriesOwned == Spec => []CallersOwnTheirEntries
<1>1. WedgeInv => CallersOwnTheirEntries
  BY DEF WedgeInv
<1> QED BY <1>1, InitWedge, NextWedge, PTL DEF Spec

-------------------------------------------------------------------------------
\* The path of a call, when calls on one socket do not overlap.

Members(q) == {q[i] : i \in DOMAIN q}

-------------------------------------------------------------------------------
\* Facts about sequences.

\* A sequence of more things.
LEMMA SeqWidens == ASSUME NEW S, NEW T, S \subseteq T, NEW q \in Seq(S) PROVE q \in Seq(T)
OBVIOUS

\* Append: the new element is the last, and the others stay.
LEMMA AppendFacts ==
    ASSUME NEW S, NEW q \in Seq(S), NEW e \in S
    PROVE  /\ Append(q, e) \in Seq(S)
           /\ DOMAIN Append(q, e) = DOMAIN q \cup {Len(q) + 1} /\ Len(q) + 1 \notin DOMAIN q
           /\ \A i \in DOMAIN q : Append(q, e)[i] = q[i]
           /\ Append(q, e)[Len(q) + 1] = e
           /\ Members(Append(q, e)) = Members(q) \cup {e}
<1>1. /\ Append(q, e) \in Seq(S)
      /\ DOMAIN Append(q, e) = DOMAIN q \cup {Len(q) + 1} /\ Len(q) + 1 \notin DOMAIN q
      /\ \A i \in DOMAIN q : Append(q, e)[i] = q[i]
      /\ Append(q, e)[Len(q) + 1] = e
  OBVIOUS
<1> QED BY <1>1 DEF Members

\* Tail: the first element goes, and the others move up.
LEMMA TailFacts ==
    ASSUME NEW S, NEW q \in Seq(S), q # <<>>
    PROVE  /\ Tail(q) \in Seq(S) /\ Head(q) \in S /\ Head(q) \in Members(q)
           /\ Head(q) = q[1] /\ 1 \in DOMAIN q
           /\ \A i \in DOMAIN Tail(q) :
                 i + 1 \in DOMAIN q /\ Tail(q)[i] = q[i + 1] /\ i + 1 # 1 /\ i \in Nat
           /\ Members(Tail(q)) \subseteq Members(q)
<1>1. /\ Tail(q) \in Seq(S) /\ Head(q) \in S
      /\ Head(q) = q[1] /\ 1 \in DOMAIN q
      /\ \A i \in DOMAIN Tail(q) :
            i + 1 \in DOMAIN q /\ Tail(q)[i] = q[i + 1] /\ i + 1 # 1 /\ i \in Nat
  OBVIOUS
<1> QED BY <1>1 DEF Members

\* The least of a set of numbers.
LEMMA FirstOfFacts ==
    ASSUME NEW S \in SUBSET Nat, S # {}
    PROVE  FirstOf(S) \in S /\ \A j \in S : FirstOf(S) <= j
<1> DEFINE Below == OpToRel(<, Nat)
<1>1. IsWellFoundedOn(Below, Nat) BY NatLessThanWellFounded, Zenon
<1>2. ASSUME NEW j \in Nat, NEW k \in Nat, j < k PROVE <<j, k>> \in Below
  BY <1>2, Zenon DEF OpToRel
<1> HIDE DEF Below
<1>3. PICK k \in S : \A j \in S : ~(<<j, k>> \in Below) BY <1>1, WFMin, Zenon
<1>4. \A j \in S : ~(j < k) BY <1>2, <1>3, Zenon
<1>5. \A j \in S : k <= j BY <1>4
<1> QED BY <1>5 DEF FirstOf

\* q with e at place p.
Inserted(q, e, p) == SubSeq(q, 1, p - 1) \o <<e>> \o SubSeq(q, p, Len(q))

\* The elements of the sequence with e in it.
LEMMA InsertFacts ==
    ASSUME NEW S, NEW q \in Seq(S), NEW e \in S, NEW p \in 1 .. (Len(q) + 1)
    PROVE  /\ Inserted(q, e, p) \in Seq(S) /\ Len(Inserted(q, e, p)) = Len(q) + 1
           /\ \A i \in 1 .. (Len(q) + 1) :
                 Inserted(q, e, p)[i] = IF i < p THEN q[i] ELSE IF i = p THEN e ELSE q[i - 1]
<1> DEFINE a == SubSeq(q, 1, p - 1)
           b == SubSeq(q, p, Len(q))
<1>1. a \in Seq(S) /\ Len(a) = p - 1 /\ \A i \in 1 .. (p - 1) : a[i] = q[i] OBVIOUS
<1>2. b \in Seq(S) /\ Len(b) = Len(q) - p + 1 /\ \A i \in 1 .. (Len(q) - p + 1) : b[i] = q[p + i - 1]
  OBVIOUS
<1> HIDE DEF a, b
<1>3. /\ a \o <<e>> \in Seq(S) /\ Len(a \o <<e>>) = p
      /\ \A i \in 1 .. p : (a \o <<e>>)[i] = IF i < p THEN q[i] ELSE e
  BY <1>1
<1> DEFINE c == a \o <<e>>
<1>4. c \in Seq(S) /\ Len(c) = p /\ \A i \in 1 .. p : c[i] = IF i < p THEN q[i] ELSE e BY <1>3
<1> HIDE DEF c
<1>5. /\ c \o b \in Seq(S) /\ Len(c \o b) = Len(q) + 1
      /\ \A i \in 1 .. (Len(q) + 1) :
            (c \o b)[i] = IF i < p THEN q[i] ELSE IF i = p THEN e ELSE q[i - 1]
  <2>1. c \o b \in Seq(S) /\ Len(c \o b) = Len(q) + 1
    <3>0. c \in Seq(S) /\ b \in Seq(S) BY <1>2, <1>4
    <3>1. c \o b \in Seq(S) /\ Len(c \o b) = Len(c) + Len(b) BY <3>0
    <3>2. Len(q) \in Nat /\ p \in Nat OBVIOUS
    <3> QED BY <1>2, <1>4, <3>1, <3>2
  <2>2. \A i \in 1 .. p : (c \o b)[i] = c[i] BY <1>2, <1>4
  <2>3. ASSUME NEW i \in (p + 1) .. (Len(q) + 1) PROVE (c \o b)[i] = q[i - 1]
    <3>1. (c \o b)[i] = b[i - p] BY <1>2, <1>4
    <3>2. i - p \in 1 .. (Len(q) - p + 1) /\ p + (i - p) - 1 = i - 1 OBVIOUS
    <3> QED BY <1>2, <3>1, <3>2
  <2> QED BY <1>4, <2>1, <2>2, <2>3
<1> QED BY <1>5 DEF a, b, c, Inserted

\* PriorityQueue: the new event has a place, and the others keep their order.
LEMMA EnqueueFacts ==
    ASSUME NEW S, NEW q \in Seq(S), NEW e \in S
    PROVE  \E p \in 1 .. (Len(q) + 1) :
              /\ enqueue(q, e) \in Seq(S) /\ Len(enqueue(q, e)) = Len(q) + 1
              /\ \A i \in 1 .. (Len(q) + 1) :
                    enqueue(q, e)[i] = IF i < p THEN q[i] ELSE IF i = p THEN e ELSE q[i - 1]
              /\ e.kind # "delete" => p = Len(q) + 1
<1> DEFINE Later == {i \in DOMAIN q : Priority(q[i]) > Priority(e)}
           p == FirstOf(Later \cup {Len(q) + 1})
<1>1. Later \cup {Len(q) + 1} \in SUBSET Nat OBVIOUS
<1>2. p \in Later \cup {Len(q) + 1} BY <1>1, FirstOfFacts
<1>3. p \in 1 .. (Len(q) + 1) BY <1>2
<1>4. ASSUME e.kind # "delete" PROVE p = Len(q) + 1
  <2>1. Later = {} BY <1>4 DEF Priority, HIGH, LOW
  <2> QED BY <1>2, <2>1
<1>5. enqueue(q, e) = Inserted(q, e, p) BY DEF enqueue, Inserted
<1> HIDE DEF p
<1>6. /\ enqueue(q, e) \in Seq(S) /\ Len(enqueue(q, e)) = Len(q) + 1
      /\ \A i \in 1 .. (Len(q) + 1) :
            enqueue(q, e)[i] = IF i < p THEN q[i] ELSE IF i = p THEN e ELSE q[i - 1]
  <2>1. /\ Inserted(q, e, p) \in Seq(S) /\ Len(Inserted(q, e, p)) = Len(q) + 1
        /\ \A i \in 1 .. (Len(q) + 1) :
              Inserted(q, e, p)[i] = IF i < p THEN q[i] ELSE IF i = p THEN e ELSE q[i - 1]
    BY <1>3, InsertFacts
  <2> QED BY <1>5, <2>1
<1> QED BY <1>3, <1>4, <1>6
-------------------------------------------------------------------------------
\* What the variables hold.
Contents == [sock : Nat, fd : SockIds \cup {0}, port : Nat, call : Nat]
Messages == [type : CallTypes, fd : SockIds, port : Nat, call : CallIds]
Events == [kind : Kinds, n : Nat, sock : Nat, datagram : Nat]
Responses == [sock : Nat, fd : SockIds, type : CallTypes, call : Nat]
SocketRecords == [id : SockIds, addr : {"any", "host"}, port : Nat]
Containers == [receive_event : Nat, packet_queue : Seq(Nat)]
Objects == [type : CallTypes \cup {""}, n : Nat]
Pools == [free : Seq(Nat), size : Nat]
Entries == [call_id : Nat, sock_id : SockIds \cup {0}, call_type : CallTypes \cup {""},
            reply : BOOLEAN, from : Nat]

WedgeShape ==
    /\ wedge_calls \in [Slots -> Entries]
    /\ wedge_sockets \in SUBSET SockIds
    /\ call_count \in Nat /\ call_count <= MaxCallCount
    /\ failed = "none"

QueueShape ==
    /\ to_daemon \in Seq(Messages)
    /\ udp_queue \in Seq(Events)
    /\ responses \in Seq(Responses)

ObjectShape ==
    /\ content \in [CallTypes -> Seq(Contents)]
    /\ pool \in [CallTypes -> Pools]
    /\ event_map_ \in [SockIds -> Objects]
    /\ releasing \in Objects

SocketShape ==
    /\ socket \in [DOMAIN socket -> SocketRecords]
    /\ DOMAIN socket \subseteq 1 .. call_count
    /\ collection_ = [k \in DOMAIN collection_ |-> collection_[k]]
    /\ map_ \in [DOMAIN map_ -> Containers]
    /\ closing \in [n : Nat, call : Nat]
    /\ network \in SUBSET [id : Nat, port : Nat]

Shape == WedgeShape /\ QueueShape /\ ObjectShape /\ SocketShape
-------------------------------------------------------------------------------
\* The call c of type y on socket s has an entry, and no answer yet.
Waiting(s, y, c) ==
    \E i \in Slots : /\ wedge_calls[i].call_id = c /\ c # 0 /\ wedge_calls[i].sock_id = s
                     /\ wedge_calls[i].call_type = y /\ wedge_calls[i].reply = FALSE

\* A call of type y on socket s has an entry.
CallOf(s, y) ==
    \E i \in Slots : /\ wedge_calls[i].call_id # 0
                     /\ wedge_calls[i].sock_id = s /\ wedge_calls[i].call_type = y

\* A socket has one call under way, and it is open; calls have their own numbers.
EntryInv ==
    /\ \A i, j \in Slots :
          /\ wedge_calls[i].call_id # 0 /\ wedge_calls[j].call_id # 0
          /\ wedge_calls[i].sock_id = wedge_calls[j].sock_id
          => i = j
    /\ \A i, j \in Slots :
          wedge_calls[i].call_id # 0 /\ wedge_calls[i].call_id = wedge_calls[j].call_id => i = j
    /\ \A i \in Slots :
          wedge_calls[i].call_id <= call_count /\ wedge_calls[i].from <= call_count
    /\ \A i \in Slots : wedge_calls[i].call_id # 0 => wedge_calls[i].sock_id \in wedge_sockets

\* Call c of type y on socket s is in the daemon, for its Socket x: the event that
\* event_map_ has for the socket is the one the call filled in, and it is in use.
Ticket(s, y, c, x) ==
    /\ s \in SockIds /\ y \in CallTypes
    /\ Waiting(s, y, c)
    /\ x \in DOMAIN socket /\ socket[x].id = s
    /\ event_map_[s].type = y /\ event_map_[s].n \in 1 .. Len(content[y])
    /\ content[y][event_map_[s].n].fd = s
    /\ content[y][event_map_[s].n].call = c
    /\ content[y][event_map_[s].n].sock = x
    /\ event_map_[s].n \notin Members(pool[y].free)
    /\ event_map_[s] # releasing

CollSocks == {collection_[k] : k \in DOMAIN collection_}

\* The protocol has a Socket for s.
Opened(s) == \E x \in DOMAIN map_ : socket[x].id = s

\* The places a call goes through: messages, queued events, saved receives,
\* responses; and the sockets whose calls are there.
FdsOf(q) == {q[i].fd : i \in DOMAIN q}
Library(q) == {e \in Members(q) : e.kind \in CallTypes}
QueFds == {content[e.kind][e.n].fd : e \in Library(udp_queue)}
SavedIn == {x \in DOMAIN map_ : map_[x].receive_event # 0}
SavFds == {socket[x].id : x \in SavedIn}

\* Each place has a socket once, and no two places have the same one.
FdOnce(q) == \A i, j \in DOMAIN q : q[i].fd = q[j].fd => i = j
ObjectOnce(q) ==
    \A i, j \in DOMAIN q :
        q[i].kind \in CallTypes /\ q[i].kind = q[j].kind /\ q[i].n = q[j].n => i = j

Apart ==
    /\ FdsOf(to_daemon) \cap (QueFds \cup SavFds \cup FdsOf(responses)) = {}
    /\ QueFds \cap (SavFds \cup FdsOf(responses)) = {}
    /\ SavFds \cap FdsOf(responses) = {}

MessageOK(m) ==
    /\ Waiting(m.fd, m.type, m.call)
    /\ m.call \notin DOMAIN socket
    /\ m.type = "bind" => m.port \in BindPorts[m.fd]
    /\ m.type = "socket" => \A x \in CollSocks : socket[x].id # m.fd
    /\ m.type # "socket" => Opened(m.fd)

MsgInv == FdOnce(to_daemon) /\ \A m \in Members(to_daemon) : MessageOK(m)

\* e is a queued event of a call, and o what its object holds.
EventOK(e, o) ==
    /\ Ticket(o.fd, e.kind, o.call, o.sock) /\ event_map_[o.fd].n = e.n
    /\ e.kind = "bind" => o.port \in BindPorts[o.fd]
    /\ e.kind = "socket" => o.sock \in CollSocks

QueInv ==
    /\ ObjectOnce(udp_queue)
    /\ \A e \in Library(udp_queue) : EventOK(e, content[e.kind][e.n])

\* Socket x has saved a receive, with the object n, and s is its identifier.
SavedOK(x, n, s) ==
    /\ Ticket(s, "recvfrom", content["recvfrom"][n].call, x)
    /\ event_map_[s].n = n

SavInv == \A x \in SavedIn : SavedOK(x, map_[x].receive_event, socket[x].id)

ResInv ==
    /\ FdOnce(responses)
    /\ \A r \in Members(responses) : Ticket(r.fd, r.type, r.call, r.sock)

PoolOK(p, c) ==
    /\ p.size = Len(c) /\ p.size # 0
    /\ \A i \in DOMAIN p.free : p.free[i] \in 1 .. p.size
    /\ \A i, j \in DOMAIN p.free : p.free[i] = p.free[j] => i = j

PoolInv ==
    /\ \A y \in CallTypes : PoolOK(pool[y], content[y])
    /\ releasing # NoEvent =>
          /\ releasing.type \in CallTypes /\ releasing.n \in 1 .. Len(content[releasing.type])
          /\ releasing.n \notin Members(pool[releasing.type].free)

\* The collection has every Socket under its key, one per identifier.
CollInv ==
    /\ \A k \in DOMAIN collection_ :
          collection_[k] \in DOMAIN socket /\ KeyOf(socket, collection_[k]) = k
    /\ \A x, y \in CollSocks : socket[x].id = socket[y].id => x = y
    /\ \A x \in CollSocks : socket[x].port \in BindPorts[socket[x].id] \cup {EphemeralPort(x)}
    /\ DOMAIN map_ \subseteq CollSocks

\* Sockets that are deleted next.
Doomed ==
    {e.sock : e \in {f \in Members(udp_queue) : f.kind = "delete"}}
    \cup (IF closing = NotClosing THEN {} ELSE {content["close"][closing.n].sock})

\* The application closes s, or has closed it.
Leaving(s) == s \notin wedge_sockets \/ (s \notin FdsOf(to_daemon) /\ CallOf(s, "close"))

\* The protocol has a Socket for s, or will have one, or s is closed.
Served(s) ==
    \/ Opened(s)
    \/ CallOf(s, "close")
    \/ s \notin FdsOf(responses) /\ \E c \in Nat : Waiting(s, "socket", c)

\* A Socket is deleted while its application closes it or after that, and every
\* open socket has a Socket until then.
LifeInv ==
    /\ closing # NotClosing => closing.n \in 1 .. Len(content["close"])
    /\ Doomed \subseteq DOMAIN socket
    /\ \A x \in Doomed \cap CollSocks, s \in SockIds : socket[x].id = s => Leaving(s)
    /\ \A s \in wedge_sockets : Served(s)

PathInv ==
    /\ Shape /\ EntryInv /\ ReplyAnswersItsCall
    /\ MsgInv /\ QueInv /\ SavInv /\ ResInv /\ Apart
    /\ PoolInv /\ CollInv /\ LifeInv

\* Calls on one socket do not overlap, the address of a socket is not used again
\* before the daemon has deleted its Socket, and applications bind each socket to
\* ports that no other socket has.
Apartness ==
    /\ Overlap = FALSE /\ EarlyReuse = FALSE
    /\ \A s, t \in SockIds : s # t => BindPorts[s] \cap BindPorts[t] = {}
    /\ \A s \in SockIds, x \in CallIds : EphemeralPort(x) \notin BindPorts[s]

-------------------------------------------------------------------------------
\* Taking from a queue and adding to it, for things that are in it once.
LEMMA FdTail ==
    ASSUME NEW S, NEW q \in Seq(S), q # <<>>, FdOnce(q)
    PROVE  /\ FdOnce(Tail(q)) /\ FdsOf(Tail(q)) \subseteq FdsOf(q)
           /\ Head(q).fd \in FdsOf(q) /\ Head(q).fd \notin FdsOf(Tail(q))
<1> DEFINE t == Tail(q)
<1>1. /\ t \in Seq(S) /\ Head(q) = q[1] /\ 1 \in DOMAIN q
      /\ \A i \in DOMAIN t : i + 1 \in DOMAIN q /\ t[i] = q[i + 1] /\ i + 1 # 1 /\ i \in Nat
  BY TailFacts
<1> HIDE DEF t
<1>2. FdOnce(t)
  <2> SUFFICES ASSUME NEW i \in DOMAIN t, NEW j \in DOMAIN t, t[i].fd = t[j].fd PROVE i = j
    BY DEF FdOnce
  <2>1. i + 1 = j + 1 BY <1>1 DEF FdOnce
  <2>2. i \in Nat /\ j \in Nat BY <1>1
  <2> QED BY <2>1, <2>2
<1>3. FdsOf(t) \subseteq FdsOf(q) BY <1>1 DEF FdsOf
<1>4. Head(q).fd \in FdsOf(q) BY <1>1 DEF FdsOf
<1>5. Head(q).fd \notin FdsOf(t) BY <1>1 DEF FdsOf, FdOnce
<1> QED BY <1>2, <1>3, <1>4, <1>5 DEF t

\* A queue that gets an entry of a socket it does not have.
LEMMA FdAppend ==
    ASSUME NEW S, NEW q \in Seq(S), NEW e \in S
    PROVE  /\ FdsOf(Append(q, e)) = FdsOf(q) \cup {e.fd}
           /\ FdOnce(q) /\ e.fd \notin FdsOf(q) => FdOnce(Append(q, e))
<1> DEFINE a == Append(q, e)
<1>1. /\ DOMAIN a = DOMAIN q \cup {Len(q) + 1} /\ Len(q) + 1 \notin DOMAIN q
      /\ \A i \in DOMAIN q : a[i] = q[i]
      /\ a[Len(q) + 1] = e
  BY AppendFacts
<1> HIDE DEF a
<1>2. FdsOf(a) = FdsOf(q) \cup {e.fd} BY <1>1 DEF FdsOf
<1>3. ASSUME FdOnce(q), e.fd \notin FdsOf(q) PROVE FdOnce(a)
  BY <1>1, <1>3 DEF FdOnce, FdsOf
<1> QED BY <1>2, <1>3 DEF a

\* A queue of events that loses its first one.
LEMMA ObjectTail ==
    ASSUME NEW S, NEW q \in Seq(S), q # <<>>, ObjectOnce(q)
    PROVE  /\ ObjectOnce(Tail(q)) /\ Members(Tail(q)) \subseteq Members(q)
           /\ Head(q) \in Members(q)
           /\ Head(q).kind \in CallTypes =>
                 \A f \in Members(Tail(q)) : ~(f.kind = Head(q).kind /\ f.n = Head(q).n)
<1> DEFINE t == Tail(q)
<1>1. /\ t \in Seq(S) /\ Head(q) = q[1] /\ 1 \in DOMAIN q
      /\ \A i \in DOMAIN t : i + 1 \in DOMAIN q /\ t[i] = q[i + 1] /\ i + 1 # 1 /\ i \in Nat
      /\ Members(t) \subseteq Members(q) /\ Head(q) \in Members(q)
  BY TailFacts
<1> HIDE DEF t
<1>2. ObjectOnce(t)
  <2> SUFFICES ASSUME NEW i \in DOMAIN t, NEW j \in DOMAIN t,
                      t[i].kind \in CallTypes, t[i].kind = t[j].kind, t[i].n = t[j].n
               PROVE  i = j
    BY DEF ObjectOnce
  <2>1. i + 1 = j + 1 BY <1>1 DEF ObjectOnce
  <2>2. i \in Nat /\ j \in Nat BY <1>1
  <2> QED BY <2>1, <2>2
<1>3. ASSUME Head(q).kind \in CallTypes, NEW f \in Members(t)
      PROVE ~(f.kind = Head(q).kind /\ f.n = Head(q).n)
  <2>1. PICK i \in DOMAIN t : f = t[i] BY DEF Members
  <2>2. PICK j \in DOMAIN q : f = q[j] /\ j # 1 BY <1>1, <2>1
  <2>3. q[1].kind \in CallTypes BY <1>1, <1>3
  <2> QED BY <1>1, <2>2, <2>3 DEF ObjectOnce
<1> QED BY <1>1, <1>2, <1>3 DEF t

\* A queue of events that gets an object it does not have.
LEMMA ObjectEnqueue ==
    ASSUME NEW S, NEW q \in Seq(S), NEW e \in S
    PROVE  /\ enqueue(q, e) \in Seq(S)
           /\ Members(enqueue(q, e)) = Members(q) \cup {e}
           /\ /\ ObjectOnce(q)
              /\ e.kind \in CallTypes => \A f \in Members(q) : ~(f.kind = e.kind /\ f.n = e.n)
              => ObjectOnce(enqueue(q, e))
<1> DEFINE a == enqueue(q, e)
<1>1. PICK p \in 1 .. (Len(q) + 1) :
         /\ a \in Seq(S) /\ Len(a) = Len(q) + 1
         /\ \A i \in 1 .. (Len(q) + 1) : a[i] = IF i < p THEN q[i] ELSE IF i = p THEN e ELSE q[i - 1]
  BY EnqueueFacts
<1> HIDE DEF a
<1> DEFINE old(i) == IF i < p THEN i ELSE i - 1
<1>2. DOMAIN a = 1 .. (Len(q) + 1) /\ DOMAIN q = 1 .. Len(q) /\ Len(q) \in Nat /\ p \in Nat BY <1>1
<1>3. ASSUME NEW i \in DOMAIN a, i # p PROVE old(i) \in DOMAIN q /\ a[i] = q[old(i)]
  BY <1>1, <1>2, <1>3
<1>4. ASSUME NEW i \in DOMAIN a, NEW j \in DOMAIN a, i # p, j # p, old(i) = old(j) PROVE i = j
  BY <1>2, <1>4
<1>5. ASSUME NEW i \in DOMAIN q PROVE \E j \in DOMAIN a : a[j] = q[i]
  <2>1. CASE i < p BY <1>1, <1>2, <2>1
  <2>2. CASE ~(i < p)
    <3>1. i + 1 \in DOMAIN a /\ ~(i + 1 < p) /\ i + 1 # p /\ (i + 1) - 1 = i BY <1>2, <2>2
    <3> QED BY <1>1, <1>2, <3>1
  <2> QED BY <2>1, <2>2
<1>6. p \in DOMAIN a /\ a[p] = e BY <1>1, <1>2
<1> HIDE DEF old
<1>7. Members(a) = Members(q) \cup {e}
  BY <1>3, <1>5, <1>6 DEF Members
<1>8. ASSUME ObjectOnce(q),
             e.kind \in CallTypes => \A f \in Members(q) : ~(f.kind = e.kind /\ f.n = e.n)
      PROVE  ObjectOnce(a)
  <2> SUFFICES ASSUME NEW i \in DOMAIN a, NEW j \in DOMAIN a,
                      a[i].kind \in CallTypes, a[i].kind = a[j].kind, a[i].n = a[j].n
               PROVE  i = j
    BY DEF ObjectOnce
  <2>1. CASE i # p /\ j # p
    BY <1>3, <1>4, <1>8, <2>1 DEF ObjectOnce
  <2>2. CASE i = p /\ j # p
    BY <1>3, <1>6, <1>8, <2>2 DEF Members
  <2>3. CASE i # p /\ j = p
    BY <1>3, <1>6, <1>8, <2>3 DEF Members
  <2> QED BY <2>1, <2>2, <2>3
<1> QED BY <1>1, <1>7, <1>8 DEF a

-------------------------------------------------------------------------------
\* The table of calls.

\* A call takes a free entry, and the socket had none.
LEMMA CallEntries ==
    ASSUME Apartness, WedgeShape, EntryInv, ReplyAnswersItsCall,
           NEW t, NEW s \in SockIds, NEW y \in CallTypes, NEW p, Call(t, s, y, p), UNCHANGED failed
    PROVE  /\ WedgeShape' /\ EntryInv' /\ ReplyAnswersItsCall'
           /\ \A f, z, c : Waiting(f, z, c) => Waiting(f, z, c)'
           /\ \A c : c = call_count + 1 => Waiting(s, y, c)'
           /\ \A f, z : CallOf(f, z) => CallOf(f, z)'
           /\ \A z : ~CallOf(s, z)
<1> DEFINE new == [call_id |-> call_count + 1, sock_id |-> s, call_type |-> y,
                   reply |-> FALSE, from |-> 0]
<1>1. PICK i \in Slots : InsertFirstFree(i) /\ wedge_calls' = [wedge_calls EXCEPT ![i] = new]
  BY DEF Call
<1>2. wedge_calls[i].call_id = 0 BY <1>1 DEF InsertFirstFree, FreeEntries
<1>3. /\ call_count' = call_count + 1 /\ call_count < MaxCallCount
      /\ wedge_sockets' = wedge_sockets \cup {s} /\ ~InFlight(s)
  BY DEF Call, MayCall, Apartness
<1>4. call_count \in Nat /\ MaxCallCount \in Nat BY WedgeAssumption DEF WedgeShape
<1>5. new \in Entries /\ new.call_id = call_count + 1 /\ new.sock_id = s /\ new.call_type = y
      /\ new.reply = FALSE /\ new.from = 0
  <2>1. new.call_id = call_count + 1 /\ new.sock_id = s /\ new.call_type = y
        /\ new.reply = FALSE /\ new.from = 0
    OBVIOUS
  <2>2. call_count + 1 \in Nat /\ 0 \in Nat /\ FALSE \in BOOLEAN BY <1>4
  <2>3. new \in Entries BY <2>2, Zenon DEF Entries
  <2> QED BY <2>1, <2>3
<1> HIDE DEF new
<1>6. wedge_calls'[i] = new /\ \A j \in Slots : j # i => wedge_calls'[j] = wedge_calls[j]
  BY <1>1 DEF WedgeShape
<1>7. WedgeShape'
  <2>1. wedge_calls' \in [Slots -> Entries] BY <1>1, <1>5 DEF WedgeShape
  <2>2. wedge_sockets' \in SUBSET SockIds BY <1>3 DEF WedgeShape
  <2>3. call_count' \in Nat /\ call_count' <= MaxCallCount BY <1>3, <1>4
  <2> QED BY <2>1, <2>2, <2>3 DEF WedgeShape
<1>8. \A j \in Slots : wedge_calls[j].call_id \in Nat /\ wedge_calls[j].from \in Nat
  BY DEF WedgeShape, Entries
<1>9. \A j \in Slots : wedge_calls[j].call_id # 0 => wedge_calls[j].sock_id # s
  BY <1>3 DEF InFlight
<1>10. \A j \in Slots : wedge_calls[j].call_id # call_count + 1
  BY <1>4, <1>8 DEF EntryInv
<1>11. call_count + 1 # 0 BY <1>4
<1>12. EntryInv'
  <2>1. ASSUME NEW a \in Slots, NEW b \in Slots, wedge_calls'[a].call_id # 0,
               wedge_calls'[b].call_id # 0, wedge_calls'[a].sock_id = wedge_calls'[b].sock_id
        PROVE  a = b
    BY <2>1, <1>5, <1>6, <1>9 DEF EntryInv
  <2>2. ASSUME NEW a \in Slots, NEW b \in Slots, wedge_calls'[a].call_id # 0,
               wedge_calls'[a].call_id = wedge_calls'[b].call_id
        PROVE  a = b
    BY <2>2, <1>5, <1>6, <1>10 DEF EntryInv
  <2>3. ASSUME NEW a \in Slots
        PROVE  wedge_calls'[a].call_id <= call_count' /\ wedge_calls'[a].from <= call_count'
    <3>1. CASE a = i BY <3>1, <1>3, <1>4, <1>5, <1>6
    <3>2. CASE a # i
      <4>1. wedge_calls[a].call_id <= call_count /\ wedge_calls[a].from <= call_count
        BY DEF EntryInv
      <4> QED BY <3>2, <4>1, <1>3, <1>4, <1>6, <1>8
    <3> QED BY <3>1, <3>2
  <2>4. ASSUME NEW a \in Slots, wedge_calls'[a].call_id # 0
        PROVE  wedge_calls'[a].sock_id \in wedge_sockets'
    BY <2>4, <1>3, <1>5, <1>6 DEF EntryInv
  <2> QED BY <2>1, <2>2, <2>3, <2>4 DEF EntryInv
<1>13. ReplyAnswersItsCall' BY <1>5, <1>6 DEF ReplyAnswersItsCall
<1>14. ASSUME NEW f, NEW z, NEW c, Waiting(f, z, c) PROVE Waiting(f, z, c)'
  BY <1>2, <1>6, <1>14 DEF Waiting
<1>15. ASSUME NEW c, c = call_count + 1 PROVE Waiting(s, y, c)'
  BY <1>5, <1>6, <1>11, <1>15 DEF Waiting
<1>16. ASSUME NEW f, NEW z, CallOf(f, z) PROVE CallOf(f, z)'
  BY <1>2, <1>6, <1>16 DEF CallOf
<1>17. \A z : ~CallOf(s, z) BY <1>9 DEF CallOf
<1> QED BY <1>7, <1>12, <1>13, <1>14, <1>15, <1>16, <1>17

\* A call frees an entry that was answered, and close() its socket as well.
LEMMA ReturnEntries ==
    ASSUME WedgeInv, WedgeShape, EntryInv, ReplyAnswersItsCall,
           NEW t \in Threads, Return(t), UNCHANGED failed
    PROVE  /\ WedgeShape' /\ EntryInv' /\ ReplyAnswersItsCall'
           /\ wedge_sockets' \subseteq wedge_sockets
           /\ \A f, z, c : Waiting(f, z, c) => Waiting(f, z, c)'
           /\ \A f : CallOf(f, "close") => CallOf(f, "close")' \/ f \notin wedge_sockets'
<1> DEFINE k == caller[t].index
<1>1. k \in Slots BY DEF Return, WedgeInv, CallersOwnTheirEntries
<1>2. /\ wedge_calls[k].reply
      /\ wedge_sockets' = IF wedge_calls[k].call_type = "close"
                          THEN wedge_sockets \ {wedge_calls[k].sock_id} ELSE wedge_sockets
      /\ wedge_calls' = [wedge_calls EXCEPT ![k] = FreeEntry]
      /\ call_count' = call_count
  BY DEF Return
<1>3. wedge_calls[k].call_id # 0
  <2>1. caller[t] # Idle BY DEF Return
  <2>2. wedge_calls[k].call_id = caller[t].call_id BY <2>1 DEF WedgeInv, CallersOwnTheirEntries
  <2>3. caller[t].call_id # 0 BY <2>1 DEF WedgeInv, Tables
  <2> QED BY <2>2, <2>3
<1> HIDE DEF k
<1>4. wedge_calls'[k] = FreeEntry /\ \A j \in Slots : j # k => wedge_calls'[j] = wedge_calls[j]
  BY <1>1, <1>2 DEF WedgeShape
<1>5. FreeEntry \in Entries /\ FreeEntry.call_id = 0 /\ FreeEntry.from = 0 /\ FreeEntry.reply = FALSE
  BY DEF Entries, FreeEntry
<1>6. call_count \in Nat BY DEF WedgeShape
<1>7. WedgeShape'
  <2>1. wedge_calls' \in [Slots -> Entries] BY <1>2, <1>5 DEF WedgeShape
  <2> QED BY <2>1, <1>2 DEF WedgeShape
<1>8. EntryInv'
  <2>1. ASSUME NEW a \in Slots, NEW b \in Slots, wedge_calls'[a].call_id # 0,
               wedge_calls'[b].call_id # 0, wedge_calls'[a].sock_id = wedge_calls'[b].sock_id
        PROVE  a = b
    BY <2>1, <1>4, <1>5 DEF EntryInv
  <2>2. ASSUME NEW a \in Slots, NEW b \in Slots, wedge_calls'[a].call_id # 0,
               wedge_calls'[a].call_id = wedge_calls'[b].call_id
        PROVE  a = b
    BY <2>2, <1>4, <1>5 DEF EntryInv
  <2>3. ASSUME NEW a \in Slots
        PROVE  wedge_calls'[a].call_id <= call_count' /\ wedge_calls'[a].from <= call_count'
    BY <1>2, <1>4, <1>5, <1>6 DEF EntryInv
  <2>4. ASSUME NEW a \in Slots, wedge_calls'[a].call_id # 0
        PROVE  wedge_calls'[a].sock_id \in wedge_sockets'
    BY <2>4, <1>1, <1>2, <1>3, <1>4, <1>5 DEF EntryInv
  <2> QED BY <2>1, <2>2, <2>3, <2>4 DEF EntryInv
<1>9. ReplyAnswersItsCall' BY <1>4, <1>5 DEF ReplyAnswersItsCall
<1>10. ASSUME NEW f, NEW z, NEW c, Waiting(f, z, c) PROVE Waiting(f, z, c)'
  BY <1>2, <1>4, <1>10 DEF Waiting
<1>11. ASSUME NEW f, CallOf(f, "close") PROVE CallOf(f, "close")' \/ f \notin wedge_sockets'
  BY <1>2, <1>4, <1>11 DEF CallOf
<1> QED BY <1>2, <1>7, <1>8, <1>9, <1>10, <1>11

\* An entry that nl_data_ready has written to still is one.
LEMMA AnsweredIsEntry ==
    ASSUME NEW e \in Entries, NEW v \in Nat
    PROVE  /\ [e EXCEPT !.reply = TRUE, !.from = v] \in Entries
           /\ [e EXCEPT !.reply = TRUE, !.from = v].call_id = e.call_id
           /\ [e EXCEPT !.reply = TRUE, !.from = v].sock_id = e.sock_id
           /\ [e EXCEPT !.reply = TRUE, !.from = v].call_type = e.call_type
           /\ [e EXCEPT !.reply = TRUE, !.from = v].reply = TRUE
           /\ [e EXCEPT !.reply = TRUE, !.from = v].from = v
<1> DEFINE a == [e EXCEPT !.reply = TRUE]
           b == [a EXCEPT !.from = v]
<1>1. a \in Entries /\ a.reply = TRUE BY DEF Entries
<1>2. a.call_id = e.call_id /\ a.sock_id = e.sock_id /\ a.call_type = e.call_type
  BY DEF Entries
<1> HIDE DEF a
<1>3. b \in Entries /\ b.from = v BY <1>1 DEF Entries
<1>4. b.call_id = a.call_id /\ b.sock_id = a.sock_id /\ b.call_type = a.call_type /\ b.reply = a.reply
  BY <1>1 DEF Entries
<1>5. b = [e EXCEPT !.reply = TRUE, !.from = v] BY DEF a
<1> HIDE DEF b
<1> QED BY <1>1, <1>2, <1>3, <1>4, <1>5

\* An answer is for the only entry of its socket.
LEMMA AnswerEntries ==
    ASSUME WedgeShape, EntryInv, ReplyAnswersItsCall,
           NEW r, Waiting(r.fd, r.type, r.call)
    PROVE  /\ wedge_calls_find(r.fd, r.type) # 0
           /\ /\ wedge_calls' = nl_data_ready(r)
              /\ UNCHANGED <<call_count, wedge_sockets, failed>>
              => /\ WedgeShape' /\ EntryInv' /\ ReplyAnswersItsCall'
                 /\ \A f, z, c : f # r.fd /\ Waiting(f, z, c) => Waiting(f, z, c)'
                 /\ \A f, z : CallOf(f, z) => CallOf(f, z)'
<1>1. PICK k \in Slots : /\ wedge_calls[k].call_id = r.call /\ r.call # 0
                         /\ wedge_calls[k].sock_id = r.fd /\ wedge_calls[k].call_type = r.type
                         /\ wedge_calls[k].reply = FALSE
  BY DEF Waiting
<1>2. Matching(r.fd, r.type) = {k} BY <1>1 DEF Matching, EntryInv
<1>3. wedge_calls_find(r.fd, r.type) = k
  <2>1. {k} \in SUBSET Nat /\ {k} # {} BY SlotsPositive
  <2>2. FirstOf({k}) \in {k} BY <2>1, FirstOfFacts
  <2> QED BY <1>2, <2>2 DEF wedge_calls_find
<1>4. k # 0 BY SlotsPositive
<1> SUFFICES ASSUME wedge_calls' = nl_data_ready(r), UNCHANGED <<call_count, wedge_sockets, failed>>
             PROVE  /\ WedgeShape' /\ EntryInv' /\ ReplyAnswersItsCall'
                    /\ \A f, z, c : f # r.fd /\ Waiting(f, z, c) => Waiting(f, z, c)'
                    /\ \A f, z : CallOf(f, z) => CallOf(f, z)'
  BY <1>3, <1>4
<1> DEFINE new == [wedge_calls[k] EXCEPT !.reply = TRUE, !.from = r.call]
<1>5. wedge_calls' = [wedge_calls EXCEPT ![k] = new] BY <1>3 DEF nl_data_ready
<1>6. wedge_calls[k] \in Entries /\ r.call \in Nat BY <1>1 DEF WedgeShape, Entries
<1>8. /\ new \in Entries /\ new.call_id = r.call /\ new.sock_id = r.fd /\ new.call_type = r.type
      /\ new.reply = TRUE /\ new.from = r.call
  BY <1>1, <1>6, AnsweredIsEntry
<1> HIDE DEF new
<1>9. wedge_calls'[k] = new /\ \A j \in Slots : j # k => wedge_calls'[j] = wedge_calls[j]
  BY <1>5 DEF WedgeShape
<1>10. WedgeShape'
  <2>1. wedge_calls' \in [Slots -> Entries] BY <1>5, <1>8 DEF WedgeShape
  <2> QED BY <2>1 DEF WedgeShape
<1>11. EntryInv'
  <2>1. \A a \in Slots : /\ wedge_calls'[a].call_id = wedge_calls[a].call_id
                         /\ wedge_calls'[a].sock_id = wedge_calls[a].sock_id
    BY <1>1, <1>8, <1>9
  <2>2. \A a \in Slots : wedge_calls'[a].from <= call_count
    BY <1>1, <1>8, <1>9 DEF EntryInv
  <2> QED BY <2>1, <2>2 DEF EntryInv
<1>12. ReplyAnswersItsCall' BY <1>8, <1>9 DEF ReplyAnswersItsCall
<1>13. ASSUME NEW f, NEW z, NEW c, f # r.fd, Waiting(f, z, c) PROVE Waiting(f, z, c)'
  BY <1>1, <1>9, <1>13 DEF Waiting
<1>14. ASSUME NEW f, NEW z, CallOf(f, z) PROVE CallOf(f, z)'
  BY <1>1, <1>8, <1>9, <1>14 DEF CallOf
<1> QED BY <1>10, <1>11, <1>12, <1>13, <1>14

-------------------------------------------------------------------------------
\* Steps of the wedge.

\* A call without an answer is a call.
LEMMA WaitingIsCall == ASSUME NEW s, NEW y, NEW c, Waiting(s, y, c) PROVE CallOf(s, y)
BY DEF Waiting, CallOf

\* One call per socket.
LEMMA OneCall ==
    ASSUME EntryInv, NEW s, NEW y, NEW z, CallOf(s, y), CallOf(s, z)
    PROVE  y = z /\ s \in wedge_sockets
BY DEF EntryInv, CallOf

\* Every socket at one of the places has a call under way.
LEMMA PlacesHaveCalls ==
    ASSUME PathInv
    PROVE  /\ \A s \in FdsOf(to_daemon) : \E y \in CallTypes : CallOf(s, y)
           /\ \A s \in QueFds \cup SavFds \cup FdsOf(responses) : \E y \in CallTypes : CallOf(s, y)
<1>1. ASSUME NEW s \in FdsOf(to_daemon) PROVE \E y \in CallTypes : CallOf(s, y)
  <2>1. PICK i \in DOMAIN to_daemon : s = to_daemon[i].fd BY <1>1 DEF FdsOf
  <2>2. MessageOK(to_daemon[i]) BY DEF PathInv, MsgInv, Members
  <2>3. to_daemon[i] \in Messages
    <3> HIDE DEF Messages
    <3> QED BY DEF PathInv, Shape, QueueShape
  <2>4. to_daemon[i].type \in CallTypes BY <2>3 DEF Messages
  <2> QED BY <2>1, <2>2, <2>4, WaitingIsCall DEF MessageOK
<1>2. ASSUME NEW s, NEW y, NEW c, NEW x, Ticket(s, y, c, x) PROVE \E z \in CallTypes : CallOf(s, z)
  BY <1>2, WaitingIsCall DEF Ticket
<1>3. ASSUME NEW s \in QueFds PROVE \E y \in CallTypes : CallOf(s, y)
  BY <1>2, <1>3 DEF QueFds, PathInv, QueInv, EventOK
<1>4. ASSUME NEW s \in SavFds PROVE \E y \in CallTypes : CallOf(s, y)
  BY <1>2, <1>4 DEF SavFds, PathInv, SavInv, SavedOK
<1>5. ASSUME NEW s \in FdsOf(responses) PROVE \E y \in CallTypes : CallOf(s, y)
  BY <1>2, <1>5 DEF FdsOf, Members, PathInv, ResInv
<1> QED BY <1>1, <1>3, <1>4, <1>5

\* What a step of the wedge alone leaves as it is.
LEMMA WedgeStep ==
    ASSUME PathInv, UNCHANGED <<translatorVars, udpVars>>,
           \A f, z, c : Waiting(f, z, c) => Waiting(f, z, c)'
    PROVE  /\ QueInv' /\ SavInv' /\ ResInv' /\ PoolInv' /\ CollInv' /\ ObjectShape'
           /\ QueFds' = QueFds /\ SavFds' = SavFds /\ CollSocks' = CollSocks /\ Doomed' = Doomed
           /\ \A s : Opened(s) => Opened(s)'
           /\ \A m : MessageOK(m) => MessageOK(m)'
<1> USE DEF translatorVars, udpVars
<1>1. ASSUME NEW s, NEW y, NEW c, NEW x, Ticket(s, y, c, x) PROVE Ticket(s, y, c, x)'
  BY <1>1 DEF Ticket
<1>2. CollSocks' = CollSocks /\ QueFds' = QueFds /\ SavFds' = SavFds /\ Doomed' = Doomed
  BY DEF CollSocks, QueFds, SavFds, SavedIn, Library, Members, Doomed
<1>3. \A s : Opened(s) => Opened(s)' BY DEF Opened
<1>4. \A m : MessageOK(m) => MessageOK(m)' BY <1>2, <1>3 DEF MessageOK
<1>5. QueInv'
  <2>1. \A e, o : EventOK(e, o) => EventOK(e, o)' BY <1>1, <1>2 DEF EventOK
  <2> QED BY <2>1 DEF PathInv, QueInv, Library, Members
<1>6. SavInv' BY <1>1 DEF PathInv, SavInv, SavedOK, SavedIn
<1>7. ResInv' BY <1>1 DEF PathInv, ResInv
<1>8. PoolInv' BY DEF PathInv, PoolInv
<1>9. CollInv' BY <1>2 DEF PathInv, CollInv
<1>10. ObjectShape' BY DEF PathInv, Shape, ObjectShape
<1> QED BY <1>2, <1>3, <1>4, <1>5, <1>6, <1>7, <1>8, <1>9, <1>10

\* A call is a new message, on a socket no call is under way on.
LEMMA CallPath == ASSUME Apartness, PathInv, Application PROVE PathInv'
<1>0. PICK t \in Threads, s \in SockIds, y \in CallTypes :
         /\ y = "socket" => ReleasedByDaemon(s)
         /\ \E p \in CallPorts(s, y) : Call(t, s, y, p)
         /\ UNCHANGED <<translatorVars, udpVars>>
  BY DEF Application, Apartness
<1>1. PICK p \in CallPorts(s, y) :
         /\ y = "socket" => ReleasedByDaemon(s)
         /\ Call(t, s, y, p) /\ UNCHANGED <<translatorVars, udpVars>>
  BY <1>0
<1>2. WedgeShape /\ EntryInv /\ ReplyAnswersItsCall /\ UNCHANGED failed
  BY <1>1 DEF PathInv, Shape, translatorVars
<1>3. /\ WedgeShape' /\ EntryInv' /\ ReplyAnswersItsCall'
      /\ \A f, z, c : Waiting(f, z, c) => Waiting(f, z, c)'
      /\ \A c : c = call_count + 1 => Waiting(s, y, c)'
      /\ \A f, z : CallOf(f, z) => CallOf(f, z)'
      /\ \A z : ~CallOf(s, z)
  BY <1>1, <1>2, CallEntries
<1>4. /\ QueInv' /\ SavInv' /\ ResInv' /\ PoolInv' /\ CollInv' /\ ObjectShape'
      /\ QueFds' = QueFds /\ SavFds' = SavFds /\ CollSocks' = CollSocks /\ Doomed' = Doomed
      /\ \A f : Opened(f) => Opened(f)'
      /\ \A m : MessageOK(m) => MessageOK(m)'
  BY <1>1, <1>3, WedgeStep
<1>m. PICK m : m = [type |-> y, fd |-> s, port |-> p, call |-> call_count + 1] OBVIOUS
<1>5. /\ to_daemon' = Append(to_daemon, m) /\ call_count' = call_count + 1
      /\ wedge_sockets' = wedge_sockets \cup {s} /\ call_count < MaxCallCount
      /\ (y = "socket" <=> s \notin wedge_sockets)
  BY <1>1, <1>m DEF Call, MayCall
<1>6. p \in Nat /\ (y = "bind" => p \in BindPorts[s])
  BY WedgeAssumption DEF CallPorts
<1>7. m.type = y /\ m.fd = s /\ m.port = p /\ m.call = call_count + 1 BY <1>m
<1>8. m \in Messages
  <2>1. call_count + 1 \in CallIds BY <1>5, <1>2, WedgeAssumption DEF WedgeShape, CallIds
  <2> QED BY <1>6, <1>m, <2>1 DEF Messages
<1>9. to_daemon \in Seq(Messages) BY DEF PathInv, Shape, QueueShape
<1>10. /\ s \notin FdsOf(to_daemon)
       /\ s \notin QueFds \cup SavFds \cup FdsOf(responses)
  BY <1>3, PlacesHaveCalls
<1>11. /\ FdsOf(to_daemon') = FdsOf(to_daemon) \cup {s}
       /\ FdOnce(to_daemon') /\ to_daemon' \in Seq(Messages)
       /\ Members(to_daemon') = Members(to_daemon) \cup {m}
  <2> HIDE DEF Messages
  <2>1. FdOnce(to_daemon) BY DEF PathInv, MsgInv
  <2> QED BY <1>5, <1>7, <1>8, <1>9, <1>10, <2>1, FdAppend, AppendFacts
<1>12. MessageOK(m)'
  <2>1. (Waiting(s, y, m.call))' BY <1>3, <1>7
  <2>2. m.call \notin DOMAIN socket' /\ socket' = socket
    BY <1>1, <1>2, <1>7 DEF PathInv, Shape, SocketShape, WedgeShape, translatorVars
  <2>3. y = "socket" => \A x \in CollSocks : socket[x].id # s
    BY <1>1 DEF ReleasedByDaemon, KeysWithId, CollSocks
  <2>4. ASSUME y # "socket" PROVE Opened(s)
    <3>1. s \in wedge_sockets BY <1>5, <2>4
    <3>2. ~ \E c \in Nat : Waiting(s, "socket", c) BY <1>3, WaitingIsCall
    <3> QED BY <1>3, <3>1, <3>2 DEF PathInv, LifeInv, Served
  <2> QED BY <1>4, <1>6, <1>7, <2>1, <2>2, <2>3, <2>4 DEF MessageOK
<1>13. MsgInv' BY <1>4, <1>11, <1>12 DEF PathInv, MsgInv
<1>14. Apart'
  BY <1>1, <1>4, <1>10, <1>11 DEF PathInv, Apart, translatorVars
<1>15. Shape'
  <2>1. QueueShape' BY <1>1, <1>11 DEF PathInv, Shape, QueueShape, translatorVars
  <2>2. SocketShape'
    <3>1. 1 .. call_count \subseteq 1 .. call_count' BY <1>2, <1>5 DEF WedgeShape
    <3> QED BY <1>1, <3>1 DEF PathInv, Shape, SocketShape, translatorVars, udpVars
  <2> QED BY <1>3, <1>4, <2>1, <2>2 DEF Shape
<1>16. LifeInv'
  <2>1. UNCHANGED <<closing, content, socket, responses, map_>> BY <1>1 DEF translatorVars, udpVars
  <2>2. ASSUME NEW x \in Doomed \cap CollSocks, NEW f \in SockIds, socket[x].id = f
        PROVE  Leaving(f)'
    <3>0. Leaving(f) BY <2>2 DEF PathInv, LifeInv
    <3>1. f # s
      <4>1. CASE CallOf(f, "close") BY <1>3, <4>1
      <4>2. CASE f \notin wedge_sockets
        <5> SUFFICES ASSUME f = s PROVE FALSE OBVIOUS
        <5>1. y = "socket" BY <1>5, <4>2
        <5> QED BY <1>1, <5>1, <2>2 DEF ReleasedByDaemon, KeysWithId, CollSocks
      <4> QED BY <3>0, <4>1, <4>2 DEF Leaving
    <3> QED BY <1>3, <1>5, <1>11, <3>0, <3>1 DEF Leaving
  <2>3. ASSUME NEW f \in wedge_sockets' PROVE Served(f)'
    <3>1. CASE f \in wedge_sockets
      <4>1. Served(f) BY <3>1 DEF PathInv, LifeInv
      <4> QED BY <1>3, <1>4, <2>1, <4>1 DEF Served
    <3>2. CASE f \notin wedge_sockets
      <4>1. f = s /\ y = "socket" BY <1>5, <2>3, <3>2
      <4>2. call_count + 1 \in Nat BY <1>2 DEF WedgeShape
      <4>3. \E c \in Nat : Waiting(s, y, c)' BY <1>3, <4>2
      <4> QED BY <1>10, <2>1, <4>1, <4>3 DEF Served
    <3> QED BY <3>1, <3>2
  <2>4. closing' # NotClosing => closing'.n \in 1 .. Len(content'["close"])
    BY <2>1 DEF PathInv, LifeInv
  <2>5. Doomed' \subseteq DOMAIN socket' BY <1>4, <2>1 DEF PathInv, LifeInv
  <2> QED BY <1>4, <2>1, <2>2, <2>3, <2>4, <2>5 DEF LifeInv
<1> QED BY <1>3, <1>4, <1>13, <1>14, <1>15, <1>16 DEF PathInv

\* The parts of the invariant that a step of the wedge without a message keeps.
LEMMA WedgeStepPath ==
    ASSUME PathInv, UNCHANGED <<translatorVars, udpVars, to_daemon, call_count>>,
           WedgeShape', EntryInv', ReplyAnswersItsCall',
           wedge_sockets' \subseteq wedge_sockets,
           \A f, z, c : Waiting(f, z, c) => Waiting(f, z, c)',
           \A f : CallOf(f, "close") => CallOf(f, "close")' \/ f \notin wedge_sockets'
    PROVE  PathInv'
<1>1. /\ QueInv' /\ SavInv' /\ ResInv' /\ PoolInv' /\ CollInv' /\ ObjectShape'
      /\ QueFds' = QueFds /\ SavFds' = SavFds /\ CollSocks' = CollSocks /\ Doomed' = Doomed
      /\ \A f : Opened(f) => Opened(f)'
      /\ \A m : MessageOK(m) => MessageOK(m)'
  <2>1. UNCHANGED <<translatorVars, udpVars>> OBVIOUS
  <2> QED BY <2>1, WedgeStep
<1>2. UNCHANGED <<to_daemon, call_count, closing, content, socket, responses, udp_queue, collection_,
                  network, map_>>
  BY DEF translatorVars, udpVars
<1>3. Shape'
  BY <1>1, <1>2 DEF PathInv, Shape, QueueShape, SocketShape
<1>4. MsgInv' BY <1>1, <1>2 DEF PathInv, MsgInv
<1>5. Apart' BY <1>1, <1>2 DEF PathInv, Apart
<1>6. LifeInv'
  <2>1. ASSUME NEW f, Leaving(f) PROVE Leaving(f)' BY <1>2, <2>1 DEF Leaving
  <2>2. ASSUME NEW f \in wedge_sockets' PROVE Served(f)'
    <3>1. Served(f) BY <2>2 DEF PathInv, LifeInv
    <3> QED BY <1>1, <1>2, <2>2, <3>1 DEF Served
  <2> QED BY <1>1, <1>2, <2>1, <2>2 DEF PathInv, LifeInv
<1> QED BY <1>1, <1>3, <1>4, <1>5, <1>6 DEF PathInv

\* release fails: the socket has no call under way.
LEMMA ReleaseFailsPath == ASSUME Apartness, PathInv, ApplicationFails PROVE PathInv'
<1>1. PICK t \in Threads, s \in SockIds : ReleaseFails(t, s) /\ UNCHANGED <<translatorVars, udpVars>>
  BY DEF ApplicationFails
<1>2. /\ UNCHANGED <<wedge_calls, call_count, to_daemon, translatorVars, udpVars, failed>>
      /\ wedge_sockets' = wedge_sockets \ {s} /\ ~InFlight(s)
  BY <1>1 DEF ReleaseFails, MayCall, Apartness, translatorVars
<1>3. WedgeShape' BY <1>2 DEF PathInv, Shape, WedgeShape
<1>4. EntryInv' BY <1>2 DEF PathInv, EntryInv, InFlight
<1>5. ReplyAnswersItsCall' BY <1>2 DEF PathInv, ReplyAnswersItsCall
<1>6. \A f, z, c : Waiting(f, z, c) => Waiting(f, z, c)' BY <1>2 DEF Waiting
<1>7. \A f : CallOf(f, "close") => CallOf(f, "close")' BY <1>2 DEF CallOf
<1> QED BY <1>2, <1>3, <1>4, <1>5, <1>6, <1>7, WedgeStepPath

\* A call returns: its entry is answered, so its socket is at no place.
LEMMA ReturnPath ==
    ASSUME PathInv, WedgeInv, NEW t \in Threads, ApplicationReturns(t) PROVE PathInv'
<1>1. Return(t) /\ UNCHANGED <<translatorVars, udpVars, failed>> /\ UNCHANGED <<to_daemon, call_count>>
  BY DEF ApplicationReturns, Return, translatorVars
<1>2. WedgeShape /\ EntryInv /\ ReplyAnswersItsCall BY DEF PathInv, Shape
<1>3. /\ WedgeShape' /\ EntryInv' /\ ReplyAnswersItsCall'
      /\ wedge_sockets' \subseteq wedge_sockets
      /\ \A f, z, c : Waiting(f, z, c) => Waiting(f, z, c)'
      /\ \A f : CallOf(f, "close") => CallOf(f, "close")' \/ f \notin wedge_sockets'
  BY <1>1, <1>2, ReturnEntries
<1> QED BY <1>1, <1>3, WedgeStepPath

-------------------------------------------------------------------------------
\* The translator: its thread.

\* The sockets whose calls are in the daemon.
Busy == QueFds \cup SavFds \cup FdsOf(responses)

\* Two sockets in the daemon have two events.
LEMMA TicketsDiffer ==
    ASSUME NEW s, NEW y, NEW c, NEW x, Ticket(s, y, c, x),
           NEW t, NEW z, NEW d, NEW w, Ticket(t, z, d, w), event_map_[s] = event_map_[t]
    PROVE  s = t
BY DEF Ticket

\* An object of a call type is an event.
LEMMA EventIsOne == ASSUME NEW o, o.type \in CallTypes PROVE o # NoEvent
<1>1. NoEvent.type = "" BY DEF NoEvent
<1>2. "" \notin CallTypes BY DEF CallTypes
<1> QED BY <1>1, <1>2

\* An object is its type and its number.
LEMMA SameObject ==
    ASSUME NEW a \in Objects, NEW b \in Objects, a.type = b.type, a.n = b.n PROVE a = b
<1>1. a = [type |-> a.type, n |-> a.n] BY DEF Objects
<1>2. b = [type |-> b.type, n |-> b.n] BY DEF Objects
<1> QED BY <1>1, <1>2

\* A pool with another list is a pool.
LEMMA PoolWithFree ==
    ASSUME NEW F, NEW G, NEW p \in [free : F, size : G], NEW v \in F
    PROVE  [p EXCEPT !.free = v] \in [free : F, size : G]
OBVIOUS

\* A step of the translator's thread that answers the sockets in G.
LEMMA TranslatorStep ==
    ASSUME PathInv, NEW G \in SUBSET FdsOf(responses),
           UNCHANGED <<udp_queue, map_, socket, collection_, content, event_map_, to_daemon,
                       closing, network, wedge_sockets, call_count>>,
           WedgeShape', EntryInv', ReplyAnswersItsCall', ObjectShape', PoolInv',
           responses' \in Seq(Responses), FdOnce(responses'),
           Members(responses') \subseteq Members(responses),
           FdsOf(responses') \subseteq FdsOf(responses) \ G,
           \A f, z, c : f \notin G /\ Waiting(f, z, c) => Waiting(f, z, c)',
           \A f, z : CallOf(f, z) => CallOf(f, z)',
           \A s, y, c, x : s \notin G /\ Ticket(s, y, c, x) => Ticket(s, y, c, x)'
    PROVE  PathInv'
<1>1. /\ QueFds' = QueFds /\ SavFds' = SavFds /\ CollSocks' = CollSocks /\ Doomed' = Doomed
      /\ \A s : Opened(s) => Opened(s)'
  BY DEF QueFds, SavFds, SavedIn, CollSocks, Doomed, Opened
<1>2. G \cap (FdsOf(to_daemon) \cup QueFds \cup SavFds) = {} BY DEF PathInv, Apart
<1>3. QueInv'
  <2>1. ASSUME NEW e \in Library(udp_queue), NEW o, o = content[e.kind][e.n], EventOK(e, o)
        PROVE  EventOK(e, o)'
    <3>1. o.fd \in QueFds BY <2>1 DEF QueFds
    <3> QED BY <1>1, <1>2, <2>1, <3>1 DEF EventOK
  <2> QED BY <2>1 DEF PathInv, QueInv
<1>4. SavInv'
  <2>1. ASSUME NEW x \in SavedIn, NEW n, NEW s, s = socket[x].id, SavedOK(x, n, s)
        PROVE  SavedOK(x, n, s)'
    <3>1. s \in SavFds BY <2>1 DEF SavFds
    <3> QED BY <1>2, <2>1, <3>1 DEF SavedOK
  <2>2. SavedIn' = SavedIn BY DEF SavedIn
  <2> QED BY <2>1, <2>2 DEF PathInv, SavInv
<1>5. ResInv'
  <2>1. ASSUME NEW r \in Members(responses') PROVE r.fd \in FdsOf(responses')
    BY <2>1 DEF Members, FdsOf
  <2> QED BY <2>1 DEF PathInv, ResInv
<1>6. MsgInv'
  <2>1. ASSUME NEW m \in Members(to_daemon), MessageOK(m) PROVE MessageOK(m)'
    <3>1. m.fd \in FdsOf(to_daemon) BY <2>1 DEF Members, FdsOf
    <3> QED BY <1>1, <1>2, <2>1, <3>1 DEF MessageOK
  <2> QED BY <2>1 DEF PathInv, MsgInv
<1>7. Apart' BY <1>1 DEF PathInv, Apart
<1>8. CollInv' BY <1>1 DEF PathInv, CollInv
<1>9. LifeInv'
  <2>1. ASSUME NEW f, Leaving(f) PROVE Leaving(f)' BY <2>1 DEF Leaving
  <2>2. ASSUME NEW f, Served(f) PROVE Served(f)' BY <1>1, <2>2 DEF Served
  <2> QED BY <1>1, <2>1, <2>2 DEF PathInv, LifeInv
<1>10. Shape' BY DEF PathInv, Shape, QueueShape, SocketShape
<1> QED BY <1>3, <1>4, <1>5, <1>6, <1>7, <1>8, <1>9, <1>10 DEF PathInv

\* The answer goes to its call, and the event that is released next is its event.
LEMMA LibraryResponsePath ==
    ASSUME PathInv, LibraryResponse, UNCHANGED udpVars PROVE PathInv'
<1> HIDE DEF Responses
<1>1. responses \in Seq(Responses) /\ responses # <<>> /\ FdOnce(responses)
  BY DEF PathInv, Shape, QueueShape, ResInv, LibraryResponse
<1>2. PICK r : r = Head(responses) OBVIOUS
<1>3. r \in Responses /\ r \in Members(responses) BY <1>1, <1>2, TailFacts
<1>4. Ticket(r.fd, r.type, r.call, r.sock) BY <1>3 DEF PathInv, ResInv
<1>5. EventOf(r) = event_map_[r.fd] /\ event_map_[r.fd] # NoEvent
  BY <1>4, EventIsOne DEF EventOf, Ticket
<1>6. WedgeShape /\ EntryInv /\ ReplyAnswersItsCall /\ ObjectShape BY DEF PathInv, Shape
<1>7. /\ wedge_calls_find(r.fd, r.type) # 0
      /\ /\ wedge_calls' = nl_data_ready(r)
         /\ UNCHANGED <<call_count, wedge_sockets, failed>>
         => /\ WedgeShape' /\ EntryInv' /\ ReplyAnswersItsCall'
            /\ \A f, z, c : f # r.fd /\ Waiting(f, z, c) => Waiting(f, z, c)'
            /\ \A f, z : CallOf(f, z) => CallOf(f, z)'
  BY <1>4, <1>6, AnswerEntries DEF Ticket
<1>8. /\ failed' = "none" /\ failed = "none" /\ releasing = NoEvent /\ releasing' = event_map_[r.fd]
      /\ wedge_calls' = nl_data_ready(r) /\ responses' = Tail(responses)
  BY <1>2, <1>5, <1>7 DEF LibraryResponse, ResponseAsserts
<1>9. UNCHANGED <<udp_queue, map_, socket, collection_, content, event_map_, to_daemon,
                  closing, network, wedge_sockets, call_count, pool>>
  BY DEF LibraryResponse, udpVars
<1>10. /\ WedgeShape' /\ EntryInv' /\ ReplyAnswersItsCall'
       /\ \A f, z, c : f # r.fd /\ Waiting(f, z, c) => Waiting(f, z, c)'
       /\ \A f, z : CallOf(f, z) => CallOf(f, z)'
  BY <1>7, <1>8, <1>9
<1>11. ObjectShape' BY <1>4, <1>6, <1>8, <1>9 DEF ObjectShape, Ticket
<1>12. PoolInv'
  <2>1. \A y \in CallTypes : PoolOK(pool[y], content[y]) BY DEF PathInv, PoolInv
  <2>2. /\ releasing'.type \in CallTypes /\ releasing'.n \in 1 .. Len(content[releasing'.type])
        /\ releasing'.n \notin Members(pool[releasing'.type].free)
    BY <1>4, <1>8 DEF Ticket
  <2> QED BY <1>9, <2>1, <2>2 DEF PoolInv
<1>13. ASSUME NEW s, NEW y, NEW c, NEW x, s # r.fd, Ticket(s, y, c, x) PROVE Ticket(s, y, c, x)'
  <2>1. event_map_[s] # event_map_[r.fd] BY <1>4, <1>13, TicketsDiffer
  <2> QED BY <1>8, <1>9, <1>10, <1>13, <2>1 DEF Ticket
<1>14. /\ responses' \in Seq(Responses) /\ FdOnce(responses')
       /\ Members(responses') \subseteq Members(responses)
       /\ FdsOf(responses') \subseteq FdsOf(responses) \ {r.fd} /\ r.fd \in FdsOf(responses)
  BY <1>1, <1>2, <1>8, TailFacts, FdTail
<1>15. {r.fd} \in SUBSET FdsOf(responses) BY <1>14
<1> QED BY <1>9, <1>10, <1>11, <1>12, <1>13, <1>14, <1>15, TranslatorStep

\* The released event is nobody's any more.
LEMMA ReleaseEventPath ==
    ASSUME PathInv, ReleaseEvent, UNCHANGED udpVars PROVE PathInv'
<1> HIDE DEF Responses
<1>1. UNCHANGED <<udp_queue, map_, socket, collection_, content, event_map_, to_daemon, wedge_calls,
                  closing, network, wedge_sockets, call_count, responses, failed>>
  BY DEF ReleaseEvent, udpVars, wedgeVars
<1>2. PICK y : y = releasing.type OBVIOUS
<1>3. PICK n : n = releasing.n OBVIOUS
<1>4. /\ releasing # NoEvent /\ releasing' = NoEvent
      /\ pool' = [pool EXCEPT ![y] = release(pool[y], n)]
  BY <1>2, <1>3 DEF ReleaseEvent
<1>5. y \in CallTypes /\ n \in 1 .. Len(content[y]) /\ n \notin Members(pool[y].free) /\ n \in Nat
  BY <1>2, <1>3, <1>4 DEF PathInv, PoolInv
<1>6. PICK p : p = pool[y] OBVIOUS
<1>7. PICK q : q = release(p, n) OBVIOUS
<1>8. p.free \in Seq(Nat) /\ p.size \in Nat /\ p \in Pools
  BY <1>5, <1>6 DEF PathInv, Shape, ObjectShape, Pools
<1>9. q.free = Append(p.free, n) /\ q.size = p.size /\ q \in Pools
  <2>1. q.free = Append(p.free, n) /\ q.size = p.size BY <1>7, <1>8 DEF release, Pools
  <2>2. Append(p.free, n) \in Seq(Nat) BY <1>5, <1>8
  <2>3. [p EXCEPT !.free = Append(p.free, n)] \in Pools
    BY <1>8, <2>2, PoolWithFree DEF Pools
  <2>4. q \in Pools BY <1>7, <2>3 DEF release
  <2> QED BY <2>1, <2>4
<1>10. /\ DOMAIN q.free = DOMAIN p.free \cup {Len(p.free) + 1} /\ Len(p.free) + 1 \notin DOMAIN p.free
       /\ \A i \in DOMAIN p.free : q.free[i] = p.free[i]
       /\ q.free[Len(p.free) + 1] = n
       /\ Members(q.free) = Members(p.free) \cup {n}
  BY <1>5, <1>8, <1>9, AppendFacts
<1>11. pool'[y] = q /\ \A z \in CallTypes : z # y => pool'[z] = pool[z]
  BY <1>4, <1>5, <1>6, <1>7 DEF PathInv, Shape, ObjectShape
<1>12. ObjectShape'
  <2>1. pool' \in [CallTypes -> Pools]
    <3> HIDE DEF Pools
    <3> QED BY <1>4, <1>6, <1>7, <1>9 DEF PathInv, Shape, ObjectShape
  <2>2. NoEvent \in Objects BY DEF NoEvent, Objects
  <2> QED BY <1>1, <1>4, <2>1, <2>2 DEF PathInv, Shape, ObjectShape
<1>13. PoolInv'
  <2>1. PoolOK(p, content[y]) BY <1>5, <1>6 DEF PathInv, PoolInv
  <2>2. PoolOK(q, content[y])
    <3>1. q.size = Len(content[y]) /\ q.size # 0 BY <1>9, <2>1 DEF PoolOK
    <3>2. \A i \in DOMAIN q.free : q.free[i] \in 1 .. q.size
      BY <1>5, <1>9, <1>10, <2>1 DEF PoolOK
    <3>3. \A i, j \in DOMAIN q.free : q.free[i] = q.free[j] => i = j
      BY <1>5, <1>6, <1>10, <2>1 DEF PoolOK, Members
    <3> QED BY <3>1, <3>2, <3>3 DEF PoolOK
  <2> QED BY <1>1, <1>4, <1>11, <2>2 DEF PathInv, PoolInv
<1>14. \A f, z, c : Waiting(f, z, c) => Waiting(f, z, c)' BY <1>1 DEF Waiting
<1>15. \A f, z : CallOf(f, z) => CallOf(f, z)' BY <1>1 DEF CallOf
<1>16. ASSUME NEW s, NEW z, NEW c, NEW x, Ticket(s, z, c, x) PROVE Ticket(s, z, c, x)'
  <2>1. event_map_[s] # NoEvent BY <1>16, EventIsOne DEF Ticket
  <2>2. event_map_[s].n \notin Members(pool'[z].free)
    <3>1. CASE z # y BY <1>11, <1>16, <3>1 DEF Ticket
    <3>2. CASE z = y
      <4>1. event_map_[s] \in Objects /\ releasing \in Objects
        BY <1>16 DEF Ticket, PathInv, Shape, ObjectShape
      <4>2. event_map_[s].n # n
        <5> SUFFICES ASSUME event_map_[s].n = n PROVE FALSE OBVIOUS
        <5>1. event_map_[s].type = releasing.type /\ event_map_[s].n = releasing.n
          BY <1>2, <1>3, <1>16, <3>2 DEF Ticket
        <5>2. event_map_[s] = releasing BY <4>1, <5>1, SameObject
        <5> QED BY <1>16, <5>2 DEF Ticket
      <4> QED BY <1>6, <1>10, <1>11, <1>16, <3>2, <4>2 DEF Ticket
    <3> QED BY <3>1, <3>2
  <2> QED BY <1>1, <1>4, <1>14, <1>16, <2>1, <2>2 DEF Ticket
<1>17. WedgeShape' /\ EntryInv' /\ ReplyAnswersItsCall'
  BY <1>1 DEF PathInv, Shape, WedgeShape, EntryInv, ReplyAnswersItsCall
<1>18. /\ {} \in SUBSET FdsOf(responses) /\ responses' \in Seq(Responses) /\ FdOnce(responses')
       /\ Members(responses') \subseteq Members(responses)
       /\ FdsOf(responses') \subseteq FdsOf(responses) \ {}
  BY <1>1 DEF PathInv, Shape, QueueShape, ResInv
<1> QED BY <1>1, <1>12, <1>13, <1>14, <1>15, <1>16, <1>17, <1>18, TranslatorStep

-------------------------------------------------------------------------------
\* The translator: messages of the wedge become events.

\* A pool with a free object: its own first one, or new ones.
LEMMA GrowFacts ==
    ASSUME NEW p \in Pools, NEW c, PoolOK(p, c)
    PROVE  /\ grow(p) \in Pools /\ grow(p).free # <<>>
           /\ grow(p).size >= p.size /\ grow(p).size \in Nat /\ grow(p).size # 0
           /\ \A i \in DOMAIN grow(p).free :
                 /\ grow(p).free[i] \in 1 .. grow(p).size
                 /\ grow(p).free[i] \in Members(p.free) \/ grow(p).free[i] > p.size
           /\ \A i, j \in DOMAIN grow(p).free : grow(p).free[i] = grow(p).free[j] => i = j
<1>1. p.size \in Nat /\ p.size # 0 /\ p.free \in Seq(Nat) BY DEF Pools, PoolOK
<1>2. CASE p.free # <<>>
  <2>1. grow(p) = p BY <1>2 DEF grow
  <2> QED BY <1>1, <1>2, <2>1 DEF PoolOK, Members
<1>3. CASE p.free = <<>>
  <2> DEFINE g == [i \in 1 .. p.size |-> p.size + i]
  <2>1. g \in Seq(Nat) /\ DOMAIN g = 1 .. p.size /\ \A i \in 1 .. p.size : g[i] = p.size + i
    BY <1>1
  <2>2. 1 \in 1 .. p.size BY <1>1
  <2>3. g # <<>> BY <2>1, <2>2
  <2>4. grow(p) = [free |-> g, size |-> 2 * p.size] BY <1>3 DEF grow
  <2> HIDE DEF g
  <2>5. grow(p).free = g /\ grow(p).size = 2 * p.size BY <2>4
  <2>6. 2 * p.size \in Nat /\ 2 * p.size >= p.size /\ 2 * p.size # 0 BY <1>1
  <2>7. grow(p) \in Pools BY <2>1, <2>4, <2>6 DEF Pools
  <2>8. \A i \in DOMAIN g : g[i] \in 1 .. (2 * p.size) /\ g[i] > p.size BY <1>1, <2>1
  <2>9. \A i, j \in DOMAIN g : g[i] = g[j] => i = j BY <1>1, <2>1
  <2> QED BY <2>3, <2>5, <2>6, <2>7, <2>8, <2>9
<1> QED BY <1>2, <1>3

\* The object that get() hands out was not in use, and no other object changes.
LEMMA GetFacts ==
    ASSUME NEW p \in Pools, NEW c \in Seq(Contents), PoolOK(p, c), NEW d \in Contents,
           NEW n, n = get(p), NEW q, q = AfterGet(p), NEW b, b = Filled(c, q.size, n, d)
    PROVE  /\ q \in Pools /\ b \in Seq(Contents) /\ PoolOK(q, b)
           /\ n \in Nat /\ n \in 1 .. Len(b) /\ b[n] = d /\ n \notin Members(q.free)
           /\ 1 .. Len(c) \subseteq 1 .. Len(b)
           /\ \A k \in 1 .. Len(c) : k # n => b[k] = c[k]
           /\ \A k \in 1 .. Len(c) : k \notin Members(p.free) => k # n /\ k \notin Members(q.free)
<1>1. PICK g : g = grow(p) OBVIOUS
<1>2. /\ g \in Pools /\ g.free # <<>>
      /\ g.size >= p.size /\ g.size \in Nat /\ g.size # 0
      /\ \A i \in DOMAIN g.free :
            g.free[i] \in 1 .. g.size /\ (g.free[i] \in Members(p.free) \/ g.free[i] > p.size)
      /\ \A i, j \in DOMAIN g.free : g.free[i] = g.free[j] => i = j
  BY <1>1, GrowFacts
<1>3. g.free \in Seq(Nat) BY <1>2 DEF Pools
<1>4. PICK t : t = Tail(g.free) OBVIOUS
<1>5. /\ t \in Seq(Nat) /\ n = g.free[1] /\ 1 \in DOMAIN g.free
      /\ \A i \in DOMAIN t :
            i + 1 \in DOMAIN g.free /\ t[i] = g.free[i + 1] /\ i + 1 # 1 /\ i \in Nat
  BY <1>1, <1>2, <1>3, <1>4, TailFacts DEF get
<1>6. q.free = t /\ q.size = g.size /\ q \in Pools
  <2>1. q = [g EXCEPT !.free = t] BY <1>1, <1>4 DEF AfterGet
  <2>2. q.free = t /\ q.size = g.size BY <1>2, <2>1 DEF Pools
  <2>3. g \in Pools /\ t \in Seq(Nat) BY <1>2, <1>5
  <2>4. [g EXCEPT !.free = t] \in Pools BY <2>3, PoolWithFree DEF Pools
  <2> QED BY <2>1, <2>2, <2>4
<1>7. n \in Nat /\ n \in 1 .. g.size BY <1>2, <1>5
<1>8. p.size = Len(c) /\ Len(c) \in Nat BY DEF PoolOK
<1>9. /\ b \in Seq(Contents) /\ Len(b) = g.size
      /\ \A k \in 1 .. g.size : b[k] = IF k = n THEN d ELSE IF k <= Len(c) THEN c[k] ELSE Blank
  <2>1. Blank \in Contents BY DEF Blank, Contents
  <2> HIDE DEF Contents
  <2> DEFINE v(k) == IF k = n THEN d ELSE IF k <= Len(c) THEN c[k] ELSE Blank
  <2>2. \A k \in 1 .. g.size : v(k) \in Contents BY <1>2, <1>8, <2>1
  <2>3. b = [k \in 1 .. g.size |-> v(k)] BY <1>6 DEF Filled
  <2> HIDE DEF v
  <2>4. b \in Seq(Contents) /\ Len(b) = g.size /\ \A k \in 1 .. g.size : b[k] = v(k)
    BY <1>2, <2>2, <2>3
  <2> QED BY <2>4 DEF v
<1>10. n \notin Members(t)
  BY <1>2, <1>5 DEF Members
<1>11. Members(t) \subseteq Members(g.free) BY <1>5 DEF Members
<1>12. PoolOK(q, b)
  <2>1. \A i \in DOMAIN t : t[i] \in 1 .. q.size BY <1>2, <1>5, <1>6
  <2>2. ASSUME NEW i \in DOMAIN t, NEW j \in DOMAIN t, t[i] = t[j] PROVE i = j
    <3>1. i + 1 = j + 1 BY <1>2, <1>5, <2>2
    <3>2. i \in Nat /\ j \in Nat BY <1>5
    <3> QED BY <3>1, <3>2
  <2> QED BY <1>2, <1>6, <1>9, <2>1, <2>2 DEF PoolOK
<1>13. 1 .. Len(c) \subseteq 1 .. Len(b) BY <1>2, <1>8, <1>9
<1>14. ASSUME NEW k \in 1 .. Len(c), k \notin Members(p.free) PROVE k # n /\ k \notin Members(q.free)
  <2>1. ~(k > p.size) BY <1>8
  <2>2. \A i \in DOMAIN g.free : g.free[i] # k BY <1>2, <1>14, <2>1
  <2> QED BY <1>5, <1>6, <1>11, <2>2 DEF Members
<1>15. ASSUME NEW k \in 1 .. Len(c), k # n PROVE b[k] = c[k]
  BY <1>8, <1>9, <1>13, <1>15
<1>16. b[n] = d /\ n \in 1 .. Len(b) BY <1>7, <1>9
<1> QED BY <1>6, <1>7, <1>9, <1>10, <1>12, <1>13, <1>14, <1>15, <1>16

\* receive() turns the message m into an event for the Socket x, which is there
\* already or is new.
LEMMA DispatchPath ==
    ASSUME PathInv, to_daemon # <<>>, NEW m, m = Head(to_daemon), NEW x, DispatchCall(m, x),
           to_daemon' = Tail(to_daemon),
           UNCHANGED <<wedge_calls, wedge_sockets, call_count, responses, releasing, failed>>,
           UNCHANGED udpVars,
           SocketShape', CollInv',
           x \in DOMAIN socket', socket'[x].id = m.fd,
           DOMAIN socket' = DOMAIN socket \cup {x},
           \A z \in DOMAIN socket : socket'[z].id = socket[z].id,
           x \notin DOMAIN socket => x = m.call,
           CollSocks' = CollSocks \cup {x}, x \in CollSocks \/ x \notin DOMAIN socket
    PROVE  PathInv'
<1> HIDE DEF Messages, Events, Contents, Pools, Objects
<1>1. UNCHANGED <<map_, closing, network>> BY DEF udpVars
<1>2. /\ to_daemon \in Seq(Messages) /\ udp_queue \in Seq(Events) /\ responses \in Seq(Responses)
      /\ ObjectShape /\ FdOnce(to_daemon) /\ WedgeShape /\ EntryInv /\ ReplyAnswersItsCall
  BY DEF PathInv, Shape, QueueShape, MsgInv
<1>3. /\ m \in Messages /\ m \in Members(to_daemon) /\ MessageOK(m)
      /\ to_daemon' \in Seq(Messages) /\ Members(to_daemon') \subseteq Members(to_daemon)
      /\ FdOnce(to_daemon') /\ FdsOf(to_daemon') \subseteq FdsOf(to_daemon)
      /\ m.fd \in FdsOf(to_daemon) /\ m.fd \notin FdsOf(to_daemon')
  BY <1>2, TailFacts, FdTail DEF PathInv, MsgInv
<1>4. /\ m.type \in CallTypes /\ m.fd \in SockIds /\ m.port \in Nat /\ m.call \in Nat
  BY <1>3, WedgeAssumption DEF Messages, CallIds
<1>5. m.fd \notin Busy BY <1>3 DEF PathInv, Apart, Busy
<1>6. \A f, z, c : (Waiting(f, z, c) <=> Waiting(f, z, c)') /\ (CallOf(f, z) <=> CallOf(f, z)')
  BY DEF Waiting, CallOf
\* the object
<1>10. PICK y : y = m.type OBVIOUS
<1>11. PICK p : p = pool[y] OBVIOUS
<1>12. PICK c : c = content[y] OBVIOUS
<1>13. PICK n : n = get(p) OBVIOUS
<1>14. PICK q : q = AfterGet(p) OBVIOUS
<1>15. PICK d : d = [sock |-> x, fd |-> m.fd, port |-> m.port, call |-> m.call] OBVIOUS
<1>16. PICK b : b = Filled(c, q.size, n, d) OBVIOUS
<1>17. PICK e : e = [kind |-> y, n |-> n, sock |-> 0, datagram |-> 0] OBVIOUS
<1>18. /\ pool' = [pool EXCEPT ![y] = q]
       /\ content' = [content EXCEPT ![y] = b]
       /\ event_map_' = [event_map_ EXCEPT ![m.fd] = [type |-> y, n |-> n]]
       /\ udp_queue' = enqueue(udp_queue, e)
  BY <1>10, <1>11, <1>12, <1>13, <1>14, <1>15, <1>16, <1>17 DEF DispatchCall
<1>19. y \in CallTypes /\ p \in Pools /\ c \in Seq(Contents) /\ PoolOK(p, c)
  BY <1>2, <1>4, <1>10, <1>11, <1>12 DEF ObjectShape, PathInv, PoolInv
<1>20. x \in Nat BY DEF SocketShape
<1>21. /\ d \in Contents /\ d.sock = x /\ d.fd = m.fd /\ d.port = m.port /\ d.call = m.call
  BY <1>4, <1>15, <1>20 DEF Contents
<1>22. /\ q \in Pools /\ b \in Seq(Contents) /\ PoolOK(q, b)
       /\ n \in Nat /\ n \in 1 .. Len(b) /\ b[n] = d /\ n \notin Members(q.free)
       /\ 1 .. Len(c) \subseteq 1 .. Len(b)
       /\ \A k \in 1 .. Len(c) : k # n => b[k] = c[k]
       /\ \A k \in 1 .. Len(c) : k \notin Members(p.free) => k # n /\ k \notin Members(q.free)
  <2>1. p \in Pools /\ c \in Seq(Contents) /\ PoolOK(p, c) /\ d \in Contents BY <1>19, <1>21
  <2> QED BY <1>13, <1>14, <1>16, <2>1, GetFacts, SMTT(60)
<1>23. /\ pool'[y] = q /\ content'[y] = b
       /\ \A z \in CallTypes : z # y => pool'[z] = pool[z] /\ content'[z] = content[z]
       /\ event_map_'[m.fd] = [type |-> y, n |-> n]
       /\ \A s \in SockIds : s # m.fd => event_map_'[s] = event_map_[s]
  BY <1>2, <1>4, <1>18, <1>19 DEF ObjectShape
<1>24. e.kind = y /\ e.n = n /\ e.sock = 0 /\ e.datagram = 0 /\ e \in Events
  BY <1>17, <1>19, <1>22 DEF Events, Kinds, LibraryKinds
<1>25. ASSUME NEW z \in CallTypes, NEW k \in 1 .. Len(content[z]), k \notin Members(pool[z].free)
       PROVE  /\ content'[z][k] = content[z][k] /\ k \in 1 .. Len(content'[z])
              /\ k \notin Members(pool'[z].free) /\ ~(z = y /\ k = n)
  BY <1>11, <1>12, <1>22, <1>23, <1>25
<1>26. \A z \in CallTypes : 1 .. Len(content[z]) \subseteq 1 .. Len(content'[z])
  BY <1>12, <1>22, <1>23
\* tickets
<1>30. ASSUME NEW s, NEW z, NEW a, NEW w, s # m.fd, Ticket(s, z, a, w) PROVE Ticket(s, z, a, w)'
  <2>1. event_map_'[s] = event_map_[s] BY <1>23, <1>30 DEF Ticket
  <2>2. /\ content'[z][event_map_[s].n] = content[z][event_map_[s].n]
        /\ event_map_[s].n \in 1 .. Len(content'[z])
        /\ event_map_[s].n \notin Members(pool'[z].free)
    BY <1>25, <1>30 DEF Ticket
  <2>3. w \in DOMAIN socket' /\ socket'[w].id = s BY <1>30 DEF Ticket
  <2> QED BY <1>6, <1>30, <2>1, <2>2, <2>3 DEF Ticket
<1>31. ASSUME NEW s, NEW z, NEW a, NEW w, Ticket(s, z, a, w)
       PROVE  ~(event_map_[s].n = n /\ z = y)
  BY <1>25, <1>31 DEF Ticket
<1>32. Ticket(m.fd, y, m.call, x)'
  <2>1. [type |-> y, n |-> n] # releasing
    <3>1. releasing # NoEvent => ~(releasing.type = y /\ releasing.n = n)
      BY <1>25 DEF PathInv, PoolInv
    <3>2. [type |-> y, n |-> n] # NoEvent BY <1>19, EventIsOne
    <3> QED BY <3>1, <3>2
  <2>2. event_map_'[m.fd].type = y /\ event_map_'[m.fd].n = n BY <1>23
  <2>3. content'[y][n] = d BY <1>22, <1>23
  <2>4. event_map_'[m.fd] # releasing' BY <1>23, <2>1
  <2>5. Waiting(m.fd, y, m.call)' BY <1>3, <1>6, <1>10 DEF MessageOK
  <2> QED BY <1>4, <1>19, <1>21, <1>22, <1>23, <2>2, <2>3, <2>4, <2>5 DEF Ticket
\* the places
<1>40. /\ udp_queue' \in Seq(Events) /\ Members(udp_queue') = Members(udp_queue) \cup {e}
       /\ ObjectOnce(udp_queue')
  <2>1. ASSUME NEW f \in Members(udp_queue), f.kind = e.kind, f.n = e.n PROVE FALSE
    <3>1. f \in Library(udp_queue) BY <1>19, <1>24, <2>1 DEF Library
    <3>2. EventOK(f, content[f.kind][f.n]) BY <3>1 DEF PathInv, QueInv
    <3> QED BY <1>24, <1>31, <2>1, <3>2 DEF EventOK
  <2>2. ObjectOnce(udp_queue) BY DEF PathInv, QueInv
  <2>3. udp_queue \in Seq(Events) /\ e \in Events BY <1>2, <1>24
  <2>4. /\ enqueue(udp_queue, e) \in Seq(Events)
        /\ Members(enqueue(udp_queue, e)) = Members(udp_queue) \cup {e}
        /\ ObjectOnce(enqueue(udp_queue, e))
    BY <2>1, <2>2, <2>3, ObjectEnqueue
  <2> QED BY <1>18, <2>4
<1>41. Library(udp_queue') = Library(udp_queue) \cup {e}
  BY <1>19, <1>24, <1>40 DEF Library
<1>42. ASSUME NEW f \in Library(udp_queue)
       PROVE  content'[f.kind][f.n] = content[f.kind][f.n] /\ content[f.kind][f.n].fd \in QueFds
  <2>1. EventOK(f, content[f.kind][f.n]) BY <1>42 DEF PathInv, QueInv
  <2>2. content'[f.kind][f.n] = content[f.kind][f.n]
    BY <1>25, <2>1 DEF EventOK, Ticket
  <2> QED BY <1>42, <2>2 DEF QueFds
<1>43. content'[e.kind][e.n] = d BY <1>22, <1>23, <1>24
<1>44. QueFds' = QueFds \cup {m.fd}
  BY <1>21, <1>41, <1>42, <1>43 DEF QueFds
<1>45. SavedIn' = SavedIn /\ SavFds' = SavFds
  <2>1. DOMAIN map_ \subseteq DOMAIN socket BY DEF PathInv, CollInv, CollSocks
  <2> QED BY <1>1, <2>1 DEF SavFds, SavedIn
<1>46. \A s : Opened(s) => Opened(s)'
  <2>1. DOMAIN map_ \subseteq DOMAIN socket BY DEF PathInv, CollInv, CollSocks
  <2> QED BY <1>1, <2>1 DEF Opened
<1>50. QueInv'
  <2>1. ASSUME NEW f \in Library(udp_queue), NEW o, o = content[f.kind][f.n] PROVE EventOK(f, o)'
    <3>1. EventOK(f, o) BY <2>1 DEF PathInv, QueInv
    <3>2. o.fd # m.fd BY <1>5, <1>42, <2>1 DEF Busy
    <3>3. event_map_'[o.fd] = event_map_[o.fd] BY <1>23, <3>1, <3>2 DEF EventOK, Ticket
    <3> QED BY <1>30, <3>1, <3>2, <3>3 DEF EventOK
  <2>2. EventOK(e, d)'
    <3>1. event_map_'[m.fd].n = n BY <1>23
    <3> QED BY <1>3, <1>10, <1>21, <1>24, <1>32, <3>1 DEF EventOK, MessageOK
  <2>3. ASSUME NEW f \in Library(udp_queue'), NEW o, o = content'[f.kind][f.n] PROVE EventOK(f, o)'
    <3>1. CASE f = e BY <1>43, <2>2, <2>3, <3>1
    <3>2. CASE f \in Library(udp_queue) BY <1>42, <2>1, <2>3, <3>2
    <3> QED BY <1>41, <2>3, <3>1, <3>2
  <2> QED BY <1>40, <2>3 DEF QueInv
<1>51. SavInv'
  <2>1. ASSUME NEW w \in SavedIn, NEW k, NEW s, k = map_[w].receive_event, s = socket[w].id
        PROVE  SavedOK(w, k, s)'
    <3>1. SavedOK(w, k, s) BY <2>1 DEF PathInv, SavInv
    <3>2. s # m.fd BY <1>5, <2>1 DEF Busy, SavFds
    <3>3. event_map_'[s] = event_map_[s] BY <1>23, <3>1, <3>2 DEF SavedOK, Ticket
    <3>4. content'["recvfrom"][k] = content["recvfrom"][k]
      BY <1>25, <3>1 DEF SavedOK, Ticket
    <3> QED BY <1>30, <3>1, <3>2, <3>3, <3>4 DEF SavedOK
  <2>2. \A w \in SavedIn : w \in DOMAIN socket BY DEF SavedIn, PathInv, CollInv, CollSocks
  <2> QED BY <1>1, <1>45, <2>1, <2>2 DEF SavInv
<1>52. ResInv'
  <2>1. ASSUME NEW r \in Members(responses) PROVE Ticket(r.fd, r.type, r.call, r.sock)'
    <3>1. r.fd # m.fd BY <1>5, <2>1 DEF Busy, FdsOf, Members
    <3> QED BY <1>30, <2>1, <3>1 DEF PathInv, ResInv
  <2> QED BY <2>1 DEF PathInv, ResInv
<1>53. MsgInv'
  <2>1. ASSUME NEW a \in Members(to_daemon') PROVE MessageOK(a)'
    <3>1. MessageOK(a) BY <1>3, <2>1 DEF PathInv, MsgInv
    <3>2. a.fd # m.fd BY <1>3, <2>1 DEF Members, FdsOf
    <3>3. a.call # m.call
      BY <1>2, <1>3, <3>1, <3>2 DEF MessageOK, Waiting, EntryInv
    <3>4. a.call \notin DOMAIN socket' BY <3>1, <3>3 DEF MessageOK
    <3>5. a.type = "socket" => \A z \in CollSocks' : socket'[z].id # a.fd
      <4>1. \A z \in CollSocks : z \in DOMAIN socket BY DEF PathInv, CollInv, CollSocks
      <4> QED BY <3>1, <3>2, <4>1 DEF MessageOK
    <3> QED BY <1>6, <1>46, <3>1, <3>4, <3>5 DEF MessageOK
  <2> QED BY <1>3, <2>1 DEF MsgInv
<1>54. Apart'
  BY <1>3, <1>5, <1>44, <1>45 DEF PathInv, Apart, Busy
<1>55. PoolInv'
  <2>1. \A z \in CallTypes : PoolOK(pool'[z], content'[z])
    BY <1>22, <1>23 DEF PathInv, PoolInv
  <2>2. releasing # NoEvent =>
           /\ releasing.type \in CallTypes /\ releasing.n \in 1 .. Len(content'[releasing.type])
           /\ releasing.n \notin Members(pool'[releasing.type].free)
    BY <1>25 DEF PathInv, PoolInv
  <2> QED BY <2>1, <2>2 DEF PoolInv
<1>56. LifeInv'
  <2>1. closing # NotClosing => closing.n \in 1 .. Len(content'["close"])
    BY <1>26 DEF PathInv, LifeInv, CallTypes
  <2>2. ASSUME NEW z \in Doomed' PROVE z \in Doomed \/ (z = x /\ y = "close")
    <3>1. CASE z \in {f.sock : f \in {g \in Members(udp_queue') : g.kind = "delete"}}
      <4>1. PICK f \in Members(udp_queue') : f.kind = "delete" /\ z = f.sock BY <3>1
      <4>2. f # e BY <1>19, <1>24, <4>1 DEF CallTypes
      <4>3. f \in Members(udp_queue) BY <1>40, <4>1, <4>2
      <4> QED BY <4>1, <4>3 DEF Doomed
    <3>2. CASE closing # NotClosing /\ z = content'["close"][closing.n].sock
      <4>0. closing.n \in 1 .. Len(content["close"]) BY <3>2 DEF PathInv, LifeInv
      <4>1. CASE content'["close"][closing.n] = content["close"][closing.n]
        BY <3>2, <4>1 DEF Doomed
      <4>2. CASE content'["close"][closing.n] # content["close"][closing.n]
        <5>1. y = "close" BY <1>23, <4>2 DEF CallTypes
        <5>2. closing.n = n BY <1>12, <1>22, <1>23, <4>0, <4>2, <5>1
        <5>3. content'["close"][closing.n] = d BY <1>22, <1>23, <5>1, <5>2
        <5> QED BY <1>21, <3>2, <5>1, <5>3
      <4> QED BY <4>1, <4>2
    <3> QED BY <1>1, <2>2, <3>1, <3>2 DEF Doomed
  <2>3. Doomed' \subseteq DOMAIN socket' BY <2>2 DEF PathInv, LifeInv
  <2>4. ASSUME NEW s, Leaving(s) PROVE Leaving(s)' BY <1>3, <1>6, <2>4 DEF Leaving
  <2>5. ASSUME y = "close" PROVE Leaving(m.fd)'
    <3>1. CallOf(m.fd, "close")
      BY <1>3, <1>10, <2>5, WaitingIsCall DEF MessageOK
    <3> QED BY <1>3, <1>6, <3>1 DEF Leaving
  <2>6. ASSUME NEW z \in (Doomed \cap CollSocks)', NEW s \in SockIds, socket'[z].id = s
        PROVE  Leaving(s)'
    <3>1. CASE z = x /\ y = "close" BY <2>5, <2>6, <3>1
    <3>2. CASE z \in Doomed
      <4>1. z \in DOMAIN socket BY <3>2 DEF PathInv, LifeInv
      <4>2. z \in CollSocks BY <2>6, <4>1
      <4> QED BY <2>4, <2>6, <3>2, <4>1, <4>2 DEF PathInv, LifeInv
    <3> QED BY <2>2, <2>6, <3>1, <3>2
  <2>7. ASSUME NEW s, Served(s) PROVE Served(s)' BY <1>6, <1>46, <2>7 DEF Served
  <2> QED BY <1>1, <2>1, <2>3, <2>6, <2>7 DEF PathInv, LifeInv
<1>57. Shape'
  <2>1. WedgeShape' BY <1>2 DEF WedgeShape
  <2>2. QueueShape' BY <1>2, <1>3, <1>40 DEF QueueShape
  <2>3. ObjectShape'
    <3>1. [type |-> y, n |-> n] \in Objects BY <1>19, <1>22 DEF Objects
    <3> QED BY <1>2, <1>18, <1>22, <3>1 DEF ObjectShape
  <2> QED BY <2>1, <2>2, <2>3 DEF Shape
<1>58. EntryInv' /\ ReplyAnswersItsCall' BY <1>2 DEF EntryInv, ReplyAnswersItsCall
<1> QED BY <1>50, <1>51, <1>52, <1>53, <1>54, <1>55, <1>56, <1>57, <1>58 DEF PathInv

\* The first of one key.
LEMMA FirstKeyOfOne == ASSUME NEW k PROVE FirstKey({k}) = k
<1>1. k \in {k} /\ \A l \in {k} : KeyBefore(k, l) BY DEF KeyBefore
<1>2. FirstKey({k}) \in {k} BY <1>1 DEF FirstKey
<1> QED BY <1>2

\* The collection finds a Socket of its own by the identifier.
LEMMA FoundById ==
    ASSUME CollInv, NEW x \in CollSocks, NEW s, socket[x].id = s
    PROVE  /\ KeyOf(socket, x) \in DOMAIN collection_ /\ collection_[KeyOf(socket, x)] = x
           /\ {k \in DOMAIN collection_ : collection_[k] = x} = {KeyOf(socket, x)}
           /\ get_by_id(collection_, socket, s) = x
<1>1. PICK k \in DOMAIN collection_ : collection_[k] = x BY DEF CollSocks
<1>2. k = KeyOf(socket, x) BY <1>1 DEF CollInv
<1>3. \A l \in DOMAIN collection_ : collection_[l] = x => l = k BY <1>1, <1>2 DEF CollInv
<1>4. KeysWithId(collection_, socket, s) = {k}
  <2>1. ASSUME NEW l \in DOMAIN collection_, socket[collection_[l]].id = s PROVE l = k
    <3>1. collection_[l] \in CollSocks BY DEF CollSocks
    <3>2. collection_[l] = x BY <2>1, <3>1 DEF CollInv
    <3> QED BY <1>3, <3>2
  <2> QED BY <1>1, <2>1 DEF KeysWithId
<1>5. FirstKey({k}) = k BY FirstKeyOfOne
<1>6. get_by_id(collection_, socket, s) = collection_[k]
  BY <1>4, <1>5 DEF get_by_id, FirstSocket
<1> QED BY <1>1, <1>2, <1>3, <1>6

\* A message for a socket: a new Socket, under a key of its own.
LEMMA ReceiveSocketPath ==
    ASSUME Apartness, PathInv, Receive, UNCHANGED udpVars, Head(to_daemon).type = "socket"
    PROVE  PathInv'
<1> HIDE DEF Messages
<1>1. PICK m : m = Head(to_daemon) OBVIOUS
<1>2. /\ ReceiveSocket(m) /\ to_daemon # <<>> /\ to_daemon' = Tail(to_daemon) /\ m.type = "socket"
      /\ UNCHANGED <<wedge_calls, wedge_sockets, call_count, caller, responses, releasing>>
      /\ UNCHANGED failed
  BY <1>1 DEF Receive, ReceiveSocket
<1>3. m \in Messages /\ m \in Members(to_daemon)
  BY <1>1, <1>2, TailFacts DEF PathInv, Shape, QueueShape
<1>4. MessageOK(m) BY <1>3 DEF PathInv, MsgInv
<1>5. PICK x : x = m.call OBVIOUS
<1>6. x \notin DOMAIN socket /\ x \in CallIds /\ x \in Nat /\ m.fd \in SockIds
  BY <1>3, <1>4, <1>5, WedgeAssumption DEF MessageOK, Messages, CallIds
<1>7. x \in 1 .. call_count
  BY <1>4, <1>5, <1>6 DEF MessageOK, Waiting, PathInv, EntryInv, Shape, WedgeShape
<1>8. PICK rec : rec = [id |-> m.fd, addr |-> "any", port |-> EphemeralPort(x)] OBVIOUS
<1>9. /\ rec.id = m.fd /\ rec.addr = "any" /\ rec.port = EphemeralPort(x) /\ rec \in SocketRecords
  BY <1>6, <1>8 DEF SocketRecords, EphemeralPort
<1>10. /\ socket' = [z \in DOMAIN socket \cup {x} |-> IF z = x THEN rec ELSE socket[z]]
       /\ collection_' = push(collection_, socket', x)
       /\ DispatchCall(m, x)
  BY <1>2, <1>5, <1>8 DEF ReceiveSocket
<1>11. /\ DOMAIN socket' = DOMAIN socket \cup {x} /\ socket'[x] = rec
       /\ \A z \in DOMAIN socket : socket'[z] = socket[z]
  BY <1>6, <1>10
<1>12. PICK key : key = KeyOf(socket', x) OBVIOUS
<1>13. key = <<"any", EphemeralPort(x)>> BY <1>9, <1>11, <1>12 DEF KeyOf
<1>14. key \notin DOMAIN collection_
  <2> SUFFICES ASSUME key \in DOMAIN collection_ PROVE FALSE OBVIOUS
  <2>1. PICK z : z = collection_[key] OBVIOUS
  <2>2. z \in CollSocks /\ z \in DOMAIN socket /\ KeyOf(socket, z) = key
    BY <2>1 DEF CollSocks, PathInv, CollInv
  <2>3. socket[z].port = EphemeralPort(x) BY <1>13, <2>2 DEF KeyOf
  <2>4. socket[z].port \in BindPorts[socket[z].id] \cup {EphemeralPort(z)}
    BY <2>2 DEF PathInv, CollInv
  <2>5. socket[z].id \in SockIds /\ z \in Nat
    BY <2>2 DEF PathInv, Shape, SocketShape, SocketRecords
  <2>6. EphemeralPort(x) # EphemeralPort(z) BY <1>6, <2>2, <2>5 DEF EphemeralPort
  <2> QED BY <1>6, <2>3, <2>4, <2>5, <2>6 DEF Apartness
<1>15. /\ DOMAIN collection_' = DOMAIN collection_ \cup {key} /\ collection_'[key] = x
       /\ \A k \in DOMAIN collection_ : collection_'[k] = collection_[k]
       /\ collection_' = [k \in DOMAIN collection_' |-> collection_'[k]]
  BY <1>10, <1>12, <1>14 DEF push
<1>16. CollSocks' = CollSocks \cup {x} BY <1>15 DEF CollSocks
<1>17. UNCHANGED <<map_, closing, network>> BY DEF udpVars
<1>18. \A z \in CollSocks : z \in DOMAIN socket BY DEF CollSocks, PathInv, CollInv
<1>19. SocketShape'
  <2>1. socket' \in [DOMAIN socket' -> SocketRecords]
    <3> HIDE DEF SocketRecords
    <3> QED BY <1>9, <1>10, <1>11 DEF PathInv, Shape, SocketShape
  <2>2. DOMAIN socket' \subseteq 1 .. call_count' BY <1>2, <1>7, <1>11 DEF PathInv, Shape, SocketShape
  <2> QED BY <1>15, <1>17, <2>1, <2>2 DEF PathInv, Shape, SocketShape
<1>20. CollInv'
  <2>1. ASSUME NEW k \in DOMAIN collection_'
        PROVE  collection_'[k] \in DOMAIN socket' /\ KeyOf(socket', collection_'[k]) = k
    <3>1. CASE k = key BY <1>11, <1>12, <1>15, <3>1
    <3>2. CASE k \in DOMAIN collection_
      <4>1. collection_[k] \in DOMAIN socket /\ KeyOf(socket, collection_[k]) = k
        BY <3>2 DEF PathInv, CollInv
      <4> QED BY <1>11, <1>15, <3>2, <4>1 DEF KeyOf
    <3> QED BY <1>15, <3>1, <3>2
  <2>2. \A z \in CollSocks : socket[z].id # m.fd BY <1>2, <1>4 DEF MessageOK
  <2>3. ASSUME NEW a \in CollSocks', NEW b \in CollSocks', socket'[a].id = socket'[b].id PROVE a = b
    BY <1>9, <1>11, <1>16, <1>18, <2>2, <2>3 DEF PathInv, CollInv
  <2>4. \A a \in CollSocks' : socket'[a].port \in BindPorts[socket'[a].id] \cup {EphemeralPort(a)}
    BY <1>9, <1>11, <1>16, <1>18 DEF PathInv, CollInv
  <2> QED BY <1>16, <1>17, <2>1, <2>3, <2>4 DEF PathInv, CollInv
<1>21. /\ x \in DOMAIN socket' /\ socket'[x].id = m.fd
       /\ \A z \in DOMAIN socket : socket'[z].id = socket[z].id
  BY <1>9, <1>11
<1> QED BY <1>1, <1>2, <1>5, <1>6, <1>10, <1>11, <1>16, <1>19, <1>20, <1>21, DispatchPath

\* Any other message: its socket has a Socket, and the collection finds it.
LEMMA ReceiveCallPath ==
    ASSUME PathInv, Receive, UNCHANGED udpVars, Head(to_daemon).type # "socket"
    PROVE  PathInv'
<1> HIDE DEF Messages
<1>1. PICK m : m = Head(to_daemon) OBVIOUS
<1>2. /\ ReceiveCall(m) /\ to_daemon # <<>> /\ to_daemon' = Tail(to_daemon) /\ m.type # "socket"
      /\ UNCHANGED <<wedge_calls, wedge_sockets, call_count, caller, responses, releasing>>
  BY <1>1 DEF Receive
<1>3. m \in Messages /\ m \in Members(to_daemon)
  BY <1>1, <1>2, TailFacts DEF PathInv, Shape, QueueShape
<1>4. MessageOK(m) BY <1>3 DEF PathInv, MsgInv
<1>5. PICK x \in DOMAIN map_ : socket[x].id = m.fd BY <1>2, <1>4 DEF MessageOK, Opened
<1>6. x \in CollSocks BY <1>5 DEF PathInv, CollInv
<1>7. get_by_id(collection_, socket, m.fd) = x BY <1>5, <1>6, FoundById DEF PathInv
<1>8. x \in DOMAIN socket BY <1>6 DEF CollSocks, PathInv, CollInv
<1>9. x # 0 BY <1>8 DEF PathInv, Shape, SocketShape
<1>10. DispatchCall(m, x) /\ UNCHANGED <<failed, socket, collection_>>
  BY <1>2, <1>7, <1>9 DEF ReceiveCall
<1>11. UNCHANGED <<map_, closing, network>> BY DEF udpVars
<1>12. CollSocks' = CollSocks BY <1>10 DEF CollSocks
<1>13. SocketShape' BY <1>2, <1>10, <1>11 DEF PathInv, Shape, SocketShape
<1>14. CollInv' BY <1>10, <1>11, <1>12 DEF PathInv, CollInv
<1>15. /\ x \in DOMAIN socket' /\ socket'[x].id = m.fd /\ DOMAIN socket' = DOMAIN socket \cup {x}
       /\ \A z \in DOMAIN socket : socket'[z].id = socket[z].id
       /\ CollSocks' = CollSocks \cup {x}
  BY <1>5, <1>6, <1>8, <1>10, <1>12
<1> QED BY <1>1, <1>2, <1>6, <1>8, <1>10, <1>13, <1>14, <1>15, DispatchPath

-------------------------------------------------------------------------------
\* The thread of the protocol.

\* A step that leaves the table, the messages and the event objects alone: every
\* event, saved receive and response that is there after it has a ticket before it.
LEMMA UDPStep ==
    ASSUME PathInv, UNCHANGED <<wedgeVars, pool, content, event_map_, releasing, failed>>,
           DOMAIN socket' = DOMAIN socket,
           \A z \in DOMAIN socket : socket'[z].id = socket[z].id,
           SocketShape', CollInv', CollSocks' \subseteq CollSocks,
           udp_queue' \in Seq(Events), responses' \in Seq(Responses),
           ObjectOnce(udp_queue'), FdOnce(responses'),
           Library(udp_queue') \subseteq Library(udp_queue),
           \A e \in Library(udp_queue') : e.kind = "socket" => content[e.kind][e.n].sock \in CollSocks',
           \A r \in Members(responses') : Ticket(r.fd, r.type, r.call, r.sock),
           \A x \in SavedIn' : SavedOK(x, map_'[x].receive_event, socket[x].id),
           Apart',
           \A s \in FdsOf(to_daemon) : Opened(s) => Opened(s)',
           closing' # NotClosing => closing'.n \in 1 .. Len(content["close"]),
           Doomed' \subseteq DOMAIN socket,
           \A x \in (Doomed \cap CollSocks)', s \in SockIds : socket[x].id = s => Leaving(s),
           \A s \in wedge_sockets : Served(s)'
    PROVE  PathInv'
<1> HIDE DEF Events, Responses, Messages
<1>1. UNCHANGED <<wedge_calls, wedge_sockets, call_count, to_daemon>> BY DEF wedgeVars
<1>2. \A f, z, c : Waiting(f, z, c) => Waiting(f, z, c)' BY <1>1 DEF Waiting
<1>3. \A f : Leaving(f) => Leaving(f)' BY <1>1 DEF Leaving, CallOf
<1>4. ASSUME NEW s, NEW y, NEW c, NEW x, Ticket(s, y, c, x) PROVE Ticket(s, y, c, x)'
  BY <1>2, <1>4 DEF Ticket
<1>5. QueInv'
  <2>1. ASSUME NEW e \in Library(udp_queue'), NEW o, o = content[e.kind][e.n] PROVE EventOK(e, o)'
    <3>1. EventOK(e, o) BY <2>1 DEF PathInv, QueInv
    <3> QED BY <1>4, <2>1, <3>1 DEF EventOK
  <2> QED BY <2>1 DEF QueInv
<1>6. SavInv'
  <2>1. ASSUME NEW x, NEW n, NEW s, SavedOK(x, n, s) PROVE SavedOK(x, n, s)'
    BY <1>4, <2>1 DEF SavedOK
  <2>2. \A x \in SavedIn' : x \in DOMAIN socket /\ socket'[x].id = socket[x].id
    BY DEF CollInv, CollSocks, SavedIn
  <2> QED BY <2>1, <2>2 DEF SavInv
<1>7. ResInv' BY <1>4 DEF ResInv
<1>8. MsgInv'
  <2>1. \A z \in CollSocks : z \in DOMAIN socket BY DEF PathInv, CollInv, CollSocks
  <2>2. ASSUME NEW m \in Members(to_daemon) PROVE MessageOK(m)'
    <3>1. MessageOK(m) /\ m.fd \in FdsOf(to_daemon) BY <2>2 DEF PathInv, MsgInv, Members, FdsOf
    <3> QED BY <1>2, <2>1, <3>1 DEF MessageOK
  <2> QED BY <1>1, <2>2 DEF PathInv, MsgInv
<1>9. PoolInv' BY DEF PathInv, PoolInv
<1>10. LifeInv'
  <2>1. \A x \in (Doomed \cap CollSocks)', s \in SockIds : socket'[x].id = s => Leaving(s)'
    BY <1>3
  <2> QED BY <1>1, <2>1 DEF LifeInv
<1>11. Shape'
  BY <1>1 DEF PathInv, Shape, WedgeShape, QueueShape, ObjectShape
<1>12. EntryInv' /\ ReplyAnswersItsCall' BY <1>1 DEF PathInv, EntryInv, ReplyAnswersItsCall
<1> QED BY <1>5, <1>6, <1>7, <1>8, <1>9, <1>10, <1>11, <1>12 DEF PathInv

\* The queue without its head.
LEMMA TakeAny ==
    ASSUME PathInv, NEW y, Processes(y)
    PROVE  /\ UNCHANGED <<wedgeVars, pool, content, event_map_, releasing>>
           /\ closing = NotClosing /\ failed = "none" /\ Head(udp_queue).kind = y
           /\ udp_queue' \in Seq(Events) /\ ObjectOnce(udp_queue')
           /\ Head(udp_queue) \in Members(udp_queue) /\ Head(udp_queue) \in Events
           /\ Members(udp_queue') \subseteq Members(udp_queue)
           /\ Library(udp_queue') \subseteq Library(udp_queue) /\ QueFds' \subseteq QueFds
<1> HIDE DEF Events
<1>1. /\ UNCHANGED <<wedgeVars, pool, content, event_map_, releasing>>
      /\ closing = NotClosing /\ failed = "none" /\ Head(udp_queue).kind = y
      /\ udp_queue # <<>> /\ udp_queue' = Tail(udp_queue)
  BY DEF Processes
<1>2. udp_queue \in Seq(Events) /\ ObjectOnce(udp_queue) BY DEF PathInv, Shape, QueueShape, QueInv
<1>3. /\ udp_queue' \in Seq(Events) /\ ObjectOnce(udp_queue')
      /\ Head(udp_queue) \in Members(udp_queue) /\ Head(udp_queue) \in Events
      /\ Members(udp_queue') \subseteq Members(udp_queue)
  BY <1>1, <1>2, TailFacts, ObjectTail
<1>4. Library(udp_queue') \subseteq Library(udp_queue) BY <1>3 DEF Library
<1>5. QueFds' \subseteq QueFds BY <1>1, <1>4 DEF QueFds
<1> QED BY <1>1, <1>3, <1>4, <1>5

\* The event of a call: its socket is in the queue no more.
LEMMA TakeEvent ==
    ASSUME PathInv, NEW y \in CallTypes, Processes(y)
    PROVE  /\ EventOK(Head(udp_queue), Event)
           /\ Ticket(Event.fd, y, Event.call, Event.sock)
           /\ Event.fd \in QueFds /\ Event.fd \notin QueFds'
<1> HIDE DEF Events
<1>1. /\ Head(udp_queue).kind = y /\ content' = content /\ udp_queue' = Tail(udp_queue)
      /\ udp_queue # <<>> /\ udp_queue \in Seq(Events) /\ ObjectOnce(udp_queue)
      /\ Head(udp_queue) \in Members(udp_queue)
      /\ Library(udp_queue') \subseteq Library(udp_queue)
  BY TakeAny DEF Processes, PathInv, Shape, QueueShape, QueInv
<1>2. Head(udp_queue) \in Library(udp_queue) BY <1>1 DEF Library
<1>3. PICK e : e = Head(udp_queue) OBVIOUS
<1>4. PICK o : o = Event OBVIOUS
<1>5. EventOK(e, o) BY <1>2, <1>3, <1>4 DEF PathInv, QueInv, Event
<1>6. o.fd \in QueFds BY <1>2, <1>4 DEF QueFds, Event
<1>7. ASSUME NEW f \in Library(udp_queue'), content[f.kind][f.n].fd = o.fd PROVE FALSE
  <2>1. EventOK(f, content[f.kind][f.n]) BY <1>1, <1>7 DEF PathInv, QueInv
  <2>2. f.kind = e.kind /\ f.n = e.n BY <1>5, <1>7, <2>1 DEF EventOK, Ticket
  <2>3. f \in Members(Tail(udp_queue)) BY <1>1, <1>7 DEF Library
  <2> QED BY <1>1, <1>3, <2>2, <2>3, ObjectTail
<1>8. o.fd \notin QueFds' BY <1>1, <1>7 DEF QueFds
<1>9. Ticket(o.fd, y, o.call, o.sock) BY <1>1, <1>3, <1>5 DEF EventOK
<1> QED BY <1>3, <1>4, <1>5, <1>6, <1>8, <1>9

\* A response with a ticket joins the others.
LEMMA AnswerFacts ==
    ASSUME PathInv, NEW r, NEW s, NEW y, NEW c, NEW x, Ticket(s, y, c, x), s \notin FdsOf(responses),
           r = [sock |-> x, fd |-> s, type |-> y, call |-> c], responses' = Append(responses, r)
    PROVE  /\ responses' \in Seq(Responses) /\ FdOnce(responses')
           /\ FdsOf(responses') = FdsOf(responses) \cup {s}
           /\ \A a \in Members(responses') : Ticket(a.fd, a.type, a.call, a.sock)
<1>1. r.sock = x /\ r.fd = s /\ r.type = y /\ r.call = c OBVIOUS
<1>2. x \in Nat BY DEF Ticket, PathInv, Shape, SocketShape
<1>3. c \in Nat
  <2>1. PICK i \in Slots : wedge_calls[i].call_id = c BY DEF Ticket, Waiting
  <2> QED BY <2>1 DEF PathInv, Shape, WedgeShape, Entries
<1>4. r \in Responses BY <1>2, <1>3 DEF Responses, Ticket
<1> HIDE DEF Responses
<1>5. responses \in Seq(Responses) /\ FdOnce(responses) BY DEF PathInv, Shape, QueueShape, ResInv
<1>6. /\ responses' \in Seq(Responses) /\ FdOnce(responses')
      /\ FdsOf(responses') = FdsOf(responses) \cup {s}
      /\ Members(responses') = Members(responses) \cup {r}
  BY <1>1, <1>4, <1>5, FdAppend, AppendFacts
<1> QED BY <1>1, <1>6 DEF PathInv, ResInv

\* Nothing that Served says of other sockets changes with answers to those in A.
LEMMA ServedKept ==
    ASSUME PathInv, UNCHANGED wedgeVars, NEW A, FdsOf(responses') \subseteq FdsOf(responses) \cup A,
           \A s \in A : Opened(s)' \/ \A c : ~Waiting(s, "socket", c),
           \A s \in SockIds : Opened(s) => Opened(s)' \/ Leaving(s)
    PROVE  \A s \in wedge_sockets : Served(s)'
<1> SUFFICES ASSUME NEW s \in wedge_sockets PROVE Served(s)' OBVIOUS
<1>1. Served(s) /\ s \in SockIds BY DEF PathInv, LifeInv, Shape, WedgeShape
<1>2. \A f, z, c : (Waiting(f, z, c) => Waiting(f, z, c)') /\ (CallOf(f, z) => CallOf(f, z)')
  BY DEF wedgeVars, Waiting, CallOf
<1>3. CASE Opened(s) BY <1>1, <1>2, <1>3 DEF Served, Leaving
<1>4. CASE CallOf(s, "close") BY <1>2, <1>4 DEF Served
<1>5. CASE s \notin FdsOf(responses) /\ \E c \in Nat : Waiting(s, "socket", c)
  BY <1>2, <1>5 DEF Served
<1> QED BY <1>1, <1>3, <1>4, <1>5 DEF Served

\* The protocol takes the event of a call and answers it, or does not; no receive
\* is saved, and a close goes on to delete the Socket.
LEMMA EventStep ==
    ASSUME PathInv, NEW y \in CallTypes, Processes(y), UNCHANGED failed,
           SocketShape', CollInv', CollSocks' = CollSocks, DOMAIN socket' = DOMAIN socket,
           \A z \in DOMAIN socket : socket'[z].id = socket[z].id,
           responses' \in {responses, Append(responses, Response(Event, y))},
           \A x \in SavedIn' : x \in SavedIn /\ map_'[x] = map_[x],
           \A s : y = "socket" /\ s = Event.fd => Opened(s)',
           \A s : Opened(s) => Opened(s)',
           closing' = NotClosing \/ (y = "close" /\ closing'.n = Head(udp_queue).n)
    PROVE  PathInv'
<1> HIDE DEF Events, Responses
<1>1. /\ UNCHANGED <<wedgeVars, pool, content, event_map_, releasing, failed>>
      /\ closing = NotClosing /\ Head(udp_queue).kind = y
      /\ udp_queue' \in Seq(Events) /\ ObjectOnce(udp_queue')
      /\ Members(udp_queue') \subseteq Members(udp_queue)
      /\ Library(udp_queue') \subseteq Library(udp_queue) /\ QueFds' \subseteq QueFds
  BY TakeAny
<1>2. PICK o : o = Event OBVIOUS
<1>3. /\ EventOK(Head(udp_queue), o) /\ Ticket(o.fd, y, o.call, o.sock)
      /\ o.fd \in QueFds /\ o.fd \notin QueFds'
  BY <1>2, TakeEvent
<1>4. o.fd \notin FdsOf(to_daemon) /\ o.fd \notin SavFds /\ o.fd \notin FdsOf(responses)
  BY <1>3 DEF PathInv, Apart
<1>5. \A z \in CollSocks : z \in DOMAIN socket BY DEF CollSocks, PathInv, CollInv
<1>6. SavFds' \subseteq SavFds
  <2>1. \A x \in SavedIn : x \in DOMAIN socket BY <1>5 DEF SavedIn, PathInv, CollInv
  <2> QED BY <2>1 DEF SavFds
<1>7. /\ responses' \in Seq(Responses) /\ FdOnce(responses')
      /\ FdsOf(responses') \subseteq FdsOf(responses) \cup {o.fd}
      /\ \A a \in Members(responses') : Ticket(a.fd, a.type, a.call, a.sock)
  <2>1. CASE responses' = responses BY <2>1 DEF PathInv, Shape, QueueShape, ResInv
  <2>2. CASE responses' = Append(responses, Response(o, y))
    <3>1. PICK r : r = [sock |-> o.sock, fd |-> o.fd, type |-> y, call |-> o.call] OBVIOUS
    <3>2. responses' = Append(responses, r) BY <2>2, <3>1 DEF Response
    <3> QED BY <1>3, <1>4, <3>1, <3>2, AnswerFacts
  <2> QED BY <1>2, <2>1, <2>2
<1>8. Apart' BY <1>1, <1>3, <1>4, <1>6, <1>7 DEF PathInv, Apart, wedgeVars
<1>9. \A x \in SavedIn' : SavedOK(x, map_'[x].receive_event, socket[x].id)
  BY DEF PathInv, SavInv
<1>10. \A e \in Library(udp_queue') : e.kind = "socket" => content[e.kind][e.n].sock \in CollSocks'
  BY <1>1 DEF PathInv, QueInv, EventOK
<1>11. Leaving(o.fd) \/ y # "close"
  BY <1>3, <1>4, WaitingIsCall DEF Ticket, Leaving
<1>12. ASSUME NEW z \in Doomed' PROVE z \in Doomed \/ (z = o.sock /\ y = "close")
  <2>1. CASE z \in {e.sock : e \in {f \in Members(udp_queue') : f.kind = "delete"}}
    BY <1>1, <2>1 DEF Doomed
  <2>2. CASE closing' # NotClosing /\ z = content'["close"][closing'.n].sock
    BY <1>1, <1>2, <2>2 DEF Event
  <2> QED BY <1>12, <2>1, <2>2 DEF Doomed
<1>13. Doomed' \subseteq DOMAIN socket BY <1>3, <1>12 DEF PathInv, LifeInv, Ticket
<1>14. \A z \in (Doomed \cap CollSocks)', s \in SockIds : socket[z].id = s => Leaving(s)
  BY <1>3, <1>11, <1>12 DEF PathInv, LifeInv, Ticket
<1>15. closing' # NotClosing => closing'.n \in 1 .. Len(content["close"])
  BY <1>1, <1>3 DEF EventOK, Ticket
<1>16. \A s \in wedge_sockets : Served(s)'
  <2>1. \A s \in {o.fd} : Opened(s)' \/ \A c : ~Waiting(s, "socket", c)
    <3>1. CASE y = "socket" BY <1>2, <3>1
    <3>2. CASE y # "socket"
      BY <1>3, <3>2, WaitingIsCall, OneCall DEF Ticket, PathInv
    <3> QED BY <3>1, <3>2
  <2>2. PICK A : A = {o.fd} OBVIOUS
  <2>3. /\ UNCHANGED wedgeVars /\ FdsOf(responses') \subseteq FdsOf(responses) \cup A
        /\ \A s \in A : Opened(s)' \/ \A c : ~Waiting(s, "socket", c)
        /\ \A s \in SockIds : Opened(s) => Opened(s)' \/ Leaving(s)
    BY <1>1, <1>7, <2>1, <2>2
  <2> QED BY <2>3, ServedKept
<1> QED
  BY <1>1, <1>7, <1>8, <1>9, <1>10, <1>13, <1>14, <1>15, <1>16, UDPStep

\* Socket x gets a key nobody has.
LEMMA LocalAddress ==
    ASSUME PathInv, NEW x \in DOMAIN map_, NEW addr \in {"any", "host"}, NEW port \in Nat,
           port \in BindPorts[socket[x].id] \cup {EphemeralPort(x)},
           <<addr, port>> \notin DOMAIN collection_,
           socket' = [socket EXCEPT ![x].addr = addr, ![x].port = port],
           collection_' = update(collection_, socket', x),
           UNCHANGED <<map_, closing, call_count>>, network' \in SUBSET [id : Nat, port : Nat]
    PROVE  /\ SocketShape' /\ CollInv' /\ CollSocks' = CollSocks /\ DOMAIN socket' = DOMAIN socket
           /\ \A z \in DOMAIN socket : socket'[z].id = socket[z].id
<1>1. x \in CollSocks BY DEF PathInv, CollInv
<1>2. x \in DOMAIN socket BY <1>1 DEF CollSocks, PathInv, CollInv
<1>3. socket[x] \in SocketRecords BY <1>2 DEF PathInv, Shape, SocketShape
<1>4. DOMAIN socket' = DOMAIN socket /\ \A z \in DOMAIN socket : z # x => socket'[z] = socket[z]
  BY <1>2 DEF PathInv, Shape, SocketShape
<1>5. /\ socket'[x].id = socket[x].id /\ socket'[x].addr = addr /\ socket'[x].port = port
      /\ socket'[x] \in SocketRecords
  <2>1. PICK a : a = [socket[x] EXCEPT !.addr = addr] OBVIOUS
  <2>2. PICK b : b = [a EXCEPT !.port = port] OBVIOUS
  <2>3. a \in SocketRecords /\ a.id = socket[x].id /\ a.addr = addr
    BY <1>3, <2>1 DEF SocketRecords
  <2>4. b \in SocketRecords /\ b.id = a.id /\ b.addr = a.addr /\ b.port = port
    BY <2>2, <2>3 DEF SocketRecords
  <2>5. socket'[x] = b
    BY <1>2, <2>1, <2>2 DEF PathInv, Shape, SocketShape
  <2> QED BY <2>3, <2>4, <2>5
<1>6. PICK old : old = KeyOf(socket, x) OBVIOUS
<1>7. PICK new : new = <<addr, port>> OBVIOUS
<1>8. KeyOf(socket', x) = new BY <1>5, <1>7 DEF KeyOf
<1>9. /\ old \in DOMAIN collection_ /\ collection_[old] = x
      /\ {k \in DOMAIN collection_ : collection_[k] = x} = {old}
  BY <1>1, <1>6, FoundById DEF PathInv
<1>10. FirstKey({old}) = old BY FirstKeyOfOne
<1>11. RemovedKeys(collection_, socket', x) = {old}
  BY <1>7, <1>8, <1>9, <1>10 DEF RemovedKeys
<1>12. collection_' = [k \in (DOMAIN collection_ \ {old}) \cup {new} |->
                         IF k = new THEN x ELSE collection_[k]]
  <2>1. PICK c : c = remove(collection_, socket', x) OBVIOUS
  <2>2. c = [k \in DOMAIN collection_ \ {old} |-> collection_[k]] BY <1>11, <2>1 DEF remove
  <2>3. collection_' = [k \in DOMAIN c \cup {new} |-> IF k = new THEN x ELSE c[k]]
    <3>1. collection_' = push(c, socket', x) BY <2>1 DEF update
    <3>2. push(c, socket', x) = [k \in DOMAIN c \cup {new} |-> IF k = new THEN x ELSE c[k]]
      BY <1>8 DEF push
    <3> QED BY <3>1, <3>2
  <2>4. new \notin DOMAIN c BY <1>7, <2>2
  <2> QED BY <2>2, <2>3, <2>4
<1>13. /\ DOMAIN collection_' = (DOMAIN collection_ \ {old}) \cup {new} /\ collection_'[new] = x
       /\ \A k \in DOMAIN collection_ \ {old} : collection_'[k] = collection_[k]
       /\ collection_' = [k \in DOMAIN collection_' |-> collection_'[k]]
  BY <1>7, <1>12
<1>14. \A k \in DOMAIN collection_ : k # old => collection_[k] # x BY <1>9
<1>15. CollSocks' = CollSocks
  <2>1. ASSUME NEW z \in CollSocks' PROVE z \in CollSocks
    <3>1. PICK k \in DOMAIN collection_' : z = collection_'[k] BY <2>1 DEF CollSocks
    <3>2. CASE k = new BY <1>1, <1>13, <3>1, <3>2
    <3>3. CASE k \in DOMAIN collection_ \ {old} BY <1>13, <3>1, <3>3 DEF CollSocks
    <3> QED BY <1>13, <3>1, <3>2, <3>3
  <2>2. ASSUME NEW z \in CollSocks PROVE z \in CollSocks'
    <3>1. PICK k \in DOMAIN collection_ : z = collection_[k] BY <2>2 DEF CollSocks
    <3>2. CASE k = old BY <1>9, <1>13, <3>1, <3>2 DEF CollSocks
    <3>3. CASE k # old BY <1>13, <3>1, <3>3 DEF CollSocks
    <3> QED BY <3>2, <3>3
  <2> QED BY <2>1, <2>2
<1>16. SocketShape'
  <2> HIDE DEF SocketRecords
  <2>1. socket' \in [DOMAIN socket' -> SocketRecords]
    BY <1>2, <1>4, <1>5 DEF PathInv, Shape, SocketShape
  <2> QED BY <1>4, <1>13, <2>1 DEF PathInv, Shape, SocketShape
<1>17. CollInv'
  <2>0. \A z \in CollSocks : z \in DOMAIN socket BY DEF CollSocks, PathInv, CollInv
  <2>1. ASSUME NEW k \in DOMAIN collection_'
        PROVE  collection_'[k] \in DOMAIN socket' /\ KeyOf(socket', collection_'[k]) = k
    <3>1. CASE k = new BY <1>2, <1>4, <1>8, <1>13, <3>1
    <3>2. CASE k \in DOMAIN collection_ \ {old}
      <4>1. collection_[k] \in DOMAIN socket /\ KeyOf(socket, collection_[k]) = k /\ collection_[k] # x
        BY <1>14, <3>2 DEF PathInv, CollInv
      <4> QED BY <1>4, <1>13, <3>2, <4>1 DEF KeyOf
    <3> QED BY <1>13, <2>1, <3>1, <3>2
  <2>2. \A z \in DOMAIN socket : socket'[z].id = socket[z].id BY <1>4, <1>5
  <2>3. ASSUME NEW a \in CollSocks', NEW b \in CollSocks', socket'[a].id = socket'[b].id PROVE a = b
    BY <1>15, <2>0, <2>2, <2>3 DEF PathInv, CollInv
  <2>4. \A a \in CollSocks' : socket'[a].port \in BindPorts[socket'[a].id] \cup {EphemeralPort(a)}
    BY <1>4, <1>5, <1>15, <2>0, <2>2 DEF PathInv, CollInv
  <2> QED BY <1>15, <2>1, <2>3, <2>4 DEF PathInv, CollInv
<1> QED BY <1>4, <1>5, <1>15, <1>16, <1>17

\* No Socket changes: the collection and its lookups are as before.
LEMMA SocketsSame ==
    ASSUME PathInv, UNCHANGED <<socket, collection_, map_, call_count>>,
           closing' \in [n : Nat, call : Nat], network' \in SUBSET [id : Nat, port : Nat]
    PROVE  /\ SocketShape' /\ CollInv' /\ CollSocks' = CollSocks /\ DOMAIN socket' = DOMAIN socket
           /\ \A z \in DOMAIN socket : socket'[z].id = socket[z].id
<1>1. CollSocks' = CollSocks BY DEF CollSocks
<1>2. CollInv' BY <1>1 DEF PathInv, CollInv
<1>3. SocketShape' BY DEF PathInv, Shape, SocketShape
<1> QED BY <1>1, <1>2, <1>3

\* Nothing is saved or opened with the containers as they are.
LEMMA ContainersSame ==
    ASSUME PathInv, UNCHANGED map_, \A z \in DOMAIN socket : socket'[z].id = socket[z].id
    PROVE  /\ \A x \in SavedIn' : x \in SavedIn /\ map_'[x] = map_[x]
           /\ \A s : Opened(s) => Opened(s)'
<1>1. DOMAIN map_ \subseteq DOMAIN socket BY DEF PathInv, CollInv, CollSocks
<1>2. \A s : Opened(s) => Opened(s)' BY <1>1 DEF Opened
<1> QED BY <1>2 DEF SavedIn

\* connect(): the event is taken and nobody answers.
LEMMA ProcessConnectPath == ASSUME PathInv, ProcessConnect PROVE PathInv'
<1>1. /\ Processes("connect") /\ "connect" \in CallTypes
      /\ UNCHANGED <<responses, socket, collection_, map_, failed, closing, network, call_count>>
  BY DEF ProcessConnect, Processes, CallTypes, wedgeVars
<1>2. closing' = NotClosing BY <1>1 DEF Processes
<1>3. closing' \in [n : Nat, call : Nat] /\ network' \in SUBSET [id : Nat, port : Nat]
  BY <1>1 DEF PathInv, Shape, SocketShape
<1> QED BY <1>1, <1>2, <1>3, SocketsSame, ContainersSame, EventStep

\* A new Socket is one of the collection.
LEMMA ProcessSocketPath == ASSUME PathInv, ProcessSocket PROVE PathInv'
<1>1. /\ Processes("socket") /\ "socket" \in CallTypes
      /\ UNCHANGED <<socket, collection_, failed, closing, network, call_count>>
      /\ responses' = Append(responses, Response(Event, "socket"))
  BY DEF ProcessSocket, Processes, CallTypes, wedgeVars
<1>2. PICK o : o = Event OBVIOUS
<1>3. /\ Ticket(o.fd, "socket", o.call, o.sock) /\ EventOK(Head(udp_queue), o)
      /\ Head(udp_queue).kind = "socket"
  BY <1>1, <1>2, TakeEvent, TakeAny
<1>4. o.sock \in CollSocks /\ o.sock \in DOMAIN socket /\ socket[o.sock].id = o.fd
  BY <1>3 DEF EventOK, Ticket
<1>5. /\ map_' = [x \in DOMAIN map_ \cup {o.sock} |-> IF x = o.sock THEN EmptyContainer ELSE map_[x]]
  BY <1>2 DEF ProcessSocket
<1>6. /\ DOMAIN map_' = DOMAIN map_ \cup {o.sock} /\ map_'[o.sock] = EmptyContainer
      /\ \A x \in DOMAIN map_ : x # o.sock => map_'[x] = map_[x]
  BY <1>5
<1>7. EmptyContainer \in Containers /\ EmptyContainer.receive_event = 0
  <2>1. <<>> \in Seq(Nat) OBVIOUS
  <2> QED BY <2>1 DEF EmptyContainer, Containers
<1>8. CollSocks' = CollSocks BY <1>1 DEF CollSocks
<1>9. CollInv' BY <1>1, <1>4, <1>6, <1>8 DEF PathInv, CollInv
<1>10. SocketShape'
  <2> HIDE DEF Containers
  <2>1. map_' \in [DOMAIN map_' -> Containers] BY <1>5, <1>6, <1>7 DEF PathInv, Shape, SocketShape
  <2> QED BY <1>1, <2>1 DEF PathInv, Shape, SocketShape
<1>11. \A x \in SavedIn' : x \in SavedIn /\ map_'[x] = map_[x]
  BY <1>6, <1>7 DEF SavedIn
<1>12. \A s : Opened(s) => Opened(s)' BY <1>1, <1>6 DEF Opened
<1>13. \A s : s = o.fd => Opened(s)' BY <1>1, <1>4, <1>6 DEF Opened
<1>14. closing' = NotClosing BY <1>1 DEF Processes
<1> QED BY <1>1, <1>2, <1>8, <1>9, <1>10, <1>11, <1>12, <1>13, <1>14, EventStep

\* bind(): an answer, and a new key in the collection if the port is free.
LEMMA ProcessBindPath == ASSUME PathInv, ProcessBind PROVE PathInv'
<1>1. /\ Processes("bind") /\ "bind" \in CallTypes
      /\ UNCHANGED <<map_, failed, closing, network, call_count>>
  BY DEF ProcessBind, Processes, CallTypes, wedgeVars
<1>2. PICK o : o = Event OBVIOUS
<1>3. /\ Ticket(o.fd, "bind", o.call, o.sock) /\ EventOK(Head(udp_queue), o)
      /\ Head(udp_queue).kind = "bind"
  BY <1>1, <1>2, TakeEvent, TakeAny
<1>4. o.fd \in SockIds /\ socket[o.sock].id = o.fd /\ o.port \in BindPorts[o.fd]
  BY <1>3 DEF EventOK, Ticket
<1>5. o.port \in Nat BY <1>4, WedgeAssumption
<1>6. closing' = NotClosing BY <1>1 DEF Processes
<1>7. closing' \in [n : Nat, call : Nat] /\ network' \in SUBSET [id : Nat, port : Nat]
  BY <1>1 DEF PathInv, Shape, SocketShape
<1>8. responses' \in {responses, Append(responses, Response(Event, "bind"))} BY DEF ProcessBind
<1>9. /\ SocketShape' /\ CollInv' /\ CollSocks' = CollSocks /\ DOMAIN socket' = DOMAIN socket
      /\ \A z \in DOMAIN socket : socket'[z].id = socket[z].id
  <2>1. CASE UNCHANGED <<socket, collection_>>
    BY <1>1, <1>7, <2>1, SocketsSame
  <2>2. CASE /\ Known(o.sock) /\ ~AlreadyBound(collection_, socket, "any", o.port)
             /\ SetLocalAddress(o, "any", o.port)
    <3>1. o.sock \in DOMAIN map_ BY <2>2 DEF Known
    <3>2. <<"any", o.port>> \notin DOMAIN collection_
      <4> SUFFICES ASSUME NEW k \in DOMAIN collection_, k = <<"any", o.port>> PROVE FALSE
        OBVIOUS
      <4>1. KeyOf(socket, collection_[k]) = k BY DEF PathInv, CollInv
      <4>2. socket[collection_[k]].addr = "any" /\ socket[collection_[k]].port = o.port
        BY <4>1 DEF KeyOf
      <4> QED BY <2>2, <4>2 DEF AlreadyBound
    <3>3. /\ socket' = [socket EXCEPT ![o.sock].addr = "any", ![o.sock].port = o.port]
          /\ collection_' = update(collection_, socket', o.sock)
      BY <2>2 DEF SetLocalAddress
    <3>4. o.port \in BindPorts[socket[o.sock].id] \cup {EphemeralPort(o.sock)} BY <1>4
    <3>5. "any" \in {"any", "host"} OBVIOUS
    <3>6. UNCHANGED <<map_, closing, call_count>> BY <1>1
    <3> QED BY <1>5, <1>7, <3>1, <3>2, <3>3, <3>4, <3>5, <3>6, LocalAddress
  <2> QED BY <1>2, <2>1, <2>2 DEF ProcessBind
<1> QED BY <1>1, <1>6, <1>8, <1>9, ContainersSame, EventStep

\* Two Sockets have no port in common.
LEMMA OwnPort ==
    ASSUME Apartness, PathInv, NEW a \in CollSocks, NEW b \in CollSocks,
           socket[a].port = socket[b].port
    PROVE  a = b
<1> SUFFICES ASSUME a # b PROVE FALSE OBVIOUS
<1>1. a \in DOMAIN socket /\ b \in DOMAIN socket BY DEF CollSocks, PathInv, CollInv
<1>2. socket[a].id \in SockIds /\ socket[b].id \in SockIds
  BY <1>1 DEF PathInv, Shape, SocketShape, SocketRecords
<1>3. socket[a].id # socket[b].id BY DEF PathInv, CollInv
<1>4. /\ socket[a].port \in BindPorts[socket[a].id] \cup {EphemeralPort(a)}
      /\ socket[b].port \in BindPorts[socket[b].id] \cup {EphemeralPort(b)}
  BY DEF PathInv, CollInv
<1>5. a \in CallIds /\ b \in CallIds /\ a \in Nat /\ b \in Nat
  BY <1>1, WedgeAssumption DEF PathInv, Shape, SocketShape, WedgeShape, CallIds
<1>6. EphemeralPort(a) # EphemeralPort(b) BY <1>5 DEF EphemeralPort
<1> QED BY <1>2, <1>3, <1>4, <1>5, <1>6 DEF Apartness

\* sendto(): an answer, and the key of an unbound address changes.
LEMMA ProcessSendPath == ASSUME Apartness, PathInv, ProcessSend PROVE PathInv'
<1>1. /\ Processes("sendto") /\ "sendto" \in CallTypes
      /\ UNCHANGED <<map_, failed, closing, call_count>>
  BY DEF ProcessSend, Processes, CallTypes, wedgeVars
<1>2. PICK o : o = Event OBVIOUS
<1>3. Ticket(o.fd, "sendto", o.call, o.sock) /\ EventOK(Head(udp_queue), o)
  BY <1>1, <1>2, TakeEvent
<1>4. o.port \in Nat /\ o.call \in Nat
  <2>1. PICK n : n \in 1 .. Len(content["sendto"]) /\ o = content["sendto"][n]
    <3>1. Head(udp_queue).kind = "sendto" BY <1>1, TakeAny
    <3> QED BY <1>2, <1>3, <3>1 DEF Event, EventOK, Ticket
  <2>2. content["sendto"] \in Seq(Contents) BY <1>1 DEF PathInv, Shape, ObjectShape
  <2>3. o \in Contents
    <3> HIDE DEF Contents
    <3> QED BY <2>1, <2>2
  <2> QED BY <2>3 DEF Contents
<1>5. closing' = NotClosing BY <1>1 DEF Processes
<1>6. closing' \in [n : Nat, call : Nat] BY <1>1 DEF PathInv, Shape, SocketShape
<1>7. network' \in SUBSET [id : Nat, port : Nat]
  <2>1. [id |-> o.call, port |-> o.port] \in [id : Nat, port : Nat] BY <1>4
  <2>2. network' = network \/ network' = network \cup {[id |-> o.call, port |-> o.port]}
    BY <1>2 DEF ProcessSend
  <2> QED BY <2>1, <2>2 DEF PathInv, Shape, SocketShape
<1>8. responses' \in {responses, Append(responses, Response(Event, "sendto"))} BY DEF ProcessSend
<1>9. /\ SocketShape' /\ CollInv' /\ CollSocks' = CollSocks /\ DOMAIN socket' = DOMAIN socket
      /\ \A z \in DOMAIN socket : socket'[z].id = socket[z].id
  <2>1. CASE UNCHANGED <<socket, collection_>>
    BY <1>1, <1>6, <1>7, <2>1, SocketsSame
  <2>2. CASE /\ Known(o.sock) /\ socket[o.sock].addr = "any"
             /\ SetLocalAddress(o, "host", socket[o.sock].port)
    <3>1. o.sock \in DOMAIN map_ /\ o.sock \in CollSocks BY <2>2 DEF Known, PathInv, CollInv
    <3>2. PICK p : p = socket[o.sock].port OBVIOUS
    <3>3. <<"host", p>> \notin DOMAIN collection_
      <4> SUFFICES ASSUME NEW k \in DOMAIN collection_, k = <<"host", p>> PROVE FALSE
        OBVIOUS
      <4>1. KeyOf(socket, collection_[k]) = k /\ collection_[k] \in CollSocks
        BY DEF PathInv, CollInv, CollSocks
      <4>2. socket[collection_[k]].addr = "host" /\ socket[collection_[k]].port = p
        BY <4>1 DEF KeyOf
      <4>3. collection_[k] = o.sock BY <3>1, <3>2, <4>1, <4>2, OwnPort
      <4> QED BY <2>2, <4>2, <4>3
    <3>4. /\ socket' = [socket EXCEPT ![o.sock].addr = "host", ![o.sock].port = p]
          /\ collection_' = update(collection_, socket', o.sock)
      BY <2>2, <3>2 DEF SetLocalAddress
    <3>5. p \in BindPorts[socket[o.sock].id] \cup {EphemeralPort(o.sock)}
      BY <3>1, <3>2 DEF PathInv, CollInv
    <3>6. p \in Nat BY <1>3, <3>2 DEF Ticket, PathInv, Shape, SocketShape, SocketRecords
    <3>7. "host" \in {"any", "host"} OBVIOUS
    <3>8. UNCHANGED <<map_, closing, call_count>> BY <1>1
    <3> QED BY <1>7, <3>1, <3>3, <3>4, <3>5, <3>6, <3>7, <3>8, LocalAddress
  <2> QED BY <1>2, <2>1, <2>2 DEF ProcessSend
<1> QED BY <1>1, <1>5, <1>8, <1>9, ContainersSame, EventStep

\* close(): an answer, and the Socket is doomed.
LEMMA ProcessClosePath == ASSUME PathInv, ProcessClose PROVE PathInv'
<1>1. /\ Processes("close") /\ "close" \in CallTypes
      /\ UNCHANGED <<map_, failed, network, call_count, socket, collection_>>
      /\ closing = NotClosing
  BY DEF ProcessClose, Processes, CallTypes, wedgeVars
<1>2. PICK o : o = Event OBVIOUS
<1>3. Ticket(o.fd, "close", o.call, o.sock) /\ EventOK(Head(udp_queue), o)
  BY <1>1, <1>2, TakeEvent
<1>4. responses' \in {responses, Append(responses, Response(Event, "close"))} BY DEF ProcessClose
<1>5. closing' = closing \/ closing' = [n |-> Head(udp_queue).n, call |-> o.call]
  BY <1>2 DEF ProcessClose
<1>6. closing' = NotClosing \/ ("close" = "close" /\ closing'.n = Head(udp_queue).n)
  BY <1>1, <1>5
<1>7. Head(udp_queue).n \in Nat /\ o.call \in Nat
  <2>1. Head(udp_queue) \in Events BY <1>1, TakeAny
  <2>2. PICK i \in Slots : wedge_calls[i].call_id = o.call BY <1>3 DEF Ticket, Waiting
  <2> QED BY <2>1, <2>2 DEF Events, PathInv, Shape, WedgeShape, Entries
<1>8. closing' \in [n : Nat, call : Nat] BY <1>1, <1>5, <1>7 DEF NotClosing
<1>9. network' \in SUBSET [id : Nat, port : Nat] BY <1>1 DEF PathInv, Shape, SocketShape
<1>10. /\ SocketShape' /\ CollInv' /\ CollSocks' = CollSocks /\ DOMAIN socket' = DOMAIN socket
       /\ \A z \in DOMAIN socket : socket'[z].id = socket[z].id
  BY <1>1, <1>8, <1>9, SocketsSame
<1> QED BY <1>1, <1>4, <1>6, <1>10, ContainersSame, EventStep

\* send_receive_response for the container c of Socket x, whose saved receive (if
\* there is one) was queued or saved before, and is queued no more.
LEMMA ReceiveStep ==
    ASSUME PathInv, NEW y, Processes(y), NEW x \in DOMAIN map_, NEW c \in Containers,
           NEW s, s = socket[x].id, send_receive_response(x, c),
           c.receive_event # 0 =>
              SavedOK(x, c.receive_event, s) /\ s \in QueFds \cup SavFds /\ s \notin QueFds',
           UNCHANGED <<socket, collection_, failed, closing, network>>
    PROVE  PathInv'
<1> HIDE DEF Events, Responses
<1>1. /\ UNCHANGED <<wedgeVars, pool, content, event_map_, releasing, failed>>
      /\ closing = NotClosing
      /\ udp_queue' \in Seq(Events) /\ ObjectOnce(udp_queue')
      /\ Members(udp_queue') \subseteq Members(udp_queue)
      /\ Library(udp_queue') \subseteq Library(udp_queue) /\ QueFds' \subseteq QueFds
  BY TakeAny
<1>2. c.receive_event \in Nat /\ c.packet_queue \in Seq(Nat) BY DEF Containers
<1>3. x \in CollSocks BY DEF PathInv, CollInv
<1>4. \A z \in CollSocks : z \in DOMAIN socket BY DEF CollSocks, PathInv, CollInv
<1>5. PICK d : d = IF AnswersReceive(c) THEN AfterAnswer(c) ELSE c OBVIOUS
<1>6. map_' = [map_ EXCEPT ![x] = d] BY <1>5 DEF send_receive_response
<1>7. d \in Containers /\ (d.receive_event # 0 => d = c /\ ~AnswersReceive(c))
  <2>1. CASE AnswersReceive(c)
    <3>1. d = [receive_event |-> 0, packet_queue |-> Tail(c.packet_queue)]
      BY <1>5, <2>1 DEF AfterAnswer
    <3>2. Tail(c.packet_queue) \in Seq(Nat) BY <1>2, <2>1 DEF AnswersReceive
    <3> QED BY <3>1, <3>2 DEF Containers
  <2>2. CASE ~AnswersReceive(c) BY <1>5, <2>2
  <2> QED BY <2>1, <2>2
<1>8. /\ DOMAIN map_' = DOMAIN map_ /\ map_'[x] = d
      /\ \A z \in DOMAIN map_ : z # x => map_'[z] = map_[z]
  BY <1>6 DEF PathInv, Shape, SocketShape
<1>9. SocketShape'
  <2> HIDE DEF Containers
  <2>1. map_' \in [DOMAIN map_' -> Containers] BY <1>6, <1>7, <1>8 DEF PathInv, Shape, SocketShape
  <2> QED BY <1>1, <2>1 DEF PathInv, Shape, SocketShape, wedgeVars
<1>10. CollSocks' = CollSocks BY DEF CollSocks
<1>11. CollInv' BY <1>8, <1>10 DEF PathInv, CollInv
<1>12. ASSUME NEW z \in SavedIn'
       PROVE  \/ z = x /\ map_'[z].receive_event = c.receive_event /\ ~AnswersReceive(c)
                       /\ c.receive_event # 0
              \/ z # x /\ z \in SavedIn /\ map_'[z] = map_[z] /\ socket[z].id # s
  <2>1. CASE z = x BY <1>7, <1>8, <1>12, <2>1 DEF SavedIn
  <2>2. CASE z # x
    <3>1. z \in SavedIn /\ map_'[z] = map_[z] BY <1>8, <1>12, <2>2 DEF SavedIn
    <3>2. z \in CollSocks BY <3>1 DEF SavedIn, PathInv, CollInv
    <3> QED BY <1>3, <2>2, <3>1, <3>2 DEF PathInv, CollInv
  <2> QED BY <2>1, <2>2
<1>13. \A z \in SavedIn' : SavedOK(z, map_'[z].receive_event, socket[z].id)
  BY <1>12 DEF PathInv, SavInv
<1>14. SavFds' \subseteq (SavFds \ {s}) \cup (IF ~AnswersReceive(c) /\ c.receive_event # 0 THEN {s} ELSE {})
  <2> SUFFICES ASSUME NEW f \in SavFds' 
               PROVE  f \in SavFds \ {s} \/ (f = s /\ ~AnswersReceive(c) /\ c.receive_event # 0)
    OBVIOUS
  <2>1. PICK z \in SavedIn' : f = socket[z].id BY DEF SavFds
  <2> QED BY <1>12, <2>1 DEF SavFds
<1>15. PICK A : A = IF AnswersReceive(c) THEN {s} ELSE {} OBVIOUS
<1>16. c.receive_event # 0 => /\ s \notin FdsOf(responses) /\ s \notin FdsOf(to_daemon)
                              /\ Ticket(s, "recvfrom", content["recvfrom"][c.receive_event].call, x)
                              /\ content["recvfrom"][c.receive_event].fd = s
                              /\ content["recvfrom"][c.receive_event].sock = x
  BY DEF PathInv, Apart, SavedOK, Ticket
<1>17. /\ responses' \in Seq(Responses) /\ FdOnce(responses')
       /\ FdsOf(responses') = FdsOf(responses) \cup A
       /\ \A a \in Members(responses') : Ticket(a.fd, a.type, a.call, a.sock)
  <2>1. CASE ~AnswersReceive(c)
    <3>1. responses' = responses BY <2>1 DEF send_receive_response
    <3> QED BY <1>15, <2>1, <3>1 DEF PathInv, Shape, QueueShape, ResInv
  <2>2. CASE AnswersReceive(c)
    <3>1. PICK r : r = [sock |-> x, fd |-> s, type |-> "recvfrom",
                        call |-> content["recvfrom"][c.receive_event].call] OBVIOUS
    <3>2. responses' = Append(responses, r)
      BY <1>16, <2>2, <3>1 DEF send_receive_response, Response, AnswersReceive
    <3>3. c.receive_event # 0 BY <2>2 DEF AnswersReceive
    <3>4. PICK k : k = content["recvfrom"][c.receive_event].call OBVIOUS
    <3>5. Ticket(s, "recvfrom", k, x) /\ s \notin FdsOf(responses)
          /\ r = [sock |-> x, fd |-> s, type |-> "recvfrom", call |-> k]
      BY <1>16, <3>1, <3>3, <3>4
    <3>6. /\ responses' \in Seq(Responses) /\ FdOnce(responses')
          /\ FdsOf(responses') = FdsOf(responses) \cup {s}
          /\ \A a \in Members(responses') : Ticket(a.fd, a.type, a.call, a.sock)
      BY <3>2, <3>5, AnswerFacts
    <3> QED BY <1>15, <2>2, <3>6
  <2> QED BY <2>1, <2>2
<1>18. Apart'
  <2>1. FdsOf(to_daemon') = FdsOf(to_daemon) BY <1>1 DEF wedgeVars
  <2>2. AnswersReceive(c) => c.receive_event # 0 BY DEF AnswersReceive
  <2>3. CASE c.receive_event = 0
    BY <1>1, <1>14, <1>15, <1>17, <2>1, <2>2, <2>3 DEF PathInv, Apart
  <2>4. CASE c.receive_event # 0 /\ AnswersReceive(c)
    BY <1>1, <1>14, <1>15, <1>16, <1>17, <2>1, <2>4 DEF PathInv, Apart
  <2>5. CASE c.receive_event # 0 /\ ~AnswersReceive(c)
    BY <1>1, <1>14, <1>15, <1>16, <1>17, <2>1, <2>5 DEF PathInv, Apart
  <2> QED BY <2>3, <2>4, <2>5
<1>19. \A f : Opened(f) => Opened(f)' BY <1>8 DEF Opened
<1>20. Doomed' \subseteq Doomed BY <1>1 DEF Doomed
<1>21. \A f \in wedge_sockets : Served(f)'
  <2>1. \A f \in A : Opened(f)' \/ \A k : ~Waiting(f, "socket", k)
    BY <1>8, <1>15 DEF Opened
  <2>2. UNCHANGED wedgeVars /\ FdsOf(responses') \subseteq FdsOf(responses) \cup A BY <1>1, <1>17
  <2>3. \A f \in SockIds : Opened(f) => Opened(f)' \/ Leaving(f) BY <1>19
  <2> QED BY <2>1, <2>2, <2>3, ServedKept
<1>22. \A e \in Library(udp_queue') : e.kind = "socket" => content[e.kind][e.n].sock \in CollSocks'
  BY <1>1, <1>10 DEF PathInv, QueInv, EventOK
<1>23. \A z \in (Doomed \cap CollSocks)', f \in SockIds : socket[z].id = f => Leaving(f)
  BY <1>10, <1>20 DEF PathInv, LifeInv
<1>24. Doomed' \subseteq DOMAIN socket BY <1>20 DEF PathInv, LifeInv
<1>25. closing' # NotClosing => closing'.n \in 1 .. Len(content["close"]) BY <1>1
<1>26. DOMAIN socket' = DOMAIN socket /\ \A z \in DOMAIN socket : socket'[z].id = socket[z].id
  OBVIOUS
<1> QED
  BY <1>1, <1>9, <1>10, <1>11, <1>13, <1>17, <1>18, <1>19, <1>21, <1>22, <1>23, <1>24, <1>25, <1>26,
     UDPStep

\* A container with another receive event or another queue.
LEMMA ContainerFields ==
    ASSUME NEW c \in Containers
    PROVE  /\ \A n \in Nat : /\ [c EXCEPT !.receive_event = n] \in Containers
                             /\ [c EXCEPT !.receive_event = n].receive_event = n
           /\ \A d \in Nat : /\ [c EXCEPT !.packet_queue = Append(@, d)] \in Containers
                             /\ [c EXCEPT !.packet_queue = Append(@, d)].receive_event
                                   = c.receive_event
<1>1. ASSUME NEW n \in Nat
      PROVE  /\ [c EXCEPT !.receive_event = n] \in Containers
             /\ [c EXCEPT !.receive_event = n].receive_event = n
  BY DEF Containers
<1>2. ASSUME NEW d \in Nat
      PROVE  /\ [c EXCEPT !.packet_queue = Append(@, d)] \in Containers
             /\ [c EXCEPT !.packet_queue = Append(@, d)].receive_event = c.receive_event
  <2>1. c.packet_queue \in Seq(Nat) BY DEF Containers
  <2>2. PICK a : a = Append(c.packet_queue, d) OBVIOUS
  <2>3. a \in Seq(Nat) BY <2>1, <2>2
  <2>4. [c EXCEPT !.packet_queue = a] \in Containers BY <2>3 DEF Containers
  <2>5. [c EXCEPT !.packet_queue = a].receive_event = c.receive_event BY DEF Containers
  <2> QED BY <2>2, <2>4, <2>5
<1> QED BY <1>1, <1>2

\* Events without a call, and those of Sockets that are gone, do nothing.
LEMMA IgnoredStep ==
    ASSUME PathInv, NEW y, Processes(y),
           UNCHANGED <<responses, socket, collection_, map_, failed, closing, network>>
    PROVE  PathInv'
<1> HIDE DEF Events, Responses
<1>1. /\ UNCHANGED <<wedgeVars, pool, content, event_map_, releasing, failed>>
      /\ closing = NotClosing
      /\ udp_queue' \in Seq(Events) /\ ObjectOnce(udp_queue')
      /\ Members(udp_queue') \subseteq Members(udp_queue)
      /\ Library(udp_queue') \subseteq Library(udp_queue) /\ QueFds' \subseteq QueFds
  BY TakeAny
<1>2. UNCHANGED call_count /\ UNCHANGED to_daemon BY <1>1 DEF wedgeVars
<1>3. closing' \in [n : Nat, call : Nat] /\ network' \in SUBSET [id : Nat, port : Nat]
  BY DEF PathInv, Shape, SocketShape
<1>4. /\ SocketShape' /\ CollInv' /\ CollSocks' = CollSocks /\ DOMAIN socket' = DOMAIN socket
      /\ \A z \in DOMAIN socket : socket'[z].id = socket[z].id
  BY <1>2, <1>3, SocketsSame
<1>5. SavedIn' = SavedIn /\ SavFds' = SavFds BY DEF SavFds, SavedIn
<1>6. \A z \in SavedIn' : SavedOK(z, map_'[z].receive_event, socket[z].id)
  BY <1>5 DEF PathInv, SavInv
<1>7. Apart' BY <1>1, <1>2, <1>5 DEF PathInv, Apart
<1>8. \A f : Opened(f) => Opened(f)' BY DEF Opened
<1>9. Doomed' \subseteq Doomed BY <1>1 DEF Doomed
<1>10. \A f \in wedge_sockets : Served(f)'
  BY <1>1, <1>8 DEF PathInv, LifeInv, Served, wedgeVars, Waiting, CallOf
<1>11. \A e \in Library(udp_queue') : e.kind = "socket" => content[e.kind][e.n].sock \in CollSocks'
  BY <1>1, <1>4 DEF PathInv, QueInv, EventOK
<1>12. \A z \in (Doomed \cap CollSocks)', f \in SockIds : socket[z].id = f => Leaving(f)
  BY <1>4, <1>9 DEF PathInv, LifeInv
<1>13. Doomed' \subseteq DOMAIN socket BY <1>9 DEF PathInv, LifeInv
<1>14. closing' # NotClosing => closing'.n \in 1 .. Len(content["close"]) BY <1>1
<1>15. /\ responses' \in Seq(Responses) /\ FdOnce(responses')
       /\ \A r \in Members(responses') : Ticket(r.fd, r.type, r.call, r.sock)
  BY DEF PathInv, Shape, QueueShape, ResInv
<1> QED
  BY <1>1, <1>4, <1>6, <1>7, <1>8, <1>10, <1>11, <1>12, <1>13, <1>14, <1>15, UDPStep

\* recvfrom(): saved, or answered with the first datagram.
LEMMA ProcessReceivePath == ASSUME PathInv, ProcessReceive PROVE PathInv'
<1>1. /\ Processes("recvfrom") /\ "recvfrom" \in CallTypes
      /\ UNCHANGED <<socket, collection_, failed, closing, network>>
  BY DEF ProcessReceive, CallTypes
<1>2. PICK o : o = Event OBVIOUS
<1>3. PICK e : e = Head(udp_queue) OBVIOUS
<1>4. /\ EventOK(e, o) /\ Ticket(o.fd, "recvfrom", o.call, o.sock)
      /\ o.fd \in QueFds /\ o.fd \notin QueFds'
      /\ e \in Events /\ e.kind = "recvfrom"
  BY <1>1, <1>2, <1>3, TakeEvent, TakeAny
<1>5. CASE Known(o.sock)
  <2>1. PICK x : x = o.sock OBVIOUS
  <2>2. x \in DOMAIN map_ BY <1>5, <2>1 DEF Known
  <2>3. PICK c : c = [map_[x] EXCEPT !.receive_event = e.n] OBVIOUS
  <2>4. send_receive_response(x, c) BY <1>2, <1>3, <1>5, <2>1, <2>3 DEF ProcessReceive
  <2>5. e.n \in Nat BY <1>4 DEF Events
  <2>6. map_[x] \in Containers BY <2>2 DEF PathInv, Shape, SocketShape
  <2>7. c \in Containers /\ c.receive_event = e.n BY <2>3, <2>5, <2>6, ContainerFields
  <2>8. o = content["recvfrom"][e.n] BY <1>2, <1>3, <1>4 DEF Event
  <2>9. socket[x].id = o.fd BY <1>4, <2>1 DEF Ticket
  <2>10. SavedOK(x, e.n, o.fd)
    BY <1>4, <2>1, <2>8 DEF SavedOK, EventOK
  <2> QED BY <1>1, <1>4, <2>2, <2>4, <2>7, <2>9, <2>10, ReceiveStep
<1>6. CASE ~Known(o.sock)
  <2>1. UNCHANGED <<map_, responses>> BY <1>2, <1>6 DEF ProcessReceive
  <2> QED BY <1>1, <2>1, IgnoredStep
<1> QED BY <1>5, <1>6

\* A datagram: queued, or the answer to a saved receive.
LEMMA ProcessPacketPath == ASSUME PathInv, ProcessPacket PROVE PathInv'
<1>1. /\ Processes("packet")
      /\ UNCHANGED <<socket, collection_, failed, closing, network>>
  BY DEF ProcessPacket
<1>2. PICK e : e = Head(udp_queue) OBVIOUS
<1>3. e \in Events /\ QueFds' \subseteq QueFds BY <1>1, <1>2, TakeAny
<1>4. CASE Known(e.sock)
  <2>1. PICK x : x = e.sock OBVIOUS
  <2>2. x \in DOMAIN map_ BY <1>4, <2>1 DEF Known
  <2>3. PICK c : c = [map_[x] EXCEPT !.packet_queue = Append(@, e.datagram)] OBVIOUS
  <2>4. send_receive_response(x, c) BY <1>2, <1>4, <2>1, <2>3 DEF ProcessPacket
  <2>5. e.datagram \in Nat BY <1>3 DEF Events
  <2>6. map_[x] \in Containers BY <2>2 DEF PathInv, Shape, SocketShape
  <2>7. c \in Containers /\ c.receive_event = map_[x].receive_event
    BY <2>3, <2>5, <2>6, ContainerFields
  <2>8. PICK s : s = socket[x].id OBVIOUS
  <2>9. ASSUME c.receive_event # 0
        PROVE  SavedOK(x, c.receive_event, s) /\ s \in QueFds \cup SavFds /\ s \notin QueFds'
    <3>1. x \in SavedIn BY <2>2, <2>7, <2>9 DEF SavedIn
    <3>2. s \in SavFds BY <2>8, <3>1 DEF SavFds
    <3>3. SavedOK(x, c.receive_event, s) BY <2>7, <2>8, <3>1 DEF PathInv, SavInv
    <3> QED BY <1>3, <3>2, <3>3 DEF PathInv, Apart
  <2> QED BY <1>1, <2>2, <2>4, <2>7, <2>8, <2>9, ReceiveStep
<1>5. CASE ~Known(e.sock)
  <2>1. UNCHANGED <<map_, responses>> BY <1>2, <1>5 DEF ProcessPacket
  <2> QED BY <1>1, <2>1, IgnoredStep
<1> QED BY <1>4, <1>5

\* Nothing of the invariant but a shape is about the datagrams under way.
LEMMA NetworkOnly ==
    ASSUME PathInv, UNCHANGED <<wedgeVars, translatorVars, map_, closing>>,
           network' \in SUBSET [id : Nat, port : Nat]
    PROVE  PathInv'
<1> USE DEF wedgeVars, translatorVars
<1>1. /\ UNCHANGED <<wedge_calls, wedge_sockets, call_count, to_daemon, socket, collection_, pool,
                     content, event_map_, udp_queue, responses, releasing, failed, map_, closing>>
  OBVIOUS
<1>2. Shape' BY <1>1 DEF PathInv, Shape, WedgeShape, QueueShape, ObjectShape, SocketShape
<1>3. EntryInv' /\ ReplyAnswersItsCall' BY <1>1 DEF PathInv, EntryInv, ReplyAnswersItsCall
<1>4. ASSUME NEW s, NEW y, NEW c, NEW x, Ticket(s, y, c, x) PROVE Ticket(s, y, c, x)'
  BY <1>1, <1>4 DEF Ticket, Waiting
<1>5. CollSocks' = CollSocks /\ QueFds' = QueFds /\ SavFds' = SavFds /\ Doomed' = Doomed
  BY <1>1 DEF CollSocks, QueFds, SavFds, SavedIn, Doomed
<1>6. MsgInv'
  <2>1. \A m : MessageOK(m) => MessageOK(m)' BY <1>1, <1>5 DEF MessageOK, Waiting, Opened
  <2> QED BY <1>1, <2>1 DEF PathInv, MsgInv
<1>7. QueInv'
  <2>1. \A e, o : EventOK(e, o) => EventOK(e, o)' BY <1>1, <1>4, <1>5 DEF EventOK
  <2> QED BY <1>1, <2>1 DEF PathInv, QueInv
<1>8. SavInv' BY <1>1, <1>4 DEF PathInv, SavInv, SavedOK, SavedIn
<1>9. ResInv' BY <1>1, <1>4 DEF PathInv, ResInv
<1>10. Apart' BY <1>1, <1>5 DEF PathInv, Apart
<1>11. PoolInv' BY <1>1 DEF PathInv, PoolInv
<1>12. CollInv' BY <1>1, <1>5 DEF PathInv, CollInv
<1>13. LifeInv'
  <2>1. \A s : Leaving(s) => Leaving(s)' BY <1>1 DEF Leaving, CallOf
  <2>2. \A s : Served(s) => Served(s)' BY <1>1 DEF Served, CallOf, Waiting, Opened
  <2> QED BY <1>1, <1>5, <2>1, <2>2 DEF PathInv, LifeInv
<1> QED BY <1>2, <1>3, <1>6, <1>7, <1>8, <1>9, <1>10, <1>11, <1>12, <1>13 DEF PathInv

\* An event that is not of a call joins the queue.
LEMMA QueuedStep ==
    ASSUME PathInv, NEW e \in Events, e.kind \notin CallTypes,
           udp_queue' = enqueue(udp_queue, e),
           UNCHANGED <<wedgeVars, socket, collection_, pool, content, event_map_>>,
           UNCHANGED <<responses, releasing, failed, map_>>,
           closing' \in [n : Nat, call : Nat], network' \in SUBSET [id : Nat, port : Nat],
           closing' # NotClosing => closing' = closing, Doomed' \subseteq Doomed
    PROVE  PathInv'
<1> HIDE DEF Events, Responses
<1>1. UNCHANGED call_count /\ UNCHANGED to_daemon BY DEF wedgeVars
<1>2. udp_queue \in Seq(Events) /\ ObjectOnce(udp_queue) BY DEF PathInv, Shape, QueueShape, QueInv
<1>3. /\ udp_queue' \in Seq(Events) /\ ObjectOnce(udp_queue')
      /\ Members(udp_queue') = Members(udp_queue) \cup {e}
  <2>1. /\ enqueue(udp_queue, e) \in Seq(Events)
        /\ Members(enqueue(udp_queue, e)) = Members(udp_queue) \cup {e}
        /\ ObjectOnce(enqueue(udp_queue, e))
    BY <1>2, ObjectEnqueue
  <2> QED BY <2>1
<1>4. Library(udp_queue') = Library(udp_queue) BY <1>3 DEF Library
<1>5. QueFds' = QueFds BY <1>4 DEF QueFds
<1>6. /\ SocketShape' /\ CollInv' /\ CollSocks' = CollSocks /\ DOMAIN socket' = DOMAIN socket
      /\ \A z \in DOMAIN socket : socket'[z].id = socket[z].id
  BY <1>1, SocketsSame
<1>7. SavedIn' = SavedIn /\ SavFds' = SavFds BY DEF SavFds, SavedIn
<1>8. \A z \in SavedIn' : SavedOK(z, map_'[z].receive_event, socket[z].id)
  BY <1>7 DEF PathInv, SavInv
<1>9. Apart' BY <1>1, <1>5, <1>7 DEF PathInv, Apart
<1>10. \A f : Opened(f) => Opened(f)' BY DEF Opened
<1>11. \A f \in wedge_sockets : Served(f)'
  BY <1>10 DEF PathInv, LifeInv, Served, wedgeVars, Waiting, CallOf
<1>12. \A f \in Library(udp_queue') : f.kind = "socket" => content[f.kind][f.n].sock \in CollSocks'
  BY <1>4, <1>6 DEF PathInv, QueInv, EventOK
<1>13. \A z \in (Doomed \cap CollSocks)', f \in SockIds : socket[z].id = f => Leaving(f)
  BY <1>6 DEF PathInv, LifeInv
<1>14. Doomed' \subseteq DOMAIN socket BY DEF PathInv, LifeInv
<1>15. closing' # NotClosing => closing'.n \in 1 .. Len(content["close"]) BY DEF PathInv, LifeInv
<1>16. /\ responses' \in Seq(Responses) /\ FdOnce(responses')
       /\ \A r \in Members(responses') : Ticket(r.fd, r.type, r.call, r.sock)
  BY DEF PathInv, Shape, QueueShape, ResInv
<1>17. Library(udp_queue') \subseteq Library(udp_queue) /\ CollSocks' \subseteq CollSocks BY <1>4, <1>6
<1>18. UNCHANGED <<wedgeVars, pool, content, event_map_, releasing, failed>> OBVIOUS
<1>19. \A f \in FdsOf(to_daemon) : Opened(f) => Opened(f)' BY <1>10
<1> QED
  BY <1>3, <1>6, <1>8, <1>9, <1>11, <1>12, <1>13, <1>14, <1>15, <1>16, <1>17, <1>18, <1>19, UDPStep

\* close() goes on: the Socket stays doomed, now by an event.
LEMMA EnqueueDeletePath == ASSUME PathInv, EnqueueDelete PROVE PathInv'
<1>1. PICK x : x = content["close"][closing.n].sock OBVIOUS
<1>2. PICK e : e = [kind |-> "delete", n |-> 0, sock |-> x, datagram |-> 0] OBVIOUS
<1>3. /\ closing # NotClosing /\ closing' = NotClosing /\ udp_queue' = enqueue(udp_queue, e)
      /\ UNCHANGED <<wedgeVars, socket, collection_, pool, content, event_map_>>
      /\ UNCHANGED <<responses, releasing, failed, map_, network>>
  BY <1>1, <1>2 DEF EnqueueDelete
<1>4. x \in Doomed /\ x \in DOMAIN socket BY <1>1, <1>3 DEF Doomed, PathInv, LifeInv
<1>5. x \in Nat BY <1>4 DEF PathInv, Shape, SocketShape
<1>6. e \in Events /\ e.kind = "delete" /\ e.sock = x BY <1>2, <1>5 DEF Events, Kinds
<1>7. e.kind \notin CallTypes BY <1>6 DEF CallTypes
<1>8. Members(udp_queue') = Members(udp_queue) \cup {e}
  <2> HIDE DEF Events
  <2>1. udp_queue \in Seq(Events) BY DEF PathInv, Shape, QueueShape
  <2>2. Members(enqueue(udp_queue, e)) = Members(udp_queue) \cup {e}
    BY <1>6, <2>1, ObjectEnqueue
  <2> QED BY <1>3, <2>2
<1>9. Doomed' \subseteq Doomed
  <2> SUFFICES ASSUME NEW z \in Doomed' PROVE z \in Doomed OBVIOUS
  <2>1. PICK f \in Members(udp_queue') : f.kind = "delete" /\ z = f.sock BY <1>3 DEF Doomed
  <2>2. CASE f = e BY <1>4, <1>6, <2>1, <2>2
  <2>3. CASE f \in Members(udp_queue) BY <2>1, <2>3 DEF Doomed
  <2> QED BY <1>8, <2>1, <2>2, <2>3
<1>10. closing' \in [n : Nat, call : Nat] /\ network' \in SUBSET [id : Nat, port : Nat]
  BY <1>3 DEF NotClosing, PathInv, Shape, SocketShape
<1> QED BY <1>3, <1>6, <1>7, <1>9, <1>10, QueuedStep

\* The Socket of a datagram is the only one with its port.
LEMMA NetworkReceivePath ==
    ASSUME Apartness, PathInv, NEW d \in network, NetworkReceive(d) PROVE PathInv'
<1>1. PICK x : x = get_by_local_ap(collection_, socket, d.port) OBVIOUS
<1>2. PICK e : e = [kind |-> "packet", n |-> 0, sock |-> x, datagram |-> d.id] OBVIOUS
<1>3. /\ network' = network \ {d}
      /\ udp_queue' = IF x = 0 THEN udp_queue ELSE enqueue(udp_queue, e)
      /\ UNCHANGED <<wedgeVars, socket, collection_, pool, content, event_map_>>
      /\ UNCHANGED <<responses, releasing, failed, map_, closing>>
  BY <1>1, <1>2 DEF NetworkReceive
<1>4. network' \in SUBSET [id : Nat, port : Nat] /\ d.id \in Nat
  BY <1>3 DEF PathInv, Shape, SocketShape
<1>5. closing' \in [n : Nat, call : Nat] BY <1>3 DEF PathInv, Shape, SocketShape
<1>6. x \in Nat
  <2>1. PICK K : K = {k \in DOMAIN collection_ : socket[collection_[k]].port = d.port} OBVIOUS
  <2>2. x = FirstSocket(collection_, K) BY <1>1, <2>1 DEF get_by_local_ap
  <2>3. CASE K = {} BY <2>2, <2>3 DEF FirstSocket
  <2>4. CASE K # {}
    <3>1. PICK k : k \in K BY <2>4
    <3>2. \A l \in K : l = k
      <4> SUFFICES ASSUME NEW l \in K PROVE l = k OBVIOUS
      <4>1. collection_[k] \in CollSocks /\ collection_[l] \in CollSocks BY <2>1, <3>1 DEF CollSocks
      <4>2. collection_[k] = collection_[l] BY <2>1, <3>1, <4>1, OwnPort
      <4> QED BY <2>1, <3>1, <4>2 DEF PathInv, CollInv
    <3>3. K = {k} BY <3>1, <3>2
    <3>4. x = collection_[k] BY <2>2, <3>3, FirstKeyOfOne DEF FirstSocket
    <3>5. x \in DOMAIN socket BY <2>1, <3>1, <3>4 DEF PathInv, CollInv
    <3> QED BY <3>5 DEF PathInv, Shape, SocketShape
  <2> QED BY <2>3, <2>4
<1>7. CASE x # 0
  <2>1. e \in Events /\ e.kind = "packet" BY <1>2, <1>4, <1>6 DEF Events, Kinds
  <2>2. e.kind \notin CallTypes BY <2>1 DEF CallTypes
  <2>3. Members(udp_queue') = Members(udp_queue) \cup {e}
    <3> HIDE DEF Events
    <3>1. udp_queue \in Seq(Events) BY DEF PathInv, Shape, QueueShape
    <3>2. Members(enqueue(udp_queue, e)) = Members(udp_queue) \cup {e}
      BY <2>1, <3>1, ObjectEnqueue
    <3> QED BY <1>3, <1>7, <3>2
  <2>4. Doomed' \subseteq Doomed BY <1>3, <2>1, <2>3 DEF Doomed
  <2>5. udp_queue' = enqueue(udp_queue, e) BY <1>3, <1>7
  <2> QED BY <1>3, <1>4, <1>5, <2>1, <2>2, <2>4, <2>5, QueuedStep
<1>8. CASE x = 0
  <2>1. UNCHANGED <<wedgeVars, translatorVars, map_, closing>> BY <1>3, <1>8 DEF translatorVars
  <2> QED BY <1>4, <2>1, NetworkOnly
<1> QED BY <1>7, <1>8

\* imodule_delete_socket: the Socket is in the collection under its key, and after
\* that is not, so neither assertion fails; nobody waits for it any more.
LEMMA ProcessDeletePath == ASSUME PathInv, ProcessDelete PROVE PathInv'
<1> HIDE DEF Events, Responses
<1>1. Processes("delete") /\ UNCHANGED <<socket, responses, closing, network>>
  BY DEF ProcessDelete
<1>2. PICK x : x = Head(udp_queue).sock OBVIOUS
<1>3. CASE ~Known(x)
  <2>1. UNCHANGED <<map_, collection_, failed>> BY <1>2, <1>3 DEF ProcessDelete
  <2> QED BY <1>1, <2>1, IgnoredStep
<1>4. CASE Known(x)
  <2>1. /\ map_' = [z \in DOMAIN map_ \ {x} |-> map_[z]]
        /\ collection_' = remove(collection_, socket, x) /\ failed' = DeleteAsserts(x)
    BY <1>2, <1>4 DEF ProcessDelete
  <2>2. /\ UNCHANGED <<wedgeVars, pool, content, event_map_, releasing>>
        /\ closing = NotClosing /\ failed = "none" /\ Head(udp_queue).kind = "delete"
        /\ udp_queue' \in Seq(Events) /\ ObjectOnce(udp_queue')
        /\ Head(udp_queue) \in Members(udp_queue)
        /\ Members(udp_queue') \subseteq Members(udp_queue)
        /\ Library(udp_queue') \subseteq Library(udp_queue) /\ QueFds' \subseteq QueFds
    BY <1>1, TakeAny
  <2>3. x \in DOMAIN map_ /\ x \in CollSocks BY <1>4 DEF Known, PathInv, CollInv
  <2>4. \A z \in CollSocks : z \in DOMAIN socket BY DEF CollSocks, PathInv, CollInv
  <2>5. PICK s : s = socket[x].id OBVIOUS
  <2>6. s \in SockIds BY <2>3, <2>4, <2>5 DEF PathInv, Shape, SocketShape, SocketRecords
  <2>7. x \in Doomed BY <1>2, <2>2 DEF Doomed
  <2>8. Leaving(s) BY <2>3, <2>5, <2>6, <2>7 DEF PathInv, LifeInv
  <2>9. PICK key : key = KeyOf(socket, x) OBVIOUS
  <2>10. /\ key \in DOMAIN collection_ /\ collection_[key] = x
         /\ {k \in DOMAIN collection_ : collection_[k] = x} = {key}
         /\ get_by_id(collection_, socket, s) = x
    BY <2>3, <2>5, <2>9, FoundById DEF PathInv
  <2>11. collection_' = [k \in DOMAIN collection_ \ {key} |-> collection_[k]]
    <3>1. RemovedKeys(collection_, socket, x) = {key} BY <2>9, <2>10 DEF RemovedKeys
    <3> QED BY <2>1, <3>1 DEF remove
  <2>12. /\ DOMAIN collection_' = DOMAIN collection_ \ {key}
         /\ \A k \in DOMAIN collection_ : k # key => collection_'[k] = collection_[k]
         /\ collection_' = [k \in DOMAIN collection_' |-> collection_'[k]]
    BY <2>11
  <2>13. CollSocks' = CollSocks \ {x} BY <2>10, <2>12 DEF CollSocks
  <2>14. failed' = "none"
    <3>1. KeysWithId(collection_', socket, s) = {}
      <4> SUFFICES ASSUME NEW k \in DOMAIN collection_', socket[collection_'[k]].id = s PROVE FALSE
        BY DEF KeysWithId
      <4>1. collection_'[k] \in CollSocks /\ collection_'[k] # x BY <2>13 DEF CollSocks
      <4> QED BY <2>3, <2>5, <4>1 DEF PathInv, CollInv
    <3>2. get_by_id(collection_', socket, s) = 0 BY <3>1 DEF get_by_id, FirstSocket
    <3>3. get_by_id(remove(collection_, socket, x), socket, s) = 0 BY <2>1, <3>2
    <3> QED BY <2>1, <2>5, <2>10, <3>3 DEF DeleteAsserts
  <2>15. DOMAIN map_' = DOMAIN map_ \ {x} /\ \A z \in DOMAIN map_' : map_'[z] = map_[z] BY <2>1
  <2>16. SocketShape'
    <3>1. UNCHANGED call_count BY <2>2 DEF wedgeVars
    <3>2. map_' \in [DOMAIN map_' -> Containers]
      <4> HIDE DEF Containers
      <4> QED BY <2>1, <2>15 DEF PathInv, Shape, SocketShape
    <3> QED BY <1>1, <2>12, <3>1, <3>2 DEF PathInv, Shape, SocketShape
  <2>17. CollInv'
    <3>1. \A k \in DOMAIN collection_' :
             collection_'[k] \in DOMAIN socket' /\ KeyOf(socket', collection_'[k]) = k
      BY <1>1, <2>12 DEF PathInv, CollInv
    <3> QED BY <1>1, <2>13, <2>15, <3>1 DEF PathInv, CollInv
  <2>18. ASSUME NEW z \in SavedIn' PROVE z \in SavedIn /\ map_'[z] = map_[z]
    BY <2>15, <2>18 DEF SavedIn
  <2>19. SavFds' \subseteq SavFds BY <1>1, <2>18 DEF SavFds
  <2>20. \A z \in SavedIn' : SavedOK(z, map_'[z].receive_event, socket[z].id)
    BY <2>18 DEF PathInv, SavInv
  <2>21. UNCHANGED to_daemon BY <2>2 DEF wedgeVars
  <2>22. Apart' BY <1>1, <2>2, <2>19, <2>21 DEF PathInv, Apart
  <2>23. ASSUME NEW f, f # s, Opened(f) PROVE Opened(f)'
    BY <1>1, <2>5, <2>15, <2>23 DEF Opened
  <2>24. s \notin FdsOf(to_daemon)
    <3> SUFFICES ASSUME s \in FdsOf(to_daemon) PROVE FALSE OBVIOUS
    <3>1. \E y \in CallTypes : CallOf(s, y) BY PlacesHaveCalls
    <3>2. s \in wedge_sockets BY <3>1, OneCall DEF PathInv
    <3> QED BY <2>8, <3>2 DEF Leaving
  <2>25. ASSUME NEW e \in Library(udp_queue'), e.kind = "socket"
         PROVE  content[e.kind][e.n].sock \in CollSocks'
    <3>1. EventOK(e, content[e.kind][e.n]) BY <2>2, <2>25 DEF PathInv, QueInv
    <3>2. content[e.kind][e.n].sock # x
      <4> SUFFICES ASSUME content[e.kind][e.n].sock = x PROVE FALSE OBVIOUS
      <4>1. CallOf(s, "socket")
        BY <2>5, <2>25, <3>1, WaitingIsCall DEF EventOK, Ticket
      <4>2. s \in wedge_sockets /\ ~CallOf(s, "close") BY <4>1, OneCall DEF PathInv
      <4> QED BY <2>8, <4>2 DEF Leaving
    <3> QED BY <2>13, <2>25, <3>1, <3>2 DEF EventOK
  <2>26. Doomed' \subseteq Doomed BY <1>1, <2>2 DEF Doomed
  <2>27. \A z \in (Doomed \cap CollSocks)', f \in SockIds : socket[z].id = f => Leaving(f)
    BY <2>13, <2>26 DEF PathInv, LifeInv
  <2>28. Doomed' \subseteq DOMAIN socket BY <2>26 DEF PathInv, LifeInv
  <2>29. \A f \in wedge_sockets : Served(f)'
    <3>1. PICK A : A = {} OBVIOUS
    <3>2. /\ UNCHANGED wedgeVars /\ FdsOf(responses') \subseteq FdsOf(responses) \cup A
          /\ \A f \in A : Opened(f)' \/ \A c : ~Waiting(f, "socket", c)
          /\ \A f \in SockIds : Opened(f) => Opened(f)' \/ Leaving(f)
      BY <1>1, <2>2, <2>8, <2>23, <3>1
    <3> QED BY <3>2, ServedKept
  <2>30. /\ responses' \in Seq(Responses) /\ FdOnce(responses')
         /\ \A r \in Members(responses') : Ticket(r.fd, r.type, r.call, r.sock)
    BY <1>1 DEF PathInv, Shape, QueueShape, ResInv
  <2>31. /\ UNCHANGED <<wedgeVars, pool, content, event_map_, releasing, failed>>
         /\ DOMAIN socket' = DOMAIN socket /\ \A z \in DOMAIN socket : socket'[z].id = socket[z].id
         /\ CollSocks' \subseteq CollSocks
         /\ closing' # NotClosing => closing'.n \in 1 .. Len(content["close"])
         /\ \A f \in FdsOf(to_daemon) : Opened(f) => Opened(f)'
    BY <1>1, <2>2, <2>13, <2>14, <2>23, <2>24
  <2> QED
    BY <2>2, <2>16, <2>17, <2>20, <2>22, <2>25, <2>27, <2>28, <2>29, <2>30, <2>31, UDPStep
<1> QED BY <1>3, <1>4

-------------------------------------------------------------------------------
\* The invariant holds at first: the pools are full, and nothing is anywhere.
LEMMA InitPath == Init => PathInv
<1> SUFFICES ASSUME Init PROVE PathInv OBVIOUS
<1>1. /\ wedge_calls = [i \in Slots |-> FreeEntry] /\ wedge_sockets = {} /\ call_count = 0
      /\ to_daemon = <<>> /\ socket = <<>> /\ collection_ = <<>>
      /\ event_map_ = [id \in SockIds |-> NoEvent]
      /\ udp_queue = <<>> /\ responses = <<>> /\ releasing = NoEvent /\ failed = "none"
      /\ map_ = <<>> /\ closing = NotClosing /\ network = {}
  BY DEF Init, WedgeInit, TranslatorInit
<1>2. PICK N \in Nat : N = POOL_INITIAL_SIZE /\ N # 0 BY PoolAssumption
<1>3. PICK p : p = NewPool(N) OBVIOUS
<1>4. PICK c : c = [i \in 1 .. N |-> Blank] OBVIOUS
<1>5. pool = [y \in CallTypes |-> p] /\ content = [y \in CallTypes |-> c]
  BY <1>2, <1>3, <1>4 DEF Init, TranslatorInit
<1>6. Blank \in Contents BY DEF Blank, Contents
<1> HIDE DEF Contents
<1>7. c \in Seq(Contents) /\ Len(c) = N BY <1>2, <1>4, <1>6
<1>8. p \in Pools /\ PoolOK(p, c)
  <2>1. PICK f : f = [i \in 1 .. N |-> i] OBVIOUS
  <2>2. f \in Seq(Nat) /\ DOMAIN f = 1 .. N /\ \A i \in 1 .. N : f[i] = i BY <1>2, <2>1
  <2>3. p = [free |-> f, size |-> N] BY <1>3, <2>1 DEF NewPool
  <2>4. p \in Pools BY <1>2, <2>2, <2>3 DEF Pools
  <2>5. p.free = f /\ p.size = N BY <2>3
  <2> QED BY <1>2, <1>7, <2>2, <2>4, <2>5 DEF PoolOK
<1>9. PICK e : e = FreeEntry OBVIOUS
<1>10. /\ e \in Entries /\ e.call_id = 0 /\ e.from = 0 /\ e.reply = FALSE
  BY <1>9 DEF FreeEntry, Entries
<1>11. wedge_calls = [i \in Slots |-> e] BY <1>1, <1>9
<1>12. NoEvent \in Objects BY DEF NoEvent, Objects
<1>13. WedgeShape
  <2> HIDE DEF Entries
  <2>1. wedge_calls \in [Slots -> Entries] BY <1>10, <1>11
  <2>2. 0 \in Nat /\ 0 <= MaxCallCount BY WedgeAssumption
  <2> QED BY <1>1, <2>1, <2>2 DEF WedgeShape
<1>14. QueueShape BY <1>1 DEF QueueShape
<1>15. ObjectShape
  <2> HIDE DEF Objects, Pools
  <2> QED BY <1>1, <1>5, <1>7, <1>8, <1>12 DEF ObjectShape
<1>16. SocketShape
  <2>1. DOMAIN socket = {} /\ DOMAIN map_ = {} BY <1>1
  <2>2. socket \in [DOMAIN socket -> SocketRecords] BY <1>1, <2>1
  <2>3. map_ \in [DOMAIN map_ -> Containers] BY <1>1, <2>1
  <2>4. collection_ = [k \in DOMAIN collection_ |-> collection_[k]] BY <1>1
  <2>5. closing \in [n : Nat, call : Nat] BY <1>1 DEF NotClosing
  <2> QED BY <1>1, <2>1, <2>2, <2>3, <2>4, <2>5 DEF SocketShape
<1>17. EntryInv /\ ReplyAnswersItsCall
  BY <1>1, <1>10, <1>11 DEF EntryInv, ReplyAnswersItsCall
<1>18. /\ DOMAIN to_daemon = {} /\ DOMAIN udp_queue = {} /\ DOMAIN responses = {}
       /\ DOMAIN map_ = {} /\ DOMAIN collection_ = {}
  BY <1>1
<1>19. /\ Members(to_daemon) = {} /\ Members(udp_queue) = {} /\ Members(responses) = {}
       /\ FdsOf(to_daemon) = {} /\ FdsOf(responses) = {} /\ CollSocks = {} /\ SavedIn = {}
  BY <1>18 DEF Members, FdsOf, CollSocks, SavedIn
<1>20. MsgInv BY <1>18, <1>19 DEF MsgInv, FdOnce
<1>21. QueInv BY <1>18, <1>19 DEF QueInv, ObjectOnce, Library
<1>22. SavInv BY <1>19 DEF SavInv
<1>23. ResInv BY <1>18, <1>19 DEF ResInv, FdOnce
<1>24. Apart BY <1>19 DEF Apart, QueFds, SavFds, Library
<1>25. PoolInv BY <1>1, <1>5, <1>8 DEF PoolInv
<1>26. CollInv BY <1>18, <1>19 DEF CollInv
<1>27. LifeInv BY <1>1, <1>19 DEF LifeInv, Doomed
<1> QED BY <1>13, <1>14, <1>15, <1>16, <1>17, <1>20, <1>21, <1>22, <1>23, <1>24, <1>25, <1>26, <1>27
        DEF PathInv, Shape

\* One step per action.
LEMMA NextPath == ASSUME Apartness, PathInv, WedgeInv, [Next]_vars PROVE PathInv'
<1>1. CASE Application BY <1>1, CallPath
<1>2. CASE ApplicationFails BY <1>2, ReleaseFailsPath
<1>3. ASSUME NEW t \in Threads, ApplicationReturns(t) PROVE PathInv' BY <1>3, ReturnPath
<1>4. CASE NetlinkThread
  <2>1. Receive /\ UNCHANGED udpVars BY <1>4 DEF NetlinkThread
  <2>2. CASE Head(to_daemon).type = "socket" BY <2>1, <2>2, ReceiveSocketPath
  <2>3. CASE Head(to_daemon).type # "socket" BY <2>1, <2>3, ReceiveCallPath
  <2> QED BY <2>2, <2>3
<1>5. CASE LibraryResponse /\ UNCHANGED udpVars BY <1>5, LibraryResponsePath
<1>6. CASE ReleaseEvent /\ UNCHANGED udpVars BY <1>6, ReleaseEventPath
<1>7. CASE ProcessSocket BY <1>7, ProcessSocketPath
<1>8. CASE ProcessBind BY <1>8, ProcessBindPath
<1>9. CASE ProcessConnect BY <1>9, ProcessConnectPath
<1>10. CASE ProcessSend BY <1>10, ProcessSendPath
<1>11. CASE ProcessReceive BY <1>11, ProcessReceivePath
<1>12. CASE ProcessPacket BY <1>12, ProcessPacketPath
<1>13. CASE ProcessClose BY <1>13, ProcessClosePath
<1>14. CASE EnqueueDelete BY <1>14, EnqueueDeletePath
<1>15. CASE ProcessDelete BY <1>15, ProcessDeletePath
<1>16. ASSUME NEW d \in network, NetworkReceive(d) PROVE PathInv' BY <1>16, NetworkReceivePath
<1>17. network \in SUBSET [id : Nat, port : Nat] BY DEF PathInv, Shape, SocketShape
<1>18. ASSUME NEW d \in network, Lose(d) PROVE PathInv'
  <2>1. UNCHANGED <<wedgeVars, translatorVars, map_, closing>> /\ network' = network \ {d}
    BY <1>18 DEF Lose
  <2>2. network' \in SUBSET [id : Nat, port : Nat] BY <1>17, <2>1
  <2> QED BY <2>1, <2>2, NetworkOnly
<1>19. CASE UNCHANGED vars
  <2>1. UNCHANGED <<wedgeVars, translatorVars, map_, closing, network>> BY <1>19 DEF vars, udpVars
  <2>2. network' \in SUBSET [id : Nat, port : Nat] BY <1>17, <2>1
  <2> QED BY <2>1, <2>2, NetworkOnly
<1> QED BY <1>1, <1>2, <1>3, <1>4, <1>5, <1>6, <1>7, <1>8, <1>9, <1>10, <1>11, <1>12, <1>13, <1>14,
           <1>15, <1>16, <1>18, <1>19 DEF Next

\* The invariants of the path and of the table, in every state.
LEMMA PathAlways == ASSUME Apartness PROVE Spec => [](PathInv /\ WedgeInv)
<1>1. Init => PathInv /\ WedgeInv BY InitPath, InitWedge
<1>2. (PathInv /\ WedgeInv) /\ [Next]_vars => (PathInv /\ WedgeInv)'
  BY NextPath, NextWedge
<1> QED BY <1>1, <1>2, PTL DEF Spec

\* For any number of threads, sockets, table entries, event objects and calls: the
\* answer that nl_data_ready writes into an entry is the answer to the call that
\* waits there, although an answer has no number of its call.
THEOREM AnswersReachTheirCalls == ASSUME Apartness PROVE Spec => []ReplyAnswersItsCall
<1>1. PathInv /\ WedgeInv => ReplyAnswersItsCall BY DEF PathInv
<1> QED BY <1>1, PathAlways, PTL

\* The assertions of the translator and of imodule_delete_socket hold: the daemon
\* finds the Socket of every message, the event of every response and the entry of
\* every answer, and removes the Socket it means to.
THEOREM AssertionsHold == ASSUME Apartness PROVE Spec => []DaemonAssertionsHold
<1>1. PathInv /\ WedgeInv => DaemonAssertionsHold
  BY DEF PathInv, Shape, WedgeShape, DaemonAssertionsHold
<1> QED BY <1>1, PathAlways, PTL

-------------------------------------------------------------------------------
\* Who refers to an event object.

\* The claim a is that of a call on socket s, which is in the daemon.
Holds(s, a) ==
    /\ \E y, c, x : Ticket(s, y, c, x)
    /\ event_map_[s].type = a[1] /\ event_map_[s].n = a[2]

\* A queued event of the library is that of a call.
LEMMA QueueHolds ==
    ASSUME PathInv, NEW a \in QueueClaims
    PROVE  \E s \in QueFds, i \in DOMAIN udp_queue :
              /\ Holds(s, a) /\ udp_queue[i].kind \in CallTypes
              /\ a = <<udp_queue[i].kind, udp_queue[i].n, "queued", i>>
<1>1. PICK i \in DOMAIN udp_queue :
         a = <<udp_queue[i].kind, udp_queue[i].n, "queued", i>> /\ udp_queue[i].kind \in CallTypes
  BY DEF QueueClaims, LibraryKinds
<1>2. PICK e : e = udp_queue[i] OBVIOUS
<1>3. PICK o : o = content[e.kind][e.n] OBVIOUS
<1>4. e \in Library(udp_queue) BY <1>1, <1>2 DEF Library, Members
<1>5. EventOK(e, o) BY <1>3, <1>4 DEF PathInv, QueInv
<1>6. o.fd \in QueFds BY <1>3, <1>4 DEF QueFds
<1>7. a[1] = e.kind /\ a[2] = e.n BY <1>1, <1>2
<1>8. Holds(o.fd, a) BY <1>5, <1>7 DEF EventOK, Holds, Ticket
<1> QED BY <1>1, <1>6, <1>8

\* A saved receive is a call's.
LEMMA ReceiveHolds ==
    ASSUME PathInv, NEW a \in ReceiveClaims
    PROVE  \E x \in SavedIn :
              /\ socket[x].id \in SavFds /\ Holds(socket[x].id, a)
              /\ a = <<"recvfrom", map_[x].receive_event, "saved", x>>
<1>1. PICK x \in SavedIn : a = <<"recvfrom", map_[x].receive_event, "saved", x>>
  BY DEF ReceiveClaims, SavedIn
<1>2. SavedOK(x, map_[x].receive_event, socket[x].id) BY DEF PathInv, SavInv
<1>3. a[1] = "recvfrom" /\ a[2] = map_[x].receive_event BY <1>1
<1>4. Holds(socket[x].id, a) BY <1>2, <1>3 DEF SavedOK, Holds, Ticket
<1> QED BY <1>1, <1>4 DEF SavFds

\* The event a response will release is that of the call it answers.
LEMMA ResponseHolds ==
    ASSUME PathInv, NEW a \in ResponseClaims
    PROVE  \E i \in DOMAIN responses :
              /\ responses[i].fd \in FdsOf(responses) /\ Holds(responses[i].fd, a)
              /\ a = <<event_map_[responses[i].fd].type, event_map_[responses[i].fd].n, "answered", i>>
<1>1. PICK i \in DOMAIN responses :
         a = <<EventOf(responses[i]).type, EventOf(responses[i]).n, "answered", i>>
  BY DEF ResponseClaims
<1>2. PICK r : r = responses[i] OBVIOUS
<1>3. Ticket(r.fd, r.type, r.call, r.sock) BY <1>2 DEF PathInv, ResInv, Members
<1>4. EventOf(r) = event_map_[r.fd] BY <1>3 DEF EventOf, Ticket
<1>5. a = <<event_map_[r.fd].type, event_map_[r.fd].n, "answered", i>> BY <1>1, <1>2, <1>4
<1>6. a[1] = event_map_[r.fd].type /\ a[2] = event_map_[r.fd].n BY <1>5
<1>7. Holds(r.fd, a) BY <1>3, <1>6 DEF Holds
<1> QED BY <1>2, <1>5, <1>7 DEF FdsOf

\* One event, one call; and it is neither free nor being released.
LEMMA HeldOnce ==
    ASSUME PathInv, NEW a, NEW b, NEW s, NEW t, Holds(s, a), Holds(t, b), a[1] = b[1], a[2] = b[2]
    PROVE  s = t
<1>1. s \in SockIds /\ t \in SockIds BY DEF Holds, Ticket
<1>2. event_map_[s] \in Objects /\ event_map_[t] \in Objects
  BY <1>1 DEF PathInv, Shape, ObjectShape
<1>3. event_map_[s] = event_map_[t] BY <1>2, SameObject DEF Holds
<1> QED BY <1>3, TicketsDiffer DEF Holds

\* The event of a call is neither in a pool nor being released.
LEMMA HeldInUse ==
    ASSUME PathInv, NEW a, NEW s, Holds(s, a), NEW b \in FreeClaims \cup ReleaseClaims
    PROVE  ~(a[1] = b[1] /\ a[2] = b[2])
<1>1. PICK y : /\ y \in CallTypes /\ s \in SockIds /\ event_map_[s].type = y
               /\ event_map_[s].n \notin Members(pool[y].free) /\ event_map_[s] # releasing
  BY DEF Holds, Ticket
<1>2. CASE b \in FreeClaims
  <2>1. PICK z \in CallTypes :
           \E i \in DOMAIN pool[z].free : b = <<z, pool[z].free[i], "free", i>>
    BY <1>2 DEF FreeClaims
  <2>2. b[1] = z /\ b[2] \in Members(pool[z].free) BY <2>1 DEF Members
  <2> QED BY <1>1, <2>2 DEF Holds
<1>3. CASE b \in ReleaseClaims
  <2>1. b = <<releasing.type, releasing.n, "releasing", 0>> BY <1>3 DEF ReleaseClaims
  <2>2. b[1] = releasing.type /\ b[2] = releasing.n BY <2>1
  <2>3. event_map_[s] \in Objects /\ releasing \in Objects
    BY <1>1 DEF PathInv, Shape, ObjectShape
  <2> QED BY <1>1, <2>2, <2>3, SameObject DEF Holds
<1> QED BY <1>2, <1>3

\* What is free is free once, and what is being released is not free yet.
LEMMA FreeOnce ==
    ASSUME PathInv, NEW a \in FreeClaims \cup ReleaseClaims, NEW b \in FreeClaims \cup ReleaseClaims,
           a[1] = b[1], a[2] = b[2]
    PROVE  a = b
<1>1. ASSUME NEW c \in FreeClaims
      PROVE  \E y \in CallTypes : \E i \in DOMAIN pool[y].free :
                c = <<y, pool[y].free[i], "free", i>> /\ c[1] = y /\ c[2] = pool[y].free[i]
  BY <1>1 DEF FreeClaims
<1>2. ASSUME NEW c \in ReleaseClaims
      PROVE  /\ c = <<releasing.type, releasing.n, "releasing", 0>>
             /\ c[1] = releasing.type /\ c[2] = releasing.n
             /\ releasing.n \notin Members(pool[releasing.type].free)
  BY <1>2 DEF ReleaseClaims, PathInv, PoolInv
<1>3. CASE a \in FreeClaims /\ b \in FreeClaims
  <2>1. PICK y \in CallTypes : \E i \in DOMAIN pool[y].free :
            a = <<y, pool[y].free[i], "free", i>> /\ a[1] = y /\ a[2] = pool[y].free[i]
    BY <1>1, <1>3
  <2>2. PICK z \in CallTypes : \E i \in DOMAIN pool[z].free :
            b = <<z, pool[z].free[i], "free", i>> /\ b[1] = z /\ b[2] = pool[z].free[i]
    BY <1>1, <1>3
  <2>3. y = z BY <2>1, <2>2
  <2>4. \A i, j \in DOMAIN pool[y].free : pool[y].free[i] = pool[y].free[j] => i = j
    BY DEF PathInv, PoolInv, PoolOK
  <2> QED BY <2>1, <2>2, <2>3, <2>4
<1>4. CASE a \in ReleaseClaims /\ b \in ReleaseClaims BY <1>2, <1>4
<1>5. CASE a \in FreeClaims /\ b \in ReleaseClaims
  <2>1. a[2] \in Members(pool[a[1]].free) BY <1>1, <1>5 DEF Members
  <2> QED BY <1>2, <1>5, <2>1
<1>6. CASE a \in ReleaseClaims /\ b \in FreeClaims
  <2>1. b[2] \in Members(pool[b[1]].free) BY <1>1, <1>6 DEF Members
  <2> QED BY <1>2, <1>6, <2>1
<1> QED BY <1>3, <1>4, <1>5, <1>6

\* The places are apart and have each socket once, so no event has two claims.
LEMMA PathClaims == PathInv => ClaimedOnce
<1> SUFFICES ASSUME PathInv, NEW a \in Claims, NEW b \in Claims, a[1] = b[1], a[2] = b[2]
             PROVE  a = b
  BY DEF ClaimedOnce
<1> DEFINE Calls == QueueClaims \cup ReceiveClaims \cup ResponseClaims
           Rest == FreeClaims \cup ReleaseClaims
<1>1. ASSUME NEW c \in Calls PROVE \E s : Holds(s, c)
  BY <1>1, QueueHolds, ReceiveHolds, ResponseHolds
<1>2. CASE a \in Rest /\ b \in Rest BY <1>2, FreeOnce
<1>3. CASE a \in Calls /\ b \in Rest BY <1>1, <1>3, HeldInUse
<1>4. CASE a \in Rest /\ b \in Calls BY <1>1, <1>4, HeldInUse
<1>5. /\ QueFds \cap (SavFds \cup FdsOf(responses)) = {} /\ SavFds \cap FdsOf(responses) = {}
  BY DEF PathInv, Apart
<1>6. CASE a \in QueueClaims /\ b \in QueueClaims
  <2>1. PICK i \in DOMAIN udp_queue : /\ udp_queue[i].kind \in CallTypes
                                      /\ a = <<udp_queue[i].kind, udp_queue[i].n, "queued", i>>
    BY <1>6, QueueHolds
  <2>2. PICK j \in DOMAIN udp_queue : /\ udp_queue[j].kind \in CallTypes
                                      /\ b = <<udp_queue[j].kind, udp_queue[j].n, "queued", j>>
    BY <1>6, QueueHolds
  <2>3. udp_queue[i].kind = udp_queue[j].kind /\ udp_queue[i].n = udp_queue[j].n BY <2>1, <2>2
  <2>4. i = j BY <2>1, <2>3 DEF PathInv, QueInv, ObjectOnce
  <2> QED BY <2>1, <2>2, <2>4
<1>7. CASE a \in ReceiveClaims /\ b \in ReceiveClaims
  <2>1. PICK x \in SavedIn : /\ Holds(socket[x].id, a)
                             /\ a = <<"recvfrom", map_[x].receive_event, "saved", x>>
    BY <1>7, ReceiveHolds
  <2>2. PICK z \in SavedIn : /\ Holds(socket[z].id, b)
                             /\ b = <<"recvfrom", map_[z].receive_event, "saved", z>>
    BY <1>7, ReceiveHolds
  <2>3. socket[x].id = socket[z].id BY <2>1, <2>2, HeldOnce
  <2>4. x = z BY <2>3 DEF PathInv, CollInv, SavedIn
  <2> QED BY <2>1, <2>2, <2>4
<1>8. CASE a \in ResponseClaims /\ b \in ResponseClaims
  <2>1. PICK i \in DOMAIN responses :
           /\ Holds(responses[i].fd, a)
           /\ a = <<event_map_[responses[i].fd].type, event_map_[responses[i].fd].n, "answered", i>>
    BY <1>8, ResponseHolds
  <2>2. PICK j \in DOMAIN responses :
           /\ Holds(responses[j].fd, b)
           /\ b = <<event_map_[responses[j].fd].type, event_map_[responses[j].fd].n, "answered", j>>
    BY <1>8, ResponseHolds
  <2>3. responses[i].fd = responses[j].fd BY <2>1, <2>2, HeldOnce
  <2>4. i = j BY <2>3 DEF PathInv, ResInv, FdOnce
  <2> QED BY <2>1, <2>2, <2>4
<1>9. ASSUME NEW c \in Calls, NEW s, Holds(s, c)
      PROVE  /\ c \in QueueClaims => s \in QueFds
             /\ c \in ReceiveClaims => s \in SavFds
             /\ c \in ResponseClaims => s \in FdsOf(responses)
  BY <1>9, QueueHolds, ReceiveHolds, ResponseHolds, HeldOnce
<1>10. CASE a \in Calls /\ b \in Calls
  <2>1. PICK s : Holds(s, a) BY <1>1, <1>10
  <2>2. Holds(s, b) BY <1>1, <1>10, <2>1, HeldOnce
  <2> QED BY <1>5, <1>6, <1>7, <1>8, <1>9, <1>10, <2>1, <2>2
<1> QED BY <1>2, <1>3, <1>4, <1>10 DEF Claims

\* No event object is claimed twice: an object that a pool hands out is in no queue,
\* saved for no socket and not about to be released, and a response releases the
\* object of the call it answers.
THEOREM EventsClaimedOnce == ASSUME Apartness PROVE Spec => []ClaimedOnce
<1>1. PathInv /\ WedgeInv => ClaimedOnce BY PathClaims
<1> QED BY <1>1, PathAlways, PTL

-------------------------------------------------------------------------------
\* event_map_ has event objects only.
NotedInv == event_map_ \in [SockIds -> EventObjects \cup {NoEvent}]

\* receive() alone writes to the map, and what it notes is an object of a pool.
LEMMA NextNoted == ASSUME PathInv, NotedInv, [Next]_vars PROVE NotedInv'
<1>1. CASE NetlinkThread
  <2>1. PICK m : m = Head(to_daemon) OBVIOUS
  <2>2. PICK n : n = get(pool[m.type]) OBVIOUS
  <2>3. to_daemon # <<>> BY <1>1 DEF NetlinkThread, Receive
  <2>4. m \in Messages BY <2>1, <2>3, TailFacts DEF PathInv, Shape, QueueShape
  <2>5. m.type \in CallTypes /\ m.fd \in SockIds BY <2>4 DEF Messages
  <2>6. \/ UNCHANGED event_map_
        \/ event_map_' = [event_map_ EXCEPT ![m.fd] = [type |-> m.type, n |-> n]]
    BY <1>1, <2>1, <2>2 DEF NetlinkThread, Receive, ReceiveSocket, ReceiveCall, DispatchCall
  <2>7. n \in Nat \ {0}
    <3>1. PICK p : p = pool[m.type] OBVIOUS
    <3>2. p \in Pools /\ PoolOK(p, content[m.type])
      BY <2>5, <3>1 DEF PathInv, Shape, ObjectShape, PoolInv
    <3>3. PICK g : g = grow(p) OBVIOUS
    <3>4. /\ g \in Pools /\ g.free # <<>> /\ g.size \in Nat
          /\ \A i \in DOMAIN g.free : g.free[i] \in 1 .. g.size
      BY <3>2, <3>3, GrowFacts
    <3>5. g.free \in Seq(Nat) BY <3>4 DEF Pools
    <3>6. 1 \in DOMAIN g.free /\ Head(g.free) = g.free[1] BY <3>4, <3>5, TailFacts
    <3> QED BY <2>2, <3>1, <3>3, <3>4, <3>6 DEF get
  <2>8. [type |-> m.type, n |-> n] \in EventObjects BY <2>5, <2>7 DEF EventObjects
  <2> HIDE DEF EventObjects
  <2> QED BY <2>5, <2>6, <2>8 DEF NotedInv
<1>2. CASE \/ Application \/ ApplicationFails \/ (\E t \in Threads : ApplicationReturns(t))
           \/ LibraryResponse \/ ReleaseEvent \/ EnqueueDelete
           \/ (\E d \in network : NetworkReceive(d) \/ Lose(d)) \/ UNCHANGED vars
           \/ \E y \in Kinds : Processes(y)
  <2>1. UNCHANGED event_map_
    BY <1>2 DEF Application, ApplicationFails, ApplicationReturns, LibraryResponse, ReleaseEvent,
       EnqueueDelete, NetworkReceive, Lose, Processes, vars, translatorVars
  <2> QED BY <2>1 DEF NotedInv
<1>3. CASE \/ ProcessSocket \/ ProcessBind \/ ProcessConnect \/ ProcessSend \/ ProcessReceive
           \/ ProcessPacket \/ ProcessClose \/ ProcessDelete
  <2>1. \E y \in Kinds : Processes(y)
    BY <1>3 DEF ProcessSocket, ProcessBind, ProcessConnect, ProcessSend, ProcessReceive,
       ProcessPacket, ProcessClose, ProcessDelete, Kinds, LibraryKinds, CallTypes
  <2> QED BY <1>2, <2>1
<1> QED BY <1>1, <1>2, <1>3 DEF Next

\* The type invariant follows from the invariants of path and table.
LEMMA PathTypes == PathInv /\ WedgeInv /\ NotedInv => TypeOK
<1> SUFFICES ASSUME PathInv, WedgeInv, NotedInv PROVE TypeOK OBVIOUS
<1>1. call_count \in Nat /\ call_count \in 0 .. MaxCallCount
  BY WedgeAssumption DEF PathInv, Shape, WedgeShape
<1>2. wedge_calls \in [Slots -> [call_id : 0 .. call_count, sock_id : SockIds \cup {0},
                                 call_type : CallTypes \cup {""}, reply : BOOLEAN,
                                 from : 0 .. call_count]]
  <2>1. ASSUME NEW i \in Slots
        PROVE  wedge_calls[i] \in [call_id : 0 .. call_count, sock_id : SockIds \cup {0},
                                   call_type : CallTypes \cup {""}, reply : BOOLEAN,
                                   from : 0 .. call_count]
    <3>1. PICK e : e = wedge_calls[i] OBVIOUS
    <3>2. e \in Entries /\ e.call_id <= call_count /\ e.from <= call_count
      BY <3>1 DEF PathInv, Shape, WedgeShape, EntryInv
    <3>3. e.call_id \in Nat /\ e.from \in Nat BY <3>2 DEF Entries
    <3>4. e.call_id \in 0 .. call_count /\ e.from \in 0 .. call_count BY <1>1, <3>2, <3>3
    <3> QED BY <3>1, <3>2, <3>4 DEF Entries
  <2> QED BY <2>1 DEF PathInv, Shape, WedgeShape
<1>3. caller \in [Threads -> [index : 0 .. MAX_CALLS, call_id : 0 .. call_count]]
  <2>1. ASSUME NEW t \in Threads
        PROVE  caller[t] \in [index : 0 .. MAX_CALLS, call_id : 0 .. call_count]
    <3>1. caller[t] \in [index : Nat, call_id : Nat] BY DEF WedgeInv, Tables
    <3>2. CASE caller[t] = Idle BY <1>1, <3>2, WedgeAssumption DEF Idle
    <3>3. CASE caller[t] # Idle
      <4>1. caller[t].index \in Slots /\ wedge_calls[caller[t].index].call_id = caller[t].call_id
        BY <3>3 DEF WedgeInv, CallersOwnTheirEntries
      <4>2. caller[t].call_id \in 0 .. call_count BY <1>2, <4>1
      <4>3. caller[t].index \in 0 .. MAX_CALLS BY <4>1, WedgeAssumption DEF Slots
      <4> QED BY <3>1, <4>2, <4>3
    <3> QED BY <3>2, <3>3
  <2> QED BY <2>1 DEF WedgeInv, Tables
<1>4. /\ DOMAIN socket \subseteq Sockets /\ DOMAIN map_ \subseteq DOMAIN socket
      /\ \A k \in DOMAIN collection_ : collection_[k] \in DOMAIN socket
  <2>1. DOMAIN socket \subseteq 1 .. call_count BY DEF PathInv, Shape, SocketShape
  <2>2. 1 .. call_count \subseteq Sockets BY <1>1, WedgeAssumption DEF Sockets, CallIds
  <2> QED BY <2>1, <2>2 DEF PathInv, CollInv, CollSocks
<1>5. \A y \in CallTypes : pool[y].size = Len(content[y]) BY DEF PathInv, PoolInv, PoolOK
<1>6. releasing \in EventObjects \cup {NoEvent}
  <2>1. releasing \in Objects BY DEF PathInv, Shape, ObjectShape
  <2>2. CASE releasing # NoEvent
    <3>1. releasing.type \in CallTypes /\ releasing.n \in 1 .. Len(content[releasing.type])
      BY <2>2 DEF PathInv, PoolInv
    <3>2. releasing.n \in Nat \ {0} BY <3>1
    <3> QED BY <2>1, <3>1, <3>2 DEF Objects, EventObjects
  <2> QED BY <2>2
<1>7. \A i \in DOMAIN udp_queue : udp_queue[i].kind \in Kinds
  <2>1. ASSUME NEW i \in DOMAIN udp_queue PROVE udp_queue[i] \in Events
    <3> HIDE DEF Events
    <3> QED BY DEF PathInv, Shape, QueueShape
  <2> QED BY <2>1 DEF Events
<1>8. wedge_sockets \subseteq SockIds BY DEF PathInv, Shape, WedgeShape
<1>9. \A i \in Slots : wedge_calls[i].call_id # 0 => wedge_calls[i].sock_id \in wedge_sockets
  BY DEF PathInv, EntryInv
<1> QED BY <1>1, <1>2, <1>3, <1>4, <1>5, <1>6, <1>7, <1>8, <1>9 DEF TypeOK, NotedInv

\* Tables, queues and pools hold what their types say, and a call is under way on an
\* open socket only, whatever the daemon does meanwhile.
THEOREM CallPathTypes == ASSUME Apartness PROVE Spec => []TypeOK
<1>1. Init => NotedInv BY DEF Init, TranslatorInit, NotedInv
<1>2. PathInv /\ NotedInv /\ [Next]_vars => NotedInv' BY NextNoted
<1> QED BY <1>1, <1>2, PathAlways, PathTypes, PTL DEF Spec
-------------------------------------------------------------------------------
\* The close event that icontext_close reads after its answer.

\* No more sockets than objects in a new pool.
FewSockets == IsFiniteSet(SockIds) /\ Cardinality(SockIds) <= POOL_INITIAL_SIZE

\* The close event n is out with the call of socket s, which nobody answered.
Lent(n, s) ==
    /\ s \in SockIds /\ event_map_[s].type = "close" /\ event_map_[s].n = n
    /\ s \notin FdsOf(to_daemon) /\ \E c : Waiting(s, "close", c)

\* A close event is free, or about to be, or out with the socket that filled it in.
LentInv ==
    /\ pool["close"].size >= POOL_INITIAL_SIZE
    /\ \A n \in 1 .. pool["close"].size :
          \/ n \in Members(pool["close"].free)
          \/ releasing.type = "close" /\ releasing.n = n
          \/ Lent(n, content["close"][n].fd)

\* A socket whose last event was a close is one its application leaves.
NotedClose == \A s \in SockIds : Opened(s) /\ event_map_[s].type = "close" => Leaving(s)

\* The sockets that can take a close event before the thread of the protocol goes on.
MayClose == {s \in SockIds : Opened(s) /\ event_map_[s].type # "close"}

\* The event n is out, or behind as many others as can be taken.
FarFromFront(n) ==
    \A k \in DOMAIN pool["close"].free :
        pool["close"].free[k] = n => Cardinality(MayClose) < k

\* The event n with content o is the one that close() reads again, for call c.
KeptFor(n, c, o) ==
    /\ n \in 1 .. pool["close"].size
    /\ o.call = c /\ o.sock \in DOMAIN map_ /\ socket[o.sock].id = o.fd
    /\ event_map_[o.fd].type = "close" /\ event_map_[o.fd].n = n
    /\ FarFromFront(n)

KeptInv ==
    closing # NotClosing => KeptFor(closing.n, closing.call, content["close"][closing.n])

\* What is in a sequence is no more than it is long.
LEMMA MembersFinite ==
    ASSUME NEW S, NEW q \in Seq(S)
    PROVE  IsFiniteSet(Members(q)) /\ Cardinality(Members(q)) <= Len(q)
<1>1. Len(q) \in Nat /\ DOMAIN q = 1 .. Len(q) OBVIOUS
<1>2. IsFiniteSet(1 .. Len(q)) /\ Cardinality(1 .. Len(q)) = Len(q)
  BY <1>1, FS_Interval, SMTT(20)
<1>3. q \in Surjection(1 .. Len(q), Members(q)) BY <1>1 DEF Surjection, Members
<1> QED BY <1>2, <1>3, FS_Surjection

\* get(): what was free behind the first object moves up by one, and new objects
\* come after all others.
LEMMA GetOrder ==
    ASSUME NEW p \in Pools, NEW c, PoolOK(p, c), NEW n, n = get(p), NEW q, q = AfterGet(p)
    PROVE  /\ n \in Nat /\ p.size \in Nat /\ q.size \in Nat /\ q.size >= p.size
           /\ \A k \in 1 .. q.size :
                 k \in Members(q.free) \/ k = n \/ (k \in 1 .. p.size /\ k \notin Members(p.free))
           /\ \A j \in DOMAIN q.free :
                 j \in Nat /\ (q.free[j] <= p.size => j + 1 \in DOMAIN p.free /\ p.free[j + 1] = q.free[j])
           /\ n <= p.size => 1 \in DOMAIN p.free /\ p.free[1] = n
<1>1. PICK g : g = grow(p) OBVIOUS
<1>2. /\ g \in Pools /\ g.free # <<>> /\ g.size >= p.size /\ g.size \in Nat
      /\ \A i \in DOMAIN g.free : g.free[i] \in 1 .. g.size
  BY <1>1, GrowFacts
<1>3. g.free \in Seq(Nat) BY <1>2 DEF Pools
<1>4. PICK t : t = Tail(g.free) OBVIOUS
<1>5. /\ t \in Seq(Nat) /\ n = g.free[1] /\ 1 \in DOMAIN g.free
      /\ \A i \in DOMAIN t : i + 1 \in DOMAIN g.free /\ t[i] = g.free[i + 1] /\ i \in Nat
  BY <1>1, <1>2, <1>3, <1>4, TailFacts DEF get
<1>6. q.free = t /\ q.size = g.size
  <2>1. q = [g EXCEPT !.free = t] BY <1>1, <1>4 DEF AfterGet
  <2> QED BY <1>2, <2>1 DEF Pools
<1>7. p.size \in Nat /\ p.free \in Seq(Nat) BY DEF Pools
<1>8. n \in Nat BY <1>2, <1>5
<1>9. \A i \in DOMAIN g.free : i = 1 \/ (i - 1 \in DOMAIN t /\ t[i - 1] = g.free[i])
  <2>1. PICK w : w = g.free OBVIOUS
  <2>2. w \in Seq(Nat) /\ w # <<>> BY <1>2, <1>3, <2>1
  <2>3. \A i \in DOMAIN w : i = 1 \/ (i - 1 \in DOMAIN Tail(w) /\ Tail(w)[i - 1] = w[i])
    BY <2>2
  <2> QED BY <1>4, <2>1, <2>3
<1>10. CASE p.free # <<>>
  <2>1. g = p BY <1>1, <1>10 DEF grow
  <2>2. ASSUME NEW k \in Members(p.free), k # n PROVE k \in Members(t)
    <3>1. PICK i \in DOMAIN p.free : p.free[i] = k BY <2>2 DEF Members
    <3> QED BY <1>5, <1>9, <2>1, <2>2, <3>1 DEF Members
  <2> QED BY <1>5, <1>6, <1>7, <1>8, <2>1, <2>2
<1>11. CASE p.free = <<>>
  <2>1. g = [free |-> [i \in 1 .. p.size |-> p.size + i], size |-> 2 * p.size]
    BY <1>1, <1>11 DEF grow
  <2>2. /\ g.size = 2 * p.size /\ DOMAIN g.free = 1 .. p.size
        /\ \A i \in 1 .. p.size : g.free[i] = p.size + i
    BY <2>1
  <2>3. \A i \in DOMAIN g.free : g.free[i] > p.size BY <1>7, <2>2
  <2>4. \A k : k \notin Members(p.free) BY <1>11 DEF Members
  <2>5. ASSUME NEW k \in 1 .. q.size, ~(k \in 1 .. p.size), k # n PROVE k \in Members(t)
    <3>1. k - p.size \in 1 .. p.size BY <1>6, <1>7, <2>2, <2>5
    <3>2. g.free[k - p.size] = k BY <1>7, <2>2, <3>1
    <3>3. k - p.size # 1 BY <1>5, <2>5, <3>2
    <3> QED BY <1>9, <2>2, <3>1, <3>2, <3>3 DEF Members
  <2> QED BY <1>2, <1>5, <1>6, <1>7, <1>8, <2>3, <2>4, <2>5
<1> QED BY <1>10, <1>11

\* A socket that its application leaves has sent no message.
LEMMA LeavingSendsNothing ==
    ASSUME PathInv, NEW s, Leaving(s) PROVE s \notin FdsOf(to_daemon)
<1> SUFFICES ASSUME s \in FdsOf(to_daemon), s \notin wedge_sockets PROVE FALSE BY DEF Leaving
<1>1. PICK y \in CallTypes : CallOf(s, y) BY PlacesHaveCalls
<1> QED BY <1>1, OneCall DEF PathInv

\* receive() takes an event object for the message m: with a close event, one socket
\* less can take another, and the event of the close that goes on moves up by one.
LEMMA DispatchKept ==
    ASSUME PathInv, FewSockets, LentInv, NotedClose, KeptInv,
           to_daemon # <<>>, NEW m, m = Head(to_daemon), NEW x \in Nat, DispatchCall(m, x),
           to_daemon' = Tail(to_daemon), UNCHANGED <<wedge_calls, wedge_sockets, releasing>>,
           UNCHANGED udpVars,
           \A z \in DOMAIN socket : z \in DOMAIN socket' /\ socket'[z].id = socket[z].id
    PROVE  LentInv' /\ NotedClose' /\ KeptInv'
<1> HIDE DEF Messages, Contents, Pools, Objects
<1>1. UNCHANGED <<map_, closing, network>> BY DEF udpVars
<1>2. /\ to_daemon \in Seq(Messages) /\ ObjectShape /\ FdOnce(to_daemon) /\ EntryInv
  BY DEF PathInv, Shape, QueueShape, MsgInv
<1>3. /\ m \in Messages /\ m \in Members(to_daemon) /\ MessageOK(m)
      /\ FdsOf(to_daemon') \subseteq FdsOf(to_daemon)
      /\ m.fd \in FdsOf(to_daemon) /\ m.fd \notin FdsOf(to_daemon')
  BY <1>2, TailFacts, FdTail DEF PathInv, MsgInv
<1>4. /\ m.type \in CallTypes /\ m.fd \in SockIds /\ m.port \in Nat /\ m.call \in Nat
  BY <1>3, WedgeAssumption DEF Messages, CallIds
<1>5. \A f, z, v : (Waiting(f, z, v) <=> Waiting(f, z, v)') /\ (CallOf(f, z) <=> CallOf(f, z)')
  BY DEF Waiting, CallOf
\* the object
<1>10. PICK y : y = m.type OBVIOUS
<1>11. PICK p : p = pool[y] OBVIOUS
<1>12. PICK c : c = content[y] OBVIOUS
<1>13. PICK n : n = get(p) OBVIOUS
<1>14. PICK q : q = AfterGet(p) OBVIOUS
<1>15. PICK d : d = [sock |-> x, fd |-> m.fd, port |-> m.port, call |-> m.call] OBVIOUS
<1>16. PICK b : b = Filled(c, q.size, n, d) OBVIOUS
<1>17. /\ pool' = [pool EXCEPT ![y] = q]
       /\ content' = [content EXCEPT ![y] = b]
       /\ event_map_' = [event_map_ EXCEPT ![m.fd] = [type |-> y, n |-> n]]
  BY <1>10, <1>11, <1>12, <1>13, <1>14, <1>15, <1>16 DEF DispatchCall
<1>18. y \in CallTypes /\ p \in Pools /\ c \in Seq(Contents) /\ PoolOK(p, c)
  BY <1>2, <1>4, <1>10, <1>11, <1>12 DEF ObjectShape, PathInv, PoolInv
<1>19. d \in Contents /\ d.fd = m.fd BY <1>4, <1>15 DEF Contents
<1>20. /\ n \in 1 .. Len(b) /\ b[n] = d /\ p.size = Len(c)
       /\ \A k \in 1 .. Len(c) : k # n => b[k] = c[k]
       /\ \A k \in 1 .. Len(c) : k \notin Members(p.free) => k # n
  <2>1. p \in Pools /\ c \in Seq(Contents) /\ PoolOK(p, c) /\ d \in Contents BY <1>18, <1>19
  <2>2. p.size = Len(c) BY <1>18 DEF PoolOK
  <2> QED BY <1>13, <1>14, <1>16, <2>1, <2>2, GetFacts, SMTT(60)
<1>21. /\ n \in Nat /\ p.size \in Nat /\ q.size \in Nat /\ q.size >= p.size
       /\ \A k \in 1 .. q.size :
             k \in Members(q.free) \/ k = n \/ (k \in 1 .. p.size /\ k \notin Members(p.free))
       /\ \A j \in DOMAIN q.free :
             j \in Nat /\ (q.free[j] <= p.size => j + 1 \in DOMAIN p.free /\ p.free[j + 1] = q.free[j])
       /\ n <= p.size => 1 \in DOMAIN p.free /\ p.free[1] = n
  BY <1>13, <1>14, <1>18, GetOrder
<1>22. /\ y = "close" => pool'["close"] = q /\ content'["close"] = b
       /\ y = "close" => pool["close"] = p /\ content["close"] = c
       /\ y # "close" => pool'["close"] = pool["close"] /\ content'["close"] = content["close"]
       /\ event_map_'[m.fd] = [type |-> y, n |-> n]
       /\ \A s \in SockIds : s # m.fd => event_map_'[s] = event_map_[s]
  BY <1>2, <1>4, <1>11, <1>12, <1>17, <1>18 DEF ObjectShape, CallTypes
<1>23. event_map_'[m.fd].type = y /\ event_map_'[m.fd].n = n BY <1>22
\* the events that are out
<1>30. ASSUME NEW k, NEW s, Lent(k, s) PROVE Lent(k, s)'
  <2>1. s # m.fd /\ s \in SockIds BY <1>3, <1>30 DEF Lent
  <2> QED BY <1>3, <1>5, <1>22, <1>30, <2>1 DEF Lent
<1>31. ASSUME y = "close" PROVE Lent(n, m.fd)'
  <2>1. Waiting(m.fd, "close", m.call)' BY <1>3, <1>5, <1>10, <1>31 DEF MessageOK
  <2> QED BY <1>3, <1>4, <1>23, <1>31, <2>1 DEF Lent
<1>32. LentInv'
  <2>1. CASE y # "close" BY <1>22, <1>30, <2>1 DEF LentInv
  <2>2. CASE y = "close"
    <3>1. q.size >= POOL_INITIAL_SIZE
      BY <1>21, <1>22, <2>2, PoolAssumption DEF LentInv
    <3>2. ASSUME NEW k \in 1 .. q.size
          PROVE  \/ k \in Members(q.free)
                 \/ releasing'.type = "close" /\ releasing'.n = k
                 \/ Lent(k, b[k].fd)'
      <4>1. CASE k = n
        <5>1. b[k].fd = m.fd BY <1>19, <1>20, <4>1
        <5> QED BY <1>31, <2>2, <4>1, <5>1
      <4>2. CASE k \in 1 .. p.size /\ k \notin Members(p.free)
        <5>1. b[k] = c[k] BY <1>20, <4>2
        <5>2. (releasing.type = "close" /\ releasing.n = k) \/ Lent(k, c[k].fd)
          BY <1>22, <2>2, <4>2 DEF LentInv
        <5> QED BY <1>30, <5>1, <5>2
      <4> QED BY <1>21, <4>1, <4>2
    <3> QED BY <1>22, <2>2, <3>1, <3>2 DEF LentInv
  <2> QED BY <2>1, <2>2
\* the sockets that are closed
<1>40. \A s : Opened(s) <=> Opened(s)'
  <2>1. DOMAIN map_ \subseteq DOMAIN socket BY DEF PathInv, CollInv, CollSocks
  <2> QED BY <1>1, <2>1 DEF Opened
<1>41. NotedClose'
  <2>1. ASSUME NEW s \in SockIds, Opened(s)', event_map_'[s].type = "close" PROVE Leaving(s)'
    <3>1. CASE s = m.fd
      <4>1. CallOf(m.fd, "close") BY <1>3, <1>10, <1>23, <2>1, <3>1, WaitingIsCall DEF MessageOK
      <4> QED BY <1>3, <1>5, <3>1, <4>1 DEF Leaving
    <3>2. CASE s # m.fd
      <4>1. Leaving(s) BY <1>22, <1>40, <2>1, <3>2 DEF NotedClose
      <4> QED BY <1>3, <1>5, <4>1 DEF Leaving
    <3> QED BY <3>1, <3>2
  <2> QED BY <2>1 DEF NotedClose
<1>42. Opened(m.fd) => event_map_[m.fd].type # "close"
  BY <1>3, <1>4, LeavingSendsNothing DEF NotedClose
<1>43. y # "close" => MayClose' = MayClose
  BY <1>22, <1>23, <1>40, <1>42 DEF MayClose
<1>44. y = "close" => m.fd \in MayClose /\ MayClose' = MayClose \ {m.fd}
  <2>1. y = "close" => Opened(m.fd) BY <1>3, <1>10 DEF MessageOK
  <2> QED BY <1>4, <1>22, <1>23, <1>40, <1>42, <2>1 DEF MayClose
<1>45. IsFiniteSet(MayClose) BY FS_Subset DEF MayClose, FewSockets
<1>46. PICK w \in Nat : w = Cardinality(MayClose) BY <1>45, FS_CardinalityType
<1>47. y = "close" => w >= 1 /\ Cardinality(MayClose') = w - 1
  <2>1. y = "close" => w # 0 BY <1>44, <1>45, <1>46, FS_EmptySet
  <2>2. Cardinality(MayClose \ {m.fd}) = IF m.fd \in MayClose THEN w - 1 ELSE w
    BY <1>45, <1>46, FS_RemoveElement
  <2>3. y = "close" => Cardinality(MayClose') = w - 1 BY <1>44, <2>2
  <2>4. w # 0 => w >= 1 BY <1>46
  <2> QED BY <2>1, <2>3, <2>4
\* the close that goes on
<1>50. KeptInv'
  <2> SUFFICES ASSUME closing # NotClosing
               PROVE  KeptFor(closing.n, closing.call, content["close"][closing.n])'
    BY <1>1 DEF KeptInv
  <2>1. PICK k : k = closing.n OBVIOUS
  <2>2. PICK o : o = content["close"][k] OBVIOUS
  <2>3. KeptFor(k, closing.call, o) BY <2>1, <2>2 DEF KeptInv
  <2>4. o.sock \in DOMAIN socket /\ o.fd \in SockIds /\ Opened(o.fd)
    <3>1. o.sock \in DOMAIN socket BY <2>3 DEF KeptFor, PathInv, CollInv, CollSocks
    <3>2. socket[o.sock].id \in SockIds BY <3>1 DEF PathInv, Shape, SocketShape, SocketRecords
    <3> QED BY <2>3, <3>1, <3>2 DEF KeptFor, Opened
  <2>5. o.fd # m.fd
    BY <1>3, <2>3, <2>4, LeavingSendsNothing DEF NotedClose, KeptFor
  <2>6. event_map_'[o.fd].type = "close" /\ event_map_'[o.fd].n = k
    BY <1>22, <2>3, <2>4, <2>5 DEF KeptFor
  <2>7. CASE y # "close"
    <3>1. FarFromFront(k)' BY <1>22, <1>43, <2>3, <2>7 DEF FarFromFront, KeptFor
    <3>2. content'["close"][k] = o BY <1>22, <2>2, <2>7
    <3>3. k \in 1 .. pool'["close"].size BY <1>22, <2>3, <2>7 DEF KeptFor
    <3> QED BY <1>1, <2>1, <2>3, <2>4, <2>6, <3>1, <3>2, <3>3 DEF KeptFor
  <2>8. CASE y = "close"
    <3>0. k \in 1 .. p.size /\ \A j \in DOMAIN p.free : p.free[j] = k => w < j
      BY <1>22, <1>46, <2>3, <2>8 DEF KeptFor, FarFromFront
    <3>1. k # n BY <1>21, <1>46, <1>47, <2>8, <3>0
    <3>2. content'["close"][k] = o BY <1>20, <1>22, <2>2, <2>8, <3>0, <3>1
    <3>3. k \in 1 .. pool'["close"].size BY <1>21, <1>22, <2>8, <3>0
    <3>4. ASSUME NEW j \in DOMAIN q.free, q.free[j] = k PROVE w - 1 < j
      <4>1. j \in Nat /\ j + 1 \in DOMAIN p.free /\ p.free[j + 1] = k BY <1>21, <3>0, <3>4
      <4>2. w < j + 1 BY <3>0, <4>1
      <4> QED BY <1>46, <4>1, <4>2
    <3>5. FarFromFront(k)' BY <1>22, <1>47, <2>8, <3>4 DEF FarFromFront
    <3> QED BY <1>1, <2>1, <2>3, <2>4, <2>6, <3>2, <3>3, <3>5 DEF KeptFor
  <2> QED BY <2>7, <2>8
<1> QED BY <1>32, <1>41, <1>50

\* The event of a close that goes on is released behind so many others that no
\* socket that can still take one comes to it: the events that are not free are out
\* with sockets that can take no other, and there are as many events as sockets.
LEMMA ReleaseKept ==
    ASSUME PathInv, FewSockets, LentInv, NotedClose, KeptInv, ReleaseEvent, UNCHANGED udpVars
    PROVE  LentInv' /\ NotedClose' /\ KeptInv'
<1> HIDE DEF Pools, Objects
<1>1. /\ releasing # NoEvent /\ releasing' = NoEvent
      /\ pool' = [pool EXCEPT ![releasing.type] = release(@, releasing.n)]
      /\ UNCHANGED <<wedge_calls, wedge_sockets, to_daemon, socket, content, event_map_, map_, closing>>
  BY DEF ReleaseEvent, wedgeVars, udpVars
<1>2. PICK y : y = releasing.type OBVIOUS
<1>3. PICK r : r = releasing.n OBVIOUS
<1>4. PICK p : p = pool[y] OBVIOUS
<1>5. /\ y \in CallTypes /\ p \in Pools /\ r \in Nat /\ r \notin Members(p.free)
      /\ pool \in [CallTypes -> Pools]
  BY <1>1, <1>2, <1>3, <1>4 DEF PathInv, PoolInv, Shape, ObjectShape
<1>6. PICK f : f = Append(p.free, r) OBVIOUS
<1>7. PICK q : q = [p EXCEPT !.free = f] OBVIOUS
<1>8. pool' = [pool EXCEPT ![y] = q] BY <1>1, <1>2, <1>3, <1>4, <1>6, <1>7 DEF release
<1>9. p.free \in Seq(Nat) /\ p.size \in Nat BY <1>5 DEF Pools
<1>10. /\ DOMAIN f = DOMAIN p.free \cup {Len(p.free) + 1} /\ f[Len(p.free) + 1] = r
       /\ \A i \in DOMAIN p.free : f[i] = p.free[i]
       /\ Members(f) = Members(p.free) \cup {r}
  BY <1>5, <1>6, <1>9, AppendFacts
<1>11. q.free = f /\ q.size = p.size BY <1>5, <1>7 DEF Pools
<1>12. /\ y = "close" => pool'["close"] = q /\ pool["close"] = p
       /\ y # "close" => pool'["close"] = pool["close"]
  BY <1>4, <1>5, <1>8 DEF CallTypes
<1>13. pool'["close"].size = pool["close"].size BY <1>11, <1>12
<1>14. \A k, s : Lent(k, s) => Lent(k, s)' BY <1>1 DEF Lent, Waiting
<1>15. LentInv'
  <2>1. CASE y # "close" BY <1>1, <1>2, <1>12, <1>14, <2>1 DEF LentInv
  <2>2. CASE y = "close"
    BY <1>1, <1>2, <1>3, <1>10, <1>11, <1>12, <1>14, <2>2 DEF LentInv
  <2> QED BY <2>1, <2>2
<1>16. (\A s : Opened(s) <=> Opened(s)') /\ (\A s : Leaving(s) => Leaving(s)')
  BY <1>1 DEF Opened, Leaving, CallOf
<1>17. NotedClose' BY <1>1, <1>16 DEF NotedClose
<1>18. MayClose' = MayClose BY <1>1, <1>16 DEF MayClose
<1>20. KeptInv'
  <2> SUFFICES ASSUME closing # NotClosing
               PROVE  KeptFor(closing.n, closing.call, content["close"][closing.n])'
    BY <1>1 DEF KeptInv
  <2>1. PICK k : k = closing.n OBVIOUS
  <2>2. PICK o : o = content["close"][k] OBVIOUS
  <2>3. KeptFor(k, closing.call, o) BY <2>1, <2>2 DEF KeptInv
  <2>4. SUFFICES FarFromFront(k)'
    BY <1>1, <1>13, <2>1, <2>2, <2>3 DEF KeptFor
  <2>5. CASE y # "close"
    BY <1>12, <1>18, <2>3, <2>5 DEF KeptFor, FarFromFront
  <2>6. CASE y = "close" /\ r # k
    BY <1>10, <1>11, <1>12, <1>18, <2>3, <2>6 DEF KeptFor, FarFromFront
  <2>7. CASE y = "close" /\ r = k
    <3>1. o.fd \in SockIds
      <4>1. o.sock \in DOMAIN socket BY <2>3 DEF KeptFor, PathInv, CollInv, CollSocks
      <4>2. socket[o.sock].id \in SockIds BY <4>1 DEF PathInv, Shape, SocketShape, SocketRecords
      <4> QED BY <2>3, <4>2 DEF KeptFor
    <3>2. PICK S : S = SockIds \ MayClose OBVIOUS
    <3>3. PICK h : h = [s \in S |-> event_map_[s].n] OBVIOUS
    <3>4. 1 .. p.size \subseteq Members(p.free) \cup {h[s] : s \in S}
      <4>1. ASSUME NEW j \in 1 .. p.size, j \notin Members(p.free) PROVE \E s \in S : h[s] = j
        <5>1. CASE j = r
          <6>1. event_map_[o.fd].type = "close" /\ event_map_[o.fd].n = j
            BY <2>3, <2>7, <5>1 DEF KeptFor
          <6> QED BY <3>1, <3>2, <3>3, <6>1 DEF MayClose
        <5>2. CASE j # r
          <6>1. Lent(j, content["close"][j].fd)
            BY <1>2, <1>3, <1>12, <2>7, <4>1, <5>2 DEF LentInv
          <6> QED BY <3>2, <3>3, <6>1 DEF Lent, MayClose
        <5> QED BY <5>1, <5>2
      <4> QED BY <4>1
    <3>5. PICK T : T = {h[s] : s \in S} OBVIOUS
    <3>6. IsFiniteSet(SockIds) /\ IsFiniteSet(MayClose) /\ IsFiniteSet(S)
      BY <3>2, FS_Subset DEF MayClose, FewSockets
    <3>7. PICK a \in Nat : a = Cardinality(SockIds) BY <3>6, FS_CardinalityType
    <3>8. PICK w \in Nat : w = Cardinality(MayClose) BY <3>6, FS_CardinalityType
    <3>9. Cardinality(S) = a - w
      <4>1. MayClose \cap S = {} /\ MayClose \cup S = SockIds BY <3>2 DEF MayClose
      <4>2. Cardinality(MayClose \cup S)
              = Cardinality(MayClose) + Cardinality(S) - Cardinality(MayClose \cap S)
        BY <3>6, FS_Union
      <4>3. Cardinality(S) \in Nat /\ Cardinality({}) = 0 BY <3>6, FS_CardinalityType, FS_EmptySet
      <4>4. Cardinality(SockIds) = Cardinality(MayClose) + Cardinality(S) - 0
        BY <4>1, <4>2, <4>3, Zenon
      <4>5. PICK v \in Nat : v = Cardinality(S) BY <4>3
      <4>6. a = w + v - 0 BY <3>7, <3>8, <4>4, <4>5, Zenon
      <4> QED BY <4>5, <4>6
    <3>10. h \in Surjection(S, T) BY <3>3, <3>5 DEF Surjection
    <3>11. IsFiniteSet(T) /\ Cardinality(T) <= a - w
      BY <3>6, <3>9, <3>10, FS_Surjection
    <3>12. PICK g : g = Members(p.free) OBVIOUS
    <3>13. IsFiniteSet(g) /\ Cardinality(g) <= Len(p.free) BY <1>9, <3>12, MembersFinite
    <3>14. Cardinality(g \cup T) <= Len(p.free) + a - w /\ IsFiniteSet(g \cup T)
      <4>1. /\ IsFiniteSet(g \cup T)
            /\ Cardinality(g \cup T) = Cardinality(g) + Cardinality(T) - Cardinality(g \cap T)
        BY <3>11, <3>13, FS_Union
      <4>2. IsFiniteSet(g \cap T) BY <3>13, FS_Subset
      <4>3. Cardinality(g) \in Nat /\ Cardinality(T) \in Nat /\ Cardinality(g \cap T) \in Nat
        BY <3>11, <3>13, <4>2, FS_CardinalityType
      <4>4. PICK len \in Nat : len = Len(p.free) BY <1>9
      <4>5. PICK c1 \in Nat, c2 \in Nat, c3 \in Nat :
               c1 = Cardinality(g) /\ c2 = Cardinality(T) /\ c3 = Cardinality(g \cap T)
        BY <4>3, Zenon
      <4>6. Cardinality(g \cup T) = c1 + c2 - c3 /\ c1 <= len /\ c2 <= a - w
        BY <3>11, <3>13, <4>1, <4>4, <4>5, Zenon
      <4>7. c1 + c2 - c3 <= len + a - w BY <4>6
      <4>8. Cardinality(g \cup T) <= Len(p.free) + a - w BY <4>4, <4>6, <4>7, Zenon
      <4> QED BY <4>1, <4>8
    <3>15. p.size <= Cardinality(g \cup T)
      <4>0. PICK u \in Nat : u = p.size BY <1>9
      <4>1. Cardinality(1 .. u) = u BY FS_Interval, SMTT(20)
      <4>2. 1 .. u \in SUBSET (g \cup T) BY <3>4, <3>5, <3>12, <4>0
      <4>3. Cardinality(1 .. u) <= Cardinality(g \cup T) BY <3>14, <4>2, FS_Subset
      <4> QED BY <4>0, <4>1, <4>3
    <3>16. a <= p.size
      <4>1. p.size >= POOL_INITIAL_SIZE BY <1>12, <2>7 DEF LentInv
      <4>2. a <= POOL_INITIAL_SIZE BY <3>7 DEF FewSockets
      <4> QED BY <1>9, <3>7, <4>1, <4>2, PoolAssumption
    <3>17. w < Len(p.free) + 1
      <4>1. Len(p.free) \in Nat /\ Cardinality(g \cup T) \in Nat
        BY <1>9, <3>14, FS_CardinalityType
      <4> QED BY <1>9, <3>7, <3>8, <3>14, <3>15, <3>16, <4>1
    <3>18. \A i \in DOMAIN f : f[i] = k => i = Len(p.free) + 1
      BY <1>5, <1>10, <2>7 DEF Members
    <3> QED BY <1>11, <1>12, <1>18, <2>7, <3>8, <3>17, <3>18 DEF FarFromFront
  <2> QED BY <2>5, <2>6, <2>7
<1> QED BY <1>15, <1>17, <1>20

\* receive(): a new Socket, or one that is there.
LEMMA ReceiveKept ==
    ASSUME PathInv, FewSockets, LentInv, NotedClose, KeptInv, NetlinkThread
    PROVE  LentInv' /\ NotedClose' /\ KeptInv'
<1> HIDE DEF Messages
<1>1. PICK m : m = Head(to_daemon) OBVIOUS
<1>2. /\ to_daemon # <<>> /\ to_daemon' = Tail(to_daemon)
      /\ UNCHANGED <<wedge_calls, wedge_sockets, releasing>> /\ UNCHANGED udpVars
  BY DEF NetlinkThread, Receive
<1>3. m \in Messages /\ m \in Members(to_daemon)
  BY <1>1, <1>2, TailFacts DEF PathInv, Shape, QueueShape
<1>4. MessageOK(m) BY <1>3 DEF PathInv, MsgInv
<1>5. CASE m.type = "socket"
  <2>1. ReceiveSocket(m) BY <1>1, <1>5 DEF NetlinkThread, Receive
  <2>2. m.call \in Nat /\ m.call \notin DOMAIN socket
    BY <1>3, <1>4, WedgeAssumption DEF MessageOK, Messages, CallIds
  <2>3. \A z \in DOMAIN socket : z \in DOMAIN socket' /\ socket'[z].id = socket[z].id
    BY <2>1, <2>2 DEF ReceiveSocket
  <2>4. PICK x \in Nat : x = m.call BY <2>2
  <2>5. DispatchCall(m, x) BY <2>1, <2>4 DEF ReceiveSocket
  <2> QED BY <1>1, <1>2, <2>3, <2>5, DispatchKept
<1>6. CASE m.type # "socket"
  <2>1. ReceiveCall(m) BY <1>1, <1>6 DEF NetlinkThread, Receive
  <2>2. PICK x \in DOMAIN map_ : socket[x].id = m.fd BY <1>4, <1>6 DEF MessageOK, Opened
  <2>3. x \in CollSocks BY <2>2 DEF PathInv, CollInv
  <2>4. get_by_id(collection_, socket, m.fd) = x BY <2>2, <2>3, FoundById DEF PathInv
  <2>5. x \in Nat /\ x # 0 BY <2>3 DEF CollSocks, PathInv, CollInv, Shape, SocketShape
  <2>6. DispatchCall(m, x) /\ UNCHANGED socket BY <2>1, <2>4, <2>5 DEF ReceiveCall
  <2>7. \A z \in DOMAIN socket : z \in DOMAIN socket' /\ socket'[z].id = socket[z].id BY <2>6
  <2> QED BY <1>1, <1>2, <2>5, <2>6, <2>7, DispatchKept
<1> QED BY <1>5, <1>6

\* A step that neither takes nor releases an event, nor touches a Socket.
LEMMA OutsideKept ==
    ASSUME LentInv, NotedClose, KeptInv,
           UNCHANGED <<pool, content, event_map_, socket, map_, closing>>,
           \A n, s : Lent(n, s) => Lent(n, s)' \/ (releasing'.type = "close" /\ releasing'.n = n),
           releasing' = releasing \/ releasing = NoEvent,
           \A s \in SockIds : Opened(s) /\ Leaving(s) => Leaving(s)'
    PROVE  LentInv' /\ NotedClose' /\ KeptInv'
<1>1. \A s : Opened(s) <=> Opened(s)' BY DEF Opened
<1>2. LentInv'
  <2>1. ASSUME NEW n, releasing.type = "close", releasing.n = n PROVE releasing' = releasing
    <3>1. NoEvent.type # "close" BY DEF NoEvent
    <3> QED BY <2>1, <3>1
  <2> QED BY <2>1 DEF LentInv
<1>3. NotedClose' BY <1>1 DEF NotedClose
<1>4. MayClose' = MayClose BY <1>1 DEF MayClose
<1>5. KeptInv' BY <1>4 DEF KeptInv, KeptFor, FarFromFront
<1> QED BY <1>2, <1>3, <1>5

\* A call is not on a socket that is being closed.
LEMMA CallKept ==
    ASSUME Apartness, PathInv, LentInv, NotedClose, KeptInv, Application
    PROVE  LentInv' /\ NotedClose' /\ KeptInv'
<1>0. PICK t \in Threads, s \in SockIds, y \in CallTypes :
         /\ y = "socket" => ReleasedByDaemon(s)
         /\ \E p \in CallPorts(s, y) : Call(t, s, y, p)
         /\ UNCHANGED <<translatorVars, udpVars>>
  BY DEF Application, Apartness
<1>1. PICK p \in CallPorts(s, y) : Call(t, s, y, p) BY <1>0
<1>2. WedgeShape /\ EntryInv /\ ReplyAnswersItsCall /\ UNCHANGED failed
  BY <1>0 DEF PathInv, Shape, translatorVars
<1>3. /\ \A f, z, c : Waiting(f, z, c) => Waiting(f, z, c)'
      /\ \A f, z : CallOf(f, z) => CallOf(f, z)'
      /\ \A z : ~CallOf(s, z)
  BY <1>1, <1>2, CallEntries
<1>4. PICK m : m = [type |-> y, fd |-> s, port |-> p, call |-> call_count + 1] OBVIOUS
<1>5. /\ to_daemon' = Append(to_daemon, m) /\ wedge_sockets' = wedge_sockets \cup {s}
      /\ (y = "socket" <=> s \notin wedge_sockets)
  BY <1>1, <1>4 DEF Call, MayCall
<1>6. FdsOf(to_daemon') \subseteq FdsOf(to_daemon) \cup {s}
  <2>1. PICK Q : Q = Messages \cup {m} OBVIOUS
  <2>2. to_daemon \in Seq(Q) /\ m \in Q
    <3> HIDE DEF Messages
    <3>1. to_daemon \in Seq(Messages) BY DEF PathInv, Shape, QueueShape
    <3> QED BY <2>1, <3>1, SeqWidens
  <2>3. m.fd = s BY <1>4
  <2> QED BY <1>5, <2>2, <2>3, FdAppend
<1>7. UNCHANGED <<pool, content, event_map_, socket, map_, closing, releasing>>
  BY <1>0 DEF translatorVars, udpVars
<1>8. ASSUME NEW n, NEW f, Lent(n, f) PROVE Lent(n, f)'
  <2>1. f # s BY <1>3, <1>8, WaitingIsCall DEF Lent
  <2> QED BY <1>3, <1>6, <1>7, <1>8, <2>1 DEF Lent
<1>9. ASSUME NEW f \in SockIds, Opened(f), Leaving(f) PROVE Leaving(f)'
  <2>1. f # s
    <3>1. CASE CallOf(f, "close") BY <1>3, <3>1
    <3>2. CASE f \notin wedge_sockets
      <4> SUFFICES ASSUME f = s PROVE FALSE OBVIOUS
      <4>1. ReleasedByDaemon(s) BY <1>0, <1>5, <3>2
      <4>2. PICK x \in DOMAIN map_ : socket[x].id = f BY <1>9 DEF Opened
      <4>3. x \in CollSocks BY <4>2 DEF PathInv, CollInv
      <4> QED BY <4>1, <4>2, <4>3 DEF ReleasedByDaemon, KeysWithId, CollSocks
    <3> QED BY <1>9, <3>1, <3>2 DEF Leaving
  <2> QED BY <1>3, <1>5, <1>6, <1>9, <2>1 DEF Leaving
<1> QED BY <1>7, <1>8, <1>9, OutsideKept

\* The wedge's other steps free an answered entry or drop a socket.
LEMMA WedgeKept ==
    ASSUME Apartness, PathInv, WedgeInv, LentInv, NotedClose, KeptInv,
           ApplicationFails \/ \E t \in Threads : ApplicationReturns(t)
    PROVE  LentInv' /\ NotedClose' /\ KeptInv'
<1>1. /\ UNCHANGED <<translatorVars, udpVars, to_daemon>>
      /\ wedge_sockets' \subseteq wedge_sockets
      /\ \A f, z, c : Waiting(f, z, c) => Waiting(f, z, c)'
      /\ \A f : CallOf(f, "close") => CallOf(f, "close")' \/ f \notin wedge_sockets'
  <2>1. CASE ApplicationFails
    <3>1. UNCHANGED <<translatorVars, udpVars, to_daemon, wedge_calls>> /\ wedge_sockets' \subseteq wedge_sockets
      BY <2>1 DEF ApplicationFails, ReleaseFails
    <3> QED BY <3>1 DEF Waiting, CallOf
  <2>2. ASSUME NEW t \in Threads, ApplicationReturns(t)
        PROVE  /\ UNCHANGED <<translatorVars, udpVars, to_daemon>>
               /\ wedge_sockets' \subseteq wedge_sockets
               /\ \A f, z, c : Waiting(f, z, c) => Waiting(f, z, c)'
               /\ \A f : CallOf(f, "close") => CallOf(f, "close")' \/ f \notin wedge_sockets'
    <3>1. Return(t) /\ UNCHANGED <<translatorVars, udpVars, failed, to_daemon>>
      BY <2>2 DEF ApplicationReturns, Return, translatorVars
    <3>2. WedgeShape /\ EntryInv /\ ReplyAnswersItsCall BY DEF PathInv, Shape
    <3> QED BY <3>1, <3>2, ReturnEntries
  <2> QED BY <2>1, <2>2
<1>2. UNCHANGED <<pool, content, event_map_, socket, map_, closing, releasing>>
  BY <1>1 DEF translatorVars, udpVars
<1>3. \A n, s : Lent(n, s) => Lent(n, s)' BY <1>1, <1>2 DEF Lent
<1>4. \A s : Leaving(s) => Leaving(s)' BY <1>1 DEF Leaving
<1> QED BY <1>2, <1>3, <1>4, OutsideKept

\* The answer to a close: its event is released next.
LEMMA LibraryResponseKept ==
    ASSUME PathInv, LentInv, NotedClose, KeptInv, LibraryResponse, UNCHANGED udpVars
    PROVE  LentInv' /\ NotedClose' /\ KeptInv'
<1> HIDE DEF Responses
<1>1. responses \in Seq(Responses) /\ responses # <<>>
  BY DEF PathInv, Shape, QueueShape, LibraryResponse
<1>2. PICK r : r = Head(responses) OBVIOUS
<1>3. r \in Members(responses) BY <1>1, <1>2, TailFacts
<1>4. Ticket(r.fd, r.type, r.call, r.sock) BY <1>3 DEF PathInv, ResInv
<1>5. EventOf(r) = event_map_[r.fd] /\ event_map_[r.fd] # NoEvent
  BY <1>4, EventIsOne DEF EventOf, Ticket
<1>6. WedgeShape /\ EntryInv /\ ReplyAnswersItsCall BY DEF PathInv, Shape
<1>7. /\ wedge_calls_find(r.fd, r.type) # 0
      /\ /\ wedge_calls' = nl_data_ready(r)
         /\ UNCHANGED <<call_count, wedge_sockets, failed>>
         => /\ \A f, z, c : f # r.fd /\ Waiting(f, z, c) => Waiting(f, z, c)'
            /\ \A f, z : CallOf(f, z) => CallOf(f, z)'
  BY <1>4, <1>6, AnswerEntries DEF Ticket
<1>8. /\ failed' = "none" /\ failed = "none" /\ releasing = NoEvent /\ releasing' = event_map_[r.fd]
      /\ wedge_calls' = nl_data_ready(r)
  BY <1>2, <1>5, <1>7 DEF LibraryResponse, ResponseAsserts
<1>9. UNCHANGED <<map_, socket, content, event_map_, to_daemon, closing, wedge_sockets, call_count, pool>>
  BY DEF LibraryResponse, udpVars
<1>10. /\ \A f, z, c : f # r.fd /\ Waiting(f, z, c) => Waiting(f, z, c)'
       /\ \A f, z : CallOf(f, z) => CallOf(f, z)'
  BY <1>7, <1>8, <1>9
<1>11. \A n, s : Lent(n, s) => Lent(n, s)' \/ (releasing'.type = "close" /\ releasing'.n = n)
  BY <1>8, <1>9, <1>10 DEF Lent
<1>12. \A s : Leaving(s) => Leaving(s)' BY <1>9, <1>10 DEF Leaving
<1> QED BY <1>8, <1>9, <1>11, <1>12, OutsideKept

\* A step of the protocol's thread, which takes and releases no event.
LEMMA ThreadKept ==
    ASSUME LentInv, NotedClose, UNCHANGED <<wedgeVars, pool, content, event_map_, releasing>>,
           \A s \in SockIds : Opened(s)' => Opened(s) \/ event_map_[s].type # "close"
    PROVE  LentInv' /\ NotedClose'
<1>1. \A n, s : Lent(n, s) => Lent(n, s)' BY DEF Lent, Waiting, wedgeVars
<1>2. \A s : Leaving(s) => Leaving(s)' BY DEF Leaving, CallOf, wedgeVars
<1> QED BY <1>1, <1>2 DEF LentInv, NotedClose

\* The thread takes an event: the only new Socket is that of socket().
LEMMA ProcessKept ==
    ASSUME PathInv, LentInv, NotedClose,
           \/ ProcessSocket \/ ProcessBind \/ ProcessConnect \/ ProcessSend \/ ProcessReceive
           \/ ProcessPacket \/ ProcessClose \/ ProcessDelete
    PROVE  LentInv' /\ NotedClose'
<1>1. PICK y \in Kinds : Processes(y)
  BY DEF ProcessSocket, ProcessBind, ProcessConnect, ProcessSend, ProcessReceive, ProcessPacket,
     ProcessClose, ProcessDelete, Kinds, LibraryKinds, CallTypes
<1>2. UNCHANGED <<wedgeVars, pool, content, event_map_, releasing>> BY <1>1, TakeAny
<1>3. socket \in [DOMAIN socket -> SocketRecords] /\ DOMAIN map_ \subseteq DOMAIN socket
  BY DEF PathInv, Shape, SocketShape, CollInv, CollSocks
<1>4. DOMAIN socket' = DOMAIN socket /\ \A z \in DOMAIN socket : socket'[z].id = socket[z].id
  <2>1. ASSUME NEW e, NEW a, NEW p, SetLocalAddress(e, a, p)
        PROVE  DOMAIN socket' = DOMAIN socket /\ \A z \in DOMAIN socket : socket'[z].id = socket[z].id
    BY <1>3, <2>1 DEF SetLocalAddress, SocketRecords
  <2>2. UNCHANGED socket \/ \E e, a, p : SetLocalAddress(e, a, p)
    BY DEF ProcessSocket, ProcessBind, ProcessConnect, ProcessSend, ProcessReceive, ProcessPacket,
       ProcessClose, ProcessDelete
  <2> QED BY <2>1, <2>2
<1>5. CASE ProcessSocket
  <2>1. Processes("socket") /\ DOMAIN map_' = DOMAIN map_ \cup {Event.sock}
    BY <1>5 DEF ProcessSocket
  <2>2. Ticket(Event.fd, "socket", Event.call, Event.sock) BY <2>1, TakeEvent DEF CallTypes
  <2>3. ASSUME NEW s \in SockIds, Opened(s)' PROVE Opened(s) \/ event_map_[s].type # "close"
    <3>1. PICK x \in DOMAIN map_' : socket'[x].id = s BY <2>3 DEF Opened
    <3>2. CASE x = Event.sock BY <1>4, <2>2, <3>1, <3>2 DEF Ticket
    <3>3. CASE x \in DOMAIN map_ BY <1>3, <1>4, <3>1, <3>3 DEF Opened
    <3> QED BY <2>1, <3>1, <3>2, <3>3
  <2> QED BY <1>2, <2>3, ThreadKept
<1>6. CASE DOMAIN map_' \subseteq DOMAIN map_
  <2>1. \A s : Opened(s)' => Opened(s) BY <1>3, <1>4, <1>6 DEF Opened
  <2> QED BY <1>2, <2>1, ThreadKept
<1>7. ProcessSocket \/ DOMAIN map_' \subseteq DOMAIN map_
  BY DEF ProcessBind, ProcessConnect, ProcessSend, ProcessReceive, ProcessPacket, ProcessClose,
     ProcessDelete, send_receive_response
<1> QED BY <1>5, <1>6, <1>7

\* The event of a close that begins is out, and it holds the call it is for.
LEMMA ProcessCloseKept == ASSUME PathInv, ProcessClose PROVE KeptInv'
<1> SUFFICES ASSUME closing' # NotClosing
             PROVE  KeptFor(closing.n, closing.call, content["close"][closing.n])'
  BY DEF KeptInv
<1>1. PICK k : k = Head(udp_queue).n OBVIOUS
<1>2. PICK o : o = Event OBVIOUS
<1>3. /\ Processes("close") /\ UNCHANGED <<pool, content, event_map_, socket, map_>>
  BY DEF ProcessClose, Processes
<1>4. closing = NotClosing BY <1>3 DEF Processes
<1>5. /\ o.sock \in DOMAIN map_ /\ closing' = [n |-> k, call |-> o.call]
  BY <1>1, <1>2, <1>4 DEF ProcessClose, Known
<1>6. Ticket(o.fd, "close", o.call, o.sock) /\ EventOK(Head(udp_queue), o)
  BY <1>2, <1>3, TakeEvent DEF CallTypes
<1>7. event_map_[o.fd].n = k BY <1>1, <1>6 DEF EventOK
<1>8. o = content["close"][k] BY <1>1, <1>2, <1>3 DEF Event, Processes
<1>9. k \in 1 .. pool["close"].size
  BY <1>6, <1>7 DEF Ticket, PathInv, PoolInv, PoolOK, CallTypes
<1>10. \A j \in DOMAIN pool["close"].free : pool["close"].free[j] # k
  BY <1>6, <1>7 DEF Ticket, Members
<1>11. KeptFor(k, o.call, o)'
  BY <1>3, <1>5, <1>6, <1>7, <1>9, <1>10 DEF KeptFor, FarFromFront, Ticket
<1> QED BY <1>3, <1>5, <1>8, <1>11

\* One step per action.
LEMMA NextKept ==
    ASSUME Apartness, FewSockets, PathInv, WedgeInv, LentInv, NotedClose, KeptInv, [Next]_vars
    PROVE  LentInv' /\ NotedClose' /\ KeptInv'
<1>1. CASE Application BY <1>1, CallKept
<1>2. CASE ApplicationFails \/ \E t \in Threads : ApplicationReturns(t) BY <1>2, WedgeKept
<1>3. CASE NetlinkThread BY <1>3, ReceiveKept
<1>4. CASE LibraryResponse /\ UNCHANGED udpVars BY <1>4, LibraryResponseKept
<1>5. CASE ReleaseEvent /\ UNCHANGED udpVars BY <1>5, ReleaseKept
<1>6. CASE \/ ProcessSocket \/ ProcessBind \/ ProcessConnect \/ ProcessSend \/ ProcessReceive
           \/ ProcessPacket \/ ProcessDelete
  <2>1. closing' = NotClosing
    BY <1>6 DEF ProcessSocket, ProcessBind, ProcessConnect, ProcessSend, ProcessReceive,
       ProcessPacket, ProcessDelete, Processes
  <2>2. KeptInv' BY <2>1 DEF KeptInv
  <2> QED BY <1>6, <2>2, ProcessKept
<1>7. CASE ProcessClose BY <1>7, ProcessKept, ProcessCloseKept
<1>8. CASE EnqueueDelete
  <2>1. /\ UNCHANGED <<wedgeVars, pool, content, event_map_, releasing>>
        /\ closing' = NotClosing /\ UNCHANGED <<map_, socket>>
    BY <1>8 DEF EnqueueDelete
  <2>2. \A s : Opened(s)' => Opened(s) BY <2>1 DEF Opened
  <2>3. LentInv' /\ NotedClose' BY <2>1, <2>2, ThreadKept
  <2> QED BY <2>1, <2>3 DEF KeptInv
<1>9. CASE (\E d \in network : NetworkReceive(d) \/ Lose(d)) \/ UNCHANGED vars
  <2>1. /\ UNCHANGED <<pool, content, event_map_, socket, map_, closing>>
        /\ UNCHANGED <<releasing, wedge_calls, wedge_sockets, to_daemon>>
    BY <1>9 DEF NetworkReceive, Lose, vars, translatorVars, udpVars, wedgeVars
  <2>2. \A n, s : Lent(n, s) => Lent(n, s)' BY <2>1 DEF Lent, Waiting
  <2>3. \A s : Leaving(s) => Leaving(s)' BY <2>1 DEF Leaving, CallOf
  <2> QED BY <2>1, <2>2, <2>3, OutsideKept
<1> QED BY <1>1, <1>2, <1>3, <1>4, <1>5, <1>6, <1>7, <1>8, <1>9 DEF Next

\* Every event object is free at first.
LEMMA InitKept == Init => LentInv /\ NotedClose /\ KeptInv
<1> SUFFICES ASSUME Init PROVE LentInv /\ NotedClose /\ KeptInv OBVIOUS
<1>1. /\ pool = [y \in CallTypes |-> NewPool(POOL_INITIAL_SIZE)] /\ closing = NotClosing
      /\ map_ = <<>>
  BY DEF Init, TranslatorInit
<1>2. /\ pool["close"].size = POOL_INITIAL_SIZE
      /\ pool["close"].free = [i \in 1 .. POOL_INITIAL_SIZE |-> i]
  BY <1>1 DEF NewPool, CallTypes
<1>3. LentInv BY <1>2, PoolAssumption DEF LentInv, Members
<1>4. NotedClose BY <1>1 DEF NotedClose, Opened
<1> QED BY <1>1, <1>3, <1>4 DEF KeptInv

\* An event object is in use once or free once, and icontext_close may read its event
\* after the answer lets the translator release it: with no more sockets than objects
\* in a new pool, no other close() comes to the object before the read.
THEOREM EventsOwned == ASSUME Apartness, FewSockets PROVE Spec => []EventsOwnedOnce
<1>1. Init => LentInv /\ NotedClose /\ KeptInv BY InitKept
<1>2. /\ PathInv /\ WedgeInv /\ LentInv /\ NotedClose /\ KeptInv /\ [Next]_vars
      => (LentInv /\ NotedClose /\ KeptInv)'
  BY NextKept
<1>3. KeptInv => CloseEventKept BY DEF KeptInv, KeptFor, CloseEventKept
<1>4. ClaimedOnce /\ CloseEventKept => EventsOwnedOnce BY DEF EventsOwnedOnce
<1>5. Spec => [](PathInv /\ WedgeInv) BY PathAlways
<1>6. Spec => []ClaimedOnce BY EventsClaimedOnce
<1> QED BY <1>1, <1>2, <1>3, <1>4, <1>5, <1>6, PTL DEF Spec
================================================================================
