---------------------------- MODULE SocketCollection ---------------------------
(***************************************************************************)
(* SocketCollection: the sockets of the daemon by the text of their local   *)
(* and remote address.  UDP leaves the remote address at its default, so a  *)
(* key is the local address ("any" for 0.0.0.0, "host") and the port.  c is *)
(* the collection, from keys to sockets, and s gives each socket its        *)
(* identifier and its local address; NULL is 0.                             *)
(***************************************************************************)
EXTENDS Naturals

KeyOf(s, x) == <<s[x].addr, s[x].port>>

\* Keys are visited in the order of their text.
KeyBefore(k, l) == k = l \/ (k[1] = "any" /\ l[1] = "host") \/ (k[1] = l[1] /\ k[2] < l[2])
FirstKey(K) == CHOOSE k \in K : \A l \in K : KeyBefore(k, l)
FirstSocket(c, K) == IF K = {} THEN 0 ELSE c[FirstKey(K)]

KeysWithId(c, s, id) == {k \in DOMAIN c : s[c[k]].id = id}
get_by_id(c, s, id) == FirstSocket(c, KeysWithId(c, s, id))

\* A packet is for this host: its address matches "host" and "any".
get_by_local_ap(c, s, port) == FirstSocket(c, {k \in DOMAIN c : s[c[k]].port = port})

AlreadyBound(c, s, addr, port) == \E k \in DOMAIN c : s[c[k]].addr = addr /\ s[c[k]].port = port

push(c, s, x) == [k \in DOMAIN c \cup {KeyOf(s, x)} |-> IF k = KeyOf(s, x) THEN x ELSE c[k]]

RemovedByKeyOnly(c, s, x) == DOMAIN c \cap {KeyOf(s, x)}

\* The entry that remove() erases: the one with the key the socket has now,
\* whoever it belongs to, or else the first one of the socket.
RemovedKeys(c, s, x) ==
    IF KeyOf(s, x) \in DOMAIN c THEN {KeyOf(s, x)}
    ELSE LET K == {k \in DOMAIN c : c[k] = x}
         IN IF K = {} THEN {} ELSE {FirstKey(K)}

remove(c, s, x) == [k \in DOMAIN c \ RemovedKeys(c, s, x) |-> c[k]]

\* The address of x has changed.  remove() and push() lock one after the other; what
\* may come between and find nothing is a packet, which is lost, or a second call
\* on x.
update(c, s, x) == push(remove(c, s, x), s, x)
================================================================================
