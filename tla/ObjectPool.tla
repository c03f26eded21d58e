------------------------------- MODULE ObjectPool ------------------------------
(***************************************************************************)
(* ObjectPool: a list of free objects, taken from the front and given back  *)
(* at the end, that doubles when it is empty.  Objects are numbered in the  *)
(* order of their creation.                                                 *)
(***************************************************************************)
EXTENDS Naturals, Sequences

NewPool(n) == [free |-> [i \in 1 .. n |-> i], size |-> n]

grow(pool) ==
    IF pool.free = <<>>
    THEN [free |-> [i \in 1 .. pool.size |-> pool.size + i], size |-> 2 * pool.size]
    ELSE pool

get(pool) == Head(grow(pool).free)
AfterGet(pool) == [grow(pool) EXCEPT !.free = Tail(@)]

ReleaseToFront(pool, n) == [pool EXCEPT !.free = <<n>> \o @]
release(pool, n) == [pool EXCEPT !.free = Append(@, n)]
================================================================================
