------------------------------- MODULE SeqSpace -------------------------------
(***************************************************************************)
(* Circular comparison of 32-bit sequence numbers (Math.cc).  The width is  *)
(* a parameter: IntMax is INT_MAX in the code, sequence numbers range over  *)
(* 0 .. 2*IntMax+1, and the u_int32_t sums and differences of the callers   *)
(* are taken modulo that range.                                             *)
(***************************************************************************)
EXTENDS Integers

CONSTANT IntMax

ASSUME IntMaxAssumption == IntMax \in Nat \ {0}

Modulus == 2 * (IntMax + 1)
SeqNum == 0 .. (Modulus - 1)

\* Addition that forgets to wrap around.
PlusUnbounded(a, n) == a + n

\* u_int32_t addition and subtraction.
Plus(a, n) == (a + n) % Modulus
Minus(a, b) == (a - b) % Modulus

\* An ordinary comparison, as if the numbers never wrapped around.
FlatLessThan(lhs, rhs) == lhs < rhs

less_than(lhs, rhs) ==
    \/ lhs < rhs /\ rhs - lhs <= IntMax
    \/ lhs > rhs /\ lhs - rhs > IntMax

less_than_or_equal(lhs, rhs) == less_than(lhs, rhs) \/ lhs = rhs

between_equal(left, number, right) ==
    less_than_or_equal(left, number) /\ less_than_or_equal(number, right)

between_equal_right(left, number, right) ==
    less_than(left, number) /\ less_than_or_equal(number, right)

between_equal_left(left, number, right) ==
    less_than_or_equal(left, number) /\ less_than(number, right)

between(left, number, right) ==
    less_than(left, number) /\ less_than(number, right)
===============================================================================
