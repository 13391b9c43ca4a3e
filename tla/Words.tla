------------------------------- MODULE Words -------------------------------
(***************************************************************************)
(* 64-bit machine words, as the x86-64 register block of syscall_cbridge.h *)
(* and the argument array of syscall_function.h hold them.  A word is the  *)
(* pair of its upper and lower 32 bits, each read as a signed int: that is *)
(* the granularity at which the C code looks into a word, because every    *)
(* cast in it is int -> uint64_t, uint64_t -> int, uint32_t -> uint64_t or *)
(* int[2] <-> uint64_t.                                                    *)
(***************************************************************************)
EXTENDS Integers

CONSTANT INT_MAX   \* 2^31 - 1, from <limits.h>

ASSUME IntMaxAssumption == INT_MAX \in Nat /\ INT_MAX >= 65535

\* The values of a C int.
Int32 == (-INT_MAX - 1) .. INT_MAX
NonNegative == 0 .. INT_MAX

Word == [hi : Int32, lo : Int32]

\* (int)w
AsInt(w) == w.lo

\* (uint64_t)i and (long)i for an int i
SignExtend(i) == [hi |-> IF i < 0 THEN -1 ELSE 0, lo |-> i]

\* (uint64_t)(uint32_t)i, and what a mov to a 32-bit register leaves
ZeroExtend(i) == [hi |-> 0, lo |-> i]

\* *(uint64_t*)&a[0] for int a[2], on a little-endian machine
OfPair(first, second) == [hi |-> second, lo |-> first]

NULL == ZeroExtend(0)
=============================================================================
