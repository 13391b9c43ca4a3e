---------------------------- MODULE SyscallTable ----------------------------
(***************************************************************************)
(* xnu_syscall/syscall_table.c: which Unix system calls exist, the C       *)
(* function behind each and the number of its arguments; and the packing   *)
(* of class and number into eax (mach/i386/syscall_sw.h).                  *)
(***************************************************************************)
EXTENDS Integers, Words

\* Mutant: the table has room for XNU's numbers of some years ago.
UNIX_MAXSIZE_Short == 512

DARLING_SYSCALLTABLE_UNIX_MAXSIZE == 600

\* A zero-initialised row: metadata->func == NULL.
Unimplemented == [func |-> "NULL", arg_count |-> 0]

unix_syscall_table ==
    [n \in 0 .. DARLING_SYSCALLTABLE_UNIX_MAXSIZE - 1 |->
        CASE n = 0  -> [func |-> "sys_syscall",  arg_count |-> 0]
          [] n = 4  -> [func |-> "sys_write",    arg_count |-> 3]
          [] n = 29 -> [func |-> "sys_recvfrom", arg_count |-> 6]
          [] n = 42 -> [func |-> "sys_pipe",     arg_count |-> 0]
          [] OTHER  -> Unimplemented]

\* The row of a number, if it is in range.
UnixRow(n) == IF n \in 0 .. DARLING_SYSCALLTABLE_UNIX_MAXSIZE - 1
              THEN unix_syscall_table[n] ELSE Unimplemented

SYSCALL_CLASS_MACH == 1
SYSCALL_CLASS_UNIX == 2
SYSCALL_CLASS_MDEP == 3
SYSCALL_CLASS_DIAG == 4

\* 1 << SYSCALL_CLASS_SHIFT
ClassUnit == 256 * 65536

\* An int has room for every system call number.
ASSUME SysnumAssumption == INT_MAX >= ClassUnit - 1

SYSCALL_CONSTRUCT_UNIX(n) == SYSCALL_CLASS_UNIX * ClassUnit + (n % ClassUnit)

\* (SYSCALL_CLASS_MASK & (int)rax) >> SYSCALL_CLASS_SHIFT: the shift of a
\* negative int is arithmetic, so a class of 0x80 or more comes out negative.
class_mask(eax) == eax \div ClassUnit

\* Mutant: the class stays in the number.
get_sysnum_WithClass(eax) == eax

\* SYSCALL_NUMBER_MASK & (int)rax
get_sysnum(eax) == eax % ClassUnit
=============================================================================
