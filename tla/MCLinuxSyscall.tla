--------------------------- MODULE MCLinuxSyscall ---------------------------
(***************************************************************************)
(* An instance of LinuxSyscall for TLC.                                    *)
(***************************************************************************)
EXTENDS LinuxSyscall

\* Seven words of arguments, the return address and the four saved registers of i386.
MCStack == 0 .. 18

\* A count, a descriptor, an errno.
MCResult == {0, 5, -9}
=============================================================================
