-------------------------- MODULE MCSyscallRouting --------------------------
(***************************************************************************)
(* SyscallRouting on the two headers of the x86-64 build; the lists are    *)
(* its constants (linux_numbers.cfg).                                      *)
(***************************************************************************)
EXTENDS SyscallRouting, SyscallNumbers
=============================================================================
