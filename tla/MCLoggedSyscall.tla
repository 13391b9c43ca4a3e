-------------------------- MODULE MCLoggedSyscall --------------------------
(***************************************************************************)
(* LoggedSyscall for TLC, with the calls and numbers of MCDarlingSyscall.  *)
(***************************************************************************)
EXTENDS MCDarlingSyscall, LoggedSyscall
=============================================================================
