--------------------------- MODULE SyscallRouting ---------------------------
(***************************************************************************)
(* Which function a number ends in.  DarlingSyscall names the functions;   *)
(* here a call travels as what it is in the code, a number: the stub's     *)
(* SYS_xxx packed into eax (bsdsyscalls/SYS.h), the index into             *)
(* __unix_syscall_table (syscall.c), the __NR_xxx of bsd/impl, and what    *)
(* Linux runs for that.  The two systems give most numbers different       *)
(* meanings: XNU's 42 is pipe, Linux's is connect.                         *)
(***************************************************************************)
EXTENDS SyscallTable

CONSTANTS
    SYS,            \* SYS_xxx of sys/syscall.h, by name
    SYS_MAXSYSCALL, \* which they are below
    NR              \* __NR_xxx of the list that linux.h selects, by name, which are Linux's

OneToOne(f) == \A x, y \in DOMAIN f : f[x] = f[y] => x = y

\* The numbers of the four rows of the table are the only ones that have to be what they
\* are.  A list of Linux has one function for each that bsd/impl asks for.
ASSUME XnuAssumption ==
    /\ SYS_MAXSYSCALL \in 0 .. 600
    /\ SYS \in [DOMAIN SYS -> 0 .. SYS_MAXSYSCALL - 1] /\ OneToOne(SYS)
    /\ {"syscall", "write", "recvfrom", "pipe"} \subseteq DOMAIN SYS
    /\ SYS["syscall"] = 0 /\ SYS["write"] = 4 /\ SYS["recvfrom"] = 29 /\ SYS["pipe"] = 42

ListOfLinux(n) ==
    /\ n \in [DOMAIN n -> Nat] /\ OneToOne(n)
    /\ "write" \in DOMAIN n
    /\ DOMAIN n \cap {"socketcall", "recvfrom"} # {}
    /\ DOMAIN n \cap {"pipe", "pipe2"} # {}

ASSUME LinuxAssumption == ListOfLinux(NR)

VARIABLES pc, call, eax, rdi, number, nr, ran, result

vars == <<pc, call, eax, rdi, number, nr, ran, result>>

\* A call of a function of sys/syscall.h by its stub or through syscall(), and the
\* same number in another class.
Via == {"stub", "syscall", "mach", "mdep", "diag"}
Calls == {c \in [name : DOMAIN SYS, via : Via] : c.name # "syscall" \/ c.via # "stub"}

Unix(c) == c.via \in {"stub", "syscall"}

NoNumber == -1

Init ==
    /\ pc = "program"
    /\ call \in Calls
    /\ eax = NoNumber /\ rdi = NoNumber /\ number = NoNumber /\ nr = NoNumber
    /\ ran = "nothing"
    /\ result = "none"

\* movl $ SYSCALL_CONSTRUCT_xxx(...), %eax; the first argument is in rdi.
Trap ==
    /\ pc = "program"
    /\ pc' = "bridge"
    /\ eax' = CASE call.via = "stub"    -> SYSCALL_CONSTRUCT_UNIX(SYS[call.name])
                [] call.via = "syscall" -> SYSCALL_CONSTRUCT_UNIX(SYS["syscall"])
                [] call.via = "mach"    -> SYSCALL_CLASS_MACH * ClassUnit + SYS[call.name]
                [] call.via = "mdep"    -> SYSCALL_CLASS_MDEP * ClassUnit + SYS[call.name]
                [] call.via = "diag"    -> SYSCALL_CLASS_DIAG * ClassUnit + SYS[call.name]
    /\ rdi' = IF call.via = "syscall" THEN SYS[call.name] ELSE 0
    /\ UNCHANGED <<call, number, nr, ran, result>>

\* partial_args_init and the switch on the class.
Classify ==
    /\ pc = "bridge"
    /\ number' = get_sysnum(eax)
    /\ \/ /\ class_mask(eax) = SYSCALL_CLASS_UNIX
          /\ pc' = "unix"
          /\ UNCHANGED result
       \/ /\ class_mask(eax) # SYSCALL_CLASS_UNIX
          /\ pc' = "done"
          /\ result' = "ignored"
    /\ UNCHANGED <<call, eax, rdi, nr, ran>>

\* Mutant: the indirect call looks its own number up.
IndirectNumber_Own(n, first) == n

\* sysnum == 0: the number is the first argument.
IndirectNumber(n, first) == IF n = 0 THEN first ELSE n

\* darling_common_syscall_unix
Dispatch ==
    LET n == IndirectNumber(number, rdi)
    IN  /\ pc = "unix"
        /\ number' = n
        /\ \/ /\ UnixRow(n).func = "NULL"
              /\ pc' = "done"
              /\ result' = "ENOSYS"
           \/ /\ UnixRow(n).func # "NULL"
              /\ pc' = UnixRow(n).func
              /\ UNCHANGED result
        /\ UNCHANGED <<call, eax, rdi, nr, ran>>

Defined(name) == name \in DOMAIN NR

\* Mutant: sys_pipe hands on the number it was called by.
Issued_XnuNumber(func) ==
    CASE func = "sys_write"    -> NR["write"]
      [] func = "sys_recvfrom" -> NR["recvfrom"]
      [] func = "sys_pipe"     -> SYS["pipe"]

\* The __NR_xxx each function passes to LINUX_SYSCALL, with its #ifdefs.
Issued(func) ==
    CASE func = "sys_write"    -> NR["write"]
      [] func = "sys_recvfrom" -> NR[IF Defined("socketcall") THEN "socketcall" ELSE "recvfrom"]
      [] func = "sys_pipe"     -> NR[IF Defined("pipe") THEN "pipe" ELSE "pipe2"]

\* sys_write, sys_recvfrom, sys_pipe up to the system call.
CallLinux ==
    /\ pc \in {"sys_write", "sys_recvfrom", "sys_pipe"}
    /\ nr' = Issued(pc)
    /\ pc' = "linux"
    /\ UNCHANGED <<call, eax, rdi, number, ran, result>>

\* sys_syscall: XNU's nosys.
SysSyscall ==
    /\ pc = "sys_syscall"
    /\ pc' = "done"
    /\ result' = "ENOSYS"
    /\ UNCHANGED <<call, eax, rdi, number, nr, ran>>

\* Linux runs what the number is in its table; socketcall is a table of its own, in which
\* sys_recvfrom asks for LINUX_SYS_RECVFROM.
LINUX_SYS_RECVFROM == 12

SocketcallName ==
    <<"socket", "bind", "connect", "listen", "accept", "getsockname", "getpeername",
      "socketpair", "send", "recv", "sendto", "recvfrom", "shutdown", "setsockopt",
      "getsockopt", "sendmsg", "recvmsg", "accept4", "recvmmsg", "sendmmsg">>

LinuxName(n) == CHOOSE f \in DOMAIN NR : NR[f] = n

RunBy(n) == IF LinuxName(n) = "socketcall" THEN SocketcallName[LINUX_SYS_RECVFROM]
                                          ELSE LinuxName(n)

Linux ==
    /\ pc = "linux"
    /\ ran' = RunBy(nr)
    /\ result' = "host"
    /\ pc' = "done"
    /\ UNCHANGED <<call, eax, rdi, number, nr>>

\* The program makes its next call.
NextCall ==
    /\ pc = "done"
    /\ pc' = "program"
    /\ call' \in Calls
    /\ eax' = NoNumber /\ rdi' = NoNumber /\ number' = NoNumber /\ nr' = NoNumber
    /\ ran' = "nothing"
    /\ result' = "none"

Next == Trap \/ Classify \/ Dispatch \/ CallLinux \/ SysSyscall \/ Linux \/ NextCall

Spec == Init /\ [][Next]_vars

-----------------------------------------------------------------------------
(***************************************************************************)
(* Properties.                                                             *)
(***************************************************************************)
\* The functions Linux may run for a function of XNU.
Namesake ==
    {<<"write", "write">>, <<"recvfrom", "recvfrom">>, <<"pipe", "pipe">>, <<"pipe", "pipe2">>}

Implemented == {s[1] : s \in Namesake}

\* Whatever Linux runs is the function of the same name that the program called by its
\* XNU number, directly or through syscall(): none of the four hand-written indices of
\* syscall_table.c, the packing, the shift of an indirect call or the two headers
\* confuses two functions, and no number of another class is taken for a Unix call.
HostRunsNamesake ==
    ran # "nothing" => Unix(call) /\ <<call.name, ran>> \in Namesake

\* Of all functions XNU has, exactly those are refused for which bsd/impl has no code, and
\* they never get to Linux: a program can tell by ENOSYS that nothing has happened.
RefusedOrRun ==
    pc = "done" =>
        /\ result = "host" <=> Unix(call) /\ call.name \in Implemented
        /\ result = "ENOSYS" <=> Unix(call) /\ call.name \notin Implemented
        /\ result = "host" <=> ran # "nothing"

\* Every number of sys/syscall.h gets to the dispatcher as it is and has a row there: the
\* hand-written size of the table is not below XNU's SYS_MAXSYSCALL.
NumberSurvives ==
    Unix(call) /\ pc \in {"sys_syscall", "sys_write", "sys_recvfrom", "sys_pipe", "done"} =>
        /\ number = SYS[call.name]
        /\ number \in DOMAIN unix_syscall_table

\* Numbers are numbers of their table; the C code after the dispatch is that of a row.
TypeOK ==
    /\ pc \in {"program", "bridge", "unix", "linux", "done"}
              \cup {unix_syscall_table[n].func : n \in DOMAIN unix_syscall_table}
    /\ call \in Calls
    /\ number \in 0 .. SYS_MAXSYSCALL - 1 \cup {NoNumber}
    /\ nr \in {NR[f] : f \in DOMAIN NR} \cup {NoNumber}
    /\ ran \in DOMAIN NR \cup {"recvfrom", "nothing"}
    /\ result \in {"none", "ignored", "ENOSYS", "host"}

-----------------------------------------------------------------------------
(***************************************************************************)
(* Inductive invariant: at each station, what stands for the function that *)
(* the program has called.                                                 *)
(***************************************************************************)
AtBridge ==
    pc = "bridge" =>
        /\ class_mask(eax) = SYSCALL_CLASS_UNIX <=> Unix(call)
        /\ get_sysnum(eax) = IF call.via = "syscall" THEN 0 ELSE SYS[call.name]
        /\ rdi = IF call.via = "syscall" THEN SYS[call.name] ELSE 0

\* An indirect call is told from a direct one by the number 0, which is syscall's own.
AtDispatcher == pc = "unix" => Unix(call) /\ IndirectNumber(number, rdi) = SYS[call.name]

AtFunction ==
    pc \in {"sys_syscall", "sys_write", "sys_recvfrom", "sys_pipe", "linux"} =>
        /\ Unix(call)
        /\ number = SYS[call.name]
        /\ IF pc = "linux" THEN call.name \in Implemented /\ nr = Issued(UnixRow(number).func)
           ELSE pc = UnixRow(number).func

\* Three ways a call ends.
AtReturn ==
    pc = "done" =>
        \/ ~Unix(call) /\ result = "ignored" /\ ran = "nothing"
        \/ /\ Unix(call) /\ number = SYS[call.name]
           /\ call.name \notin Implemented /\ result = "ENOSYS" /\ ran = "nothing"
        \/ /\ Unix(call) /\ number = SYS[call.name]
           /\ <<call.name, ran>> \in Namesake /\ result = "host"

Routed ==
    /\ AtBridge /\ AtDispatcher /\ AtFunction /\ AtReturn
    /\ pc # "done" => ran = "nothing" /\ result = "none"
=============================================================================
