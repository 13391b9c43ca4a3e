----------------------- MODULE SyscallRoutingProofs -----------------------
(***************************************************************************)
(* That a number ends in the function it stands for, whatever numbers the  *)
(* headers of the two systems give to all the others.                      *)
(***************************************************************************)
EXTENDS SyscallRouting, TLAPS

-----------------------------------------------------------------------------
(***************************************************************************)
(* Operators.                                                              *)
(***************************************************************************)
LEMMA NumberType ==
    ASSUME NEW f \in DOMAIN SYS
    PROVE  /\ SYS[f] \in 0 .. 599 /\ SYS[f] \in 0 .. SYS_MAXSYSCALL - 1
           /\ \A g \in DOMAIN SYS : SYS[f] = SYS[g] => f = g
BY XnuAssumption DEF OneToOne

\* The rows are those of the four functions.
LEMMA RowOf ==
    ASSUME NEW f \in DOMAIN SYS
    PROVE  /\ f = "syscall" => UnixRow(SYS[f]).func = "sys_syscall"
           /\ f = "write" => UnixRow(SYS[f]).func = "sys_write"
           /\ f = "recvfrom" => UnixRow(SYS[f]).func = "sys_recvfrom"
           /\ f = "pipe" => UnixRow(SYS[f]).func = "sys_pipe"
           /\ f \notin {"syscall", "write", "recvfrom", "pipe"} => UnixRow(SYS[f]).func = "NULL"
<1>1. SYS[f] \in 0 .. DARLING_SYSCALLTABLE_UNIX_MAXSIZE - 1
    BY NumberType DEF DARLING_SYSCALLTABLE_UNIX_MAXSIZE
<1>2. UnixRow(SYS[f]) =
        CASE SYS[f] = 0  -> [func |-> "sys_syscall",  arg_count |-> 0]
          [] SYS[f] = 4  -> [func |-> "sys_write",    arg_count |-> 3]
          [] SYS[f] = 29 -> [func |-> "sys_recvfrom", arg_count |-> 6]
          [] SYS[f] = 42 -> [func |-> "sys_pipe",     arg_count |-> 0]
          [] OTHER  -> Unimplemented
    BY <1>1 DEF UnixRow, unix_syscall_table
<1>3. /\ SYS["syscall"] = 0 /\ SYS["write"] = 4 /\ SYS["recvfrom"] = 29 /\ SYS["pipe"] = 42
      /\ {"syscall", "write", "recvfrom", "pipe"} \subseteq DOMAIN SYS
    BY XnuAssumption
<1>4. f \notin {"syscall", "write", "recvfrom", "pipe"} => SYS[f] \notin {0, 4, 29, 42}
    BY <1>3, NumberType
<1>5. CASE f = "syscall"
    BY <1>2, <1>3, <1>5
<1>6. CASE f = "write"
    BY <1>2, <1>3, <1>6
<1>7. CASE f = "recvfrom"
    BY <1>2, <1>3, <1>7
<1>8. CASE f = "pipe"
    BY <1>2, <1>3, <1>8
<1>9. CASE f \notin {"syscall", "write", "recvfrom", "pipe"}
    BY <1>2, <1>4, <1>9 DEF Unimplemented
<1> QED
    BY <1>5, <1>6, <1>7, <1>8, <1>9

\* Linux finds the function back by the number.
LEMMA LinuxNameOf ==
    ASSUME NEW f \in DOMAIN NR
    PROVE  LinuxName(NR[f]) = f
<1>1. \E g \in DOMAIN NR : NR[g] = NR[f]
    OBVIOUS
<1>2. LinuxName(NR[f]) \in DOMAIN NR /\ NR[LinuxName(NR[f])] = NR[f]
    BY <1>1 DEF LinuxName
<1> QED
    BY <1>2, LinuxAssumption DEF ListOfLinux, OneToOne

LEMMA ImplementedNames == Implemented = {"write", "recvfrom", "pipe"}
BY DEF Implemented, Namesake

\* What bsd/impl asks Linux for is the function's namesake, with or without socketcall and
\* pipe.
LEMMA AsksForNamesake ==
    ASSUME NEW f \in DOMAIN SYS, f \in Implemented
    PROVE  LET func == UnixRow(SYS[f]).func
           IN  /\ func \in {"sys_write", "sys_recvfrom", "sys_pipe"}
               /\ Issued(func) \in {NR[g] : g \in DOMAIN NR}
               /\ <<f, RunBy(Issued(func))>> \in Namesake
               /\ RunBy(Issued(func)) \in DOMAIN NR \cup {"recvfrom"}
<1> DEFINE func == UnixRow(SYS[f]).func
<1>1. CASE f = "write"
    <2>1. func = "sys_write"
        BY <1>1, RowOf
    <2>2. "write" \in DOMAIN NR /\ Issued(func) = NR["write"]
        BY <2>1, LinuxAssumption DEF ListOfLinux, Issued
    <2>3. RunBy(Issued(func)) = "write"
        BY <2>2, LinuxNameOf DEF RunBy
    <2> QED BY <1>1, <2>1, <2>2, <2>3 DEF Namesake
<1>2. CASE f = "recvfrom"
    <2>1. func = "sys_recvfrom"
        BY <1>2, RowOf
    <2>2. CASE "socketcall" \in DOMAIN NR
        <3>1. Issued(func) = NR["socketcall"]
            BY <2>1, <2>2 DEF Issued, Defined
        <3>2. RunBy(Issued(func)) = "recvfrom"
            BY <2>2, <3>1, LinuxNameOf DEF RunBy, SocketcallName, LINUX_SYS_RECVFROM
        <3> QED BY <1>2, <2>1, <2>2, <3>1, <3>2 DEF Namesake
    <2>3. CASE "socketcall" \notin DOMAIN NR
        <3>1. "recvfrom" \in DOMAIN NR
            BY <2>3, LinuxAssumption DEF ListOfLinux
        <3>2. Issued(func) = NR["recvfrom"]
            BY <2>1, <2>3 DEF Issued, Defined
        <3>3. RunBy(Issued(func)) = "recvfrom"
            BY <3>1, <3>2, LinuxNameOf DEF RunBy
        <3> QED BY <1>2, <2>1, <3>1, <3>2, <3>3 DEF Namesake
    <2> QED BY <2>2, <2>3
<1>3. CASE f = "pipe"
    <2>1. func = "sys_pipe"
        BY <1>3, RowOf
    <2>2. PICK g \in DOMAIN NR : g \in {"pipe", "pipe2"} /\ Issued(func) = NR[g]
        <3>1. CASE "pipe" \in DOMAIN NR
            BY <2>1, <3>1 DEF Issued, Defined
        <3>2. CASE "pipe" \notin DOMAIN NR
            <4>1. "pipe2" \in DOMAIN NR
                BY <3>2, LinuxAssumption DEF ListOfLinux
            <4> QED BY <2>1, <3>2, <4>1 DEF Issued, Defined
        <3> QED BY <3>1, <3>2
    <2>3. RunBy(Issued(func)) = g
        BY <2>2, LinuxNameOf DEF RunBy
    <2> QED BY <1>3, <2>1, <2>2, <2>3 DEF Namesake
<1> QED
    BY <1>1, <1>2, <1>3, ImplementedNames

-----------------------------------------------------------------------------
(***************************************************************************)
(* The steps, station by station.                                          *)
(***************************************************************************)
\* What there is to say of a state in which nothing has been run.
Unanswered == ran = "nothing" /\ result = "none"

\* A Unix call has class 2 and the number of its function, or syscall's number 0 and that
\* number as its argument.
LEMMA TrapStep ==
    ASSUME TypeOK, Routed, Trap
    PROVE  (TypeOK /\ Routed)'
<1>1. /\ call \in Calls /\ call' = call /\ pc' = "bridge"
      /\ number' = number /\ nr' = nr /\ ran' = ran /\ result' = result
    BY DEF Trap, TypeOK
<1>2. call.name \in DOMAIN SYS /\ call.via \in Via
    BY <1>1 DEF Calls
<1>3. /\ SYS[call.name] \in 0 .. 599
      /\ SYS["syscall"] \in 0 .. 599 /\ SYS["syscall"] = 0
    BY <1>2, NumberType, XnuAssumption
<1>4. /\ class_mask(eax') = SYSCALL_CLASS_UNIX <=> Unix(call)
      /\ get_sysnum(eax') = IF call.via = "syscall" THEN 0 ELSE SYS[call.name]
    <2>1. CASE call.via = "stub"
        <3>1. eax' = SYSCALL_CONSTRUCT_UNIX(SYS[call.name])
            BY <2>1 DEF Trap
        <3>2. eax' = SYSCALL_CLASS_UNIX * ClassUnit + SYS[call.name]
            BY <1>3, <3>1 DEF SYSCALL_CONSTRUCT_UNIX, ClassUnit
        <3>3. class_mask(eax') = SYSCALL_CLASS_UNIX /\ get_sysnum(eax') = SYS[call.name]
            BY <1>3, <3>2 DEF class_mask, get_sysnum, ClassUnit, SYSCALL_CLASS_UNIX
        <3> QED BY <1>3, <2>1, <3>3 DEF Unix, SYSCALL_CLASS_UNIX
    <2>2. CASE call.via = "syscall"
        <3>1. eax' = SYSCALL_CONSTRUCT_UNIX(SYS["syscall"])
            BY <2>2 DEF Trap
        <3>2. eax' = SYSCALL_CLASS_UNIX * ClassUnit + SYS["syscall"]
            BY <1>3, <3>1 DEF SYSCALL_CONSTRUCT_UNIX, ClassUnit
        <3>3. class_mask(eax') = SYSCALL_CLASS_UNIX /\ get_sysnum(eax') = SYS["syscall"]
            BY <1>3, <3>2 DEF class_mask, get_sysnum, ClassUnit, SYSCALL_CLASS_UNIX
        <3> QED BY <1>3, <2>2, <3>3 DEF Unix, SYSCALL_CLASS_UNIX
    <2>3. CASE call.via = "mach"
        <3>1. eax' = SYSCALL_CLASS_MACH * ClassUnit + SYS[call.name]
            BY <2>3 DEF Trap
        <3>2. class_mask(eax') = SYSCALL_CLASS_MACH /\ get_sysnum(eax') = SYS[call.name]
            BY <1>3, <3>1 DEF class_mask, get_sysnum, ClassUnit, SYSCALL_CLASS_MACH
        <3> QED BY <1>3, <2>3, <3>2 DEF Unix, SYSCALL_CLASS_UNIX, SYSCALL_CLASS_MACH
    <2>4. CASE call.via = "mdep"
        <3>1. eax' = SYSCALL_CLASS_MDEP * ClassUnit + SYS[call.name]
            BY <2>4 DEF Trap
        <3>2. class_mask(eax') = SYSCALL_CLASS_MDEP /\ get_sysnum(eax') = SYS[call.name]
            BY <1>3, <3>1 DEF class_mask, get_sysnum, ClassUnit, SYSCALL_CLASS_MDEP
        <3> QED BY <1>3, <2>4, <3>2 DEF Unix, SYSCALL_CLASS_UNIX, SYSCALL_CLASS_MDEP
    <2>5. CASE call.via = "diag"
        <3>1. eax' = SYSCALL_CLASS_DIAG * ClassUnit + SYS[call.name]
            BY <2>5 DEF Trap
        <3>2. class_mask(eax') = SYSCALL_CLASS_DIAG /\ get_sysnum(eax') = SYS[call.name]
            BY <1>3, <3>1 DEF class_mask, get_sysnum, ClassUnit, SYSCALL_CLASS_DIAG
        <3> QED BY <1>3, <2>5, <3>2 DEF Unix, SYSCALL_CLASS_UNIX, SYSCALL_CLASS_DIAG
    <2> QED BY <1>2, <2>1, <2>2, <2>3, <2>4, <2>5 DEF Via
<1>5. rdi' = IF call.via = "syscall" THEN SYS[call.name] ELSE 0
    BY DEF Trap
<1>6. AtBridge'
    BY <1>1, <1>4, <1>5 DEF AtBridge, Unix, class_mask, get_sysnum
<1>7. AtDispatcher' /\ AtFunction' /\ AtReturn' /\ Unanswered'
    BY <1>1 DEF AtDispatcher, AtFunction, AtReturn, Routed, Unanswered, Trap
<1>8. TypeOK'
    BY <1>1 DEF TypeOK
<1> QED
    BY <1>6, <1>7, <1>8 DEF Routed, Unanswered

\* Only a Unix call gets to the dispatcher; a direct call has a number other than 0.
LEMMA ClassifyStep ==
    ASSUME TypeOK, Routed, Classify
    PROVE  (TypeOK /\ Routed)'
<1>1. /\ call \in Calls /\ call' = call /\ pc = "bridge" /\ rdi' = rdi
      /\ number' = get_sysnum(eax) /\ nr' = nr /\ ran' = ran /\ Unanswered
    BY DEF Classify, TypeOK, Routed, Unanswered
<1>2. /\ call.name \in DOMAIN SYS /\ call.via \in Via
      /\ call.name = "syscall" => call.via # "stub"
    BY <1>1 DEF Calls
<1>3. /\ SYS[call.name] \in 0 .. SYS_MAXSYSCALL - 1 /\ 0 \in 0 .. SYS_MAXSYSCALL - 1
      /\ SYS[call.name] = 0 => call.name = "syscall"
    BY <1>2, NumberType, XnuAssumption
<1>4. /\ number' = IF call.via = "syscall" THEN 0 ELSE SYS[call.name]
      /\ rdi = IF call.via = "syscall" THEN SYS[call.name] ELSE 0
      /\ class_mask(eax) = SYSCALL_CLASS_UNIX <=> Unix(call)
    BY <1>1 DEF Routed, AtBridge
<1>5. number' \in 0 .. SYS_MAXSYSCALL - 1
    BY <1>3, <1>4
<1>6. CASE class_mask(eax) = SYSCALL_CLASS_UNIX /\ pc' = "unix" /\ UNCHANGED result
    <2>1. Unix(call) /\ IndirectNumber(number', rdi') = SYS[call.name]
        BY <1>1, <1>2, <1>3, <1>4, <1>6 DEF IndirectNumber, Unix
    <2>2. AtDispatcher'
        BY <1>1, <2>1 DEF AtDispatcher, IndirectNumber, Unix
    <2>3. AtBridge' /\ AtFunction' /\ AtReturn' /\ Unanswered'
        BY <1>1, <1>6 DEF AtBridge, AtFunction, AtReturn, Unanswered
    <2>4. TypeOK'
        BY <1>1, <1>5, <1>6 DEF TypeOK
    <2> QED BY <2>2, <2>3, <2>4 DEF Routed, Unanswered
<1>7. CASE class_mask(eax) # SYSCALL_CLASS_UNIX /\ pc' = "done" /\ result' = "ignored"
    <2>1. AtReturn'
        BY <1>1, <1>4, <1>7 DEF AtReturn, Unanswered, Unix
    <2>2. AtBridge' /\ AtDispatcher' /\ AtFunction'
        BY <1>7 DEF AtBridge, AtDispatcher, AtFunction
    <2>3. TypeOK'
        BY <1>1, <1>5, <1>7 DEF TypeOK
    <2> QED BY <1>7, <2>1, <2>2, <2>3 DEF Routed
<1> QED
    BY <1>6, <1>7 DEF Classify

\* The number picks the row of its function, or an empty one.
LEMMA DispatchStep ==
    ASSUME TypeOK, Routed, Dispatch
    PROVE  (TypeOK /\ Routed)'
<1> DEFINE n == IndirectNumber(number, rdi)
<1>1. /\ call \in Calls /\ call' = call /\ pc = "unix" /\ number' = n
      /\ nr' = nr /\ ran' = ran /\ Unanswered /\ Unix(call) /\ n = SYS[call.name]
    BY DEF Dispatch, TypeOK, Routed, Unanswered, AtDispatcher
<1>2. call.name \in DOMAIN SYS
    BY <1>1 DEF Calls
<1>3. n \in 0 .. SYS_MAXSYSCALL - 1
      /\ n \in 0 .. DARLING_SYSCALLTABLE_UNIX_MAXSIZE - 1
    BY <1>1, <1>2, NumberType DEF DARLING_SYSCALLTABLE_UNIX_MAXSIZE
<1>4. Unix(call)' /\ number' = SYS[call'.name]
    BY <1>1 DEF Unix
<1>5. CASE UnixRow(n).func = "NULL" /\ pc' = "done" /\ result' = "ENOSYS"
    <2>1. call.name \notin Implemented
        BY <1>1, <1>2, <1>5, RowOf, ImplementedNames
    <2>2. AtReturn'
        BY <1>1, <1>4, <1>5, <2>1 DEF AtReturn, Unanswered, Implemented, Namesake
    <2>3. AtBridge' /\ AtDispatcher' /\ AtFunction'
        BY <1>5 DEF AtBridge, AtDispatcher, AtFunction
    <2>4. TypeOK'
        BY <1>1, <1>3, <1>5 DEF TypeOK
    <2> QED BY <1>5, <2>2, <2>3, <2>4 DEF Routed
<1>6. CASE UnixRow(n).func # "NULL" /\ pc' = UnixRow(n).func /\ UNCHANGED result
    <2>1. pc' \in {"sys_syscall", "sys_write", "sys_recvfrom", "sys_pipe"}
        BY <1>1, <1>2, <1>6, RowOf
    <2>2. AtFunction'
        <3>1. pc' = UnixRow(number').func
            BY <1>1, <1>6
        <3> QED BY <1>4, <2>1, <3>1 DEF AtFunction, UnixRow
    <2>3. AtBridge' /\ AtDispatcher' /\ AtReturn' /\ Unanswered'
        BY <1>1, <1>6, <2>1 DEF AtBridge, AtDispatcher, AtReturn, Unanswered
    <2>4. pc' \in {unix_syscall_table[m].func : m \in DOMAIN unix_syscall_table}
        BY <1>3, <1>6 DEF UnixRow, unix_syscall_table
    <2>5. TypeOK'
        BY <1>1, <1>3, <1>6, <2>4 DEF TypeOK, unix_syscall_table
    <2> QED BY <2>2, <2>3, <2>5 DEF Routed, Unanswered
<1> QED
    BY <1>5, <1>6 DEF Dispatch

\* Only functions of the table that ask Linux for something get there, and with what Issued
\* says.
LEMMA FunctionStep ==
    ASSUME TypeOK, Routed, CallLinux \/ SysSyscall
    PROVE  (TypeOK /\ Routed)'
<1>1. /\ pc \in {"sys_syscall", "sys_write", "sys_recvfrom", "sys_pipe"}
      /\ call' = call /\ number' = number /\ ran' = ran /\ Unanswered
    BY DEF CallLinux, SysSyscall, Routed, Unanswered
<1>2. Unix(call) /\ number = SYS[call.name] /\ pc = UnixRow(number).func
    BY <1>1 DEF Routed, AtFunction
<1>3. call.name \in DOMAIN SYS /\ call \in Calls /\ number \in 0 .. SYS_MAXSYSCALL - 1
    <2>1. call \in Calls
        BY DEF TypeOK
    <2>2. call.name \in DOMAIN SYS
        BY <2>1 DEF Calls
    <2> QED BY <1>2, <2>1, <2>2, NumberType
<1>4. Unix(call') /\ number' = SYS[call'.name]
    BY <1>1, <1>2
<1>5. CASE CallLinux
    <2>1. /\ pc # "sys_syscall" /\ pc' = "linux" /\ nr' = Issued(pc) /\ result' = result
        BY <1>5 DEF CallLinux
    <2>2. call.name \in Implemented
        BY <1>1, <1>2, <1>3, <2>1, RowOf, ImplementedNames
    <2>3. nr' = Issued(UnixRow(number').func) /\ nr' \in {NR[g] : g \in DOMAIN NR}
        BY <1>1, <1>2, <1>3, <2>1, <2>2, AsksForNamesake
    <2>4. AtFunction'
        BY <1>1, <1>4, <2>1, <2>2, <2>3
           DEF AtFunction, Unix, Implemented, Namesake, UnixRow, Issued
    <2>5. AtBridge' /\ AtDispatcher' /\ AtReturn' /\ Unanswered'
        BY <1>1, <2>1 DEF AtBridge, AtDispatcher, AtReturn, Unanswered
    <2>6. TypeOK'
        BY <1>1, <1>3, <2>1, <2>3 DEF TypeOK, Unanswered
    <2> QED BY <2>4, <2>5, <2>6 DEF Routed, Unanswered
<1>6. CASE SysSyscall
    <2>1. pc = "sys_syscall" /\ pc' = "done" /\ result' = "ENOSYS" /\ nr' = nr
        BY <1>6 DEF SysSyscall
    <2>2. call.name \notin Implemented
        BY <1>2, <1>3, <2>1, RowOf, ImplementedNames
    <2>3. AtReturn'
        BY <1>1, <1>4, <2>1, <2>2 DEF AtReturn, Unix, Implemented, Namesake, Unanswered
    <2>4. AtBridge' /\ AtDispatcher' /\ AtFunction'
        BY <2>1 DEF AtBridge, AtDispatcher, AtFunction
    <2>5. TypeOK'
        BY <1>1, <1>3, <2>1 DEF TypeOK, Unanswered
    <2> QED BY <2>1, <2>3, <2>4, <2>5 DEF Routed
<1> QED
    BY <1>5, <1>6

LEMMA LinuxStep ==
    ASSUME TypeOK, Routed, Linux
    PROVE  (TypeOK /\ Routed)'
<1>1. /\ pc = "linux" /\ pc' = "done" /\ ran' = RunBy(nr) /\ result' = "host"
      /\ call' = call /\ number' = number /\ nr' = nr
    BY DEF Linux
<1>2. /\ Unix(call) /\ number = SYS[call.name] /\ call.name \in Implemented
      /\ nr = Issued(UnixRow(number).func)
    BY <1>1 DEF Routed, AtFunction
<1>3. call.name \in DOMAIN SYS
    BY DEF TypeOK, Calls
<1>4. <<call.name, ran'>> \in Namesake /\ ran' \in DOMAIN NR \cup {"recvfrom"}
    BY <1>1, <1>2, <1>3, AsksForNamesake
<1>5. Unix(call') /\ number' = SYS[call'.name] /\ <<call'.name, ran'>> \in Namesake
    BY <1>1, <1>2, <1>4
<1>6. AtReturn'
    BY <1>1, <1>5 DEF AtReturn, Unix, Namesake
<1>7. AtBridge' /\ AtDispatcher' /\ AtFunction'
    BY <1>1 DEF AtBridge, AtDispatcher, AtFunction
<1>8. TypeOK'
    BY <1>1, <1>4 DEF TypeOK
<1> QED
    BY <1>1, <1>6, <1>7, <1>8 DEF Routed

\* A call starts with nothing of the one before.
LEMMA Fresh ==
    ASSUME call \in Calls, pc = "program", number = NoNumber, nr = NoNumber, Unanswered
    PROVE  TypeOK /\ Routed
BY DEF TypeOK, Routed, AtBridge, AtDispatcher, AtFunction, AtReturn, Unanswered

LEMMA NextCallStep ==
    ASSUME NextCall
    PROVE  (TypeOK /\ Routed)'
BY DEF NextCall, TypeOK, Routed, AtBridge, AtDispatcher, AtFunction, AtReturn, NoNumber

LEMMA RoutedStep == TypeOK /\ Routed /\ [Next]_vars => (TypeOK /\ Routed)'
<1> SUFFICES ASSUME TypeOK, Routed, [Next]_vars
             PROVE  (TypeOK /\ Routed)'
    OBVIOUS
<1>1. CASE UNCHANGED vars
    BY <1>1 DEF vars, TypeOK, Routed, AtBridge, AtDispatcher, AtFunction, AtReturn, Unix, Calls
<1>2. CASE Next
    BY <1>2, TrapStep, ClassifyStep, DispatchStep, FunctionStep, LinuxStep, NextCallStep DEF Next
<1> QED
    BY <1>1, <1>2

LEMMA AlwaysRouted == Spec => [](TypeOK /\ Routed)
<1>1. Init => TypeOK /\ Routed
    BY Fresh DEF Init, Unanswered
<1> QED
    BY <1>1, RoutedStep, PTL DEF Spec

-----------------------------------------------------------------------------
(***************************************************************************)
(* What follows from it.                                                   *)
(***************************************************************************)
\* Numbers on their way are numbers of their header, and the C code after the dispatch is
\* that of a row.
THEOREM NumbersTypeCorrect == Spec => []TypeOK
BY AlwaysRouted, PTL

\* Whatever Linux runs for a call is the function the program called, by whatever way in
\* and whatever the two systems number it: the packing into eax, the shift of an indirect
\* call, the rows of syscall_table.c and the #ifdefs of pipe.c and recvfrom.c never confuse
\* two functions.
THEOREM NamesakeRuns == Spec => []HostRunsNamesake
<1>1. TypeOK /\ Routed => HostRunsNamesake
    BY DEF TypeOK, Routed, AtReturn, HostRunsNamesake
<1> QED
    BY <1>1, AlwaysRouted, PTL

\* A Unix call is either refused with ENOSYS or has been run by Linux, as bsd/impl has code
\* for its function or not, and never both; a call of another class is neither.
THEOREM RefusalIsExact == Spec => []RefusedOrRun
<1>1. ASSUME TypeOK, Routed
      PROVE  RefusedOrRun
    <2>1. \A f, g : <<f, g>> \in Namesake => f \in Implemented /\ g # "nothing"
        BY DEF Namesake, Implemented
    <2> QED BY <1>1, <2>1 DEF Routed, AtReturn, RefusedOrRun, Implemented
<1> QED
    BY <1>1, AlwaysRouted, PTL

\* Every number below SYS_MAXSYSCALL comes to the code behind the dispatcher as it was
\* called, and the table has a row for it.
THEOREM NumbersArrive == Spec => []NumberSurvives
<1>1. ASSUME TypeOK, Routed
      PROVE  NumberSurvives
    <2>1. SUFFICES ASSUME Unix(call),
                          pc \in {"sys_syscall", "sys_write", "sys_recvfrom", "sys_pipe", "done"}
                   PROVE  number = SYS[call.name] /\ number \in DOMAIN unix_syscall_table
        BY DEF NumberSurvives
    <2>2. number = SYS[call.name]
        BY <1>1, <2>1 DEF Routed, AtFunction, AtReturn
    <2>3. number \in 0 .. 599
        BY <1>1, <2>2, NumberType DEF TypeOK, Calls
    <2> QED BY <2>2, <2>3 DEF unix_syscall_table, DARLING_SYSCALLTABLE_UNIX_MAXSIZE
<1> QED
    BY <1>1, AlwaysRouted, PTL
=============================================================================
