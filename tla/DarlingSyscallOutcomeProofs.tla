-------------------- MODULE DarlingSyscallOutcomeProofs --------------------
(***************************************************************************)
(* What comes back to the program: the outcome of a call is the host's     *)
(* answer to it, errno is set by the thread's own failures, and the sender *)
(* a recvfrom reports is what the host kernel wrote, converted in place    *)
(* and left alone from there to the return.  From the outcome follows that *)
(* DarlingSyscall implements SyscallContract.                              *)
(***************************************************************************)
EXTENDS DarlingSyscallProofs

-----------------------------------------------------------------------------
(***************************************************************************)
(* What a step leaves alone, beyond Seen.                                  *)
(***************************************************************************)
Kept(a) == <<carry[a], answer[a], user[a]>>

LEMMA BeginKeepsRest ==
    ASSUME TypeOK, NEW t \in Thread, NEW c \in Call, BeginCall(t, c),
           NEW b \in Act, b # <<t, depth[t] + 1>>
    PROVE  Kept(b)' = Kept(b)
BY DEF TypeOK, BeginCall, Kept

LEMMA SetCerrorKeepsRest ==
    ASSUME NEW t \in Thread, SetCerror(t), NEW b \in Act
    PROVE  Kept(b)' = Kept(b)
BY DEF SetCerror, Kept

LEMMA StepKeepsRest ==
    ASSUME TypeOK, NEW a \in Act, Emulate(a) \/ HostAnswer(a) \/ Return(a),
           NEW b \in Act, b # a
    PROVE  Kept(b)' = Kept(b)
<1>1. CASE HandleSyscall(a)
    BY <1>1 DEF TypeOK, HandleSyscall, Kept
<1>2. CASE DispatchUnix(a)
    BY <1>2 DEF TypeOK, DispatchUnix, Kept
<1>3. CASE SetReturnValues(a)
    BY <1>3 DEF TypeOK, SetReturnValues, Kept
<1>4. CASE StubReturn(a)
    BY <1>4 DEF TypeOK, StubReturn, Kept
<1>5. ASSUME NEW type, NEW nr, NEW args, CallHost(a, type, nr, args), UNCHANGED user
      PROVE  Kept(b)' = Kept(b)
    BY <1>5 DEF TypeOK, CallHost, Kept
<1>6. ASSUME NEW e, NEW r0, NEW r1, LeaveImpl(a, e, r0, r1), user'[b] = user[b]
      PROVE  Kept(b)' = Kept(b)
    BY <1>6 DEF TypeOK, LeaveImpl, Kept
<1>7. ASSUME NEW k, NEW u, Answered(a, k, u)
      PROVE  Kept(b)' = Kept(b)
    BY <1>7 DEF TypeOK, Answered, Kept
<1>8. CASE Return(a)
    BY <1>8 DEF TypeOK, Return, Kept
<1>9. CASE SysWrite(a) \/ SysRecvfrom(a) \/ SysPipe(a)
    <2>1. \E type, nr, args : CallHost(a, type, nr, args)
        BY <1>9 DEF SysWrite, SysRecvfrom, SysPipe
    <2> QED BY <1>5, <2>1 DEF CallHost
<1>10. CASE HostFailed(a)
    BY <1>6, <1>10 DEF HostFailed
<1>11. CASE SysSyscall(a)
    BY <1>6, <1>11 DEF SysSyscall
<1>12. CASE FinishWrite(a)
    BY <1>6, <1>10, <1>12 DEF FinishWrite
<1>13. CASE FinishPipe(a)
    BY <1>6, <1>10, <1>13 DEF FinishPipe
<1>14. CASE FinishRecvfrom(a)
    <2>1. user'[b] = user[b]
        BY <1>14 DEF FinishRecvfrom, HostFailed, TypeOK
    <2>2. \E e, r0, r1 : LeaveImpl(a, e, r0, r1)
        BY <1>14 DEF FinishRecvfrom, HostFailed
    <2> QED BY <1>6, <2>1, <2>2
<1>15. CASE HostAnswer(a)
    BY <1>7, <1>15 DEF HostAnswer, HostRefuses, HostTransfers, HostReceives, HostMakesPipe
<1> QED
    BY <1>1, <1>2, <1>3, <1>4, <1>8, <1>9, <1>11, <1>12, <1>13, <1>14, <1>15 DEF Emulate

-----------------------------------------------------------------------------
(***************************************************************************)
(* Errors, and what the dispatcher refuses.                                *)
(***************************************************************************)
\* Whether errno_linux_to_bsd has a row for an errno or not, 0 stays 0.
LEMMA NoErrorStays == ~Swallowed(0)
<1>1. CASE Host = "linux"
    <2>1. 0 \in 0 .. length_of_translation_array - 1 /\ 0 < length_of_translation_array
        BY DEF length_of_translation_array
    <2>2. linux_to_darwin[0] = Row(0)
        BY <2>1, TableRow
    <2>3. Row(0) = 0
        <3>1. 0 \notin Translated
            BY DEF Translated
        <3>2. 95 \in Translated
            BY DEF Translated
        <3>3. HostErrno[95] \in ErrnoValue
            BY <3>2, HostErrnoAssumption
        <3>4. HostErrno[95] # 0
            BY <3>3, IntSets
        <3> QED BY <3>1, <3>4 DEF Row
    <2>4. Abs(-0) = 0 /\ -0 = 0
        <3>1. -0 \in Int /\ ~(-0 < 0) /\ ~(0 < -0)
            OBVIOUS
        <3>2. \A i \in Int : ~(i < 0) /\ ~(0 < i) => i = 0
            OBVIOUS
        <3>3. -0 = 0
            BY <3>1, <3>2
        <3> QED BY <3>1, <3>3, Zenon DEF Abs
    <2>5. errno_linux_to_bsd(-0) = 0
        <3>1. linux_to_darwin[Abs(-0)] = 0
            BY <2>2, <2>3, <2>4, Zenon
        <3>2. errno_linux_to_bsd(-0) = -0
            BY <3>1, Zenon DEF errno_linux_to_bsd
        <3> QED BY <2>4, <3>2, Zenon
    <2>6. HostError(0) = 0
        BY <1>1, <2>5 DEF HostError
    <2> QED BY <2>6 DEF Swallowed, ERESTART, EJUSTRETURN
<1>2. CASE Host # "linux"
    BY <1>2 DEF Swallowed
<1> QED
    BY <1>1, <1>2

\* The bridge takes every errno for an error, except the swallowed ones.
LEMMA ErrorReported ==
    ASSUME NEW err \in ErrnoValue
    PROVE  IsError(HostError(err)) <=> ~Swallowed(err)
<1>1. HostError(err) # 0
    BY HostErrorType
<1>2. CASE Host = "linux"
    BY <1>1, <1>2 DEF IsError, Swallowed
<1>3. CASE Host # "linux"
    <2>1. HostError(err) = err
        BY <1>3 DEF HostError
    <2>2. err \in Int /\ err > 0
        BY Limits DEF ErrnoValue
    <2>3. \A i \in Int : i > 0 => i # 0 /\ i # -1 /\ i # -2
        OBVIOUS
    <2> QED BY <1>3, <2>1, <2>2, <2>3 DEF IsError, Swallowed, ERESTART, EJUSTRETURN
<1> QED
    BY <1>2, <1>3

LEMMA EnosysPositive == Abs(ENOSYS) = ENOSYS
<1>1. ENOSYS \in Int /\ ENOSYS > 0
    BY EnosysType, Limits DEF ErrnoValue
<1> QED
    BY <1>1 DEF Abs

\* A number without a function, and the indirect call of an indirect call.
LEMMA RefusedRow ==
    ASSUME NEW n, UnixRow(n).func \in {"NULL", "sys_syscall"}
    PROVE  n \notin {4, 29, 42}
<1>1. ASSUME n \in {4, 29, 42}
      PROVE  UnixRow(n).func \in {"sys_write", "sys_recvfrom", "sys_pipe"}
    <2>1. n \in 0 .. DARLING_SYSCALLTABLE_UNIX_MAXSIZE - 1
        BY <1>1 DEF DARLING_SYSCALLTABLE_UNIX_MAXSIZE
    <2>2. UnixRow(n) = unix_syscall_table[n]
        BY <2>1 DEF UnixRow
    <2>3. CASE n = 4
        BY <2>1, <2>2, <2>3 DEF unix_syscall_table
    <2>4. CASE n = 29
        BY <2>1, <2>2, <2>4 DEF unix_syscall_table
    <2>5. CASE n = 42
        BY <2>1, <2>2, <2>5 DEF unix_syscall_table
    <2> QED BY <1>1, <2>3, <2>4, <2>5
<1> QED
    BY <1>1

LEMMA DispatchRefuses ==
    ASSUME TypeOK, NEW a \in Act, OnTheWay(a), pc[a] = "unix",
           UnixRow(UnixNumber(builder[Frame(a)])).func \in {"NULL", "sys_syscall"}
    PROVE  Meant(request[a]).func = "refused"
<1> USE DEF Frame
<1> DEFINE c == request[a]
           n == UnixNumber(builder[a])
<1>1. /\ c.eax \in Int32 /\ c.arg \in Seq(Word)
    BY DEF TypeOK, CallRecord
<1>2. /\ Meant(c).func # "ignored"
      /\ builder[a] = [sysnum |-> get_sysnum(c.eax), arg |-> EntryArray(c.arg),
                       indirect |-> FALSE, arg_count |-> 0]
    BY <1>1, EntryBuilder DEF OnTheWay
<1>3. n = IF get_sysnum(c.eax) = 0 THEN AsInt(CArg(c.arg, 1)) ELSE get_sysnum(c.eax)
    BY <1>2 DEF UnixNumber, EntryArray
<1>4. n \notin {4, 29, 42}
    BY RefusedRow
<1> QED
    BY <1>2, <1>3, <1>4 DEF Meant

\* What a call may mean.
LEMMA MeantFunc ==
    ASSUME NEW c
    PROVE  Meant(c).func \in {"ignored", "refused", "write", "recvfrom", "pipe"}
BY DEF Meant

\* Only a call of pipe has the tail of ___pipe.S.
LEMMA TailMeansPipe ==
    ASSUME NEW c \in Call, c.tail = "pipe"
    PROVE  Meant(c).func = "pipe"
BY TailAssumption DEF Meant

\* The registers and CF that set_return_values leaves.
LEMMA ReturnedRegs ==
    ASSUME NEW ra, NEW r \in RegBlock, NEW e
    PROVE  /\ ra.syscall_type # "UNIX" =>
                  ReturnRegs(ra, r, e) = r /\ ~ReturnCarry(ra, e)
           /\ ra.syscall_type = "UNIX" /\ IsError(e) =>
                  ReturnRegs(ra, r, e).rax = SignExtend(e) /\ ReturnCarry(ra, e)
           /\ ra.syscall_type = "UNIX" /\ ~IsError(e) => ~ReturnCarry(ra, e)
           /\ ra.syscall_type = "UNIX" /\ ~IsError(e) /\ ra.result_type = "INT_T" =>
                  /\ AsInt(ReturnRegs(ra, r, e).rax) = ra.result0
                  /\ AsInt(ReturnRegs(ra, r, e).rdx) = ra.result1
           /\ ra.syscall_type = "UNIX" /\ ~IsError(e) /\ ra.result_type = "SSIZE_T" =>
                  ReturnRegs(ra, r, e).rax = OfPair(ra.result0, ra.result1)
<1>1. CASE ra.syscall_type # "UNIX"
    BY <1>1 DEF ReturnRegs, ReturnCarry
<1>2. CASE ra.syscall_type = "UNIX" /\ IsError(e)
    BY <1>2 DEF ReturnRegs, ReturnCarry, RegBlock
<1>3. CASE ra.syscall_type = "UNIX" /\ ~IsError(e)
    <2>1. ~ReturnCarry(ra, e)
        BY <1>3 DEF ReturnCarry
    <2>2. CASE ra.result_type = "INT_T"
        <3>1. ReturnRegs(ra, r, e) =
                 [r EXCEPT !.rax = SignExtend(ra.result0), !.rdx = SignExtend(ra.result1)]
            BY <1>3, <2>2 DEF ReturnRegs, Wide
        <3>2. /\ ReturnRegs(ra, r, e).rax = SignExtend(ra.result0)
              /\ ReturnRegs(ra, r, e).rdx = SignExtend(ra.result1)
            BY <3>1 DEF RegBlock
        <3> QED BY <1>3, <2>1, <2>2, <3>2 DEF AsInt, SignExtend
    <2>3. CASE ra.result_type = "SSIZE_T"
        <3>1. ReturnRegs(ra, r, e) =
                 [r EXCEPT !.rax = OfPair(ra.result0, ra.result1), !.rdx = NULL]
            BY <1>3, <2>3 DEF ReturnRegs, Wide
        <3> QED BY <1>3, <2>1, <2>3, <3>1 DEF RegBlock
    <2> QED BY <1>3, <2>1, <2>2, <2>3
<1> QED
    BY <1>1, <1>2, <1>3

\* A length that is not negative does not become so.
LEMMA FixedLength ==
    ASSUME NEW sa \in Sockaddr, NEW len \in Int, len >= 0
    PROVE  ~(sockaddr_fixup_from_linux(sa, len).ret < 0)
<1>1. sa.path \in Nat
    BY DEF Sockaddr
<1>2. ~(vchroot_unexpand < 0)
    BY DEF vchroot_unexpand
<1>3. ASSUME NEW p \in Nat PROVE ~(HeaderSize + Clipped(p) + 1 < 0)
    BY DEF HeaderSize, Clipped, PathSize
<1> QED
    BY <1>1, <1>2, <1>3 DEF sockaddr_fixup_from_linux

-----------------------------------------------------------------------------
(***************************************************************************)
(* Each step keeps its activation faithful.                                *)
(***************************************************************************)
LEMMA HandleFaithful ==
    ASSUME TypeOK, NEW a \in Act, OnTrack(a), Faithful(a), HandleSyscall(a)
    PROVE  Faithful(a)'
<1> USE DEF Frame
<1> DEFINE c == request[a]
<1>1. /\ regs[a] = EntryRegs(c.eax, c.arg)
      /\ NotAsked(a)
      /\ c.tail = "pipe" => Meant(c).func = "pipe"
    BY DEF HandleSyscall, OnTrack, OnTheWay, Faithful, Outward
<1>2. regs[a].rax = ZeroExtend(c.eax) /\ AsInt(regs[a].rax) = c.eax
    BY <1>1 DEF EntryRegs, ZeroExtend, AsInt
<1>3. /\ UNCHANGED <<request, regs, hostcall, answer, user>>
      /\ ~carry'[a]
      /\ retargs'[a].syscall_type = "INVALID"
    BY DEF HandleSyscall, TypeOK, ClearCarry, JunkRetargs
<1>4. CASE class_mask(c.eax) = SYSCALL_CLASS_UNIX
    <2>1. pc'[a] = "unix"
        BY <1>2, <1>4 DEF HandleSyscall, TypeOK
    <2> QED
        BY <1>1, <1>3, <2>1
        DEF Faithful, Outward, Decided, Resuming, Finished, NotAsked, InImpl, AtHost
<1>5. CASE class_mask(c.eax) # SYSCALL_CLASS_UNIX
    <2>1. pc'[a] = "set_return"
        BY <1>2, <1>5 DEF HandleSyscall, TypeOK
    <2>2. Meant(c).func = "ignored"
        BY <1>5 DEF Meant
    <2> QED
        BY <1>1, <1>2, <1>3, <2>1, <2>2
        DEF Faithful, Outward, Decided, Resuming, Finished, NotAsked, Asked, Served, InImpl, AtHost
<1> QED
    BY <1>4, <1>5

LEMMA DispatchFaithful ==
    ASSUME TypeOK, NEW a \in Act, OnTrack(a), Faithful(a), DispatchUnix(a)
    PROVE  Faithful(a)'
<1> USE DEF Frame
<1> DEFINE c == request[a]
           row == UnixRow(UnixNumber(builder[a]))
<1>1. /\ NotAsked(a) /\ ~carry[a] /\ OnTheWay(a) /\ pc[a] = "unix"
      /\ c.tail = "pipe" => Meant(c).func = "pipe"
    BY DEF DispatchUnix, OnTrack, Faithful, Outward, InImpl, AtHost
<1>2. retargs'[a].syscall_type = "UNIX"
    BY DEF DispatchUnix, TypeOK, Retargs
<1>3. UNCHANGED <<request, regs, carry, hostcall, answer, user>>
    BY DEF DispatchUnix
<1>4. row.func \in {"NULL", "sys_syscall"} => Meant(c).func = "refused"
    BY <1>1, DispatchRefuses
<1>5. row.func \in {"NULL"} \cup InImpl
    BY UnixRowType DEF InImpl
<1>6. \/ row.func = "NULL" /\ pc'[a] = "set_return" /\ error'[a] = ENOSYS
      \/ row.func # "NULL" /\ pc'[a] \in {"trap", row.func}
    BY DEF DispatchUnix, TypeOK
<1> HIDE DEF row
<1>7. CASE row.func = "NULL"
    <2>1. pc'[a] = "set_return" /\ error'[a] = ENOSYS /\ Meant(c).func = "refused"
        BY <1>4, <1>6, <1>7
    <2> QED
        BY <1>1, <1>2, <1>3, <2>1
        DEF Faithful, Outward, Decided, Resuming, Finished, NotAsked, Asked, Served, InImpl, AtHost
<1>8. CASE row.func # "NULL"
    <2>1. /\ pc'[a] \in {"trap"} \cup InImpl
          /\ pc'[a] = "sys_syscall" => Meant(c).func = "refused"
        BY <1>4, <1>5, <1>6, <1>8 DEF InImpl
    <2> QED
        BY <1>1, <1>2, <1>3, <2>1
        DEF Faithful, Outward, Decided, Resuming, Finished, NotAsked, InImpl, AtHost
<1> QED
    BY <1>7, <1>8

LEMMA AskFaithful ==
    ASSUME TypeOK, NEW a \in Act, OnTrack(a), Faithful(a), SysWrite(a) \/ SysRecvfrom(a) \/ SysPipe(a)
    PROVE  Faithful(a)'
<1> USE DEF Frame
<1> DEFINE func == Meant(request[a]).func
<1>1. PICK args : CallHost(a, ResultType(func), func, args) /\ func \in Served
    BY DEF SysWrite, SysRecvfrom, SysPipe, OnTrack, OnTheWay, ResultType, Served
<1>2. /\ pc[a] \in InImpl
      /\ request[a].tail = "pipe" => func = "pipe"
      /\ NotAsked(a) /\ ~carry[a] /\ retargs[a].syscall_type = "UNIX"
    BY DEF SysWrite, SysRecvfrom, SysPipe, Faithful, Outward, InImpl
<1>3. retargs[a] \in Retargs
    BY DEF TypeOK
<1>4. /\ UNCHANGED <<request, carry, answer>>
      /\ pc'[a] = "host"
      /\ hostcall'[a].nr = func
      /\ retargs'[a].syscall_type = "UNIX"
      /\ retargs'[a].result_type = ResultType(func)
    BY <1>1, <1>2, <1>3 DEF CallHost, TypeOK, Retargs
<1> QED
    BY <1>1, <1>2, <1>4
    DEF Faithful, Outward, Decided, Resuming, Finished, NotAsked, InImpl, AtHost

LEMMA AnswerFaithful ==
    ASSUME TypeOK, NEW a \in Act, Faithful(a), HostAnswer(a)
    PROVE  Faithful(a)'
<1>1. PICK k, u : Answered(a, k, u)
    BY DEF HostAnswer, HostRefuses, HostTransfers, HostReceives, HostMakesPipe
<1>2. /\ UNCHANGED <<request, carry, hostcall, retargs>>
      /\ pc[a] = "host" /\ pc'[a] = "answered"
    BY <1>1 DEF Answered, TypeOK
<1>3. hostcall[a].nr = "recvfrom" /\ answer'[a].err = 0 /\ Converts(a) => user'[a].socklen >= 0
    <2>1. CASE HostRefuses(a)
        <3>1. PICK e \in Errno : Answered(a, Refusal(e), user[a])
            BY <2>1 DEF HostRefuses
        <3>2. answer'[a].err = e /\ e # 0
            BY <3>1, ConstantsAssumption, IntSets DEF Answered, Refusal, TypeOK
        <3> QED BY <3>2
    <2>2. CASE HostTransfers(a)
        BY <2>2 DEF HostTransfers, Converts
    <2>3. CASE HostReceives(a)
        <3>1. PICK n \in Count, ad \in Address : Answered(a, Success(n, 0, ad), Filled(user[a], ad))
            BY <2>3 DEF HostReceives
        <3>2. user'[a] = Filled(user[a], ad)
            BY <3>1 DEF Answered, TypeOK
        <3>3. user[a] \in User
            BY DEF TypeOK
        <3>4. user'[a].socklen = ad.addrlen
            BY <3>2, <3>3 DEF Filled, User
        <3>5. ad.addrlen \in AddressLength
            BY ConstantsAssumption DEF AddressRecord
        <3>6. ad.addrlen >= 0
            BY <3>5, Limits DEF AddressLength
        <3> QED BY <3>4, <3>6
    <2>4. CASE HostMakesPipe(a)
        BY <2>4 DEF HostMakesPipe
    <2> QED BY <2>1, <2>2, <2>3, <2>4 DEF HostAnswer
<1>4. Converts(a)' <=> Converts(a)
    BY <1>2 DEF Converts
<1> QED
    BY <1>2, <1>3, <1>4
    DEF Faithful, Outward, Decided, Resuming, Finished, InImpl, AtHost

\* What a failed call returns fits its refusal.
LEMMA ReadFits ==
    ASSUME NEW a \in Act, CellHeld(a), pc[a] = "answered", answer[a].err # 0
    PROVE  ErrorFits(answer[a].err, ErrorRead(a))
<1>1. CASE Host = "linux"
    BY <1>1 DEF ErrorRead, ErrorFits, OwnErrno
<1>2. CASE Host = "apple"
    BY <1>2 DEF ErrorRead, CellHeld
<1> QED
    BY <1>1, <1>2, ConstantsAssumption

\* The bridge takes for an error what fits a refusal, except the swallowed ones.
LEMMA FitReported ==
    ASSUME NEW err \in ErrnoValue, NEW e, ErrorFits(err, e)
    PROVE  IsError(e) <=> ~Swallowed(err)
<1>1. CASE OwnErrno
    BY <1>1, ErrorReported DEF ErrorFits
<1>2. CASE ~OwnErrno
    <2>1. Host # "linux" /\ e \in ErrnoValue
        BY <1>2, ConstantsAssumption DEF ErrorFits, OwnErrno
    <2>2. HostError(e) = e
        BY <2>1 DEF HostError
    <2> QED BY <2>1, <2>2, ErrorReported DEF Swallowed
<1> QED
    BY <1>1, <1>2

\* bsd/impl returns.
LEMMA LeaveFaithful ==
    ASSUME TypeOK, NEW a \in Act, Faithful(a),
           NEW e, NEW r0, NEW r1, LeaveImpl(a, e, r0, r1),
           pc[a] \in {"sys_syscall", "answered"},
           Meant(request[a]).func = "refused" => e = ENOSYS,
           pc[a] = "answered" /\ answer[a].err # 0 => ErrorFits(answer[a].err, e),
           pc[a] = "answered" /\ answer[a].err = 0 =>
                /\ e = 0
                /\ r0 = answer[a].val
                /\ hostcall[a].nr = "write" => r1 = 0
                /\ hostcall[a].nr = "pipe" => r1 = answer[a].val2
    PROVE  Faithful(a)'
<1> USE DEF Frame
<1> DEFINE func == Meant(request[a]).func
<1>1. /\ pc'[a] = "set_return" /\ error'[a] = e
      /\ UNCHANGED <<request, carry, hostcall, answer>>
    BY DEF LeaveImpl, TypeOK
<1>2. retargs[a] \in Retargs
    BY DEF TypeOK
<1>3. /\ retargs'[a].result0 = r0 /\ retargs'[a].result1 = r1
      /\ retargs'[a].syscall_type = retargs[a].syscall_type
      /\ retargs'[a].result_type = retargs[a].result_type
    BY <1>2 DEF LeaveImpl, TypeOK, Retargs
<1>4. /\ ~carry[a] /\ retargs[a].syscall_type = "UNIX"
      /\ request[a].tail = "pipe" => func = "pipe"
      /\ pc[a] = "sys_syscall" => NotAsked(a) /\ func = "refused"
      /\ pc[a] = "answered" => /\ func \in Served /\ hostcall[a].nr = func
                               /\ retargs[a].result_type = ResultType(func)
    BY DEF Faithful, Outward, InImpl, AtHost
<1> QED
    BY <1>1, <1>3, <1>4
    DEF Faithful, Outward, Decided, Resuming, Finished, NotAsked, Asked, Served, InImpl, AtHost

LEMMA FinishFaithful ==
    ASSUME TypeOK, NEW a \in Act, Faithful(a), CellHeld(a),
           SysSyscall(a) \/ FinishWrite(a) \/ FinishPipe(a) \/ FinishRecvfrom(a)
    PROVE  Faithful(a)'
<1> DEFINE func == Meant(request[a]).func
           k == answer[a]
<1>1. pc[a] = "answered" => func \in Served /\ hostcall[a].nr = func
    BY DEF Faithful, Outward, AtHost
<1>2. CASE SysSyscall(a)
    <2>1. PICK r0, r1 : LeaveImpl(a, ENOSYS, r0, r1) /\ pc[a] = "sys_syscall"
        BY <1>2 DEF SysSyscall
    <2> QED BY <2>1, LeaveFaithful
<1>3. ASSUME HostFailed(a), pc[a] = "answered"
      PROVE  Faithful(a)'
    <2>1. PICK r0, r1 : LeaveImpl(a, ErrorRead(a), r0, r1) /\ k.err # 0
        BY <1>3 DEF HostFailed
    <2> QED BY <1>1, <1>3, <2>1, ReadFits, LeaveFaithful DEF Served
<1>4. ASSUME NEW r1, LeaveImpl(a, 0, k.val, r1), pc[a] = "answered", k.err = 0,
             func = "write" => r1 = 0,
             func = "pipe" => r1 = k.val2
      PROVE  Faithful(a)'
    BY <1>1, <1>4, LeaveFaithful DEF Served
<1>5. CASE FinishWrite(a)
    BY <1>1, <1>3, <1>4, <1>5 DEF FinishWrite
<1>6. CASE FinishPipe(a)
    BY <1>1, <1>3, <1>4, <1>6 DEF FinishPipe
<1>7. CASE FinishRecvfrom(a)
    <2> DEFINE ret == sockaddr_fixup_from_linux(user[a].sockaddr, user[a].socklen).ret
    <2>1. pc[a] = "answered" /\ hostcall[a].nr = "recvfrom"
        BY <1>7 DEF FinishRecvfrom
    <2>2. user[a].sockaddr \in Sockaddr /\ user[a].socklen \in Int
        BY IntMaxAssumption DEF TypeOK, User, Int32
    <2>3. k.err = 0 /\ Converts(a) => ~(ret < 0)
        <3>1. k.err = 0 /\ Converts(a) => user[a].socklen >= 0
            BY <2>1 DEF Faithful, Outward
        <3> QED BY <2>2, <3>1, FixedLength
    <2>4. \/ HostFailed(a)
          \/ k.err = 0 /\ \E r1 : LeaveImpl(a, 0, k.val, r1)
        <3> HIDE DEF k
        <3>1. \/ HostFailed(a)
              \/ /\ k.err = 0 /\ Converts(a)
                 /\ \E r1 : LeaveImpl(a, 0, IF ret < 0 THEN ret ELSE k.val, r1)
              \/ k.err = 0 /\ \E r1 : LeaveImpl(a, 0, k.val, r1)
            BY <1>7 DEF FinishRecvfrom, k
        <3> HIDE DEF ret
        <3> QED BY <2>3, <3>1
    <2>5. func = "recvfrom"
        BY <1>1, <2>1
    <2> QED BY <1>3, <1>4, <2>1, <2>4, <2>5
<1> QED
    BY <1>2, <1>5, <1>6, <1>7

LEMMA SetReturnFaithful ==
    ASSUME TypeOK, NEW a \in Act, Faithful(a), SetReturnValues(a)
    PROVE  Faithful(a)'
<1> USE DEF Frame
<1> DEFINE c == request[a]
           func == Meant(c).func
           k == answer[a]
           ra == retargs[a]
           e == error[a]
           new == ReturnRegs(ra, regs[a], e)
<1>1. /\ pc'[a] \in {"trap", "resume"}
      /\ UNCHANGED <<request, hostcall, answer>>
      /\ regs'[a] = new
      /\ carry'[a] = (carry[a] \/ ReturnCarry(ra, e))
    BY DEF SetReturnValues, TypeOK
<1>2. regs[a] \in RegBlock /\ k.err \in ErrnoValue \cup {0}
    BY DEF TypeOK, Answer
<1>3. /\ c.tail = "pipe" => func = "pipe"
      /\ pc[a] = "set_return"
    BY DEF SetReturnValues, Faithful, Outward
<1>4. ~carry[a] /\ Asked(a)
    BY <1>3 DEF Faithful, Decided
<1>5. Asked(a)'
    BY <1>1, <1>4 DEF Asked, NotAsked
<1>6. SUFFICES ASSUME pc'[a] = "resume"
               PROVE  /\ carry'[a] <=> Fails(c, k) /\ ~Swallowed(k.err)
                      /\ carry'[a] => SaysWhy(c, k, AsInt(new.rax))
                      /\ func = "ignored" => new.rax = ZeroExtend(c.eax)
                      /\ func = "write" /\ k.err = 0 => new.rax = ZeroExtend(k.val)
                      /\ func \in {"recvfrom", "pipe"} /\ k.err = 0 => AsInt(new.rax) = k.val
                      /\ func = "pipe" /\ k.err = 0 => AsInt(new.rdx) = k.val2
    <2>1. Outward(a)' /\ Decided(a)' /\ Finished(a)'
        BY <1>1, <1>3 DEF Outward, Decided, Finished, InImpl, AtHost
    <2>2. CASE pc'[a] = "trap"
        BY <2>1, <2>2 DEF Faithful, Resuming
    <2>3. CASE pc'[a] = "resume"
        <3>1. Resuming(a)'
            BY <1>1, <1>5, <1>6, <2>3 DEF Resuming
        <3> QED BY <2>1, <3>1 DEF Faithful
    <2> QED BY <1>1, <2>2, <2>3
<1>7. func \in {"ignored", "refused", "write", "recvfrom", "pipe"}
    BY MeantFunc
<1>8. \A i : AsInt(SignExtend(i)) = i
    BY DEF AsInt, SignExtend
<1>9. CASE func = "ignored"
    <2>1. regs[a].rax = ZeroExtend(c.eax) /\ ra.syscall_type # "UNIX"
        BY <1>3, <1>9 DEF Faithful, Decided
    <2>2. new = regs[a] /\ ~ReturnCarry(ra, e)
        BY <1>2, <2>1, ReturnedRegs
    <2>3. ~carry'[a]
        BY <1>1, <1>4, <2>2
    <2> QED BY <1>9, <2>1, <2>2, <2>3 DEF Fails, Served
<1>10. CASE func = "refused"
    <2>1. ra.syscall_type = "UNIX" /\ e = ENOSYS /\ k.err = 0
        BY <1>3, <1>10 DEF Faithful, Decided, Asked, Served, NotAsked, NoAnswer
    <2>2. new.rax = SignExtend(ENOSYS) /\ ReturnCarry(ra, e)
        BY <1>2, <2>1, ReturnedRegs, EnosysIsError
    <2>3. carry'[a]
        BY <1>1, <2>2
    <2> QED BY <1>8, <1>10, <2>1, <2>2, <2>3, NoErrorStays, EnosysPositive DEF Fails, SaysWhy
<1>11. CASE func \in Served /\ k.err # 0
    <2>1. ra.syscall_type = "UNIX" /\ ErrorFits(k.err, e)
        BY <1>3, <1>11 DEF Faithful, Decided, Served
    <2>2. IsError(e) <=> ~Swallowed(k.err)
        BY <1>2, <1>11, <2>1, FitReported
    <2>3. Fails(c, k) /\ SaysWhy(c, k, e)
        BY <1>11, <2>1 DEF Fails, SaysWhy, ErrorFits, Served
    <2>4. /\ carry'[a] <=> IsError(e)
          /\ IsError(e) => new.rax = SignExtend(e)
        BY <1>1, <1>2, <1>4, <2>1, ReturnedRegs
    <2> QED BY <1>8, <1>11, <2>1, <2>2, <2>3, <2>4 DEF Served
<1>12. CASE func \in Served /\ k.err = 0
    <2>1. /\ ra.syscall_type = "UNIX" /\ e = 0 /\ ra.result0 = k.val
          /\ ra.result_type = ResultType(func)
          /\ func = "write" => ra.result1 = 0
          /\ func = "pipe" => ra.result1 = k.val2
        BY <1>3, <1>12 DEF Faithful, Decided, Served
    <2>2. ~IsError(e)
        BY <2>1 DEF IsError
    <2>3. ~Fails(c, k)
        BY <1>12 DEF Fails, Served
    <2>4. ~carry'[a]
        BY <1>1, <1>2, <1>4, <2>1, <2>2, ReturnedRegs
    <2>5. CASE func = "write"
        <3>1. new.rax = OfPair(k.val, 0)
            BY <1>2, <2>1, <2>2, <2>5, ReturnedRegs DEF ResultType
        <3> QED BY <2>3, <2>4, <2>5, <3>1 DEF OfPair, ZeroExtend
    <2>6. CASE func \in {"recvfrom", "pipe"}
        <3>1. AsInt(new.rax) = k.val /\ AsInt(new.rdx) = ra.result1
            BY <1>2, <2>1, <2>2, <2>6, ReturnedRegs DEF ResultType
        <3> QED BY <2>1, <2>3, <2>4, <2>6, <3>1
    <2> QED BY <1>12, <2>5, <2>6 DEF Served
<1> QED
    BY <1>7, <1>9, <1>10, <1>11, <1>12 DEF Served

LEMMA StubReturnFaithful ==
    ASSUME TypeOK, NEW a \in Act, Faithful(a), StubReturn(a)
    PROVE  Faithful(a)'
<1> DEFINE c == request[a]
           func == Meant(c).func
           k == answer[a]
           r == Result(a)'
<1>1. /\ pc[a] = "resume" /\ pc'[a] = "returned"
      /\ UNCHANGED <<request, hostcall, answer>>
    BY DEF StubReturn, TypeOK
<1>2. /\ Asked(a)
      /\ c.tail = "pipe" => func = "pipe"
      /\ carry[a] <=> Fails(c, k) /\ ~Swallowed(k.err)
      /\ func = "ignored" => regs[a].rax = ZeroExtend(c.eax)
      /\ func = "write" /\ k.err = 0 => regs[a].rax = ZeroExtend(k.val)
      /\ func \in {"recvfrom", "pipe"} /\ k.err = 0 => AsInt(regs[a].rax) = k.val
      /\ func = "pipe" /\ k.err = 0 => AsInt(regs[a].rdx) = k.val2
    BY <1>1 DEF Faithful, Outward, Resuming
<1>3. regs[a] \in RegBlock /\ user[a] \in User
    BY DEF TypeOK
<1>4. c.tail \in {"plain", "pipe"}
    BY DEF TypeOK, CallRecord
<1>5. Fits(c, k, r)
    <2>1. r.rax = regs'[a].rax /\ r.rdx = regs'[a].rdx /\ r.user = user'[a]
        BY DEF Result
    <2> HIDE DEF r
    <2>2. CASE carry[a]
        <3>1. regs' = [regs EXCEPT ![a] = [@ EXCEPT !.rax = MinusOne, !.rdx = MinusOne]]
            BY <2>2 DEF StubReturn
        <3>2. regs'[a] = [regs[a] EXCEPT !.rax = MinusOne, !.rdx = MinusOne]
            BY <3>1 DEF TypeOK
        <3>3. regs'[a].rax = MinusOne
            BY <1>3, <3>2 DEF RegBlock
        <3>4. Fails(c, k)
            BY <1>2, <2>2
        <3> QED BY <2>1, <3>3, <3>4 DEF Fits, Fails, Served
    <2>3. CASE ~carry[a] /\ c.tail = "pipe"
        <3>1. /\ regs' = [regs EXCEPT ![a] = [@ EXCEPT !.rax = ZeroExtend(0)]]
              /\ user' = [user EXCEPT ![a] = [@ EXCEPT !.fd0 = AsInt(regs[a].rax),
                                                      !.fd1 = AsInt(regs[a].rdx)]]
            BY <2>3 DEF StubReturn
        <3>2. /\ regs'[a] = [regs[a] EXCEPT !.rax = ZeroExtend(0)]
              /\ user'[a] = [user[a] EXCEPT !.fd0 = AsInt(regs[a].rax), !.fd1 = AsInt(regs[a].rdx)]
            BY <3>1 DEF TypeOK
        <3>3. regs'[a].rax = ZeroExtend(0)
            BY <1>3, <3>2 DEF RegBlock
        <3>4. user'[a].fd0 = AsInt(regs[a].rax) /\ user'[a].fd1 = AsInt(regs[a].rdx)
            BY <1>3, <3>2 DEF User
        <3>5. AsInt(r.rax) = 0
            BY <2>1, <3>3 DEF AsInt, ZeroExtend
        <3> QED BY <1>2, <2>1, <2>3, <3>4, <3>5 DEF Fits
    <2>4. CASE ~carry[a] /\ c.tail = "plain"
        <3>1. regs'[a] = regs[a]
            BY <2>4 DEF StubReturn
        <3> QED BY <1>2, <2>1, <2>4, <3>1 DEF Fits
    <2> QED BY <1>4, <2>2, <2>3, <2>4
<1>6. Asked(a)'
    BY <1>1, <1>2 DEF Asked, NotAsked
<1>7. Fits(request[a], answer[a], Result(a))'
    BY <1>1, <1>5
<1> QED
    BY <1>1, <1>2, <1>6, <1>7
    DEF Faithful, Outward, Decided, Resuming, Finished, InImpl, AtHost

LEMMA ReturnFaithful ==
    ASSUME TypeOK, NEW a \in Act, Return(a)
    PROVE  Faithful(a)'
<1>1. /\ pc'[a] = "idle" /\ request'[a] = NoRequest
      /\ hostcall'[a] = NoHostCall /\ answer'[a] = NoAnswer
    BY DEF Return, TypeOK
<1> QED
    BY <1>1
    DEF Faithful, Outward, Decided, Resuming, Finished, NotAsked, InImpl, AtHost, NoRequest

LEMMA BeginFaithful ==
    ASSUME TypeOK, NEW t \in Thread, NEW c \in Call, BeginCall(t, c),
           NEW b \in Act, b = <<t, depth[t] + 1>>, Faithful(b)
    PROVE  Faithful(b)'
<1>1. pc[b] = "idle"
    <2>1. depth[t] \in Nat
        BY DEF TypeOK
    <2>2. b[1] = t /\ b[2] > depth[t]
        BY <2>1
    <2> QED BY <2>2 DEF TypeOK, LevelsInUse
<1>2. NotAsked(b)
    BY <1>1 DEF Faithful, Outward
<1>3. pc'[b] = "entry" /\ request'[b] = c /\ UNCHANGED <<hostcall, answer>>
    BY DEF BeginCall, TypeOK
<1>4. c.tail = "pipe" => Meant(c).func = "pipe"
    BY TailMeansPipe
<1> QED
    BY <1>2, <1>3, <1>4
    DEF Faithful, Outward, Decided, Resuming, Finished, NotAsked, InImpl, AtHost

LEMMA FaithfulStep ==
    ASSUME TypeOK, NEW a \in Act, OnTrack(a), Faithful(a), CellHeld(a),
           Emulate(a) \/ HostAnswer(a) \/ Return(a)
    PROVE  Faithful(a)'
BY HandleFaithful, DispatchFaithful, AskFaithful, AnswerFaithful, FinishFaithful,
   SetReturnFaithful, StubReturnFaithful, ReturnFaithful DEF Emulate

\* Faithful looks at one activation only.
LEMMA UntouchedFaithful ==
    ASSUME TypeOK, NEW b \in Act, Faithful(b), Seen(b)' = Seen(b), Kept(b)' = Kept(b)
    PROVE  Faithful(b)'
<1>1. /\ pc'[b] = pc[b] /\ request'[b] = request[b] /\ regs'[b] = regs[b]
      /\ retargs'[b] = retargs[b] /\ error'[b] = error[b] /\ hostcall'[b] = hostcall[b]
      /\ carry'[b] = carry[b] /\ answer'[b] = answer[b] /\ user'[b] = user[b]
    BY DEF Seen, Kept
<1>2. Outward(b)'
    BY <1>1 DEF Faithful, Outward, NotAsked, Converts
<1>3. Decided(b)'
    BY <1>1 DEF Faithful, Decided, Asked, NotAsked
<1>4. Resuming(b)'
    BY <1>1 DEF Faithful, Resuming, Asked, NotAsked
<1>5. Finished(b)'
    BY <1>1 DEF Faithful, Finished, Asked, NotAsked, Result
<1> QED
    BY <1>2, <1>3, <1>4, <1>5 DEF Faithful

LEMMA AllFaithfulStep ==
    TypeOK /\ AllOnTrack /\ AllCellsHeld /\ AllFaithful /\ [Next]_vars => AllFaithful'
<1> SUFFICES ASSUME TypeOK, AllOnTrack, AllCellsHeld, AllFaithful, [Next]_vars, NEW b \in Act
             PROVE  Faithful(b)'
    BY DEF AllFaithful
<1>1. Faithful(b) /\ OnTrack(b) /\ CellHeld(b)
    BY DEF AllFaithful, AllOnTrack, AllCellsHeld
<1>2. CASE UNCHANGED vars
    <2>1. Seen(b)' = Seen(b) /\ Kept(b)' = Kept(b)
        BY <1>2 DEF vars, Seen, Kept
    <2> QED BY <1>1, <2>1, UntouchedFaithful
<1>3. ASSUME NEW t \in Thread, NEW c \in Call, BeginCall(t, c)
      PROVE  Faithful(b)'
    <2>1. CASE b = <<t, depth[t] + 1>>
        BY <1>1, <1>3, <2>1, BeginFaithful
    <2>2. CASE b # <<t, depth[t] + 1>>
        BY <1>1, <1>3, <2>2, BeginKeepsOthers, BeginKeepsRest, UntouchedFaithful
    <2> QED BY <2>1, <2>2
<1>4. ASSUME NEW t \in Thread, SetCerror(t)
      PROVE  Faithful(b)'
    BY <1>1, <1>4, SetCerrorKeepsAll, SetCerrorKeepsRest, UntouchedFaithful
<1>5. ASSUME NEW a \in Act, Step(a)
      PROVE  Faithful(b)'
    <2>1. CASE b = a
        BY <1>1, <1>5, <2>1, FaithfulStep DEF Step
    <2>2. CASE b # a
        <3>1. Seen(b)' = Seen(b) /\ Kept(b)' = Kept(b)
            BY <1>5, <2>2, StepKeepsOthers, StepKeepsRest DEF Step
        <3> QED BY <1>1, <3>1, UntouchedFaithful
    <2> QED BY <2>1, <2>2
<1> QED
    BY <1>2, <1>3, <1>4, <1>5 DEF Next

-----------------------------------------------------------------------------
(***************************************************************************)
(* The C library's errno on an Apple host.                                 *)
(***************************************************************************)
\* Only an answer of the host writes it.
LEMMA HostErrnoUntouched ==
    ASSUME NEW a \in Act, Emulate(a) \/ Return(a)
    PROVE  UNCHANGED host_errno
<1>1. ASSUME NEW type, NEW nr, NEW args, CallHost(a, type, nr, args)
      PROVE  UNCHANGED host_errno
    BY <1>1 DEF CallHost
<1>2. ASSUME NEW e, NEW r0, NEW r1, LeaveImpl(a, e, r0, r1)
      PROVE  UNCHANGED host_errno
    BY <1>2 DEF LeaveImpl
<1>3. CASE HandleSyscall(a) \/ DispatchUnix(a) \/ SetReturnValues(a) \/ StubReturn(a) \/ Return(a)
    BY <1>3 DEF HandleSyscall, DispatchUnix, SetReturnValues, StubReturn, Return
<1>4. CASE SysWrite(a) \/ SysRecvfrom(a) \/ SysPipe(a)
    BY <1>1, <1>4 DEF SysWrite, SysRecvfrom, SysPipe
<1>5. CASE SysSyscall(a) \/ FinishWrite(a) \/ FinishPipe(a) \/ FinishRecvfrom(a)
    <2>1. HostFailed(a) => UNCHANGED host_errno
        BY <1>2 DEF HostFailed
    <2> QED BY <1>2, <1>5, <2>1 DEF SysSyscall, FinishWrite, FinishPipe, FinishRecvfrom
<1> QED
    BY <1>3, <1>4, <1>5 DEF Emulate

\* Of its own accord a call comes from nowhere else than the host to its implementation.
LEMMA NotAnsweredAnew ==
    ASSUME TypeOK, NEW a \in Act, Emulate(a) \/ Return(a)
    PROVE  pc'[a] # "answered"
<1>1. CASE HandleSyscall(a) \/ SetReturnValues(a) \/ StubReturn(a) \/ Return(a)
    BY <1>1 DEF HandleSyscall, SetReturnValues, StubReturn, Return, TypeOK
<1>2. CASE DispatchUnix(a)
    <2>1. UnixRow(UnixNumber(builder[a])).func \in {"NULL"} \cup InImpl
        BY UnixRowType DEF InImpl
    <2> QED BY <1>2, <2>1 DEF DispatchUnix, TypeOK, Frame, InImpl
<1>3. CASE SysWrite(a) \/ SysRecvfrom(a) \/ SysPipe(a)
    BY <1>3 DEF SysWrite, SysRecvfrom, SysPipe, CallHost, TypeOK
<1>4. CASE SysSyscall(a) \/ FinishWrite(a) \/ FinishPipe(a) \/ FinishRecvfrom(a)
    <2>1. \E e, r0, r1 : LeaveImpl(a, e, r0, r1)
        BY <1>4 DEF SysSyscall, FinishWrite, FinishPipe, FinishRecvfrom, HostFailed
    <2> QED BY <2>1 DEF LeaveImpl, TypeOK
<1> QED
    BY <1>1, <1>2, <1>3, <1>4 DEF Emulate

\* An answer of the host to b leaves every cell as CellHeld has it: b's own holds b's errno
\* if b has failed, and another call of the same thread needs no more than one of Errno.
LEMMA AnswerHoldsCells ==
    ASSUME TypeOK, NEW a \in Act, CellHeld(a), NEW b \in Act, HostAnswer(b)
    PROVE  CellHeld(a)'
<1>1. PICK k, u : Answered(b, k, u) /\ k.err \in Errno \cup {0}
    <2>1. \A e : Refusal(e).err = e
        BY DEF Refusal
    <2>2. \A v, v2, f : Success(v, v2, f).err = 0
        BY DEF Success
    <2>3. HostRefuses(b) => \E e \in Errno : Answered(b, Refusal(e), user[b])
        BY DEF HostRefuses
    <2>4. HostTransfers(b) \/ HostReceives(b) \/ HostMakesPipe(b)
              => \E v, v2, f, u : Answered(b, Success(v, v2, f), u)
        BY DEF HostTransfers, HostReceives, HostMakesPipe
    <2> QED BY <2>1, <2>2, <2>3, <2>4 DEF HostAnswer
<1>2. a[1] \in Thread /\ b[1] \in Thread
    BY ActParts
<1>3. /\ host_errno'[a[1]] = IF b[1] = a[1] /\ Host = "apple" /\ k.err # 0
                             THEN k.err ELSE host_errno[a[1]]
      /\ answer'[b] = k
    BY <1>1, <1>2 DEF Answered, TypeOK
<1>4. CASE a = b
    BY <1>1, <1>3, <1>4 DEF CellHeld, ErrorFits, OwnErrno, HostError
<1>5. CASE a # b
    <2>1. pc'[a] = pc[a] /\ answer'[a] = answer[a]
        BY <1>1, <1>5 DEF Answered, TypeOK
    <2>2. b[1] = a[1] => MaxDepth # 1
        BY <1>5, ActParts
    <2>3. CASE b[1] = a[1] /\ Host = "apple" /\ k.err # 0
        BY <1>1, <1>3, <2>2, <2>3 DEF CellHeld, ErrorFits, OwnErrno
    <2>4. CASE ~(b[1] = a[1] /\ Host = "apple" /\ k.err # 0)
        BY <1>3, <2>1, <2>4 DEF CellHeld
    <2> QED BY <2>3, <2>4
<1> QED
    BY <1>4, <1>5

LEMMA AllCellsStep ==
    TypeOK /\ AllCellsHeld /\ [Next]_vars => AllCellsHeld'
<1> SUFFICES ASSUME TypeOK, AllCellsHeld, [Next]_vars, NEW a \in Act
             PROVE  CellHeld(a)'
    BY DEF AllCellsHeld
<1>1. CellHeld(a)
    BY DEF AllCellsHeld
<1>2. ASSUME UNCHANGED host_errno, Seen(a)' = Seen(a), Kept(a)' = Kept(a)
      PROVE  CellHeld(a)'
    <2>1. pc'[a] = pc[a] /\ answer'[a] = answer[a]
        BY <1>2 DEF Seen, Kept
    <2> QED BY <1>1, <1>2, <2>1 DEF CellHeld
<1>3. CASE UNCHANGED vars
    BY <1>2, <1>3 DEF vars, Seen, Kept
<1>4. ASSUME NEW t \in Thread, NEW c \in Call, BeginCall(t, c)
      PROVE  CellHeld(a)'
    <2>1. CASE a = <<t, depth[t] + 1>>
        <3>1. pc'[a] = "entry"
            BY <1>4, <2>1 DEF BeginCall, TypeOK
        <3> QED BY <3>1 DEF CellHeld
    <2>2. CASE a # <<t, depth[t] + 1>>
        <3>1. UNCHANGED host_errno
            BY <1>4 DEF BeginCall
        <3> QED BY <1>2, <1>4, <2>2, <3>1, BeginKeepsOthers, BeginKeepsRest
    <2> QED BY <2>1, <2>2
<1>5. ASSUME NEW t \in Thread, SetCerror(t)
      PROVE  CellHeld(a)'
    <2>1. UNCHANGED host_errno
        BY <1>5 DEF SetCerror
    <2> QED BY <1>2, <1>5, <2>1, SetCerrorKeepsAll, SetCerrorKeepsRest
<1>6. ASSUME NEW b \in Act, Step(b)
      PROVE  CellHeld(a)'
    <2>1. CASE HostAnswer(b)
        BY <1>1, <2>1, AnswerHoldsCells
    <2>2. CASE Emulate(b) \/ Return(b)
        <3>1. UNCHANGED host_errno
            BY <2>2, HostErrnoUntouched
        <3>2. CASE b = a
            BY <2>2, <3>2, NotAnsweredAnew DEF CellHeld
        <3>3. CASE b # a
            BY <1>2, <1>6, <3>1, <3>3, StepKeepsOthers, StepKeepsRest DEF Step
        <3> QED BY <3>2, <3>3
    <2> QED BY <1>6, <2>1, <2>2 DEF Step
<1> QED
    BY <1>3, <1>4, <1>5, <1>6 DEF Next

LEMMA AlwaysCellsHeld == Spec => []AllCellsHeld
<1>1. Init => AllCellsHeld
    BY DEF Init, AllCellsHeld, CellHeld
<1> QED
    BY <1>1, AllCellsStep, TypeCorrect, PTL DEF Spec

-----------------------------------------------------------------------------
LEMMA InitFaithful == Init => AllFaithful
<1> SUFFICES ASSUME Init, NEW a \in Act
             PROVE  Faithful(a)
    BY DEF AllFaithful
<1>1. /\ pc[a] = "idle" /\ request[a] = NoRequest
      /\ hostcall[a] = NoHostCall /\ answer[a] = NoAnswer
    BY DEF Init
<1> QED
    BY <1>1
    DEF Faithful, Outward, Decided, Resuming, Finished, NotAsked, InImpl, AtHost, NoRequest

LEMMA AlwaysFaithful == Spec => [](TypeOK /\ AllOnTrack /\ AllFaithful)
<1>1. Init => AllOnTrack
    BY DEF Init, AllOnTrack, OnTrack, OnTheWay
<1>2. Init => AllFaithful
    BY InitFaithful
<1> QED
    BY <1>1, <1>2, AllOnTrackStep, AllFaithfulStep, AlwaysCellsHeld, TypeCorrect, PTL DEF Spec

\* What the program sees of a call is what the host kernel answered to that call, or
\* its refusal, whatever other threads and signal handlers do meanwhile.
THEOREM OutcomeIsHosts == Spec => []OutcomeFaithful
<1>1. AllFaithful => OutcomeFaithful
    BY DEF AllFaithful, Faithful, Finished, Asked, OutcomeFaithful
<1> QED
    BY <1>1, AlwaysFaithful, PTL

-----------------------------------------------------------------------------
(***************************************************************************)
(* darling_errno.                                                          *)
(***************************************************************************)
\* Only the return of a stub writes it, once the program has made its call.
LEMMA ErrnoUntouched ==
    ASSUME NEW a \in Act, Emulate(a) \/ HostAnswer(a) \/ Return(a), ~StubReturn(a)
    PROVE  pc[a] # "resume" /\ UNCHANGED darling_errno
<1>1. ASSUME NEW type, NEW nr, NEW args, CallHost(a, type, nr, args)
      PROVE  UNCHANGED darling_errno
    BY <1>1 DEF CallHost
<1>2. ASSUME NEW e, NEW r0, NEW r1, LeaveImpl(a, e, r0, r1)
      PROVE  UNCHANGED darling_errno
    BY <1>2 DEF LeaveImpl
<1>3. CASE HandleSyscall(a) \/ DispatchUnix(a) \/ SetReturnValues(a) \/ Return(a)
    BY <1>3 DEF HandleSyscall, DispatchUnix, SetReturnValues, Return
<1>4. CASE SysWrite(a) \/ SysRecvfrom(a) \/ SysPipe(a)
    BY <1>1, <1>4 DEF SysWrite, SysRecvfrom, SysPipe
<1>5. CASE SysSyscall(a) \/ FinishWrite(a) \/ FinishPipe(a) \/ FinishRecvfrom(a)
    <2>1. HostFailed(a) => UNCHANGED darling_errno
        BY <1>2 DEF HostFailed
    <2> QED BY <1>2, <1>5, <2>1 DEF SysSyscall, FinishWrite, FinishPipe, FinishRecvfrom
<1>6. CASE HostAnswer(a)
    <2>1. PICK k, u : Answered(a, k, u)
        BY <1>6 DEF HostAnswer, HostRefuses, HostTransfers, HostReceives, HostMakesPipe
    <2> QED BY <2>1 DEF Answered
<1> QED
    BY <1>3, <1>4, <1>5, <1>6 DEF Emulate

\* The return of a stub writes the cell of its own thread, and what fits the call.
LEMMA StubErrno ==
    ASSUME TypeOK, NEW a \in Act, Faithful(a), StubReturn(a)
    PROVE  /\ ErrnoFits(request[a], answer[a], darling_errno[a[1]], darling_errno'[a[1]])
           /\ \A u \in Thread : u # a[1] => darling_errno'[u] = darling_errno[u]
           /\ ~carry[a] => UNCHANGED darling_errno
<1> USE DEF ErrnoCell
<1> DEFINE fails == Fails(request[a], answer[a]) /\ ~Swallowed(answer[a].err)
<1>1. /\ pc[a] = "resume"
      /\ a[1] \in Thread /\ darling_errno \in [Thread -> Int32]
    BY ActParts DEF StubReturn, TypeOK
<1>2. /\ carry[a] <=> fails
      /\ carry[a] => SaysWhy(request[a], answer[a], AsInt(regs[a].rax))
    BY <1>1 DEF Faithful, Resuming
<1>3. CASE carry[a]
    <2>1. darling_errno' = [darling_errno EXCEPT ![a[1]] = AsInt(regs[a].rax)]
        BY <1>3 DEF StubReturn
    <2>2. darling_errno'[a[1]] = AsInt(regs[a].rax)
        BY <1>1, <2>1
    <2> QED BY <1>1, <1>2, <1>3, <2>1, <2>2 DEF ErrnoFits
<1>4. CASE ~carry[a]
    <2>1. UNCHANGED darling_errno
        BY <1>4 DEF StubReturn
    <2> QED BY <1>2, <1>4, <2>1 DEF ErrnoFits
<1> QED
    BY <1>3, <1>4

LEMMA ErrnoStepHolds == TypeOK /\ AllFaithful /\ [Next]_vars => [ErrnoStep]_vars
<1> SUFFICES ASSUME TypeOK, AllFaithful, Next, NEW a \in Act
             PROVE  /\ pc[a] = "resume" /\ pc'[a] = "returned" =>
                          ErrnoFits(request[a], answer[a], darling_errno[a[1]],
                                    darling_errno'[a[1]])
                    /\ darling_errno'[a[1]] # darling_errno[a[1]] =>
                          \/ UNCHANGED pc /\ darling_errno'[a[1]] = 0
                          \/ \E d \in 1 .. MaxDepth :
                                pc[<<a[1], d>>] = "resume" /\ carry[<<a[1], d>>]
    BY DEF ErrnoStep
<1>1. ASSUME NEW t \in Thread, NEW c \in Call, BeginCall(t, c)
      PROVE  pc'[a] \in {"entry", pc[a]} /\ UNCHANGED darling_errno
    BY <1>1 DEF BeginCall, TypeOK
<1>2. ASSUME NEW t \in Thread, SetCerror(t)
      PROVE  UNCHANGED pc /\ darling_errno'[a[1]] \in {0, darling_errno[a[1]]}
    BY <1>2, ActParts DEF SetCerror, ErrnoCell, TypeOK
<1>3. ASSUME NEW b \in Act, Step(b)
      PROVE  b # a => pc'[a] = pc[a]
    BY <1>3, StepKeepsOthers DEF Step, Seen
<1>4. ASSUME NEW b \in Act, Step(b), ~StubReturn(b)
      PROVE  pc[b] # "resume" /\ UNCHANGED darling_errno
    BY <1>4, ErrnoUntouched DEF Step
<1>5. ASSUME NEW b \in Act, StubReturn(b)
      PROVE  /\ pc[b] = "resume"
             /\ ErrnoFits(request[b], answer[b], darling_errno[b[1]], darling_errno'[b[1]])
             /\ \A u \in Thread : u # b[1] => darling_errno'[u] = darling_errno[u]
             /\ ~carry[b] => UNCHANGED darling_errno
             /\ b = <<b[1], b[2]>> /\ b[2] \in 1 .. MaxDepth
    BY <1>5, StubErrno, ActParts DEF AllFaithful, StubReturn
<1>6. a[1] \in Thread
    BY ActParts
<1>7. CASE \E t \in Thread, c \in Call : BeginCall(t, c)
    BY <1>1, <1>7
<1>8. CASE \E t \in Thread : SetCerror(t)
    BY <1>2, <1>8
<1>9. ASSUME NEW b \in Act, Step(b)
      PROVE  /\ pc[a] = "resume" /\ pc'[a] = "returned" =>
                   ErrnoFits(request[a], answer[a], darling_errno[a[1]], darling_errno'[a[1]])
             /\ darling_errno'[a[1]] # darling_errno[a[1]] =>
                   \E d \in 1 .. MaxDepth :
                         pc[<<a[1], d>>] = "resume" /\ carry[<<a[1], d>>]
    <2>1. CASE StubReturn(b)
        <3>1. pc[a] = "resume" /\ pc'[a] = "returned" => b = a
            BY <1>3, <1>9
        <3>2. ASSUME darling_errno'[a[1]] # darling_errno[a[1]]
              PROVE  pc[<<a[1], b[2]>>] = "resume" /\ carry[<<a[1], b[2]>>]
            <4>1. a[1] = b[1]
                BY <1>5, <1>6, <2>1, <3>2
            <4>2. carry[b]
                BY <1>5, <2>1, <3>2
            <4> QED BY <1>5, <2>1, <4>1, <4>2
        <3> QED BY <1>5, <2>1, <3>1, <3>2
    <2>2. CASE ~StubReturn(b)
        BY <1>3, <1>4, <1>9, <2>2
    <2> QED BY <2>1, <2>2
<1> QED
    BY <1>7, <1>8, <1>9 DEF Next

\* darling_errno changes when the program resets it, and when a stub of the same thread
\* returns from a call that failed: on a Linux host, and on an Apple host where no handler
\* makes calls, to that call's errno up to the sign; with handlers on an Apple host to an
\* errno of the host, which may be a handler's call's.
THEOREM ErrnoKept == Spec => ErrnoIsOwn
<1>1. TypeOK /\ AllOnTrack /\ AllFaithful /\ [Next]_vars => [ErrnoStep]_vars
    BY ErrnoStepHolds
<1> QED
    BY <1>1, AlwaysFaithful, PTL DEF Spec, ErrnoIsOwn

-----------------------------------------------------------------------------
(***************************************************************************)
(* The conversion of a sender's address.                                   *)
(***************************************************************************)
\* A byte stays itself through the union and the narrowing to a byte.
LEMMA ByteKept ==
    ASSUME NEW i \in Byte
    PROVE  /\ i % 256 = i
           /\ LittleEndian(i % 256, 0) = i
<1>1. i \in Int /\ 0 <= i /\ i <= 255
    BY Limits DEF Byte
<1>2. i % 256 = i
    BY <1>1
<1>3. i + 256 * 0 = i
    BY <1>1
<1> QED
    BY <1>2, <1>3 DEF LittleEndian

LEMMA FamilyByte ==
    ASSUME NEW f \in Byte
    PROVE  sfamily_linux_to_bsd(f) \in Byte
<1>1. /\ HostPF["LOCAL"] \in Byte /\ HostPF["INET"] \in Byte
      /\ HostPF["IPX"] \in Byte /\ HostPF["INET6"] \in Byte
    BY HostPFAssumption
<1> QED
    BY <1>1 DEF sfamily_linux_to_bsd

LEMMA LengthByte ==
    ASSUME NEW len \in AddressLength
    PROVE  len \in Byte
<1>1. len \in Int /\ 0 <= len /\ len <= 255
    BY Limits DEF AddressLength
<1> QED
    BY <1>1, Limits DEF Byte

\* The path fits, and its length with the header and the NUL fits a byte.
LEMMA ClippedPath ==
    ASSUME NEW p \in Nat
    PROVE  /\ p < PathSize => Clipped(p) = p
           /\ ~(HeaderSize + Clipped(p) + 1 < 0)
           /\ HeaderSize + Clipped(p) + 1 \in Byte
<1>1. Clipped(p) \in Nat /\ Clipped(p) <= 103
    BY DEF Clipped, PathSize
<1>2. /\ HeaderSize + Clipped(p) + 1 \in Int
      /\ 0 <= HeaderSize + Clipped(p) + 1 /\ HeaderSize + Clipped(p) + 1 <= 255
    BY <1>1 DEF HeaderSize
<1>3. \A i \in Int : 0 <= i => ~(i < 0)
    OBVIOUS
<1> QED
    BY <1>2, <1>3, Limits DEF Clipped, Byte

\* The conversion of an address that Linux has just written.
LEMMA LinuxSender ==
    ASSUME Host = "linux", NEW ad \in AddressRecord, NEW u \in User, NEW sa \in Sockaddr,
           sa.bsd_length = ad.family % 256, sa.bsd_family = 0, sa.path = ad.path,
           u.socklen = sockaddr_fixup_from_linux(sa, ad.addrlen).ret,
           u.sockaddr = sockaddr_fixup_from_linux(sa, ad.addrlen).out
    PROVE  SenderReported(ad, u)
<1>1. ad.family \in Byte /\ ad.addrlen \in Byte /\ ad.path \in Nat
    BY LengthByte DEF AddressRecord
<1> DEFINE family == sfamily_linux_to_bsd(ad.family)
           local == family = HostPF["LOCAL"]
           path == IF local THEN Clipped(ad.path) ELSE ad.path
           ret == IF local THEN HeaderSize + path + 1 ELSE ad.addrlen
<1>2. family \in Byte /\ family % 256 = family /\ linux_family(sa) = ad.family
    BY <1>1, FamilyByte, ByteKept DEF linux_family
<1> HIDE DEF family
<1>3. ret \in Byte /\ (local => ret = HeaderSize + path + 1) /\ (~local => ret = ad.addrlen)
    BY <1>1, ClippedPath
<1>4. ad.path < PathSize => path = ad.path
    BY <1>1, ClippedPath
<1> HIDE DEF path, ret
<1>5. ret % 256 = ret /\ ret >= 0
    <2>1. ret >= 0
        BY <1>3, Limits DEF Byte
    <2> QED BY <1>3, <2>1, ByteKept
<1>6. sockaddr_fixup_from_linux(sa, ad.addrlen) =
        [ret |-> ret, out |-> [bsd_length |-> IF ret >= 0 THEN ret % 256 ELSE sa.bsd_length,
                               bsd_family |-> family % 256, path |-> path]]
    <2>1. ~(vchroot_unexpand < 0)
        BY DEF vchroot_unexpand
    <2> QED BY <1>2, <2>1 DEF sockaddr_fixup_from_linux, family, path, ret
<1>7. /\ u.socklen = ret /\ u.sockaddr.bsd_length = ret
      /\ u.sockaddr.bsd_family = family /\ u.sockaddr.path = path
    BY <1>2, <1>5, <1>6
<1> QED
    BY <1>3, <1>4, <1>7 DEF SenderReported, family

\* An Apple host writes the address as BSD has it.
LEMMA AppleSender ==
    ASSUME Host # "linux", NEW ad, NEW u,
           u.socklen = ad.addrlen, u.sockaddr.bsd_length = ad.addrlen,
           u.sockaddr.bsd_family = ad.family, u.sockaddr.path = ad.path
    PROVE  SenderReported(ad, u)
BY DEF SenderReported

-----------------------------------------------------------------------------
(***************************************************************************)
(* The steps of one activation.                                            *)
(***************************************************************************)
LEMMA HostAnswerSender ==
    ASSUME TypeOK, NEW a \in Act, HostAnswer(a)
    PROVE  SenderFollowed(a)'
<1>1. PICK k, u : Answered(a, k, u)
    BY DEF HostAnswer, HostRefuses, HostTransfers, HostReceives, HostMakesPipe
<1>2. pc'[a] = "answered" /\ UNCHANGED hostcall
    BY <1>1 DEF Answered, TypeOK
<1>3. ASSUME NEW val, NEW val2, NEW v, Answered(a, Success(val, val2, NoAddress), v)
      PROVE  SenderFollowed(a)'
    <2>1. answer'[a].from = NoAddress
        BY <1>3 DEF Answered, Success, TypeOK
    <2>2. ~(answer'[a].from.addrlen > 0)
        BY <2>1 DEF NoAddress
    <2> QED BY <2>2 DEF SenderFollowed
<1>4. CASE HostRefuses(a)
    <2>1. PICK e \in Errno : Answered(a, Refusal(e), user[a])
        BY <1>4 DEF HostRefuses
    <2>2. ~(answer'[a].from.addrlen > 0)
        BY <2>1 DEF Answered, Refusal, TypeOK, NoAddress
    <2> QED BY <2>2 DEF SenderFollowed
<1>5. CASE HostTransfers(a) \/ HostMakesPipe(a)
    BY <1>3, <1>5 DEF HostTransfers, HostMakesPipe
<1>6. CASE HostReceives(a)
    <2>1. PICK n \in Count, ad \in Address : Answered(a, Success(n, 0, ad), Filled(user[a], ad))
        BY <1>6 DEF HostReceives
    <2>2. /\ answer'[a] = Success(n, 0, ad)
          /\ user'[a] = Filled(user[a], ad)
        BY <2>1 DEF Answered, TypeOK
    <2>3. user[a] \in User
        BY DEF TypeOK
    <2>4. /\ user'[a].socklen = ad.addrlen
          /\ user'[a].sockaddr = WriteSockaddr(user[a].sockaddr, ad)
        BY <2>2, <2>3 DEF Filled, User
    <2>5. answer'[a].from = ad
        BY <2>2 DEF Success
    <2>6. Host = "linux" => Converts(a)'
        BY <1>2, <1>6 DEF Converts, HostReceives
    <2>7. SUFFICES ASSUME ad.addrlen > 0
                   PROVE  SenderWritten(a)'
        BY <1>2, <2>5 DEF SenderFollowed
    <2>8. ad.addrlen # 0
        BY <2>7
    <2>9. /\ Host = "linux" => WriteSockaddr(user[a].sockaddr, ad) =
                [bsd_length |-> ad.family % 256, bsd_family |-> 0, path |-> ad.path]
          /\ Host # "linux" => WriteSockaddr(user[a].sockaddr, ad) =
                [bsd_length |-> ad.addrlen, bsd_family |-> ad.family, path |-> ad.path]
        BY <2>8 DEF WriteSockaddr
    <2> QED BY <2>4, <2>5, <2>6, <2>9 DEF SenderWritten
<1> QED
    BY <1>4, <1>5, <1>6 DEF HostAnswer

LEMMA FinishSender ==
    ASSUME TypeOK, NEW a \in Act, SenderFollowed(a), FinishRecvfrom(a)
    PROVE  SenderFollowed(a)'
<1> DEFINE k == answer[a]
           fixed == sockaddr_fixup_from_linux(user[a].sockaddr, user[a].socklen)
<1>1. pc[a] = "answered" /\ hostcall[a].nr = "recvfrom"
    BY DEF FinishRecvfrom
<1>2. pc'[a] = "set_return" /\ UNCHANGED <<hostcall, answer>>
    BY DEF FinishRecvfrom, HostFailed, LeaveImpl, TypeOK
<1>3. SUFFICES ASSUME k.err = 0, k.from.addrlen > 0
               PROVE  SenderReported(k.from, user'[a])
    BY <1>2 DEF SenderFollowed
<1>4. SenderWritten(a)
    BY <1>1, <1>3 DEF SenderFollowed
<1>5. user[a] \in User /\ user'[a] \in User /\ k.from \in AddressRecord
    BY FinishRecvfromType DEF TypeOK, Answer
<1>6. user[a].sockaddr \in Sockaddr
    BY <1>5 DEF User
<1>7. CASE Converts(a)
    <2>1. user' = [user EXCEPT ![a] = [@ EXCEPT !.socklen = fixed.ret,
                                               !.sockaddr = fixed.out]]
        BY <1>3, <1>7 DEF FinishRecvfrom, HostFailed
    <2> HIDE DEF fixed
    <2>2. user'[a] = [user[a] EXCEPT !.socklen = fixed.ret, !.sockaddr = fixed.out]
        BY <2>1 DEF TypeOK
    <2>3. user'[a].socklen = fixed.ret /\ user'[a].sockaddr = fixed.out
        BY <1>5, <2>2 DEF User
    <2>4. Host = "linux"
        BY <1>7 DEF Converts
    <2>5. fixed = sockaddr_fixup_from_linux(user[a].sockaddr, k.from.addrlen)
        BY <1>4 DEF SenderWritten, fixed
    <2>6. /\ user[a].sockaddr.bsd_length = k.from.family % 256
          /\ user[a].sockaddr.bsd_family = 0 /\ user[a].sockaddr.path = k.from.path
        BY <1>4, <2>4 DEF SenderWritten
    <2> QED BY <1>5, <1>6, <2>3, <2>4, <2>5, <2>6, LinuxSender
<1>8. CASE ~Converts(a)
    <2>1. UNCHANGED user
        BY <1>3, <1>8 DEF FinishRecvfrom, HostFailed
    <2>2. Host # "linux"
        BY <1>4, <1>8 DEF SenderWritten
    <2> QED BY <1>4, <2>1, <2>2, AppleSender DEF SenderWritten
<1> QED
    BY <1>7, <1>8

LEMMA SenderStep ==
    ASSUME TypeOK, NEW a \in Act, Faithful(a), SenderFollowed(a),
           Emulate(a) \/ HostAnswer(a) \/ Return(a)
    PROVE  SenderFollowed(a)'
<1>1. CASE HandleSyscall(a) \/ DispatchUnix(a)
    <2>1. pc[a] \in {"entry", "unix"} /\ UNCHANGED <<hostcall, answer>>
        BY <1>1 DEF HandleSyscall, DispatchUnix
    <2>2. NotAsked(a)
        BY <2>1 DEF Faithful, Outward
    <2> QED BY <2>1, <2>2 DEF SenderFollowed, NotAsked, NoHostCall
<1>2. CASE SysWrite(a) \/ SysRecvfrom(a) \/ SysPipe(a)
    <2>1. \E type, nr, args : CallHost(a, type, nr, args)
        BY <1>2 DEF SysWrite, SysRecvfrom, SysPipe
    <2>2. pc'[a] = "host"
        BY <2>1 DEF CallHost, TypeOK
    <2> QED BY <2>2 DEF SenderFollowed
<1>3. CASE SysSyscall(a)
    <2>1. NotAsked(a)
        BY <1>3 DEF SysSyscall, Faithful, Outward, InImpl
    <2>2. UNCHANGED hostcall
        BY <1>3 DEF SysSyscall, LeaveImpl
    <2> QED BY <2>1, <2>2 DEF SenderFollowed, NotAsked, NoHostCall
<1>4. CASE FinishWrite(a) \/ FinishPipe(a)
    <2>1. hostcall[a].nr # "recvfrom" /\ UNCHANGED hostcall
        BY <1>4 DEF FinishWrite, FinishPipe, HostFailed, LeaveImpl
    <2> QED BY <2>1 DEF SenderFollowed
<1>5. CASE SetReturnValues(a)
    <2>1. /\ pc[a] = "set_return" /\ pc'[a] \in {"trap", "resume"}
          /\ UNCHANGED <<hostcall, answer, user>>
        BY <1>5 DEF SetReturnValues, TypeOK
    <2> QED BY <2>1 DEF SenderFollowed
<1>6. CASE StubReturn(a)
    <2>1. pc[a] = "resume" /\ pc'[a] = "returned" /\ UNCHANGED <<request, hostcall, answer>>
        BY <1>6 DEF StubReturn, TypeOK
    <2>2. request[a].tail = "pipe" => hostcall[a].nr # "recvfrom"
        BY <2>1 DEF Faithful, Outward, Resuming, Asked, Served
    <2>3. request[a].tail # "pipe" => UNCHANGED user
        BY <1>6 DEF StubReturn
    <2> QED BY <2>1, <2>2, <2>3 DEF SenderFollowed
<1>7. CASE Return(a)
    <2>1. pc'[a] = "idle"
        BY <1>7 DEF Return, TypeOK
    <2> QED BY <2>1 DEF SenderFollowed
<1> QED
    BY <1>1, <1>2, <1>3, <1>4, <1>5, <1>6, <1>7, HostAnswerSender, FinishSender DEF Emulate

-----------------------------------------------------------------------------
LEMMA AllSendersStep ==
    TypeOK /\ AllFaithful /\ AllSendersFollowed /\ [Next]_vars => AllSendersFollowed'
<1> SUFFICES ASSUME TypeOK, AllFaithful, AllSendersFollowed, [Next]_vars, NEW b \in Act
             PROVE  SenderFollowed(b)'
    BY DEF AllSendersFollowed
<1>1. Faithful(b) /\ SenderFollowed(b)
    BY DEF AllFaithful, AllSendersFollowed
<1>2. ASSUME Seen(b)' = Seen(b), Kept(b)' = Kept(b)
      PROVE  SenderFollowed(b)'
    <2>1. /\ pc'[b] = pc[b] /\ hostcall'[b] = hostcall[b]
          /\ answer'[b] = answer[b] /\ user'[b] = user[b]
        BY <1>2 DEF Seen, Kept
    <2> QED BY <1>1, <2>1 DEF SenderFollowed, SenderWritten, Converts
<1>3. CASE UNCHANGED vars
    BY <1>2, <1>3 DEF vars, Seen, Kept
<1>4. ASSUME NEW t \in Thread, NEW c \in Call, BeginCall(t, c)
      PROVE  SenderFollowed(b)'
    <2>1. CASE b = <<t, depth[t] + 1>>
        <3>1. pc'[b] = "entry"
            BY <1>4, <2>1 DEF BeginCall, TypeOK
        <3> QED BY <3>1 DEF SenderFollowed
    <2>2. CASE b # <<t, depth[t] + 1>>
        BY <1>2, <1>4, <2>2, BeginKeepsOthers, BeginKeepsRest
    <2> QED BY <2>1, <2>2
<1>5. ASSUME NEW t \in Thread, SetCerror(t)
      PROVE  SenderFollowed(b)'
    BY <1>2, <1>5, SetCerrorKeepsAll, SetCerrorKeepsRest
<1>6. ASSUME NEW a \in Act, Step(a)
      PROVE  SenderFollowed(b)'
    <2>1. CASE b = a
        BY <1>1, <1>6, <2>1, SenderStep DEF Step
    <2>2. CASE b # a
        BY <1>2, <1>6, <2>2, StepKeepsOthers, StepKeepsRest DEF Step
    <2> QED BY <2>1, <2>2
<1> QED
    BY <1>3, <1>4, <1>5, <1>6 DEF Next

\* A recvfrom that reports a sender reports the one the host kernel gave, in BSD form.
THEOREM SenderReachesProgram == Spec => []SenderAddressDelivered
<1>1. Init => AllSendersFollowed
    BY DEF Init, AllSendersFollowed, SenderFollowed
<1>2. AllFaithful /\ AllSendersFollowed => SenderAddressDelivered
    BY DEF AllFaithful, Faithful, Finished, Asked, Served, AllSendersFollowed, SenderFollowed,
           SenderAddressDelivered
<1> QED
    BY <1>1, <1>2, AllSendersStep, AlwaysFaithful, PTL DEF Spec

-----------------------------------------------------------------------------
(***************************************************************************)
(* The contract: every step of the emulator is a step of SyscallContract,  *)
(* seen through Exchanges, or changes nothing the contract speaks of.      *)
(***************************************************************************)
\* The contract sees of an activation what Seen and Kept show.
LEMMA ExchangeKept ==
    ASSUME NEW b \in Act, Seen(b)' = Seen(b), Kept(b)' = Kept(b)
    PROVE  Exchange(b)' = Exchange(b)
BY DEF Seen, Kept, Exchange, PhaseOf, Result

\* While its call is in progress an activation is where the contract says.
LEMMA PhaseParts ==
    ASSUME NEW a \in Act
    PROVE  /\ pc[a] = "idle" => PhaseOf(a) = "idle"
           /\ pc[a] = "host" => PhaseOf(a) = "asked"
           /\ pc[a] = "returned" => PhaseOf(a) = "done"
           /\ pc[a] \notin {"idle", "host", "returned", "trap"} /\ hostcall[a].nr = "none"
                  => PhaseOf(a) = "begun"
           /\ pc[a] \notin {"idle", "host", "returned", "trap"} /\ hostcall[a].nr # "none"
                  => PhaseOf(a) = "answered"
BY DEF PhaseOf

-----------------------------------------------------------------------------
(***************************************************************************)
(* The steps of one activation.  OthersSame(a) is what StepKeepsOthers and *)
(* StepKeepsRest give.                                                     *)
(***************************************************************************)
OthersSame(a) == \A b \in Act \ {a} : Exchange(b)' = Exchange(b)

LEMMA OthersMap ==
    ASSUME NEW a \in Act, OthersSame(a)
    PROVE  Contract!OthersKept(a)
BY DEF OthersSame, Contract!OthersKept, Exchanges

LEMMA BeginMaps ==
    ASSUME TypeOK, NEW t \in Thread, NEW c \in Call, BeginCall(t, c),
           NEW a \in Act, a = <<t, depth[t] + 1>>, Faithful(a), OthersSame(a)
    PROVE  Contract!Begin(a)
<1>1. pc[a] = "idle"
    <2>1. depth[t] \in Nat
        BY DEF TypeOK
    <2>2. a[1] = t /\ a[2] > depth[t]
        BY <2>1
    <2> QED BY <2>2 DEF TypeOK, LevelsInUse
<1>2. hostcall[a] = NoHostCall /\ answer[a] = NoAnswer
    BY <1>1 DEF Faithful, Outward, NotAsked
<1>3. pc'[a] = "entry" /\ request'[a] = c /\ UNCHANGED <<hostcall, answer, darling_errno>>
    BY DEF BeginCall, TypeOK
<1>4. PhaseOf(a) = "idle" /\ PhaseOf(a)' = "begun"
    BY <1>1, <1>2, <1>3 DEF PhaseOf, NoHostCall
<1>5. Exchange(a)' = Contract!At("begun", c, NoHostCall, NoAnswer, NoResult)
    BY <1>2, <1>3, <1>4 DEF Exchange, Contract!At
<1>6. Exchange(a).phase = "idle"
    BY <1>4 DEF Exchange
<1>7. Exchanges[a] = Exchange(a) /\ Exchanges'[a] = Exchange(a)'
    BY DEF Exchanges
<1> QED
    BY <1>3, <1>5, <1>6, <1>7, OthersMap DEF Contract!Begin, Contract!At

LEMMA AskMaps ==
    ASSUME TypeOK, NEW a \in Act, SysWrite(a) \/ SysRecvfrom(a) \/ SysPipe(a),
           Faithful(a), OnTrack(a)', OthersSame(a)
    PROVE  Contract!Ask(a)
<1>1. PICK type, nr, args : CallHost(a, type, nr, args)
    BY DEF SysWrite, SysRecvfrom, SysPipe
<1>2. pc[a] \in InImpl /\ hostcall[a] = NoHostCall
    BY DEF SysWrite, SysRecvfrom, SysPipe, Faithful, Outward, NotAsked, InImpl
<1>3. pc'[a] = "host" /\ UNCHANGED <<request, answer, darling_errno>>
    BY <1>1 DEF CallHost, TypeOK
<1>4. Delivers(request[a], hostcall'[a])
    BY <1>3 DEF OnTrack, Delivered
<1>5. PhaseOf(a) = "begun" /\ PhaseOf(a)' = "asked"
    BY <1>2, <1>3 DEF PhaseOf, NoHostCall, InImpl
<1>6. Exchange(a) = Contract!At("begun", request[a], NoHostCall, answer[a], NoResult)
    BY <1>2, <1>5 DEF Exchange, Contract!At, InImpl
<1>7. Exchange(a)' = Contract!At("asked", request[a], hostcall'[a], answer[a], NoResult)
    BY <1>3, <1>5 DEF Exchange, Contract!At
<1>8. NeedsHost(request[a])
    BY <1>4 DEF Delivers, NeedsHost
<1>9. Exchanges[a] = Exchange(a) /\ Exchanges'[a] = Exchange(a)'
    BY DEF Exchanges
<1> QED
    BY <1>3, <1>4, <1>6, <1>7, <1>8, <1>9, OthersMap DEF Contract!Ask, Contract!At

LEMMA AnswerMaps ==
    ASSUME TypeOK, NEW a \in Act, HostAnswer(a), Faithful(a), OthersSame(a)
    PROVE  Contract!Answer(a)
<1>1. PICK k, u : Answered(a, k, u)
    BY DEF HostAnswer, HostRefuses, HostTransfers, HostReceives, HostMakesPipe
<1>2. /\ pc[a] = "host" /\ pc'[a] = "answered"
      /\ UNCHANGED <<request, hostcall, darling_errno>>
    BY <1>1 DEF Answered, TypeOK
<1>3. hostcall[a].nr # "none"
    BY <1>2 DEF Faithful, Outward, AtHost, Served
<1>4. PhaseOf(a) = "asked" /\ PhaseOf(a)' = "answered"
    BY <1>2, <1>3 DEF PhaseOf
<1>5. Exchange(a) = Contract!At("asked", request[a], hostcall[a], answer[a], NoResult)
    BY <1>2, <1>4 DEF Exchange, Contract!At
<1>6. Exchange(a)' = Contract!At("answered", request[a], hostcall[a], answer'[a], NoResult)
    BY <1>2, <1>4 DEF Exchange, Contract!At
<1>7. Exchanges[a] = Exchange(a) /\ Exchanges'[a] = Exchange(a)'
    BY DEF Exchanges
<1> QED
    BY <1>2, <1>5, <1>6, <1>7, OthersMap DEF Contract!Answer, Contract!At

LEMMA CompleteMaps ==
    ASSUME TypeOK, NEW a \in Act, StubReturn(a), Faithful(a), Faithful(a)', OthersSame(a)
    PROVE  Contract!Complete(a)
<1>1. /\ pc[a] = "resume" /\ pc'[a] = "returned"
      /\ UNCHANGED <<request, hostcall, answer>>
    BY DEF StubReturn, TypeOK
<1>2. Fits(request[a], answer[a], Result(a)')
    <2>1. Fits(request'[a], answer'[a], Result(a)')
        BY <1>1 DEF Faithful, Finished
    <2> QED BY <1>1, <2>1
<1>3. PhaseOf(a)' = "done" /\ PhaseOf(a) = IF NeedsHost(request[a]) THEN "answered" ELSE "begun"
    <2>1. Asked(a)
        BY <1>1 DEF Faithful, Resuming
    <2>2. hostcall[a].nr = "none" <=> ~NeedsHost(request[a])
        BY <2>1 DEF Asked, NotAsked, NoHostCall, NeedsHost, Served
    <2> QED BY <1>1, <2>2 DEF PhaseOf
<1>4. Exchange(a) = Contract!At(PhaseOf(a), request[a], hostcall[a], answer[a], NoResult)
    BY <1>1 DEF Exchange, Contract!At
<1>5. Exchange(a)' = Contract!At("done", request[a], hostcall[a], answer[a], Result(a)')
    BY <1>1, <1>3 DEF Exchange, Contract!At
<1>6. Exchanges[a] = Exchange(a) /\ Exchanges'[a] = Exchange(a)'
    BY DEF Exchanges
<1>7. /\ ErrnoFits(request[a], answer[a], darling_errno[a[1]], darling_errno'[a[1]])
      /\ \A u \in Thread : u # a[1] => darling_errno'[u] = darling_errno[u]
    BY StubErrno
<1> QED
    BY <1>2, <1>3, <1>4, <1>5, <1>6, <1>7, OthersMap
    DEF Contract!Complete, Contract!At, Contract!OtherErrnosKept, ThreadOf

LEMMA LeaveMaps ==
    ASSUME TypeOK, NEW a \in Act, Return(a), OthersSame(a)
    PROVE  Contract!Leave(a)
<1>1. /\ pc[a] = "returned" /\ pc'[a] = "idle" /\ request'[a] = NoRequest
      /\ hostcall'[a] = NoHostCall /\ answer'[a] = NoAnswer /\ UNCHANGED darling_errno
    BY DEF Return, TypeOK
<1>2. PhaseOf(a) = "done" /\ PhaseOf(a)' = "idle"
    BY <1>1 DEF PhaseOf
<1>3. Exchange(a).phase = "done"
    BY <1>2 DEF Exchange
<1>4. Exchange(a)' = Contract!At("idle", NoRequest, NoHostCall, NoAnswer, NoResult)
    BY <1>1, <1>2 DEF Exchange, Contract!At
<1>5. Exchanges[a] = Exchange(a) /\ Exchanges'[a] = Exchange(a)'
    BY DEF Exchanges
<1> QED
    BY <1>1, <1>3, <1>4, <1>5, OthersMap DEF Contract!Leave, Contract!Idle, Contract!At

\* The rest of the emulator's steps are its own affair.
LEMMA InternalMaps ==
    ASSUME TypeOK, NEW a \in Act, NoTrap',
           \/ HandleSyscall(a) \/ DispatchUnix(a) \/ SetReturnValues(a)
           \/ SysSyscall(a) \/ FinishWrite(a) \/ FinishPipe(a) \/ FinishRecvfrom(a)
    PROVE  Exchange(a)' = Exchange(a)
<1> DEFINE Own == {"entry", "unix", "set_return", "resume", "answered"} \cup InImpl
<1>1. ASSUME NEW e, NEW r0, NEW r1, LeaveImpl(a, e, r0, r1)
      PROVE  pc'[a] = "set_return" /\ UNCHANGED <<request, hostcall, answer>>
    BY <1>1 DEF LeaveImpl, TypeOK
<1>2. UNCHANGED <<request, hostcall, answer>> /\ pc[a] \in Own /\ pc'[a] \in Own
    <2>1. CASE HandleSyscall(a)
        BY <2>1 DEF HandleSyscall, TypeOK, InImpl
    <2>2. CASE DispatchUnix(a)
        <3>1. UnixRow(UnixNumber(builder[a])).func \in {"NULL"} \cup InImpl
            BY UnixRowType DEF InImpl
        <3>2. pc'[a] # "trap"
            BY DEF NoTrap
        <3> QED BY <2>2, <3>1, <3>2 DEF DispatchUnix, TypeOK, Frame
    <2>3. CASE SetReturnValues(a)
        <3>1. pc'[a] # "trap"
            BY DEF NoTrap
        <3> QED BY <2>3, <3>1 DEF SetReturnValues, TypeOK
    <2>4. CASE SysSyscall(a)
        BY <1>1, <2>4 DEF SysSyscall, InImpl
    <2>5. CASE FinishWrite(a) \/ FinishPipe(a) \/ FinishRecvfrom(a)
        <3>1. pc[a] = "answered"
            BY <2>5 DEF FinishWrite, FinishPipe, FinishRecvfrom
        <3>2. \E e, r0, r1 : LeaveImpl(a, e, r0, r1)
            BY <2>5 DEF FinishWrite, FinishPipe, FinishRecvfrom, HostFailed
        <3> QED BY <1>1, <3>1, <3>2
    <2> QED BY <2>1, <2>2, <2>3, <2>4, <2>5
<1> QED
    BY <1>2 DEF Exchange, PhaseOf, InImpl

-----------------------------------------------------------------------------
LEMMA InitMaps == Init => Contract!Init
<1> SUFFICES ASSUME Init
             PROVE  Contract!Init
    OBVIOUS
<1>1. ASSUME NEW a \in Act
      PROVE  Exchange(a) = Contract!Idle
    BY <1>1 DEF Init, Exchange, PhaseOf, Contract!Idle, Contract!At
<1> QED
    BY <1>1 DEF Init, Exchanges, Contract!Init

LEMMA StepMaps ==
    ASSUME TypeOK, AllFaithful, AllOnTrack', AllFaithful', NoTrap', [Next]_vars
    PROVE  [Contract!Next]_<<Exchanges, darling_errno>>
<1>1. ASSUME \A b \in Act : Exchange(b)' = Exchange(b)
      PROVE  UNCHANGED Exchanges
    BY <1>1 DEF Exchanges
<1>2. CASE UNCHANGED vars
    <2>1. \A b \in Act : Seen(b)' = Seen(b) /\ Kept(b)' = Kept(b)
        BY <1>2 DEF vars, Seen, Kept
    <2> QED BY <1>1, <1>2, <2>1, ExchangeKept DEF vars
<1>3. ASSUME NEW t \in Thread, NEW c \in Call, BeginCall(t, c)
      PROVE  Contract!Next
    <2> DEFINE a == <<t, depth[t] + 1>>
    <2>1. a \in Act
        <3>1. depth[t] \in Nat /\ MaxDepth \in Nat /\ depth[t] < MaxDepth
            BY <1>3, ConstantsAssumption DEF TypeOK, BeginCall
        <3> QED BY <3>1, ActParts
    <2>2. OthersSame(a)
        BY <1>3, BeginKeepsOthers, BeginKeepsRest, ExchangeKept DEF OthersSame
    <2>3. Faithful(a)
        BY <2>1 DEF AllFaithful
    <2> HIDE DEF a
    <2>4. Contract!Begin(a)
        BY <1>3, <2>1, <2>2, <2>3, BeginMaps DEF a
    <2> QED BY <2>1, <2>4 DEF Contract!Next
<1>4. ASSUME NEW t \in Thread, SetCerror(t)
      PROVE  Contract!Next
    <2>1. \A b \in Act : Exchange(b)' = Exchange(b)
        BY <1>4, SetCerrorKeepsAll, SetCerrorKeepsRest, ExchangeKept
    <2>2. /\ darling_errno'[t] = 0
          /\ \A u \in Thread \ {t} : darling_errno'[u] = darling_errno[u]
        BY <1>4 DEF SetCerror, ErrnoCell, TypeOK
    <2> QED BY <1>1, <2>1, <2>2 DEF Contract!Next, Contract!Reset, Contract!OtherErrnosKept
<1>5. ASSUME NEW a \in Act, Step(a)
      PROVE  [Contract!Next]_<<Exchanges, darling_errno>>
    <2>1. OthersSame(a)
        BY <1>5, StepKeepsOthers, StepKeepsRest, ExchangeKept DEF OthersSame, Step
    <2>2. Faithful(a) /\ Faithful(a)' /\ OnTrack(a)'
        BY DEF AllFaithful, AllOnTrack
    <2>3. CASE SysWrite(a) \/ SysRecvfrom(a) \/ SysPipe(a)
        BY <2>1, <2>2, <2>3, AskMaps DEF Contract!Next
    <2>4. CASE HostAnswer(a)
        BY <2>1, <2>2, <2>4, AnswerMaps DEF Contract!Next
    <2>5. CASE StubReturn(a)
        BY <2>1, <2>2, <2>5, CompleteMaps DEF Contract!Next
    <2>6. CASE Return(a)
        BY <2>1, <2>6, LeaveMaps DEF Contract!Next
    <2>7. CASE \/ HandleSyscall(a) \/ DispatchUnix(a) \/ SetReturnValues(a)
               \/ SysSyscall(a) \/ FinishWrite(a) \/ FinishPipe(a) \/ FinishRecvfrom(a)
        <3>1. Exchange(a)' = Exchange(a)
            BY <2>7, InternalMaps
        <3>2. ~StubReturn(a)
            BY <2>7 DEF StubReturn, HandleSyscall, DispatchUnix, SetReturnValues, SysSyscall,
                        FinishWrite, FinishPipe, FinishRecvfrom
        <3>3. UNCHANGED darling_errno
            BY <1>5, <3>2, ErrnoUntouched DEF Step
        <3> QED BY <1>1, <2>1, <3>1, <3>3 DEF OthersSame
    <2> QED BY <1>5, <2>3, <2>4, <2>5, <2>6, <2>7 DEF Step, Emulate
<1> QED
    BY <1>2, <1>3, <1>4, <1>5 DEF Next

\* The bridge, the dispatcher, bsd/impl and the stubs keep the contract of a system call,
\* whatever other threads and signal handlers do in the middle of it.  (Of errno the
\* contract asks what SaysWhy says: the call's own, but for handlers on an Apple host.)
THEOREM ContractImplemented == Spec => ContractKept
<1>1. Init => Contract!Init
    BY InitMaps
<1>2. /\ TypeOK /\ AllOnTrack /\ AllFaithful
      /\ (TypeOK /\ AllOnTrack /\ AllFaithful)' /\ NoTrap' /\ [Next]_vars
      => [Contract!Next]_<<Exchanges, darling_errno>>
    BY StepMaps
<1> QED
    BY <1>1, <1>2, AlwaysFaithful, TrapsUnreachable, PTL DEF Spec, ContractKept, Contract!Spec
=============================================================================
