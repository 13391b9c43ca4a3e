----------------------- MODULE DarlingSyscallProofs -----------------------
(***************************************************************************)
(* Safety of DarlingSyscall: neither trap of the C bridge is reached, and  *)
(* the host kernel gets the arguments the C caller gave.                   *)
(***************************************************************************)
EXTENDS DarlingSyscallTypes

-----------------------------------------------------------------------------
(***************************************************************************)
(* What a step leaves alone.                                               *)
(***************************************************************************)
\* What the two invariants look at.
Seen(a) == <<pc[a], request[a], regs[a], builder[a], retargs[a], error[a], hostcall[a]>>

\* The beginning of a call touches no other activation.
LEMMA BeginKeepsOthers ==
    ASSUME TypeOK, NEW t \in Thread, NEW c \in Call, BeginCall(t, c),
           NEW b \in Act, b # <<t, depth[t] + 1>>
    PROVE  Seen(b)' = Seen(b)
BY DEF TypeOK, BeginCall, Seen

\* A reset of darling_errno touches none.
LEMMA SetCerrorKeepsAll ==
    ASSUME NEW t \in Thread, SetCerror(t), NEW b \in Act
    PROVE  Seen(b)' = Seen(b)
BY DEF SetCerror, Seen

\* A step of one activation leaves the locals and the registers of the others alone.
LEMMA StepKeepsOthers ==
    ASSUME TypeOK, NEW a \in Act, Emulate(a) \/ HostAnswer(a) \/ Return(a),
           NEW b \in Act, b # a
    PROVE  Seen(b)' = Seen(b)
<1>1. CASE HandleSyscall(a)
    BY <1>1 DEF TypeOK, HandleSyscall, Seen, Frame
<1>2. CASE DispatchUnix(a)
    BY <1>2 DEF TypeOK, DispatchUnix, Seen, Frame
<1>3. CASE SetReturnValues(a)
    BY <1>3 DEF TypeOK, SetReturnValues, Seen, Frame
<1>4. CASE StubReturn(a)
    BY <1>4 DEF TypeOK, StubReturn, Seen
<1>5. ASSUME NEW type, NEW nr, NEW args, CallHost(a, type, nr, args)
      PROVE  Seen(b)' = Seen(b)
    BY <1>5 DEF TypeOK, CallHost, Seen, Frame
<1>6. ASSUME NEW e, NEW r0, NEW r1, LeaveImpl(a, e, r0, r1)
      PROVE  Seen(b)' = Seen(b)
    BY <1>6 DEF TypeOK, LeaveImpl, Seen, Frame
<1>7. ASSUME NEW k, NEW u, Answered(a, k, u)
      PROVE  Seen(b)' = Seen(b)
    BY <1>7 DEF TypeOK, Answered, Seen
<1>8. CASE Return(a)
    BY <1>8 DEF TypeOK, Return, Seen, Frame
<1>9. CASE SysWrite(a) \/ SysRecvfrom(a) \/ SysPipe(a)
    BY <1>5, <1>9 DEF SysWrite, SysRecvfrom, SysPipe
<1>10. CASE HostFailed(a)
    BY <1>6, <1>10 DEF HostFailed
<1>11. CASE SysSyscall(a)
    BY <1>6, <1>11 DEF SysSyscall
<1>12. CASE FinishWrite(a)
    BY <1>6, <1>10, <1>12 DEF FinishWrite
<1>13. CASE FinishPipe(a)
    BY <1>6, <1>10, <1>13 DEF FinishPipe
<1>14. CASE FinishRecvfrom(a)
    BY <1>6, <1>10, <1>14 DEF FinishRecvfrom
<1>15. CASE HostAnswer(a)
    BY <1>7, <1>15 DEF HostAnswer, HostRefuses, HostTransfers, HostReceives, HostMakesPipe
<1> QED
    BY <1>1, <1>2, <1>3, <1>4, <1>8, <1>9, <1>11, <1>12, <1>13, <1>14, <1>15 DEF Emulate

-----------------------------------------------------------------------------
(***************************************************************************)
(* NoTrap.                                                                 *)
(***************************************************************************)
\* No row of the table has more parameters than the argument array has room for.
LEMMA FewParams ==
    ASSUME NEW b \in Builder, NEW n
    PROVE  ~TooManyParams([b EXCEPT !.arg_count = UnixRow(n).arg_count])
<1> DEFINE b2 == [b EXCEPT !.arg_count = UnixRow(n).arg_count]
<1>1. b2.arg_count \in {0, 3, 6}
    BY UnixRowType DEF Builder
<1>2. /\ param_size(b2) \in 0..7
      /\ max_params(b2) \in {9, 10}
    <2> HIDE DEF b2
    <2>1. \A i \in {0, 3, 6} : i + 0 \in 0..7 /\ i + 1 \in 0..7
        OBVIOUS
    <2>2. CASE b2.indirect
        <3>1. param_size(b2) = b2.arg_count + 1 /\ max_params(b2) = 10
            BY <2>2 DEF param_size, max_params
        <3> QED BY <1>1, <2>1, <3>1
    <2>3. CASE ~b2.indirect
        <3>1. param_size(b2) = b2.arg_count + 0 /\ max_params(b2) = 9
            BY <2>3 DEF param_size, max_params
        <3> QED BY <1>1, <2>1, <3>1
    <2> QED BY <2>2, <2>3
<1> HIDE DEF b2
<1>3. \A i \in 0..7, j \in {9, 10} : ~(i > j)
    OBVIOUS
<1> QED
    BY <1>2, <1>3 DEF TooManyParams, b2

\* ENOSYS is neither 0 nor one of the two codes set_return_values ignores.
LEMMA EnosysIsError == IsError(ENOSYS)
<1>1. ENOSYS > 0
    BY EnosysType, Limits DEF ErrnoValue
<1>2. ENOSYS # 0 /\ ENOSYS # -1 /\ ENOSYS # -2
    <2>1. \A i \in Int : i > 0 => i # 0 /\ i # -1 /\ i # -2
        OBVIOUS
    <2>2. ENOSYS \in Int
        BY EnosysType, Limits DEF ErrnoValue
    <2> QED BY <1>1, <2>1, <2>2
<1> QED
    BY <1>2 DEF IsError, ERESTART, EJUSTRETURN

\* One step of activation a keeps a from trapping.
LEMMA NoTrapStep ==
    ASSUME TypeOK, NEW a \in Act, WillNotTrap(a),
           Emulate(a) \/ HostAnswer(a) \/ Return(a)
    PROVE  WillNotTrap(a)'
<1> USE DEF Frame
<1>1. retargs[a] \in Retargs /\ Retargs = Retargs'
    BY DEF TypeOK
<1>2. CASE HandleSyscall(a)
    BY <1>2 DEF TypeOK, HandleSyscall, WillNotTrap, JunkRetargs, Traps
<1>3. CASE DispatchUnix(a)
    <2> DEFINE b   == UnixBuilder(builder[a])
               row == UnixRow(UnixNumber(builder[a]))
               b2  == [b EXCEPT !.arg_count = row.arg_count]
    <2>1. b \in Builder
        BY UnixBuilderType DEF TypeOK
    <2>2. ~TooManyParams(b2)
        BY <2>1, FewParams
    <2>3. row.func \notin {"trap", "host", "answered", "set_return"}
        BY UnixRowType
    <2> HIDE DEF b2, row
    <2>4. \/ pc'[a] = "set_return" /\ error'[a] = ENOSYS
          \/ pc'[a] = row.func
        BY <1>3, <2>2 DEF DispatchUnix, TypeOK, b2, row
    <2> QED BY <2>3, <2>4, EnosysIsError DEF WillNotTrap, Traps
<1>4. CASE SetReturnValues(a)
    BY <1>4 DEF TypeOK, SetReturnValues, WillNotTrap
<1>5. CASE StubReturn(a)
    BY <1>5 DEF TypeOK, StubReturn, WillNotTrap
<1>6. CASE Return(a)
    BY <1>6 DEF TypeOK, Return, WillNotTrap
<1>7. ASSUME NEW type \in RetargTypes, type # "INVALID", NEW nr, NEW args,
             CallHost(a, type, nr, args)
      PROVE  WillNotTrap(a)'
    BY <1>1, <1>7 DEF TypeOK, CallHost, WillNotTrap, Retargs
<1>8. CASE SysWrite(a) \/ SysRecvfrom(a) \/ SysPipe(a)
    BY <1>7, <1>8 DEF SysWrite, SysRecvfrom, SysPipe, RetargTypes, Wide
<1>9. CASE HostAnswer(a)
    <2>1. PICK k, u : Answered(a, k, u)
        BY <1>9 DEF HostAnswer, HostRefuses, HostTransfers, HostReceives, HostMakesPipe
    <2> QED BY <2>1 DEF TypeOK, Answered, WillNotTrap
<1>10. ASSUME NEW e, NEW r0, NEW r1, LeaveImpl(a, e, r0, r1),
              retargs[a].result_type # "INVALID" \/ IsError(e)
       PROVE  WillNotTrap(a)'
    <2>1. /\ pc'[a] = "set_return" /\ error'[a] = e
          /\ retargs'[a].result_type = retargs[a].result_type
        BY <1>1, <1>10 DEF TypeOK, LeaveImpl, Retargs
    <2> QED BY <1>10, <2>1 DEF WillNotTrap, Traps
<1>11. CASE SysSyscall(a)
    BY <1>10, <1>11, EnosysIsError DEF SysSyscall
<1>12. pc[a] = "answered" => retargs[a].result_type # "INVALID"
    BY DEF WillNotTrap
<1>13. CASE FinishWrite(a)
    BY <1>10, <1>12, <1>13 DEF FinishWrite, HostFailed
<1>14. CASE FinishPipe(a)
    BY <1>10, <1>12, <1>14 DEF FinishPipe, HostFailed
<1>15. CASE FinishRecvfrom(a)
    BY <1>10, <1>12, <1>15 DEF FinishRecvfrom, HostFailed
<1> QED
    BY <1>2, <1>3, <1>4, <1>5, <1>6, <1>8, <1>9, <1>11, <1>13, <1>14, <1>15 DEF Emulate

LEMMA ResultTypeSetStep == TypeOK /\ ResultTypeSet /\ [Next]_vars => ResultTypeSet'
<1> SUFFICES ASSUME TypeOK, ResultTypeSet, [Next]_vars, NEW b \in Act
             PROVE  WillNotTrap(b)'
    BY DEF ResultTypeSet
<1>1. WillNotTrap(b)
    BY DEF ResultTypeSet
<1>2. ASSUME Seen(b)' = Seen(b)
      PROVE  WillNotTrap(b)'
    BY <1>1, <1>2 DEF Seen, WillNotTrap, Frame
<1>3. CASE UNCHANGED vars
    BY <1>2, <1>3 DEF vars, Seen
<1>4. ASSUME NEW t \in Thread, NEW c \in Call, BeginCall(t, c)
      PROVE  WillNotTrap(b)'
    <2>1. CASE b = <<t, depth[t] + 1>>
        BY <1>4, <2>1 DEF TypeOK, BeginCall, WillNotTrap
    <2>2. CASE b # <<t, depth[t] + 1>>
        BY <1>2, <1>4, <2>2, BeginKeepsOthers
    <2> QED BY <2>1, <2>2
<1>5. ASSUME NEW a \in Act, Step(a)
      PROVE  WillNotTrap(b)'
    <2>1. CASE b = a
        BY <1>1, <1>5, <2>1, NoTrapStep DEF Step
    <2>2. CASE b # a
        BY <1>2, <1>5, <2>2, StepKeepsOthers DEF Step
    <2> QED BY <2>1, <2>2
<1>6. CASE \E t \in Thread : SetCerror(t)
    BY <1>2, <1>6, SetCerrorKeepsAll
<1> QED
    BY <1>3, <1>4, <1>5, <1>6 DEF Next

\* Whatever the program calls and the host kernel answers, __builtin_trap() is not
\* executed.
THEOREM TrapsUnreachable == Spec => []NoTrap
<1>1. Init => ResultTypeSet
    BY DEF Init, ResultTypeSet, WillNotTrap
<1>2. TypeOK /\ ResultTypeSet /\ [Next]_vars => ResultTypeSet'
    BY ResultTypeSetStep
<1>3. ResultTypeSet => NoTrap
    BY DEF ResultTypeSet, WillNotTrap, NoTrap
<1> QED
    BY <1>1, <1>2, <1>3, TypeCorrect, PTL DEF Spec

-----------------------------------------------------------------------------
(***************************************************************************)
(* ArgumentsDelivered.                                                     *)
(***************************************************************************)
\* The first six arguments in the array before the dispatch.
EntryArray(arg) == <<CArg(arg, 1), CArg(arg, 2), CArg(arg, 3), CArg(arg, 4),
                     CArg(arg, 5), CArg(arg, 6), Junk, Junk, Junk>>

LEMMA EntryBuilder ==
    ASSUME NEW eax \in Int32, NEW arg \in Seq(Word)
    PROVE  partial_args_init(EntryRegs(eax, arg)) =
             [sysnum |-> get_sysnum(eax), arg |-> EntryArray(arg),
              indirect |-> FALSE, arg_count |-> 0]
BY DEF partial_args_init, EntryRegs, EntryArray, AsInt, ZeroExtend

\* A direct call: the six registers.
LEMMA DirectArgs ==
    ASSUME NEW b \in Builder, NEW r, NEW arg, ~b.indirect, b.arg = EntryArray(arg)
    PROVE  \A i \in 1..6 : full_args_init(b, r, arg).arg[i] = CArg(arg, i)
<1>1. starting_arg(b) = 7
    BY DEF starting_arg
<1>2. ASSUME NEW i \in 1..6
      PROVE  full_args_init(b, r, arg).arg[i] = b.arg[i]
    <2>1. i \in ArgIndex /\ ~(i >= 7)
        BY DEF ArgIndex
    <2> QED BY <1>1, <2>1 DEF full_args_init, Builder
<1>3. \A i \in 1..6 : b.arg[i] = CArg(arg, i)
    BY DEF EntryArray
<1> QED
    BY <1>2, <1>3

\* An indirect call: five registers, and for a call of six arguments one word of
\* the stack.
LEMMA IndirectArgs ==
    ASSUME NEW b \in Builder, NEW eax, NEW arg, b.indirect
    PROVE  LET full == full_args_init(b, EntryRegs(eax, arg), arg)
           IN  /\ \A i \in 1..5 : full.arg[i] = CArg(arg, 1 + i)
               /\ b.arg_count = 6 => full.arg[6] = CArg(arg, 7)
<1> DEFINE r == EntryRegs(eax, arg)
           shifted == [b.arg EXCEPT ![1] = r.rsi, ![2] = r.rdx, ![3] = r.r10,
                                    ![4] = r.r8,  ![5] = r.r9]
           full == full_args_init(b, r, arg)
<1>1. starting_arg(b) = 6
    BY DEF starting_arg
<1>2. ASSUME NEW i \in 1..5
      PROVE  full.arg[i] = shifted[i]
    <2>1. i \in ArgIndex /\ ~(i >= 6)
        BY DEF ArgIndex
    <2> QED BY <1>1, <2>1 DEF full_args_init, Builder
<1>3. /\ shifted[1] = CArg(arg, 2) /\ shifted[2] = CArg(arg, 3) /\ shifted[3] = CArg(arg, 4)
      /\ shifted[4] = CArg(arg, 5) /\ shifted[5] = CArg(arg, 6)
    BY DEF Builder, ArgIndex, EntryRegs
<1> HIDE DEF shifted
<1>4. \A i \in 1..5 : shifted[i] = CArg(arg, 1 + i)
    BY <1>3
<1>5. ASSUME b.arg_count = 6
      PROVE  full.arg[6] = CArg(arg, 7)
    <2>1. 6 \in ArgIndex /\ param_size(b) = 7
        BY <1>5 DEF ArgIndex, param_size
    <2>2. full.arg[6] = StackWord(arg, rsp_ptr + (6 - 6))
        BY <1>1, <2>1 DEF full_args_init, Builder
    <2> QED BY <2>2 DEF StackWord, rsp_ptr
<1> QED
    BY <1>2, <1>4, <1>5

\* What the rows of the table say.
LEMMA DispatchedRow ==
    ASSUME NEW n
    PROVE  /\ UnixRow(n).func = "sys_write" => n = 4 /\ UnixRow(n).arg_count = 3
           /\ UnixRow(n).func = "sys_recvfrom" => n = 29 /\ UnixRow(n).arg_count = 6
           /\ UnixRow(n).func = "sys_pipe" => n = 42
<1>1. CASE n \in 0 .. DARLING_SYSCALLTABLE_UNIX_MAXSIZE - 1
    <2>1. UnixRow(n) = unix_syscall_table[n]
        BY <1>1 DEF UnixRow
    <2>2. \/ n = 4 /\ unix_syscall_table[n] = [func |-> "sys_write", arg_count |-> 3]
          \/ n = 29 /\ unix_syscall_table[n] = [func |-> "sys_recvfrom", arg_count |-> 6]
          \/ n = 42 /\ unix_syscall_table[n] = [func |-> "sys_pipe", arg_count |-> 0]
          \/ unix_syscall_table[n] \in {[func |-> "sys_syscall", arg_count |-> 0], Unimplemented}
        BY <1>1 DEF unix_syscall_table
    <2> QED BY <2>1, <2>2 DEF Unimplemented
<1>2. CASE n \notin 0 .. DARLING_SYSCALLTABLE_UNIX_MAXSIZE - 1
    BY <1>2 DEF UnixRow, Unimplemented
<1> QED
    BY <1>1, <1>2

\* The dispatcher picks the function the program means, and hands it the C arguments.
LEMMA DispatchDelivers ==
    ASSUME TypeOK, NEW a \in Act, OnTheWay(a), DispatchUnix(a)
    PROVE  OnTheWay(a)'
<1> USE DEF Frame
<1> DEFINE c   == request[a]
           m   == Meant(c)
           b   == UnixBuilder(builder[a])
           n   == UnixNumber(builder[a])
           row == UnixRow(n)
           b2  == [b EXCEPT !.arg_count = row.arg_count]
           full == full_args_init(b2, regs[a], c.arg)
<1>1. /\ c.eax \in Int32 /\ c.arg \in Seq(Word)
      /\ regs[a] = EntryRegs(c.eax, c.arg)
      /\ m.func # "ignored"
      /\ builder[a] = [sysnum |-> get_sysnum(c.eax), arg |-> EntryArray(c.arg),
                       indirect |-> FALSE, arg_count |-> 0]
    <2>1. c.eax \in Int32 /\ c.arg \in Seq(Word)
        BY DEF TypeOK, CallRecord
    <2> QED BY <2>1, EntryBuilder DEF OnTheWay, DispatchUnix
<1>2. /\ b2 \in Builder /\ b2.arg = EntryArray(c.arg) /\ b2.arg_count = row.arg_count
      /\ b2.indirect <=> get_sysnum(c.eax) = 0
    <2>1. b \in Builder
        BY UnixBuilderType DEF TypeOK
    <2>2. b.arg = EntryArray(c.arg) /\ b.indirect = (get_sysnum(c.eax) = 0)
        BY <1>1 DEF UnixBuilder
    <2>3. row.arg_count \in Nat
        BY UnixRowType
    <2> HIDE DEF b, row
    <2> QED BY <2>1, <2>2, <2>3 DEF Builder
<1>3. n = IF get_sysnum(c.eax) = 0 THEN AsInt(CArg(c.arg, 1)) ELSE get_sysnum(c.eax)
    BY <1>1 DEF UnixNumber, EntryArray
<1>4. /\ row.func = "sys_write" => n = 4 /\ row.arg_count = 3
      /\ row.func = "sys_recvfrom" => n = 29 /\ row.arg_count = 6
      /\ row.func = "sys_pipe" => n = 42
    BY DispatchedRow
<1>5. /\ n = 4 => m.func = "write"
      /\ n = 29 => m.func = "recvfrom"
      /\ n = 42 => m.func = "pipe"
    BY <1>1, <1>3 DEF Meant
<1>6. m.arg = [i \in 1..6 |-> CArg(c.arg, (IF get_sysnum(c.eax) = 0 THEN 1 ELSE 0) + i)]
    BY DEF Meant
<1> HIDE DEF b, b2, n, row, m
<1>7. /\ \A i \in 1..3 : full.arg[i] = m.arg[i]
      /\ row.arg_count = 6 => \A i \in 1..6 : full.arg[i] = m.arg[i]
    <2>1. CASE get_sysnum(c.eax) = 0
        <3>1. /\ \A i \in 1..5 : full.arg[i] = CArg(c.arg, 1 + i)
              /\ row.arg_count = 6 => full.arg[6] = CArg(c.arg, 7)
            BY <1>1, <1>2, <2>1, IndirectArgs
        <3>2. \A i \in 1..6 : m.arg[i] = CArg(c.arg, 1 + i)
            BY <1>6, <2>1
        <3> HIDE DEF full, c
        <3>3. \A i \in 1..5 : full.arg[i] = m.arg[i]
            BY <3>1, <3>2
        <3>4. row.arg_count = 6 => full.arg[6] = m.arg[6]
            BY <3>1, <3>2
        <3> QED BY <3>3, <3>4
    <2>2. CASE get_sysnum(c.eax) # 0
        <3>1. \A i \in 1..6 : full.arg[i] = CArg(c.arg, i)
            BY <1>2, <2>2, DirectArgs
        <3>2. \A i \in 1..6 : m.arg[i] = CArg(c.arg, i)
            BY <1>6, <2>2
        <3> HIDE DEF full, c
        <3> QED BY <3>1, <3>2
    <2> QED BY <2>1, <2>2
<1> HIDE DEF full, c
<1>8. /\ pc'[a] \in {"set_return", "trap"} \/ (pc'[a] = row.func /\ builder'[a] = full)
      /\ UNCHANGED request
    BY DEF DispatchUnix, TypeOK, b, b2, n, row, full, c
<1>9. row.func \notin {"entry", "unix"}
    BY UnixRowType DEF row
<1>10. m' = m
    BY <1>8 DEF m, c, Meant
<1> QED
    BY <1>4, <1>5, <1>7, <1>8, <1>9, <1>10 DEF OnTheWay, m, c

\* One step of activation a keeps a on track.
LEMMA DeliveryStep ==
    ASSUME TypeOK, NEW a \in Act, OnTrack(a),
           Emulate(a) \/ HostAnswer(a) \/ Return(a)
    PROVE  OnTrack(a)'
<1> USE DEF Frame
<1> DEFINE m == Meant(request[a])
           b == builder[a]
           OffTheWay == {"idle", "set_return", "resume", "returned", "trap", "answered"}
<1>1. ASSUME pc'[a] \in OffTheWay
      PROVE  OnTrack(a)'
    BY <1>1 DEF OnTrack, OnTheWay
<1>2. CASE HandleSyscall(a)
    <2>1. regs[a] = EntryRegs(request[a].eax, request[a].arg)
        BY <1>2 DEF OnTrack, OnTheWay, HandleSyscall
    <2>2. class_mask(AsInt(regs[a].rax)) = class_mask(request[a].eax)
        BY <2>1 DEF EntryRegs, ZeroExtend, AsInt
    <2>3. CASE class_mask(request[a].eax) = SYSCALL_CLASS_UNIX
        <3>1. pc'[a] = "unix" /\ builder'[a] = partial_args_init(regs[a])
              /\ UNCHANGED <<request, regs>>
            BY <1>2, <2>2, <2>3 DEF HandleSyscall, TypeOK
        <3>2. m.func # "ignored"
            BY <2>3 DEF Meant
        <3>3. m' = m
            BY <3>1 DEF Meant
        <3> HIDE DEF m
        <3> QED BY <2>1, <3>1, <3>2, <3>3 DEF OnTrack, OnTheWay, m
    <2>4. CASE class_mask(request[a].eax) # SYSCALL_CLASS_UNIX
        <3>1. pc'[a] = "set_return"
            BY <1>2, <2>2, <2>4 DEF HandleSyscall, TypeOK
        <3> QED BY <1>1, <3>1
    <2> QED BY <2>3, <2>4
<1>3. CASE DispatchUnix(a)
    <2>1. OnTheWay(a)'
        BY <1>3, DispatchDelivers DEF OnTrack
    <2>2. UnixRow(UnixNumber(builder[a])).func # "host"
        BY UnixRowType
    <2>3. pc'[a] # "host"
        BY <1>3, <2>2 DEF DispatchUnix, TypeOK
    <2> QED BY <2>1, <2>3 DEF OnTrack
<1>4. ASSUME NEW type, NEW nr, NEW args, CallHost(a, type, nr, args),
             m.func \in Served, nr = m.func,
             FitsInt(m.func, m.arg) => args = DeclaredArgs(m.func, m.arg)
      PROVE  OnTrack(a)'
    <2>1. /\ pc'[a] = "host" /\ request'[a] = request[a]
          /\ hostcall'[a].nr = nr /\ hostcall'[a].args = args
        BY <1>4 DEF CallHost, TypeOK
    <2>2. Delivered(a)'
        BY <1>4, <2>1 DEF Delivered, Delivers
    <2> QED BY <2>1, <2>2 DEF OnTrack, OnTheWay
<1>5. CASE SysWrite(a)
    <2>1. m.func = "write" /\ \A i \in 1..3 : b.arg[i] = m.arg[i]
        BY <1>5 DEF OnTrack, OnTheWay, SysWrite
    <2> DEFINE args == <<SignExtend(AsInt(b.arg[1])), b.arg[2], SignExtend(AsInt(b.arg[3]))>>
    <2>2. FitsInt(m.func, m.arg) => args = DeclaredArgs(m.func, m.arg)
        <3> HIDE DEF m, b
        <3>1. b.arg[1] = m.arg[1] /\ b.arg[2] = m.arg[2] /\ b.arg[3] = m.arg[3]
            BY <2>1
        <3> QED BY <2>1, <3>1 DEF FitsInt, DeclaredArgs, IntParam
    <2>3. CallHost(a, "SSIZE_T", "write", args)
        BY <1>5 DEF SysWrite
    <2> HIDE DEF args, m
    <2> QED BY <1>4, <2>1, <2>2, <2>3 DEF Served
<1>6. CASE SysRecvfrom(a)
    <2>1. m.func = "recvfrom" /\ \A i \in 1..6 : b.arg[i] = m.arg[i]
        BY <1>6 DEF OnTrack, OnTheWay, SysRecvfrom
    <2> DEFINE args == <<SignExtend(AsInt(b.arg[1])), b.arg[2], b.arg[3],
                         SignExtend(AsInt(b.arg[4])), b.arg[5], b.arg[6]>>
    <2>2. args = DeclaredArgs(m.func, m.arg)
        <3> HIDE DEF m, b
        <3>1. /\ b.arg[1] = m.arg[1] /\ b.arg[2] = m.arg[2] /\ b.arg[3] = m.arg[3]
              /\ b.arg[4] = m.arg[4] /\ b.arg[5] = m.arg[5] /\ b.arg[6] = m.arg[6]
            BY <2>1
        <3> QED BY <2>1, <3>1 DEF DeclaredArgs, IntParam
    <2>3. CallHost(a, "INT_T", "recvfrom", args)
        BY <1>6 DEF SysRecvfrom
    <2> HIDE DEF args, m
    <2> QED BY <1>4, <2>1, <2>2, <2>3 DEF Served
<1>7. CASE SysPipe(a)
    <2>1. m.func = "pipe"
        BY <1>7 DEF OnTrack, OnTheWay, SysPipe
    <2>2. DeclaredArgs(m.func, m.arg) = <<>>
        BY <2>1 DEF DeclaredArgs
    <2>3. CallHost(a, "INT_T", "pipe", <<>>)
        BY <1>7 DEF SysPipe
    <2> HIDE DEF m
    <2> QED BY <1>4, <2>1, <2>2, <2>3 DEF Served
<1>8. ASSUME NEW e, NEW r0, NEW r1, LeaveImpl(a, e, r0, r1)
      PROVE  OnTrack(a)'
    <2>1. pc'[a] = "set_return"
        BY <1>8 DEF LeaveImpl, TypeOK
    <2> QED BY <1>1, <2>1
<1>9. CASE SysSyscall(a) \/ FinishWrite(a) \/ FinishPipe(a) \/ FinishRecvfrom(a)
    BY <1>8, <1>9 DEF SysSyscall, FinishWrite, FinishPipe, FinishRecvfrom, HostFailed
<1>10. CASE HostAnswer(a)
    <2>1. PICK k, u : Answered(a, k, u)
        BY <1>10 DEF HostAnswer, HostRefuses, HostTransfers, HostReceives, HostMakesPipe
    <2>2. pc'[a] = "answered"
        BY <2>1 DEF Answered, TypeOK
    <2> QED BY <1>1, <2>2
<1>11. CASE SetReturnValues(a) \/ StubReturn(a) \/ Return(a)
    <2>1. pc'[a] \in OffTheWay
        BY <1>11 DEF SetReturnValues, StubReturn, Return, TypeOK
    <2> QED BY <1>1, <2>1
<1> QED
    BY <1>2, <1>3, <1>5, <1>6, <1>7, <1>9, <1>10, <1>11 DEF Emulate

LEMMA AllOnTrackStep == TypeOK /\ AllOnTrack /\ [Next]_vars => AllOnTrack'
<1> SUFFICES ASSUME TypeOK, AllOnTrack, [Next]_vars, NEW b \in Act
             PROVE  OnTrack(b)'
    BY DEF AllOnTrack
<1>1. OnTrack(b)
    BY DEF AllOnTrack
<1>2. ASSUME Seen(b)' = Seen(b)
      PROVE  OnTrack(b)'
    <2>1. /\ pc'[b] = pc[b] /\ request'[b] = request[b] /\ regs'[b] = regs[b]
          /\ builder'[b] = builder[b] /\ hostcall'[b] = hostcall[b]
        BY <1>2 DEF Seen
    <2> QED BY <1>1, <2>1 DEF OnTrack, OnTheWay, Delivered, Delivers, Frame
<1>3. CASE UNCHANGED vars
    BY <1>2, <1>3 DEF vars, Seen
<1>4. ASSUME NEW t \in Thread, NEW c \in Call, BeginCall(t, c)
      PROVE  OnTrack(b)'
    <2>1. CASE b = <<t, depth[t] + 1>>
        <3>1. /\ pc'[b] = "entry" /\ request'[b] = c
              /\ regs'[b] = EntryRegs(c.eax, c.arg)
            BY <1>4, <2>1 DEF TypeOK, BeginCall
        <3> QED BY <3>1 DEF OnTrack, OnTheWay
    <2>2. CASE b # <<t, depth[t] + 1>>
        BY <1>2, <1>4, <2>2, BeginKeepsOthers
    <2> QED BY <2>1, <2>2
<1>5. ASSUME NEW a \in Act, Step(a)
      PROVE  OnTrack(b)'
    <2>1. CASE b = a
        BY <1>1, <1>5, <2>1, DeliveryStep DEF Step
    <2>2. CASE b # a
        BY <1>2, <1>5, <2>2, StepKeepsOthers DEF Step
    <2> QED BY <2>1, <2>2
<1>6. CASE \E t \in Thread : SetCerror(t)
    BY <1>2, <1>6, SetCerrorKeepsAll
<1> QED
    BY <1>3, <1>4, <1>5, <1>6 DEF Next

\* The host kernel is asked for what the C caller asked for, directly or through
\* syscall(), whatever other threads and signal handlers do in between.
THEOREM ArgumentsReachHost == Spec => []ArgumentsDelivered
<1>1. Init => AllOnTrack
    BY DEF Init, AllOnTrack, OnTrack, OnTheWay
<1>2. TypeOK /\ AllOnTrack /\ [Next]_vars => AllOnTrack'
    BY AllOnTrackStep
<1>3. AllOnTrack => ArgumentsDelivered
    BY DEF AllOnTrack, OnTrack, ArgumentsDelivered
<1> QED
    BY <1>1, <1>2, <1>3, TypeCorrect, PTL DEF Spec
=============================================================================
