------------------------ MODULE DarlingSyscallTypes ------------------------
(***************************************************************************)
(* Type correctness of DarlingSyscall, for every set of threads, every     *)
(* nesting depth, both hosts, every call and every answer of the host      *)
(* kernel: one lemma for each operator the actions are built from, one for *)
(* each action, and the theorem.                                           *)
(***************************************************************************)
EXTENDS DarlingSyscallProperties, TLAPS

-----------------------------------------------------------------------------
(***************************************************************************)
(* Types of the operators the actions are built from.                      *)
(***************************************************************************)
\* The casts of the C code yield 64-bit words.
LEMMA WordTypes ==
    /\ \A i \in Int32 : SignExtend(i) \in Word /\ ZeroExtend(i) \in Word
    /\ \A i, j \in Int32 : OfPair(i, j) \in Word
    /\ \A w \in Word : AsInt(w) \in Int32
    /\ NULL \in Word /\ MinusOne \in Word
<1>1. -1 \in Int32 /\ 0 \in Int32
    BY IntMaxAssumption DEF Int32
<1> QED
    BY <1>1 DEF Word, SignExtend, ZeroExtend, OfPair, AsInt, NULL, MinusOne

\* SYSCALL_NUMBER_MASK leaves a number that fits an int.
LEMMA SysnumType ==
    ASSUME NEW eax \in Int32
    PROVE  get_sysnum(eax) \in Int32
<1>1. eax \in Int
    BY IntMaxAssumption DEF Int32
<1>2. ClassUnit \in Nat /\ ClassUnit > 0
    BY DEF ClassUnit
<1>3. eax % ClassUnit \in Int /\ eax % ClassUnit >= 0 /\ eax % ClassUnit < ClassUnit
    BY <1>1, <1>2
<1> QED
    BY <1>2, <1>3, IntMaxAssumption, SysnumAssumption DEF get_sysnum, Int32

\* An argument is a word, given or not.
LEMMA CArgType ==
    ASSUME NEW arg \in Seq(Word), NEW i \in Nat
    PROVE  CArg(arg, i) \in Word
BY JunkAssumption DEF CArg

\* The registers at the trap.
LEMMA EntryRegsType ==
    ASSUME NEW eax \in Int32, NEW arg \in Seq(Word)
    PROVE  EntryRegs(eax, arg) \in RegBlock
<1>1. \A i \in Nat : CArg(arg, i) \in Word
    BY CArgType
<1>2. ZeroExtend(eax) \in Word
    BY WordTypes
<1> QED
    BY <1>1, <1>2, JunkAssumption DEF EntryRegs, RegBlock

\* The argument array from the registers.
LEMMA PartialArgsType ==
    ASSUME NEW r \in RegBlock
    PROVE  partial_args_init(r) \in Builder
<1>1. get_sysnum(AsInt(r.rax)) \in Int32
    BY WordTypes, SysnumType DEF RegBlock
<1>2. <<r.rdi, r.rsi, r.rdx, r.r10, r.r8, r.r9, Junk, Junk, Junk>> \in [ArgIndex -> Word]
    BY JunkAssumption DEF RegBlock, ArgIndex
<1> QED
    BY <1>1, <1>2 DEF partial_args_init, Builder

\* The argument array from the registers and the stack.
LEMMA FullArgsType ==
    ASSUME NEW b \in Builder, NEW r \in RegBlock, NEW arg \in Seq(Word)
    PROVE  full_args_init(b, r, arg) \in Builder
<1> DEFINE fromRegs == IF b.indirect
                       THEN [b.arg EXCEPT ![1] = r.rsi, ![2] = r.rdx, ![3] = r.r10,
                                          ![4] = r.r8,  ![5] = r.r9]
                       ELSE b.arg
           onStack(i) == i >= starting_arg(b) /\ i - starting_arg(b) < param_size(b) - 6
           full == [i \in ArgIndex |->
                       IF onStack(i) THEN StackWord(arg, rsp_ptr + (i - starting_arg(b)))
                       ELSE fromRegs[i]]
<1>1. fromRegs \in [ArgIndex -> Word]
    BY DEF Builder, RegBlock, ArgIndex
<1>2. ASSUME NEW i \in ArgIndex, onStack(i)
      PROVE  StackWord(arg, rsp_ptr + (i - starting_arg(b))) \in Word
    <2>1. starting_arg(b) \in {6, 7} /\ i \in Nat /\ i >= starting_arg(b)
        BY <1>2 DEF starting_arg, ArgIndex
    <2>2. 7 + ((4 + (i - starting_arg(b))) - 4) \in Nat
        BY <2>1
    <2> QED BY <2>2, CArgType, JunkAssumption DEF StackWord, rsp_ptr
<1>3. full \in [ArgIndex -> Word]
    <2> HIDE DEF fromRegs, onStack
    <2> QED BY <1>1, <1>2
<1>4. AsInt(r.rdi) \in Int32
    BY WordTypes DEF RegBlock
<1>5. full_args_init(b, r, arg) =
        [b EXCEPT !.sysnum = IF b.indirect THEN AsInt(r.rdi) ELSE @, !.arg = full]
    BY DEF full_args_init
<1> QED
    <2> HIDE DEF full
    <2> QED BY <1>3, <1>4, <1>5 DEF Builder

\* The registers set_return_values leaves.
LEMMA ReturnRegsType ==
    ASSUME NEW ra \in Retargs, NEW r \in RegBlock, NEW e \in Int32
    PROVE  ReturnRegs(ra, r, e) \in RegBlock
<1>1. ra.result0 \in Int32 /\ ra.result1 \in Int32
    BY DEF Retargs
<1>2. /\ SignExtend(ra.result0) \in Word /\ SignExtend(ra.result1) \in Word
      /\ ZeroExtend(ra.result0) \in Word /\ ZeroExtend(ra.result1) \in Word
      /\ OfPair(ra.result0, ra.result1) \in Word
      /\ NULL \in Word
      /\ SignExtend(e) \in Word
    BY <1>1, WordTypes
<1> QED
    BY <1>2 DEF ReturnRegs, RegBlock

\* The bounds of the ranges below, as inequalities: an interval between literals
\* would be enumerated.
LEMMA Limits ==
    /\ UCHAR_MAX \in Nat /\ 255 <= UCHAR_MAX /\ UCHAR_MAX <= 255
    /\ USHRT_MAX \in Nat /\ 65535 <= USHRT_MAX /\ USHRT_MAX <= 65535
    /\ SS_MAXSIZE \in Nat /\ SS_MAXSIZE <= 128
    /\ MAX_ERRNO \in Nat /\ MAX_ERRNO <= 4095
    /\ length_of_translation_array \in Nat
BY DEF UCHAR_MAX, USHRT_MAX, SS_MAXSIZE, MAX_ERRNO, length_of_translation_array

\* Errno values and counts are ints.
LEMMA IntSets ==
    /\ \A i \in ErrnoValue : i \in Int32 /\ -i \in Int32 /\ i # 0 /\ -i # 0
    /\ \A i \in NonNegative : i \in Int32
    /\ \A i \in AddressLength : i \in Int32 /\ i \in Byte
    /\ 0 \in Int32 /\ 0 \in NonNegative /\ 0 \in AddressLength /\ 0 \in Byte
<1>1. \A i \in ErrnoValue : i \in Int32 /\ -i \in Int32 /\ i # 0 /\ -i # 0
    BY Limits, IntMaxAssumption DEF ErrnoValue, Int32
<1>2. \A i \in NonNegative : i \in Int32
    BY IntMaxAssumption DEF NonNegative, Int32
<1>3. \A i \in AddressLength : i \in Int32 /\ i \in Byte
    BY Limits, IntMaxAssumption DEF AddressLength, Int32, Byte
<1>4. 0 \in Int32 /\ 0 \in NonNegative /\ 0 \in AddressLength /\ 0 \in Byte
    BY Limits, IntMaxAssumption DEF AddressLength, NonNegative, Int32, Byte
<1> QED
    BY <1>1, <1>2, <1>3, <1>4

\* The rows of the translation table.
LEMMA RowType == ASSUME NEW v PROVE Row(v) \in ErrnoValue \cup {0}
<1>1. \A w \in Translated : HostErrno[w] \in ErrnoValue
    BY HostErrnoAssumption
<1> QED
    BY <1>1, HostErrnoAssumption DEF Row

\* ENOSYS is an errno.
LEMMA EnosysType == ENOSYS \in ErrnoValue /\ ENOSYS \in Int32
<1>1. \A w \in Translated : HostErrno[w] \in ErrnoValue
    BY HostErrnoAssumption
<1>2. 38 \in Translated
    BY DEF Translated
<1> QED
    BY <1>1, <1>2, IntSets DEF ENOSYS

\* An errno below the length of the table is one of its indices.
LEMMA ErrnoIndex ==
    ASSUME NEW err \in ErrnoValue, err < length_of_translation_array
    PROVE  err \in 0 .. length_of_translation_array - 1
<1>1. err \in Nat
    BY Limits DEF ErrnoValue
<1> QED
    BY <1>1, Limits

\* What the table holds at one of its indices.
LEMMA TableRow ==
    ASSUME NEW v \in 0 .. length_of_translation_array - 1
    PROVE  linux_to_darwin[v] = Row(v)
BY Zenon DEF linux_to_darwin

\* The translation of a kernel errno is an int, and never 0.
LEMMA HostErrorType ==
    ASSUME NEW err \in ErrnoValue
    PROVE  HostError(err) \in Int32 /\ HostError(err) # 0
<1>1. err \in Int32 /\ -err \in Int32 /\ err # 0 /\ -err # 0
    BY IntSets
<1>2. Abs(-err) = err /\ -err < 0
    BY Limits DEF ErrnoValue, Abs
<1>3. CASE err < length_of_translation_array /\ linux_to_darwin[err] # 0
    <2>1. linux_to_darwin[err] = Row(err)
        BY <1>3, ErrnoIndex, TableRow
    <2>2. errno_linux_to_bsd(-err) = -Row(err)
        BY <1>2, <1>3, <2>1 DEF errno_linux_to_bsd
    <2>3. Row(err) \in ErrnoValue
        BY <1>3, <2>1, RowType
    <2>4. -Row(err) \in Int32 /\ -Row(err) # 0
        BY <2>3, IntSets
    <2> QED BY <1>1, <2>2, <2>4 DEF HostError
<1>4. CASE ~(err < length_of_translation_array /\ linux_to_darwin[err] # 0)
    <2>1. errno_linux_to_bsd(-err) = -err
        BY <1>2, <1>4 DEF errno_linux_to_bsd
    <2> QED BY <1>1, <2>1 DEF HostError
<1> QED
    BY <1>3, <1>4

\* Bytes and unsigned shorts.
LEMMA ByteTypes ==
    /\ \A i, j \in Byte : LittleEndian(i, j) \in UShort
    /\ \A i \in UShort : i % 256 \in Byte
    /\ \A i \in Byte : i \in UShort
<1>1. ASSUME NEW i \in Byte PROVE i \in UShort
    BY Limits DEF Byte, UShort
<1>2. ASSUME NEW i \in Byte, NEW j \in Byte PROVE LittleEndian(i, j) \in UShort
    <2>1. /\ i \in Int /\ 0 <= i /\ i <= 255
          /\ j \in Int /\ 0 <= j /\ j <= 255
        BY Limits DEF Byte
    <2>2. /\ i + 256 * j \in Int
          /\ 0 <= i + 256 * j
          /\ i + 256 * j <= 65535
        BY <2>1
    <2> QED BY <2>1, <2>2, Limits DEF UShort, LittleEndian
<1>3. ASSUME NEW i \in UShort PROVE i % 256 \in Byte
    <2>1. i \in Int
        BY Limits DEF UShort
    <2>2. i % 256 \in Int /\ 0 <= i % 256 /\ i % 256 <= 255
        BY <2>1
    <2> QED BY <2>1, <2>2, Limits DEF Byte
<1> QED
    BY <1>1, <1>2, <1>3

\* The four families of the table, or the family that was given.
LEMMA FamilyType ==
    ASSUME NEW f \in UShort
    PROVE  sfamily_linux_to_bsd(f) \in UShort
<1>1. /\ HostPF["LOCAL"] \in UShort /\ HostPF["INET"] \in UShort
      /\ HostPF["IPX"] \in UShort /\ HostPF["INET6"] \in UShort
    BY HostPFAssumption, ByteTypes
<1> QED
    BY <1>1 DEF sfamily_linux_to_bsd

\* The conversion of a socket address keeps its type, and never fails.
LEMMA FixupType ==
    ASSUME NEW sa \in Sockaddr, NEW len \in Int32
    PROVE  /\ sockaddr_fixup_from_linux(sa, len).out \in Sockaddr
           /\ sockaddr_fixup_from_linux(sa, len).ret \in Int32
<1>1. sa.bsd_length \in Byte /\ sa.bsd_family \in Byte /\ sa.path \in Nat
    BY DEF Sockaddr
<1> DEFINE family == sfamily_linux_to_bsd(linux_family(sa)) % 256
           local == family = HostPF["LOCAL"]
           path == IF local THEN Clipped(sa.path) ELSE sa.path
           ret == IF local THEN HeaderSize + path + 1 ELSE len
           length == IF ret >= 0 THEN ret % 256 ELSE sa.bsd_length
<1>2. family \in Byte
    <2>1. linux_family(sa) \in UShort
        BY <1>1, ByteTypes DEF linux_family
    <2>2. sfamily_linux_to_bsd(linux_family(sa)) \in UShort
        BY <2>1, FamilyType
    <2> QED BY <2>2, ByteTypes
<1> HIDE DEF family
<1>3. path \in Nat /\ ret \in Int32
    <2>1. \A p \in Nat :
          /\ Clipped(p) \in Nat /\ HeaderSize + Clipped(p) + 1 \in Nat
          /\ HeaderSize + Clipped(p) + 1 <= 106
        BY DEF Clipped, PathSize, HeaderSize
    <2>2. ASSUME NEW i \in Nat, i <= 106 PROVE i \in Int32
        <3>1. i <= INT_MAX
            BY <2>2, IntMaxAssumption
        <3>2. i \in NonNegative
            BY <3>1, IntMaxAssumption DEF NonNegative
        <3> QED BY <3>2, IntSets
    <2>3. CASE local
        BY <1>1, <2>1, <2>2, <2>3
    <2>4. CASE ~local
        BY <1>1, <2>4
    <2> QED BY <2>3, <2>4
<1> HIDE DEF path, ret
<1>4. length \in Byte
    <2>1. \A i \in Int32 : i % 256 \in Byte
        BY Limits, IntMaxAssumption DEF Int32, Byte
    <2> QED BY <1>1, <1>3, <2>1
<1>5. sockaddr_fixup_from_linux(sa, len) =
        [ret |-> ret, out |-> [bsd_length |-> length, bsd_family |-> family, path |-> path]]
    BY DEF sockaddr_fixup_from_linux, family, path, ret, vchroot_unexpand
<1> HIDE DEF length
<1> QED BY <1>2, <1>3, <1>4, <1>5 DEF Sockaddr

\* The rows of the system call table.
LEMMA UnixRowType ==
    ASSUME NEW n
    PROVE  /\ UnixRow(n).func \in {"NULL", "sys_syscall", "sys_write", "sys_recvfrom", "sys_pipe"}
           /\ UnixRow(n).arg_count \in {0, 3, 6}
<1>1. CASE n \in 0 .. DARLING_SYSCALLTABLE_UNIX_MAXSIZE - 1
    <2>1. UnixRow(n) = unix_syscall_table[n]
        BY <1>1 DEF UnixRow
    <2>2. unix_syscall_table[n] \in
            { [func |-> "sys_syscall",  arg_count |-> 0], [func |-> "sys_write", arg_count |-> 3],
              [func |-> "sys_recvfrom", arg_count |-> 6], [func |-> "sys_pipe", arg_count |-> 0],
              Unimplemented }
        BY <1>1 DEF unix_syscall_table
    <2> QED BY <2>1, <2>2 DEF Unimplemented
<1>2. CASE n \notin 0 .. DARLING_SYSCALLTABLE_UNIX_MAXSIZE - 1
    BY <1>2 DEF UnixRow, Unimplemented
<1> QED
    BY <1>1, <1>2

-----------------------------------------------------------------------------
(***************************************************************************)
(* Type correctness.                                                       *)
(***************************************************************************)
\* The records the variables start with.
LEMMA DefaultTypes ==
    /\ JunkRegs \in RegBlock
    /\ JunkRetargs \in Retargs
    /\ NoRequest \in CallRecord
    /\ NoUser \in User
    /\ NoAnswer \in Answer
    /\ NoHostCall \in [nr : HostFunc, args : Seq(Word)]
    /\ 0 \in Int32
<1>1. 0 \in Int32 /\ 0 \in Byte /\ 0 \in NonNegative /\ 0 \in AddressLength
    BY IntSets
<1>3. JunkRegs \in RegBlock
    BY JunkAssumption DEF JunkRegs, RegBlock
<1>4. AsInt(Junk) \in Int32
    BY JunkAssumption, WordTypes
<1>5. JunkRetargs \in Retargs
    BY <1>4 DEF JunkRetargs, Retargs, RetargTypes
<1>6. NoUser \in User
    BY <1>1 DEF NoUser, User, Sockaddr
<1>7. <<>> \in Seq(Word)
    OBVIOUS
<1>8. NoRequest \in CallRecord
    BY <1>1, <1>6, <1>7 DEF NoRequest, CallRecord
<1>9. NoAddress \in AddressRecord
    BY <1>1 DEF NoAddress, AddressRecord
<1>10. NoAnswer \in Answer
    BY <1>1, <1>9 DEF NoAnswer, Answer
<1>11. NoHostCall \in [nr : HostFunc, args : Seq(Word)]
    BY <1>7 DEF NoHostCall, HostFunc
<1> QED
    BY <1>1, <1>3, <1>5, <1>6, <1>8, <1>10, <1>11

\* An activation is a thread and a level.
LEMMA ActParts ==
    /\ \A a \in Act : a[1] \in Thread /\ a[2] \in 1 .. MaxDepth /\ a = <<a[1], a[2]>>
    /\ \A t \in Thread, d \in 1 .. MaxDepth : <<t, d>> \in Act
BY DEF Act

\* Moving a call on, within the emulator, leaves the levels in use alone.
LEMMA LevelsKept ==
    ASSUME TypeOK, NEW a \in Act, NEW p, pc[a] # "idle", p # "idle",
           pc' = [pc EXCEPT ![a] = p], UNCHANGED depth
    PROVE  LevelsInUse'
BY DEF TypeOK, LevelsInUse

LEMMA InitType == Init => TypeOK
<1> SUFFICES ASSUME Init PROVE TypeOK
    OBVIOUS
<1>1. depth \in [Thread -> 0 .. MaxDepth]
    BY ConstantsAssumption DEF Init
<1>2. LevelsInUse
    BY ActParts DEF Init, LevelsInUse
<1>3. partial_args_init(JunkRegs) \in Builder
    BY DefaultTypes, PartialArgsType
<1> QED
    BY <1>1, <1>2, <1>3, DefaultTypes DEF Init, TypeOK, PC

\* A call begins.
LEMMA BeginCallType ==
    ASSUME TypeOK, NEW t \in Thread, NEW c \in Call, BeginCall(t, c)
    PROVE  TypeOK'
<1> DEFINE a == <<t, depth[t] + 1>>
<1>1. depth[t] \in Nat /\ depth[t] + 1 \in 1 .. MaxDepth /\ depth[t] + 1 \in 0 .. MaxDepth
    BY ConstantsAssumption DEF TypeOK, BeginCall
<1>2. a \in Act
    BY <1>1, ActParts
<1>3. c \in CallRecord /\ EntryRegs(c.eax, c.arg) \in RegBlock /\ c.user \in User
    BY ConstantsAssumption, EntryRegsType DEF CallRecord
<1>4. LevelsInUse'
    <2>1. SUFFICES ASSUME NEW b \in Act
                   PROVE  pc'[b] = "idle" <=> b[2] > depth'[b[1]]
        BY DEF LevelsInUse
    <2>2. /\ pc'[b] = IF b = a THEN "entry" ELSE pc[b]
          /\ depth'[b[1]] = IF b[1] = t THEN depth[t] + 1 ELSE depth[b[1]]
        BY ActParts DEF TypeOK, BeginCall
    <2>3. b = a <=> b[1] = t /\ b[2] = depth[t] + 1
        BY ActParts
    <2>4. pc[b] = "idle" <=> b[2] > depth[b[1]]
        BY DEF TypeOK, LevelsInUse
    <2>5. b[2] \in Nat
        BY ActParts
    <2> QED BY <1>1, <2>2, <2>3, <2>4, <2>5
<1>5. depth' \in [Thread -> 0 .. MaxDepth]
    BY <1>1 DEF TypeOK, BeginCall
<1>6. pc' \in [Act -> PC]
    BY <1>2 DEF TypeOK, BeginCall, PC
<1> QED
    BY <1>2, <1>3, <1>4, <1>5, <1>6 DEF TypeOK, BeginCall

\* The stub returns to the program.
LEMMA StubReturnType ==
    ASSUME TypeOK, NEW a \in Act, StubReturn(a)
    PROVE  TypeOK'
<1>1. LevelsInUse'
    BY LevelsKept DEF StubReturn
<1>2. regs[a] \in RegBlock /\ user[a] \in User /\ a[1] \in Thread
    BY ActParts DEF TypeOK
<1>3. AsInt(regs[a].rax) \in Int32 /\ AsInt(regs[a].rdx) \in Int32
    BY <1>2, WordTypes DEF RegBlock
<1>4. /\ [regs[a] EXCEPT !.rax = MinusOne, !.rdx = MinusOne] \in RegBlock
      /\ [regs[a] EXCEPT !.rax = ZeroExtend(0)] \in RegBlock
    BY <1>2, WordTypes DEF RegBlock, NULL
<1>5. [user[a] EXCEPT !.fd0 = AsInt(regs[a].rax), !.fd1 = AsInt(regs[a].rdx)] \in User
    BY <1>2, <1>3 DEF User
<1>6. /\ regs' \in [Act -> RegBlock]
      /\ user' \in [Act -> User]
      /\ darling_errno' \in [Thread -> Int32]
    <2> DEFINE failed == [regs[a] EXCEPT !.rax = MinusOne, !.rdx = MinusOne]
               zero == [regs[a] EXCEPT !.rax = ZeroExtend(0)]
               fds == [user[a] EXCEPT !.fd0 = AsInt(regs[a].rax), !.fd1 = AsInt(regs[a].rdx)]
    <2>1. \/ /\ darling_errno' = [darling_errno EXCEPT ![a[1]] = AsInt(regs[a].rax)]
             /\ regs' = [regs EXCEPT ![a] = failed]
             /\ UNCHANGED user
          \/ /\ user' = [user EXCEPT ![a] = fds]
             /\ regs' = [regs EXCEPT ![a] = zero]
             /\ UNCHANGED darling_errno
          \/ UNCHANGED <<regs, user, darling_errno>>
        BY DEF StubReturn, ErrnoCell
    <2> HIDE DEF failed, zero, fds
    <2>2. failed \in RegBlock /\ zero \in RegBlock /\ fds \in User
        BY <1>4, <1>5 DEF failed, zero, fds
    <2> QED BY <1>2, <1>3, <2>1, <2>2 DEF TypeOK
<1>7. pc' \in [Act -> PC]
    BY DEF StubReturn, TypeOK, PC
<1> QED
    BY <1>1, <1>6, <1>7 DEF StubReturn, TypeOK

\* The program goes on.
LEMMA ReturnType ==
    ASSUME TypeOK, NEW a \in Act, Top(a), Return(a)
    PROVE  TypeOK'
<1>1. a[1] \in Thread /\ a[2] \in 1 .. MaxDepth /\ depth[a[1]] = a[2]
    BY ActParts DEF Top
<1>2. depth[a[1]] - 1 \in 0 .. MaxDepth
    BY <1>1, ConstantsAssumption
<1>3. LevelsInUse'
    <2>1. SUFFICES ASSUME NEW b \in Act
                   PROVE  pc'[b] = "idle" <=> b[2] > depth'[b[1]]
        BY DEF LevelsInUse
    <2>2. /\ pc'[b] = IF b = a THEN "idle" ELSE pc[b]
          /\ depth'[b[1]] = IF b[1] = a[1] THEN a[2] - 1 ELSE depth[b[1]]
        BY <1>1, ActParts DEF TypeOK, Return
    <2>3. b = a <=> b[1] = a[1] /\ b[2] = a[2]
        BY ActParts
    <2>4. pc[b] = "idle" <=> b[2] > depth[b[1]]
        BY DEF TypeOK, LevelsInUse
    <2>5. a[2] \in Int /\ b[2] \in Int
        BY ActParts
    <2>6. CASE b[1] = a[1]
        BY <1>1, <2>2, <2>3, <2>4, <2>5, <2>6
    <2>7. CASE b[1] # a[1]
        BY <2>2, <2>3, <2>4, <2>7
    <2> QED BY <2>6, <2>7
<1>4. depth' \in [Thread -> 0 .. MaxDepth]
    BY <1>1, <1>2 DEF TypeOK, Return
<1>5. pc' \in [Act -> PC]
    BY DEF TypeOK, Return, PC
<1>6. partial_args_init(JunkRegs) \in Builder
    BY DefaultTypes, PartialArgsType
<1> QED
    BY <1>3, <1>4, <1>5, <1>6, DefaultTypes DEF TypeOK, Return, Frame

\* The handler up to the dispatch.
LEMMA HandleSyscallType ==
    ASSUME TypeOK, NEW a \in Act, HandleSyscall(a)
    PROVE  TypeOK'
<1>1. LevelsInUse'
    BY LevelsKept DEF HandleSyscall
<1>2. partial_args_init(regs[a]) \in Builder
    BY PartialArgsType DEF TypeOK
<1>3. pc' \in [Act -> PC]
    BY DEF HandleSyscall, TypeOK, PC
<1>4. carry' \in [Act -> BOOLEAN]
    BY DEF HandleSyscall, TypeOK, ClearCarry
<1> QED
    BY <1>1, <1>2, <1>3, <1>4, DefaultTypes DEF HandleSyscall, TypeOK, Frame

\* The dispatcher.
LEMMA UnixBuilderType ==
    ASSUME NEW b \in Builder
    PROVE  UnixBuilder(b) \in Builder
<1>1. ASSUME NEW x \in BOOLEAN PROVE [b EXCEPT !.indirect = x] \in Builder
    BY DEF Builder
<1>2. (b.sysnum = 0) \in BOOLEAN
    OBVIOUS
<1> QED
    BY <1>1, <1>2 DEF UnixBuilder

LEMMA DispatchUnixType ==
    ASSUME TypeOK, NEW a \in Act, DispatchUnix(a)
    PROVE  TypeOK'
<1> DEFINE b   == UnixBuilder(builder[a])
           row == UnixRow(UnixNumber(builder[a]))
           b2  == [b EXCEPT !.arg_count = row.arg_count]
           ra  == [retargs[a] EXCEPT !.syscall_type = "UNIX", !.result0 = 0, !.result1 = 0]
           full == full_args_init(b2, regs[a], request[a].arg)
<1>1. b \in Builder
    BY UnixBuilderType DEF TypeOK
<1>2. row.func \in PC \cup {"NULL"} /\ row.func # "idle" /\ row.arg_count \in Nat
    BY UnixRowType DEF PC
<1> HIDE DEF row, b
<1>3. b2 \in Builder
    BY <1>1, <1>2 DEF Builder
<1>4. ra \in Retargs
    BY DefaultTypes DEF TypeOK, Retargs
<1>5. ENOSYS \in Int32
    BY EnosysType
<1> HIDE DEF b2, ra
<1>6. full \in Builder
    BY <1>3, FullArgsType DEF TypeOK, CallRecord
<1> HIDE DEF full
<1>7. /\ pc[a] = "unix"
      /\ retargs' = [retargs EXCEPT ![a] = ra]
      /\ \/ /\ builder' = [builder EXCEPT ![a] = b]
            /\ error' = [error EXCEPT ![a] = ENOSYS]
            /\ pc' = [pc EXCEPT ![a] = "set_return"]
         \/ /\ row.func # "NULL"
            /\ builder' = [builder EXCEPT ![a] = full]
            /\ pc' = [pc EXCEPT ![a] = IF TooManyParams(b2) THEN "trap" ELSE row.func]
            /\ UNCHANGED error
      /\ UNCHANGED <<depth, request, regs, carry, hostcall, answer, user, darling_errno,
                     host_errno>>
    BY DEF DispatchUnix, Frame, b, row, b2, ra, full
<1>8. LevelsInUse'
    BY <1>2, <1>7, LevelsKept
<1>9. pc' \in [Act -> PC]
    BY <1>2, <1>7 DEF TypeOK, PC
<1>10. /\ retargs' \in [Act -> Retargs]
       /\ builder' \in [Act -> Builder]
       /\ error' \in [Act -> Int32]
    <2>1. retargs' \in [Act -> Retargs]
        BY <1>4, <1>7 DEF TypeOK
    <2>2. ASSUME NEW v \in Builder PROVE [builder EXCEPT ![a] = v] \in [Act -> Builder]
        BY DEF TypeOK
    <2>3. builder' = [builder EXCEPT ![a] = b] \/ builder' = [builder EXCEPT ![a] = full]
        BY <1>7
    <2>4. builder' \in [Act -> Builder]
        BY <1>1, <1>6, <2>2, <2>3
    <2>5. ASSUME NEW v \in Int32 PROVE [error EXCEPT ![a] = v] \in [Act -> Int32]
        BY DEF TypeOK
    <2>6. error' = [error EXCEPT ![a] = ENOSYS] \/ error' = error
        BY <1>7
    <2>7. error' \in [Act -> Int32]
        BY <1>5, <2>5, <2>6 DEF TypeOK
    <2> QED BY <2>1, <2>4, <2>7
<1> QED
    BY <1>7, <1>8, <1>9, <1>10 DEF TypeOK

\* The registers are set.
LEMMA SetReturnValuesType ==
    ASSUME TypeOK, NEW a \in Act, SetReturnValues(a)
    PROVE  TypeOK'
<1>1. LevelsInUse'
    BY LevelsKept DEF SetReturnValues
<1>2. ReturnRegs(retargs[a], regs[a], error[a]) \in RegBlock
    BY ReturnRegsType DEF TypeOK
<1>3. carry' \in [Act -> BOOLEAN]
    BY DEF SetReturnValues, TypeOK, ReturnCarry, Frame
<1>4. pc' \in [Act -> PC]
    BY DEF SetReturnValues, TypeOK, PC
<1> QED
    BY <1>1, <1>2, <1>3, <1>4 DEF SetReturnValues, TypeOK, Frame

\* An implementation calls the host.
LEMMA CallHostType ==
    ASSUME TypeOK, NEW a \in Act, pc[a] # "idle", NEW type \in RetargTypes,
           NEW nr \in HostFunc, NEW args \in Seq(Word), CallHost(a, type, nr, args)
    PROVE  TypeOK'
<1>1. LevelsInUse'
    BY LevelsKept DEF CallHost
<1>2. [retargs[a] EXCEPT !.result_type = type] \in Retargs
    BY DEF TypeOK, Retargs
<1>3. pc' \in [Act -> PC]
    BY DEF CallHost, TypeOK, PC
<1>4. hostcall' \in [Act -> [nr : HostFunc, args : Seq(Word)]]
    BY DEF CallHost, TypeOK
<1>5. retargs' \in [Act -> Retargs]
    BY <1>2 DEF CallHost, TypeOK, Frame
<1> QED
    BY <1>1, <1>3, <1>4, <1>5 DEF CallHost, TypeOK

\* The arguments of an implementation are words.
LEMMA ArgWords ==
    ASSUME TypeOK, NEW a \in Act
    PROVE  \A i \in ArgIndex : /\ builder[Frame(a)].arg[i] \in Word
                               /\ SignExtend(AsInt(builder[Frame(a)].arg[i])) \in Word
<1>1. builder[Frame(a)].arg \in [ArgIndex -> Word]
    BY DEF TypeOK, Frame, Builder
<1> QED
    BY <1>1, WordTypes

LEMMA SysWriteType ==
    ASSUME TypeOK, NEW a \in Act, SysWrite(a)
    PROVE  TypeOK'
<1> DEFINE arg == builder[Frame(a)].arg
           args == <<SignExtend(AsInt(arg[1])), arg[2], SignExtend(AsInt(arg[3]))>>
<1>1. args \in Seq(Word)
    <2>1. 1 \in ArgIndex /\ 2 \in ArgIndex /\ 3 \in ArgIndex
        BY DEF ArgIndex
    <2>2. SignExtend(AsInt(arg[1])) \in Word /\ arg[2] \in Word /\ SignExtend(AsInt(arg[3])) \in Word
        BY <2>1, ArgWords
    <2> HIDE DEF arg
    <2> QED BY <2>2
<1>2. pc[a] # "idle" /\ CallHost(a, "SSIZE_T", "write", args)
    BY DEF SysWrite
<1> HIDE DEF args
<1>3. "SSIZE_T" \in RetargTypes /\ "write" \in HostFunc
    BY DEF RetargTypes, Wide, HostFunc
<1> QED
    BY <1>1, <1>2, <1>3, CallHostType

LEMMA SysRecvfromType ==
    ASSUME TypeOK, NEW a \in Act, SysRecvfrom(a)
    PROVE  TypeOK'
<1> DEFINE arg == builder[Frame(a)].arg
           args == <<SignExtend(AsInt(arg[1])), arg[2], arg[3],
                     SignExtend(AsInt(arg[4])), arg[5], arg[6]>>
<1>1. args \in Seq(Word)
    <2>1. 1 \in ArgIndex /\ 2 \in ArgIndex /\ 3 \in ArgIndex
          /\ 4 \in ArgIndex /\ 5 \in ArgIndex /\ 6 \in ArgIndex
        BY DEF ArgIndex
    <2>2. /\ SignExtend(AsInt(arg[1])) \in Word /\ arg[2] \in Word /\ arg[3] \in Word
          /\ SignExtend(AsInt(arg[4])) \in Word /\ arg[5] \in Word /\ arg[6] \in Word
        BY <2>1, ArgWords
    <2> HIDE DEF arg
    <2> QED BY <2>2
<1>2. pc[a] # "idle" /\ CallHost(a, "INT_T", "recvfrom", args)
    BY DEF SysRecvfrom
<1> HIDE DEF args
<1>3. "INT_T" \in RetargTypes /\ "recvfrom" \in HostFunc
    BY DEF RetargTypes, HostFunc
<1> QED
    BY <1>1, <1>2, <1>3, CallHostType

LEMMA SysPipeType ==
    ASSUME TypeOK, NEW a \in Act, SysPipe(a)
    PROVE  TypeOK'
<1>1. "INT_T" \in RetargTypes /\ "pipe" \in HostFunc /\ <<>> \in Seq(Word)
    BY DEF RetargTypes, HostFunc
<1>2. pc[a] # "idle" /\ CallHost(a, "INT_T", "pipe", <<>>)
    BY DEF SysPipe
<1> QED
    BY <1>1, <1>2, CallHostType

\* An implementation returns.
LEMMA LeaveImplType ==
    ASSUME TypeOK, NEW a \in Act, pc[a] # "idle",
           NEW e \in Int32, NEW r0 \in Int32, NEW r1 \in Int32, LeaveImpl(a, e, r0, r1),
           user' \in [Act -> User]
    PROVE  TypeOK'
<1>1. LevelsInUse'
    BY LevelsKept DEF LeaveImpl
<1>2. [retargs[a] EXCEPT !.result0 = r0, !.result1 = r1] \in Retargs
    <2>1. retargs[a] \in Retargs
        BY DEF TypeOK
    <2> QED BY <2>1 DEF Retargs
<1>3. pc' \in [Act -> PC]
    BY DEF LeaveImpl, TypeOK, PC
<1>4. retargs' \in [Act -> Retargs] /\ error' \in [Act -> Int32]
    BY <1>2 DEF LeaveImpl, TypeOK, Frame
<1> QED
    BY <1>1, <1>3, <1>4 DEF LeaveImpl, TypeOK

LEMMA ResultTypes ==
    ASSUME TypeOK, NEW a \in Act
    PROVE  retargs[Frame(a)].result0 \in Int32 /\ retargs[Frame(a)].result1 \in Int32
<1>1. retargs[Frame(a)] \in Retargs
    BY DEF TypeOK, Frame
<1> QED
    BY <1>1 DEF Retargs

LEMMA SysSyscallType ==
    ASSUME TypeOK, NEW a \in Act, SysSyscall(a)
    PROVE  TypeOK'
<1>1. user' \in [Act -> User]
    BY DEF SysSyscall, TypeOK
<1>2. pc[a] # "idle" /\ LeaveImpl(a, ENOSYS, retargs[Frame(a)].result0, retargs[Frame(a)].result1)
    BY DEF SysSyscall
<1>3. /\ ENOSYS \in Int32
      /\ retargs[Frame(a)].result0 \in Int32 /\ retargs[Frame(a)].result1 \in Int32
    BY ResultTypes, EnosysType
<1> QED
    BY <1>1, <1>2, <1>3, LeaveImplType

\* What the host may answer.
LEMMA AnswerTypes ==
    /\ \A e \in Errno : Refusal(e) \in Answer
    /\ \A n, m \in NonNegative, ad \in AddressRecord : Success(n, m, ad) \in Answer
    /\ NoAddress \in AddressRecord
<1>1. 0 \in NonNegative /\ 0 \in AddressLength /\ 0 \in Byte
    BY IntSets
<1>2. NoAddress \in AddressRecord
    BY <1>1 DEF NoAddress, AddressRecord
<1>3. ASSUME NEW e \in Errno PROVE Refusal(e) \in Answer
    BY <1>1, <1>2, ConstantsAssumption DEF Refusal, Answer
<1>4. ASSUME NEW n \in NonNegative, NEW m \in NonNegative, NEW ad \in AddressRecord
      PROVE  Success(n, m, ad) \in Answer
    BY DEF Success, Answer
<1> QED
    BY <1>2, <1>3, <1>4

\* What the host writes into a sender address.
LEMMA WriteSockaddrType ==
    ASSUME NEW sa \in Sockaddr, NEW ad \in AddressRecord
    PROVE  WriteSockaddr(sa, ad) \in Sockaddr
<1>1. ad.family \in Byte /\ ad.addrlen \in Byte /\ ad.path \in Nat /\ 0 \in Byte
    BY IntSets DEF AddressRecord
<1>2. ad.family % 256 \in Byte
    BY <1>1, ByteTypes
<1> QED
    BY <1>1, <1>2 DEF WriteSockaddr, Sockaddr

LEMMA AnsweredType ==
    ASSUME TypeOK, NEW a \in Act, NEW k \in Answer, NEW u \in User, Answered(a, k, u)
    PROVE  TypeOK'
<1>1. LevelsInUse'
    BY LevelsKept DEF Answered
<1>2. pc' \in [Act -> PC]
    BY DEF Answered, TypeOK, PC
<1>3. host_errno' \in [Thread -> ErrnoValue \cup {0}]
    <2>1. a[1] \in Thread /\ k.err \in ErrnoValue \cup {0}
        BY ActParts DEF Answer
    <2>2. PICK e \in ErrnoValue \cup {0} : host_errno' = [host_errno EXCEPT ![a[1]] = e]
        BY <2>1 DEF Answered, TypeOK
    <2> QED BY <2>1, <2>2 DEF TypeOK
<1> QED
    BY <1>1, <1>2, <1>3 DEF Answered, TypeOK

\* The host answers.
LEMMA HostAnswerType ==
    ASSUME TypeOK, NEW a \in Act, HostAnswer(a)
    PROVE  TypeOK'
<1>1. user[a] \in User /\ 0 \in NonNegative
    BY IntSets DEF TypeOK
<1>2. Count \subseteq NonNegative /\ Fd \subseteq NonNegative /\ Address \subseteq AddressRecord
    BY ConstantsAssumption
<1>3. CASE HostRefuses(a)
    <2>1. PICK e \in Errno : Answered(a, Refusal(e), user[a])
        BY <1>3 DEF HostRefuses
    <2>2. Refusal(e) \in Answer
        BY AnswerTypes
    <2> QED BY <1>1, <2>1, <2>2, AnsweredType
<1>4. CASE HostTransfers(a)
    <2>1. PICK n \in Count : Answered(a, Success(n, 0, NoAddress), user[a])
        BY <1>4 DEF HostTransfers
    <2>2. Success(n, 0, NoAddress) \in Answer
        BY <1>1, <1>2, AnswerTypes
    <2> QED BY <1>1, <2>1, <2>2, AnsweredType
<1>5. CASE HostMakesPipe(a)
    <2>1. PICK f \in Fd, g \in Fd : Answered(a, Success(f, g, NoAddress), user[a])
        BY <1>5 DEF HostMakesPipe
    <2>2. Success(f, g, NoAddress) \in Answer
        BY <1>1, <1>2, AnswerTypes
    <2> QED BY <1>1, <2>1, <2>2, AnsweredType
<1>6. CASE HostReceives(a)
    <2>1. PICK n \in Count, ad \in Address :
              Answered(a, Success(n, 0, ad), Filled(user[a], ad))
        BY <1>6 DEF HostReceives
    <2>2. ad \in AddressRecord /\ Success(n, 0, ad) \in Answer
        BY <1>1, <1>2, AnswerTypes
    <2>3. WriteSockaddr(user[a].sockaddr, ad) \in Sockaddr /\ ad.addrlen \in Int32
        BY <1>1, <2>2, WriteSockaddrType, IntSets DEF User, AddressRecord
    <2>4. Filled(user[a], ad) \in User
        BY <1>1, <2>3 DEF User, Filled
    <2> QED BY <2>1, <2>2, <2>4, AnsweredType
<1> QED
    BY <1>3, <1>4, <1>5, <1>6 DEF HostAnswer

\* The parts of an answer and what the implementations return.
LEMMA AnswerParts ==
    ASSUME TypeOK, NEW a \in Act
    PROVE  /\ answer[a].val \in Int32 /\ answer[a].val2 \in Int32
           /\ answer[a].err # 0 => ErrorRead(a) \in Int32
<1>1. answer[a] \in Answer
    BY DEF TypeOK
<1>2. host_errno[a[1]] \in Int32
    <2>1. host_errno[a[1]] \in ErrnoValue \cup {0}
        BY ActParts DEF TypeOK
    <2> QED BY <2>1, IntSets
<1> QED
    BY <1>1, <1>2, IntSets, HostErrorType DEF Answer, ErrorRead

LEMMA HostFailedType ==
    ASSUME TypeOK, NEW a \in Act, pc[a] # "idle", HostFailed(a)
    PROVE  TypeOK'
<1> DEFINE ra == retargs[Frame(a)]
<1>1. answer[a].err # 0 /\ LeaveImpl(a, ErrorRead(a), ra.result0, ra.result1)
    BY DEF HostFailed
<1>2. user' \in [Act -> User]
    BY DEF HostFailed, TypeOK
<1>3. /\ ErrorRead(a) \in Int32
      /\ ra.result0 \in Int32 /\ ra.result1 \in Int32
    BY <1>1, AnswerParts, ResultTypes
<1> HIDE DEF ra
<1> QED
    BY <1>1, <1>2, <1>3, LeaveImplType

LEMMA FinishWriteType ==
    ASSUME TypeOK, NEW a \in Act, FinishWrite(a)
    PROVE  TypeOK'
<1>1. CASE HostFailed(a)
    BY <1>1, HostFailedType DEF FinishWrite
<1>2. CASE LeaveImpl(a, 0, answer[a].val, 0) /\ UNCHANGED user
    <2>1. pc[a] # "idle" /\ user' \in [Act -> User]
        BY <1>2 DEF FinishWrite, TypeOK
    <2>2. 0 \in Int32 /\ answer[a].val \in Int32
        BY AnswerParts, DefaultTypes
    <2> QED BY <1>2, <2>1, <2>2, LeaveImplType
<1> QED
    BY <1>1, <1>2 DEF FinishWrite

LEMMA FinishPipeType ==
    ASSUME TypeOK, NEW a \in Act, FinishPipe(a)
    PROVE  TypeOK'
<1>1. CASE HostFailed(a)
    BY <1>1, HostFailedType DEF FinishPipe
<1>2. CASE LeaveImpl(a, 0, answer[a].val, answer[a].val2) /\ UNCHANGED user
    <2>1. pc[a] # "idle" /\ user' \in [Act -> User]
        BY <1>2 DEF FinishPipe, TypeOK
    <2>2. 0 \in Int32 /\ answer[a].val \in Int32 /\ answer[a].val2 \in Int32
        BY AnswerParts, DefaultTypes
    <2> QED BY <1>2, <2>1, <2>2, LeaveImplType
<1> QED
    BY <1>1, <1>2 DEF FinishPipe

LEMMA FinishRecvfromType ==
    ASSUME TypeOK, NEW a \in Act, FinishRecvfrom(a)
    PROVE  TypeOK'
<1> DEFINE result1 == retargs[Frame(a)].result1
           fixed   == sockaddr_fixup_from_linux(user[a].sockaddr, user[a].socklen)
           result0 == IF fixed.ret < 0 THEN fixed.ret ELSE answer[a].val
           converted == [user[a] EXCEPT !.socklen = fixed.ret, !.sockaddr = fixed.out]
<1>1. pc[a] # "idle"
    BY DEF FinishRecvfrom
<1>2. 0 \in Int32 /\ answer[a].val \in Int32 /\ result1 \in Int32
    BY AnswerParts, ResultTypes, DefaultTypes
<1>3. CASE HostFailed(a)
    BY <1>1, <1>3, HostFailedType
<1>4. CASE /\ user' = [user EXCEPT ![a] = converted]
           /\ LeaveImpl(a, 0, result0, result1)
    <2>1. user[a] \in User
        BY DEF TypeOK
    <2>2. fixed.ret \in Int32 /\ fixed.out \in Sockaddr
        BY <2>1, FixupType DEF User
    <2> HIDE DEF fixed
    <2>3. result0 \in Int32 /\ converted \in User
        BY <1>2, <2>1, <2>2 DEF User
    <2> HIDE DEF result0, converted, result1
    <2>4. user' \in [Act -> User]
        BY <1>4, <2>3 DEF TypeOK
    <2> QED BY <1>1, <1>2, <1>4, <2>3, <2>4, LeaveImplType
<1>5. CASE LeaveImpl(a, 0, answer[a].val, result1) /\ UNCHANGED user
    <2>1. user' \in [Act -> User]
        BY <1>5 DEF TypeOK
    <2> HIDE DEF result1
    <2> QED BY <1>1, <1>2, <1>5, <2>1, LeaveImplType
<1> QED
    BY <1>3, <1>4, <1>5 DEF FinishRecvfrom

\* The program resets darling_errno.
LEMMA SetCerrorType ==
    ASSUME TypeOK, NEW t \in Thread, SetCerror(t)
    PROVE  TypeOK'
<1>1. darling_errno' \in [Thread -> Int32]
    BY DefaultTypes DEF SetCerror, TypeOK
<1> QED
    BY <1>1 DEF SetCerror, TypeOK, LevelsInUse

-----------------------------------------------------------------------------
\* One step of the specification.
LEMMA StepType == TypeOK /\ [Next]_vars => TypeOK'
<1> SUFFICES ASSUME TypeOK, [Next]_vars PROVE TypeOK'
    OBVIOUS
<1>1. CASE UNCHANGED vars
    BY <1>1 DEF vars, TypeOK, LevelsInUse
<1>2. CASE \E t \in Thread, c \in Call : BeginCall(t, c)
    BY <1>2, BeginCallType
<1>3. ASSUME NEW a \in Act, Top(a), Emulate(a)
      PROVE  TypeOK'
    BY <1>3, HandleSyscallType, DispatchUnixType, SetReturnValuesType, StubReturnType,
       SysSyscallType, SysWriteType, SysRecvfromType, SysPipeType,
       FinishWriteType, FinishPipeType, FinishRecvfromType DEF Emulate
<1>4. ASSUME NEW a \in Act, Top(a), HostAnswer(a)
      PROVE  TypeOK'
    BY <1>4, HostAnswerType
<1>5. ASSUME NEW a \in Act, Top(a), Return(a)
      PROVE  TypeOK'
    BY <1>5, ReturnType
<1>6. CASE \E t \in Thread : SetCerror(t)
    BY <1>6, SetCerrorType
<1> QED
    BY <1>1, <1>2, <1>3, <1>4, <1>5, <1>6 DEF Next, Step

\* Every variable keeps its C type, and the calls in progress on a thread are always
\* the lowest levels: whatever the interleaving, no call is begun or left half done.
THEOREM TypeCorrect == Spec => []TypeOK
<1>1. Init => TypeOK
    BY InitType
<1>2. TypeOK /\ [Next]_vars => TypeOK'
    BY StepType
<1> QED
    BY <1>1, <1>2, PTL DEF Spec
=============================================================================
